--------------------------- MODULE CommandControl ---------------------------
(***************************************************************************)
(* The command server of secure-command-control-simulator and the control  *)
(* stations that command its remote unit.                                  *)
(*                                                                         *)
(* A station (one run of control_station_client.py) creates its commands   *)
(* at once, with the message ids and sequence numbers 1, 2, ..., and sends *)
(* them one after the other, each up to MaxAttempts times over a fresh TCP *)
(* connection.  The server takes one connection at a time in the order of  *)
(* the accept queue; a connection whose station gave up is still read.     *)
(* Everything the server remembers is lost when its process ends.          *)
(***************************************************************************)
EXTENDS Integers, Sequences

CONSTANTS
  Station,       \* runs of the control station
  Script,        \* sequence of the command types a station sends
  Skew,          \* [Station -> Int]: offset of a station's clock
  MaxAttempts,   \* MAX_ACK_ATTEMPTS
  MaxAge,        \* DEFAULT_MAXIMUM_MESSAGE_AGE
  MaxAhead,      \* DEFAULT_FUTURE_CLOCK_SKEW
  DropFirst,     \* message id whose first acknowledgement is dropped, or None
  MaxTime,       \* bound: the clock stops here
  MaxLives,      \* bound: processes of the server
  MaxFaults,     \* bound: failures of the audit log and of the server
  None

CommandType == {"START_SYSTEM", "ACTIVATE_SYSTEM", "STOP_SYSTEM",
                "ENTER_SAFE_MODE", "RESET_SYSTEM", "SHUTDOWN_SYSTEM"}

ASSUME CommandAssumption ==
  /\ Script \in Seq(CommandType)
  /\ Skew \in [Station -> Int]
  /\ MaxAttempts \in Nat \ {0} /\ MaxAge \in Nat /\ MaxAhead \in Nat
  /\ MaxTime \in Nat /\ MaxLives \in Nat /\ MaxFaults \in Nat

Id == 1..Len(Script)

VARIABLES
  stations,  \* [Station -> record]: send_command_with_retry of every station
  got,       \* [Station -> [Id -> acknowledgement or None]]: what it received
  queue,     \* connections the server has not accepted yet
  server,    \* the server's thread, its connection and its answer
  memory,    \* unit state, replay history and acknowledgement cache
  life,      \* number of the server's process
  log,       \* history: the commands that reached the command processor
  now,
  faults     \* number of failures so far

vars == <<stations, got, queue, server, memory, life, log, now, faults>>

-----------------------------------------------------------------------------
(* The remote unit                                                         *)

RemoteUnitState == {"OFFLINE", "STANDBY", "ACTIVE", "SAFE_MODE"}

\* The states in which a command is permitted, and where it leads.
Permitted ==
  [START_SYSTEM    |-> {"OFFLINE"},
   ACTIVATE_SYSTEM |-> {"STANDBY"},
   STOP_SYSTEM     |-> {"ACTIVE"},
   ENTER_SAFE_MODE |-> {"STANDBY", "ACTIVE"},
   RESET_SYSTEM    |-> {"SAFE_MODE"},
   SHUTDOWN_SYSTEM |-> {"STANDBY", "ACTIVE", "SAFE_MODE"}]
LeadsTo ==
  [START_SYSTEM    |-> "STANDBY",
   ACTIVATE_SYSTEM |-> "ACTIVE",
   STOP_SYSTEM     |-> "STANDBY",
   ENTER_SAFE_MODE |-> "SAFE_MODE",
   RESET_SYSTEM    |-> "STANDBY",
   SHUTDOWN_SYSTEM |-> "OFFLINE"]

Ack == [status : {"ACCEPTED", "REJECTED", "INVALID", "UNAUTHORIZED",
                  "SECURITY_REJECTED"},
        before : RemoteUnitState, after : RemoteUnitState]

Result(type, unit) ==
  IF unit \in Permitted[type]
  THEN [status |-> "ACCEPTED", before |-> unit, after |-> LeadsTo[type]]
  ELSE [status |-> "REJECTED", before |-> unit, after |-> unit]

\* An acknowledgement that is not the result of the command.
Refusal(status, unit) == [status |-> status, before |-> unit, after |-> unit]

-----------------------------------------------------------------------------
(* State                                                                   *)

\* A command, signed with the server's secret or with another one; its
\* timestamp is its station's, so the record stands for its signature too.
Command == [station : Station, n : Id, at : Int, authentic : BOOLEAN]
Answered == [cmd : Command, ack : Ack]
Connection == [cmd : Command, attempt : Nat]

StationState == [pc : {"new", "sending", "waiting", "ended"}, n : Nat,
                 attempt : Nat, at : Int, authentic : BOOLEAN]

Memory == [unit : RemoteUnitState, seen : SUBSET Id, highest : Nat,
           cache : [Id -> Answered \cup {None}],
           dropped : BOOLEAN]

ASSUME NoneAssumption == None \notin Id /\ None \notin Answered

\* Mutant: no default for the highest sequence number.
BlankWithoutDefault ==
  [unit |-> "OFFLINE", seen |-> {}, highest |-> -1,
   cache |-> [n \in Id |-> None], dropped |-> FALSE]

Blank ==
  [unit |-> "OFFLINE", seen |-> {}, highest |-> 0,
   cache |-> [n \in Id |-> None], dropped |-> FALSE]

Thread(pc, conn, ack) == [pc |-> pc, conn |-> conn, ack |-> ack]

Init ==
  /\ stations = [s \in Station |-> [pc |-> "new", n |-> 0, attempt |-> 0, at |-> 0,
                                   authentic |-> FALSE]]
  /\ got = [s \in Station |-> [n \in Id |-> None]]
  /\ queue = <<>>
  /\ server = Thread("idle", None, None)
  /\ memory = Blank
  /\ life = 1
  /\ log = <<>>
  /\ now = 0
  /\ faults = 0

-----------------------------------------------------------------------------
(* The control station                                                     *)

CommandOf(s) ==
  [station |-> s, n |-> stations[s].n, at |-> stations[s].at,
   authentic |-> stations[s].authentic]

\* The station sends command n for the first time, or has sent them all.
Sending(n, at, authentic) ==
  [pc |-> IF n \in Id THEN "sending" ELSE "ended", n |-> n, attempt |-> 1,
   at |-> at, authentic |-> authentic]

\* main reads the shared secret of its environment, creates all commands and
\* sends them in order.
Launch(s) ==
  /\ stations[s].pc = "new"
  /\ \E authentic \in BOOLEAN :
       stations' = [stations EXCEPT ![s] = Sending(1, now + Skew[s], authentic)]
  /\ UNCHANGED <<got, queue, server, memory, life, log, now, faults>>

\* The identical command is sent again, or the station gives up and stops.
NextAttempt(s) ==
  LET st == stations[s] IN
  stations' = [stations EXCEPT ![s] =
    IF st.attempt < MaxAttempts
    THEN [pc |-> "sending", n |-> st.n, attempt |-> st.attempt + 1,
          at |-> st.at, authentic |-> st.authentic]
    ELSE [st EXCEPT !.pc = "ended"]]

\* send_one_attempt connects and writes the command.
Connect(s) ==
  /\ stations[s].pc = "sending" /\ server.pc # "down"
  /\ queue' = Append(queue, [cmd |-> CommandOf(s), attempt |-> stations[s].attempt])
  /\ stations' = [stations EXCEPT ![s].pc = "waiting"]
  /\ UNCHANGED <<got, server, memory, life, log, now, faults>>

Refused(s) ==
  /\ stations[s].pc = "sending" /\ server.pc = "down"
  /\ NextAttempt(s)
  /\ UNCHANGED <<got, queue, server, memory, life, log, now, faults>>

\* The wait ends without an acknowledgement: the timeout, or a connection that
\* was closed or reset.
AttemptFails(s) ==
  /\ stations[s].pc = "waiting"
  /\ NextAttempt(s)
  /\ UNCHANGED <<got, queue, server, memory, life, log, now, faults>>

-----------------------------------------------------------------------------
(* processCommand                                                          *)

cmd == server.conn.cmd

\* Mutants: a retry is answered from the cache while it is not expired; the
\* cached answer is given whatever the signature.
CachedUnexpired ==
  /\ memory.cache[cmd.n] # None
  /\ memory.cache[cmd.n].cmd = cmd
  /\ cmd.at >= now - MaxAge
CachedById == memory.cache[cmd.n] # None

\* contains and signatureMatches
Cached == memory.cache[cmd.n] # None /\ memory.cache[cmd.n].cmd = cmd

\* Mutant: the sequence number is not looked at.
AcceptableById ==
  /\ cmd.at >= now - MaxAge /\ cmd.at <= now + MaxAhead
  /\ cmd.n \notin memory.seen

\* The tests of validateAndRecord: not expired, not from the future, an id that
\* was not processed, a sequence number beyond the highest.
Acceptable ==
  /\ cmd.at >= now - MaxAge /\ cmd.at <= now + MaxAhead
  /\ cmd.n \notin memory.seen
  /\ cmd.n > memory.highest

Answer(ack) == server' = Thread("replying", server.conn, ack)

Unauthorized ==
  /\ server.pc = "reading" /\ ~cmd.authentic
  /\ Answer(Refusal("UNAUTHORIZED", memory.unit))
  /\ UNCHANGED <<stations, got, queue, memory, life, log, now, faults>>

\* An identical retry gets the cached acknowledgement.
AnswerRetry ==
  /\ server.pc = "reading" /\ cmd.authentic /\ Cached
  /\ Answer(memory.cache[cmd.n].ack)
  /\ UNCHANGED <<stations, got, queue, memory, life, log, now, faults>>

\* MESSAGE_ID_COLLISION, or a rejection by validateAndRecord.
Reject ==
  /\ server.pc = "reading" /\ cmd.authentic /\ ~Cached
  /\ memory.cache[cmd.n] # None \/ ~Acceptable
  /\ Answer(Refusal("SECURITY_REJECTED", memory.unit))
  /\ UNCHANGED <<stations, got, queue, memory, life, log, now, faults>>

\* The memory once the command is recorded.
Recorded(unit, cache) ==
  [unit |-> unit, seen |-> memory.seen \cup {cmd.n}, highest |-> cmd.n,
   cache |-> cache, dropped |-> memory.dropped]

NewCommand ==
  /\ server.pc = "reading" /\ cmd.authentic
  /\ memory.cache[cmd.n] = None /\ Acceptable

Logs(ack, audited) ==
  log' = Append(log, [cmd |-> cmd, life |-> life, ack |-> ack, audited |-> audited])

\* The command is recorded, processed and its acknowledgement cached.
Process ==
  LET ack == Result(Script[cmd.n], memory.unit) IN
  /\ NewCommand
  /\ memory' = Recorded(ack.after, [memory.cache EXCEPT ![cmd.n] =
                                      [cmd |-> cmd, ack |-> ack]])
  /\ Logs(ack, TRUE)
  /\ Answer(ack)
  /\ UNCHANGED <<stations, got, queue, life, now, faults>>

-----------------------------------------------------------------------------
(* Failures of the audit log inside processCommand: INVALID is answered    *)

\* One of the bounded failures: log throws, or the process dies.
Fault == faults < MaxFaults /\ faults' = faults + 1

\* ... on the line of the authentication, the retry or the rejection,
AuditFailsEarly ==
  /\ server.pc = "reading" /\ Fault
  /\ Answer(Refusal("INVALID", memory.unit))
  /\ UNCHANGED <<stations, got, queue, memory, life, log, now>>

\* ... between the recording of the command and its processing,
AuditFailsRecorded ==
  /\ NewCommand /\ Fault
  /\ memory' = Recorded(memory.unit, memory.cache)
  /\ Answer(Refusal("INVALID", memory.unit))
  /\ UNCHANGED <<stations, got, queue, life, log, now>>

\* ... between the processing and the cache.
AuditFailsProcessed ==
  LET ack == Result(Script[cmd.n], memory.unit) IN
  /\ NewCommand /\ Fault
  /\ memory' = Recorded(ack.after, memory.cache)
  /\ Logs(ack, FALSE)
  /\ Answer(Refusal("INVALID", ack.after))
  /\ UNCHANGED <<stations, got, queue, life, now>>

-----------------------------------------------------------------------------
(* The server's thread                                                     *)

Accept ==
  /\ server.pc = "idle" /\ queue # <<>>
  /\ server' = Thread("reading", Head(queue), None)
  /\ queue' = Tail(queue)
  /\ UNCHANGED <<stations, got, memory, life, log, now, faults>>

\* shouldDropAcknowledgement; an INVALID acknowledgement has no message id.
Drops ==
  cmd.n = DropFirst /\ ~memory.dropped /\ server.ack.status # "INVALID"

DropAck ==
  /\ server.pc = "replying" /\ Drops
  /\ memory' = [memory EXCEPT !.dropped = TRUE]
  /\ server' = Thread("idle", None, None)
  /\ UNCHANGED <<stations, got, queue, life, log, now, faults>>

\* The station still waits on the connection.
Listening ==
  LET s == cmd.station IN
  /\ stations[s].pc = "waiting"
  /\ CommandOf(s) = cmd
  /\ stations[s].attempt = server.conn.attempt

\* The acknowledgement reaches its station, which sends its next command, or
\* nobody.
SendAck ==
  LET s == cmd.station IN
  /\ server.pc = "replying" /\ ~Drops
  /\ IF Listening
     THEN /\ got' = [got EXCEPT ![s] = [got[s] EXCEPT ![cmd.n] = server.ack]]
          /\ stations' = [stations EXCEPT ![s] =
                            Sending(cmd.n + 1, cmd.at, cmd.authentic)]
     ELSE UNCHANGED <<got, stations>>
  /\ server' = Thread("idle", None, None)
  /\ UNCHANGED <<queue, memory, life, log, now, faults>>

\* The process ends: a crash, or a failure of the audit log that start() does
\* not catch.  Connections are reset and nothing is remembered.
Die ==
  /\ server.pc # "down" /\ Fault
  /\ server' = Thread("down", None, None)
  /\ queue' = <<>>
  /\ UNCHANGED <<stations, got, memory, life, log, now>>

\* restart: on-failure
Restart ==
  /\ server.pc = "down" /\ life < MaxLives
  /\ server' = Thread("idle", None, None)
  /\ memory' = Blank
  /\ life' = life + 1
  /\ UNCHANGED <<stations, got, queue, log, now, faults>>

Tick ==
  /\ now < MaxTime
  /\ now' = now + 1
  /\ UNCHANGED <<stations, got, queue, server, memory, life, log, faults>>

-----------------------------------------------------------------------------
StationNext(s) == Launch(s) \/ Connect(s) \/ Refused(s) \/ AttemptFails(s)

ServerNext ==
  \/ Accept \/ Unauthorized \/ AnswerRetry \/ Reject \/ Process
  \/ AuditFailsEarly \/ AuditFailsRecorded \/ AuditFailsProcessed
  \/ DropAck \/ SendAck \/ Die \/ Restart

Next == (\E s \in Station : StationNext(s)) \/ ServerNext \/ Tick

Spec == Init /\ [][Next]_vars

-----------------------------------------------------------------------------
(* Properties                                                              *)

\* Stations, connections, memory and history keep their types.
TypeOK ==
  /\ stations \in [Station -> StationState]
  /\ \A s \in Station :
       stations[s].pc \in {"sending", "waiting"} => stations[s].n \in Id
  /\ got \in [Station -> [Id -> Ack \cup {None}]]
  /\ queue \in Seq(Connection)
  /\ \/ server.pc \in {"down", "idle"}
     \/ server.pc = "reading" /\ server.conn \in Connection
     \/ server.pc = "replying" /\ server.conn \in Connection /\ server.ack \in Ack
  /\ memory \in Memory
  /\ log \in Seq([cmd : Command, life : Nat, ack : Ack, audited : BOOLEAN])
  /\ life \in Nat /\ now \in Nat /\ faults \in Nat

\* While a server process lives the unit processes no message id twice and no
\* command after one with a higher sequence number, whatever is retried, late,
\* dropped or sent by a second station under the same ids.
ProcessedInOrder ==
  \A j, k \in DOMAIN log :
    j < k /\ log[j].life = log[k].life => log[j].cmd.n < log[k].cmd.n

\* The entries of this life for the command the server is replying to.
ProcessedNow == {k \in DOMAIN log : log[k].life = life /\ log[k].cmd = cmd}

\* "An identical retry receives the cached ACK": whenever the server replies at
\* all (INVALID tells of an internal failure) to a command that it has processed
\* and logged, the reply is the result of that processing; an expired, late or
\* overtaken retry is never answered by a refusal.
RepliesLogged ==
  server.pc = "replying" /\ server.ack.status # "INVALID" =>
    \A k \in ProcessedNow : log[k].audited => server.ack = log[k].ack

\* A station that is told ACCEPTED or REJECTED is told the result of its own
\* command, not of a namesake that another station sent.
StationsToldTheTruth ==
  \A s \in Station, n \in Id :
    got[s][n] # None /\ got[s][n].status \in {"ACCEPTED", "REJECTED"} =>
      \E k \in DOMAIN log :
        /\ log[k].cmd.station = s /\ log[k].cmd.n = n
        /\ log[k].ack = got[s][n]
=============================================================================
