------------------------ MODULE CommandControlProofs ------------------------
(***************************************************************************)
(* What the replay protection and the acknowledgement cache guarantee      *)
(* while a server process lives, for any number of stations, commands,     *)
(* attempts and failures.                                                  *)
(***************************************************************************)
EXTENDS CommandControl, TLAPS

\* The replay history knows every command this process has processed.
Remembered ==
  \A k \in DOMAIN log :
    /\ log[k].cmd.authentic
    /\ log[k].life <= life
    /\ log[k].life = life => log[k].cmd.n <= memory.highest

\* The cache holds the result of every command this process could log ...
CachedIfLogged ==
  \A k \in DOMAIN log : log[k].life = life /\ log[k].audited =>
    memory.cache[log[k].cmd.n] = [cmd |-> log[k].cmd, ack |-> log[k].ack]

\* ... and nothing but results.
Explains(c, ack) == \E k \in DOMAIN log : log[k].cmd = c /\ log[k].ack = ack
CacheExplained ==
  \A n \in Id : memory.cache[n] # None =>
    Explains(memory.cache[n].cmd, memory.cache[n].ack)

\* What the server is about to reply as a result is one.
ReplyExplained ==
  server.pc = "replying" /\ server.ack.status \in {"ACCEPTED", "REJECTED"} =>
    Explains(cmd, server.ack)

IInv ==
  /\ TypeOK
  /\ Remembered
  /\ CachedIfLogged
  /\ CacheExplained
  /\ ReplyExplained
  /\ ProcessedInOrder
  /\ RepliesLogged
  /\ StationsToldTheTruth

Entry == [cmd : Command, life : Nat, ack : Ack, audited : BOOLEAN]

-----------------------------------------------------------------------------
(* Types                                                                   *)

LEMMA ResultType ==
  ASSUME NEW type \in CommandType, NEW unit \in RemoteUnitState
  PROVE  /\ Result(type, unit) \in Ack
         /\ Result(type, unit).status \in {"ACCEPTED", "REJECTED"}
         /\ Result(type, unit).after \in RemoteUnitState
BY DEF Result, Ack, CommandType, RemoteUnitState, Permitted, LeadsTo

LEMMA RefusalType ==
  ASSUME NEW unit \in RemoteUnitState,
         NEW status \in {"INVALID", "UNAUTHORIZED", "SECURITY_REJECTED"}
  PROVE  Refusal(status, unit) \in Ack
BY DEF Refusal, Ack, RemoteUnitState

LEMMA BlankType == Blank \in Memory
BY DEF Blank, Memory, RemoteUnitState

LEMMA InitType == Init => TypeOK
BY CommandAssumption, BlankType
   DEF Init, TypeOK, StationState, Thread

\* The command being read.
LEMMA Reading ==
  ASSUME TypeOK, server.pc \in {"reading", "replying"}
  PROVE  /\ server.conn \in Connection /\ cmd \in Command /\ cmd.n \in Id
         /\ cmd.authentic \in BOOLEAN
         /\ Script[cmd.n] \in CommandType
BY CommandAssumption DEF TypeOK, Connection, Command, Id, cmd

\* The stations are typed and know which command they send.
StationsOK ==
  /\ stations \in [Station -> StationState]
  /\ \A s \in Station :
       stations[s].pc \in {"sending", "waiting"} => stations[s].n \in Id

LEMMA StationTypes ==
  ASSUME StationsOK, NEW s \in Station, NEW st \in StationState,
         st.pc \in {"sending", "waiting"} => st.n \in Id,
         stations' = [stations EXCEPT ![s] = st]
  PROVE  StationsOK'
BY DEF StationsOK

LEMMA SendingType ==
  ASSUME NEW n \in Nat, NEW at \in Int, NEW authentic \in BOOLEAN
  PROVE  /\ Sending(n, at, authentic) \in StationState
         /\ Sending(n, at, authentic).pc \in {"sending", "waiting"} =>
              Sending(n, at, authentic).n \in Id
BY DEF Sending, StationState

LEMMA NextAttemptType ==
  ASSUME StationsOK, NEW s \in Station, stations[s].pc \in {"sending", "waiting"},
         NextAttempt(s)
  PROVE  StationsOK'
<1> DEFINE st == stations[s]
           again == [pc |-> "sending", n |-> st.n, attempt |-> st.attempt + 1,
                     at |-> st.at, authentic |-> st.authentic]
           over == [st EXCEPT !.pc = "ended"]
<1>1. st \in StationState /\ st.n \in Id
  BY DEF StationsOK
<1>2. again \in StationState /\ again.n \in Id
  BY <1>1 DEF StationState
<1>3. over \in StationState /\ over.pc = "ended"
  BY <1>1 DEF StationState
<1>4. stations' = [stations EXCEPT ![s] = again] \/ stations' = [stations EXCEPT ![s] = over]
  BY DEF NextAttempt
<1>. HIDE DEF again, over
<1>. QED
  BY <1>2, <1>3, <1>4, StationTypes

LEMMA TypeStep == TypeOK /\ [Next]_vars => TypeOK'
<1> SUFFICES ASSUME TypeOK, [Next]_vars PROVE TypeOK'
  OBVIOUS
<1> USE CommandAssumption
<1>0. StationsOK /\ memory \in Memory /\ memory.unit \in RemoteUnitState
  BY DEF TypeOK, StationsOK, Memory
<1>1. ASSUME NEW s \in Station, StationNext(s) PROVE TypeOK'
  <2>0. stations[s] \in StationState
    BY DEF TypeOK
  <2>1. CASE Launch(s)
    <3>1. StationsOK'
      <4>1. PICK authentic \in BOOLEAN :
              stations' = [stations EXCEPT ![s] = Sending(1, now + Skew[s], authentic)]
        BY <2>1 DEF Launch
      <4>2. now + Skew[s] \in Int
        BY DEF TypeOK
      <4>. QED
        BY <1>0, <4>1, <4>2, SendingType, StationTypes
    <3>. QED
      BY <2>1, <3>1 DEF Launch, TypeOK, StationsOK
  <2>2. CASE Connect(s)
    <3>1. [stations[s] EXCEPT !.pc = "waiting"] \in StationState
      BY <2>0 DEF StationState
    <3>2. StationsOK'
      BY <1>0, <2>0, <2>2, <3>1 DEF Connect, StationsOK
    <3>3. [cmd |-> CommandOf(s), attempt |-> stations[s].attempt] \in Connection
      BY <1>0, <2>0, <2>2 DEF Connect, StationsOK, CommandOf, Connection, Command,
                              StationState
    <3>4. queue' \in Seq(Connection)
      BY <2>2, <3>3 DEF Connect, TypeOK
    <3>. QED
      BY <2>2, <3>2, <3>4 DEF Connect, TypeOK, StationsOK
  <2>3. CASE Refused(s) \/ AttemptFails(s)
    <3>1. StationsOK'
      BY <1>0, <2>3, NextAttemptType DEF Refused, AttemptFails
    <3>. QED
      BY <2>3, <3>1 DEF Refused, AttemptFails, TypeOK, StationsOK
  <2>. QED
    BY <1>1, <2>1, <2>2, <2>3 DEF StationNext
<1>2. CASE Accept
  <2>1. Head(queue) \in Connection /\ Tail(queue) \in Seq(Connection)
    BY <1>2 DEF Accept, TypeOK
  <2>. QED
    BY <1>2, <2>1 DEF Accept, TypeOK, Thread
<1>3. CASE Unauthorized \/ Reject \/ AuditFailsEarly
  <2>1. /\ Refusal("UNAUTHORIZED", memory.unit) \in Ack
        /\ Refusal("SECURITY_REJECTED", memory.unit) \in Ack
        /\ Refusal("INVALID", memory.unit) \in Ack
    BY <1>0, RefusalType
  <2>. QED
    BY <1>3, <2>1, Reading
       DEF Unauthorized, Reject, AuditFailsEarly, Fault, Answer, Thread, TypeOK
<1>4. CASE AnswerRetry
  <2>1. cmd.n \in Id /\ server.conn \in Connection
    BY <1>4, Reading DEF AnswerRetry
  <2>2. memory.cache[cmd.n].ack \in Ack
    BY <1>0, <1>4, <2>1 DEF AnswerRetry, Cached, Memory, Answered
  <2>. QED
    BY <1>4, <2>1, <2>2 DEF AnswerRetry, Answer, Thread, TypeOK
<1>5. CASE Process \/ AuditFailsProcessed \/ AuditFailsRecorded
  <2> DEFINE ack == Result(Script[cmd.n], memory.unit)
             entry(b) == [cmd |-> cmd, life |-> life, ack |-> ack, audited |-> b]
             cached == [memory.cache EXCEPT ![cmd.n] = [cmd |-> cmd, ack |-> ack]]
  <2>1. NewCommand
    BY <1>5 DEF Process, AuditFailsProcessed, AuditFailsRecorded
  <2>2. cmd \in Command /\ cmd.n \in Id /\ server.conn \in Connection
        /\ Script[cmd.n] \in CommandType
    BY <2>1, Reading DEF NewCommand
  <2>3. ack \in Ack /\ ack.after \in RemoteUnitState
    BY <1>0, <2>2, ResultType
  <2>4. \A b \in BOOLEAN : entry(b) \in Entry
    BY <2>2, <2>3 DEF Entry, TypeOK
  <2>5. cached \in [Id -> Answered \cup {None}]
    BY <1>0, <2>2, <2>3 DEF Memory, Answered
  <2>6. ASSUME NEW unit \in RemoteUnitState,
               NEW cache \in [Id -> Answered \cup {None}]
        PROVE  Recorded(unit, cache) \in Memory
    BY <1>0, <2>2, <2>6 DEF Recorded, Memory, Id
  <2>7. memory' \in Memory
    <3>1. memory.cache \in [Id -> Answered \cup {None}]
      BY <1>0 DEF Memory
    <3>. QED
      BY <1>0, <1>5, <2>3, <2>5, <2>6, <3>1, ZenonT(60)
         DEF Process, AuditFailsProcessed, AuditFailsRecorded
  <2>8. log' \in Seq(Entry)
    <3>1. log \in Seq(Entry)
      BY DEF TypeOK, Entry
    <3>2. CASE log' = log
      BY <3>1, <3>2
    <3>3. ASSUME NEW b \in BOOLEAN, log' = Append(log, entry(b)) PROVE log' \in Seq(Entry)
      <4>. HIDE DEF entry
      <4>. QED
        BY <2>4, <3>1, <3>3
    <3>. QED
      BY <1>5, <3>2, <3>3
         DEF Process, AuditFailsProcessed, AuditFailsRecorded, Logs
  <2>9. server'.pc = "replying" /\ server'.conn \in Connection /\ server'.ack \in Ack
    <3>1. /\ Refusal("INVALID", memory.unit) \in Ack
          /\ Refusal("INVALID", ack.after) \in Ack
      BY <1>0, <2>3, RefusalType
    <3>2. \/ Answer(ack)
          \/ Answer(Refusal("INVALID", memory.unit))
          \/ Answer(Refusal("INVALID", ack.after))
      BY <1>5 DEF Process, AuditFailsProcessed, AuditFailsRecorded
    <3>. HIDE DEF ack
    <3>. QED
      BY <2>2, <2>3, <3>1, <3>2 DEF Answer, Thread
  <2>10. /\ UNCHANGED <<stations, got, queue, life, now>>
         /\ faults' = faults \/ faults' = faults + 1
    BY <1>5 DEF Process, AuditFailsProcessed, AuditFailsRecorded, Fault
  <2>. QED
    BY <2>7, <2>8, <2>9, <2>10 DEF TypeOK, Entry
<1>6. CASE DropAck
  <2>1. [memory EXCEPT !.dropped = TRUE] \in Memory
    BY <1>0 DEF Memory
  <2>. QED
    BY <1>6, <2>1 DEF DropAck, TypeOK, Thread
<1>7. CASE SendAck
  <2>0. /\ cmd \in Command /\ cmd.n \in Id /\ server.ack \in Ack
        /\ cmd.station \in Station /\ cmd.at \in Int /\ cmd.authentic \in BOOLEAN
    BY <1>7, Reading DEF SendAck, TypeOK, Command
  <2>1. StationsOK'
    <3>1. CASE ~Listening
      BY <1>0, <1>7, <3>1 DEF SendAck, StationsOK
    <3>2. CASE Listening
      <4>1. cmd.n + 1 \in Nat
        BY <2>0 DEF Id
      <4>2. stations' = [stations EXCEPT ![cmd.station] =
                           Sending(cmd.n + 1, cmd.at, cmd.authentic)]
        BY <1>7, <3>2 DEF SendAck
      <4>. QED
        BY <1>0, <2>0, <4>1, <4>2, SendingType, StationTypes
    <3>. QED
      BY <3>1, <3>2
  <2>2. got' \in [Station -> [Id -> Ack \cup {None}]]
    <3>1. got[cmd.station] \in [Id -> Ack \cup {None}]
      BY <2>0 DEF TypeOK
    <3>2. [got[cmd.station] EXCEPT ![cmd.n] = server.ack] \in [Id -> Ack \cup {None}]
      BY <2>0, <3>1
    <3>3. CASE ~Listening
      BY <1>7, <3>3 DEF SendAck, TypeOK
    <3>4. CASE Listening
      BY <1>7, <2>0, <3>2, <3>4 DEF SendAck, TypeOK
    <3>. QED
      BY <3>3, <3>4
  <2>. QED
    BY <1>7, <2>1, <2>2 DEF SendAck, TypeOK, StationsOK, Thread
<1>8. CASE Die
  BY <1>8 DEF Die, Fault, TypeOK, Thread
<1>9. CASE Restart
  BY <1>9, BlankType DEF Restart, TypeOK, Thread
<1>10. CASE Tick
  BY <1>10 DEF Tick, TypeOK
<1>11. CASE UNCHANGED vars
  BY <1>11 DEF vars, TypeOK, cmd
<1>. QED
  BY <1>1, <1>2, <1>3, <1>4, <1>5, <1>6, <1>7, <1>8, <1>9, <1>10, <1>11
     DEF Next, ServerNext

\* Type correctness of the stations, the connections and the server.
THEOREM TypeCorrect == Spec => []TypeOK
BY InitType, TypeStep, PTL DEF Spec

-----------------------------------------------------------------------------
(* The invariant                                                           *)

LEMMA InitInv == Init => IInv
<1> SUFFICES ASSUME Init PROVE IInv
  OBVIOUS
<1>1. log = <<>> /\ server.pc = "idle" /\ memory = Blank /\ DOMAIN log = {}
  BY DEF Init, Thread
<1>2. StationsToldTheTruth
  BY DEF Init, StationsToldTheTruth
<1>3. CacheExplained
  BY <1>1 DEF CacheExplained, Blank
<1>. QED
  BY <1>1, <1>2, <1>3, InitType
     DEF IInv, Remembered, CachedIfLogged, ReplyExplained, ProcessedInOrder,
         RepliesLogged

\* Explanations last: the log only grows.
Grows == \A k \in DOMAIN log : k \in DOMAIN log' /\ log'[k] = log[k]

LEMMA ExplainsLasts ==
  ASSUME Grows, NEW c, NEW ack, Explains(c, ack)
  PROVE  Explains(c, ack)'
BY DEF Grows, Explains

\* The parts of the invariant that are about the log and the memory.
LogInv ==
  Remembered /\ CachedIfLogged /\ CacheExplained /\ ProcessedInOrder

\* The parts that are about the reply.
ReplyInv == ReplyExplained /\ RepliesLogged

LEMMA Parts == IInv => TypeOK /\ LogInv /\ ReplyInv /\ StationsToldTheTruth
BY DEF IInv, LogInv, ReplyInv

LEMMA Whole ==
  ASSUME TypeOK', LogInv', ReplyInv', StationsToldTheTruth'
  PROVE  IInv'
BY DEF IInv, LogInv, ReplyInv

LEMMA EntryType ==
  ASSUME TypeOK, NEW k \in DOMAIN log
  PROVE  /\ log[k].cmd \in Command /\ log[k].cmd.n \in Nat /\ log[k].ack \in Ack
         /\ log[k].life \in Nat
<1>1. log \in Seq(Entry)
  BY DEF TypeOK, Entry
<1>2. log[k] \in Entry
  BY <1>1
<1>. QED
  BY <1>2 DEF Entry, Command, Id

LEMMA LogFrame ==
  ASSUME LogInv, UNCHANGED <<log, life>>, memory'.highest = memory.highest,
         memory'.cache = memory.cache
  PROVE  LogInv'
BY DEF LogInv, Remembered, CachedIfLogged, CacheExplained, Explains, ProcessedInOrder

LEMMA ReplyFrame ==
  ASSUME ReplyInv, UNCHANGED <<log, life, server>>
  PROVE  ReplyInv'
BY DEF ReplyInv, ReplyExplained, RepliesLogged, ProcessedNow, Explains, cmd

LEMMA NoReply ==
  ASSUME server'.pc # "replying"
  PROVE  ReplyInv'
BY DEF ReplyInv, ReplyExplained, RepliesLogged

LEMMA TruthFrame ==
  ASSUME StationsToldTheTruth, Grows, UNCHANGED got
  PROVE  StationsToldTheTruth'
<1> SUFFICES ASSUME NEW s \in Station, NEW n \in Id, got[s][n] # None,
                    got[s][n].status \in {"ACCEPTED", "REJECTED"}
             PROVE  \E k \in DOMAIN log' :
                      /\ log'[k].cmd.station = s /\ log'[k].cmd.n = n
                      /\ log'[k].ack = got[s][n]
  BY DEF StationsToldTheTruth
<1>1. PICK k \in DOMAIN log : /\ log[k].cmd.station = s /\ log[k].cmd.n = n
                              /\ log[k].ack = got[s][n]
  BY DEF StationsToldTheTruth
<1>. QED
  BY <1>1 DEF Grows

LEMMA Same == log' = log => Grows
BY DEF Grows

\* Every step preserves the invariant.
LEMMA InvStep == IInv /\ [Next]_vars => IInv'
<1> SUFFICES ASSUME IInv, [Next]_vars PROVE IInv'
  OBVIOUS
<1>0. TypeOK /\ LogInv /\ ReplyInv /\ StationsToldTheTruth
  BY Parts
<1>t. TypeOK'
  BY <1>0, TypeStep
<1>1. CASE (\E s \in Station : StationNext(s)) \/ Tick \/ UNCHANGED vars
  <2>1. UNCHANGED <<got, server, memory, life, log>>
    BY <1>1 DEF StationNext, Launch, Connect, Refused, AttemptFails, Tick, vars
  <2>. QED
    BY <1>0, <1>t, <2>1, Whole, LogFrame, ReplyFrame, TruthFrame, Same
<1>2. CASE Accept \/ Die
  <2>1. UNCHANGED <<got, memory, life, log>> /\ server'.pc # "replying"
    BY <1>2 DEF Accept, Die, Thread
  <2>. QED
    BY <1>0, <1>t, <2>1, Whole, LogFrame, NoReply, TruthFrame, Same
<1>3. CASE DropAck
  <2>1. UNCHANGED <<got, life, log>> /\ server'.pc # "replying"
    BY <1>3 DEF DropAck, Thread
  <2>2. memory'.highest = memory.highest /\ memory'.cache = memory.cache
    BY <1>0, <1>3 DEF DropAck, TypeOK, Memory
  <2>. QED
    BY <1>0, <1>t, <2>1, <2>2, Whole, LogFrame, NoReply, TruthFrame, Same
<1>4. CASE SendAck
  <2>1. UNCHANGED <<memory, life, log>> /\ server'.pc # "replying"
    BY <1>4 DEF SendAck, Thread
  <2>2. StationsToldTheTruth'
    <3>1. CASE ~Listening
      BY <1>0, <1>4, <2>1, <3>1, TruthFrame, Same DEF SendAck
    <3>2. CASE Listening
      <4>0. /\ server.pc = "replying" /\ cmd.station \in Station /\ cmd.n \in Id
            /\ got' = [got EXCEPT ![cmd.station] =
                         [got[cmd.station] EXCEPT ![cmd.n] = server.ack]]
            /\ got \in [Station -> [Id -> Ack \cup {None}]]
        BY <1>0, <1>4, <3>2, Reading DEF SendAck, TypeOK, Command
      <4> SUFFICES ASSUME NEW s \in Station, NEW n \in Id, got'[s][n] # None,
                          got'[s][n].status \in {"ACCEPTED", "REJECTED"}
                   PROVE  \E k \in DOMAIN log :
                            /\ log[k].cmd.station = s /\ log[k].cmd.n = n
                            /\ log[k].ack = got'[s][n]
        BY <2>1 DEF StationsToldTheTruth
      <4>1. CASE s = cmd.station /\ n = cmd.n
        <5>1. got'[s][n] = server.ack
          BY <4>0, <4>1
        <5>. QED
          BY <1>0, <4>0, <4>1, <5>1 DEF ReplyInv, ReplyExplained, Explains
      <4>2. CASE ~(s = cmd.station /\ n = cmd.n)
        <5>1. got'[s][n] = got[s][n]
          BY <4>0, <4>2
        <5>. QED
          BY <1>0, <5>1 DEF StationsToldTheTruth
      <4>. QED
        BY <4>1, <4>2
    <3>. QED
      BY <3>1, <3>2
  <2>. QED
    BY <1>0, <1>t, <2>1, <2>2, Whole, LogFrame, NoReply
<1>5. CASE Restart
  <2>1. UNCHANGED <<got, log>> /\ server'.pc # "replying" /\ memory' = Blank
        /\ life' = life + 1
    BY <1>5 DEF Restart, Thread
  <2>2. \A k \in DOMAIN log : log[k].life \in Nat /\ log[k].life # life'
    BY <1>0, <2>1, EntryType DEF LogInv, Remembered, TypeOK
  <2>3. LogInv'
    BY <1>0, <2>1, <2>2
       DEF LogInv, Remembered, CachedIfLogged, CacheExplained, ProcessedInOrder,
           TypeOK, Blank
  <2>. QED
    BY <1>0, <1>t, <2>1, <2>3, Whole, NoReply, TruthFrame, Same
<1>6. CASE Unauthorized \/ Reject \/ AuditFailsEarly \/ AnswerRetry
  <2>1. UNCHANGED <<got, memory, life, log>> /\ server.pc = "reading"
        /\ cmd' = cmd /\ server'.pc = "replying"
    BY <1>6 DEF Unauthorized, Reject, AuditFailsEarly, AnswerRetry, Answer, Thread, cmd
  <2>2. cmd \in Command /\ cmd.n \in Id
    BY <1>0, <2>1, Reading
  <2>3. ASSUME NEW k \in ProcessedNow, log[k].audited
        PROVE  Cached /\ cmd.authentic /\ memory.cache[cmd.n].ack = log[k].ack
    <3>1. k \in DOMAIN log /\ log[k].life = life /\ log[k].cmd = cmd
      BY <2>3 DEF ProcessedNow
    <3>2. cmd.authentic /\ memory.cache[cmd.n] = [cmd |-> cmd, ack |-> log[k].ack]
      BY <1>0, <2>3, <3>1 DEF LogInv, Remembered, CachedIfLogged
    <3>3. log[k].ack \in Ack
      BY <1>0, <3>1, EntryType
    <3>. QED
      BY <2>2, <3>2, <3>3, NoneAssumption DEF Cached, Answered
  <2>4. RepliesLogged'
    <3>1. ProcessedNow' = ProcessedNow
      BY <2>1 DEF ProcessedNow
    <3>2. \/ server'.ack.status = "INVALID" \/ ~cmd.authentic \/ ~Cached
          \/ server'.ack = memory.cache[cmd.n].ack
      BY <1>6 DEF Unauthorized, Reject, AuditFailsEarly, AnswerRetry, Answer, Thread,
                  Refusal
    <3>. QED
      BY <2>1, <2>3, <3>1, <3>2 DEF RepliesLogged, ProcessedNow
  <2>5. ReplyExplained'
    <3>1. CASE AnswerRetry
      BY <1>0, <2>1, <2>2, <3>1
         DEF AnswerRetry, Answer, Thread, Cached, LogInv, CacheExplained,
             ReplyExplained, Explains
    <3>2. CASE Unauthorized \/ Reject \/ AuditFailsEarly
      BY <3>2 DEF Unauthorized, Reject, AuditFailsEarly, Answer, Thread, Refusal,
                  ReplyExplained
    <3>. QED
      BY <1>6, <3>1, <3>2
  <2>. QED
    BY <1>0, <1>t, <2>1, <2>4, <2>5, Whole, LogFrame, TruthFrame, Same DEF ReplyInv
<1>7. CASE Process \/ AuditFailsProcessed
  <2> DEFINE ack == Result(Script[cmd.n], memory.unit)
             entry(b) == [cmd |-> cmd, life |-> life, ack |-> ack, audited |-> b]
             cached == [memory.cache EXCEPT ![cmd.n] = [cmd |-> cmd, ack |-> ack]]
  <2>0. NewCommand /\ life' = life /\ got' = got /\ server'.pc = "replying" /\ cmd' = cmd
    <3>1. NewCommand /\ life' = life /\ got' = got
      BY <1>7 DEF Process, AuditFailsProcessed
    <3>2. \E a : Answer(a)
      BY <1>7 DEF Process, AuditFailsProcessed
    <3>. QED
      BY <3>1, <3>2 DEF Answer, Thread, cmd
  <2>1. /\ cmd \in Command /\ cmd.n \in Id /\ cmd.n \in Nat /\ cmd.authentic
        /\ memory.highest \in Nat /\ cmd.n > memory.highest
        /\ memory.cache \in [Id -> Answered \cup {None}] /\ life \in Nat
    BY <1>0, <2>0, Reading DEF NewCommand, Acceptable, TypeOK, Memory, Id
  <2>2. PICK b \in BOOLEAN :
          /\ log' = Append(log, entry(b))
          /\ memory'.highest = cmd.n
          /\ \/ b /\ memory'.cache = cached /\ server'.ack = ack
             \/ ~b /\ memory'.cache = memory.cache /\ server'.ack.status = "INVALID"
    <3>1. CASE Process
      BY <3>1 DEF Process, Logs, Recorded, Answer, Thread
    <3>2. CASE AuditFailsProcessed
      BY <3>2 DEF AuditFailsProcessed, Logs, Recorded, Answer, Thread, Refusal
    <3>. QED
      BY <1>7, <3>1, <3>2
  <2>3. /\ Grows
        /\ Len(log) + 1 \in DOMAIN log' /\ log'[Len(log) + 1] = entry(b)
        /\ \A k \in DOMAIN log' : k \in DOMAIN log \/ k = Len(log) + 1
        /\ \A k \in DOMAIN log : k \in Nat /\ k < Len(log) + 1
        /\ Len(log) \in Nat
    BY <1>0, <2>2 DEF TypeOK, Grows
  <2>4. /\ entry(b).cmd = cmd /\ entry(b).life = life /\ entry(b).ack = ack
        /\ entry(b).audited = b
    OBVIOUS
  <2> HIDE DEF entry, ack
  <2>5. \A k \in DOMAIN log : log[k].life = life => log[k].cmd.n < cmd.n
    BY <1>0, <2>1, EntryType DEF LogInv, Remembered
  <2>6. Remembered'
    <3> SUFFICES ASSUME NEW k \in DOMAIN log'
                 PROVE  /\ log'[k].cmd.authentic
                        /\ log'[k].life <= life
                        /\ log'[k].life = life => log'[k].cmd.n <= memory'.highest
      BY <2>0 DEF Remembered
    <3>1. CASE k \in DOMAIN log
      BY <1>0, <2>1, <2>2, <2>3, <2>5, <3>1, EntryType DEF LogInv, Remembered, Grows
    <3>2. CASE k = Len(log) + 1
      BY <2>1, <2>2, <2>3, <2>4, <3>2
    <3>. QED
      BY <2>3, <3>1, <3>2
  <2>7. ProcessedInOrder'
    <3> SUFFICES ASSUME NEW j \in DOMAIN log', NEW k \in DOMAIN log', j < k,
                        log'[j].life = log'[k].life
                 PROVE  log'[j].cmd.n < log'[k].cmd.n
      BY DEF ProcessedInOrder
    <3>1. CASE k \in DOMAIN log
      <4>1. j \in DOMAIN log
        BY <2>3, <3>1
      <4>. QED
        BY <1>0, <2>3, <3>1, <4>1 DEF LogInv, ProcessedInOrder, Grows
    <3>2. CASE k = Len(log) + 1
      <4>1. j \in DOMAIN log
        BY <2>3, <3>2
      <4>. QED
        BY <2>3, <2>4, <2>5, <3>2, <4>1 DEF Grows
    <3>. QED
      BY <2>3, <3>1, <3>2
  <2>8. CachedIfLogged'
    <3> SUFFICES ASSUME NEW k \in DOMAIN log', log'[k].life = life, log'[k].audited
                 PROVE  memory'.cache[log'[k].cmd.n] =
                          [cmd |-> log'[k].cmd, ack |-> log'[k].ack]
      BY <2>0 DEF CachedIfLogged
    <3>1. CASE k \in DOMAIN log
      <4>1. /\ log'[k] = log[k] /\ log[k].cmd.n < cmd.n /\ log[k].cmd.n \in Id
            /\ memory.cache[log[k].cmd.n] = [cmd |-> log[k].cmd, ack |-> log[k].ack]
        BY <1>0, <2>3, <2>5, <3>1, EntryType
           DEF LogInv, CachedIfLogged, Grows, Command
      <4>2. memory'.cache[log[k].cmd.n] = memory.cache[log[k].cmd.n]
        BY <2>1, <2>2, <4>1 DEF Id
      <4>. QED
        BY <4>1, <4>2
    <3>2. CASE k = Len(log) + 1
      BY <2>1, <2>2, <2>3, <2>4, <3>2
    <3>. QED
      BY <2>3, <3>1, <3>2
  <2>9. CacheExplained'
    <3> SUFFICES ASSUME NEW n \in Id, memory'.cache[n] # None
                 PROVE  \E k \in DOMAIN log' : /\ log'[k].cmd = memory'.cache[n].cmd
                                               /\ log'[k].ack = memory'.cache[n].ack
      BY DEF CacheExplained, Explains
    <3>1. CASE memory'.cache[n] = memory.cache[n]
      <4>1. PICK k \in DOMAIN log : /\ log[k].cmd = memory.cache[n].cmd
                                    /\ log[k].ack = memory.cache[n].ack
        BY <1>0, <3>1 DEF LogInv, CacheExplained, Explains
      <4>. QED
        BY <2>3, <3>1, <4>1 DEF Grows
    <3>2. CASE memory'.cache[n] = [cmd |-> cmd, ack |-> ack]
      BY <2>3, <2>4, <3>2
    <3>. QED
      BY <2>1, <2>2, <3>1, <3>2
  <2>10. ReplyExplained'
    <3>1. ReplyExplained' <=>
            (server'.ack.status \in {"ACCEPTED", "REJECTED"} =>
               \E k \in DOMAIN log' : log'[k].cmd = cmd /\ log'[k].ack = server'.ack)
      BY <2>0 DEF ReplyExplained, Explains
    <3>. QED
      BY <2>2, <2>3, <2>4, <3>1
  <2>11. RepliesLogged'
    <3> SUFFICES ASSUME server'.ack.status # "INVALID", NEW k \in DOMAIN log',
                        log'[k].life = life, log'[k].cmd = cmd
                 PROVE  server'.ack = log'[k].ack
      BY <2>0 DEF RepliesLogged, ProcessedNow
    <3>1. k = Len(log) + 1
      BY <2>1, <2>3, <2>5 DEF Grows
    <3>. QED
      BY <2>2, <2>3, <2>4, <3>1
  <2>. QED
    BY <1>0, <1>t, <2>0, <2>3, <2>6, <2>7, <2>8, <2>9, <2>10, <2>11, Whole,
       TruthFrame
       DEF LogInv, ReplyInv
<1>8. CASE AuditFailsRecorded
  <2>1. UNCHANGED <<got, life, log>> /\ server'.pc = "replying"
        /\ server'.ack.status = "INVALID"
    BY <1>8 DEF AuditFailsRecorded, Answer, Thread, Refusal
  <2>2. ReplyInv'
    BY <2>1 DEF ReplyInv, ReplyExplained, RepliesLogged
  <2>3. memory'.cache = memory.cache /\ memory'.highest = cmd.n
        /\ cmd.n > memory.highest /\ cmd.n \in Nat /\ memory.highest \in Nat
    BY <1>0, <1>8, Reading
       DEF AuditFailsRecorded, NewCommand, Acceptable, Recorded, Memory, TypeOK, Id
  <2>4. LogInv'
    BY <1>0, <2>1, <2>3, EntryType
       DEF LogInv, Remembered, CachedIfLogged, CacheExplained, Explains,
           ProcessedInOrder
  <2>. QED
    BY <1>0, <1>t, <2>1, <2>2, <2>4, Whole, TruthFrame, Same
<1>. QED
  BY <1>1, <1>2, <1>3, <1>4, <1>5, <1>6, <1>7, <1>8 DEF Next, ServerNext

LEMMA Invariance == Spec => []IInv
BY InitInv, InvStep, PTL DEF Spec

\* While a server process lives no message id is processed twice and sequence
\* numbers grow (FR-012, FR-013), for any number of stations and retries.
THEOREM CommandsAreProcessedInOrder == Spec => []ProcessedInOrder
<1>1. IInv => ProcessedInOrder
  BY DEF IInv
<1>. QED
  BY <1>1, Invariance, PTL

\* The acknowledgement of a command that was processed and logged is what every
\* later reply to it repeats (FR-016, FR-017).
THEOREM RetriesGetTheOriginal == Spec => []RepliesLogged
<1>1. IInv => RepliesLogged
  BY DEF IInv
<1>. QED
  BY <1>1, Invariance, PTL

\* No station is told the result of another station's command (FR-018).
THEOREM AcknowledgementsAreTrue == Spec => []StationsToldTheTruth
<1>1. IInv => StationsToldTheTruth
  BY DEF IInv
<1>. QED
  BY <1>1, Invariance, PTL
=============================================================================
