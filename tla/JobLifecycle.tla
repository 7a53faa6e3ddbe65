---------------------------- MODULE JobLifecycle ----------------------------
(***************************************************************************)
(* What the job system promises about one job: it is attempted at most     *)
(* MaxAttempts times, one attempt at a time as far as its row tells, every *)
(* attempt ends in success, in another attempt while some are left, or in  *)
(* the dead-letter state, and a submitted job does end.                    *)
(***************************************************************************)
EXTENDS Integers

CONSTANTS Job, MaxAttempts
VARIABLES status, attempts

Update(j, st, n) ==
  /\ status' = [status EXCEPT ![j] = st]
  /\ attempts' = [attempts EXCEPT ![j] = n]

Init ==
  /\ status = [j \in Job |-> "absent"]
  /\ attempts = [j \in Job |-> 0]

Submit(j) == status[j] = "absent" /\ Update(j, "queued", 0)

Attempt(j) ==
  /\ status[j] \in {"queued", "retry_scheduled"}
  /\ attempts[j] < MaxAttempts[j]
  /\ Update(j, "running", attempts[j] + 1)

Succeed(j) == status[j] = "running" /\ Update(j, "succeeded", attempts[j])

GiveUp(j) == status[j] = "running" /\ Update(j, "dead_lettered", attempts[j])

Retry(j) ==
  /\ status[j] = "running" /\ attempts[j] < MaxAttempts[j]
  /\ Update(j, "retry_scheduled", attempts[j])

\* One recovery transaction ends the attempts of several jobs at once.
RecoverAll ==
  \E rows \in SUBSET {j \in Job : status[j] = "running"} :
    /\ status' = [j \in Job |->
                    IF j \notin rows THEN status[j]
                    ELSE IF attempts[j] < MaxAttempts[j]
                    THEN "retry_scheduled" ELSE "dead_lettered"]
    /\ UNCHANGED attempts

Next ==
  \/ \E j \in Job : Submit(j) \/ Attempt(j) \/ Succeed(j) \/ GiveUp(j) \/ Retry(j)
  \/ RecoverAll

Progress(j) == status[j] # "absent" /\ (Attempt(j) \/ Succeed(j) \/ GiveUp(j))

Safety == Init /\ [][Next]_<<status, attempts>>

Spec ==
  /\ Safety
  /\ \A j \in Job : WF_<<status, attempts>>(Progress(j))
=============================================================================
