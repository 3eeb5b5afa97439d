------------------------------ MODULE JobRegister ------------------------------
(***************************************************************************)
(* What the job queue promises (job.model.ts, header): jobs are durable,   *)
(* retried, deduplicated and dead-lettered.  A job that was queued stays   *)
(* outstanding until a run of its handler has succeeded or its attempts    *)
(* are spent; it is settled once, and only then is it forgotten.  While it *)
(* is outstanding nothing else is queued under its key.                    *)
(***************************************************************************)
EXTENDS Naturals

CONSTANTS Jobs, Keys, NoKey, MaxAttempts

VARIABLES
  state,     \* where each job is
  key,       \* the dedupe key it was queued under
  spent,     \* the attempts it has had
  succeeded  \* the jobs with a run that succeeded

vars == <<state, key, spent, succeeded>>

Init ==
  /\ state = [j \in Jobs |-> "absent"]
  /\ key = [j \in Jobs |-> NoKey]
  /\ spent = [j \in Jobs |-> 0]
  /\ succeeded = {}

Queue(j, k) ==
  /\ state[j] = "absent"
  /\ k # NoKey => \A i \in Jobs : state[i] = "outstanding" => key[i] # k
  /\ state' = [state EXCEPT ![j] = "outstanding"]
  /\ key' = [key EXCEPT ![j] = k]
  /\ spent' = [spent EXCEPT ![j] = 0]
  /\ UNCHANGED succeeded

\* An attempt begins, and is given back by a run that deferred the job.
Spend(j) ==
  /\ state[j] = "outstanding"
  /\ spent' = [spent EXCEPT ![j] = @ + 1]
  /\ UNCHANGED <<state, key, succeeded>>

GiveBack(j) ==
  /\ state[j] = "outstanding" /\ spent[j] > 0
  /\ spent' = [spent EXCEPT ![j] = @ - 1]
  /\ UNCHANGED <<state, key, succeeded>>

\* A run succeeds, be it one whose lease has lapsed.
Succeed(j) ==
  /\ state[j] # "absent"
  /\ succeeded' = succeeded \cup {j}
  /\ UNCHANGED <<state, key, spent>>

Settle(j, outcome) ==
  /\ state[j] = "outstanding"
  /\ state' = [state EXCEPT ![j] = outcome]
  /\ UNCHANGED <<key, spent, succeeded>>

Finish(j) == j \in succeeded /\ Settle(j, "done")

GiveUp(j) == spent[j] >= MaxAttempts /\ Settle(j, "failed")

Forget(j) ==
  /\ state[j] \in {"done", "failed"}
  /\ state' = [state EXCEPT ![j] = "removed"]
  /\ UNCHANGED <<key, spent, succeeded>>

Next ==
  \E j \in Jobs :
    \/ \E k \in Keys \cup {NoKey} : Queue(j, k)
    \/ Spend(j) \/ GiveBack(j) \/ Succeed(j)
    \/ Finish(j) \/ GiveUp(j) \/ Forget(j)

Spec == Init /\ [][Next]_vars
=============================================================================
