------------------------------- MODULE JobPool -------------------------------
(***************************************************************************)
(* What ThreadPool promises to its user: jobs start in the order in which  *)
(* they were submitted, never more at once than there are workers left; a  *)
(* failing job costs one worker and nothing else; the jobs that wait are   *)
(* dropped only when no worker is left or the process halts.               *)
(***************************************************************************)
EXTENDS Naturals, Sequences, FiniteSets

CONSTANTS Jobs, Size

VARIABLES outcome,   \* outcome[j]
          pending,   \* submitted, not started
          capacity   \* workers left

vars == <<outcome, pending, capacity>>

Waiting == {j \in Jobs : outcome[j] = "pending"}
Active  == {j \in Jobs : outcome[j] = "active"}

Init ==
  /\ outcome = [j \in Jobs |-> "new"]
  /\ pending = <<>>
  /\ capacity = Size

Submit(j) ==
  /\ outcome[j] = "new" /\ capacity > 0
  /\ outcome' = [outcome EXCEPT ![j] = "pending"]
  /\ pending' = Append(pending, j)
  /\ UNCHANGED capacity

Refuse(j) ==
  /\ outcome[j] = "new" /\ capacity = 0
  /\ outcome' = [outcome EXCEPT ![j] = "dropped"]
  /\ UNCHANGED <<pending, capacity>>

Start ==
  /\ pending # <<>> /\ Cardinality(Active) < capacity
  /\ outcome' = [outcome EXCEPT ![Head(pending)] = "active"]
  /\ pending' = Tail(pending)
  /\ UNCHANGED capacity

Finish(j) ==
  /\ j \in Active
  /\ outcome' = [outcome EXCEPT ![j] = "finished"]
  /\ UNCHANGED <<pending, capacity>>

Drop(o, S) == [j \in Jobs |-> IF j \in S THEN "dropped" ELSE o[j]]

Fail(j) ==
  /\ j \in Active
  /\ capacity' = capacity - 1
  /\ LET failed == [outcome EXCEPT ![j] = "failed"]
     IN \/ /\ capacity > 1
           /\ outcome' = failed
           /\ UNCHANGED pending
        \/ /\ capacity = 1
           /\ outcome' = Drop(failed, Waiting)
           /\ pending' = <<>>

\* A worker without a job stops: only when nothing is left to start.
Retire ==
  /\ pending = <<>> /\ Cardinality(Active) < capacity
  /\ capacity' = capacity - 1
  /\ UNCHANGED <<outcome, pending>>

\* The process ends, with every job it has and some it has not yet seen.
Halt ==
  /\ \E unseen \in SUBSET {j \in Jobs : outcome[j] = "new"} :
       outcome' = Drop(outcome, Waiting \cup Active \cup unseen)
  /\ pending' = <<>>
  /\ UNCHANGED capacity

Next ==
  \/ \E j \in Jobs : Submit(j) \/ Refuse(j) \/ Finish(j) \/ Fail(j)
  \/ Start \/ Retire \/ Halt

Spec == Init /\ [][Next]_vars
==============================================================================
