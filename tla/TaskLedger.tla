----------------------------- MODULE TaskLedger -----------------------------
(***************************************************************************)
(* What holds of a row of scheduled_tasks, whatever the poll loops, the    *)
(* goroutines and the processes do: only users change its status, except   *)
(* that the end of a run retires a one-shot task, and its last_run always  *)
(* names a run which was carried out.  Scheduler.tla implements it.  It is *)
(* less than the comments of scheduler.go promise: Revive is the step that *)
(* CancelIsFinal of Scheduler.tla excludes and the code takes.             *)
(***************************************************************************)
EXTENDS Naturals

CONSTANTS Tasks,
          Instants     \* the times a poll may happen at

VARIABLES oneShot,    \* the tasks that are to run once
          status, last, done

ledgerVars == <<oneShot, status, last, done>>

Init ==
    /\ oneShot \in SUBSET Tasks
    /\ status = [t \in Tasks |-> "absent"]
    /\ last = [t \in Tasks |-> 0]
    /\ done = [t \in Tasks |-> {}]

Insert(t) ==
    /\ status[t] = "absent"
    /\ status' = [status EXCEPT ![t] = "active"]
    /\ UNCHANGED <<oneShot, last, done>>

Becomes(t, new) ==
    /\ status' = [status EXCEPT ![t] = new]
    /\ UNCHANGED <<oneShot, last, done>>

Deactivate(t) ==
    /\ status[t] # "absent"
    /\ \E new \in {"paused", "cancelled"} : Becomes(t, new)

Resume(t) == status[t] \in {"active", "paused"} /\ Becomes(t, "active")

\* A cancelled or retired task is resumed.
Revive(t) == status[t] = "cancelled" /\ Becomes(t, "active")

\* The prompt polled for at instant r has been carried out.
Carry(t, r) ==
    /\ done' = [done EXCEPT ![t] = @ \cup {r}]
    /\ UNCHANGED <<oneShot, status, last>>

\* The run of instant r, carried out before, is written to the row.
Account(t, r) ==
    /\ r \in done[t]
    /\ last' = [last EXCEPT ![t] = r]
    /\ status' = [status EXCEPT ![t] = IF t \in oneShot THEN "cancelled" ELSE @]
    /\ UNCHANGED <<oneShot, done>>

Next ==
    \E t \in Tasks :
        \/ Insert(t)
        \/ Deactivate(t) \/ Resume(t) \/ Revive(t)
        \/ \E r \in Instants : Carry(t, r) \/ Account(t, r)

Spec == Init /\ [][Next]_ledgerVars
=============================================================================
