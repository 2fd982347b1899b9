---------------------------- MODULE MCScheduler ----------------------------
(* Small instances of Scheduler: schedules and bounds for TLC. *)
EXTENDS Scheduler

Once      == [kind |-> "once",  d |-> 0, fires |-> {}]
After(n)  == [kind |-> "every", d |-> n, fires |-> {}]
OnTime(f) == [kind |-> "cron",  d |-> 0, fires |-> f]

AnyKind    == {Once, After(1), OnTime({2, 9})}
EveryOther == {After(2)}
=============================================================================
