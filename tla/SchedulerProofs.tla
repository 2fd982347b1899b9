-------------------------- MODULE SchedulerProofs --------------------------
(***************************************************************************)
(* Theorems about Scheduler.tla for any number of processes and tasks, any *)
(* schedules, any poll interval and any time bound.                        *)
(* Then those about CronSearch.tla, the search inside its nextRun, and the *)
(* one that joins them.                                                    *)
(*                                                                         *)
(* Nearly everything rests on one inductive invariant, IInv.  Beside three *)
(* invariants TLC checks it records why they survive each step: what the   *)
(* goroutines in flight know (Flights), that the time a poll captured lies *)
(* in the past (Polls), and that only a launching loop holds a batch.      *)
(***************************************************************************)
EXTENDS Scheduler, CronSearch, TLAPS

\* A goroutine polled in the past, its next_run is the one its schedule gives
\* from there, it has returned only after its run was carried out, and it was
\* aborted only under a cancelled context.
Flights ==
    \A e \in execs :
       /\ e.runAt \in 1..now
       /\ e.next = NextRun(schedule[e.task], e.runAt)
       /\ e.phase = "returned" => e.runAt \in done[e.task]
       /\ e.phase = "aborted" => ctxDone[e.proc]

\* The now of a poll in progress is a past instant, and only a loop that is
\* launching holds tasks to launch.
Polls ==
    \A p \in Procs :
       /\ pollNow[p] <= now
       /\ loop[p] \in {"poll", "launch"} => pollNow[p] >= 1
       /\ due[p] # {} => loop[p] = "launch"

\* Nothing refers to a row that was never inserted.
Known ==
    \A t \in Tasks :
       status[t] = "absent" =>
          /\ last_run[t] = Never /\ resuming[t] = NoTime
          /\ \A e \in execs : e.task # t
          /\ \A p \in Procs : t \notin due[p]

IInv == TypeOK /\ Flights /\ Polls /\ Known /\ RecordedRunsHappened /\ InFlightExplained

-----------------------------------------------------------------------------
\* nextRun returns an instant after from, or from itself for @once, or NoTime.
LEMMA NextRunRange ==
    ASSUME NEW s \in Schedules, NEW start \in Nat
    PROVE  /\ NextRun(s, start) \in Nat
           /\ AtOnce(s) => NextRun(s, start) = start
           /\ ~AtOnce(s) => NextRun(s, start) = NoTime \/ start < NextRun(s, start)
<1>1. CASE AtOnce(s)
  BY <1>1 DEF NextRun, NoTime, AtOnce
<1>2. CASE s.kind = "every"
  BY <1>2 DEF NextRun, NoTime, Schedules, AtOnce
<1>3. CASE s.kind = "cron"
  <2>1. CASE \E f \in s.fires : FirstHit(s, start, f)
    <3>1. NextRun(s, start) = CHOOSE f \in s.fires : FirstHit(s, start, f)
      BY <1>3, <2>1 DEF NextRun, AtOnce
    <3>2. NextRun(s, start) \in s.fires /\ FirstHit(s, start, NextRun(s, start))
      BY <2>1, <3>1
    <3>3. QED
      BY <1>3, <3>2 DEF FirstHit, CronHits, Schedules, AtOnce
  <2>2. CASE ~ \E f \in s.fires : FirstHit(s, start, f)
    BY <1>3, <2>2 DEF NextRun, NoTime, AtOnce
  <2>3. QED
    BY <2>1, <2>2
<1>4. QED
  BY <1>1, <1>2, <1>3 DEF Schedules, AtOnce

\* The value executeTask writes to next_run lies after the poll it belongs to.
LEMMA NextRunValRange ==
    ASSUME ConstantsAssumption, schedule \in [Tasks -> Exprs], NEW e \in Exec,
           e.next = NextRun(schedule[e.task], e.runAt)
    PROVE  /\ NextRunVal(e) \in Nat
           /\ ~AtOnce(schedule[e.task]) => e.runAt < NextRunVal(e)
<1>1. schedule[e.task] \in Schedules /\ e.runAt \in Nat /\ PollInterval \in Nat \ {0}
  BY DEF ConstantsAssumption, Exec
<1>2. QED
  BY <1>1, NextRunRange DEF NextRunVal, NoTime

-----------------------------------------------------------------------------
LEMMA InitEstablishes == ASSUME ConstantsAssumption, Init PROVE IInv
BY DEF ConstantsAssumption, Init, IInv, TypeOK, Flights, Polls, Known,
       RecordedRunsHappened, InFlightExplained, NoTime, Never, Exec
\* Every step preserves the invariant: one case per action.
LEMMA StepPreserves ==
    ASSUME ConstantsAssumption, IInv, [Next]_vars PROVE IInv'
<1> USE DEF ConstantsAssumption, tableVars, histVars, procVars
<1>1. ASSUME NEW p \in Procs, Start(p) PROVE IInv'
  BY <1>1
     DEF Start, IInv, TypeOK, Flights, Polls, Known, Exists, RecordedRunsHappened, InFlightExplained
<1>2. ASSUME NEW p \in Procs, Tick(p) PROVE IInv'
  BY <1>2
     DEF Tick, CapturedNow, IInv, TypeOK, Flights, Polls, Known, Exists, RecordedRunsHappened, InFlightExplained
<1>3. ASSUME NEW p \in Procs, Query(p) PROVE IInv'
  BY <1>3
     DEF Query, DueTasks, IInv, TypeOK, Flights, Polls, Known, Exists, RecordedRunsHappened, InFlightExplained
<1>4. ASSUME NEW p \in Procs, QueryFails(p) PROVE IInv'
  BY <1>4
     DEF QueryFails, IInv, TypeOK, Flights, Polls, Known, Exists, RecordedRunsHappened, InFlightExplained
<1>5. ASSUME NEW p \in Procs, NEW t \in Tasks, Launch(p, t) PROVE IInv'
  BY <1>5, NextRunRange
     DEF Launch, Exec, IInv, TypeOK, Flights, Polls, Known, Exists, RecordedRunsHappened, InFlightExplained
<1>6. ASSUME NEW p \in Procs, LeaveLoop(p) PROVE IInv'
  BY <1>6
     DEF LeaveLoop, IInv, TypeOK, Flights, Polls, Known, Exists, RecordedRunsHappened, InFlightExplained
<1>7. ASSUME NEW p \in Procs, Drained(p) PROVE IInv'
  BY <1>7
     DEF Drained, IInv, TypeOK, Flights, Polls, Known, Exists, RecordedRunsHappened, InFlightExplained
<1>8. ASSUME NEW p \in Procs, Stop(p) PROVE IInv'
  BY <1>8
     DEF Stop, IInv, TypeOK, Flights, Polls, Known, Exists, RecordedRunsHappened, InFlightExplained
<1>9. ASSUME NEW p \in Procs, StopReturns(p) PROVE IInv'
  BY <1>9
     DEF StopReturns, IInv, TypeOK, Flights, Polls, Known, Exists, RecordedRunsHappened, InFlightExplained
<1>10. ASSUME NEW p \in Procs, CancelContext(p) PROVE IInv'
  BY <1>10
     DEF CancelContext, IInv, TypeOK, Flights, Polls, Known, Exists, RecordedRunsHappened, InFlightExplained
<1>11. ASSUME NEW p \in Procs, ProcessExit(p) PROVE IInv'
  BY <1>11
     DEF ProcessExit, ExecsOf, IInv, TypeOK, Flights, Polls, Known, Exists, RecordedRunsHappened, InFlightExplained
<1>12. ASSUME NEW e \in execs, RunReturns(e) PROVE IInv'
  <2>1. e \in Exec
    BY DEF IInv, TypeOK
  <2>2. TypeOK'
    BY <1>12, <2>1 DEF RunReturns, Advanced, IInv, TypeOK, Exec
  <2>3. Flights'
    BY <1>12, <2>1 DEF RunReturns, Advanced, IInv, TypeOK, Flights, Exec
  <2>4. Polls'
    BY <1>12 DEF RunReturns, IInv, Polls
  <2>5. RecordedRunsHappened'
    BY <1>12, <2>1 DEF RunReturns, IInv, TypeOK, RecordedRunsHappened, Exec
  <2>6. InFlightExplained'
    BY <1>12, <2>1 DEF RunReturns, Advanced, IInv, TypeOK, InFlightExplained, Exec
  <2>7. Known'
    BY <1>12, <2>1 DEF RunReturns, Advanced, IInv, TypeOK, Known, Exec, NoTime
  <2>8. QED
    BY <2>2, <2>3, <2>4, <2>5, <2>6, <2>7 DEF IInv
<1>13. ASSUME NEW e \in execs, RunAborts(e) PROVE IInv'
  <2>1. e \in Exec
    BY DEF IInv, TypeOK
  <2>2. TypeOK'
    BY <1>13, <2>1 DEF RunAborts, Advanced, IInv, TypeOK, Exec
  <2>3. Flights'
    BY <1>13, <2>1 DEF RunAborts, Advanced, IInv, TypeOK, Flights, Exec
  <2>4. Polls'
    BY <1>13 DEF RunAborts, IInv, Polls
  <2>5. RecordedRunsHappened'
    BY <1>13, <2>1 DEF RunAborts, IInv, TypeOK, RecordedRunsHappened, Exec
  <2>6. InFlightExplained'
    BY <1>13, <2>1 DEF RunAborts, Advanced, IInv, TypeOK, InFlightExplained, Exec
  <2>7. Known'
    BY <1>13, <2>1 DEF RunAborts, Advanced, IInv, TypeOK, Known, Exec, NoTime
  <2>8. QED
    BY <2>2, <2>3, <2>4, <2>5, <2>6, <2>7 DEF IInv
<1>14. ASSUME NEW e \in execs, Record(e) PROVE IInv'
  <2>1. e \in Exec /\ e.task \in Tasks /\ e.runAt \in 1..now
    BY DEF IInv, TypeOK, Flights, Exec
  <2>2. NextRunVal(e) \in Nat
    BY <2>1, NextRunValRange DEF IInv, TypeOK, Flights
  <2>3. e.runAt \in done[e.task]
    BY <1>14, <2>1 DEF Record, MayRecord, IInv, Flights, Exec
  <2>4. TypeOK'
    BY <1>14, <2>1, <2>2 DEF Record, RecordedStatus, IInv, TypeOK
  <2>5. Flights'
    BY <1>14, <2>1 DEF Record, IInv, TypeOK, Flights
  <2>6. Polls'
    BY <1>14 DEF Record, IInv, Polls
  <2>7. RecordedRunsHappened'
    BY <1>14, <2>1, <2>3 DEF Record, IInv, TypeOK, RecordedRunsHappened
  <2>8. InFlightExplained'
    BY <1>14, <2>1 DEF Record, RecordedStatus, IInv, TypeOK, Flights, Polls, InFlightExplained, Exec
  <2>9. Known'
    BY <1>14, <2>1 DEF Record, RecordedStatus, IInv, TypeOK, Known, Exec, NoTime
  <2>10. QED
    BY <2>4, <2>5, <2>6, <2>7, <2>8, <2>9 DEF IInv
<1>15. ASSUME NEW e \in execs, RecordFails(e) PROVE IInv'
  BY <1>15
     DEF RecordFails, IInv, TypeOK, Flights, Polls, Known, Exists, RecordedRunsHappened, InFlightExplained
<1>16. ASSUME NEW t \in Tasks, Schedule(t) PROVE IInv'
  <2>1. NextRun(schedule[t], now) \in Nat
    BY NextRunRange DEF IInv, TypeOK
  <2>2. TypeOK'
    BY <1>16, <2>1 DEF Schedule, Never, IInv, TypeOK
  <2>3. Flights'
    BY <1>16 DEF Schedule, IInv, Flights
  <2>4. Polls'
    BY <1>16 DEF Schedule, IInv, Polls
  <2>5. RecordedRunsHappened'
    BY <1>16 DEF Schedule, IInv, TypeOK, RecordedRunsHappened
  <2>6. InFlightExplained'
    BY <1>16 DEF Schedule, IInv, TypeOK, InFlightExplained
  <2>7. Known'
    BY <1>16, <2>1 DEF Schedule, IInv, TypeOK, Known, Exec, NoTime
  <2>8. QED
    BY <2>2, <2>3, <2>4, <2>5, <2>6, <2>7 DEF IInv
<1>17. ASSUME NEW t \in Tasks, NEW s \in {"paused", "cancelled"}, SetStatus(t, s) PROVE IInv'
  BY <1>17
     DEF SetStatus, Exec, IInv, TypeOK, Flights, Polls, Known, Exists, RecordedRunsHappened, InFlightExplained
<1>18. ASSUME NEW t \in Tasks, ResumeLoad(t) PROVE IInv'
  <2>1. NextRun(schedule[t], now) \in Nat
    BY NextRunRange DEF IInv, TypeOK
  <2>2. TypeOK'
    BY <1>18, <2>1 DEF ResumeLoad, Never, IInv, TypeOK
  <2>3. Flights'
    BY <1>18 DEF ResumeLoad, IInv, Flights
  <2>4. Polls'
    BY <1>18 DEF ResumeLoad, IInv, Polls
  <2>5. RecordedRunsHappened'
    BY <1>18 DEF ResumeLoad, IInv, TypeOK, RecordedRunsHappened
  <2>6. InFlightExplained'
    BY <1>18 DEF ResumeLoad, IInv, TypeOK, InFlightExplained
  <2>7. Known'
    BY <1>18, <2>1 DEF ResumeLoad, Exists, IInv, TypeOK, Known, Exec, NoTime
  <2>8. QED
    BY <2>2, <2>3, <2>4, <2>5, <2>6, <2>7 DEF IInv
<1>19. ASSUME NEW t \in Tasks, ResumeWrite(t) PROVE IInv'
  BY <1>19
     DEF ResumeWrite, NoTime, IInv, TypeOK, Flights, Polls, Known, Exists, RecordedRunsHappened, InFlightExplained
<1>20. ASSUME Advance PROVE IInv'
  BY <1>20
     DEF Advance, IInv, TypeOK, Flights, Polls, Known, Exists, RecordedRunsHappened, InFlightExplained
<1>21. ASSUME UNCHANGED vars PROVE IInv'
  BY <1>21
     DEF vars, IInv, TypeOK, Flights, Polls, Known, Exists, RecordedRunsHappened, InFlightExplained
<1>22. QED
  BY <1>1, <1>2, <1>3, <1>4, <1>5, <1>6, <1>7, <1>8, <1>9, <1>10, <1>11,
     <1>12, <1>13, <1>14, <1>15, <1>16, <1>17, <1>18, <1>19, <1>20, <1>21
     DEF Next, LoopStep, ProcessStep, ExecStep, UserStep, Pause, Cancel

-----------------------------------------------------------------------------
\* An @every task that exists has a duration, since Schedule asked nextRun.
Timed ==
    \A t \in Tasks : Exists(t) /\ schedule[t].kind = "every" => schedule[t].d # 0

LEMMA StepKeepsTimed == ASSUME IInv, Timed, [Next]_vars PROVE Timed'
<1> USE DEF Timed, IInv, TypeOK, tableVars, ExecsOf, Exists
<1>1. ASSUME NEW p \in Procs, LoopStep(p) PROVE Timed'
  BY <1>1 DEF LoopStep, Tick, Query, QueryFails, Launch, LeaveLoop, Drained
<1>2. ASSUME NEW p \in Procs, ProcessStep(p) PROVE Timed'
  BY <1>2 DEF ProcessStep, Start, Stop, StopReturns, CancelContext, ProcessExit
<1>3. ASSUME NEW e \in execs, ExecStep(e) PROVE Timed'
  <2>1. e \in Exec /\ e.task \in Tasks
    BY DEF Exec
  <2>2. CASE RunReturns(e) \/ RunAborts(e)
    BY <2>1, <2>2 DEF RunReturns, RunAborts, Advanced, Exec, procVars
  <2>3. CASE Record(e)
    <3>1. Exists(e.task)
      BY <2>1, <2>3 DEF Known
    <3>2. QED
      BY <2>1, <2>3, <3>1 DEF Record, RecordedStatus, procVars
  <2>4. CASE RecordFails(e)
    BY <2>4 DEF RecordFails
  <2>5. QED
    BY <1>3, <2>2, <2>3, <2>4 DEF ExecStep
<1>4. ASSUME NEW t \in Tasks, Schedule(t) PROVE Timed'
  BY <1>4, ConstantsAssumption DEF ConstantsAssumption, Schedule, NextRun, AtOnce, procVars
<1>5. ASSUME NEW t \in Tasks, UserStep(t), ~Schedule(t) PROVE Timed'
  BY <1>5 DEF UserStep, SetStatus, Pause, Cancel, ResumeLoad, ResumeWrite, Known, procVars, NoTime
<1>6. CASE Advance \/ UNCHANGED vars
  BY <1>6 DEF Advance, vars, procVars
<1>7. QED
  BY <1>1, <1>2, <1>3, <1>4, <1>5, <1>6 DEF Next

-----------------------------------------------------------------------------
\* The invariant holds in every reachable state.
THEOREM Invariance == Spec => []IInv
<1>1. Init => IInv
  BY InitEstablishes, ConstantsAssumption
<1>2. IInv /\ [Next]_vars => IInv'
  BY StepPreserves, ConstantsAssumption
<1>3. QED
  BY <1>1, <1>2, PTL DEF Spec

\* Type correctness of the scheduler's state.
THEOREM TypeCorrect == Spec => []TypeOK
BY Invariance, PTL DEF IInv

\* last_run never names a run that did not take place (executeTask).
THEOREM RecordedRuns == Spec => []RecordedRunsHappened
BY Invariance, PTL DEF IInv

\* A deactivated task is run only by goroutines polled before (poll, Pause, Cancel).
THEOREM InFlightBound == Spec => []InFlightExplained
BY Invariance, PTL DEF IInv

\* A recorded run of a recurring task moves next_run past its poll (executeTask).
THEOREM Advances == Spec => FinishAdvances
<1> DEFINE A == \A t \in Tasks :
                   last_run'[t] # last_run[t] /\ ~AtOnce(schedule[t]) => next_run'[t] > last_run'[t]
<1>1. ASSUME IInv, [Next]_vars PROVE [A]_vars
  <2> SUFFICES ASSUME Next, NEW t \in Tasks,
                      last_run'[t] # last_run[t], ~AtOnce(schedule[t])
               PROVE  next_run'[t] > last_run'[t]
    BY <1>1
  <2>1. CASE \E e \in execs : Record(e)
    <3>1. PICK e \in execs : Record(e)
      BY <2>1
    <3>2. e \in Exec /\ e.task \in Tasks /\ e.runAt \in Nat
      BY <1>1 DEF IInv, TypeOK, Exec
    <3>3. e.task = t
      BY <1>1, <3>1, <3>2 DEF Record, IInv, TypeOK
    <3>4. NextRunVal(e) \in Nat /\ e.runAt < NextRunVal(e)
      BY <1>1, <3>2, <3>3, NextRunValRange, ConstantsAssumption DEF IInv, TypeOK, Flights
    <3>5. QED
      BY <1>1, <3>1, <3>2, <3>3, <3>4 DEF Record, IInv, TypeOK, IsOnce, AtOnce
  <2>2. CASE \E u \in Tasks : Schedule(u)
    BY <2>2, <1>1 DEF Schedule, Exists, IInv, TypeOK, Known
  <2>3. CASE UNCHANGED last_run
    BY <2>3
  <2>4. QED
    BY <2>1, <2>2, <2>3
       DEF Next, LoopStep, ProcessStep, ExecStep, UserStep, Pause, Cancel, tableVars,
           Start, Tick, Query, QueryFails, Launch, LeaveLoop, Drained, Stop, StopReturns,
           CancelContext, ProcessExit, RunReturns, RunAborts, RecordFails, SetStatus,
           ResumeLoad, ResumeWrite, Advance
<1>2. QED
  BY <1>1, Invariance, PTL DEF Spec, FinishAdvances

\* Timed holds in every reachable state, beside IInv.
LEMMA AlwaysTimed == Spec => []Timed
<1>1. Init => Timed
  BY DEF Init, Timed, Exists
<1>2. IInv /\ Timed /\ [Next]_vars => Timed'
  BY StepKeepsTimed
<1>3. QED
  BY <1>1, <1>2, Invariance, PTL DEF Spec

\* No occurrence of an @every task is given up unless a run polled less than an
\* interval ago has taken place (executeTask, Start, Stop and crashes).
THEOREM MissedRunsStayDue == Spec => MissedRunStaysDue
<1> DEFINE A == \A t \in Tasks :
          /\ schedule[t].kind = "every" /\ resumed'[t] = NoTime
          /\ status[t] = "active"  /\ next_run[t] <= now
          /\ status'[t] = "active" /\ next_run'[t] > now
          => \E r \in done[t] : now < r + schedule[t].d
<1>1. ASSUME IInv, Timed, [Next]_vars PROVE [A]_vars
  <2> SUFFICES ASSUME Next, NEW t \in Tasks,
                      schedule[t].kind = "every", resumed'[t] = NoTime,
                      status[t] = "active", next_run[t] <= now, next_run'[t] > now
               PROVE  \E r \in done[t] : now < r + schedule[t].d
    BY <1>1
  <2>1. next_run'[t] # next_run[t]
    BY <1>1 DEF IInv, TypeOK
  <2>2. CASE \E e \in execs : Record(e)
    <3>1. PICK e \in execs : Record(e)
      BY <2>2
    <3>2. e \in Exec /\ e.task = t
      BY <1>1, <2>1, <3>1 DEF Record, IInv, TypeOK, Exec
    <3>3. e.runAt \in done[t]
      BY <1>1, <3>1, <3>2 DEF Record, MayRecord, IInv, Flights, Exec
    <3>4. /\ schedule[t].d \in Nat \ {0} /\ schedule[t] \in Schedules
          /\ e.runAt \in Nat \ {0}
      BY <1>1, <3>1, <3>2, ConstantsAssumption
         DEF ConstantsAssumption, Schedules, Timed, Exists, IInv, TypeOK, Flights, Exec
    <3>5. e.next = e.runAt + schedule[t].d
      BY <1>1, <3>1, <3>2, <3>4 DEF IInv, Flights, NextRun, AtOnce
    <3>6. next_run'[t] = e.runAt + schedule[t].d
      BY <1>1, <3>1, <3>2, <3>4, <3>5 DEF Record, IsOnce, NextRunVal, NoTime, IInv, TypeOK
    <3>7. QED
      BY <3>3, <3>6
  <2>3. CASE \E u \in Tasks : Schedule(u)
    BY <1>1, <2>1, <2>3 DEF Schedule, Exists, IInv, TypeOK
  <2>4. CASE \E u \in Tasks : ResumeWrite(u)
    BY <1>1, <2>1, <2>4 DEF ResumeWrite, IInv, TypeOK
  <2>5. CASE UNCHANGED next_run
    BY <2>1, <2>5
  <2>6. QED
    BY <2>2, <2>3, <2>4, <2>5
       DEF Next, LoopStep, ProcessStep, ExecStep, UserStep, Pause, Cancel, tableVars,
           Start, Tick, Query, QueryFails, Launch, LeaveLoop, Drained, Stop, StopReturns,
           CancelContext, ProcessExit, RunReturns, RunAborts, RecordFails, SetStatus,
           ResumeLoad, Advance
<1>2. QED
  BY <1>1, Invariance, AlwaysTimed, PTL DEF Spec, MissedRunStaysDue

\* The table behaves as TaskLedger says: each step of the scheduler is a step of
\* the ledger or leaves it alone.
THEOREM Implements == Spec => ImplementsLedger
<1>1. Init => Ledger!Init
  BY DEF Init, Ledger!Init, Never
<1>2. ASSUME IInv, [Next]_vars PROVE [Ledger!Next]_(Ledger!ledgerVars)
  <2> USE <1>2 DEF tableVars, histVars
  <2>0. {t \in Tasks : IsOnce(t)}' = {t \in Tasks : IsOnce(t)}
    <3>1. UNCHANGED schedule
      BY DEF vars, Next, LoopStep, ProcessStep, ExecStep, UserStep, Pause, Cancel,
             Start, Tick, Query, QueryFails, Launch, LeaveLoop, Drained, Stop, StopReturns,
             CancelContext, ProcessExit, RunReturns, RunAborts, Record, RecordFails,
             Schedule, SetStatus, ResumeLoad, ResumeWrite, Advance
    <3>2. QED
      BY <3>1 DEF IsOnce
  <2>1. ASSUME NEW e \in execs, RunReturns(e) PROVE Ledger!Next
    <3>1. e.task \in Tasks /\ e.runAt \in 1..MaxTime
      BY ConstantsAssumption DEF ConstantsAssumption, IInv, TypeOK, Flights, Exec
    <3>2. Ledger!Carry(e.task, e.runAt)
      BY <2>0, <2>1 DEF RunReturns, Ledger!Carry
    <3>3. QED
      BY <3>1, <3>2 DEF Ledger!Next
  <2>2. ASSUME NEW e \in execs, Record(e) PROVE Ledger!Next
    <3>1. e.task \in Tasks /\ e.runAt \in 1..MaxTime /\ e.runAt \in done[e.task]
      BY <2>2, ConstantsAssumption DEF ConstantsAssumption, Record, MayRecord, IInv, TypeOK, Flights, Exec
    <3>2. Ledger!Account(e.task, e.runAt)
      BY <2>0, <2>2, <3>1 DEF Record, RecordedStatus, Ledger!Account, IInv, TypeOK
    <3>3. QED
      BY <3>1, <3>2 DEF Ledger!Next
  <2>3. ASSUME NEW t \in Tasks, Schedule(t) PROVE Ledger!Next
    <3>1. Ledger!Insert(t)
      BY <2>0, <2>3 DEF Schedule, Exists, Ledger!Insert, IInv, TypeOK, Known
    <3>2. QED
      BY <3>1 DEF Ledger!Next
  <2>4. ASSUME NEW t \in Tasks, NEW new \in {"paused", "cancelled"}, SetStatus(t, new)
        PROVE  Ledger!Next
    <3>1. Ledger!Deactivate(t)
      BY <2>0, <2>4 DEF SetStatus, Exists, Ledger!Deactivate, Ledger!Becomes
    <3>2. QED
      BY <3>1 DEF Ledger!Next
  <2>5. ASSUME NEW t \in Tasks, ResumeWrite(t) PROVE Ledger!Next
    <3>1. Ledger!Becomes(t, "active")
      BY <2>0, <2>5 DEF ResumeWrite, Ledger!Becomes
    <3>2. status[t] \in {"active", "paused", "cancelled"}
      BY <2>5 DEF ResumeWrite, IInv, TypeOK, Known, Exists
    <3>3. QED
      BY <3>1, <3>2 DEF Ledger!Next, Ledger!Resume, Ledger!Revive
  <2>6. CASE UNCHANGED <<status, last_run, done>>
    BY <2>0, <2>6 DEF Ledger!ledgerVars
  <2>7. QED
    BY <2>1, <2>2, <2>3, <2>4, <2>5, <2>6
       DEF vars, Next, LoopStep, ProcessStep, ExecStep, UserStep, Pause, Cancel,
           Start, Tick, Query, QueryFails, Launch, LeaveLoop, Drained, Stop, StopReturns,
           CancelContext, ProcessExit, RunAborts, RecordFails, ResumeLoad, Advance
<1>3. QED
  BY <1>1, <1>2, Invariance, PTL DEF Spec, ImplementsLedger, Ledger!Spec

-----------------------------------------------------------------------------
(* parseCron: the search of CronSearch, for any calendar, window and       *)
(* expressions.                                                            *)

\* What makes FirstMatch and NoneInWindow inductive: everything between from
\* and the candidate has been looked at or lies in a block that cannot fire.
Skipped == \A t \in from + 1..candidate - 1 : ~Match(t)

Progress ==
    /\ pc \in {"search", "found", "failed"} => from < candidate /\ Skipped
    /\ pc = "found" => Match(candidate) /\ candidate < Limit
    /\ pc = "failed" => Limit <= candidate

SearchIInv ==
    /\ from \in Froms
    /\ expr \in CronExprs
    /\ candidate \in Times
    /\ pc \in {"parse", "search", "found", "failed", "invalid"}
    /\ Progress

\* The numbers the search works with.
LEMMA Numbers ==
    ASSUME SearchIInv
    PROVE  /\ from \in Nat /\ SearchWindow \in Nat \ {0} /\ Horizon \in Nat
           /\ candidate \in Nat /\ candidate <= Horizon
           /\ Limit = from + 1 + SearchWindow /\ Limit <= Horizon
  BY CalendarAssumption, SearchAssumption DEF SearchIInv, Limit, First, Times

\* A jump to the end of a block in which one field does not fit.
LEMMA Jump ==
    ASSUME SearchIInv, Searching, NEW end, NEW fs \in SUBSET Field, EndsBlock(end, fs),
           \E f \in fs : ~Matches(f, candidate), GoTo(end[candidate])
    PROVE  SearchIInv'
<1>1. PICK f \in fs : ~Matches(f, candidate)
  OBVIOUS
<1>2. /\ candidate \in 0..Horizon - 1
      /\ end[candidate] \in 1..Horizon /\ candidate < end[candidate]
      /\ \A u \in candidate..end[candidate] - 1 : At[f][u] = At[f][candidate]
  BY Numbers, <1>1 DEF EndsBlock, Searching
<1>3. \A u \in candidate..end[candidate] - 1 : ~Match(u)
  BY <1>1, <1>2 DEF Match, Matches
<1>4. \A t \in from + 1..end[candidate] - 1 : ~Match(t)
  <2> TAKE t \in from + 1..end[candidate] - 1
  <2>1. CASE t < candidate
    BY <2>1, Numbers, <1>2 DEF SearchIInv, Progress, Skipped, Searching
  <2>2. CASE t >= candidate
    BY <2>2, Numbers, <1>2, <1>3
  <2>3. QED
    BY <2>1, <2>2, Numbers, <1>2
<1>5. Skipped' /\ from' < candidate'
  BY <1>2, <1>4, Numbers DEF Skipped, Match, Matches, GoTo, SearchIInv, Progress, Searching
<1>6. QED
  BY <1>2, <1>5, Numbers DEF SearchIInv, Progress, GoTo, Searching, Times

\* The first minute of the search.
LEMMA SearchStarts == SearchInit => SearchIInv
  BY CalendarAssumption DEF SearchInit, SearchIInv, Progress, Times

\* Every step of the loop.
LEMMA SearchSteps == SearchIInv /\ [SearchNext]_searchVars => SearchIInv'
<1> SUFFICES ASSUME SearchIInv, [SearchNext]_searchVars PROVE SearchIInv'
  OBVIOUS
<1>1. CASE Parse
  <2>1. CASE pc' = "search" /\ candidate' = First(from)
    <3>1. Skipped'
      BY <1>1, <2>1, Numbers DEF Parse, Skipped, First
    <3>2. QED
      BY <1>1, <2>1, <3>1, Numbers DEF Parse, SearchIInv, Progress, First, Times
  <2>2. CASE pc' = "invalid" /\ UNCHANGED candidate
    BY <1>1, <2>2 DEF Parse, SearchIInv, Progress
  <2>3. QED
    BY <1>1, <2>1, <2>2 DEF Parse
<1>2. CASE NextMonth
  BY <1>2, Jump, CalendarAssumption DEF NextMonth, MonthFits, Field
<1>3. CASE NextDay
  BY <1>3, Jump, CalendarAssumption DEF NextDay, DayFits, Field
<1>4. CASE NextHour
  BY <1>4, Jump, CalendarAssumption DEF NextHour, HourFits, Field
<1>5. CASE Hit
  <2>1. Match(candidate)
    BY <1>5 DEF Hit, Match, Field, MonthFits, DayFits, HourFits
  <2>2. QED
    BY <1>5, <2>1 DEF Hit, Searching, SearchIInv, Progress, Skipped, Match, Matches, Limit
<1>6. CASE NextMinute
  <2>1. ~Match(candidate)
    BY <1>6 DEF NextMinute, Match, Field
  <2>2. \A t \in from + 1..candidate : ~Match(t)
    <3> TAKE t \in from + 1..candidate
    <3>1. CASE t < candidate
      BY <1>6, <3>1, Numbers DEF NextMinute, Searching, SearchIInv, Progress, Skipped
    <3>2. CASE t = candidate
      BY <2>1, <3>2
    <3>3. QED
      BY <3>1, <3>2, Numbers
  <2>3. Skipped'
    BY <1>6, <2>2, Numbers DEF NextMinute, GoTo, Later, Skipped, Match, Matches
  <2>4. QED
    BY <1>6, <2>3, Numbers DEF NextMinute, GoTo, Later, Searching, SearchIInv, Progress, Times
<1>7. CASE GiveUp
  BY <1>7, Numbers DEF GiveUp, SearchIInv, Progress, Skipped, Match, Matches, Limit
<1>8. CASE UNCHANGED searchVars
  BY <1>8 DEF searchVars, SearchIInv, Progress, Skipped, Match, Matches, Limit
<1>9. QED
  BY <1>1, <1>2, <1>3, <1>4, <1>5, <1>6, <1>7, <1>8 DEF SearchNext

\* The inductive invariant.
LEMMA SearchInvariance == SearchSpec => []SearchIInv
  BY SearchStarts, SearchSteps, PTL DEF SearchSpec

\* The search stays within the calendar, and its answer within the window.
THEOREM SearchTypeCorrect == SearchSpec => []SearchTypeOK
<1>1. SearchIInv => SearchTypeOK
  BY Numbers DEF SearchIInv, Progress, SearchTypeOK
<1>2. QED
  BY SearchInvariance, <1>1, PTL

\* parseCron returns the first minute after from that fires: the jumps over
\* months, days and hours miss none, whatever the calendar.
THEOREM FindsFirst == SearchSpec => []FirstMatch
<1>1. SearchIInv => FirstMatch
  BY DEF SearchIInv, Progress, Skipped, FirstMatch
<1>2. QED
  BY SearchInvariance, <1>1, PTL

\* When it returns an error, no minute of the window fires.
THEOREM MissesNone == SearchSpec => []NoneInWindow
<1>1. SearchIInv => NoneInWindow
  BY Numbers DEF SearchIInv, Progress, Skipped, NoneInWindow
<1>2. QED
  BY SearchInvariance, <1>1, PTL

\* Each round of the loop ends it or moves the candidate forward, never beyond
\* the calendar: no jump stands still, so that a window has only so many rounds.
SearchAdvances ==
    [][pc = "search" => \/ pc' \in {"found", "failed"} /\ candidate' = candidate
                        \/ pc' = "search" /\ candidate' \in candidate + 1..Horizon
      ]_searchVars

THEOREM LoopAdvances == SearchSpec => SearchAdvances
<1>1. ASSUME SearchIInv, SearchNext, pc = "search"
      PROVE  \/ pc' \in {"found", "failed"} /\ candidate' = candidate
             \/ pc' = "search" /\ candidate' \in candidate + 1..Horizon
  <2>1. ASSUME NEW end, NEW fs, EndsBlock(end, fs), Searching, GoTo(end[candidate])
        PROVE  pc' = "search" /\ candidate' \in candidate + 1..Horizon
    BY <1>1, <2>1, Numbers DEF EndsBlock, Searching, GoTo
  <2>2. CASE NextMonth \/ NextDay \/ NextHour
    BY <2>1, <2>2, CalendarAssumption DEF NextMonth, NextDay, NextHour
  <2>3. CASE NextMinute
    BY <1>1, <2>3, Numbers DEF NextMinute, Searching, GoTo, Later
  <2>4. CASE Parse \/ Hit \/ GiveUp
    BY <1>1, <2>4 DEF Parse, Hit, GiveUp
  <2> QED
    BY <1>1, <2>2, <2>3, <2>4 DEF SearchNext
<1> QED
  BY <1>1, SearchInvariance, PTL DEF SearchSpec, SearchAdvances

-----------------------------------------------------------------------------
\* Division, as the steps of a field use it.
LEMMA Division ==
    ASSUME NEW n \in Nat \ {0}
    PROVE  /\ \A x \in Nat : \E k \in Nat : x = k * n + (x % n) /\ k <= x
           /\ \A k \in Nat : (k * n) % n = 0 /\ k * n \in Nat /\ k <= k * n
<1>1. ASSUME NEW x \in Nat PROVE \E k \in Nat : x = k * n + (x % n) /\ k <= x
  <2>1. x = n * (x \div n) + (x % n) /\ x \div n \in Nat /\ x % n \in 0..n - 1
    OBVIOUS
  <2> DEFINE k == x \div n
  <2>2. k <= k * n /\ k * n = n * k /\ k * n \in Nat
    BY <2>1
  <2> HIDE DEF k
  <2>3. x = k * n + (x % n) /\ k <= x
    BY <2>1, <2>2 DEF k
  <2>4. QED
    BY <2>1, <2>3 DEF k
<1>2. ASSUME NEW k \in Nat PROVE (k * n) % n = 0 /\ k * n \in Nat /\ k <= k * n
  <2>1. (k * n) % n = 0
    OBVIOUS
  <2>2. k * n \in Nat /\ k <= k * n
    OBVIOUS
  <2>3. QED
    BY <2>1, <2>2
<1>3. QED
  BY <1>1, <1>2

\* A step's values: every by-th number from a on, up to b.
LEMMA StepsAre ==
    ASSUME NEW a \in Int, NEW b \in Int, NEW by \in Nat \ {0}, NEW v \in Int
    PROVE  v \in Steps(a, b, by) <=> \E k \in 0..b - a : v = a + k * by /\ v <= b
<1>1. ASSUME v \in Steps(a, b, by)
      PROVE  \E k \in 0..b - a : v = a + k * by /\ v <= b
  <2>1. a <= v /\ v <= b /\ (v - a) % by = 0 /\ v - a \in Nat
    BY <1>1 DEF Steps
  <2>2. PICK k \in Nat : v - a = k * by + ((v - a) % by) /\ k <= v - a
    BY <2>1, Division
  <2>3. k * by \in Nat
    BY Division
  <2>4. k \in 0..b - a /\ v = a + k * by
    BY <2>1, <2>2, <2>3
  <2>5. QED
    BY <2>1, <2>4
<1>2. ASSUME NEW k \in 0..b - a, v = a + k * by, v <= b
      PROVE  v \in Steps(a, b, by)
  <2>1. k * by \in Nat /\ (k * by) % by = 0
    BY Division
  <2>2. v - a = k * by /\ a <= v
    BY <1>2, <2>1
  <2>3. QED
    BY <1>2, <2>1, <2>2 DEF Steps
<1>3. QED
  BY <1>1, <1>2

\* The values a token is parsed into are those it says.
LEMMA ValuesAre ==
    ASSUME NEW f \in Field, NEW token \in Tokens, Valid(f, token), NEW v \in Int
    PROVE  token.kind = "star" \/ v \in Values(f, token) <=> Says(f, token, v)
<1>0. Lo[f] \in Int /\ Hi[f] \in Int
  BY CalendarAssumption
<1>1. CASE token.kind = "star"
  BY <1>1 DEF Says
<1>2. CASE token.kind = "every"
  <2>1. token.by \in Nat \ {0}
    BY <1>2 DEF Valid, Tokens
  <2>2. QED
    BY <1>0, <1>2, <2>1, StepsAre DEF Values, Says
<1>3. CASE token.kind = "step"
  <2> DEFINE end == IF token.to THEN token.b ELSE Hi[f]
  <2>1. token.by \in Nat \ {0} /\ token.a \in Int /\ end \in Int
    BY <1>0, <1>3 DEF Valid, Tokens
  <2>2. Values(f, token) = Steps(token.a, end, token.by)
    BY <1>3 DEF Values
  <2>3. Says(f, token, v) <=> \E k \in 0..end - token.a : v = token.a + k * token.by /\ v <= end
    BY <1>3 DEF Says
  <2> HIDE DEF end
  <2>4. v \in Steps(token.a, end, token.by)
           <=> \E k \in 0..end - token.a : v = token.a + k * token.by /\ v <= end
    BY <2>1, StepsAre
  <2>5. QED
    BY <1>3, <2>2, <2>3, <2>4
<1>4. CASE token.kind = "list"
  <2>1. \A r \in token.ranges : r.a \in Int /\ r.b \in Int
    BY <1>4 DEF Tokens
  <2>2. QED
    BY <1>4, <2>1 DEF Values, Says
<1>5. QED
  BY <1>1, <1>2, <1>3, <1>4 DEF Valid, Tokens

\* The search begins with fields parseCronField accepts only.
Accepted ==
    pc \in {"search", "found", "failed"} => \A f \in Field : Valid(f, expr[f])

LEMMA Accepts == SearchSpec => []Accepted
<1>1. SearchInit => Accepted
  BY DEF SearchInit, Accepted
<1>2. Accepted /\ [SearchNext]_searchVars => Accepted'
  BY DEF Accepted, SearchNext, searchVars, Parse, NextMonth, NextDay, NextHour, Hit, NextMinute,
         GiveUp, GoTo, Searching
<1>3. QED
  BY <1>1, <1>2, PTL DEF SearchSpec

\* The search asks of a minute what the expression says.
LEMMA MatchFires ==
    ASSUME SearchIInv, Accepted, pc \in {"search", "found", "failed"}, NEW t \in Times
    PROVE  Match(t) <=> Fires(t)
<1>1. ASSUME NEW f \in Field PROVE Matches(f, t) <=> Says(f, expr[f], At[f][t])
  <2>1. expr[f] \in Tokens /\ Valid(f, expr[f]) /\ At[f][t] \in Int
    BY SearchAssumption, CalendarAssumption DEF SearchIInv, Accepted
  <2>2. QED
    BY <2>1, ValuesAre DEF Matches
<1>2. QED
  BY <1>1 DEF Match, Fires

\* parseCronField understands every token it accepts: the sets of values it
\* builds hold what the tokens say, in every field and for every number.
THEOREM MatchesAreFires == SearchSpec => []MatchIsFires
<1>1. SearchIInv /\ Accepted => MatchIsFires
  BY MatchFires DEF MatchIsFires
<1>2. QED
  BY SearchInvariance, Accepts, <1>1, PTL

-----------------------------------------------------------------------------
(* The search and the scheduler: CronSearch counts minutes and Scheduler   *)
(* seconds.                                                                *)

\* The schedule of Scheduler that stands for the expression of the search.
Firings == {60 * t : t \in {u \in Times : Fires(u)}}
AsSchedule == [kind |-> "cron", d |-> 0, fires |-> Firings]

\* The minutes in which Scheduler looks for an instant are those of the search.
LEMMA SameWindow ==
    ASSUME NEW s \in Nat, NEW t \in Nat, s \div 60 \in Nat, Window = 60 * SearchWindow,
           SearchWindow \in Nat
    PROVE  s < 60 * t /\ 60 * t <= s + Window <=> t \in s \div 60 + 1..s \div 60 + SearchWindow
<1>1. s = 60 * (s \div 60) + (s % 60) /\ s % 60 \in 0..59
  OBVIOUS
<1>2. QED
  BY <1>1

\* What NextRun takes from a search's end.
LEMMA SearchResult ==
    ASSUME SearchIInv, Accepted, NEW s \in Nat, from = s \div 60, Window = 60 * SearchWindow
    PROVE  /\ pc = "found" => NextRun(AsSchedule, s) = 60 * candidate
           /\ pc = "failed" => NextRun(AsSchedule, s) = NoTime
<1> USE Numbers
<1>1. \A x : x \in CronHits(AsSchedule, s)
         <=> \E t \in from + 1..from + SearchWindow : x = 60 * t /\ t \in Times /\ Fires(t)
  <2>1. \A t \in Times : t \in Nat
    BY DEF Times
  <2>2. \A t \in Times : s < 60 * t /\ 60 * t <= s + Window <=> t \in from + 1..from + SearchWindow
    BY <2>1, SameWindow
  <2>3. QED
    BY <2>2 DEF CronHits, AsSchedule, Firings
<1>2. AsSchedule.kind = "cron" /\ ~AtOnce(AsSchedule) /\ CronHits(AsSchedule, s) \subseteq AsSchedule.fires
  BY DEF AsSchedule, AtOnce, CronHits
<1>3. CASE pc = "found"
  <2>1. /\ candidate \in from + 1..from + SearchWindow /\ candidate \in Times /\ Fires(candidate)
        /\ \A t \in from + 1..candidate - 1 : t \in Times => ~Fires(t)
    BY <1>3, MatchFires DEF SearchIInv, Progress, Skipped
  <2>2. FirstHit(AsSchedule, s, 60 * candidate)
    <3>1. ASSUME NEW x \in CronHits(AsSchedule, s) PROVE 60 * candidate <= x
      <4>1. PICK t \in from + 1..from + SearchWindow : x = 60 * t /\ t \in Times /\ Fires(t)
        BY <1>1
      <4>2. candidate <= t
        BY <2>1, <4>1
      <4>3. QED
        BY <4>1, <4>2
    <3>2. QED
      BY <1>1, <2>1, <3>1 DEF FirstHit
  <2>3. \A x : FirstHit(AsSchedule, s, x) => x = 60 * candidate
    <3> TAKE x
    <3> HAVE FirstHit(AsSchedule, s, x)
    <3>1. x <= 60 * candidate /\ 60 * candidate <= x /\ x \in CronHits(AsSchedule, s)
      BY <2>2 DEF FirstHit
    <3>2. x \in Nat
      BY <1>1, <3>1
    <3>3. QED
      BY <3>1, <3>2
  <2>4. \E x \in AsSchedule.fires : FirstHit(AsSchedule, s, x)
    BY <1>2, <2>2 DEF FirstHit
  <2>5. NextRun(AsSchedule, s) = CHOOSE x \in AsSchedule.fires : FirstHit(AsSchedule, s, x)
    BY <1>2, <2>4 DEF NextRun, AtOnce
  <2>6. FirstHit(AsSchedule, s, NextRun(AsSchedule, s))
    BY <2>4, <2>5
  <2>7. QED
    BY <1>3, <2>3, <2>6
<1>4. CASE pc = "failed"
  <2>1. \A t \in from + 1..from + SearchWindow : t \in Times => ~Fires(t)
    BY <1>4, MatchFires DEF SearchIInv, Progress, Skipped
  <2>2. CronHits(AsSchedule, s) = {}
    BY <1>1, <2>1
  <2>3. ~ \E x \in AsSchedule.fires : FirstHit(AsSchedule, s, x)
    BY <2>2 DEF FirstHit
  <2>4. NextRun(AsSchedule, s) = NoTime
    BY <1>2, <2>3 DEF NextRun, AtOnce
  <2>5. QED
    BY <1>4, <2>4
<1>5. QED
  BY <1>3, <1>4

\* What Scheduler takes NextRun to be for a five-field expression is what the
\* search of parseCron computes, from any second of the minute it is cut off at.
ComputesNextRun ==
    \A s \in Nat :
       from = s \div 60 =>
          /\ pc = "found" => NextRun(AsSchedule, s) = 60 * candidate
          /\ pc = "failed" => NextRun(AsSchedule, s) = NoTime

THEOREM SearchIsNextRun ==
    ASSUME Window = 60 * SearchWindow
    PROVE  SearchSpec => []ComputesNextRun
<1>1. SearchIInv /\ Accepted => ComputesNextRun
  BY SearchResult DEF ComputesNextRun
<1>2. QED
  BY SearchInvariance, Accepts, <1>1, PTL
=============================================================================
