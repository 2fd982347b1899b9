----------------------------- MODULE Scheduler -----------------------------
(***************************************************************************)
(* The task scheduler of internal/scheduler/scheduler.go: poll loops that  *)
(* read due rows of the scheduled_tasks table, run each due task in a      *)
(* goroutine of its own and write the outcome back, beside the operations  *)
(* Schedule, Pause, Resume and Cancel that users call on the same table.   *)
(*                                                                         *)
(* Every process in Procs (an interactive winclaw.exe, the Windows         *)
(* service) owns one Scheduler; they share the table.  One unit of time is *)
(* one second, the resolution of every time the code stores or compares    *)
(* (time.Time.Unix); an @every duration is a whole number of seconds.       *)
(***************************************************************************)
EXTENDS Integers, FiniteSets

CONSTANTS
    Procs,          \* operating system processes that run a Scheduler
    Tasks,          \* ids of the rows of scheduled_tasks
    Exprs,          \* the schedule expressions that users give
    Window,         \* how far ahead parseCron searches
    PollInterval,   \* pollInterval
    DbFaults,       \* TRUE: a statement may fail (SQLITE_BUSY between processes)
    MaxTime         \* bound: time stops here

(***************************************************************************)
(* A schedule expression.  "once" is @once, "padded" the same with blanks  *)
(* around it, which nextRun trims and executeTask does not; "every" is     *)
(* @every d (d = 0: a duration the parser refuses), "cron" is a five-field *)
(* expression, known by the instants it matches.                           *)
(***************************************************************************)
Schedules == [kind : {"once", "padded", "every", "cron"}, d : Nat, fires : SUBSET Nat]

\* What strings.TrimSpace(schedule) == "@once" tells.
AtOnce(s) == s.kind \in {"once", "padded"}

ASSUME ConstantsAssumption ==
    /\ Exprs \subseteq Schedules
    /\ Window \in Nat
    /\ PollInterval \in Nat \ {0}
    /\ DbFaults \in BOOLEAN
    /\ MaxTime \in Nat \ {0}

VARIABLES
    now,        \* the wall clock, the same for all processes of the machine
    schedule,   \* the table, by column: schedule[t], with which t is created,
    status,     \*   status[t],
    next_run,   \*   next_run[t]
    last_run,   \*   and last_run[t] of the row of task t
    loop,       \* loop[p]: where p's Start goroutine is
    startedAt,  \* startedAt[p]: when p's ticker was created, 0 without one
    ticked,     \* ticked[p]: a tick waits in p's ticker channel (capacity 1)
    pollNow,    \* pollNow[p]: the now p's poll captured, 0 outside a poll
    due,        \* due[p]: tasks p's poll has read and not launched yet
    execs,      \* executeTask goroutines of all processes (the WaitGroups)
    quit,       \* quit[p]: the quit channel is closed
    ctxDone,    \* ctxDone[p]: the context given to Start is cancelled
    stopPc,     \* stopPc[p]: where p's call of Stop is
    resuming,   \* resuming[t]: next_run computed by a Resume not yet written
    done,       \* history: done[t], instants polled at whose run took place,
    off,        \*   off[t], when t was last paused or cancelled,
    resumed     \*   resumed[t], the next_run t's last Resume wrote

tableVars == <<schedule, status, next_run, last_run>>
histVars  == <<done, off, resumed>>
procVars  == <<loop, startedAt, ticked, pollNow, due, quit, ctxDone, stopPc>>
vars      == <<now, tableVars, procVars, execs, resuming, histVars>>

NoTime == 0     \* the zero time.Time; the clock starts after it
Never  == 0     \* last_run of a task that has not run

Exec == [proc : Procs, task : Tasks, runAt : Nat, next : Nat,
         phase : {"running", "returned", "aborted"}]

ExecsOf(p) == {e \in execs : e.proc = p}

\* Rows exist with one of the three statuses the schema's CHECK allows.
Exists(t) == status[t] # "absent"

-----------------------------------------------------------------------------
(* Schedule expressions *)

CronHits(s, from) == {f \in s.fires : from < f /\ f <= from + Window}

FirstHit(s, from, f) ==
    f \in CronHits(s, from) /\ \A g \in CronHits(s, from) : f <= g

\* nextRun: NoTime stands for a returned error.
NextRun(s, from) ==
    CASE AtOnce(s)        -> from
      [] s.kind = "every" -> IF s.d = 0 THEN NoTime ELSE from + s.d
      [] s.kind = "cron"  -> IF \E f \in s.fires : FirstHit(s, from, f)
                             THEN CHOOSE f \in s.fires : FirstHit(s, from, f)
                             ELSE NoTime

-----------------------------------------------------------------------------
Init ==
    /\ now = 1
    /\ schedule \in [Tasks -> Exprs]
    /\ status = [t \in Tasks |-> "absent"]
    /\ next_run = [t \in Tasks |-> NoTime]
    /\ last_run = [t \in Tasks |-> Never]
    /\ loop = [p \in Procs |-> "off"]
    /\ startedAt = [p \in Procs |-> 0]
    /\ ticked = [p \in Procs |-> FALSE]
    /\ pollNow = [p \in Procs |-> 0]
    /\ due = [p \in Procs |-> {}]
    /\ execs = {}
    /\ quit = [p \in Procs |-> FALSE]
    /\ ctxDone = [p \in Procs |-> FALSE]
    /\ stopPc = [p \in Procs |-> "idle"]
    /\ resuming = [t \in Tasks |-> NoTime]
    /\ done = [t \in Tasks |-> {}]
    /\ off = [t \in Tasks |-> 0]
    /\ resumed = [t \in Tasks |-> NoTime]

-----------------------------------------------------------------------------
(* The poll loop of one process *)

BuggyHoistedNow(p) == startedAt[p]

\* now := time.Now() at the head of poll
CapturedNow(p) == now

\* Start: create the ticker and enter the first poll at once.
Start(p) ==
    /\ loop[p] = "off"
    /\ loop' = [loop EXCEPT ![p] = "poll"]
    /\ startedAt' = [startedAt EXCEPT ![p] = now]
    /\ pollNow' = [pollNow EXCEPT ![p] = now]
    /\ UNCHANGED <<now, tableVars, ticked, due, execs, quit, ctxDone, stopPc, resuming, histVars>>

\* select takes the tick.
Tick(p) ==
    /\ loop[p] = "select"
    /\ ticked[p]
    /\ loop' = [loop EXCEPT ![p] = "poll"]
    /\ ticked' = [ticked EXCEPT ![p] = FALSE]
    /\ pollNow' = [pollNow EXCEPT ![p] = CapturedNow(p)]
    /\ UNCHANGED <<now, tableVars, startedAt, due, execs, quit, ctxDone, stopPc, resuming, histVars>>

BuggyDueTasks(p) ==
    {t \in Tasks : status[t] \in {"active", "paused"} /\ next_run[t] <= pollNow[p]}

\* WHERE status = 'active' AND next_run <= ?
DueTasks(p) ==
    {t \in Tasks : status[t] = "active" /\ next_run[t] <= pollNow[p]}

\* The query of poll: the due rows, read into memory at once.
Query(p) ==
    /\ loop[p] = "poll"
    /\ ~ctxDone[p]
    /\ due' = [due EXCEPT ![p] = DueTasks(p)]
    /\ loop' = [loop EXCEPT ![p] = IF DueTasks(p) = {} THEN "select" ELSE "launch"]
    /\ pollNow' = [pollNow EXCEPT ![p] = IF DueTasks(p) = {} THEN 0 ELSE @]
    /\ UNCHANGED <<now, tableVars, startedAt, ticked, execs, quit, ctxDone,
                   stopPc, resuming, histVars>>

\* The query fails (always once ctx is cancelled): the next poll retries.
QueryFails(p) ==
    /\ loop[p] = "poll"
    /\ ctxDone[p] \/ DbFaults
    /\ loop' = [loop EXCEPT ![p] = "select"]
    /\ pollNow' = [pollNow EXCEPT ![p] = 0]
    /\ UNCHANGED <<now, tableVars, startedAt, ticked, due, execs, quit,
                   ctxDone, stopPc, resuming, histVars>>

\* One turn of the launching loop: wg.Add(1) and a goroutine for one due task.
Launch(p, t) ==
    /\ loop[p] = "launch"
    /\ t \in due[p]
    /\ execs' = execs \cup
         {[proc |-> p, task |-> t, runAt |-> pollNow[p],
           next |-> NextRun(schedule[t], pollNow[p]), phase |-> "running"]}
    /\ due' = [due EXCEPT ![p] = @ \ {t}]
    /\ loop' = [loop EXCEPT ![p] = IF due[p] = {t} THEN "select" ELSE "launch"]
    /\ pollNow' = [pollNow EXCEPT ![p] = IF due[p] = {t} THEN 0 ELSE @]
    /\ UNCHANGED <<now, tableVars, startedAt, ticked, quit, ctxDone, stopPc,
                   resuming, histVars>>

\* select takes <-quit or <-ctx.Done(); both stop the ticker and wait.
LeaveLoop(p) ==
    /\ loop[p] = "select"
    /\ quit[p] \/ ctxDone[p]
    /\ loop' = [loop EXCEPT ![p] = "drain"]
    /\ startedAt' = [startedAt EXCEPT ![p] = 0]
    /\ ticked' = [ticked EXCEPT ![p] = FALSE]
    /\ UNCHANGED <<now, tableVars, pollNow, due, execs, quit,
                   ctxDone, stopPc, resuming, histVars>>

\* wg.Wait returns in Start.
Drained(p) ==
    /\ loop[p] = "drain"
    /\ ExecsOf(p) = {}
    /\ loop' = [loop EXCEPT ![p] = "done"]
    /\ UNCHANGED <<now, tableVars, startedAt, ticked, pollNow, due, execs, quit,
                   ctxDone, stopPc, resuming, histVars>>

-----------------------------------------------------------------------------
(* executeTask *)

Advanced(e, phase) == (execs \ {e}) \cup {[e EXCEPT !.phase = phase]}

\* s.runTask returns, with or without an error of its own.
RunReturns(e) ==
    /\ e.phase = "running"
    /\ execs' = Advanced(e, "returned")
    /\ done' = [done EXCEPT ![e.task] = @ \cup {e.runAt}]
    /\ UNCHANGED <<now, tableVars, procVars, resuming, off, resumed>>

\* s.runTask gives up because its context is cancelled.
RunAborts(e) ==
    /\ e.phase = "running"
    /\ ctxDone[e.proc]
    /\ execs' = Advanced(e, "aborted")
    /\ UNCHANGED <<now, tableVars, loop, startedAt, ticked, pollNow, due, quit,
                   ctxDone, stopPc, resuming, histVars>>

\* nextRunVal: a schedule with no next time advances by the poll interval.
NextRunVal(e) ==
    IF e.next = NoTime \/ e.next < e.runAt THEN e.runAt + PollInterval ELSE e.next

\* t.Schedule == "@once", to the letter.
IsOnce(t) == schedule[t].kind = "once"

\* Only a @once task changes status when its run is recorded.
RecordedStatus(e) == IF IsOnce(e.task) THEN "cancelled" ELSE status[e.task]

BuggyMayRecord(e) == TRUE
BuggyRecordFirst(e) == ~ctxDone[e.proc]

\* runTask is over and the context lets the UPDATE run.
MayRecord(e) == e.phase # "running" /\ ~ctxDone[e.proc]

\* The UPDATE succeeds; then wg.Done.
Record(e) ==
    /\ MayRecord(e)
    /\ status' = [status EXCEPT ![e.task] = RecordedStatus(e)]
    /\ next_run' = [next_run EXCEPT ![e.task] = IF IsOnce(e.task) THEN @ ELSE NextRunVal(e)]
    /\ last_run' = [last_run EXCEPT ![e.task] = e.runAt]
    /\ execs' = execs \ {e}
    /\ off' = [off EXCEPT ![e.task] = IF RecordedStatus(e) = status[e.task] THEN @ ELSE now]
    /\ UNCHANGED <<now, schedule, procVars, resuming, done, resumed>>

\* A failed UPDATE returns without wg.Done.
BuggyRecordFails(e) == FALSE

\* The UPDATE fails and its error is dropped; then wg.Done.
RecordFails(e) ==
    /\ e.phase # "running"
    /\ ctxDone[e.proc] \/ DbFaults
    /\ execs' = execs \ {e}
    /\ UNCHANGED <<now, tableVars, loop, startedAt, ticked, pollNow, due, quit,
                   ctxDone, stopPc, resuming, histVars>>

-----------------------------------------------------------------------------
(* Stopping: Scheduler.Stop, cancellation of Start's context, process exit *)

Stop(p) ==
    /\ loop[p] # "off"
    /\ stopPc[p] = "idle"
    /\ quit' = [quit EXCEPT ![p] = TRUE]
    /\ stopPc' = [stopPc EXCEPT ![p] = "waiting"]
    /\ UNCHANGED <<now, tableVars, loop, startedAt, ticked, pollNow, due, execs,
                   ctxDone, resuming, histVars>>

\* wg.Wait returns in Stop: no goroutine is counted at this instant.
StopReturns(p) ==
    /\ stopPc[p] = "waiting"
    /\ ExecsOf(p) = {}
    /\ stopPc' = [stopPc EXCEPT ![p] = "returned"]
    /\ UNCHANGED <<now, tableVars, loop, startedAt, ticked, pollNow, due, execs,
                   quit, ctxDone, resuming, histVars>>

CancelContext(p) ==
    /\ loop[p] # "off"
    /\ ~ctxDone[p]
    /\ ctxDone' = [ctxDone EXCEPT ![p] = TRUE]
    /\ UNCHANGED <<now, tableVars, loop, startedAt, ticked, pollNow, due, execs,
                   quit, stopPc, resuming, histVars>>

\* The process is gone (crash, os.Exit, or end of main) and with it everything
\* but the table.  Start may follow: the next launch of the program.
ProcessExit(p) ==
    /\ loop[p] # "off"
    /\ loop' = [loop EXCEPT ![p] = "off"]
    /\ startedAt' = [startedAt EXCEPT ![p] = 0]
    /\ ticked' = [ticked EXCEPT ![p] = FALSE]
    /\ pollNow' = [pollNow EXCEPT ![p] = 0]
    /\ due' = [due EXCEPT ![p] = {}]
    /\ execs' = execs \ ExecsOf(p)
    /\ quit' = [quit EXCEPT ![p] = FALSE]
    /\ ctxDone' = [ctxDone EXCEPT ![p] = FALSE]
    /\ stopPc' = [stopPc EXCEPT ![p] = "idle"]
    /\ UNCHANGED <<now, tableVars, resuming, histVars>>

-----------------------------------------------------------------------------
(* Operations of users *)

\* Schedule refuses an expression with no next time and inserts nothing.
Schedule(t) ==
    /\ ~Exists(t)
    /\ NextRun(schedule[t], now) # NoTime
    /\ status' = [status EXCEPT ![t] = "active"]
    /\ next_run' = [next_run EXCEPT ![t] = NextRun(schedule[t], now)]
    /\ last_run' = [last_run EXCEPT ![t] = Never]
    /\ UNCHANGED <<now, schedule, procVars, execs, resuming, histVars>>

\* setStatus, whatever the status was; no row changes if t does not exist.
SetStatus(t, new) ==
    /\ Exists(t)
    /\ status' = [status EXCEPT ![t] = new]
    /\ off' = [off EXCEPT ![t] = now]
    /\ UNCHANGED <<now, schedule, next_run, last_run, procVars, execs, resuming, done,
                   resumed>>

Pause(t)  == SetStatus(t, "paused")
Cancel(t) == SetStatus(t, "cancelled")

\* Resume, first half: loadTask and nextRun; an error ends it here.
ResumeLoad(t) ==
    /\ Exists(t)
    /\ resuming[t] = NoTime
    /\ NextRun(schedule[t], now) # NoTime
    /\ resuming' = [resuming EXCEPT ![t] = NextRun(schedule[t], now)]
    /\ UNCHANGED <<now, tableVars, procVars, execs, histVars>>

\* Resume, second half: the UPDATE, whatever the status is by now.
ResumeWrite(t) ==
    /\ resuming[t] # NoTime
    /\ status' = [status EXCEPT ![t] = "active"]
    /\ next_run' = [next_run EXCEPT ![t] = resuming[t]]
    /\ resuming' = [resuming EXCEPT ![t] = NoTime]
    /\ resumed' = [resumed EXCEPT ![t] = resuming[t]]
    /\ UNCHANGED <<now, schedule, last_run, procVars, execs, done, off>>

-----------------------------------------------------------------------------
\* A ticker drops a tick its channel has no room for.
Advance ==
    /\ now < MaxTime
    /\ now' = now + 1
    /\ ticked' = [p \in Procs |->
          \/ ticked[p]
          \/ /\ loop[p] \in {"poll", "launch", "select"}
             /\ (now + 1 - startedAt[p]) % PollInterval = 0]
    /\ UNCHANGED <<tableVars, loop, startedAt, pollNow, due, execs, quit, ctxDone,
                   stopPc, resuming, histVars>>

LoopStep(p) ==
    \/ Tick(p)
    \/ Query(p)
    \/ QueryFails(p)
    \/ \E t \in Tasks : Launch(p, t)
    \/ LeaveLoop(p)
    \/ Drained(p)

ExecStep(e) ==
    \/ RunReturns(e)
    \/ RunAborts(e)
    \/ Record(e)
    \/ RecordFails(e)

ProcessStep(p) ==
    \/ Start(p)
    \/ Stop(p)
    \/ StopReturns(p)
    \/ CancelContext(p)
    \/ ProcessExit(p)

UserStep(t) ==
    \/ Schedule(t)
    \/ Pause(t)
    \/ Cancel(t)
    \/ ResumeLoad(t)
    \/ ResumeWrite(t)

Next ==
    \/ \E p \in Procs : LoopStep(p) \/ ProcessStep(p)
    \/ \E e \in execs : ExecStep(e)
    \/ \E t \in Tasks : UserStep(t)
    \/ Advance

Spec == Init /\ [][Next]_vars

(***************************************************************************)
(* The Go runtime runs every goroutine that can run; the clock advances; a *)
(* run of the agent ends (every API call and every tool has a timeout, and *)
(* the tool loop is bounded).  Users and process exits owe nothing.        *)
(***************************************************************************)
Fairness ==
    /\ WF_vars(Advance)
    /\ \A p \in Procs : WF_vars(LoopStep(p)) /\ WF_vars(StopReturns(p))
    /\ \A p \in Procs, t \in Tasks :
          WF_vars(\E e \in execs : e.proc = p /\ e.task = t /\ ExecStep(e))

FairSpec == Spec /\ Fairness

-----------------------------------------------------------------------------
(* Safety *)

\* Type invariant.
TypeOK ==
    /\ now \in 1..MaxTime
    /\ schedule \in [Tasks -> Exprs]
    /\ status \in [Tasks -> {"absent", "active", "paused", "cancelled"}]
    /\ next_run \in [Tasks -> Nat]
    /\ last_run \in [Tasks -> Nat]
    /\ loop \in [Procs -> {"off", "poll", "launch", "select", "drain", "done"}]
    /\ startedAt \in [Procs -> Nat]
    /\ ticked \in [Procs -> BOOLEAN]
    /\ pollNow \in [Procs -> Nat]
    /\ due \in [Procs -> SUBSET Tasks]
    /\ execs \subseteq Exec
    /\ quit \in [Procs -> BOOLEAN]
    /\ ctxDone \in [Procs -> BOOLEAN]
    /\ stopPc \in [Procs -> {"idle", "waiting", "returned"}]
    /\ resuming \in [Tasks -> Nat]
    /\ done \in [Tasks -> SUBSET Nat]
    /\ off \in [Tasks -> Nat]
    /\ resumed \in [Tasks -> Nat]

\* last_run never names a run that did not take place: not one a shutdown
\* aborted, nor one still going (executeTask runs first and writes second).
RecordedRunsHappened ==
    \A t \in Tasks : last_run[t] = Never \/ last_run[t] \in done[t]

\* A task that is paused or cancelled is still run only by goroutines whose
\* poll began before it was deactivated, however late they are launched.
InFlightExplained ==
    \A t \in Tasks :
       status[t] \in {"paused", "cancelled"} =>
          /\ \A e \in execs : e.task = t => e.runAt <= off[t]
          /\ \A p \in Procs : t \in due[p] => pollNow[p] <= off[t]

\* A recurring task's recorded run moves next_run past the instant it was
\* polled at: the "infinite tight loop" executeTask guards against.
FinishAdvances ==
    [][\A t \in Tasks :
          last_run'[t] # last_run[t] /\ ~AtOnce(schedule[t])
             => next_run'[t] > last_run'[t]]_vars

\* An @every task that is due, and that nobody has resumed, stays due until a
\* run polled less than one interval ago has taken place: no crash, no shutdown
\* and no failed statement skips an occurrence.  (A goroutine that is late may:
\* it writes the next_run of its own poll over that of an earlier one.)
MissedRunStaysDue ==
    [][\A t \in Tasks :
          /\ schedule[t].kind = "every" /\ resumed'[t] = NoTime
          /\ status[t] = "active"  /\ next_run[t] <= now
          /\ status'[t] = "active" /\ next_run'[t] > now
          => \E r \in done[t] : now < r + schedule[t].d]_vars

\* A row of scheduled_tasks behaves as TaskLedger says.
Ledger == INSTANCE TaskLedger WITH
    Instants <- 1..MaxTime,
    oneShot  <- {t \in Tasks : IsOnce(t)},
    last     <- last_run

\* The scheduler implements the ledger.
ImplementsLedger == Ledger!Spec

-----------------------------------------------------------------------------
(* Liveness *)

Serving(p) == loop[p] \in {"poll", "launch", "select"} /\ ~quit[p] /\ ~ctxDone[p]

\* A due task is run while a poll loop is serving, unless a user steps in.  The
\* loop gets a whole PollInterval before MaxTime stops the clock.
DueTaskFires ==
    \A p \in Procs, t \in Tasks :
       ( /\ status[t] = "active" /\ next_run[t] <= now
         /\ Serving(p) /\ now + PollInterval <= MaxTime )
       ~> ( \/ \E e \in execs : e.task = t
            \/ status[t] # "active" \/ next_run[t] + PollInterval > MaxTime
            \/ ~Serving(p) )

\* Stop returns: every goroutine it waits for ends and is counted off.
StopEnds == \A p \in Procs : stopPc[p] = "waiting" ~> stopPc[p] # "waiting"

-----------------------------------------------------------------------------
(* What the comments say and the code does not do; see the runs that expect *)
(* a violation.                                                             *)

\* scheduler.go on Resume: the "task fires at the next scheduled interval
\* rather than immediately catching up".
ResumeNoCatchUp ==
    \A t \in Tasks :
       status[t] = "active" /\ now < resumed[t] => now < next_run[t]

\* scheduler.go on Stop: it "waits for in-flight tasks to complete before
\* returning", so that afterwards none is in flight.
StopDrains ==
    \A p \in Procs : stopPc[p] = "returned" => ExecsOf(p) = {}

\* scheduler.go on Cancel: it "permanently deactivates a task".
CancelIsFinal ==
    [][\A t \in Tasks : status[t] = "cancelled" => status'[t] # "active"]_vars

=============================================================================
