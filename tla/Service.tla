------------------------------ MODULE Service ------------------------------
(***************************************************************************)
(* The Windows service: Execute of internal/service/service.go between the *)
(* service control manager and the goroutines it starts.  Each part of the *)
(* service defers its own end, and when Execute returns, because a step of *)
(* its start has failed or because it is told to stop, the deferred calls  *)
(* run in reverse.  The goroutine of the scheduler, the tasks it launches  *)
(* and the handler of the pipe go on meanwhile: nothing but the context    *)
(* tells them to stop, and only the tasks are waited for.  The             *)
(* consolidations that their runs leave behind have a context of their     *)
(* own, which nobody cancels, and nobody waits for them.                   *)
(***************************************************************************)
EXTENDS Naturals, Sequences, SequencesExt

CONSTANTS
    Tasks,      \* goroutines for scheduled tasks
    Handler,    \* the goroutine of the pipe server
    Behind      \* goroutines of maybeConsolidate

ASSUME ServiceAssumption ==
    /\ Handler \notin Tasks
    /\ Behind \cap (Tasks \cup {Handler}) = {}

Workers    == Tasks \cup {Handler}
Goroutines == Workers \cup Behind

VARIABLES
    scm,        \* the state of the service in the eyes of the manager
    stopAsked,  \* a stop control waits to be received
    at,         \* the step Execute is at; 0 without a process
    defers,     \* the parts whose deferred end is still to come
    cancelled,  \* the context of the service
    polling,    \* the goroutine of the scheduler may still launch tasks
    work,       \* what each goroutine is doing
    bare        \* history: who has had a request sent without the API key

serviceVars == <<scm, stopAsked, at, defers, cancelled, polling, work, bare>>

\* The start of Execute, in order, and what it does afterwards.
Startup   == <<"config", "key", "database", "memory", "client", "scheduler", "pipe", "report">>
Serving   == Len(Startup) + 1
Returning == Serving + 1

\* The steps that leave a deferred call behind.
Deferring == {"key", "database", "client", "scheduler", "pipe"}

\* NewClient and NewScheduler cannot fail, a failure of the pipe is only noted.
Fallible == {"config", "key", "database", "memory"}

Open(part) == part \in Range(defers)

ServiceInit ==
    /\ scm = "absent"
    /\ stopAsked = FALSE
    /\ at = 0 /\ defers = <<>>
    /\ cancelled = FALSE /\ polling = FALSE
    /\ work = [g \in Goroutines |-> "none"]
    /\ bare = {}

\* The process is gone, with its goroutines and what was asked of it.
NothingKept ==
    /\ stopAsked' = FALSE
    /\ cancelled' = FALSE /\ polling' = FALSE
    /\ work' = [g \in Goroutines |-> "none"]

ProcessGone      == NothingKept /\ at' = 0 /\ defers' = <<>>
ProcessRestarted == NothingKept /\ at' = 1 /\ defers' = <<"context">>

-----------------------------------------------------------------------------
(* Execute *)

\* The manager starts the process.
Launched ==
    /\ scm' = "starting"
    /\ ProcessRestarted
    /\ UNCHANGED bare

Passes(step) ==
    /\ at \in DOMAIN Startup /\ Startup[at] = step
    /\ at' = at + 1
    /\ defers' = IF step \in Deferring THEN Append(defers, step) ELSE defers
    /\ polling' = (polling \/ step = "scheduler")
    /\ scm' = IF step = "report" THEN "running" ELSE scm
    /\ UNCHANGED <<stopAsked, cancelled, work, bare>>

\* The pipe is left out: no owner in the configuration, or NewServer fails.
NoPipe ==
    /\ at \in DOMAIN Startup /\ Startup[at] = "pipe"
    /\ at' = at + 1
    /\ UNCHANGED <<scm, stopAsked, defers, cancelled, polling, work, bare>>

\* fail: the manager is told, then the deferred calls run.
StartFails(step) ==
    /\ step \in Fallible
    /\ at \in DOMAIN Startup /\ Startup[at] = step
    /\ scm' = "stopped"
    /\ at' = Returning
    /\ UNCHANGED <<stopAsked, defers, cancelled, polling, work, bare>>

\* cancel() is left to the deferred calls, of which it is the last.
BuggyStopCancels == FALSE
StopCancels == TRUE

\* The case leaves the switch and not the loop.
BuggyAfterStop == Serving
AfterStop == Returning

ReceivesStop ==
    /\ at = Serving /\ stopAsked
    /\ stopAsked' = FALSE
    /\ scm' = "stopping"
    /\ cancelled' = StopCancels
    /\ at' = AfterStop
    /\ UNCHANGED <<defers, polling, work, bare>>

\* The last of the deferred calls.  Stop of the scheduler waits for its tasks.
RunsDeferred ==
    /\ at = Returning /\ defers # <<>>
    /\ Last(defers) = "scheduler" => \A t \in Tasks : work[t] = "none"
    /\ defers' = Front(defers)
    /\ cancelled' = (cancelled \/ Last(defers) = "context")
    /\ UNCHANGED <<scm, stopAsked, at, polling, work, bare>>

\* svc.Run reports the end, of a service that may be removed since fail has
\* done so, and with the process its goroutines go.
ProcessEnds ==
    /\ at = Returning /\ defers = <<>>
    /\ scm' = IF scm = "absent" THEN "absent" ELSE "stopped"
    /\ ProcessGone
    /\ UNCHANGED bare

\* It dies: no deferred call runs.
ProcessDies ==
    /\ at # 0
    /\ scm' = IF scm = "absent" THEN "absent" ELSE "stopped"
    /\ ProcessGone
    /\ UNCHANGED bare

Execute ==
    \/ ReceivesStop
    \/ RunsDeferred
    \/ ProcessEnds

-----------------------------------------------------------------------------
(* The goroutines *)

\* A poll that has read its rows launches a task although Stop is waiting, or
\* has waited.
TaskBegins(t) ==
    /\ polling /\ work[t] = "none"
    /\ work' = [work EXCEPT ![t] = "busy"]
    /\ UNCHANGED <<scm, stopAsked, at, defers, cancelled, polling, bare>>

\* Stop of the scheduler has closed quit.
Quit == at = Returning /\ (Open("scheduler") => Last(defers) = "scheduler")

\* The loop sees the end of the context, or quit.
PollingEnds ==
    /\ polling
    /\ cancelled \/ Quit
    /\ polling' = FALSE
    /\ UNCHANGED <<scm, stopAsked, at, defers, cancelled, work, bare>>

HandlerBegins ==
    /\ Open("pipe") /\ work[Handler] = "none"
    /\ work' = [work EXCEPT ![Handler] = "busy"]
    /\ UNCHANGED <<scm, stopAsked, at, defers, cancelled, polling, bare>>

\* A run that succeeds ends by starting a consolidation of its session.
LeavesBehind(w, c) ==
    /\ work[w] = "busy" /\ work[c] = "none"
    /\ work' = [work EXCEPT ![w] = "over", ![c] = "busy"]
    /\ UNCHANGED <<scm, stopAsked, at, defers, cancelled, polling, bare>>

\* doRequest puts the key, or the zeros that Close leaves, into a request.
Builds(g) ==
    /\ work[g] = "busy"
    /\ work' = [work EXCEPT ![g] = IF Open("client") /\ Open("key") THEN "keyed" ELSE "bare"]
    /\ UNCHANGED <<scm, stopAsked, at, defers, cancelled, polling, bare>>

\* maybeConsolidate is given context.Background().
CancelledFor(g) == g \in Workers /\ cancelled

\* The HTTP client is given the request.  It does nothing for a context that is
\* cancelled.
Sends(g) ==
    /\ work[g] \in {"keyed", "bare"} /\ ~CancelledFor(g)
    /\ bare' = IF work[g] = "bare" THEN bare \cup {g} ELSE bare
    /\ work' = [work EXCEPT ![g] = "busy"]
    /\ UNCHANGED <<scm, stopAsked, at, defers, cancelled, polling>>

\* It ends: its answer is complete, a request fails or the context is gone.
WorkEnds(g) ==
    /\ work[g] # "none"
    /\ work' = [work EXCEPT ![g] = "none"]
    /\ UNCHANGED <<scm, stopAsked, at, defers, cancelled, polling, bare>>

Works ==
    \/ \E t \in Tasks : TaskBegins(t)
    \/ HandlerBegins
    \/ PollingEnds
    \/ \E w \in Workers, c \in Behind : LeavesBehind(w, c)
    \/ \E g \in Goroutines : Builds(g) \/ Sends(g) \/ WorkEnds(g)

-----------------------------------------------------------------------------
(* Properties *)

\* Type invariant.
ServiceTypeOK ==
    /\ scm \in {"absent", "stopped", "starting", "running", "stopping"}
    /\ at \in 0..Returning
    /\ defers \in Seq({"context"} \cup Deferring)
    /\ cancelled \in BOOLEAN /\ polling \in BOOLEAN /\ stopAsked \in BOOLEAN
    /\ work \in [Goroutines -> {"none", "busy", "keyed", "bare", "over"}]
    /\ bare \subseteq Goroutines

\* No task and no answer to a client is made to fail by a request with a zeroed
\* key, although the client is closed and the key zeroed while the handler, or a
\* task launched late, is still going: by then its context is cancelled, and its
\* request is not made.  A consolidation that they have left behind has no such
\* context: it may send the zeros, which net/http refuses to put into a header.
RequestsCarryKey == bare \cap Workers = {}

\* A start ends in a service that runs or one that has stopped, and a stop
\* that was received ends, whatever the goroutines are doing.
ServiceSettles ==
    /\ scm = "starting" ~> scm # "starting"
    /\ scm = "stopping" ~> scm # "stopping"
=============================================================================
