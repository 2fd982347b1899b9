------------------------------- MODULE Tools -------------------------------
(***************************************************************************)
(* The tools of internal/tools and the hosts that wire them: what a        *)
(* Registry offers in a request, what Execute does with the calls of the   *)
(* answer, and the sub-agents that the delegate tool runs inside a call.   *)
(* Every step is a step of the run of AgentRun, or happens within the      *)
(* tool calls of one of its answers.  Tools run one after another in the   *)
(* goroutine of Run; the user edits the plugin directory at any time, and  *)
(* Ctrl+C or the end of the host cancels the context of the run.           *)
(***************************************************************************)
EXTENDS AgentRun, FiniteSets

CONSTANTS
    Files,     \* the .ps1 files there may be, by their headers
    Asked,     \* bound: the names of tools that answers ask for
    MaxCalls   \* bound: the tool calls of one answer

(***************************************************************************)
(* A header: the WinClaw-Plugin line, the Name line, and whether the       *)
(* Parameters line is JSON.                                                *)
(***************************************************************************)
ASSUME ToolsAssumption ==
    /\ Files \subseteq [marked : BOOLEAN, name : STRING, json : BOOLEAN]
    /\ MaxCalls \in Nat \ {0}

VARIABLES
    host,       \* the program the agent runs in: its options
    dir,        \* the files of the plugin directory
    loaded,     \* Registry.plugins of the run
    calls,      \* the tool calls of the answer that are not begun
    subs,       \* the Run of each sub-agent, outermost first
    cancelled,  \* the context of the run is cancelled
    requests,   \* history: requests sent for this input
    last        \* history: <<level, tool>> of the last call that took effect

toolVars == <<host, dir, loaded, calls, subs, cancelled, requests, last>>
allVars  == <<vars, toolVars>>

Level == Len(subs)

\* The Run of a sub-agent.
Frame == [pc : {"api", "tools"}, iteration : 0..MaxToolLoop - 1, calls : Seq(Asked)]

\* Where the innermost Run is.
At == IF subs = <<>> THEN pc ELSE subs[Level].pc

-----------------------------------------------------------------------------
(* What each host wires into NewRegistry *)

TerminalOptions  == [global |-> TRUE, delegate |-> TRUE,  plugins |-> TRUE]
ScheduledOptions == [global |-> TRUE, delegate |-> FALSE, plugins |-> TRUE]
ServiceOptions   == [global |-> TRUE, delegate |-> FALSE, plugins |-> FALSE]

\* The sub-agent inherits its host's options.
BuggySubOptions  == TerminalOptions

SubOptions       == [global |-> TRUE, delegate |-> FALSE, plugins |-> FALSE]

HostOptions == [terminal |-> TerminalOptions, scheduled |-> ScheduledOptions,
                service  |-> ServiceOptions]

OptionsAt(level) == IF level = 0 THEN HostOptions[host] ELSE SubOptions

\* parsePlugin: a file without the mark or without a name is skipped.
Parses(f) == f.marked /\ f.name # ""

PluginsAt(level) == IF OptionsAt(level).plugins THEN loaded ELSE {}

BuggyPluginsFor(l) == {f \in dir : Parses(f)}

\* The plugins Execute looks a name up in: those of its own registry.
PluginsFor(l) == PluginsAt(l)

-----------------------------------------------------------------------------
(* Definitions *)

FileTools    == {"read_file", "write_file", "list_directory"}
SearchTools  == {"web_search", "fetch_url"}
MemoryTools  == {"update_memory", "update_soul"}
WindowsTools == {"screenshot", "process_list", "kill_process", "toast_notify",
                 "run_elevated", "registry_read", "registry_write"}
Builtin      == {"bash"} \cup FileTools \cup SearchTools \cup MemoryTools \cup WindowsTools

Optional(level) ==
    {n \in {"update_global_memory", "delegate"} :
        \/ n = "update_global_memory" /\ OptionsAt(level).global
        \/ n = "delegate" /\ OptionsAt(level).delegate}

Offered(level) ==
    Builtin \cup Optional(level) \cup {f.name : f \in PluginsAt(level)}

(***************************************************************************)
(* The request can be marshalled, its schemas being JSON, and the API      *)
(* takes it, no two tools having one name.  Definitions checks neither.    *)
(***************************************************************************)
Sendable(level) ==
    /\ \A f \in PluginsAt(level) : f.json /\ f.name \notin Builtin \cup Optional(level)
    /\ \A f, g \in PluginsAt(level) : f.name = g.name => f = g

-----------------------------------------------------------------------------
(***************************************************************************)
(* What a call can come to.  "done": the tool took effect.  "noop": it did *)
(* not, and its content says so.  "error": its arguments are refused or    *)
(* Execute fails, and nothing is done.                                     *)
(***************************************************************************)
BuggyCancelledAt(level) == level = 0 /\ cancelled

\* executeDelegate hands the context of the call on to the sub-agent.
CancelledAt(level) == cancelled

\* executePowerShell: a command that fails, times out or finds its context
\* cancelled is reported as content.
PowerShell == {"noop"} \cup (IF CancelledAt(Level) THEN {} ELSE {"done"})

\* Arguments that cannot be read are an error of all tools but these.
Lenient == {"screenshot", "process_list"}

BashResults       == {"error"} \cup PowerShell
SearchResults     == {"error", "noop"} \cup (IF CancelledAt(Level) THEN {} ELSE {"done"})
FileResults       == {"error", "noop", "done"}
MemoryResults     == {"error", "noop", "done"}
GlobalResults     == {"error", "done"}
PluginResults     == PowerShell
WindowsResults(n) == IF n \in Lenient THEN PowerShell ELSE {"error"} \cup PowerShell

BuggyConfigured(n) == TRUE

\* The optional tools Execute has a callback for.
Configured(n) == n \in Optional(Level)

\* The names Execute has a case for, before it looks at the plugins.
Known == Builtin \cup {"update_global_memory", "delegate"}

\* Execute, for all but a call of delegate that starts a sub-agent.
Results(n) ==
    CASE n = "bash"                  -> BashResults
      [] n \in FileTools             -> FileResults
      [] n \in SearchTools           -> SearchResults
      [] n \in MemoryTools           -> MemoryResults
      [] n \in WindowsTools          -> WindowsResults(n)
      [] n = "update_global_memory"  -> IF Configured(n) THEN GlobalResults ELSE {"error"}
      [] n = "delegate"              -> {"error"}
      [] n \in {f.name : f \in PluginsFor(Level)} \ Known -> PluginResults
      [] OTHER                       -> {"error"}

-----------------------------------------------------------------------------
(* The run *)

ToolsInit ==
    /\ Init
    /\ host \in DOMAIN HostOptions
    /\ dir \in SUBSET Files
    /\ loaded = {}
    /\ calls = <<>>
    /\ subs = <<>>
    /\ cancelled = FALSE
    /\ requests = 0
    /\ last = <<>>

\* A request of the innermost Run leaves unless its context is cancelled.
Sent(level) == IF CancelledAt(level) THEN requests ELSE requests + 1

\* Scheduled tasks and the service load a session for every input.
MayBegin == host = "terminal" \/ runs = 0

\* SetAttachment, Reset, or a Run that is refused.
BetweenRuns ==
    /\ \/ host = "terminal" /\ (Attach \/ Reset)
       \/ MayBegin /\ RunRefused
    /\ UNCHANGED toolVars

\* The user adds or deletes a plugin file.
EditPlugins ==
    /\ \E f \in Files : dir' = IF f \in dir THEN dir \ {f} ELSE dir \cup {f}
    /\ UNCHANGED <<vars, host, loaded, calls, subs, cancelled, requests, last>>

\* Every turn has a registry of its own, which scans the directory.
TurnStarts ==
    /\ MayBegin
    /\ RunStarts
    /\ loaded' = {f \in dir : Parses(f)}
    /\ cancelled' = FALSE
    /\ requests' = 1
    /\ last' = <<>>
    /\ UNCHANGED <<host, dir, calls, subs>>

Cancel ==
    /\ pc # "idle"
    /\ ~cancelled
    /\ cancelled' = TRUE
    /\ UNCHANGED <<vars, host, dir, loaded, calls, subs, requests, last>>

\* The innermost request can be answered.
Answerable == At = "api" /\ ~CancelledAt(Level) /\ Sendable(Level)

\* The tool calls of an answer.
Answers == UNION {[1..n -> Asked] : n \in 1..MaxCalls}

\* The innermost Run gets an answer that asks for tools.
AnswerCallsTools ==
    /\ Answerable
    /\ \E cs \in Answers :
          \/ subs = <<>> /\ ApiCallsTools /\ calls' = cs /\ UNCHANGED subs
          \/ /\ subs # <<>>
             /\ subs' = [subs EXCEPT ![Level] = [@ EXCEPT !.pc = "tools", !.calls = cs]]
             /\ UNCHANGED <<vars, calls>>
    /\ UNCHANGED <<host, dir, loaded, cancelled, requests, last>>

\* The outer Run returns: its answer asks for no tool, or its request fails.
RunReturns ==
    /\ subs = <<>>
    /\ \/ Answerable /\ ApiAnswers
       \/ ApiFails
    /\ UNCHANGED toolVars

\* A sub-agent's Run returns, with an answer or an error: a result either way.
SubReturns ==
    /\ subs # <<>>
    /\ At = "api"
    /\ subs' = SubSeq(subs, 1, Level - 1)
    /\ UNCHANGED <<vars, host, dir, loaded, calls, cancelled, requests, last>>

\* The calls of the innermost answer that are not begun.
Todo == IF subs = <<>> THEN calls ELSE subs[Level].calls

\* The next of them is taken.
CallsLeft == IF subs = <<>> THEN Tail(calls) ELSE calls
SubsLeft  == IF subs = <<>> THEN subs ELSE [subs EXCEPT ![Level].calls = Tail(@)]

Execute ==
    /\ At = "tools" /\ Todo # <<>>
    /\ \E r \in Results(Head(Todo)) :
          last' = IF r = "done" THEN <<Level, Head(Todo)>> ELSE <<>>
    /\ calls' = CallsLeft
    /\ subs' = SubsLeft
    /\ UNCHANGED <<vars, host, dir, loaded, cancelled, requests>>

\* executeDelegate: a fresh session, so that Run accepts the prompt.
Delegate ==
    /\ At = "tools" /\ Todo # <<>>
    /\ Head(Todo) = "delegate"
    /\ Configured("delegate")
    /\ calls' = CallsLeft
    /\ subs' = Append(SubsLeft, [pc |-> "api", iteration |-> 0, calls |-> <<>>])
    /\ requests' = Sent(Level + 1)
    /\ last' = <<Level, "delegate">>
    /\ UNCHANGED <<vars, host, dir, loaded, cancelled>>

\* All calls of the outer answer have their results.
ResultsSent ==
    /\ subs = <<>>
    /\ calls = <<>>
    /\ ToolsDone
    /\ requests' = IF GoesOn THEN Sent(0) ELSE requests
    /\ UNCHANGED <<host, dir, loaded, calls, subs, cancelled, last>>

\* The same in a sub-agent, whose loop has the same limit.
SubResultsSent ==
    /\ subs # <<>>
    /\ At = "tools" /\ Todo = <<>>
    /\ LET i == subs[Level].iteration + 1
       IN  \/ /\ i < MaxToolLoop
              /\ subs' = [subs EXCEPT ![Level] = [@ EXCEPT !.pc = "api", !.iteration = i]]
              /\ requests' = Sent(Level)
           \/ /\ i >= MaxToolLoop
              /\ subs' = SubSeq(subs, 1, Level - 1)
              /\ UNCHANGED requests
    /\ UNCHANGED <<vars, host, dir, loaded, calls, cancelled, last>>

TurnStep == AnswerCallsTools \/ RunReturns \/ SubReturns \/ Execute \/ Delegate
            \/ ResultsSent \/ SubResultsSent

ToolsNext == BetweenRuns \/ EditPlugins \/ TurnStarts \/ Cancel \/ TurnStep

ToolsSpec == ToolsInit /\ [][ToolsNext]_allVars

-----------------------------------------------------------------------------
(* Properties *)

\* Type invariant.
ToolsTypeOK ==
    /\ host \in DOMAIN HostOptions
    /\ dir \subseteq Files /\ loaded \subseteq Files
    /\ calls \in Seq(Asked)
    /\ subs \in Seq(Frame)
    /\ cancelled \in BOOLEAN
    /\ requests \in Nat

\* The requests that one round of the outer loop can lead to.
RoundCost == 1 + MaxCalls * (IF HostOptions[host].delegate THEN MaxToolLoop ELSE 0)

(***************************************************************************)
(* One input costs a bounded number of requests: each of the MaxToolLoop   *)
(* rounds of the outer Run sends one, and in the terminal those of one     *)
(* loop more for each call of delegate that its answer makes.  A sub-agent *)
(* starts none of its own.                                                 *)
(***************************************************************************)
RequestBudget == pc # "idle" => requests <= (iteration + 1) * RoundCost

(***************************************************************************)
(* Definitions and Execute agree: nothing takes effect that the request    *)
(* did not offer, in a run or in a sub-agent, whatever names the answer    *)
(* uses and whatever is put into the plugin directory meanwhile.           *)
(***************************************************************************)
OnlyOfferedRun == last # <<>> => last[2] \in Offered(last[1])

(***************************************************************************)
(* Once the run is cancelled no request leaves, of the run or of a sub-    *)
(* agent, and of the calls that are left only those take effect that look  *)
(* at no context: the tools for files and memory, and a delegate call that *)
(* comes to nothing.                                                       *)
(***************************************************************************)
CancelStopsWork ==
    [][cancelled /\ cancelled' =>
          /\ requests' = requests
          /\ last' # last /\ last' # <<>> =>
                last'[2] \in FileTools \cup MemoryTools \cup {"update_global_memory", "delegate"}]_allVars
=============================================================================
