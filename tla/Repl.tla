-------------------------------- MODULE Repl ---------------------------------
(***************************************************************************)
(* The terminal's loop of internal/terminal/repl.go: REPL.Run, its commands*)
(* and runAgent, between what readLine returns and main, which starts the  *)
(* loop and stops the scheduler after it.  Run is one goroutine.  Others   *)
(* are the signal handler of main, the scheduler's poll loop and its runs. *)
(* Module Terminal joins this loop to the bytes of LineEditor.             *)
(***************************************************************************)
EXTENDS Naturals

CONSTANTS
    MaxTurns,   \* Agent.MaxTurns
    Lines       \* the lines the user enters

ASSUME ReplAssumption ==
    /\ MaxTurns \in Nat \ {0}
    /\ Lines \subseteq {"say", "new", "switch", "reset", "think", "attach",
                        "edit", "other", "exit"}

Objs == 1..2            \* *agent.Session: a new one replaces the one in use

VARIABLES
    pc,         \* check, read, handle, run, notepad, leave, stop, ended
    line,       \* the line being handled
    session,    \* REPL.session
    agentObj,   \* REPL.agentObj: its session, UseThinking, pendingAttachment
    messages,   \* Session.Messages of each session object, in turns
    agentRunning,
    cancelled,  \* main's rootCtx
    raw,        \* the console is in raw mode
    polling,    \* Start of the scheduler has not come to its end
    task,       \* a scheduled run is in flight
    since       \* history: turns since the session was entered or reset

loop  == <<session, agentObj, messages>>
bg    == <<polling, task>>
vars  == <<pc, line, loop, agentRunning, cancelled, raw, bg, since>>

NewAgent(o) == [obj |-> o, thinking |-> FALSE, image |-> FALSE]

\* main has set --attach on the first agent.
Init ==
    /\ pc = "check"
    /\ line = "other"
    /\ session = 1
    /\ \E attached \in BOOLEAN : agentObj = [NewAgent(1) EXCEPT !.image = attached]
    /\ messages = [o \in Objs |-> 0]
    /\ agentRunning = FALSE
    /\ cancelled = FALSE
    /\ raw = TRUE
    /\ polling = TRUE /\ task = FALSE
    /\ since = 0

-----------------------------------------------------------------------------
(* Around the loop *)

\* os.Interrupt: Ctrl+Break, since Ctrl+C is a byte in raw mode.
Signal ==
    /\ pc # "ended" /\ ~cancelled
    /\ cancelled' = TRUE
    /\ UNCHANGED <<pc, line, loop, agentRunning, raw, bg, since>>

\* A poll launches what it has read, whatever has become of quit and of the
\* context since Start last looked at them.
TaskStarts ==
    /\ pc # "ended" /\ polling /\ ~task
    /\ task' = TRUE
    /\ UNCHANGED <<pc, line, loop, agentRunning, cancelled, raw, polling, since>>

\* Start finds the context cancelled, or quit closed by Stop, and polls no more.
PollingEnds ==
    /\ pc # "ended" /\ polling
    /\ cancelled \/ pc = "stop"
    /\ polling' = FALSE
    /\ UNCHANGED <<pc, line, loop, agentRunning, cancelled, raw, task, since>>

TaskEnds ==
    /\ pc # "ended" /\ task
    /\ task' = FALSE
    /\ UNCHANGED <<pc, line, loop, agentRunning, cancelled, raw, polling, since>>

-----------------------------------------------------------------------------
(* Run *)

GoesTo(place) == pc' = place

BuggyCtxDone == FALSE
CtxDone == cancelled

\* The one place where the loop looks at its context.
Check ==
    /\ pc = "check"
    /\ GoesTo(IF CtxDone THEN "leave" ELSE "read")
    /\ UNCHANGED <<line, loop, agentRunning, cancelled, raw, bg, since>>

\* readLine returns when the user has entered a line, whatever becomes of the
\* context meanwhile: os.Stdin.Read waits for the console.
LineEntered ==
    /\ pc = "read"
    /\ line' \in Lines
    /\ GoesTo("handle")
    /\ UNCHANGED <<loop, agentRunning, cancelled, raw, bg, since>>

BlankEntered ==
    /\ pc = "read"
    /\ GoesTo("check")
    /\ UNCHANGED <<line, loop, agentRunning, cancelled, raw, bg, since>>

\* The error of readLine: Ctrl+C, Ctrl+D on an empty line, the console closed.
ReadEnds ==
    /\ pc = "read"
    /\ GoesTo("leave")
    /\ UNCHANGED <<line, loop, agentRunning, cancelled, raw, bg, since>>

ReadLine == LineEntered \/ BlankEntered \/ ReadEnds

Restored == FALSE

\* The deferred term.Restore; main goes on.
Leave ==
    /\ pc = "leave"
    /\ raw' = Restored
    /\ GoesTo("stop")
    /\ UNCHANGED <<line, loop, agentRunning, cancelled, bg, since>>

\* main: sched.Stop waits for the runs in flight.
StopScheduler ==
    /\ pc = "stop" /\ ~task
    /\ GoesTo("ended")
    /\ UNCHANGED <<line, loop, agentRunning, cancelled, raw, bg, since>>

-----------------------------------------------------------------------------
(* handleCommand *)

Handling(command) == pc = "handle" /\ line = command
Done == GoesTo("check")

\* The session becomes object o, as it comes from the table: with no messages.
BuggyEnters(o) ==
    /\ session' = o
    /\ messages' = [messages EXCEPT ![o] = 0]
    /\ UNCHANGED agentObj

Enters(o) ==
    /\ session' = o
    /\ messages' = [messages EXCEPT ![o] = 0]
    /\ agentObj' = NewAgent(o)

\* cmdNew and cmdSwitch, also to the session the terminal is in.
cmdNewOrSwitch ==
    /\ Handling("new") \/ Handling("switch")
    /\ \E o \in Objs \ {session, agentObj.obj} : Enters(o)
    /\ since' = 0
    /\ Done
    /\ UNCHANGED <<line, agentRunning, cancelled, raw, bg>>

\* Create, List or the search fails, or the file to attach or to edit.
CommandFails ==
    /\ pc = "handle" /\ line \in {"new", "switch", "attach", "edit"}
    /\ Done
    /\ UNCHANGED <<line, loop, agentRunning, cancelled, raw, bg, since>>

cmdReset ==
    /\ Handling("reset")
    /\ messages' = [messages EXCEPT ![agentObj.obj] = 0]
    /\ since' = 0
    /\ Done
    /\ UNCHANGED <<line, session, agentObj, agentRunning, cancelled, raw, bg>>

cmdThink ==
    /\ Handling("think")
    /\ agentObj' = [agentObj EXCEPT !.thinking = ~@]
    /\ Done
    /\ UNCHANGED <<line, session, messages, agentRunning, cancelled, raw,
                   bg, since>>

cmdAttach ==
    /\ Handling("attach")
    /\ agentObj' = [agentObj EXCEPT !.image = TRUE]
    /\ Done
    /\ UNCHANGED <<line, session, messages, agentRunning, cancelled, raw,
                   bg, since>>

\* /memory edit and /soul edit: the mode restored is the one GetState has just
\* read, and the loop waits for Notepad.
cmdEdit ==
    /\ Handling("edit")
    /\ LET old == raw IN raw' = old
    /\ GoesTo("notepad")
    /\ UNCHANGED <<line, loop, agentRunning, cancelled, bg, since>>

NotepadCloses ==
    /\ pc = "notepad"
    /\ raw' = TRUE
    /\ Done
    /\ UNCHANGED <<line, loop, agentRunning, cancelled, bg, since>>

\* The commands that show something or go to the sessions or the scheduler:
\* nothing of the loop's changes.
cmdOther ==
    /\ Handling("other")
    /\ Done
    /\ UNCHANGED <<line, loop, agentRunning, cancelled, raw, bg, since>>

\* os.Exit(0).
cmdExit ==
    /\ Handling("exit")
    /\ GoesTo("ended")
    /\ UNCHANGED <<line, loop, agentRunning, cancelled, raw, bg, since>>

-----------------------------------------------------------------------------
(* runAgent *)

AtLimit == messages[session] >= MaxTurns

\* A new agent for each turn.  Run builds the request from it, takes its
\* attachment and remembers the message.
runAgent ==
    /\ Handling("say")
    /\ ~AtLimit
    /\ agentRunning' = TRUE
    /\ agentObj' = NewAgent(session)
    /\ GoesTo("run")
    /\ UNCHANGED <<line, session, messages, cancelled, raw, bg, since>>

\* Run finds the session at its limit.
RunRefused ==
    /\ Handling("say")
    /\ AtLimit
    /\ agentObj' = NewAgent(session)
    /\ Done
    /\ UNCHANGED <<line, session, messages, agentRunning, cancelled, raw, bg, since>>

\* The deferred function; what follows Run.
TurnEnds == agentRunning' = FALSE /\ Done

Remembers(n) ==
    /\ messages' = [messages EXCEPT ![agentObj.obj] = @ + n]
    /\ since' = since + n

\* Run returns an answer.  Or the API refuses, or the context is cancelled: the
\* first request takes the message back, a later one leaves a part of a turn.
RunReturns ==
    /\ pc = "run"
    /\ \E n \in {0, 1} : Remembers(n)
    /\ TurnEnds
    /\ UNCHANGED <<line, session, agentObj, cancelled, raw, bg>>

-----------------------------------------------------------------------------

\* A step of the loop's goroutine that waits for nobody at the console.
LoopStep ==
    \/ Check \/ Leave \/ StopScheduler
    \/ cmdNewOrSwitch \/ CommandFails \/ cmdReset \/ cmdThink \/ cmdAttach
    \/ cmdEdit \/ cmdOther \/ cmdExit
    \/ runAgent \/ RunRefused \/ RunReturns
    \/ NotepadCloses

Next == LoopStep \/ ReadLine \/ Signal \/ TaskStarts \/ PollingEnds \/ TaskEnds

Spec == Init /\ [][Next]_vars

\* The loop's goroutine goes on, a run ends (its tool loop and API calls are
\* bounded), Notepad is closed one day, and so is a select of Start in which a
\* channel stays ready.  Nobody has to type.
FairSpec ==
    /\ Spec
    /\ WF_vars(LoopStep) /\ WF_vars(TaskEnds) /\ WF_vars(PollingEnds)

-----------------------------------------------------------------------------
(* Properties *)

\* Type invariant.
TypeOK ==
    /\ pc \in {"check", "read", "handle", "run", "notepad", "leave", "stop", "ended"}
    /\ line \in Lines \cup {"other"}
    /\ session \in Objs
    /\ agentObj \in [obj : Objs, thinking : BOOLEAN, image : BOOLEAN]
    /\ messages \in [Objs -> 0..MaxTurns]
    /\ agentRunning \in BOOLEAN /\ cancelled \in BOOLEAN
    /\ raw \in BOOLEAN /\ polling \in BOOLEAN /\ task \in BOOLEAN
    /\ since \in 0..MaxTurns

\* The agent that /reset, /think and /status act on is the one of the session
\* in the prompt, and its memory is the turns since that session was entered or
\* reset, whatever failed in between.
OneContext == agentObj.obj = session /\ messages[session] = since

\* The end: who leaves by anything but /exit, which is os.Exit, gets the console
\* back as it was.
Ended == pc = "ended" /\ (line # "exit" => ~raw)

\* The comment on Run: it "blocks until the user exits or ctx is cancelled".  A
\* signal that comes while a line is handled ends the program after it, whatever
\* the poll loop launches meanwhile: Stop waits for no run without end.  One
\* that comes while readLine waits has no effect before the next line.
SignalEnds == cancelled /\ pc # "read" ~> Ended
=============================================================================
