------------------------------ MODULE AgentRun ------------------------------
(***************************************************************************)
(* Agent.Run of internal/agent/agent.go: one user input through the loop   *)
(* of API requests and tool calls, and what it leaves in the session's     *)
(* history (Session.Messages), from which every later request is cut.      *)
(* Runs of one session come one after another: the REPL is synchronous and *)
(* the scheduler and the pipe server load a Session of their own.          *)
(***************************************************************************)
EXTENDS Integers, Sequences

CONSTANTS
    HistoryWindow,  \* Config.HistoryWindow
    MaxTurns,       \* Agent.MaxTurns
    MaxToolLoop,    \* defaultMaxToolLoop
    MaxRuns         \* bound: runs of the agent

ASSUME LimitsAssumption ==
    /\ HistoryWindow \in Nat \ {0}
    /\ MaxTurns \in Nat \ {0}
    /\ MaxToolLoop \in Nat \ {0}
    /\ MaxRuns \in Nat

VARIABLES
    msgs,       \* Session.Messages, by kind of message
    pc,         \* where Run is
    iteration,  \* the loop counter
    pending,    \* pendingAttachment is set
    before,     \* history: msgs when the last Run was called
    runs        \* history: number of calls of Run so far

vars == <<msgs, pc, iteration, pending, before, runs>>

(***************************************************************************)
(* "prompt": what the user typed, "image": the same with an attachment.    *)
(* "calls": an assistant message whose tool_use blocks are to be executed; *)
(* "results": the user message that answers it.  "answer" and "cut": an    *)
(* assistant message that ends the run, the second with tool_use blocks in *)
(* it that are not executed, its stop_reason being another ("max_tokens"). *)
(***************************************************************************)
UserKinds == {"prompt", "image", "results"}
Kinds     == UserKinds \cup {"calls", "answer", "cut"}

\* MaxTurns*2 messages is where Run refuses a new input.
TurnLimit == MaxTurns * 2

Init ==
    /\ msgs = <<>>
    /\ pc = "idle"
    /\ iteration = 0
    /\ pending = FALSE
    /\ before = <<>>
    /\ runs = 0

-----------------------------------------------------------------------------
(* windowedHistory *)

BuggyDropped(n) == IF n <= HistoryWindow * 2 THEN 0 ELSE n

\* How many messages windowedHistory leaves out of n.
Dropped(n) ==
    LET over == n - HistoryWindow * 2
    IN  IF over <= 0 THEN 0 ELSE over + (over % 2)

\* The messages of the request.
Window == SubSeq(msgs, Dropped(Len(msgs)) + 1, Len(msgs))

-----------------------------------------------------------------------------
\* SetAttachment, by /attach or the --attach flag.
Attach ==
    /\ pc = "idle"
    /\ ~pending
    /\ pending' = TRUE
    /\ UNCHANGED <<msgs, pc, iteration, before, runs>>

\* Reset, by /reset.
Reset ==
    /\ pc = "idle"
    /\ msgs # <<>>
    /\ msgs' = <<>>
    /\ UNCHANGED <<pc, iteration, pending, before, runs>>

BuggyMayRun == Len(msgs) < TurnLimit + 2

\* The session has turns left.
MayRun == Len(msgs) < TurnLimit

\* Run refuses the input: no turns left, or the system prompt cannot be read.
RunRefused ==
    /\ pc = "idle"
    /\ runs < MaxRuns
    /\ before' = msgs
    /\ runs' = runs + 1
    /\ UNCHANGED <<msgs, pc, iteration, pending>>

\* Run accepts the input and appends it to the history.
RunStarts ==
    /\ pc = "idle"
    /\ runs < MaxRuns
    /\ MayRun
    /\ msgs' = Append(msgs, IF pending THEN "image" ELSE "prompt")
    /\ pending' = FALSE
    /\ iteration' = 0
    /\ pc' = "api"
    /\ before' = msgs
    /\ runs' = runs + 1

\* The request gets an answer that asks for tools (stop_reason "tool_use").
ApiCallsTools ==
    /\ pc = "api"
    /\ msgs' = Append(msgs, "calls")
    /\ pc' = "tools"
    /\ UNCHANGED <<iteration, pending, before, runs>>

\* The request gets an answer with any other stop_reason: Run returns it, and
\* looks at none of its blocks.
ApiAnswers ==
    /\ pc = "api"
    /\ \E kind \in {"answer", "cut"} : msgs' = Append(msgs, kind)
    /\ pc' = "idle"
    /\ UNCHANGED <<iteration, pending, before, runs>>

BuggyRolledBack == SubSeq(msgs, 1, Len(msgs) - 1)
BuggyKept == msgs

\* The input is taken back if its first request fails; later ones keep all.
RolledBack == IF iteration = 0 THEN SubSeq(msgs, 1, Len(msgs) - 1) ELSE msgs

\* The request fails (network, API error, cancelled context): Run returns it.
ApiFails ==
    /\ pc = "api"
    /\ msgs' = RolledBack
    /\ pc' = "idle"
    /\ UNCHANGED <<iteration, pending, before, runs>>

\* for iteration := 0; iteration < defaultMaxToolLoop; iteration++
GoesOn == iteration + 1 < MaxToolLoop

\* Every tool call gets a result, an error being one; then the next request,
\* unless the loop is at its limit.
ToolsDone ==
    /\ pc = "tools"
    /\ msgs' = Append(msgs, "results")
    /\ iteration' = iteration + 1
    /\ pc' = IF GoesOn THEN "api" ELSE "idle"
    /\ UNCHANGED <<pending, before, runs>>

RunStep == ApiCallsTools \/ ApiAnswers \/ ApiFails \/ ToolsDone

Next == Attach \/ Reset \/ RunRefused \/ RunStarts \/ RunStep

Spec == Init /\ [][Next]_vars

-----------------------------------------------------------------------------
(* Properties *)

\* Type invariant.
TypeOK ==
    /\ msgs \in Seq(Kinds)
    /\ pc \in {"idle", "api", "tools"}
    /\ iteration \in 0..MaxToolLoop
    /\ pending \in BOOLEAN
    /\ before \in Seq(Kinds)
    /\ runs \in 0..MaxRuns

\* Every request that leaves is not empty and ends on a user message, which
\* the API asks for, whatever failed in earlier runs and wherever the window
\* cuts.
RequestEndsOnUser ==
    pc = "api" => /\ Window # <<>>
                  /\ Window[Len(Window)] \in UserKinds

\* The calls that Run executes are answered by the very next message: no failure
\* of a tool, of a later request or of a later run, no rollback and no loop limit
\* comes between.  The calls of a "cut" answer are not executed and stay in the
\* history without results, which never answer any other message.
ExecutedCallsAnswered ==
    \A i \in 1..Len(msgs) :
       /\ msgs[i] = "results" => i > 1 /\ msgs[i - 1] = "calls"
       /\ msgs[i] = "calls" => \/ i = Len(msgs) /\ pc = "tools"
                               \/ i < Len(msgs) /\ msgs[i + 1] = "results"

\* The history is bounded: the turn limit, checked only when Run is called,
\* plus what one run of the tool loop can add.
HistoryBounded ==
    Len(msgs) <= TurnLimit + 2 * MaxToolLoop

\* A run whose first request fails leaves the history as it found it, so that
\* the input can be sent again.
FailedInputTakenBack ==
    [][pc = "api" /\ iteration = 0 /\ Len(msgs') <= Len(msgs) => msgs' = before]_vars

\* agent.go on windowedHistory: "Always starts on a user message."
WindowStartsOnUser ==
    pc = "api" => Window[1] \in UserKinds
=============================================================================
