----------------------------- MODULE TurnOutput -----------------------------
(***************************************************************************)
(* A turn of the terminal: runAgent of internal/terminal/repl.go over the  *)
(* calls of ApiClient.  The text of a stream reaches the callback that     *)
(* runAgent has given the agent, which stops the spinner and writes; the   *)
(* goroutine of the spinner draws meanwhile.  All write under outputMu,    *)
(* which is not reentrant.  What a turn leaves behind, a consolidation,    *)
(* uses the client as well, after the turn: ApiClient is one call.         *)
(***************************************************************************)
EXTENDS ApiClient

CONSTANTS
    MaxTurns,       \* bound: turns
    MaxToolCalls,   \* bound: tool calls of one answer
    Loop, Nobody    \* who may hold outputMu

Turns == 1..MaxTurns    \* each has a spinner of its own

ASSUME OutputAssumption ==
    /\ MaxTurns \in Nat /\ MaxToolCalls \in Nat
    /\ Loop # Nobody

VARIABLES
    turn,       \* the turn that runs, or ran last
    loop,       \* runAgent: "idle", "run" (Agent.Run goes on), or a step of
                \* the callback and of stop: "close", "erase", "erasing",
                \* "write", "writing", or "end"
    after,      \* where stop leads to: "write" or "end"
    toolCalls,  \* tool calls of the last answer not announced yet
    done,       \* done[t]: the channel of spinner t is closed
    spin,       \* spin[t]: "none", "select", "tick" or "gone"
    outputMu    \* who holds the mutex

outputVars == <<turn, loop, after, toolCalls, done, spin, outputMu>>
vars       == <<clientVars, outputVars>>

Init ==
    /\ ClientInit
    /\ turn = 0
    /\ loop = "idle" /\ after = "end"
    /\ toolCalls = 0
    /\ done = [t \in Turns |-> FALSE]
    /\ spin = [t \in Turns |-> "none"]
    /\ outputMu = Nobody

Locks   == outputMu = Nobody /\ outputMu' = Loop
Unlocks == outputMu = Loop /\ outputMu' = Nobody

-----------------------------------------------------------------------------
(* runAgent and the agent's loop *)

\* A line is ended and the spinner starts; without a system prompt there is no
\* request.
TurnStarts ==
    /\ loop = "idle" /\ pc = "idle"
    /\ turn < MaxTurns
    /\ outputMu = Nobody
    /\ turn' = turn + 1
    /\ \/ Call("stream") /\ loop' = "run" /\ UNCHANGED after
       \/ UNCHANGED clientVars /\ loop' = "close" /\ after' = "end"
    /\ toolCalls' = 0
    /\ spin' = [spin EXCEPT ![turn'] = "select"]
    /\ UNCHANGED <<done, outputMu>>

\* A further request of the loop; after an error there is none.
Requests ==
    /\ loop = "run" /\ toolCalls = 0 /\ outcome = "ok"
    /\ Call("stream")
    /\ UNCHANGED outputVars

\* ensureSpinnerStopped: once, before step next.
Stops(next) ==
    /\ loop' = IF done[turn] THEN next ELSE "close"
    /\ after' = next

\* The callback holds outputMu while it stops the spinner.
BuggyCallback ==
    /\ Locks
    /\ Stops("writing")
    /\ UNCHANGED <<turn, done, spin>>

Callback ==
    /\ Stops("write")
    /\ UNCHANGED <<turn, done, spin, outputMu>>

\* readStream has a text: onDelta gives it to the callback before it reads on.
TextArrives ==
    /\ loop = "run"
    /\ stream # <<>> /\ Head(stream) = "text"
    /\ ReadEvent
    /\ Callback
    /\ UNCHANGED toolCalls

\* Any other step of the call.  An answer may ask for tools.
CallGoesOn ==
    /\ loop = "run" \/ mode = "send"
    /\ ClientStep /\ delivered' = delivered
    /\ toolCalls' \in IF mode = "stream" /\ outcome' = "ok" THEN 0..MaxToolCalls ELSE {toolCalls}
    /\ UNCHANGED <<turn, loop, after, done, spin, outputMu>>

\* The callback is given the name of a tool before it is executed.
ToolAnnounced ==
    /\ loop = "run" /\ pc = "idle" /\ toolCalls > 0
    /\ toolCalls' = toolCalls - 1
    /\ Callback
    /\ UNCHANGED clientVars

RunReturns ==
    /\ loop = "run" /\ pc = "idle" /\ toolCalls = 0
    /\ Stops("end")
    /\ UNCHANGED <<clientVars, turn, toolCalls, done, spin, outputMu>>

\* The signal or the end of the terminal cancels the context of the turn.
TurnCancelled ==
    /\ loop = "run"
    /\ Cancel
    /\ UNCHANGED outputVars

\* maybeConsolidate calls SendMessage with a context of its own.
LeftBehind ==
    /\ loop = "idle"
    /\ mode = "stream" /\ outcome = "ok"
    /\ Call("send")
    /\ UNCHANGED outputVars

\* main closes the client when the loop has ended.
Closes ==
    /\ loop = "idle"
    /\ Close
    /\ UNCHANGED outputVars

-----------------------------------------------------------------------------
(* stop, and what the callback does under the mutex *)

\* stop leaves the channel open.
BuggyChannelClosed == UNCHANGED done
ChannelClosed == done' = [done EXCEPT ![turn] = TRUE]

CloseDone ==
    /\ loop = "close"
    /\ ChannelClosed
    /\ loop' = "erase"
    /\ UNCHANGED <<clientVars, turn, after, toolCalls, spin, outputMu>>

LockToErase ==
    /\ loop = "erase"
    /\ Locks
    /\ loop' = "erasing"
    /\ UNCHANGED <<clientVars, turn, after, toolCalls, done, spin>>

Erase ==
    /\ loop = "erasing"
    /\ Unlocks
    /\ loop' = after
    /\ UNCHANGED <<clientVars, turn, after, toolCalls, done, spin>>

LockToWrite ==
    /\ loop = "write"
    /\ Locks
    /\ loop' = "writing"
    /\ UNCHANGED <<clientVars, turn, after, toolCalls, done, spin>>

Write ==
    /\ loop = "writing"
    /\ Unlocks
    /\ loop' = "run"
    /\ UNCHANGED <<clientVars, turn, after, toolCalls, done, spin>>

\* A line is ended and the prompt is drawn.
TurnEnds ==
    /\ loop = "end"
    /\ outputMu = Nobody
    /\ loop' = "idle"
    /\ UNCHANGED <<clientVars, turn, after, toolCalls, done, spin, outputMu>>

-----------------------------------------------------------------------------
(* The spinner's goroutine: select takes any of the channels that are ready. *)

SpinnerReturns(t) ==
    /\ spin[t] = "select" /\ done[t]
    /\ spin' = [spin EXCEPT ![t] = "gone"]
    /\ UNCHANGED <<clientVars, turn, loop, after, toolCalls, done, outputMu>>

Tick(t) ==
    /\ spin[t] = "select"
    /\ spin' = [spin EXCEPT ![t] = "tick"]
    /\ UNCHANGED <<clientVars, turn, loop, after, toolCalls, done, outputMu>>

\* The lock, a frame and the unlock: nothing waits in between.
Draw(t) ==
    /\ spin[t] = "tick"
    /\ outputMu = Nobody
    /\ spin' = [spin EXCEPT ![t] = "select"]
    /\ UNCHANGED <<clientVars, turn, loop, after, toolCalls, done, outputMu>>

-----------------------------------------------------------------------------

TurnStep ==
    \/ TurnStarts \/ Requests \/ TextArrives \/ CallGoesOn \/ ToolAnnounced
    \/ RunReturns \/ TurnCancelled \/ LeftBehind \/ Closes

StopStep == CloseDone \/ LockToErase \/ Erase \/ LockToWrite \/ Write \/ TurnEnds

SpinnerStep(t) == SpinnerReturns(t) \/ Tick(t) \/ Draw(t)

Next == TurnStep \/ StopStep \/ \E t \in Turns : SpinnerStep(t)

Spec == Init /\ [][Next]_vars

\* The request timeout of 120 seconds ends every wait for the service.  Go's
\* mutex does not starve a waiter, and select chooses at random among the
\* channels that are ready.
FairSpec ==
    /\ Spec
    /\ WF_vars(TextArrives \/ CallGoesOn) /\ WF_vars(ToolAnnounced) /\ WF_vars(RunReturns)
    /\ WF_vars(StopStep)
    /\ \A t \in Turns : SF_vars(SpinnerReturns(t)) /\ SF_vars(Draw(t))

-----------------------------------------------------------------------------
(* Properties *)

\* Type invariant; whoever writes holds the mutex.
TypeOK ==
    /\ ClientTypeOK
    /\ turn \in 0..MaxTurns
    /\ loop \in {"idle", "run", "close", "erase", "erasing", "write", "writing", "end"}
    /\ after \in {"write", "end"}
    /\ toolCalls \in 0..MaxToolCalls
    /\ done \in [Turns -> BOOLEAN]
    /\ spin \in [Turns -> {"none", "select", "tick", "gone"}]
    /\ outputMu \in {Nobody, Loop}
    /\ outputMu = Loop <=> loop \in {"erasing", "writing"}

\* Every turn and every call comes to its end, whatever the service does to the
\* stream: the callback, which stops the spinner and writes under one mutex,
\* waits neither for itself nor for a spinner that waits for it.
TurnReturns == (loop # "idle" \/ pc # "idle") ~> (loop = "idle" /\ pc = "idle")

\* startSpinner leaves no goroutine behind: each spinner ends, although select
\* may prefer a tick to the closed channel.
SpinnersEnd == \A t \in Turns : spin[t] # "none" ~> spin[t] = "gone"
=============================================================================
