--------------------------- MODULE AgentRunProofs ---------------------------
(***************************************************************************)
(* Theorems about AgentRun.tla and Tools.tla for every window, turn limit and tool loop  *)
(* limit.  The history is a sequence that only grows at its end, so the    *)
(* inductive invariant says what the last message is at each point of Run, *)
(* how long the history can be there, and that a first request still has   *)
(* the history of before the run below it.                                 *)
(***************************************************************************)
EXTENDS Tools, TLAPS

Last == msgs[Len(msgs)]

\* What the end of the history looks like at each point of Run.
Shape ==
    /\ pc = "api" => /\ msgs # <<>>
                     /\ Last \in UserKinds
                     /\ iteration = 0 => \E k \in {"prompt", "image"} : msgs = Append(before, k)
    /\ pc = "tools" => msgs # <<>> /\ Last = "calls"

\* How long the history can be at each point of Run.
Length ==
    /\ pc # "idle" => iteration < MaxToolLoop
    /\ pc = "api" => Len(msgs) <= TurnLimit + 2 * iteration
    /\ pc = "tools" => Len(msgs) <= TurnLimit + 2 * iteration + 1
    /\ HistoryBounded

IInv == TypeOK /\ Shape /\ Length /\ ExecutedCallsAnswered

\* Dropping the last message undoes an Append.
LEMMA AppendUndone ==
    ASSUME NEW s \in Seq(Kinds), NEW k \in Kinds
    PROVE  SubSeq(Append(s, k), 1, Len(Append(s, k)) - 1) = s
OBVIOUS

LEMMA InitEstablishes == Init => IInv
<1> SUFFICES ASSUME Init PROVE IInv
  OBVIOUS
<1>1. TypeOK
  <2>1. <<>> \in Seq(Kinds)
    OBVIOUS
  <2>2. 0 \in 0..MaxToolLoop /\ 0 \in 0..MaxRuns
    BY LimitsAssumption DEF LimitsAssumption
  <2>3. QED
    BY <2>1, <2>2 DEF Init, TypeOK
<1>2. Shape /\ Length
  BY LimitsAssumption DEF LimitsAssumption, Init, Shape, Length, HistoryBounded, TurnLimit
<1>3. ExecutedCallsAnswered
  BY DEF Init, ExecutedCallsAnswered
<1>4. QED
  BY <1>1, <1>2, <1>3 DEF IInv

\* Every step preserves the invariant: one case per action.
LEMMA StepPreserves == IInv /\ [Next]_vars => IInv'
<1> SUFFICES ASSUME IInv, [Next]_vars PROVE IInv'
  OBVIOUS
<1> USE LimitsAssumption DEF LimitsAssumption, IInv, TypeOK
<1>1. CASE Attach
  BY <1>1 DEF Attach, Shape, Last, Length, HistoryBounded, ExecutedCallsAnswered
<1>2. CASE Reset
  BY <1>2 DEF Reset, Shape, Last, Length, HistoryBounded, ExecutedCallsAnswered, TurnLimit, Kinds
<1>3. CASE RunRefused
  BY <1>3 DEF RunRefused, Shape, Last, Length, HistoryBounded, ExecutedCallsAnswered
<1>4. CASE RunStarts
  <2>1. TypeOK'
    <3>1. msgs' \in Seq(Kinds)
      BY <1>4 DEF RunStarts, Kinds, UserKinds
    <3>2. 0 \in 0..MaxToolLoop /\ runs' \in 0..MaxRuns
      BY <1>4 DEF RunStarts
    <3>3. QED
      BY <1>4, <3>1, <3>2 DEF RunStarts
  <2>2. Shape'
    BY <1>4, <2>1 DEF RunStarts, Shape, Last, Kinds, UserKinds
  <2>3. Length'
    BY <1>4, <2>1 DEF RunStarts, MayRun, Length, HistoryBounded, TurnLimit
  <2>4. ExecutedCallsAnswered'
    BY <1>4, <2>1 DEF RunStarts, ExecutedCallsAnswered, Kinds, UserKinds
  <2>5. QED
    BY <2>1, <2>2, <2>3, <2>4
<1>5. CASE ApiCallsTools
  <2>1. TypeOK'
    BY <1>5 DEF ApiCallsTools, Kinds, UserKinds
  <2>2. Shape'
    BY <1>5, <2>1 DEF ApiCallsTools, Shape, Last, Kinds, UserKinds
  <2>3. Length'
    BY <1>5, <2>1 DEF ApiCallsTools, Length, HistoryBounded, TurnLimit
  <2>4. ExecutedCallsAnswered'
    BY <1>5, <2>1 DEF ApiCallsTools, ExecutedCallsAnswered, Kinds, UserKinds
  <2>5. QED
    BY <2>1, <2>2, <2>3, <2>4
<1>6. CASE ApiAnswers
  <2>1. TypeOK'
    BY <1>6 DEF ApiAnswers, Kinds, UserKinds
  <2>2. Shape'
    BY <1>6, <2>1 DEF ApiAnswers, Shape, Last
  <2>3. Length'
    BY <1>6, <2>1 DEF ApiAnswers, Length, HistoryBounded, TurnLimit
  <2>4. ExecutedCallsAnswered'
    BY <1>6, <2>1 DEF ApiAnswers, ExecutedCallsAnswered, Kinds, UserKinds
  <2>5. QED
    BY <2>1, <2>2, <2>3, <2>4
<1>7. CASE ApiFails
  <2>1. CASE iteration = 0
    <3>1. msgs' = before
      BY <1>7, <2>1, AppendUndone DEF ApiFails, RolledBack, Shape, Kinds, UserKinds
    <3>2. PICK k \in {"prompt", "image"} : msgs = Append(before, k)
      BY <1>7, <2>1 DEF ApiFails, Shape
    <3>3. Len(msgs) = Len(before) + 1 /\ \A i \in 1..Len(before) : msgs[i] = before[i]
      BY <3>2
    <3>4. ExecutedCallsAnswered'
      BY <1>7, <3>1, <3>2, <3>3 DEF ApiFails, ExecutedCallsAnswered
    <3>5. QED
      BY <1>7, <3>1, <3>3, <3>4 DEF ApiFails, Shape, Length, HistoryBounded, TurnLimit
  <2>2. CASE iteration # 0
    BY <1>7, <2>2
       DEF ApiFails, RolledBack, Shape, Last, Length, HistoryBounded, ExecutedCallsAnswered
  <2>3. QED
    BY <2>1, <2>2
<1>8. CASE ToolsDone
  <2>1. TypeOK'
    BY <1>8 DEF ToolsDone, Length, Kinds, UserKinds
  <2>2. Shape'
    BY <1>8, <2>1 DEF ToolsDone, Shape, Last, Kinds, UserKinds
  <2>3. Length'
    BY <1>8, <2>1 DEF ToolsDone, GoesOn, Length, HistoryBounded, TurnLimit
  <2>4. ExecutedCallsAnswered'
    <3>1. /\ Len(msgs') = Len(msgs) + 1 /\ Len(msgs) > 0 /\ msgs[Len(msgs)] = "calls"
          /\ msgs'[Len(msgs')] = "results"
          /\ \A i \in 1..Len(msgs) : msgs'[i] = msgs[i]
      BY <1>8, <2>1 DEF ToolsDone, Shape, Last, Kinds, UserKinds
    <3>2. QED
      BY <1>8, <2>1, <3>1 DEF ToolsDone, ExecutedCallsAnswered
  <2>5. QED
    BY <2>1, <2>2, <2>3, <2>4
<1>9. CASE UNCHANGED vars
  BY <1>9 DEF vars, Shape, Last, Length, HistoryBounded, ExecutedCallsAnswered
<1>10. QED
  BY <1>1, <1>2, <1>3, <1>4, <1>5, <1>6, <1>7, <1>8, <1>9 DEF Next, RunStep

-----------------------------------------------------------------------------
\* The invariant holds in every reachable state.
THEOREM Invariance == Spec => []IInv
BY InitEstablishes, StepPreserves, PTL DEF Spec

\* The history never outgrows the turn limit by more than one tool loop (Run).
THEOREM Bounded == Spec => []HistoryBounded
<1>1. IInv => HistoryBounded
  BY DEF IInv, Length
<1>2. QED
  BY <1>1, Invariance, PTL

\* The calls Run executes are answered by the next message; those of an answer
\* that is cut short are not executed, and no results follow it (Run).
THEOREM ExecutedAnswered == Spec => []ExecutedCallsAnswered
BY Invariance, PTL DEF IInv

\* Every request is non-empty and ends on a user message (windowedHistory).
THEOREM RequestsEndOnUser == Spec => []RequestEndsOnUser
<1>1. ASSUME IInv PROVE RequestEndsOnUser
  <2> SUFFICES ASSUME pc = "api"
               PROVE  Window # <<>> /\ Window[Len(Window)] \in UserKinds
    BY DEF RequestEndsOnUser
  <2> DEFINE d == Dropped(Len(msgs))
  <2>1. msgs \in Seq(Kinds) /\ Len(msgs) \in Nat \ {0} /\ Last \in UserKinds
    BY <1>1 DEF IInv, TypeOK, Shape
  <2>2. d \in Nat /\ d < Len(msgs)
    BY <2>1, LimitsAssumption DEF LimitsAssumption, Dropped
  <2>3. Len(Window) = Len(msgs) - d /\ Window[Len(msgs) - d] = msgs[Len(msgs)]
    <3> HIDE DEF d
    <3>1. Window = SubSeq(msgs, d + 1, Len(msgs))
      BY DEF Window, d
    <3>2. QED
      BY <2>1, <2>2, <3>1
  <2>4. QED
    BY <2>1, <2>2, <2>3 DEF Last
<1>2. QED
  BY <1>1, Invariance, PTL

\* A failed first request takes the input back (Run).
THEOREM TakenBack == Spec => FailedInputTakenBack
<1>1. ASSUME IInv, [Next]_vars
      PROVE  [pc = "api" /\ iteration = 0 /\ Len(msgs') <= Len(msgs) => msgs' = before]_vars
  <2> SUFFICES ASSUME Next, pc = "api", iteration = 0, Len(msgs') <= Len(msgs)
               PROVE  msgs' = before
    BY <1>1
  <2>1. PICK k \in {"prompt", "image"} : msgs = Append(before, k)
    BY <1>1 DEF IInv, Shape
  <2>2. msgs \in Seq(Kinds) /\ before \in Seq(Kinds)
    BY <1>1 DEF IInv, TypeOK
  <2>3. CASE ApiFails
    BY <2>1, <2>2, <2>3, AppendUndone DEF ApiFails, RolledBack, Kinds, UserKinds
  <2>4. CASE ApiCallsTools \/ ApiAnswers
    BY <2>2, <2>4 DEF ApiCallsTools, ApiAnswers
  <2>5. QED
    BY <2>3, <2>4 DEF Next, Attach, Reset, RunRefused, RunStarts, RunStep, ToolsDone
<1>2. QED
  BY <1>1, Invariance, PTL DEF Spec, FailedInputTakenBack

-----------------------------------------------------------------------------
(* The run with its tools *)

\* Every step with tools is a step of Run, or one inside its tool calls: what
\* holds of Run holds whatever its tools and sub-agents do (Agent.Run).
THEOREM ToolsImplementRun == ToolsSpec => Spec
<1>1. ToolsInit => Init
  BY DEF ToolsInit
<1>2. ASSUME [ToolsNext]_allVars PROVE [Next]_vars
  <2>1. CASE BetweenRuns
    BY <2>1 DEF BetweenRuns, Next
  <2>2. CASE TurnStarts
    BY <2>2 DEF TurnStarts, Next
  <2>3. CASE AnswerCallsTools \/ RunReturns \/ ResultsSent
    BY <2>3 DEF AnswerCallsTools, RunReturns, ResultsSent, Next, RunStep
  <2>4. CASE EditPlugins \/ Cancel \/ SubReturns \/ Execute \/ Delegate \/ SubResultsSent
    BY <2>4 DEF EditPlugins, Cancel, SubReturns, Execute, Delegate, SubResultsSent
  <2>5. CASE UNCHANGED allVars
    BY <2>5 DEF allVars
  <2>6. QED
    BY <1>2, <2>1, <2>2, <2>3, <2>4, <2>5 DEF ToolsNext, TurnStep
<1>3. QED
  BY <1>1, <1>2, PTL DEF ToolsSpec, Spec

\* With tools and sub-agents the history stays bounded, executed calls answered
\* and requests ending on a user message; of the calls of an answer that is cut
\* short nothing is said, since Run does not answer them (Agent.Run).
THEOREM ToolsKeepHistory ==
    ToolsSpec => [](HistoryBounded /\ ExecutedCallsAnswered /\ RequestEndsOnUser)
BY ToolsImplementRun, Bounded, ExecutedAnswered, RequestsEndOnUser, PTL

\* What one call of delegate can cost in this host.
CallCost == IF HostOptions[host].delegate THEN MaxToolLoop ELSE 0

\* Products are kept whole in the steps that only add and compare.
Times(a, b) == a * b

\* What the calls that are left, and the sub-agent that runs, can cost.
Owed(c, s, cost) ==
    Times(Len(c), cost) + (IF s = <<>> THEN 0 ELSE MaxToolLoop - s[1].iteration - 1)

Debt == Owed(calls, subs, CallCost)

\* Sub-agents are one deep: only the calls of the outer Run start them.
OneDeep ==
    /\ host \in DOMAIN HostOptions
    /\ requests \in Nat
    /\ calls \in Seq(Asked) /\ Len(calls) <= MaxCalls
    /\ \/ subs = <<>>
       \/ /\ subs \in Seq(Frame) /\ Len(subs) = 1 /\ subs[1].iteration \in 0..MaxToolLoop - 1
          /\ pc = "tools" /\ CallCost = MaxToolLoop

\* What was sent and is owed fits the rounds of the loop.
Paid ==
    /\ pc = "api" => requests <= Times(iteration, RoundCost) + 1
    /\ pc = "tools" => requests + Debt <= Times(iteration + 1, RoundCost)

BudgetInv ==
    /\ pc \in {"idle", "api", "tools"}
    /\ iteration \in Nat
    /\ OneDeep
    /\ Paid

\* A request more is paid for by what is owed.
LEMMA OneMore ==
    ASSUME NEW r \in Nat, NEW q \in Nat, NEW d \in Nat, NEW e, q <= r + 1, e = d - 1
    PROVE  q + e <= r + d
OBVIOUS

LEMMA TimesGrows ==
    ASSUME NEW a \in Nat, NEW b \in Nat, NEW k \in Nat, a <= b
    PROVE  Times(a, k) <= Times(b, k) /\ Times(a + 1, k) = Times(a, k) + k /\ Times(a, k) \in Nat
<1>1. PICK d \in Nat : b = a + d
  <2>1. b - a \in Nat /\ b = a + (b - a)
    OBVIOUS
  <2>2. QED
    BY <2>1
<1>2. (a + d) * k = a * k + d * k /\ d * k \in Nat /\ a * k \in Nat
  OBVIOUS
<1>3. QED
  BY <1>1, <1>2 DEF Times

LEMMA OwedNat ==
    ASSUME NEW c \in Seq(Asked), NEW s, NEW cost \in Nat,
           s = <<>> \/ s[1].iteration \in 0..MaxToolLoop - 1
    PROVE  Owed(c, s, cost) \in Nat
<1>1. Len(c) \in Nat /\ Times(Len(c), cost) \in Nat
  <2>1. Len(c) \in Nat /\ Len(c) <= Len(c)
    OBVIOUS
  <2>2. QED
    BY <2>1, TimesGrows
<1>2. (IF s = <<>> THEN 0 ELSE MaxToolLoop - s[1].iteration - 1) \in Nat
  BY LimitsAssumption DEF LimitsAssumption
<1>3. QED
  BY <1>1, <1>2 DEF Owed

\* A frame of a sub-agent is put in the place of another.
LEMMA FrameReplaced ==
    ASSUME NEW S, NEW s \in Seq(S), Len(s) = 1, NEW f \in S
    PROVE  /\ [s EXCEPT ![1] = f] \in Seq(S) /\ Len([s EXCEPT ![1] = f]) = 1
           /\ [s EXCEPT ![1] = f][1] = f /\ s[1] \in S /\ SubSeq(s, 1, 0) = <<>>
OBVIOUS

\* Every quantity of the budget is a natural number.
LEMMA Costs ==
    ASSUME OneDeep, iteration \in Nat
    PROVE  /\ CallCost \in Nat /\ RoundCost \in Nat /\ RoundCost = 1 + Times(MaxCalls, CallCost)
           /\ Times(MaxCalls, CallCost) \in Nat
           /\ Len(calls) \in Nat /\ Debt \in Nat
           /\ Times(iteration, RoundCost) \in Nat
           /\ Times(iteration + 1, RoundCost) = Times(iteration, RoundCost) + RoundCost
<1>1. CallCost \in Nat
  BY LimitsAssumption DEF LimitsAssumption, CallCost, OneDeep
<1>2. Times(MaxCalls, CallCost) \in Nat
  BY <1>1, TimesGrows, ToolsAssumption DEF ToolsAssumption
<1>3. RoundCost \in Nat /\ RoundCost = 1 + Times(MaxCalls, CallCost)
  BY <1>1, <1>2 DEF RoundCost, CallCost, Times
<1>4. Len(calls) \in Nat /\ Debt \in Nat
  BY <1>1, OwedNat DEF OneDeep, Debt
<1>5. /\ Times(iteration, RoundCost) \in Nat
      /\ Times(iteration + 1, RoundCost) = Times(iteration, RoundCost) + RoundCost
  <2>1. iteration \in Nat /\ iteration <= iteration
    OBVIOUS
  <2>2. QED
    BY <1>3, <2>1, TimesGrows
<1>6. QED
  BY <1>1, <1>2, <1>3, <1>4, <1>5

LEMMA BudgetInit == ToolsInit => BudgetInv
BY ToolsAssumption
   DEF ToolsInit, Init, BudgetInv, OneDeep, Paid, ToolsAssumption

\* The sub-agents stay one deep: one case per action.
LEMMA StaysOneDeep ==
    ASSUME BudgetInv, [ToolsNext]_allVars
    PROVE  OneDeep' /\ UNCHANGED <<CallCost, RoundCost>>
<1>1. host' = host
  BY DEF ToolsNext, BetweenRuns, EditPlugins, TurnStarts, Cancel, TurnStep, AnswerCallsTools,
         RunReturns, SubReturns, Execute, Delegate, ResultsSent, SubResultsSent, toolVars, allVars
<1>2. UNCHANGED <<CallCost, RoundCost>>
  BY <1>1 DEF CallCost, RoundCost
<1>3. OneDeep
  BY DEF BudgetInv
<1>4. CASE BetweenRuns \/ EditPlugins \/ Cancel \/ UNCHANGED allVars
  BY <1>2, <1>3, <1>4 DEF OneDeep, BetweenRuns, Attach, Reset, RunRefused, EditPlugins, Cancel,
                          allVars, vars, toolVars
<1>5. CASE TurnStarts
  BY <1>2, <1>3, <1>5 DEF OneDeep, TurnStarts, RunStarts
<1>6. CASE RunReturns
  BY <1>2, <1>3, <1>6 DEF OneDeep, RunReturns, ApiAnswers, ApiFails, toolVars
<1>7. CASE ResultsSent
  BY <1>2, <1>3, <1>7 DEF OneDeep, ResultsSent, ToolsDone, Sent
<1>8. CASE AnswerCallsTools
  <2>1. PICK cs \in Answers :
           \/ subs = <<>> /\ ApiCallsTools /\ calls' = cs /\ UNCHANGED subs
           \/ /\ subs # <<>>
              /\ subs' = [subs EXCEPT ![Level] = [@ EXCEPT !.pc = "tools", !.calls = cs]]
              /\ UNCHANGED <<vars, calls>>
    BY <1>8 DEF AnswerCallsTools
  <2>2. cs \in Seq(Asked) /\ Len(cs) <= MaxCalls
    BY <2>1, ToolsAssumption DEF Answers, ToolsAssumption
  <2>3. CASE subs = <<>>
    BY <1>1, <1>2, <1>3, <1>8, <2>1, <2>2, <2>3 DEF OneDeep, AnswerCallsTools
  <2>4. CASE subs # <<>>
    <3>1. subs \in Seq(Frame) /\ Len(subs) = 1 /\ Level = 1 /\ UNCHANGED <<vars, calls, host, requests>>
      BY <1>3, <1>8, <2>1, <2>4 DEF OneDeep, Level, AnswerCallsTools
    <3>2. subs[1] \in Frame
      BY <3>1
    <3>3. subs' = [subs EXCEPT ![1] = [subs[1] EXCEPT !.pc = "tools", !.calls = cs]]
      BY <2>1, <2>4, <3>1
    <3>4. [subs[1] EXCEPT !.pc = "tools", !.calls = cs] \in Frame
      BY <2>2, <3>2 DEF Frame
    <3>5. subs' \in Seq(Frame) /\ Len(subs') = 1 /\ subs'[1] \in Frame
      BY <3>1, <3>3, <3>4, FrameReplaced
    <3>6. QED
      BY <1>2, <1>3, <2>4, <3>1, <3>5 DEF OneDeep, Frame, vars
  <2>5. QED
    BY <2>3, <2>4
<1>9. CASE SubReturns
  BY <1>2, <1>3, <1>9 DEF OneDeep, SubReturns, Level, vars
<1>10. CASE Execute
  <2>1. UNCHANGED <<pc, host, requests>> /\ calls' = CallsLeft /\ subs' = SubsLeft /\ Todo # <<>>
    BY <1>10 DEF Execute, vars
  <2>2. CASE subs = <<>>
    <3>1. calls # <<>> /\ calls' = Tail(calls) /\ subs' = <<>>
      BY <2>1, <2>2 DEF CallsLeft, SubsLeft, Todo
    <3>2. calls' \in Seq(Asked) /\ Len(calls') <= MaxCalls
      BY <1>3, <3>1, ToolsAssumption DEF OneDeep, ToolsAssumption
    <3>3. host' \in DOMAIN HostOptions /\ requests' \in Nat
      BY <1>3, <2>1 DEF OneDeep
    <3>4. subs' = <<>>
      BY <3>1
    <3>5. QED
      BY <1>2, <3>2, <3>3, <3>4 DEF OneDeep
  <2>3. CASE subs # <<>>
    <3>1. subs \in Seq(Frame) /\ Len(subs) = 1 /\ Level = 1 /\ calls' = calls
      BY <1>3, <2>1, <2>3 DEF OneDeep, Level, CallsLeft
    <3>2. subs[1] \in Frame /\ subs[1].calls # <<>>
      BY <2>1, <2>3, <3>1 DEF Todo
    <3>3. subs' = [subs EXCEPT ![1] = [subs[1] EXCEPT !.calls = Tail(subs[1].calls)]]
      BY <2>1, <2>3, <3>1 DEF SubsLeft
    <3>4. [subs[1] EXCEPT !.calls = Tail(subs[1].calls)] \in Frame
      BY <3>2 DEF Frame
    <3>5. subs' \in Seq(Frame) /\ Len(subs') = 1 /\ subs'[1] \in Frame
      BY <3>1, <3>3, <3>4, FrameReplaced
    <3>6. QED
      BY <1>2, <1>3, <2>1, <2>3, <3>1, <3>5 DEF OneDeep, Frame
  <2>4. QED
    BY <2>2, <2>3
<1>11. CASE Delegate
  <2>1. subs = <<>> /\ CallCost = MaxToolLoop /\ pc = "tools" /\ UNCHANGED <<pc, host>>
    BY <1>3, <1>11 DEF OneDeep, Delegate, At, Configured, Optional, OptionsAt, SubOptions, Level, vars,
                HostOptions, TerminalOptions, ScheduledOptions, ServiceOptions, CallCost
  <2> DEFINE f == [pc |-> "api", iteration |-> 0, calls |-> <<>>]
  <2>2. subs' = <<f>> /\ calls' = Tail(calls) /\ calls # <<>>
    BY <1>11, <2>1 DEF Delegate, SubsLeft, CallsLeft, Todo
  <2>3. f \in Frame /\ f.iteration = 0
    BY LimitsAssumption DEF Frame, LimitsAssumption
  <2>4. subs' \in Seq(Frame) /\ Len(subs') = 1 /\ subs'[1].iteration \in 0..MaxToolLoop - 1
    <3> HIDE DEF f
    <3>1. <<f>> \in Seq(Frame) /\ Len(<<f>>) = 1 /\ <<f>>[1] = f
      BY <2>3
    <3>2. QED
      BY <2>2, <2>3, <3>1, LimitsAssumption DEF LimitsAssumption
  <2>5. requests' \in Nat
    BY <1>3, <1>11 DEF OneDeep, Delegate, Sent
  <2>6. calls' \in Seq(Asked) /\ Len(calls') <= MaxCalls
    BY <1>3, <2>2, ToolsAssumption DEF OneDeep, ToolsAssumption
  <2>7. QED
    BY <1>2, <1>3, <2>1, <2>4, <2>5, <2>6 DEF OneDeep
<1>12. CASE SubResultsSent
  <2>1. subs \in Seq(Frame) /\ Len(subs) = 1 /\ Level = 1 /\ UNCHANGED <<pc, calls, host>>
    BY <1>3, <1>12 DEF OneDeep, SubResultsSent, Level, vars
  <2>2. requests' \in Nat
    BY <1>3, <1>12 DEF OneDeep, SubResultsSent, Sent
  <2> DEFINE i == subs[1].iteration + 1
  <2>6. subs[1] \in Frame /\ i \in Nat
    BY <1>3, <1>12, <2>1 DEF OneDeep, SubResultsSent
  <2>3. CASE i < MaxToolLoop
    <3>1. subs' = [subs EXCEPT ![1] = [subs[1] EXCEPT !.pc = "api", !.iteration = i]]
      <4>1. ~(i >= MaxToolLoop)
        BY <2>3, <2>6, LimitsAssumption DEF LimitsAssumption
      <4>2. QED
        BY <1>12, <2>1, <4>1 DEF SubResultsSent
    <3>2. subs[1] \in Frame
      BY <2>1
    <3>3. [subs[1] EXCEPT !.pc = "api", !.iteration = i] \in Frame
      <4>1. i \in 0..MaxToolLoop - 1
        BY <2>6, <2>3, LimitsAssumption DEF LimitsAssumption
      <4> HIDE DEF i
      <4>2. QED
        BY <3>2, <4>1 DEF Frame
    <3>4. subs' \in Seq(Frame) /\ Len(subs') = 1 /\ subs'[1] \in Frame
      BY <2>1, <3>1, <3>3, FrameReplaced
    <3>5. QED
      BY <1>2, <1>3, <2>1, <2>2, <3>4 DEF OneDeep, Frame
  <2>4. CASE ~(i < MaxToolLoop)
    <3>1. subs' = SubSeq(subs, 1, 0)
      BY <1>12, <2>1, <2>4 DEF SubResultsSent
    <3>2. subs' = <<>>
      BY <2>1, <3>1
    <3>3. QED
      BY <1>2, <1>3, <2>1, <2>2, <3>2 DEF OneDeep
  <2>5. QED
    BY <2>3, <2>4
<1>13. QED
  BY <1>2, <1>4, <1>5, <1>6, <1>7, <1>8, <1>9, <1>10, <1>11, <1>12 DEF ToolsNext, TurnStep

\* Every step keeps to the budget: one case per action.
LEMMA BudgetStep == BudgetInv /\ [ToolsNext]_allVars => BudgetInv'
<1> SUFFICES ASSUME BudgetInv, [ToolsNext]_allVars PROVE BudgetInv'
  OBVIOUS
<1>1. OneDeep' /\ CallCost' = CallCost /\ RoundCost' = RoundCost
  BY StaysOneDeep
<1>2. /\ CallCost \in Nat /\ RoundCost \in Nat /\ RoundCost = 1 + Times(MaxCalls, CallCost)
      /\ Times(MaxCalls, CallCost) \in Nat /\ Len(calls) \in Nat /\ Debt \in Nat
      /\ Times(iteration, RoundCost) \in Nat
      /\ Times(iteration + 1, RoundCost) = Times(iteration, RoundCost) + RoundCost
  BY Costs DEF BudgetInv
<1>3. /\ pc \in {"idle", "api", "tools"} /\ iteration \in Nat /\ requests \in Nat
      /\ calls \in Seq(Asked) /\ MaxToolLoop \in Nat /\ Len(calls) <= MaxCalls
      /\ \/ subs = <<>>
         \/ /\ subs \in Seq(Frame) /\ Len(subs) = 1 /\ subs[1].iteration \in 0..MaxToolLoop - 1
            /\ pc = "tools" /\ CallCost = MaxToolLoop
  BY LimitsAssumption DEF BudgetInv, OneDeep, LimitsAssumption
<1>4. /\ requests' \in Nat /\ Len(calls') \in Nat /\ Len(calls') <= MaxCalls
      /\ Owed(calls', subs', CallCost) \in Nat /\ Debt' = Owed(calls', subs', CallCost)
  BY <1>1, <1>2, OwedNat DEF OneDeep, Debt
<1>5. pc = "tools" => requests + Debt <= Times(iteration + 1, RoundCost)
  BY DEF BudgetInv, Paid
<1>6. ASSUME UNCHANGED <<pc, iteration>>, pc = "tools", requests' + Debt' <= requests + Debt
      PROVE  BudgetInv'
  <2>1. requests' + Debt' <= Times(iteration + 1, RoundCost)
    BY <1>2, <1>3, <1>4, <1>5, <1>6
  <2>2. QED
    BY <1>1, <1>3, <1>6, <2>1 DEF BudgetInv, Paid
<1>7. CASE BetweenRuns \/ EditPlugins \/ Cancel \/ UNCHANGED allVars
  BY <1>1, <1>3, <1>7 DEF BetweenRuns, Attach, Reset, RunRefused, EditPlugins, Cancel, allVars,
                          vars, toolVars, BudgetInv, Paid, Debt
<1>8. CASE TurnStarts
  <2>1. pc' = "api" /\ iteration' = 0 /\ requests' = 1 /\ Times(0, RoundCost) = 0
    BY <1>2, <1>8 DEF TurnStarts, RunStarts, Times
  <2>2. QED
    BY <1>1, <2>1 DEF BudgetInv, Paid
<1>9. CASE RunReturns
  BY <1>1, <1>3, <1>9 DEF RunReturns, ApiAnswers, ApiFails, toolVars, BudgetInv, Paid
<1>10. CASE ResultsSent
  <2>1. /\ pc = "tools" /\ pc' \in {"api", "idle"} /\ iteration' = iteration + 1
        /\ requests' <= requests + 1
    BY <1>3, <1>10 DEF ResultsSent, ToolsDone, Sent
  <2>2. requests' <= Times(iteration', RoundCost') + 1
    <3>1. Times(iteration', RoundCost') = Times(iteration + 1, RoundCost)
      BY <1>1, <2>1
    <3>2. requests <= Times(iteration + 1, RoundCost) /\ Times(iteration + 1, RoundCost) \in Nat
      BY <1>2, <1>3, <1>5, <2>1
    <3>3. QED
      BY <1>3, <1>4, <2>1, <3>1, <3>2
  <2>3. QED
    BY <1>1, <1>3, <2>1, <2>2 DEF BudgetInv, Paid
<1>11. CASE AnswerCallsTools /\ subs = <<>>
  <2>1. pc = "api" /\ pc' = "tools" /\ subs' = <<>> /\ UNCHANGED <<iteration, requests>>
    BY <1>11 DEF AnswerCallsTools, ApiCallsTools
  <2>2. Debt' = Times(Len(calls'), CallCost)
    <3>1. Times(Len(calls'), CallCost) \in Nat
      BY <1>2, <1>4, TimesGrows
    <3>2. QED
      BY <1>4, <2>1, <3>1 DEF Owed
  <2>3. Debt' <= Times(MaxCalls, CallCost)
    BY <1>2, <1>4, <2>2, TimesGrows, ToolsAssumption DEF ToolsAssumption
  <2>4. requests <= Times(iteration, RoundCost) + 1
    BY <2>1 DEF BudgetInv, Paid
  <2>5. requests' + Debt' <= Times(iteration + 1, RoundCost)
    BY <1>2, <1>3, <1>4, <2>1, <2>3, <2>4
  <2>6. QED
    BY <1>1, <1>3, <2>1, <2>5 DEF BudgetInv, Paid
<1>12. CASE AnswerCallsTools /\ subs # <<>>
  <2>1. UNCHANGED <<pc, iteration, requests, calls>>
    BY <1>12 DEF AnswerCallsTools, vars
  <2>2. PICK cs : subs' = [subs EXCEPT ![Level] = [@ EXCEPT !.pc = "tools", !.calls = cs]]
    BY <1>12 DEF AnswerCallsTools
  <2>3. subs' # <<>> /\ subs'[1].iteration = subs[1].iteration
    BY <1>3, <1>12, <2>2 DEF Level
  <2>4. Debt' = Debt
    BY <1>4, <1>12, <2>1, <2>3 DEF Debt, Owed
  <2>5. QED
    BY <1>2, <1>3, <1>6, <1>12, <2>1, <2>4
<1>13. CASE SubReturns
  <2>1. UNCHANGED <<pc, iteration, requests, calls>> /\ subs # <<>> /\ Level = 1
    BY <1>3, <1>13 DEF SubReturns, vars, Level
  <2>2. subs' = <<>>
    BY <1>3, <1>13, <2>1, FrameReplaced DEF SubReturns
  <2>3. Debt' <= Debt
    <3>1. Times(Len(calls), CallCost) \in Nat
      BY <1>2, TimesGrows
    <3>2. QED
      BY <1>3, <1>4, <2>1, <2>2, <3>1 DEF Debt, Owed
  <2>4. QED
    BY <1>2, <1>3, <1>4, <1>6, <2>1, <2>3
<1>14. CASE Execute
  <2>1. UNCHANGED <<pc, iteration, requests>> /\ calls' = CallsLeft /\ subs' = SubsLeft /\ Todo # <<>>
    BY <1>14 DEF Execute, vars
  <2>2. CASE subs = <<>>
    <3>1. pc = "tools" /\ calls # <<>> /\ calls' = Tail(calls) /\ subs' = <<>>
      BY <1>14, <2>1, <2>2 DEF Execute, At, CallsLeft, SubsLeft, Todo
    <3>2. Len(calls') <= Len(calls)
      BY <1>3, <3>1
    <3>3. Times(Len(calls'), CallCost) <= Times(Len(calls), CallCost)
      BY <1>2, <1>4, <3>2, TimesGrows
    <3>4. Times(Len(calls'), CallCost) \in Nat /\ Times(Len(calls), CallCost) \in Nat
      BY <1>2, <1>4, TimesGrows
    <3>5. Debt' <= Debt
      BY <1>4, <2>2, <3>1, <3>3, <3>4 DEF Debt, Owed
    <3>6. QED
      BY <1>2, <1>3, <1>4, <1>6, <2>1, <3>1, <3>5
  <2>3. CASE subs # <<>>
    <3>1. calls' = calls /\ subs' # <<>> /\ subs'[1].iteration = subs[1].iteration
      BY <1>3, <2>1, <2>3 DEF CallsLeft, SubsLeft, Level
    <3>2. Debt' = Debt
      BY <1>4, <2>3, <3>1 DEF Debt, Owed
    <3>3. QED
      BY <1>2, <1>3, <1>6, <2>1, <2>3, <3>2
  <2>4. QED
    BY <2>2, <2>3
<1>15. CASE Delegate
  <2>1. subs = <<>> /\ CallCost = MaxToolLoop /\ pc = "tools"
    BY <1>3, <1>15 DEF Delegate, At, Configured, Optional, OptionsAt, SubOptions, Level, BudgetInv, OneDeep,
                HostOptions, TerminalOptions, ScheduledOptions, ServiceOptions, CallCost
  <2>2. /\ UNCHANGED <<pc, iteration>> /\ requests' <= requests + 1
        /\ calls # <<>> /\ calls' = Tail(calls) /\ subs' # <<>> /\ subs'[1].iteration = 0
    BY <1>3, <1>15, <2>1 DEF Delegate, CallsLeft, SubsLeft, Todo, Sent, vars
  <2>3. Times(Len(calls), CallCost) = Times(Len(calls'), CallCost) + CallCost
    <3>1. Len(calls) = Len(calls') + 1
      BY <1>3, <2>2
    <3>2. QED
      BY <1>2, <1>4, <3>1, TimesGrows
  <2>4. Times(Len(calls'), CallCost) \in Nat
    BY <1>2, <1>4, TimesGrows
  <2>5. Debt = Times(Len(calls), CallCost) /\ Debt' = Times(Len(calls'), CallCost) + (MaxToolLoop - 1)
    BY <1>2, <1>3, <1>4, <2>1, <2>2, <2>3, <2>4 DEF Debt, Owed
  <2>6. requests' + Debt' <= requests + Debt
    <3>1. Debt' = Debt - 1
      <4>1. MaxToolLoop \in Nat /\ Debt = Times(Len(calls'), CallCost) + MaxToolLoop
        BY <1>3, <2>1, <2>3, <2>5
      <4>2. QED
        BY <2>4, <2>5, <4>1
    <3>2. requests \in Nat /\ requests' \in Nat /\ Debt \in Nat /\ requests' <= requests + 1
      BY <1>2, <1>3, <1>4, <2>2
    <3>3. QED
      BY <3>1, <3>2, OneMore
  <2>7. QED
    BY <1>6, <2>1, <2>2, <2>6
<1>16. CASE SubResultsSent
  <2>1. /\ UNCHANGED <<pc, iteration, calls>> /\ subs # <<>> /\ Level = 1
        /\ requests' <= requests + 1
    BY <1>3, <1>16 DEF SubResultsSent, vars, Level, Sent
  <2>2. Times(Len(calls), CallCost) \in Nat
    BY <1>2, TimesGrows
  <2> DEFINE i == subs[1].iteration + 1
  <2>3. CASE i < MaxToolLoop
    <3>1. subs' # <<>> /\ subs'[1].iteration = i
      <4>1. i \in Nat /\ ~(i >= MaxToolLoop) /\ subs[1] \in Frame
        BY <1>3, <2>1, <2>3
      <4>2. subs' = [subs EXCEPT ![1] = [subs[1] EXCEPT !.pc = "api", !.iteration = i]]
        BY <1>16, <2>1, <4>1 DEF SubResultsSent
      <4> HIDE DEF i
      <4>3. QED
        BY <1>3, <2>1, <4>1, <4>2 DEF Frame
    <3>2. Debt' = Debt - 1
      BY <1>3, <1>4, <2>1, <2>2, <3>1 DEF Debt, Owed
    <3>3. requests' + Debt' <= requests + Debt
      <4>1. requests \in Nat /\ requests' \in Nat /\ Debt \in Nat /\ requests' <= requests + 1
        BY <1>2, <1>3, <1>4, <2>1
      <4>2. QED
        BY <3>2, <4>1, OneMore
    <3>4. pc = "tools"
      BY <1>3, <2>1
    <3>5. QED
      BY <1>6, <2>1, <3>3, <3>4
  <2>4. CASE ~(i < MaxToolLoop)
    <3>1. subs' = SubSeq(subs, 1, 0) /\ requests' = requests
      BY <1>3, <1>16, <2>1, <2>4 DEF SubResultsSent
    <3>2. subs' = <<>>
      BY <1>3, <2>1, <3>1, FrameReplaced
    <3>3. Debt' <= Debt
      BY <1>3, <1>4, <2>1, <2>2, <3>2 DEF Debt, Owed
    <3>4. QED
      BY <1>2, <1>3, <1>4, <1>6, <2>1, <3>1, <3>3
  <2>5. QED
    BY <2>3, <2>4
<1>17. QED
  BY <1>7, <1>8, <1>9, <1>10, <1>11, <1>12, <1>13, <1>14, <1>15, <1>16 DEF ToolsNext, TurnStep

\* One input costs a bounded number of requests, whatever the answers ask for
\* and however often they delegate (Run, DelegateFunc).
THEOREM Budget == ToolsSpec => []RequestBudget
<1>1. ASSUME BudgetInv PROVE RequestBudget
  <2>1. /\ RoundCost \in Nat \ {0} /\ Times(iteration, RoundCost) \in Nat /\ Debt \in Nat
        /\ Times(iteration + 1, RoundCost) = Times(iteration, RoundCost) + RoundCost
    <3>1. /\ RoundCost = 1 + Times(MaxCalls, CallCost) /\ Times(MaxCalls, CallCost) \in Nat
          /\ Times(iteration, RoundCost) \in Nat /\ Debt \in Nat
          /\ Times(iteration + 1, RoundCost) = Times(iteration, RoundCost) + RoundCost
      BY <1>1, Costs DEF BudgetInv
    <3>2. QED
      BY <3>1
  <2>2. pc # "idle" => requests <= Times(iteration + 1, RoundCost)
    BY <1>1, <2>1 DEF BudgetInv, OneDeep, Paid
  <2>3. QED
    BY <2>2 DEF RequestBudget, Times
<1>2. QED
  BY <1>1, BudgetInit, BudgetStep, PTL DEF ToolsSpec

-----------------------------------------------------------------------------
(* What takes effect *)

\* A call that takes effect is one of a tool that its level offers; and of
\* those, once the run is cancelled, one that does not look at its context.
LEMMA Effects ==
    ASSUME NEW n, "done" \in Results(n)
    PROVE  /\ n \in Offered(Level)
           /\ cancelled => n \in FileTools \cup MemoryTools \cup {"update_global_memory"}
<1> USE DEF PowerShell, CancelledAt
<1> DEFINE Plugin == {f.name : f \in PluginsFor(Level)} \ Known
<1>1. CASE n \in FileTools \cup MemoryTools
  BY <1>1 DEF Offered, Builtin
<1>2. CASE n \in {"bash"} \cup SearchTools \cup WindowsTools
  <2>1. /\ n \in Builtin /\ n \notin Plugin /\ n \notin FileTools /\ n \notin MemoryTools
        /\ n # "update_global_memory" /\ n # "delegate"
    BY <1>2 DEF Known, Builtin, SearchTools, WindowsTools, FileTools, MemoryTools
  <2>2. CASE n = "bash"
    <3>1. n \notin SearchTools /\ n \notin WindowsTools
      BY <2>2 DEF SearchTools, WindowsTools
    <3>2. Results(n) = BashResults
      BY <2>1, <2>2, <3>1 DEF Results
    <3>3. QED
      BY <2>1, <3>2 DEF BashResults, Offered
  <2>3. CASE n \in SearchTools
    <3>1. n # "bash" /\ n \notin WindowsTools
      BY <2>3 DEF SearchTools, WindowsTools
    <3>2. Results(n) = SearchResults
      BY <2>1, <2>3, <3>1 DEF Results
    <3>3. QED
      BY <2>1, <3>2 DEF SearchResults, Offered
  <2>4. CASE n \in WindowsTools
    <3>1. n # "bash" /\ n \notin SearchTools
      BY <2>4 DEF SearchTools, WindowsTools
    <3>2. Results(n) = WindowsResults(n)
      BY <2>1, <2>4, <3>1 DEF Results
    <3>3. QED
      BY <2>1, <3>2 DEF WindowsResults, Offered
  <2>5. QED
    BY <1>2, <2>2, <2>3, <2>4
<1>3. CASE n \notin Builtin
  <2>1. n # "bash" /\ n \notin FileTools /\ n \notin SearchTools /\ n \notin MemoryTools /\ n \notin WindowsTools
    BY <1>3 DEF Builtin
  <2>2. CASE n = "update_global_memory"
    <3>1. n \notin Plugin /\ n # "delegate"
      BY <2>2 DEF Known
    <3>2. Results(n) = IF Configured(n) THEN GlobalResults ELSE {"error"}
      BY <2>1, <2>2, <3>1 DEF Results
    <3>3. QED
      BY <2>2, <3>2 DEF Configured, Offered
  <2>3. CASE n = "delegate"
    <3>1. n \notin Plugin /\ n # "update_global_memory"
      BY <2>3 DEF Known
    <3>2. Results(n) = {"error"}
      BY <2>1, <2>3, <3>1 DEF Results
    <3>3. QED
      BY <3>2
  <2>4. CASE n # "update_global_memory" /\ n # "delegate"
    <3>1. CASE n \in Plugin
      <4>1. Results(n) = PluginResults
        BY <2>1, <2>4, <3>1 DEF Results
      <4>2. QED
        BY <3>1, <4>1 DEF PluginsFor, PluginResults, Offered
    <3>2. CASE n \notin Plugin
      <4>1. Results(n) = {"error"}
        BY <2>1, <2>4, <3>2 DEF Results
      <4>2. QED
        BY <4>1
    <3>3. QED
      BY <3>1, <3>2
  <2>5. QED
    BY <2>2, <2>3, <2>4
<1>4. QED
  BY <1>1, <1>2, <1>3 DEF Builtin

\* Nothing takes effect that the request did not offer: the names the run
\* looks up are those of the registry that its requests were made from
\* (Registry.Definitions, Registry.Execute).
THEOREM OfferedOnly == ToolsSpec => []OnlyOfferedRun
<1>1. ToolsInit => OnlyOfferedRun
  BY DEF ToolsInit, OnlyOfferedRun
<1>2. ASSUME OnlyOfferedRun, [ToolsNext]_allVars PROVE OnlyOfferedRun'
  <2> USE DEF Offered, Optional, OptionsAt, PluginsAt
  <2>1. ASSUME UNCHANGED <<host, loaded, last>> PROVE OnlyOfferedRun'
    BY <1>2, <2>1 DEF OnlyOfferedRun
  <2>2. CASE TurnStarts
    BY <2>2 DEF TurnStarts, OnlyOfferedRun
  <2>3. ASSUME NEW n, last' = <<Level, n>>, n \in Offered(Level), UNCHANGED <<host, loaded>>
        PROVE  OnlyOfferedRun'
    <3>1. last'[1] = Level /\ last'[2] = n
      BY <2>3
    <3>2. QED
      BY <2>3, <3>1 DEF OnlyOfferedRun
  <2>4. CASE Execute
    <3>1. PICK r \in Results(Head(Todo)) : last' = IF r = "done" THEN <<Level, Head(Todo)>> ELSE <<>>
      BY <2>4 DEF Execute
    <3>2. CASE r = "done"
      BY <2>3, <2>4, <3>1, <3>2, Effects DEF Execute
    <3>3. CASE r # "done"
      BY <3>1, <3>3 DEF OnlyOfferedRun
    <3>4. QED
      BY <3>2, <3>3
  <2>5. CASE Delegate
    BY <2>3, <2>5 DEF Delegate, Configured
  <2>6. CASE BetweenRuns \/ EditPlugins \/ Cancel \/ UNCHANGED allVars
    BY <2>1, <2>6 DEF BetweenRuns, EditPlugins, Cancel, toolVars, allVars
  <2>7. CASE AnswerCallsTools \/ RunReturns \/ SubReturns \/ ResultsSent \/ SubResultsSent
    BY <2>1, <2>7 DEF AnswerCallsTools, RunReturns, SubReturns, ResultsSent, SubResultsSent, toolVars
  <2>8. QED
    BY <1>2, <2>2, <2>4, <2>5, <2>6, <2>7 DEF ToolsNext, TurnStep
<1>3. QED
  BY <1>1, <1>2, PTL DEF ToolsSpec

\* After Ctrl+C no request leaves, of the run or of its sub-agents, and of the
\* calls that are left none reaches PowerShell or the network (executeDelegate,
\* executePowerShell, the searches).
THEOREM CancelledWork == ToolsSpec => CancelStopsWork
<1> DEFINE Stopped ==
        cancelled /\ cancelled' =>
            /\ requests' = requests
            /\ last' # last /\ last' # <<>> =>
                  last'[2] \in FileTools \cup MemoryTools \cup {"update_global_memory", "delegate"}
<1>1. ASSUME [ToolsNext]_allVars PROVE Stopped
  <2>1. SUFFICES ASSUME cancelled, cancelled' PROVE Stopped
    OBVIOUS
  <2>2. ASSUME UNCHANGED <<requests, last>> PROVE Stopped
    BY <2>2
  <2>3. ~TurnStarts
    BY <2>1 DEF TurnStarts
  <2>4. CASE Execute
    <3>1. PICK r \in Results(Head(Todo)) : last' = IF r = "done" THEN <<Level, Head(Todo)>> ELSE <<>>
      BY <2>4 DEF Execute
    <3>2. r = "done" => Head(Todo) \in FileTools \cup MemoryTools \cup {"update_global_memory"}
      BY <2>1, Effects
    <3>3. r = "done" => last'[2] = Head(Todo)
      BY <3>1
    <3>4. UNCHANGED requests
      BY <2>4 DEF Execute
    <3>5. QED
      BY <3>1, <3>2, <3>3, <3>4
  <2>5. CASE Delegate
    <3>1. last'[2] = "delegate" /\ requests' = requests
      BY <2>1, <2>5 DEF Delegate, Sent, CancelledAt
    <3>2. QED
      BY <3>1
  <2>6. CASE ResultsSent \/ SubResultsSent
    BY <2>1, <2>2, <2>6 DEF ResultsSent, SubResultsSent, Sent, CancelledAt
  <2>7. CASE BetweenRuns \/ EditPlugins \/ Cancel \/ UNCHANGED allVars
    BY <2>2, <2>7 DEF BetweenRuns, EditPlugins, Cancel, toolVars, allVars
  <2>8. CASE AnswerCallsTools \/ RunReturns \/ SubReturns
    BY <2>2, <2>8 DEF AnswerCallsTools, RunReturns, SubReturns, toolVars
  <2>9. QED
    BY <1>1, <2>3, <2>4, <2>5, <2>6, <2>7, <2>8 DEF ToolsNext, TurnStep
<1>2. QED
  BY <1>1, PTL DEF ToolsSpec, CancelStopsWork

-----------------------------------------------------------------------------
(* Types *)

\* The variables of Run and of its tools keep their types.
THEOREM TypesCorrect == ToolsSpec => [](TypeOK /\ ToolsTypeOK)
<1> DEFINE Types == dir \subseteq Files /\ loaded \subseteq Files /\ cancelled \in BOOLEAN
<1>1. ToolsInit => Types
  BY DEF ToolsInit
<1>2. ASSUME Types, [ToolsNext]_allVars PROVE Types'
  <2>1. CASE EditPlugins
    BY <1>2, <2>1 DEF EditPlugins
  <2>2. CASE TurnStarts
    BY <1>2, <2>2 DEF TurnStarts
  <2>3. CASE BetweenRuns \/ Cancel \/ RunReturns \/ UNCHANGED allVars
    BY <1>2, <2>3 DEF BetweenRuns, Cancel, RunReturns, toolVars, allVars
  <2>4. CASE AnswerCallsTools \/ SubReturns \/ Execute \/ Delegate \/ ResultsSent \/ SubResultsSent
    BY <1>2, <2>4 DEF AnswerCallsTools, SubReturns, Execute, Delegate, ResultsSent, SubResultsSent
  <2>5. QED
    BY <1>2, <2>1, <2>2, <2>3, <2>4 DEF ToolsNext, TurnStep
<1>3. ASSUME BudgetInv, Types PROVE ToolsTypeOK
  <2>1. <<>> \in Seq(Frame)
    OBVIOUS
  <2>2. QED
    BY <1>3, <2>1 DEF BudgetInv, OneDeep, ToolsTypeOK
<1>4. IInv => TypeOK
  BY DEF IInv
<1>5. QED
  BY <1>1, <1>2, <1>3, <1>4, ToolsImplementRun, Invariance, BudgetInit, BudgetStep, PTL DEF ToolsSpec
=============================================================================
