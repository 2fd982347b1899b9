--------------------------- MODULE ApiClientProofs ---------------------------
(***************************************************************************)
(* ApiClient: a call sends at most MaxRetries + 1 requests, at most one of *)
(* them after its context was cancelled, and the response it returns is    *)
(* one stream, the last, for any streams and any number of retries.  The   *)
(* turns of TurnOutput make no other steps of the client.                  *)
(***************************************************************************)
EXTENDS TurnOutput, TLAPS

\* The requests made, at each place of the loop.
Counts ==
    /\ pc \in {"run", "backoff"} => runs = attempt
    /\ pc = "reading" => runs = attempt + 1
    /\ runs <= MaxRetries + 1

\* No request was late while the call goes on: the first that is ends it.
OnTime == (pc # "idle" => late = 0) /\ late <= 1

\* The text of the response in the making is that of the stream being read, and
\* what onDelta was given last.
Skipped == Len(delivered) - Len(got)

Built ==
    /\ \A i \in 1..Len(got) : got[i] = [try |-> attempt, at |-> i]
    /\ Skipped >= 0
    /\ \A i \in 1..Len(got) : got[i] = delivered[Skipped + i]

Reading == pc = "reading" \/ outcome = "ok" => Built

\* The inductive invariant.
CInv ==
    /\ ClientTypeOK
    /\ Counts
    /\ backoff = waited + 1
    /\ OnTime
    /\ outcome # "none" => pc = "idle"
    /\ Reading

USE DEF clientVars, resp, hist, Events

\* Chunks: what got and delivered hold.
Chunks == [try : 0..MaxRetries, at : Nat]

\* Sequences of any kind.
LEMMA SequenceFacts ==
    ASSUME NEW S
    PROVE  /\ <<>> \in Seq(S)
           /\ \A s \in Seq(S), e \in S : Append(s, e) \in Seq(S)
OBVIOUS

LEMMA Bounds == MaxRetries \in Nat /\ MaxCalls \in Nat
BY ClientAssumption, Zenon DEF ClientAssumption

LEMMA NoneYet == <<>> \in Seq(Events) /\ <<>> \in Seq([try : 0..MaxRetries, at : Nat])
BY SequenceFacts

LEMMA ClientInitEstablishes == ClientInit => CInv
<1> SUFFICES ASSUME ClientInit PROVE CInv
  OBVIOUS
<1>1. ClientTypeOK
  <2>1. /\ stream \in Seq(Events)
        /\ got \in Seq([try : 0..MaxRetries, at : Nat])
        /\ delivered \in Seq([try : 0..MaxRetries, at : Nat])
    BY NoneYet, Zenon DEF ClientInit
  <2>2. /\ pc = "idle" /\ mode = "send" /\ attempt \in 0..MaxRetries
        /\ backoff \in Nat /\ waited \in Nat /\ outcome = "none"
        /\ runs \in Nat /\ late \in Nat /\ calls \in 0..MaxCalls
    BY Bounds DEF ClientInit
  <2>3. cancelled \in BOOLEAN /\ closed \in BOOLEAN
    BY DEF ClientInit
  <2> QED
    BY <2>1, <2>2, <2>3 DEF ClientTypeOK
<1>2. Counts /\ OnTime /\ backoff = waited + 1 /\ outcome = "none" /\ pc = "idle"
  BY Bounds DEF ClientInit, Counts, OnTime
<1> QED
  BY <1>1, <1>2 DEF CInv, Reading

\* A text that arrives is the next one of the stream.
LEMMA ReadEventBuilds ==
    ASSUME CInv, ReadEvent, Head(stream) = "text" PROVE Built'
<1> DEFINE chunk == [try |-> attempt, at |-> Len(got) + 1]
<1>1. /\ got \in Seq([try : 0..MaxRetries, at : Nat])
      /\ delivered \in Seq([try : 0..MaxRetries, at : Nat])
      /\ attempt \in 0..MaxRetries /\ Built
  BY DEF CInv, ClientTypeOK, Reading, ReadEvent
<1>2. got' = Append(got, chunk) /\ delivered' = Append(delivered, chunk) /\ attempt' = attempt
  BY DEF ReadEvent
<1>3. Len(got') = Len(got) + 1 /\ Len(delivered') = Len(delivered) + 1 /\ Skipped' = Skipped
  BY <1>1, <1>2 DEF Skipped
<1>4. ASSUME NEW i \in 1..Len(got')
      PROVE  got'[i] = [try |-> attempt', at |-> i] /\ got'[i] = delivered'[Skipped' + i]
  <2>1. CASE i \in 1..Len(got)
    BY <1>1, <1>2, <1>3, <2>1 DEF Built, Skipped
  <2>2. CASE i = Len(got) + 1
    BY <1>1, <1>2, <1>3, <2>2 DEF Built, Skipped
  <2>3. i \in 1..Len(got) \/ i = Len(got) + 1
    BY <1>1, <1>3
  <2> QED
    BY <2>1, <2>2, <2>3
<1> QED
  BY <1>1, <1>3, <1>4 DEF Built

LEMMA ClientStepPreserves == CInv /\ [ClientNext]_clientVars => CInv'
<1> SUFFICES ASSUME CInv, [ClientNext]_clientVars PROVE CInv'
  OBVIOUS
<1> USE Bounds
<1>1. ASSUME NEW m \in {"send", "stream"}, Call(m) PROVE CInv'
  <2>1. ClientTypeOK'
    <3>1. /\ (stream \in Seq(Events))'
          /\ (got \in Seq([try : 0..MaxRetries, at : Nat]))'
          /\ (delivered \in Seq([try : 0..MaxRetries, at : Nat]))'
      BY <1>1, NoneYet, Zenon DEF Call
    <3>2. /\ pc' = "run" /\ mode' \in {"send", "stream"} /\ attempt' \in 0..MaxRetries
          /\ backoff' \in Nat /\ waited' \in Nat /\ outcome' = "none"
          /\ runs' \in Nat /\ late' \in Nat /\ calls' \in 0..MaxCalls
      BY <1>1 DEF CInv, ClientTypeOK, Call
    <3>3. cancelled' \in BOOLEAN /\ closed' \in BOOLEAN
      BY <1>1 DEF CInv, ClientTypeOK, Call
    <3> QED
      BY <3>1, <3>2, <3>3 DEF ClientTypeOK
  <2>2. Counts' /\ OnTime' /\ (backoff = waited + 1)' /\ outcome' = "none" /\ pc' = "run"
    BY <1>1 DEF CInv, ClientTypeOK, Call, Counts, OnTime
  <2> QED
    BY <2>1, <2>2 DEF CInv, Reading
<1>2. ASSUME UNCHANGED <<pc, attempt, got, delivered, outcome, stream, mode>>,
             backoff' = backoff, waited' = waited, ClientTypeOK', Counts', OnTime'
      PROVE  CInv'
  BY <1>2 DEF CInv, Reading, Built, Skipped
<1>3. CASE Cancel \/ Close
  <2>1. ClientTypeOK'
    BY <1>3 DEF CInv, ClientTypeOK, Cancel, Close
  <2>2. Counts' /\ OnTime'
    BY <1>3 DEF CInv, Cancel, Close, Counts, OnTime
  <2> QED
    BY <1>2, <1>3, <2>1, <2>2 DEF Cancel, Close
<1>4. CASE Waited
  <2>1. ClientTypeOK'
    BY <1>4 DEF CInv, ClientTypeOK, Waited
  <2>2. Counts' /\ OnTime' /\ (backoff = waited + 1)' /\ (outcome # "none" => pc = "idle")'
    BY <1>4 DEF CInv, ClientTypeOK, Waited, Counts, OnTime
  <2>3. pc' # "reading" /\ outcome' # "ok"
    BY <1>4 DEF CInv, Waited
  <2> QED
    BY <2>1, <2>2, <2>3 DEF CInv, Reading
<1>5. CASE WaitCancelled
  <2>1. ClientTypeOK'
    BY <1>5 DEF CInv, ClientTypeOK, WaitCancelled
  <2>2. Counts' /\ OnTime' /\ (backoff = waited + 1)' /\ (outcome # "none" => pc = "idle")'
    BY <1>5 DEF CInv, ClientTypeOK, WaitCancelled, Counts, OnTime
  <2>3. pc' # "reading" /\ outcome' # "ok"
    BY <1>5 DEF CInv, WaitCancelled
  <2> QED
    BY <2>1, <2>2, <2>3 DEF CInv, Reading
<1>6. CASE NoAnswer
  <2>1. ClientTypeOK'
    BY <1>6 DEF CInv, ClientTypeOK, NoAnswer, Counted, Fails, StopsNow, TriesLeft
  <2>2. Counts' /\ OnTime' /\ (backoff = waited + 1)'
    BY <1>6 DEF CInv, ClientTypeOK, NoAnswer, Counted, Fails, StopsNow, TriesLeft, Counts, OnTime
  <2>3. pc' \in {"idle", "backoff"} /\ outcome' \in {"none", "error"}
                                  /\ (outcome' # "none" => pc' = "idle")
    BY <1>6 DEF CInv, ClientTypeOK, NoAnswer, Fails
  <2> QED
    BY <2>1, <2>2, <2>3 DEF CInv, Reading
<1>7. ASSUME NEW kind \in {"retryable", "fatal"}, Refused(kind) PROVE CInv'
  <2>1. ClientTypeOK'
    BY <1>7 DEF CInv, ClientTypeOK, Refused, Counted, Fails, StopsNow, TriesLeft
  <2>2. Counts' /\ OnTime' /\ (backoff = waited + 1)'
    BY <1>7 DEF CInv, ClientTypeOK, Refused, Counted, Fails, StopsNow, TriesLeft, Counts, OnTime
  <2>3. pc' \in {"idle", "backoff"} /\ outcome' \in {"none", "error"}
                                  /\ (outcome' # "none" => pc' = "idle")
    BY <1>7 DEF CInv, ClientTypeOK, Refused, Fails
  <2> QED
    BY <2>1, <2>2, <2>3 DEF CInv, Reading
<1>8. ASSUME NEW s \in Streams, Accepted(s) PROVE CInv'
  <2>1. ClientTypeOK'
    BY <1>8, ClientAssumption, NoneYet DEF ClientAssumption, CInv, ClientTypeOK, Accepted, Counted, Fresh, OnTime
  <2>2. Counts' /\ OnTime' /\ (backoff = waited + 1)' /\ (outcome # "none" => pc = "idle")'
    BY <1>8 DEF CInv, ClientTypeOK, Accepted, Counted, Counts, OnTime
  <2>3. Built'
    BY <1>8 DEF CInv, ClientTypeOK, Accepted, Fresh, Built, Skipped
  <2> QED
    BY <2>1, <2>2, <2>3 DEF CInv, Reading
<1>9. CASE ReadBody \/ StreamEnds
  <2>1. ClientTypeOK'
    BY <1>9 DEF CInv, ClientTypeOK, ReadBody, StreamEnds, Succeeds
  <2>2. Counts' /\ OnTime' /\ (backoff = waited + 1)' /\ (outcome # "none" => pc = "idle")'
    BY <1>9 DEF CInv, ReadBody, StreamEnds, Succeeds, Counts, OnTime
  <2>3. Built'
    BY <1>9 DEF CInv, ReadBody, StreamEnds, Succeeds, Reading, Built, Skipped
  <2> QED
    BY <2>1, <2>2, <2>3 DEF CInv, Reading
<1>10. CASE ReadEvent
  <2>1. ClientTypeOK'
    <3>1. /\ pc = "reading" /\ attempt \in 0..MaxRetries
          /\ stream \in Seq(Events) /\ stream # <<>>
          /\ got \in Seq(Chunks) /\ delivered \in Seq(Chunks)
      BY <1>10 DEF CInv, ClientTypeOK, ReadEvent, Chunks
    <3>2. Tail(stream) \in Seq(Events)
      BY <3>1
    <3>3. [try |-> attempt, at |-> Len(got) + 1] \in Chunks
      BY <3>1 DEF Chunks
    <3>4. got' \in Seq(Chunks) /\ delivered' \in Seq(Chunks)
      <4>1. /\ got' \in {got, Append(got, [try |-> attempt, at |-> Len(got) + 1])}
            /\ delivered' \in {delivered, Append(delivered, [try |-> attempt, at |-> Len(got) + 1])}
        BY <1>10 DEF ReadEvent
      <4> QED
        BY <3>1, <3>3, <4>1, SequenceFacts
    <3> QED
      BY <1>10, <3>2, <3>4 DEF CInv, ClientTypeOK, ReadEvent, Chunks
  <2>2. Counts' /\ OnTime' /\ (backoff = waited + 1)' /\ (outcome # "none" => pc = "idle")'
    BY <1>10 DEF CInv, ClientTypeOK, ReadEvent, Counts, OnTime
  <2>3. Built'
    <3>1. CASE Head(stream) = "text"
      BY <1>10, <3>1, ReadEventBuilds
    <3>2. CASE Head(stream) # "text"
      BY <1>10, <3>2 DEF CInv, ReadEvent, Reading, Built, Skipped
    <3> QED
      BY <3>1, <3>2
  <2> QED
    BY <2>1, <2>2, <2>3 DEF CInv, Reading
<1>11. CASE ReadFails
  <2>1. ClientTypeOK'
    BY <1>11 DEF CInv, ClientTypeOK, ReadFails, Fails, StopsNow, TriesLeft
  <2>2. Counts' /\ OnTime' /\ (backoff = waited + 1)'
    BY <1>11 DEF CInv, ClientTypeOK, ReadFails, Fails, StopsNow, TriesLeft, Counts, OnTime
  <2>3. pc' \in {"idle", "backoff"} /\ outcome' \in {"none", "error"}
                                  /\ (outcome' # "none" => pc' = "idle")
    BY <1>11 DEF CInv, ClientTypeOK, ReadFails, Fails
  <2> QED
    BY <2>1, <2>2, <2>3 DEF CInv, Reading
<1>12. CASE UNCHANGED clientVars
  <2>1. ClientTypeOK' /\ Counts' /\ OnTime'
    BY <1>12 DEF CInv, ClientTypeOK, Counts, OnTime
  <2> QED
    BY <1>2, <1>12, <2>1
<1> QED
  BY <1>1, <1>3, <1>4, <1>5, <1>6, <1>7, <1>8, <1>9, <1>10, <1>11, <1>12
     DEF ClientNext, ClientStep

\* The client's state is well typed and its counts agree with its place in the
\* loop of withRetry, for any streams, retries and number of calls.
THEOREM ClientInvariance == ClientSpec => []CInv
BY ClientInitEstablishes, ClientStepPreserves, PTL DEF ClientSpec

\* What the loop of withRetry gives: the first run and MaxRetries more, and a
\* wait that is one second more than all those before it.
RunsAndWaits ==
    /\ runs <= MaxRetries + 1
    /\ backoff = waited + 1

\* withRetry makes one request more than its comment says, and none beyond that,
\* however calls fail, break or are cancelled; its waits double.
THEOREM Retries == ClientSpec => []RunsAndWaits
<1>1. CInv => RunsAndWaits
  BY DEF CInv, Counts, RunsAndWaits
<1> QED
  BY <1>1, ClientInvariance, PTL

\* withRetry's looks at the context: a cancelled call makes at most one request
\* more.
THEOREM Cancelled == ClientSpec => []CancelStops
<1>1. CInv => CancelStops
  BY DEF CInv, OnTime, CancelStops
<1> QED
  BY <1>1, ClientInvariance, PTL

\* readStream starts afresh in each try: a response holds the text of one
\* stream, in its order, and is what onDelta was given last.
THEOREM OneStream == ClientSpec => []ResponseIsOneStream
<1>1. ASSUME CInv, outcome = "ok"
      PROVE  /\ Skipped >= 0
             /\ got = SubSeq(delivered, Skipped + 1, Len(delivered))
  <2> DEFINE sub == SubSeq(delivered, Skipped + 1, Len(delivered))
  <2>1. /\ got \in Seq([try : 0..MaxRetries, at : Nat])
        /\ delivered \in Seq([try : 0..MaxRetries, at : Nat])
        /\ Built
    BY <1>1 DEF CInv, ClientTypeOK, Reading
  <2>2. Skipped \in Nat /\ Len(got) \in Nat /\ Len(delivered) = Skipped + Len(got)
    BY <2>1 DEF Built, Skipped
  <2>3. sub = [i \in 1..Len(got) |-> delivered[Skipped + i]]
    BY <2>2 DEF SubSeq
  <2>4. got = [i \in 1..Len(got) |-> got[i]]
    BY <2>1
  <2>5. got = sub
    BY <2>1, <2>3, <2>4 DEF Built
  <2> QED
    BY <2>2, <2>5
<1>2. CInv => ResponseIsOneStream
  BY <1>1 DEF CInv, Reading, Built, Skipped, ResponseIsOneStream
<1> QED
  BY <1>2, ClientInvariance, PTL

-----------------------------------------------------------------------------
\* A turn, with its callback and its spinner, and the consolidation after it
\* use the client as ApiClient says: what is proved of a call holds in a turn.
THEOREM TurnsUseClient == Spec => ClientSpec
<1>1. Init => ClientInit
  BY DEF Init
<1>2. [Next]_vars => [ClientNext]_clientVars
  <2> SUFFICES ASSUME Next PROVE [ClientNext]_clientVars
    BY DEF vars
  <2>1. CASE TurnStep
    BY <2>1 DEF TurnStep, TurnStarts, Requests, TextArrives, CallGoesOn, ToolAnnounced,
                RunReturns, TurnCancelled, LeftBehind, Closes, ClientNext, ClientStep
  <2>2. CASE StopStep
    BY <2>2 DEF StopStep, CloseDone, LockToErase, Erase, LockToWrite, Write, TurnEnds
  <2>3. ASSUME NEW t \in Turns, SpinnerStep(t) PROVE UNCHANGED clientVars
    BY <2>3 DEF SpinnerStep, SpinnerReturns, Tick, Draw
  <2> QED
    BY <2>1, <2>2, <2>3 DEF Next
<1> QED
  BY <1>1, <1>2, PTL DEF Spec, ClientSpec
-----------------------------------------------------------------------------
(* The spinners of the turns *)

\* A turn that is over has stopped its spinner, and so has the callback of the
\* one that runs before it takes the mutex; no spinner is started ahead.
Stopped ==
    /\ \A t \in Turns : t < turn => done[t]
    /\ loop \in {"erase", "erasing", "write", "writing", "end"} => turn >= 1 /\ done[turn]
    /\ loop = "idle" /\ turn >= 1 => done[turn]
    /\ loop # "idle" => turn >= 1
    /\ \A t \in Turns : t > turn => spin[t] = "none"

TInv == TypeOK /\ Stopped

LEMMA TurnInitEstablishes == ASSUME OutputAssumption PROVE Init /\ CInv => TInv
<1> SUFFICES ASSUME Init, CInv PROVE TInv
  OBVIOUS
<1>1. /\ turn = 0 /\ loop = "idle" /\ after = "end" /\ toolCalls = 0 /\ outputMu = Nobody
      /\ done = [t \in Turns |-> FALSE] /\ spin = [t \in Turns |-> "none"]
  BY DEF Init
<1>2. TypeOK
  BY <1>1 DEF CInv, TypeOK, OutputAssumption
<1> QED
  BY <1>1, <1>2 DEF TInv, Stopped, Turns

\* One case per action of the turn, of stop and of a spinner.
LEMMA TurnPreserves ==
    ASSUME OutputAssumption PROVE TInv /\ ClientTypeOK' /\ [Next]_vars => TInv'
<1> SUFFICES ASSUME TInv, ClientTypeOK', [Next]_vars PROVE TInv'
  OBVIOUS
<1> USE DEF OutputAssumption, Turns, TInv, TypeOK, Stopped
<1>1. ASSUME UNCHANGED outputVars PROVE TInv'
  BY <1>1 DEF outputVars
<1>2. CASE TurnStarts
  <2>1. turn' = turn + 1 /\ turn' \in Turns /\ spin' = [spin EXCEPT ![turn'] = "select"]
    BY <1>2 DEF TurnStarts
  <2>2. /\ loop' \in {"run", "close"} /\ after' \in {"write", "end"} /\ toolCalls' = 0
        /\ loop = "idle" /\ outputMu = Nobody /\ UNCHANGED <<done, outputMu>>
    BY <1>2 DEF TurnStarts
  <2> QED
    BY <2>1, <2>2
<1>3. ASSUME NEW next \in {"write", "end"}, loop = "run", Stops(next),
             toolCalls' \in 0..MaxToolCalls, UNCHANGED <<turn, done, spin, outputMu>>
      PROVE  TInv'
  BY <1>3 DEF Stops
<1>4. CASE TextArrives \/ ToolAnnounced \/ RunReturns
  BY <1>3, <1>4 DEF TextArrives, ToolAnnounced, RunReturns, Callback
<1>5. CASE CallGoesOn
  BY <1>5 DEF CallGoesOn
<1>6. CASE Requests \/ TurnCancelled \/ LeftBehind \/ Closes
  BY <1>1, <1>6 DEF Requests, TurnCancelled, LeftBehind, Closes
<1>7. CASE CloseDone
  BY <1>7 DEF CloseDone, ChannelClosed
<1>8. CASE LockToErase \/ LockToWrite
  BY <1>8 DEF LockToErase, LockToWrite, Locks
<1>9. CASE Erase \/ Write
  BY <1>9 DEF Erase, Write, Unlocks
<1>10. CASE TurnEnds
  BY <1>10 DEF TurnEnds
<1>11. ASSUME NEW t \in Turns, SpinnerStep(t) PROVE TInv'
  BY <1>11 DEF SpinnerStep, SpinnerReturns, Tick, Draw
<1> QED
  BY <1>1, <1>2, <1>4, <1>5, <1>6, <1>7, <1>8, <1>9, <1>10, <1>11
     DEF Next, TurnStep, StopStep, vars

LEMMA TurnInvariance == Spec => []TInv
<1>1. CInv => ClientTypeOK
  BY DEF CInv
<1> QED
  BY <1>1, OutputAssumption, TurnInitEstablishes, TurnPreserves, TurnsUseClient, ClientInvariance,
     PTL DEF Spec

\* runAgent and its callback: whoever writes holds outputMu and gives it back,
\* so that the callback never asks for a mutex it has.
THEOREM TurnTypes == Spec => []TypeOK
<1>1. TInv => TypeOK
  BY DEF TInv
<1> QED
  BY <1>1, TurnInvariance, PTL

\* stop: nothing is written in a turn whose spinner was not told to end, and no
\* turn comes back with one that was not, however it ended.
SpinnersTold ==
    /\ loop = "writing" => done[turn]
    /\ loop = "idle" => \A t \in Turns : spin[t] # "none" => done[t]

THEOREM EverySpinnerTold == Spec => []SpinnersTold
<1>1. TInv => SpinnersTold
  BY OutputAssumption DEF OutputAssumption, TInv, TypeOK, Stopped, SpinnersTold, Turns
<1> QED
  BY <1>1, TurnInvariance, PTL
=============================================================================
