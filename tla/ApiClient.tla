----------------------------- MODULE ApiClient -----------------------------
(***************************************************************************)
(* SendMessage and StreamMessage of internal/api/client.go: one request to *)
(* the Anthropic API, retried by withRetry with doubling waits; a stream   *)
(* of events handed to onDelta as it arrives; a context that may be        *)
(* cancelled, and Close, which zeroes the key, at any time.  The service   *)
(* behind the HTTP client is the environment: it refuses, breaks off or    *)
(* ends a stream where it likes.                                           *)
(***************************************************************************)
EXTENDS Naturals, Sequences

CONSTANTS
    MaxRetries,     \* maxRetries
    Streams,        \* what an accepted request may be answered with
    MaxCalls        \* bound: calls of the client

\* "other": every event without text; readStream has no case for "error".
Events == {"text", "other"}

ASSUME ClientAssumption ==
    /\ MaxRetries \in Nat
    /\ Streams \subseteq Seq(Events)
    /\ MaxCalls \in Nat

VARIABLES
    pc,         \* "idle", "run" (fn is called), "reading", "backoff"
    mode,       \* "send" or "stream"
    attempt,    \* the loop counter of withRetry
    backoff,    \* seconds the next wait takes
    stream,     \* what the service still sends
    got,        \* text chunks of the response in the making
    delivered,  \* text chunks handed to onDelta in this call
    outcome,    \* of the last call: "none", "ok" or "error"
    cancelled,  \* the context of the call is cancelled
    closed,     \* Close has zeroed the key
    runs,       \* history: calls of fn in this call of the client,
    late,       \*   those of them made after the cancellation,
    waited,     \*   and seconds waited
    calls       \* history: calls of the client

resp == <<stream, got, delivered>>
hist == <<runs, late, waited, calls>>
clientVars == <<pc, mode, attempt, backoff, resp, outcome, cancelled, closed, hist>>

ClientInit ==
    /\ pc = "idle" /\ mode = "send"
    /\ attempt = 0 /\ backoff = 1
    /\ stream = <<>> /\ got = <<>> /\ delivered = <<>>
    /\ outcome = "none"
    /\ cancelled = FALSE /\ closed = FALSE
    /\ runs = 0 /\ late = 0 /\ waited = 0 /\ calls = 0

-----------------------------------------------------------------------------
Call(m) ==
    /\ pc = "idle"
    /\ calls < MaxCalls
    /\ pc' = "run" /\ mode' = m
    /\ attempt' = 0 /\ backoff' = 1
    /\ stream' = <<>> /\ got' = <<>> /\ delivered' = <<>>
    /\ outcome' = "none"
    /\ cancelled' = FALSE
    /\ runs' = 0 /\ late' = 0 /\ waited' = 0
    /\ calls' = calls + 1
    /\ UNCHANGED closed

Cancel ==
    /\ pc # "idle" /\ ~cancelled
    /\ cancelled' = TRUE
    /\ UNCHANGED <<pc, mode, attempt, backoff, resp, outcome, closed, hist>>

Close ==
    /\ ~closed
    /\ closed' = TRUE
    /\ UNCHANGED <<pc, mode, attempt, backoff, resp, outcome, cancelled, hist>>

-----------------------------------------------------------------------------
(* withRetry, after fn has failed *)

BuggyStopsNow(kind) == kind = "fatal"

\* A status that is not retryable ends the call; so does a cancelled context,
\* by ctx.Err() after a non-API error and by the select before the next try.
StopsNow(kind) == kind = "fatal" \/ cancelled

TriesLeft == attempt < MaxRetries

Fails(kind) ==
    /\ IF StopsNow(kind) \/ ~TriesLeft
       THEN /\ pc' = "idle"
            /\ outcome' = "error"
            /\ UNCHANGED attempt
       ELSE /\ pc' = "backoff"
            /\ attempt' = attempt + 1
            /\ UNCHANGED outcome
    /\ UNCHANGED <<mode, backoff, resp, cancelled, closed, waited, calls>>

Succeeds ==
    /\ pc' = "idle"
    /\ outcome' = "ok"
    /\ UNCHANGED <<mode, attempt, backoff, cancelled, closed, hist>>

\* A select that has lost its timer.
BuggyWaited == FALSE

\* The select before a retry: the timer fires, perhaps with ctx just done.
Waited ==
    /\ pc = "backoff"
    /\ waited' = waited + backoff
    /\ backoff' = backoff * 2
    /\ pc' = "run"
    /\ UNCHANGED <<mode, attempt, resp, outcome, cancelled, closed, runs, late, calls>>

WaitCancelled ==
    /\ pc = "backoff"
    /\ cancelled
    /\ pc' = "idle"
    /\ outcome' = "error"
    /\ UNCHANGED <<mode, attempt, backoff, resp, cancelled, closed, hist>>

-----------------------------------------------------------------------------
(* fn: doRequest and the reading of the answer *)

Counted ==
    /\ runs' = runs + 1
    /\ late' = IF cancelled THEN late + 1 ELSE late

\* No answer: the network, the request timeout, a cancelled context, or a key
\* of zeroes, which is no valid header.
NoAnswer ==
    /\ pc = "run"
    /\ Counted
    /\ Fails("net")

\* A status other than 200: 429, 500 and 503 are retryable.
Refused(kind) ==
    /\ pc = "run"
    /\ ~cancelled /\ ~closed
    /\ Counted
    /\ Fails(kind)

BuggyFresh == got
Fresh == <<>>

\* Status 200: a stream of events, or the body of the same message.
Accepted(s) ==
    /\ pc = "run"
    /\ ~cancelled /\ ~closed
    /\ Counted
    /\ pc' = "reading"
    /\ stream' = s /\ got' = Fresh
    /\ UNCHANGED <<mode, attempt, backoff, delivered, outcome, cancelled, closed, waited, calls>>

\* The body of SendMessage is read and parsed at once.
ReadBody ==
    /\ pc = "reading" /\ mode = "send"
    /\ Succeeds
    /\ UNCHANGED resp

\* readStream handles one event.
ReadEvent ==
    /\ pc = "reading" /\ mode = "stream"
    /\ stream # <<>> /\ ~cancelled
    /\ stream' = Tail(stream)
    /\ IF Head(stream) = "text"
       THEN LET chunk == [try |-> attempt, at |-> Len(got) + 1]
            IN  got' = Append(got, chunk) /\ delivered' = Append(delivered, chunk)
       ELSE UNCHANGED <<got, delivered>>
    /\ UNCHANGED <<pc, mode, attempt, backoff, outcome, cancelled, closed, hist>>

\* The scanner meets the end of the stream: that is success.
StreamEnds ==
    /\ pc = "reading" /\ mode = "stream"
    /\ stream = <<>>
    /\ Succeeds
    /\ UNCHANGED resp

\* The connection breaks while the answer is read, or ctx is cancelled.
ReadFails ==
    /\ pc = "reading"
    /\ Fails("net")
    /\ UNCHANGED <<runs, late>>

ClientStep ==
    \/ Waited \/ WaitCancelled
    \/ NoAnswer
    \/ \E kind \in {"retryable", "fatal"} : Refused(kind)
    \/ \E s \in Streams : Accepted(s)
    \/ ReadBody \/ ReadEvent \/ StreamEnds \/ ReadFails

ClientNext ==
    \/ \E m \in {"send", "stream"} : Call(m)
    \/ Cancel
    \/ Close
    \/ ClientStep

ClientSpec == ClientInit /\ [][ClientNext]_clientVars

-----------------------------------------------------------------------------
(* Properties *)

\* Type invariant.
ClientTypeOK ==
    /\ pc \in {"idle", "run", "reading", "backoff"}
    /\ mode \in {"send", "stream"}
    /\ attempt \in 0..MaxRetries
    /\ backoff \in Nat /\ waited \in Nat
    /\ stream \in Seq(Events)
    /\ got \in Seq([try : 0..MaxRetries, at : Nat])
    /\ delivered \in Seq([try : 0..MaxRetries, at : Nat])
    /\ cancelled \in BOOLEAN /\ closed \in BOOLEAN
    /\ outcome \in {"none", "ok", "error"}
    /\ runs \in Nat /\ late \in Nat
    /\ calls \in 0..MaxCalls

\* Cancelling the context stops the retries: at most one more request is
\* attempted, the one whose wait was over at the same instant.
CancelStops == late <= 1

\* A response is built from one stream, the last: the text of a broken one is
\* not in it, and what onDelta was given last is the text of the response.
ResponseIsOneStream ==
    LET n == Len(delivered) - Len(got)
    IN  outcome = "ok" =>
          /\ \A i \in 1..Len(got) : got[i] = [try |-> attempt, at |-> i]
          /\ n >= 0 /\ got = SubSeq(delivered, n + 1, Len(delivered))

-----------------------------------------------------------------------------
(* What the comments say and the code does not do; see the run that expects *)
(* a violation.                                                             *)

\* client.go:270: withRetry "runs fn up to maxRetries times".  The loop of line
\* 275 counts the retries, not the runs, and a network failure, which line 295
\* says is retried once, goes round it like a status that is retryable.
RetryBudget == runs <= MaxRetries
=============================================================================
