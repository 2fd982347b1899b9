---------------------------- MODULE PipeIPCProofs ----------------------------
(***************************************************************************)
(* PipeIPC: whoever comes and goes on the pipe's one instance, and however *)
(* the service ends, a client is shown nothing but the answer to its own   *)
(* request, for any clients, capacity of the pipe and length of answers.   *)
(***************************************************************************)
EXTENDS PipeIPC, TLAPS

\* An instance nobody has opened, or that was disconnected, is empty; what a
\* client left behind lies in the buffer until the handler has returned.
Instance ==
    /\ inst \in {"fresh", "listening", "disconnected"} => peer = None
    /\ inst = "connected" => peer # None
    /\ peer = None => buffer = <<>> /\ request = None

\* The handler serves the client at the other end, whether it is there or not,
\* and has not answered it before.  ServeForever calls it for a client that has
\* connected.
Serves ==
    /\ spc = "waiting" => inst \in {"listening", "connected", "closed"}
    /\ spc = "handle" => inst \in {"connected", "closed"} /\ peer # None
    /\ hpc = "none" => serving = None
    /\ hpc # "none" => serving = peer
    /\ hpc = "none" /\ inst = "connected" => answer[peer] = <<>>
    /\ hpc = "none" /\ spc = "handle" => answer[peer] = <<>>
    /\ hpc \in {"read", "run", "final"} => Len(answer[peer]) <= MaxChunks

\* A client opens the instance once, and the stream it has read and the stream
\* in the buffer are together the beginning of its answer: the whole of it as
\* long as both ends are open.
Streams ==
    \A c \in Clients :
       /\ cpc[c] = "idle" => peer # c /\ answer[c] = <<>>
       /\ cpc[c] \in {"idle", "opened", "sending", "refused"} => got[c] = <<>>
       /\ cpc[c] \in {"opened", "sending", "waiting"} =>
             /\ IsPrefix(got[c], answer[c])
             /\ peer = c => IsPrefix(got[c] \o buffer, answer[c])
             /\ peer = c /\ inst = "connected" => got[c] \o buffer = answer[c]

\* The chunk that ends an answer is the last the handler writes for its client,
\* and a client stops reading after one.
Ends ==
    \A c \in Clients :
       /\ \A i \in 1..Len(answer[c]) :
             answer[c][i].done =>
                i = Len(answer[c]) /\ ~(serving = c /\ hpc \in {"read", "run", "final"})
       /\ cpc[c] = "closed" => got[c] # <<>> /\ Last(got[c]).done

PInv == TypeOK /\ Instance /\ Serves /\ Streams /\ Ends /\ OwnAnswerOnly

-----------------------------------------------------------------------------
(* Sequences and their prefixes *)

LEMMA PrefixIs ==
    ASSUME NEW S, NEW s \in Seq(S), NEW t \in Seq(S)
    PROVE  IsPrefix(s, t) <=> Len(s) <= Len(t) /\ \A i \in 1..Len(s) : s[i] = t[i]
<1>1. ASSUME Len(s) <= Len(t)
      PROVE  SubSeq(s, 1, Len(s)) = SubSeq(t, 1, Len(s)) <=> \A i \in 1..Len(s) : s[i] = t[i]
  <2>1. Len(s) \in Nat /\ Len(t) \in Nat
    OBVIOUS
  <2>2. SubSeq(s, 1, Len(s)) = [i \in 1..Len(s) |-> s[i]]
    BY <1>1
  <2>3. SubSeq(t, 1, Len(s)) = [i \in 1..Len(s) |-> t[i]]
    BY <1>1
  <2> QED
    BY <2>2, <2>3
<1> QED
  BY <1>1 DEF IsPrefix

\* What has been read stays the beginning of an answer that goes on.
LEMMA PrefixAppend ==
    ASSUME NEW S, NEW s \in Seq(S), NEW t \in Seq(S), NEW x \in S, IsPrefix(s, t)
    PROVE  IsPrefix(s, Append(t, x))
<1> DEFINE u == Append(t, x)
<1>1. /\ u \in Seq(S) /\ Len(u) = Len(t) + 1 /\ Len(t) \in Nat
      /\ \A i \in 1..Len(t) : u[i] = t[i]
  OBVIOUS
<1> HIDE DEF u
<1>2. Len(s) \in Nat /\ Len(s) <= Len(t) /\ \A i \in 1..Len(s) : s[i] = t[i]
  BY PrefixIs
<1>3. \A i \in 1..Len(s) : s[i] = u[i]
  BY <1>1, <1>2
<1>4. IsPrefix(s, u)
  BY <1>1, <1>2, <1>3, PrefixIs
<1> QED
  BY <1>4 DEF u

LEMMA PrefixSelf == ASSUME NEW S, NEW s \in Seq(S) PROVE IsPrefix(s, s)
BY PrefixIs

LEMMA PrefixFirst ==
    ASSUME NEW S, NEW g \in Seq(S), NEW b \in Seq(S), NEW t \in Seq(S), IsPrefix(g \o b, t)
    PROVE  IsPrefix(g, t)
<1> DEFINE u == g \o b
<1>1. /\ u \in Seq(S) /\ Len(u) = Len(g) + Len(b) /\ Len(g) \in Nat /\ Len(b) \in Nat
      /\ \A i \in 1..Len(g) : u[i] = g[i]
  OBVIOUS
<1>2. IsPrefix(u, t)
  OBVIOUS
<1> HIDE DEF u
<1>3. Len(u) <= Len(t) /\ \A i \in 1..Len(u) : u[i] = t[i]
  BY <1>1, <1>2, PrefixIs
<1>4. Len(g) <= Len(t) /\ \A i \in 1..Len(g) : g[i] = t[i]
  BY <1>1, <1>3
<1> QED
  BY <1>4, PrefixIs

\* A chunk that goes from the buffer to the client stays in its place.
LEMMA MoveHead ==
    ASSUME NEW S, NEW g \in Seq(S), NEW b \in Seq(S), b # <<>>
    PROVE  /\ Append(g, Head(b)) \in Seq(S) /\ Tail(b) \in Seq(S) /\ Head(b) \in S
           /\ Len(Tail(b)) <= Len(b)
           /\ Append(g, Head(b)) \o Tail(b) = g \o b
OBVIOUS

LEMMA FrontAppend ==
    ASSUME NEW S, NEW g \in Seq(S), NEW x \in S
    PROVE  /\ Append(g, x) # <<>>
           /\ Front(Append(g, x)) = g /\ Last(Append(g, x)) = x
BY DEF Front, Last

-----------------------------------------------------------------------------
(* The steps *)

LEMMA PipeInit == Init => PInv
<1> SUFFICES ASSUME Init PROVE PInv
  OBVIOUS
<1>0. <<>> \in Seq(Chunk) /\ Len(<<>>) = 0
  OBVIOUS
<1>1. IsPrefix(<<>>, <<>>)
  BY <1>0, PrefixSelf
<1>2. TypeOK
  <2>1. buffer \in Seq(Chunk) /\ Len(buffer) <= Cap
    BY <1>0, PipeAssumption DEF PipeAssumption, Init
  <2>2. answer \in [Clients -> Seq(Chunk)] /\ got \in [Clients -> Seq(Chunk)]
    BY <1>0 DEF Init
  <2> QED
    BY <2>1, <2>2 DEF Init, TypeOK
<1>3. Instance /\ Serves
  BY DEF Init, Instance, Serves
<1>4. Streams
  BY PipeAssumption DEF PipeAssumption, Init, Streams
<1>5. OwnAnswerOnly /\ Ends
  BY <1>0, <1>1 DEF Init, OwnAnswerOnly, Ends
<1> QED
  BY <1>2, <1>3, <1>4, <1>5 DEF PInv

\* A step that moves no chunk and opens no pipe.
LEMMA StreamsStay ==
    ASSUME PInv, UNCHANGED <<buffer, peer, answer, client>>, inst' \in {inst, "listening", "closed"}
    PROVE  Streams' /\ OwnAnswerOnly'
BY DEF PInv, Streams, OwnAnswerOnly, client

\* A chunk the handler writes, to the buffer while somebody is there to read it.
LEMMA Writes ==
    ASSUME PInv, NEW done \in BOOLEAN, Write(done), hpc \in {"run", "final"},
           Len(answer[serving]) <= MaxChunks, done => hpc' = "returned",
           UNCHANGED <<inst, peer, serving, client>>
    PROVE  /\ buffer' \in Seq(Chunk) /\ Len(buffer') <= Cap
           /\ answer' \in [Clients -> Seq(Chunk)]
           /\ peer \in Clients /\ Len(answer'[peer]) = Len(answer[peer]) + 1
           /\ Streams' /\ Ends' /\ OwnAnswerOnly'
<1> DEFINE chunk == [of |-> serving, n |-> Len(answer[serving]) + 1, done |-> done]
<1>1. peer \in Clients /\ serving = peer /\ inst \in {"connected", "closed"} /\ MaxChunks \in Nat
  BY PipeAssumption DEF PipeAssumption, PInv, TypeOK, Serves
<1>2. chunk \in Chunk
  BY <1>1 DEF PInv, TypeOK, Chunk
<1> HIDE DEF chunk
<1>3. /\ answer' = [answer EXCEPT ![peer] = Append(@, chunk)]
      /\ buffer' = IF Connected THEN Append(buffer, chunk) ELSE buffer
      /\ Connected => Len(buffer) < Cap
  BY <1>1 DEF Write, chunk
<1>4. /\ buffer' \in Seq(Chunk) /\ Len(buffer') <= Cap
      /\ answer' \in [Clients -> Seq(Chunk)]
      /\ Len(answer'[peer]) = Len(answer[peer]) + 1
  BY <1>1, <1>2, <1>3, PipeAssumption DEF PipeAssumption, PInv, TypeOK
<1>5. \A c \in Clients : /\ answer[c] \in Seq(Chunk) /\ got[c] \in Seq(Chunk)
                         /\ \A s \in Seq(Chunk) : IsPrefix(s, answer[c]) => IsPrefix(s, answer'[c])
  BY <1>1, <1>2, <1>3, PrefixAppend DEF PInv, TypeOK
<1>6. ASSUME NEW c \in Clients, cpc[c] = "closed", got[c] = answer[c] PROVE c # peer
  <2>1. got[c] # <<>> /\ got[c][Len(got[c])].done /\ Len(got[c]) \in 1..Len(got[c])
    BY <1>5, <1>6 DEF PInv, Ends, Last
  <2> QED
    BY <1>1, <1>6, <2>1 DEF PInv, Ends
<1>7. OwnAnswerOnly'
  <2> SUFFICES ASSUME NEW c \in Clients
               PROVE  \/ /\ IsPrefix(got[c], answer'[c])
                         /\ cpc[c] = "closed" => got[c] = answer'[c]
                      \/ /\ got[c] # <<>> /\ Last(got[c]) = Notice(c)
                         /\ IsPrefix(Front(got[c]), answer'[c])
    BY DEF OwnAnswerOnly, client, Notice
  <2>1. CASE IsPrefix(got[c], answer[c]) /\ (cpc[c] = "closed" => got[c] = answer[c])
    <3>1. IsPrefix(got[c], answer'[c])
      BY <1>5, <2>1
    <3>2. c # peer => answer'[c] = answer[c]
      BY <1>1, <1>3 DEF PInv, TypeOK
    <3> QED
      BY <1>6, <2>1, <3>1, <3>2
  <2>2. CASE got[c] # <<>> /\ Last(got[c]) = Notice(c) /\ IsPrefix(Front(got[c]), answer[c])
    <3>1. Front(got[c]) \in Seq(Chunk)
      BY <1>5, <2>2 DEF Front
    <3> QED
      BY <1>5, <2>2, <3>1
  <2> QED
    BY <2>1, <2>2 DEF PInv, OwnAnswerOnly
<1>8. Streams'
  <2> SUFFICES ASSUME NEW c \in Clients
               PROVE  /\ cpc[c] = "idle" => peer # c /\ answer'[c] = <<>>
                      /\ cpc[c] \in {"idle", "opened", "sending", "refused"} => got[c] = <<>>
                      /\ cpc[c] \in {"opened", "sending", "waiting"} =>
                            /\ IsPrefix(got[c], answer'[c])
                            /\ peer = c => IsPrefix(got[c] \o buffer', answer'[c])
                            /\ peer = c /\ inst = "connected" => got[c] \o buffer' = answer'[c]
    BY DEF Streams, client
  <2>1. CASE c # peer
    <3>1. answer'[c] = answer[c]
      BY <1>1, <1>3, <2>1 DEF PInv, TypeOK
    <3> QED
      BY <2>1, <3>1 DEF PInv, Streams
  <2>2. CASE c = peer
    <3>1. answer'[c] = Append(answer[c], chunk) /\ cpc[c] # "idle"
      BY <1>1, <1>3, <2>2 DEF PInv, TypeOK, Streams
    <3>2. ASSUME cpc[c] \in {"opened", "sending", "waiting"}
          PROVE  /\ IsPrefix(got[c], answer'[c])
                 /\ IsPrefix(got[c] \o buffer', answer'[c])
                 /\ inst = "connected" => got[c] \o buffer' = answer'[c]
      <4>1. /\ IsPrefix(got[c], answer[c]) /\ IsPrefix(got[c] \o buffer, answer[c])
            /\ inst = "connected" => got[c] \o buffer = answer[c]
        BY <2>2, <3>2 DEF PInv, Streams
      <4>2. IsPrefix(got[c], answer'[c])
        BY <1>5, <4>1
      <4>3. CASE Connected
        <5>1. got[c] \o Append(buffer, chunk) = Append(got[c] \o buffer, chunk)
          BY <1>2, <1>5 DEF PInv, TypeOK
        <5>2. got[c] \o buffer' = answer'[c]
          BY <1>3, <3>1, <4>1, <4>3, <5>1 DEF Connected
        <5> QED
          BY <1>4, <4>2, <5>2, PrefixSelf
      <4>4. CASE ~Connected
        <5>1. inst # "connected" /\ buffer' = buffer
          BY <1>1, <1>3, <2>2, <3>2, <4>4, PipeAssumption DEF PipeAssumption, Connected, PeerOpen
        <5>2. got[c] \o buffer \in Seq(Chunk)
          BY <1>5 DEF PInv, TypeOK
        <5> QED
          BY <1>5, <4>1, <4>2, <5>1, <5>2
      <4> QED
        BY <4>3, <4>4
    <3> QED
      BY <3>1, <3>2, <2>2 DEF PInv, Streams
  <2> QED
    BY <2>1, <2>2
<1>9. Ends'
  <2>1. chunk.done = done
    BY DEF chunk
  <2> SUFFICES ASSUME NEW c \in Clients, NEW i \in 1..Len(answer'[c]), answer'[c][i].done
               PROVE  i = Len(answer'[c]) /\ ~(serving = c /\ hpc' \in {"read", "run", "final"})
    BY DEF PInv, Ends, client
  <2>2. CASE c # peer
    <3>1. answer'[c] = answer[c] /\ serving # c
      BY <1>1, <1>3, <2>2 DEF PInv, TypeOK
    <3> QED
      BY <3>1 DEF PInv, Ends
  <2>3. CASE c = peer
    <3>1. answer'[c] = Append(answer[c], chunk)
      BY <1>1, <1>3, <2>3 DEF PInv, TypeOK
    <3>2. \A k \in 1..Len(answer[c]) : ~answer[c][k].done
      BY <1>1, <2>3 DEF PInv, Ends
    <3>3. i = Len(answer[c]) + 1 /\ answer'[c][i] = chunk
      BY <1>2, <1>5, <3>1, <3>2
    <3> QED
      BY <1>2, <1>5, <2>1, <3>1, <3>3
  <2> QED
    BY <2>2, <2>3
<1> QED
  BY <1>1, <1>4, <1>7, <1>8, <1>9

LEMMA PipeStep == PInv /\ [Next]_vars => PInv'
<1> SUFFICES ASSUME PInv, [Next]_vars PROVE PInv'
  OBVIOUS
<1>0. None \notin Clients /\ Cap \in Nat /\ MaxChunks \in Nat /\ Big \subseteq Clients
  BY PipeAssumption DEF PipeAssumption
<1>1. CASE Connect \/ Accept \/ Handle \/ Leave \/ ReadRequest \/ ReadFails \/ RunReturns \/ Stop \/ Close
  <2>1. /\ UNCHANGED <<buffer, peer, answer, client>>
        /\ inst' \in {inst, "listening", "closed"}
    BY <1>1 DEF Connect, Accept, Handle, Leave, ReadRequest, ReadFails, RunReturns, Stop, Close,
                pipe, server
  <2>2. Streams' /\ OwnAnswerOnly'
    BY <2>1, StreamsStay
  <2>3. TypeOK'
    BY <1>0, <1>1, <2>1
       DEF Connect, Accept, Handle, Leave, ReadRequest, ReadFails, RunReturns, Stop, Close,
           AfterReadError, Connected, PeerOpen, pipe, server, client, PInv, TypeOK, Serves, Instance
  <2>4. Instance'
    BY <1>1, <2>1
       DEF Connect, Accept, Handle, Leave, ReadRequest, ReadFails, RunReturns, Stop, Close,
           pipe, server, PInv, Instance
  <2>5. Serves'
    BY <1>0, <1>1, <2>1
       DEF Connect, Accept, Handle, Leave, ReadRequest, ReadFails, RunReturns, Stop, Close,
           AfterReadError, Connected, PeerOpen, pipe, server, client, PInv, TypeOK, Serves, Instance
  <2>6. Ends'
    BY <1>1, <2>1, <2>5
       DEF Connect, Accept, Handle, Leave, ReadRequest, ReadFails, RunReturns, Stop, Close,
           server, client, PInv, Serves, Ends
  <2> QED
    BY <2>2, <2>3, <2>4, <2>5, <2>6 DEF PInv
<1>2. CASE Disconnect
  <2>1. /\ \/ UNCHANGED pipe /\ inst = "closed"
           \/ inst' = "disconnected" /\ peer' = None /\ request' = None /\ buffer' = <<>>
        /\ hpc' = "none" /\ serving' = None /\ spc' = "connect"
        /\ UNCHANGED <<stopping, answer, client>>
    BY <1>2 DEF Disconnect, Disconnected
  <2>2. <<>> \in Seq(Chunk) /\ Len(<<>>) = 0
    OBVIOUS
  <2>3. TypeOK'
    <3>1. CASE UNCHANGED pipe
      BY <2>1, <3>1 DEF pipe, client, PInv, TypeOK
    <3>2. CASE inst' = "disconnected" /\ peer' = None /\ request' = None /\ buffer' = <<>>
      <4>1. buffer' \in Seq(Chunk) /\ Len(buffer') <= Cap
        BY <1>0, <2>2, <3>2
      <4> QED
        BY <2>1, <3>2, <4>1 DEF client, PInv, TypeOK
    <3> QED
      BY <2>1, <3>1, <3>2
  <2>4. Instance' /\ Serves'
    BY <1>0, <2>1 DEF pipe, PInv, Instance, Serves
  <2>5. Streams'
    BY <1>0, <2>1 DEF pipe, client, PInv, Streams
  <2>6. Ends'
    BY <2>1 DEF client, PInv, Ends
  <2> QED
    BY <2>1, <2>3, <2>4, <2>5, <2>6 DEF client, PInv, OwnAnswerOnly
<1>3. CASE RunChunk \/ Final
  <2>1. PICK done \in BOOLEAN : Write(done) /\ (done => hpc' = "returned")
    BY <1>3 DEF RunChunk, Final
  <2>2. /\ hpc \in {"run", "final"} /\ Len(answer[serving]) <= MaxChunks
        /\ UNCHANGED <<inst, peer, request, spc, serving, stopping, client>>
        /\ \/ hpc' = hpc /\ Len(answer[serving]) < MaxChunks
           \/ hpc' = "returned"
    BY <1>3 DEF RunChunk, Final, server, PInv, Serves
  <2>3. /\ buffer' \in Seq(Chunk) /\ Len(buffer') <= Cap
        /\ answer' \in [Clients -> Seq(Chunk)]
        /\ peer \in Clients /\ Len(answer'[peer]) = Len(answer[peer]) + 1
        /\ Streams' /\ Ends' /\ OwnAnswerOnly'
    BY <2>1, <2>2, Writes
  <2>4. TypeOK'
    BY <2>2, <2>3 DEF PInv, TypeOK, client
  <2>5. Instance' /\ Serves'
    BY <1>0, <2>2, <2>3 DEF PInv, TypeOK, Instance, Serves
  <2> QED
    BY <2>3, <2>4, <2>5 DEF PInv
<1>4. ASSUME NEW c \in Clients, Open(c) PROVE PInv'
  <2>1. /\ peer = None /\ buffer = <<>> /\ got[c] = <<>> /\ answer[c] = <<>>
        /\ spc \in {"connect", "waiting", "done"} /\ hpc = "none"
    BY <1>4 DEF Open, PInv, TypeOK, Instance, Serves, Streams
  <2>2. IsPrefix(got[c], answer[c]) /\ got[c] \o buffer = answer[c]
    BY <2>1, PrefixSelf DEF PInv, TypeOK
  <2>3. Streams'
    BY <1>0, <1>4, <2>1, <2>2 DEF Open, PInv, TypeOK, Streams
  <2>4. TypeOK' /\ Instance' /\ Serves'
    BY <1>0, <1>4, <2>1 DEF Open, PInv, TypeOK, Instance, Serves, server
  <2>5. Ends' /\ OwnAnswerOnly'
    BY <1>4 DEF Open, server, PInv, TypeOK, Ends, OwnAnswerOnly
  <2> QED
    BY <2>3, <2>4, <2>5 DEF PInv
<1>5. ASSUME NEW c \in Clients, OpenFails(c) \/ SendRequest(c) \/ SendFails(c) \/ Die(c) PROVE PInv'
  <2>1. /\ UNCHANGED <<inst, peer, buffer, server, answer, got>>
        /\ request' \in {request, c}
        /\ request' # request => peer = c
        /\ \E s \in {"refused", "sending", "waiting", "gone"} :
              /\ cpc' = [cpc EXCEPT ![c] = s]
              /\ s = "refused" => got[c] = <<>>
              /\ s \in {"sending", "waiting"} => cpc[c] = "opened"
    BY <1>5 DEF OpenFails, SendRequest, SendFails, Die, Broken, pipe, PInv, Streams
  <2>2. TypeOK'
    BY <1>5, <2>1 DEF PInv, TypeOK, server
  <2>3. Instance'
    BY <1>0, <1>5, <2>1 DEF PInv, Instance
  <2>4. Serves'
    BY <2>1 DEF PInv, Serves, server
  <2>5. Streams'
    BY <2>1 DEF PInv, TypeOK, Streams
  <2>6. Ends' /\ OwnAnswerOnly'
    BY <2>1 DEF server, PInv, TypeOK, Ends, OwnAnswerOnly
  <2> QED
    BY <2>2, <2>3, <2>4, <2>5, <2>6 DEF PInv
<1>6. ASSUME NEW c \in Clients, Receive(c) PROVE PInv'
  <2>1. /\ got[c] \in Seq(Chunk) /\ buffer \in Seq(Chunk) /\ answer[c] \in Seq(Chunk)
        /\ buffer # <<>> /\ peer = c /\ cpc[c] = "waiting"
        /\ IsPrefix(got[c] \o buffer, answer[c])
        /\ inst = "connected" => got[c] \o buffer = answer[c]
    BY <1>6 DEF Receive, PInv, TypeOK, Streams
  <2>2. /\ Append(got[c], Head(buffer)) \in Seq(Chunk)
        /\ Tail(buffer) \in Seq(Chunk) /\ Len(Tail(buffer)) <= Cap
        /\ Append(got[c], Head(buffer)) \o Tail(buffer) = got[c] \o buffer
    BY <1>0, <2>1, MoveHead DEF PInv, TypeOK
  <2>3. /\ got' = [got EXCEPT ![c] = Append(got[c], Head(buffer))] /\ buffer' = Tail(buffer)
        /\ cpc' = [cpc EXCEPT ![c] = IF Head(buffer).done THEN "closed" ELSE "waiting"]
        /\ UNCHANGED <<inst, peer, request, server, answer>>
    BY <1>6 DEF Receive, PInv, TypeOK
  <2>4. got'[c] = Append(got[c], Head(buffer)) /\ got'[c] \o buffer' = got[c] \o buffer
    BY <2>2, <2>3 DEF PInv, TypeOK
  <2>5. IsPrefix(got'[c], answer[c])
    BY <2>1, <2>2, <2>3, <2>4, PrefixFirst
  <2>6. TypeOK' /\ Instance' /\ Serves'
    BY <1>0, <2>1, <2>2, <2>3 DEF PInv, TypeOK, Instance, Serves, server
  <2>7. Streams'
    BY <2>1, <2>3, <2>4, <2>5 DEF PInv, TypeOK, Streams
  <2>8. got'[c] # <<>> /\ Last(got'[c]) = Head(buffer) /\ got'[c] \in Seq(Chunk)
    <3>1. Head(buffer) \in Chunk
      BY <2>1, MoveHead
    <3> QED
      BY <2>1, <2>2, <2>4, <3>1, FrontAppend
  <2>9. Ends'
    BY <2>3, <2>8 DEF PInv, TypeOK, server, Ends
  <2>10. Head(buffer).done => got'[c] = answer[c]
    <3>1. /\ Len(got'[c]) \in 1..Len(answer[c])
          /\ \A i \in 1..Len(got'[c]) : got'[c][i] = answer[c][i]
      BY <2>1, <2>5, <2>8, PrefixIs
    <3>2. answer[c][Len(got'[c])] = Head(buffer)
      BY <2>8, <3>1 DEF Last
    <3>3. Head(buffer).done => Len(got'[c]) = Len(answer[c])
      BY <3>1, <3>2 DEF PInv, Ends
    <3> QED
      BY <2>1, <2>8, <3>1, <3>3
  <2>11. OwnAnswerOnly'
    BY <2>3, <2>5, <2>10 DEF PInv, TypeOK, OwnAnswerOnly, Notice
  <2> QED
    BY <2>6, <2>7, <2>9, <2>11 DEF PInv
<1>7. ASSUME NEW c \in Clients, ReceiveFails(c) PROVE PInv'
  <2>1. /\ got' = [got EXCEPT ![c] = Append(got[c], Notice(c))]
        /\ cpc' = [cpc EXCEPT ![c] = "closed"] /\ cpc[c] = "waiting"
        /\ UNCHANGED <<inst, peer, request, buffer, server, answer>>
    BY <1>7 DEF ReceiveFails, GivesUp, pipe, PInv, TypeOK
  <2>2. Notice(c) \in Chunk
    BY <1>0 DEF Notice, Chunk
  <2>3. /\ got[c] \in Seq(Chunk) /\ Append(got[c], Notice(c)) \in Seq(Chunk)
        /\ got'[c] = Append(got[c], Notice(c))
    BY <2>1, <2>2 DEF PInv, TypeOK
  <2>4. got'[c] # <<>> /\ Last(got'[c]) = Notice(c) /\ Front(got'[c]) = got[c]
    BY <2>2, <2>3, FrontAppend
  <2>5. IsPrefix(got[c], answer[c])
    BY <2>1 DEF PInv, Streams
  <2>6. TypeOK' /\ Instance' /\ Serves'
    BY <2>1, <2>3 DEF PInv, TypeOK, Instance, Serves, server
  <2>7. Streams'
    BY <2>1 DEF PInv, TypeOK, Streams
  <2>8. OwnAnswerOnly'
    BY <2>1, <2>4, <2>5 DEF PInv, TypeOK, OwnAnswerOnly, Notice
  <2>9. Ends'
    BY <2>1, <2>4 DEF PInv, TypeOK, server, Ends, Notice
  <2> QED
    BY <2>6, <2>7, <2>8, <2>9 DEF PInv
<1>8. CASE UNCHANGED vars
  BY <1>8 DEF vars, pipe, server, client, PInv, TypeOK, Instance, Serves, Streams, Ends,
            OwnAnswerOnly
<1> QED
  BY <1>1, <1>2, <1>3, <1>4, <1>5, <1>6, <1>7, <1>8 DEF Next, ServerStep, ClientStep

\* The instance, its handler and its clients stay together.
THEOREM PipeInvariance == Spec => []PInv
BY PipeInit, PipeStep, PTL DEF Spec

\* Send and makePipeHandler: a client is shown the beginning of the answer to
\* its own request and then at most a notice, whoever was there before it, died
\* or came while the service stopped.
THEOREM OwnAnswer == Spec => []OwnAnswerOnly
<1>1. PInv => OwnAnswerOnly
  BY DEF PInv
<1> QED
  BY <1>1, PipeInvariance, PTL

\* The pipe stays well formed: the loop handles a client exactly while its
\* handler is there, and the handler's client is the one at the other end.
THEOREM PipeTypes == Spec => []TypeOK
<1>1. PInv => TypeOK
  BY DEF PInv
<1> QED
  BY <1>1, PipeInvariance, PTL
=============================================================================
