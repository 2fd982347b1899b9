------------------------------ MODULE PipeIPC -------------------------------
(***************************************************************************)
(* The named pipe between winclaw --send and the service: Server and Send  *)
(* of internal/ipc/pipe.go, the handler of internal/service/service.go     *)
(* (makePipeHandler) and the loop of cmd/winclaw/main.go that prints what  *)
(* Send streams.  There is one instance of the pipe.  The steps of Windows *)
(* on it are modelled from how the code uses them: a client may open the   *)
(* instance after CreateNamedPipe and while ConnectNamedPipe waits,        *)
(* DisconnectNamedPipe throws away what the client has not read, and a     *)
(* closed end leaves the other one what is in the buffer.                  *)
(*                                                                         *)
(* A frame is one element of a buffer; a frame cut short ends a stream in  *)
(* the same way as a frame that is missing.                                *)
(***************************************************************************)
EXTENDS Naturals, Sequences, SequencesExt

CONSTANTS
    Clients,        \* runs of winclaw --send
    Big,            \* the clients whose request exceeds a frame (1 MiB)
    Cap,            \* frames the outbound buffer holds
    MaxChunks,      \* bound on the chunks of one answer
    None

ASSUME PipeAssumption ==
    /\ Big \subseteq Clients
    /\ Cap \in Nat \ {0} /\ MaxChunks \in Nat
    /\ None \notin Clients

VARIABLES
    inst,       \* the instance: fresh, listening, connected, disconnected, closed
    peer,       \* the client at its other end
    request,    \* the inbound buffer: None, or the client that wrote in it
    buffer,     \* the outbound buffer: chunks
    spc,        \* ServeForever: connect, waiting, handle, done
    hpc,        \* the handler: none, read, run, final, returned
    serving,    \* the client the handler was called for
    stopping,   \* the service has cancelled its context
    answer,     \* history: the chunks the handler wrote for each client
    cpc,        \* each client
    got         \* what Send put into its channel

server == <<spc, hpc, serving, stopping>>
pipe   == <<inst, peer, request, buffer>>
client == <<cpc, got>>
vars   == <<pipe, server, answer, client>>

\* The client has closed its handle: it is finished, or it was killed.
PeerOpen  == peer # None /\ cpc[peer] \in {"opened", "sending", "waiting"}
Connected == inst = "connected" /\ PeerOpen

Init ==
    /\ inst = "fresh"
    /\ spc = "connect"
    /\ peer = None
    /\ request = None
    /\ buffer = <<>>
    /\ hpc = "none"
    /\ serving = None
    /\ stopping = FALSE
    /\ answer = [c \in Clients |-> <<>>]
    /\ cpc = [c \in Clients |-> "idle"]
    /\ got = [c \in Clients |-> <<>>]

-----------------------------------------------------------------------------
(* ServeForever *)

\* ConnectNamedPipe begins to wait.
Connect ==
    /\ spc = "connect"
    /\ inst \in {"fresh", "disconnected"}
    /\ inst' = "listening"
    /\ spc' = "waiting"
    /\ UNCHANGED <<peer, request, buffer, hpc, serving, stopping, answer, client>>

\* It returns nil, or ERROR_PIPE_CONNECTED for a client that came before.  One
\* that came before and has left again makes it fail each time: the loop calls
\* it again and again, which changes nothing.
Accept ==
    /\ \/ spc = "waiting" /\ inst = "connected"
       \/ spc = "connect" /\ Connected
    /\ spc' = "handle"
    /\ UNCHANGED <<pipe, hpc, serving, stopping, answer, client>>

Handle ==
    /\ spc = "handle" /\ hpc = "none"
    /\ hpc' = "read"
    /\ serving' = peer
    /\ UNCHANGED <<pipe, spc, stopping, answer, client>>

Disconnected ==
    IF inst = "closed"
    THEN UNCHANGED pipe
    ELSE inst' = "disconnected" /\ peer' = None /\ request' = None /\ buffer' = <<>>

BuggyDisconnect ==
    /\ spc = "handle" /\ hpc # "none"
    /\ Disconnected
    /\ spc' = "connect"
    /\ UNCHANGED <<hpc, serving, stopping, answer, client>>

\* The handler has returned: disconnect, without flushing the buffer.
Disconnect ==
    /\ spc = "handle" /\ hpc = "returned"
    /\ Disconnected
    /\ hpc' = "none"
    /\ serving' = None
    /\ spc' = "connect"
    /\ UNCHANGED <<stopping, answer, client>>

\* ConnectNamedPipe fails on the closed handle.
Leave ==
    /\ spc \in {"connect", "waiting"}
    /\ inst = "closed"
    /\ spc' = "done"
    /\ UNCHANGED <<pipe, hpc, serving, stopping, answer, client>>

-----------------------------------------------------------------------------
(* makePipeHandler *)

\* WriteFrame waits for room as long as somebody may make some; its errors are
\* not looked at.
Write(done) ==
    LET chunk == [of |-> serving, n |-> Len(answer[serving]) + 1, done |-> done]
    IN  /\ Connected => Len(buffer) < Cap
        /\ buffer' = IF Connected THEN Append(buffer, chunk) ELSE buffer
        /\ answer' = [answer EXCEPT ![serving] = Append(@, chunk)]

\* The request is read whole and its session resolved.
ReadRequest ==
    /\ hpc = "read"
    /\ request \in Clients \ Big /\ inst # "closed"
    /\ request' = None
    /\ hpc' \in {"run", "final"}
    /\ UNCHANGED <<inst, peer, buffer, spc, serving, stopping, answer, client>>

BuggyAfterReadError == "read"
AfterReadError == "final"

\* The length is refused, or the client has gone, or the handle is closed.
ReadFails ==
    /\ hpc = "read"
    /\ \/ request \in Big
       \/ request = None /\ ~PeerOpen
       \/ inst = "closed"
    /\ hpc' = AfterReadError
    /\ UNCHANGED <<pipe, spc, serving, stopping, answer, client>>

\* Agent.Run calls onOutput, also for a client that has gone.
RunChunk ==
    /\ hpc = "run"
    /\ Len(answer[serving]) < MaxChunks
    /\ Write(FALSE)
    /\ UNCHANGED <<inst, peer, request, server, client>>

\* It returns, with an error when the service's context has been cancelled.
RunReturns ==
    /\ hpc = "run"
    /\ hpc' = "final"
    /\ UNCHANGED <<pipe, spc, serving, stopping, answer, client>>

Final ==
    /\ hpc = "final"
    /\ Write(TRUE)
    /\ hpc' = "returned"
    /\ UNCHANGED <<inst, peer, request, spc, serving, stopping, client>>

-----------------------------------------------------------------------------
(* The service stops: cancel, and then, deferred, Server.Close. *)

Stop ==
    /\ ~stopping
    /\ stopping' = TRUE
    /\ UNCHANGED <<pipe, spc, hpc, serving, answer, client>>

Close ==
    /\ stopping
    /\ inst # "closed"
    /\ inst' = "closed"
    /\ UNCHANGED <<peer, request, buffer, server, answer, client>>

-----------------------------------------------------------------------------
(* Send *)

Open(c) ==
    /\ cpc[c] = "idle"
    /\ inst \in {"fresh", "listening"}
    /\ inst' = "connected"
    /\ peer' = c
    /\ cpc' = [cpc EXCEPT ![c] = "opened"]
    /\ UNCHANGED <<request, buffer, server, answer, got>>

\* CreateFile fails: ERROR_PIPE_BUSY, or no such pipe.
OpenFails(c) ==
    /\ cpc[c] = "idle"
    /\ inst \notin {"fresh", "listening"}
    /\ cpc' = [cpc EXCEPT ![c] = "refused"]
    /\ UNCHANGED <<pipe, server, answer, got>>

\* The other end is gone.
Broken(c) == peer # c \/ inst = "closed"

\* WriteFrame: a request that no buffer holds waits to be read to its end.
SendRequest(c) ==
    /\ cpc[c] = "opened"
    /\ ~Broken(c)
    /\ request' = c
    /\ cpc' = [cpc EXCEPT ![c] = IF c \in Big THEN "sending" ELSE "waiting"]
    /\ UNCHANGED <<inst, peer, buffer, server, answer, got>>

SendFails(c) ==
    /\ cpc[c] \in {"opened", "sending"}
    /\ Broken(c)
    /\ cpc' = [cpc EXCEPT ![c] = "refused"]
    /\ UNCHANGED <<pipe, server, answer, got>>

Receive(c) ==
    /\ cpc[c] = "waiting"
    /\ peer = c /\ buffer # <<>>
    /\ got' = [got EXCEPT ![c] = Append(@, Head(buffer))]
    /\ buffer' = Tail(buffer)
    /\ cpc' = [cpc EXCEPT ![c] = IF Head(buffer).done THEN "closed" ELSE "waiting"]
    /\ UNCHANGED <<inst, peer, request, server, answer>>

Notice(c) == [of |-> c, n |-> 0, done |-> TRUE]

BuggyGivesUp(c) == UNCHANGED client
GivesUp(c) ==
    /\ got' = [got EXCEPT ![c] = Append(@, Notice(c))]
    /\ cpc' = [cpc EXCEPT ![c] = "closed"]

\* ReadFrame fails: a last chunk of the client's own says so.
ReceiveFails(c) ==
    /\ cpc[c] = "waiting"
    /\ peer # c \/ (inst = "closed" /\ buffer = <<>>)
    /\ GivesUp(c)
    /\ UNCHANGED <<pipe, server, answer>>

\* The process of the client is killed.
Die(c) ==
    /\ cpc[c] \in {"opened", "sending", "waiting"}
    /\ cpc' = [cpc EXCEPT ![c] = "gone"]
    /\ UNCHANGED <<pipe, server, answer, got>>

-----------------------------------------------------------------------------

ServerStep ==
    \/ Connect \/ Accept \/ Handle \/ Disconnect \/ Leave
    \/ ReadRequest \/ ReadFails \/ RunReturns \/ Final

ClientStep(c) ==
    \/ SendRequest(c) \/ SendFails(c) \/ Receive(c) \/ ReceiveFails(c)

Next ==
    \/ ServerStep
    \/ RunChunk
    \/ Stop \/ Close
    \/ \E c \in Clients : ClientStep(c) \/ Open(c) \/ OpenFails(c) \/ Die(c)

Spec == Init /\ [][Next]_vars

\* The service's goroutines and the clients go on; a run returns (its tool loop
\* and its API calls are bounded); a service that stops closes the pipe.
FairSpec ==
    /\ Spec
    /\ WF_vars(ServerStep)
    /\ WF_vars(Close)
    /\ \A c \in Clients : WF_vars(ClientStep(c))

-----------------------------------------------------------------------------
(* Properties *)

Chunk == [of : Clients, n : 0..MaxChunks + 1, done : BOOLEAN]

\* Type invariant; the loop handles a client exactly while its handler is there.
TypeOK ==
    /\ inst \in {"fresh", "listening", "connected", "disconnected", "closed"}
    /\ peer \in Clients \cup {None}
    /\ request \in Clients \cup {None}
    /\ buffer \in Seq(Chunk) /\ Len(buffer) <= Cap
    /\ spc \in {"connect", "waiting", "handle", "done"}
    /\ hpc \in {"none", "read", "run", "final", "returned"}
    /\ stopping \in BOOLEAN
    /\ cpc \in [Clients -> {"idle", "opened", "sending", "waiting", "closed", "refused", "gone"}]
    /\ answer \in [Clients -> Seq(Chunk)] /\ got \in [Clients -> Seq(Chunk)]
    /\ hpc # "none" => spc = "handle" /\ serving \in Clients
    /\ hpc \in {"run", "final", "returned"} => inst = "closed" \/ peer = serving

\* What a client is shown is the beginning of the answer to its own request,
\* chunk by chunk, and when it is over the whole of it or, last, the notice that
\* the stream broke: never a chunk of an earlier client's run and never a part
\* for the whole, whoever has come and gone on the instance.
OwnAnswerOnly ==
    \A c \in Clients :
       \/ /\ IsPrefix(got[c], answer[c])
          /\ cpc[c] = "closed" => got[c] = answer[c]
       \/ /\ got[c] # <<>> /\ Last(got[c]) = Notice(c)
          /\ IsPrefix(Front(got[c]), answer[c])

\* pipe.go on ServeForever: "accepts client connections in a loop".  After each
\* client, whatever it did, the loop comes back to wait for the next one.
ListensAgain == spc = "handle" ~> (spc = "waiting" \/ stopping)

\* A client that has sent its request is told an end, by the service or by its
\* own side, also when the service stops.
RequestEnds ==
    \A c \in Clients : cpc[c] = "waiting" ~> cpc[c] \in {"closed", "gone"}
=============================================================================
