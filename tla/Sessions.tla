------------------------------ MODULE Sessions ------------------------------
(***************************************************************************)
(* Sessions of internal/agent/session.go: a row of the sessions table and  *)
(* a directory on disk, which Create and Delete change in two steps.       *)
(* Around them, their callers: the terminal (its choice of a session at    *)
(* start in cmd/winclaw/main.go; /new, /switch, /delete in repl.go), the   *)
(* service's pipe handler (resolveSession in service.go), and the          *)
(* goroutines that work in a session nobody holds for them: scheduled runs *)
(* and the consolidation that a turn leaves behind.                        *)
(***************************************************************************)
EXTENDS Naturals, FiniteSets

CONSTANTS
    Ids,            \* session ids that Create may draw
    Terminals,      \* terminal processes
    Services,       \* service processes
    Runs,           \* goroutines: scheduled runs, consolidations
    HostOf,         \* HostOf[r]: the process goroutine r belongs to
    MaxClock,       \* bound on time, in seconds of last_active
    Failures,       \* TRUE: statements and file operations fail, processes die
    None

Hosts  == Terminals \cup Services
Actors == Hosts \cup Runs

ASSUME SessionsAssumption ==
    /\ Terminals \cap Services = {} /\ Hosts \cap Runs = {}
    /\ HostOf \in [Runs -> Hosts]
    /\ MaxClock \in Nat
    /\ Failures \in BOOLEAN
    /\ None \notin Ids

VARIABLES
    row,        \* row[i]: none, live (deleted = 0) or deleted
    lastActive, \* its last_active
    folder,     \* folder[i]: the session's directory exists
    clock,
    place,      \* where each actor is
    cur,        \* the session it works in
    tgt         \* the session it is creating or deleting

table == <<row, lastActive>>
sessionVars == <<row, lastActive, folder, clock, place, cur, tgt>>

Live == {i \in Ids : row[i] = "live"}

\* What List may return first: last_active has a resolution of one second.
Recent == {i \in Live : \A j \in Live : lastActive[j] <= lastActive[i]}

\* uuid.New: an id that nothing has been made of.
Fresh == {i \in Ids : row[i] = "none" /\ ~folder[i] /\ \A a \in Actors : tgt[a] # i}

SessionsInit ==
    /\ row = [i \in Ids |-> "none"]
    /\ lastActive = [i \in Ids |-> 0]
    /\ folder = [i \in Ids |-> FALSE]
    /\ clock = 0
    /\ place = [a \in Actors |-> IF a \in Terminals THEN "down" ELSE "idle"]
    /\ cur = [a \in Actors |-> None]
    /\ tgt = [a \in Actors |-> None]

Tick ==
    /\ clock < MaxClock
    /\ clock' = clock + 1
    /\ UNCHANGED <<row, lastActive, folder, place, cur, tgt>>

\* Actor a goes on at place p, in session i.
GoesTo(a, p, i) ==
    /\ place' = [place EXCEPT ![a] = p]
    /\ cur' = [cur EXCEPT ![a] = i]

\* Where a process goes when a statement of its Create fails: a terminal
\* at its start dies (fatalf), the service tells its client.
AfterFailure(a) ==
    IF a \in Services THEN "idle" ELSE IF cur[a] = None THEN "down" ELSE "up"

-----------------------------------------------------------------------------
(* Create: the directory, then the row. *)

BuggyCreateDir(a, mayCreate) ==
    /\ mayCreate
    /\ \E i \in Fresh : tgt' = [tgt EXCEPT ![a] = i]
    /\ place' = [place EXCEPT ![a] = "row"]
    /\ UNCHANGED <<table, folder, clock, cur>>

\* InitSession: the directory of a new id.
CreateDir(a, mayCreate) ==
    /\ mayCreate
    /\ \E i \in Fresh :
          /\ tgt' = [tgt EXCEPT ![a] = i]
          /\ folder' = [folder EXCEPT ![i] = TRUE]
    /\ place' = [place EXCEPT ![a] = "row"]
    /\ UNCHANGED <<table, clock, cur>>

\* INSERT; the session becomes the caller's.
CreateRow(a) ==
    /\ place[a] = "row"
    /\ row' = [row EXCEPT ![tgt[a]] = "live"]
    /\ lastActive' = [lastActive EXCEPT ![tgt[a]] = clock]
    /\ GoesTo(a, IF a \in Services THEN "serving" ELSE "up", tgt[a])
    /\ tgt' = [tgt EXCEPT ![a] = None]
    /\ UNCHANGED <<folder, clock>>

\* The INSERT fails: the directory stays.
CreateFails(a) ==
    /\ Failures
    /\ place[a] = "row"
    /\ place' = [place EXCEPT ![a] = AfterFailure(a)]
    /\ tgt' = [tgt EXCEPT ![a] = None]
    /\ UNCHANGED <<table, folder, clock, cur>>

-----------------------------------------------------------------------------
(* Delete: the flag, then the directory. *)

\* cmdDelete refuses the session it is in, by its id or a prefix of it.
BuggyMayDelete(t, i) == TRUE
MayDelete(t, i) == cur[t] # i

\* The UPDATE has no condition on deleted: a repeated /delete goes through, and
\* so removes a directory that is still there.
DeleteFlag(t, i) ==
    /\ place[t] = "up"
    /\ MayDelete(t, i)
    /\ row[i] # "none"
    /\ row' = [row EXCEPT ![i] = "deleted"]
    /\ tgt' = [tgt EXCEPT ![t] = i]
    /\ place' = [place EXCEPT ![t] = "rmdir"]
    /\ UNCHANGED <<lastActive, folder, clock, cur>>

DeleteDir(t) ==
    /\ place[t] = "rmdir"
    /\ folder' = [folder EXCEPT ![tgt[t]] = FALSE]
    /\ tgt' = [tgt EXCEPT ![t] = None]
    /\ place' = [place EXCEPT ![t] = "up"]
    /\ UNCHANGED <<table, clock, cur>>

\* A file of it is open: the error is shown, the row stays deleted.
DeleteDirFails(t) ==
    /\ Failures
    /\ place[t] = "rmdir"
    /\ tgt' = [tgt EXCEPT ![t] = None]
    /\ place' = [place EXCEPT ![t] = "up"]
    /\ UNCHANGED <<table, folder, clock, cur>>

-----------------------------------------------------------------------------
(* The terminal *)

\* --session <id>: Load.
StartLoad(t, i) ==
    /\ place[t] = "down"
    /\ i \in Live
    /\ GoesTo(t, "up", i)
    /\ UNCHANGED <<table, folder, clock, tgt>>

\* No --session: the most recent session.
StartRecent(t) ==
    /\ place[t] = "down"
    /\ \E i \in Recent : GoesTo(t, "up", i)
    /\ UNCHANGED <<table, folder, clock, tgt>>

\* ... or a first one.
StartCreate(t) == CreateDir(t, place[t] = "down" /\ Live = {})

New(t) == CreateDir(t, place[t] = "up")

\* /switch: the first of List whose id, name or prefix fits.
Switch(t, i) ==
    /\ place[t] = "up"
    /\ i \in Live
    /\ GoesTo(t, "up", i)
    /\ UNCHANGED <<table, folder, clock, tgt>>

\* The end of runAgent: UpdateLastActive.
Touch(t) ==
    /\ place[t] = "up"
    /\ cur[t] \in Live
    /\ lastActive' = [lastActive EXCEPT ![cur[t]] = clock]
    /\ UNCHANGED <<row, folder, clock, place, cur, tgt>>

\* The finished turn leaves maybeConsolidate behind in its session.
LeaveBehind(t, r) ==
    /\ place[t] = "up"
    /\ HostOf[r] = t /\ place[r] = "idle"
    /\ GoesTo(r, "serving", cur[t])
    /\ UNCHANGED <<table, folder, clock, tgt>>

-----------------------------------------------------------------------------
(* The service and the goroutines *)

\* resolveSession: Load takes an id; the request has one, or a name or nothing,
\* which no row has for its id (None).
ResolveLoad(s, req) ==
    /\ place[s] = "idle"
    /\ IF req \in Live
       THEN GoesTo(s, "serving", req)
       ELSE GoesTo(s, "listing", None)
    /\ UNCHANGED <<table, folder, clock, tgt>>

\* Load's error is not looked at: a database that is busy sends the request on
\* to the most recent session too.
ResolveLoadFails(s) ==
    /\ Failures
    /\ place[s] = "idle"
    /\ GoesTo(s, "listing", None)
    /\ UNCHANGED <<table, folder, clock, tgt>>

ResolveRecent(s) ==
    /\ place[s] = "listing"
    /\ \E i \in Recent : GoesTo(s, "serving", i)
    /\ UNCHANGED <<table, folder, clock, tgt>>

\* "service-default", when List returns nothing or fails.
ResolveCreate(s) == CreateDir(s, place[s] = "listing" /\ (Live = {} \/ Failures))

\* A scheduled run loads the session of its task.
RunLoads(r, i) ==
    /\ place[r] = "idle"
    /\ i \in Live
    /\ GoesTo(r, "serving", i)
    /\ UNCHANGED <<table, folder, clock, tgt>>

\* Append, Write or InitSession in the session of a turn: MkdirAll.
Remember(a) ==
    /\ place[a] \in {"up", "serving"}
    /\ folder' = [folder EXCEPT ![cur[a]] = TRUE]
    /\ UNCHANGED <<table, clock, place, cur, tgt>>

Finish(a) ==
    /\ a \notin Terminals
    /\ place[a] = "serving"
    /\ GoesTo(a, "idle", None)
    /\ UNCHANGED <<table, folder, clock, tgt>>

\* The process ends, in the middle of anything, and its goroutines with it.
HostDies(p) ==
    LET gone == {p} \cup {r \in Runs : HostOf[r] = p}
    IN  /\ Failures
        /\ place' = [a \in Actors |-> IF a \notin gone THEN place[a]
                                   ELSE IF a \in Terminals THEN "down" ELSE "idle"]
        /\ cur' = [a \in Actors |-> IF a \in gone THEN None ELSE cur[a]]
        /\ tgt' = [a \in Actors |-> IF a \in gone THEN None ELSE tgt[a]]
        /\ UNCHANGED <<table, folder, clock>>

TerminalStep(t) ==
    \/ StartRecent(t) \/ StartCreate(t)
    \/ New(t) \/ Touch(t)
    \/ DeleteDir(t) \/ DeleteDirFails(t)
    \/ \E i \in Ids : StartLoad(t, i) \/ Switch(t, i) \/ DeleteFlag(t, i)
    \/ \E r \in Runs : LeaveBehind(t, r)

ServiceStep(s) ==
    \/ \E req \in Ids \cup {None} : ResolveLoad(s, req)
    \/ ResolveLoadFails(s)
    \/ ResolveRecent(s)
    \/ ResolveCreate(s)

SessionsNext ==
    \/ Tick
    \/ \E t \in Terminals : TerminalStep(t)
    \/ \E s \in Services : ServiceStep(s)
    \/ \E r \in Runs, i \in Ids : RunLoads(r, i)
    \/ \E p \in Hosts : CreateRow(p) \/ CreateFails(p) \/ HostDies(p)
    \/ \E a \in Actors : Remember(a) \/ Finish(a)

SessionsSpec == SessionsInit /\ [][SessionsNext]_sessionVars

-----------------------------------------------------------------------------
(* Properties *)

\* Type invariant; an actor that works in a session has one, and a row that
\* another actor may see is not one still being made.
SessionsTypeOK ==
    /\ row \in [Ids -> {"none", "live", "deleted"}]
    /\ lastActive \in [Ids -> 0..MaxClock]
    /\ folder \in [Ids -> BOOLEAN]
    /\ clock \in 0..MaxClock
    /\ place \in [Actors -> {"down", "idle", "up", "row", "rmdir", "listing", "serving"}]
    /\ cur \in [Actors -> Ids \cup {None}]
    /\ tgt \in [Actors -> Ids \cup {None}]
    /\ \A a \in Actors :
          /\ place[a] \in {"up", "serving", "rmdir"} => cur[a] # None
          /\ place[a] \in {"row", "rmdir"} <=> tgt[a] # None

\* A session that List or Load returns has its directory, whatever crash or
\* failure came between the two steps of a Create or a Delete and whoever else
\* was at work: Create makes the directory first, Delete takes it last.
LiveHasDir == \A i \in Live : folder[i]

\* A terminal never works in a session that has been deleted, as long as it is
\* the only terminal: /delete refuses the active session, and the service and
\* the scheduler never delete.
CurrentIsLive ==
    \A t \in Terminals : place[t] \in {"up", "row", "rmdir"} /\ cur[t] # None
                            => row[cur[t]] = "live"
=============================================================================
