--------------------------- MODULE SessionsProofs ---------------------------
(* Proofs about Sessions, for any sets of ids, processes and goroutines. *)
EXTENDS Sessions, TLAPS

\* One terminal at a time: the assumption of CurrentIsLive.
OneTerminal == \A t, u \in Terminals : t = u

\* What makes LiveHasDir inductive: a session that is being created has its
\* directory and no row yet, two creations are of different sessions, and a
\* directory is removed only after its row has been flagged.
Making ==
    \A a \in Actors : place[a] = "row" =>
        /\ row[tgt[a]] = "none"
        /\ folder[tgt[a]]
        /\ \A b \in Actors : place[b] = "row" /\ tgt[b] = tgt[a] => a = b

Removing == \A a \in Actors : place[a] = "rmdir" => row[tgt[a]] = "deleted"

IInv == SessionsTypeOK /\ LiveHasDir /\ Making /\ Removing

\* Initially there are no rows.
LEMMA InitIInv == SessionsInit => IInv
  BY SessionsAssumption DEF SessionsInit, IInv, SessionsTypeOK, LiveHasDir, Live, Making, Removing, Actors

\* The first step of every Create.
LEMMA CreateDirKeeps ==
    ASSUME IInv, NEW a \in Actors, NEW c \in BOOLEAN, CreateDir(a, c),
           place[a] \in {"down", "up", "listing"}
    PROVE  IInv'
<1>1. SessionsTypeOK'
  BY DEF IInv, SessionsTypeOK, CreateDir, Fresh, table
<1>2. LiveHasDir'
  BY DEF IInv, SessionsTypeOK, LiveHasDir, Live, CreateDir, table
<1>3. Making'
  BY DEF IInv, SessionsTypeOK, Making, CreateDir, Fresh, table
<1>4. Removing'
  BY DEF IInv, SessionsTypeOK, Removing, CreateDir, Fresh, table
<1>5. QED
  BY <1>1, <1>2, <1>3, <1>4 DEF IInv

\* A step that only moves an actor between places where nothing is created or
\* deleted.
LEMMA MovesKeep ==
    ASSUME IInv, NEW a \in Actors, NEW i \in Ids \cup {None},
           NEW p \in {"idle", "up", "listing", "serving"},
           GoesTo(a, p, i), p \in {"up", "serving"} => i # None,
           place[a] \notin {"row", "rmdir"},
           UNCHANGED <<table, folder, clock, tgt>>
    PROVE  IInv'
<1>1. SessionsTypeOK'
  BY DEF IInv, SessionsTypeOK, GoesTo, table
<1>2. LiveHasDir' /\ Making' /\ Removing'
  BY DEF IInv, SessionsTypeOK, LiveHasDir, Live, Making, Removing, GoesTo, table
<1>3. QED
  BY <1>1, <1>2 DEF IInv

\* Every step of the terminals, the services and the goroutines.
LEMMA StepIInv == IInv /\ [SessionsNext]_sessionVars => IInv'
<1> SUFFICES ASSUME IInv, [SessionsNext]_sessionVars PROVE IInv'
  OBVIOUS
<1> USE SessionsAssumption
<1>1. CASE Tick
  BY <1>1 DEF Tick, IInv, SessionsTypeOK, LiveHasDir, Live, Making, Removing
<1>2. ASSUME NEW t \in Terminals, TerminalStep(t) PROVE IInv'
  <2>0. t \in Actors /\ t \notin Services
    BY DEF Actors, Hosts
  <2>1. CASE StartRecent(t)
    BY <2>0, <2>1, MovesKeep DEF StartRecent, Recent, Live, IInv, SessionsTypeOK, table
  <2>2. CASE StartCreate(t)
    BY <2>0, <2>2, CreateDirKeeps DEF StartCreate, CreateDir
  <2>3. CASE New(t)
    BY <2>0, <2>3, CreateDirKeeps DEF New, CreateDir
  <2>4. CASE Touch(t)
    BY <2>0, <2>4 DEF Touch, IInv, SessionsTypeOK, LiveHasDir, Live, Making, Removing
  <2>5. CASE DeleteDir(t)
    <3>1. SessionsTypeOK'
      BY <2>0, <2>5 DEF DeleteDir, IInv, SessionsTypeOK, table
    <3>2. LiveHasDir'
      BY <2>0, <2>5 DEF DeleteDir, IInv, SessionsTypeOK, LiveHasDir, Live, Removing, table
    <3>3. Making' /\ Removing'
      BY <2>0, <2>5 DEF DeleteDir, IInv, SessionsTypeOK, Making, Removing, table
    <3>4. QED
      BY <3>1, <3>2, <3>3 DEF IInv
  <2>6. CASE DeleteDirFails(t)
    BY <2>0, <2>6 DEF DeleteDirFails, IInv, SessionsTypeOK, LiveHasDir, Live, Making, Removing, table
  <2>7. ASSUME NEW i \in Ids, StartLoad(t, i) \/ Switch(t, i) PROVE IInv'
    BY <2>0, <2>7, MovesKeep DEF StartLoad, Switch, Live, IInv, SessionsTypeOK, table
  <2>8. ASSUME NEW i \in Ids, DeleteFlag(t, i) PROVE IInv'
    <3>1. SessionsTypeOK'
      BY <2>0, <2>8 DEF DeleteFlag, IInv, SessionsTypeOK
    <3>2. LiveHasDir'
      BY <2>0, <2>8 DEF DeleteFlag, IInv, SessionsTypeOK, LiveHasDir, Live
    <3>3. Making' /\ Removing'
      BY <2>0, <2>8 DEF DeleteFlag, IInv, SessionsTypeOK, Making, Removing
    <3>4. QED
      BY <3>1, <3>2, <3>3 DEF IInv
  <2>9. ASSUME NEW r \in Runs, LeaveBehind(t, r) PROVE IInv'
    BY <2>0, <2>9, MovesKeep DEF LeaveBehind, IInv, SessionsTypeOK, Actors, table
  <2>10. QED
    BY <1>2, <2>1, <2>2, <2>3, <2>4, <2>5, <2>6, <2>7, <2>8, <2>9 DEF TerminalStep
<1>3. ASSUME NEW s \in Services, ServiceStep(s) PROVE IInv'
  <2>0. s \in Actors
    BY DEF Actors, Hosts
  <2>1. ASSUME NEW req \in Ids \cup {None},
               ResolveLoad(s, req) \/ ResolveLoadFails(s)
        PROVE  IInv'
    <3>1. CASE req \in Live /\ GoesTo(s, "serving", req)
      BY <2>0, <2>1, <3>1, MovesKeep DEF ResolveLoad, ResolveLoadFails, Live, table
    <3>2. CASE GoesTo(s, "listing", None)
      BY <2>0, <2>1, <3>2, MovesKeep DEF ResolveLoad, ResolveLoadFails, table
    <3>3. QED
      BY <2>1, <3>1, <3>2 DEF ResolveLoad, ResolveLoadFails
  <2>2. CASE ResolveRecent(s)
    BY <2>0, <2>2, MovesKeep DEF ResolveRecent, Recent, Live, IInv, SessionsTypeOK, table
  <2>3. CASE ResolveCreate(s)
    BY <2>0, <2>3, CreateDirKeeps DEF ResolveCreate, CreateDir
  <2>4. QED
    BY <1>3, <2>1, <2>2, <2>3 DEF ServiceStep
<1>4. ASSUME NEW r \in Runs, NEW i \in Ids, RunLoads(r, i) PROVE IInv'
  BY <1>4, MovesKeep DEF RunLoads, Live, IInv, SessionsTypeOK, Actors, table
<1>5. ASSUME NEW p \in Hosts, CreateRow(p) PROVE IInv'
  <2>0. p \in Actors
    BY DEF Actors
  <2>1. SessionsTypeOK'
    BY <2>0, <1>5 DEF CreateRow, GoesTo, IInv, SessionsTypeOK
  <2>2. LiveHasDir'
    BY <2>0, <1>5 DEF CreateRow, GoesTo, IInv, SessionsTypeOK, LiveHasDir, Live, Making
  <2>3. Making' /\ Removing'
    BY <2>0, <1>5 DEF CreateRow, GoesTo, IInv, SessionsTypeOK, Making, Removing
  <2>4. QED
    BY <2>1, <2>2, <2>3 DEF IInv
<1>6. ASSUME NEW p \in Hosts, CreateFails(p) PROVE IInv'
  <2>0. p \in Actors
    BY DEF Actors
  <2>1. SessionsTypeOK'
    BY <2>0, <1>6 DEF CreateFails, AfterFailure, IInv, SessionsTypeOK, table
  <2>2. LiveHasDir' /\ Making' /\ Removing'
    BY <2>0, <1>6 DEF CreateFails, AfterFailure, IInv, SessionsTypeOK, LiveHasDir, Live, Making, Removing, table
  <2>3. QED
    BY <2>1, <2>2 DEF IInv
<1>7. ASSUME NEW p \in Hosts, HostDies(p) PROVE IInv'
  <2>1. SessionsTypeOK'
    BY <1>7 DEF HostDies, IInv, SessionsTypeOK, table
  <2>2. LiveHasDir' /\ Making' /\ Removing'
    BY <1>7 DEF HostDies, IInv, SessionsTypeOK, LiveHasDir, Live, Making, Removing, table
  <2>3. QED
    BY <2>1, <2>2 DEF IInv
<1>8. ASSUME NEW a \in Actors, Remember(a) PROVE IInv'
  BY <1>8 DEF Remember, IInv, SessionsTypeOK, LiveHasDir, Live, Making, Removing, table
<1>9. ASSUME NEW a \in Actors, Finish(a) PROVE IInv'
  BY <1>9, MovesKeep DEF Finish, IInv, SessionsTypeOK
<1>10. CASE UNCHANGED sessionVars
  BY <1>10 DEF sessionVars, table, IInv, SessionsTypeOK, LiveHasDir, Live, Making, Removing
<1>11. QED
  BY <1>1, <1>2, <1>3, <1>4, <1>5, <1>6, <1>7, <1>8, <1>9, <1>10 DEF SessionsNext

\* The sessions are well typed and their creations are distinct.
LEMMA SpecIInv == SessionsSpec => []IInv
  BY InitIInv, StepIInv, PTL DEF SessionsSpec

\* Whoever is in the middle of a Create or a Delete has a session to come back
\* to, and nobody else has one under way.
THEOREM TypeCorrect == SessionsSpec => []SessionsTypeOK
  BY SpecIInv, PTL DEF IInv

\* session.go, Create and Delete: at every moment, crashes included, a session
\* that can be listed or loaded has its directory.
THEOREM LiveSessionsHaveDirs == SessionsSpec => []LiveHasDir
  BY SpecIInv, PTL DEF IInv

-----------------------------------------------------------------------------

\* What makes CurrentIsLive inductive: a terminal that is down is in no session.
CInv ==
    /\ CurrentIsLive
    /\ \A t \in Terminals : place[t] = "down" => cur[t] = None

\* A terminal that moves, by the choice or the creation of a live session.
LEMMA StepCInv ==
    ASSUME OneTerminal
    PROVE  IInv /\ CInv /\ [SessionsNext]_sessionVars => CInv'
<1> SUFFICES ASSUME IInv, CInv, [SessionsNext]_sessionVars PROVE CInv'
  OBVIOUS
<1> USE SessionsAssumption
<1>1. CASE Tick
  BY <1>1 DEF Tick, CInv, CurrentIsLive
<1>2. ASSUME NEW t \in Terminals, TerminalStep(t) PROVE CInv'
  <2>0. t \in Actors /\ t \notin Services /\ \A u \in Terminals : u = t
    BY DEF Actors, Hosts, OneTerminal
  <2>1. CASE StartRecent(t)
    BY <2>0, <2>1 DEF StartRecent, Recent, Live, GoesTo, IInv, SessionsTypeOK, CInv, CurrentIsLive, table
  <2>2. CASE StartCreate(t) \/ New(t)
    BY <2>0, <2>2 DEF StartCreate, New, CreateDir, IInv, SessionsTypeOK, CInv, CurrentIsLive, table
  <2>3. CASE Touch(t)
    BY <2>3 DEF Touch, CInv, CurrentIsLive
  <2>4. CASE DeleteDir(t) \/ DeleteDirFails(t)
    BY <2>0, <2>4 DEF DeleteDir, DeleteDirFails, IInv, SessionsTypeOK, CInv, CurrentIsLive, table
  <2>5. ASSUME NEW i \in Ids, StartLoad(t, i) \/ Switch(t, i) PROVE CInv'
    BY <2>0, <2>5 DEF StartLoad, Switch, Live, GoesTo, IInv, SessionsTypeOK, CInv, CurrentIsLive, table
  <2>6. ASSUME NEW i \in Ids, DeleteFlag(t, i) PROVE CInv'
    BY <2>0, <2>6 DEF DeleteFlag, MayDelete, IInv, SessionsTypeOK, CInv, CurrentIsLive
  <2>7. ASSUME NEW r \in Runs, LeaveBehind(t, r) PROVE CInv'
    <3>1. r \notin Terminals /\ r \in Actors
      BY DEF Actors, Hosts
    <3>2. QED
      BY <2>0, <2>7, <3>1 DEF LeaveBehind, GoesTo, IInv, SessionsTypeOK, CInv, CurrentIsLive, table
  <2>8. QED
    BY <1>2, <2>1, <2>2, <2>3, <2>4, <2>5, <2>6, <2>7 DEF TerminalStep
<1>3. ASSUME NEW s \in Services, ServiceStep(s) PROVE CInv'
  <2>1. s \notin Terminals /\ s \in Actors
    BY DEF Actors, Hosts
  <2>2. /\ row' = row
        /\ \A t \in Terminals : place'[t] = place[t] /\ cur'[t] = cur[t]
    <3>1. ASSUME NEW p, NEW i, GoesTo(s, p, i)
          PROVE  \A t \in Terminals : place'[t] = place[t] /\ cur'[t] = cur[t]
      BY <2>1, <3>1 DEF GoesTo, IInv, SessionsTypeOK, Actors, Hosts
    <3>2. CASE ResolveCreate(s)
      BY <2>1, <3>2 DEF ResolveCreate, CreateDir, IInv, SessionsTypeOK, Actors, Hosts, table
    <3>3. CASE ResolveRecent(s)
      BY <3>1, <3>3 DEF ResolveRecent, table
    <3>4. ASSUME NEW req, ResolveLoad(s, req) \/ ResolveLoadFails(s)
          PROVE  /\ row' = row
                 /\ \A t \in Terminals : place'[t] = place[t] /\ cur'[t] = cur[t]
      BY <3>1, <3>4 DEF ResolveLoad, ResolveLoadFails, table
    <3>5. QED
      BY <1>3, <3>2, <3>3, <3>4 DEF ServiceStep
  <2>3. QED
    BY <2>2 DEF CInv, CurrentIsLive
<1>4. ASSUME NEW r \in Runs, NEW i \in Ids, RunLoads(r, i) PROVE CInv'
  <2>1. r \notin Terminals /\ r \in Actors
    BY DEF Actors, Hosts
  <2>2. QED
    BY <1>4, <2>1 DEF RunLoads, GoesTo, IInv, SessionsTypeOK, CInv, CurrentIsLive, table
<1>5. ASSUME NEW p \in Hosts, CreateRow(p) PROVE CInv'
  BY <1>5 DEF CreateRow, GoesTo, IInv, SessionsTypeOK, CInv, CurrentIsLive, Actors, Hosts
<1>6. ASSUME NEW p \in Hosts, CreateFails(p) PROVE CInv'
  BY <1>6 DEF CreateFails, AfterFailure, IInv, SessionsTypeOK, CInv, CurrentIsLive, Actors, Hosts, table
<1>7. ASSUME NEW p \in Hosts, HostDies(p) PROVE CInv'
  BY <1>7 DEF HostDies, IInv, SessionsTypeOK, CInv, CurrentIsLive, Actors, Hosts, table
<1>8. ASSUME NEW a \in Actors, Remember(a) PROVE CInv'
  BY <1>8 DEF Remember, CInv, CurrentIsLive, table
<1>9. ASSUME NEW a \in Actors, Finish(a) PROVE CInv'
  BY <1>9 DEF Finish, GoesTo, IInv, SessionsTypeOK, CInv, CurrentIsLive, table
<1>10. CASE UNCHANGED sessionVars
  BY <1>10 DEF sessionVars, table, CInv, CurrentIsLive
<1>11. QED
  BY <1>1, <1>2, <1>3, <1>4, <1>5, <1>6, <1>7, <1>8, <1>9, <1>10 DEF SessionsNext

\* repl.go, cmdDelete: a terminal that is alone never works in a deleted
\* session, whatever services and goroutines do beside it.
THEOREM ActiveSessionLive ==
    ASSUME OneTerminal
    PROVE  SessionsSpec => []CurrentIsLive
<1>1. SessionsInit => CInv
  BY SessionsAssumption DEF SessionsInit, CInv, CurrentIsLive, Actors, Hosts
<1>2. IInv /\ CInv /\ [SessionsNext]_sessionVars => CInv'
  BY StepCInv
<1>3. CInv => CurrentIsLive
  BY DEF CInv
<1>4. QED
  BY SpecIInv, <1>1, <1>2, <1>3, PTL DEF SessionsSpec
=============================================================================
