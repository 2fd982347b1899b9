------------------------ MODULE MemoryManagerProofs ------------------------
(***************************************************************************)
(* Theorems about MemoryManager.tla for one process with any number of     *)
(* consolidations, writers, facts and contents.  The invariant says where  *)
(* the kept facts are while MEMORY.md is truncated: with the goroutine     *)
(* that is filling it, and with every other one whose text may still       *)
(* replace it later; and that the holder of the lock is the only one who   *)
(* touches the temporary file of SOUL.md between Open and Rename.  Two     *)
(* processes have two locks: one may then truncate the temporary file of   *)
(* the other just before its rename.                                       *)
(***************************************************************************)
EXTENDS MemoryManager, TLAPS

OneProcess == \A p, q \in Procs : p = q

\* The lock is held by exactly the goroutine that is filling MEMORY.md ...
Filling ==
    \A a \in Agents : stage[a] = "filling" <=> lock[ProcOf[a]] = a

\* ... and by a writer of SOUL.md past Lock.
Holds ==
    \A g \in Writers :
       at[g] \in {"locked", "opened", "written", "closed"} => lock[ProcOf[g]] = g

\* What was read, and every text that may yet be written to MEMORY.md, has the
\* kept facts.
SnapsComplete ==
    \A a \in Agents : InFlight(a) => kept \subseteq snap[a]

\* MEMORY.md has them but while it is truncated, also under a writer's lock.
NotesComplete ==
    \A p \in Procs : lock[p] \notin Agents => kept \subseteq notes

\* The temporary file holds what its only writer has put there.
TmpOwned ==
    \A g \in Writers :
       /\ at[g] = "opened" => tmp = <<>>
       /\ at[g] \in {"written", "closed"} => tmp = arg[g]

StoreInv == SnapsComplete /\ NotesComplete
FileInv  == TmpOwned /\ FileWhole
IInv     == MemoryTypeOK /\ Filling /\ Holds /\ StoreInv /\ FileInv

LEMMA InitEstablishes == MemoryInit => IInv
BY LockAssumption, StoreAssumption, FileAssumption
   DEF LockAssumption, StoreAssumption, FileAssumption, MemoryInit, StoreInit, FileInit, LockInit,
       IInv, StoreInv, FileInv, MemoryTypeOK, LockTypeOK, StoreTypeOK, FileTypeOK, Filling, Holds,
       SnapsComplete, NotesComplete, InFlight, TmpOwned, FileWhole

\* Written at the head of an empty file, a content is the whole file.
LEMMA WrittenOnEmpty ==
    ASSUME NEW c \in Seq(Nat), tmp = <<>> PROVE Written(c) = c
<1>1. SubSeq(<<>>, Len(c) + 1, 0) = <<>>
  OBVIOUS
<1>2. QED
  BY <1>1 DEF Written

\* The steps on MEMORY.md, one case per action.
LEMMA StorePreserves ==
    ASSUME OneProcess, IInv, StoreStep, UNCHANGED fileVars PROVE IInv'
<1> USE LockAssumption
    DEF LockAssumption, IInv, MemoryTypeOK, LockTypeOK, StoreTypeOK, FileTypeOK, OneProcess, fileVars,
        Filling, Holds, StoreInv, FileInv, SnapsComplete, NotesComplete, InFlight, TmpOwned, FileWhole
<1>1. ASSUME NEW p \in Procs, NEW fact \in Facts, AppendNote(p, fact) PROVE IInv'
  <2>1. MemoryTypeOK' /\ Filling' /\ Holds'
    BY <1>1 DEF AppendNote
  <2>2. SnapsComplete' /\ NotesComplete'
    <3>1. CASE \E a \in Agents : InFlight(a)
      BY <1>1, <3>1 DEF AppendNote
    <3>2. CASE ~\E a \in Agents : InFlight(a)
      <4>1. kept' = kept \cup {fact} /\ notes' = notes \cup {fact} /\ UNCHANGED <<lock, stage, snap>>
        BY <1>1, <3>2 DEF AppendNote
      <4>2. lock[p] \notin Agents
        BY <1>1 DEF AppendNote
      <4>3. kept \subseteq notes
        BY <4>2
      <4>4. QED
        BY <3>2, <4>1, <4>3
    <3>3. QED
      BY <3>1, <3>2
  <2>3. FileInv'
    BY <1>1 DEF AppendNote
  <2>4. QED
    BY <2>1, <2>2, <2>3
<1>2. ASSUME Delete PROVE IInv'
  BY <1>2 DEF Delete
<1>3. ASSUME NEW a \in Agents, Sized(a) PROVE IInv'
  BY <1>3 DEF Sized
<1>4. ASSUME NEW a \in Agents, ReadNothing(a) PROVE IInv'
  BY <1>4 DEF ReadNothing
<1>5. ASSUME NEW a \in Agents, ReadNotes(a) PROVE IInv'
  BY <1>5 DEF ReadNotes, LockFree
<1>6. ASSUME NEW a \in Agents, TextArrives(a) PROVE IInv'
  BY <1>6 DEF TextArrives
<1>7. ASSUME NEW a \in Agents, RequestFails(a) PROVE IInv'
  BY <1>7 DEF RequestFails
<1>8. ASSUME NEW a \in Agents, Truncate(a) PROVE IInv'
  BY <1>8 DEF Truncate, Taken, LockFree
<1>9. ASSUME NEW a \in Agents, Fill(a) PROVE IInv'
  BY <1>9 DEF Fill, Released
<1>10. ASSUME NEW a \in Agents, FillFails(a) PROVE IInv'
  BY <1>10 DEF FillFails, Released
<1> HIDE DEF IInv
<1>11. QED
  <2>1. ASSUME NEW a \in Agents, Consolidate(a) PROVE IInv'
    BY <1>3, <1>4, <1>5, <1>6, <1>7, <1>8, <1>9, <1>10, <2>1 DEF Consolidate
  <2>2. QED
    BY <1>1, <1>2, <2>1 DEF StoreStep

\* The steps on SOUL.md, one case per action.
LEMMA FilePreserves ==
    ASSUME OneProcess, IInv, FileStep, UNCHANGED storeVars PROVE IInv'
<1> USE LockAssumption, FileAssumption
    DEF LockAssumption, FileAssumption, IInv, MemoryTypeOK, LockTypeOK, StoreTypeOK, FileTypeOK, OneProcess,
        storeVars, Filling, Holds, StoreInv, FileInv, SnapsComplete, NotesComplete, InFlight, TmpOwned,
        FileWhole
<1>1. ASSUME NEW g \in Writers, StatAbsent(g) PROVE IInv'
  BY <1>1 DEF StatAbsent
<1>2. ASSUME NEW g \in Writers, NEW c \in Contents \ {Default}, Call(g, c) PROVE IInv'
  BY <1>2 DEF Call
<1>3. ASSUME NEW g \in Writers, Lock(g) PROVE IInv'
  BY <1>3 DEF Lock, LockFree, Taken
<1>4. ASSUME NEW g \in Writers, Open(g) PROVE IInv'
  BY <1>4 DEF Open
<1>5. ASSUME NEW g \in Writers, Write(g) PROVE IInv'
  <2>1. tmp' = arg[g]
    BY <1>5, WrittenOnEmpty DEF Write
  <2>2. QED
    BY <1>5, <2>1 DEF Write
<1>6. ASSUME NEW g \in Writers, Close(g) PROVE IInv'
  BY <1>6 DEF Close
<1>7. ASSUME NEW g \in Writers, WriteFails(g) PROVE IInv'
  <2>1. lock[ProcOf[g]] = g
    BY <1>7 DEF WriteFails
  <2>2. MemoryTypeOK' /\ Filling' /\ Holds'
    BY <1>7, <2>1 DEF WriteFails, Return, Released
  <2>3. StoreInv'
    BY <1>7, <2>1 DEF WriteFails, Return, Released
  <2>4. FileInv'
    BY <1>7, <2>1 DEF WriteFails, Return, Released
  <2>5. QED
    BY <2>2, <2>3, <2>4
<1>8. ASSUME NEW g \in Writers, Rename(g) PROVE IInv'
  <2>1. lock[ProcOf[g]] = g
    BY <1>8 DEF Rename
  <2>2. MemoryTypeOK' /\ Filling' /\ Holds'
    BY <1>8, <2>1 DEF Rename, Return, Released
  <2>3. StoreInv'
    BY <1>8, <2>1 DEF Rename, Return, Released
  <2>4. FileInv'
    BY <1>8, <2>1 DEF Rename, Return, Released
  <2>5. QED
    BY <2>2, <2>3, <2>4
<1>9. ASSUME NEW g \in Writers, RenameFails(g) PROVE IInv'
  <2>1. lock[ProcOf[g]] = g
    BY <1>9 DEF RenameFails
  <2>2. MemoryTypeOK' /\ Filling' /\ Holds'
    BY <1>9, <2>1 DEF RenameFails, Return, Released
  <2>3. StoreInv'
    BY <1>9, <2>1 DEF RenameFails, Return, Released
  <2>4. FileInv'
    BY <1>9, <2>1 DEF RenameFails, Return, Released
  <2>5. QED
    BY <2>2, <2>3, <2>4
<1> HIDE DEF IInv
<1>10. QED
  BY <1>1, <1>2, <1>3, <1>4, <1>5, <1>6, <1>7, <1>8, <1>9 DEF FileStep, Step

LEMMA CrashPreserves ==
    ASSUME OneProcess, IInv, NEW p \in Procs, Crash(p) PROVE IInv'
<1> USE LockAssumption
    DEF LockAssumption, IInv, MemoryTypeOK, LockTypeOK, StoreTypeOK, FileTypeOK, OneProcess
<1>1. /\ lock' = [q \in Procs |-> Free]
      /\ stage' = [a \in Agents |-> "idle"] /\ at' = [g \in Writers |-> "idle"]
  BY DEF Crash, StoreCrash, FileCrash
<1>2. MemoryTypeOK' /\ Filling' /\ Holds'
  BY <1>1 DEF Crash, StoreCrash, FileCrash, Filling, Holds
<1>3. SnapsComplete' /\ NotesComplete'
  BY <1>1 DEF Crash, StoreCrash, StoreInv, SnapsComplete, NotesComplete, InFlight
<1>4. FileInv'
  BY <1>1 DEF Crash, FileCrash, FileInv, TmpOwned, FileWhole
<1>5. QED
  BY <1>2, <1>3, <1>4 DEF StoreInv

LEMMA Preserved == ASSUME OneProcess PROVE IInv /\ [MemoryNext]_memoryVars => IInv'
<1> SUFFICES ASSUME IInv, [MemoryNext]_memoryVars PROVE IInv'
  OBVIOUS
<1>1. CASE UNCHANGED memoryVars
  BY <1>1 DEF memoryVars, storeVars, fileVars, IInv, MemoryTypeOK, LockTypeOK, StoreTypeOK, FileTypeOK, Filling,
              Holds, StoreInv, FileInv, SnapsComplete, NotesComplete, InFlight, TmpOwned, FileWhole
<1>2. QED
  BY <1>1, StorePreserves, FilePreserves, CrashPreserves DEF MemoryNext

-----------------------------------------------------------------------------
\* The steps of MEMORY.md, those of SOUL.md, and the end of a process keep the
\* variables in range, with several processes as well.
LEMMA TypesStay == MemoryTypeOK /\ [MemoryNext]_memoryVars => MemoryTypeOK'
<1> SUFFICES ASSUME MemoryTypeOK, [MemoryNext]_memoryVars PROVE MemoryTypeOK'
  OBVIOUS
<1> USE LockAssumption
    DEF LockAssumption, MemoryTypeOK, LockTypeOK, StoreTypeOK, FileTypeOK, storeVars, fileVars
<1>1. ASSUME NEW g \in Agents \cup Writers PROVE Taken(g) \in [Procs -> Agents \cup Writers \cup {Free}]
  BY DEF Taken
<1>2. ASSUME NEW g \in Agents \cup Writers PROVE Released(g) \in [Procs -> Agents \cup Writers \cup {Free}]
  BY DEF Released
<1>3. CASE StoreStep /\ UNCHANGED fileVars
  <2>1. ASSUME NEW a \in Agents, Consolidate(a) PROVE MemoryTypeOK'
    <3>1. CASE Truncate(a)
      BY <1>1, <1>3, <3>1 DEF Truncate
    <3>2. CASE Fill(a)
      BY <1>2, <1>3, <3>2 DEF Fill
    <3>3. CASE FillFails(a)
      BY <1>2, <1>3, <3>3 DEF FillFails
    <3>4. CASE Sized(a) \/ ReadNothing(a) \/ ReadNotes(a) \/ TextArrives(a) \/ RequestFails(a)
      BY <1>3, <3>4 DEF Sized, ReadNothing, ReadNotes, TextArrives, RequestFails
    <3> QED
      BY <2>1, <3>1, <3>2, <3>3, <3>4 DEF Consolidate
  <2>2. ASSUME NEW p \in Procs, NEW fact \in Facts, AppendNote(p, fact) PROVE MemoryTypeOK'
    BY <1>3, <2>2 DEF AppendNote
  <2>3. CASE Delete
    BY <1>3, <2>3 DEF Delete
  <2> QED
    BY <1>3, <2>1, <2>2, <2>3 DEF StoreStep
<1>4. CASE FileStep /\ UNCHANGED storeVars
  <2> SUFFICES ASSUME NEW g \in Writers, Step(g) PROVE MemoryTypeOK'
    BY <1>4 DEF FileStep
  <2>1. CASE StatAbsent(g)
    BY <1>4, <2>1, FileAssumption DEF FileAssumption, StatAbsent
  <2>2. ASSUME NEW content \in Contents \ {Default}, Call(g, content) PROVE MemoryTypeOK'
    BY <1>4, <2>2 DEF Call
  <2>3. CASE Lock(g)
    BY <1>1, <1>4, <2>3 DEF Lock
  <2>4. CASE Open(g) \/ Write(g) \/ Close(g)
    BY <1>4, <2>4 DEF Open, Write, Close
  <2>5. CASE WriteFails(g) \/ Rename(g) \/ RenameFails(g)
    BY <1>2, <1>4, <2>5 DEF WriteFails, Rename, RenameFails, Return
  <2> QED
    BY <2>1, <2>2, <2>3, <2>4, <2>5 DEF Step
<1>5. ASSUME NEW p \in Procs, Crash(p) PROVE MemoryTypeOK'
  BY <1>5 DEF Crash, StoreCrash, FileCrash
<1>6. CASE UNCHANGED memoryVars
  BY <1>6 DEF memoryVars
<1> QED
  BY <1>3, <1>4, <1>5, <1>6 DEF MemoryNext

\* MemoryManager: the lock of a process is held by one of the goroutines that
\* take it, for any number of processes.
THEOREM TypeCorrect == MemorySpec => []MemoryTypeOK
<1>1. IInv => MemoryTypeOK
  BY DEF IInv
<1> QED
  BY <1>1, InitEstablishes, TypesStay, PTL DEF MemorySpec

-----------------------------------------------------------------------------
\* With one process a reader always finds every fact that was appended while no
\* consolidation was in flight, since a delete, a crash or a failed write last
\* destroyed the file, unless an answer of the API left it out: interleaved
\* consolidations lose no other (Append, Write, Read, maybeConsolidate).
THEOREM Kept == ASSUME OneProcess PROVE MemorySpec => []KeptNotes
<1>1. IInv => KeptNotes
  BY LockAssumption DEF LockAssumption, IInv, StoreInv, NotesComplete, KeptNotes
<1>2. QED
  BY <1>1, InitEstablishes, Preserved, PTL DEF MemorySpec

\* Within one process, goroutines, failures and crashes leave SOUL.md absent
\* or whole (WriteSoul).
THEOREM Whole == ASSUME OneProcess PROVE MemorySpec => []FileWhole
<1>1. IInv => FileWhole
  BY DEF IInv, FileInv
<1>2. QED
  BY <1>1, InitEstablishes, Preserved, PTL DEF MemorySpec

\* Within one process, a reported success put the writer's own content in place.
THEOREM OwnContent == ASSUME OneProcess PROVE MemorySpec => SuccessIsOwnContent
<1> DEFINE A == \A g \in Writers :
                   at[g] = "closed" /\ at'[g] = "idle" /\ file' # file => file' = arg[g]
<1>1. ASSUME IInv, [MemoryNext]_memoryVars PROVE [A]_<<fileVars, lock>>
  <2> SUFFICES ASSUME MemoryNext, NEW g \in Writers, at[g] = "closed", at'[g] = "idle", file' # file
               PROVE  file' = arg[g]
    BY <1>1 DEF memoryVars
  <2>1. FileStep
    BY DEF MemoryNext, fileVars, Crash, FileCrash
  <2>2. PICK h \in Writers : Rename(h)
    BY <2>1 DEF FileStep, Step, StatAbsent, Call, Lock, Open, Write, Close, WriteFails, RenameFails
  <2>3. tmp = arg[g]
    BY <1>1 DEF IInv, FileInv, TmpOwned
  <2>4. QED
    BY <2>2, <2>3 DEF Rename
<1>2. QED
  BY <1>1, InitEstablishes, Preserved, PTL DEF MemorySpec, SuccessIsOwnContent
=============================================================================
