--------------------------- MODULE MemoryManager ---------------------------
(***************************************************************************)
(* MEMORY.md and SOUL.md under the one lock that each MemoryManager has:   *)
(* the steps of MemoryStore and those of AtomicFile, interleaved, and the  *)
(* end of a process, which ends its goroutines of both kinds.              *)
(***************************************************************************)
EXTENDS MemoryStore, AtomicFile

memoryVars == <<storeVars, fileVars, lock>>

MemoryInit ==
    /\ StoreInit
    /\ FileInit
    /\ LockInit

\* The process dies: its handles and its lock go, the files stay as they are.
Crash(p) ==
    /\ Faults
    /\ StoreCrash(p)
    /\ FileCrash(p)
    /\ lock' = [lock EXCEPT ![p] = Free]

MemoryNext ==
    \/ StoreStep /\ UNCHANGED fileVars
    \/ FileStep /\ UNCHANGED storeVars
    \/ \E p \in Procs : Crash(p)

MemorySpec == MemoryInit /\ [][MemoryNext]_memoryVars

\* Type invariant.
MemoryTypeOK == LockTypeOK /\ StoreTypeOK /\ FileTypeOK
=============================================================================
