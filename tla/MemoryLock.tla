----------------------------- MODULE MemoryLock -----------------------------
(***************************************************************************)
(* The RWMutex of MemoryManager (internal/memory/memory.go).  Every        *)
(* process has a MemoryManager of its own, hence a lock of its own, and    *)
(* all of them use the same files.  A method that takes one step, and      *)
(* those that read, need the lock to be free in that step; the two that    *)
(* take several hold it in between.                                        *)
(***************************************************************************)
CONSTANTS
    Procs,          \* processes
    Agents,         \* goroutines that consolidate MEMORY.md
    Writers,        \* goroutines that replace SOUL.md
    ProcOf,         \* the process of each of them
    Faults,         \* TRUE: the disk may fail and processes may die
    Free            \* nobody holds the write lock

ASSUME LockAssumption ==
    /\ ProcOf \in [Agents \cup Writers -> Procs]
    /\ Agents \cap Writers = {}
    /\ Faults \in BOOLEAN
    /\ Free \notin Agents \cup Writers

VARIABLE lock       \* lock[p]: who holds the write lock of p's MemoryManager

LockInit == lock = [p \in Procs |-> Free]

BuggyLockFree(g) == TRUE
LockFree(g) == lock[ProcOf[g]] = Free

BuggyTaken(g) == lock
Taken(g) == [lock EXCEPT ![ProcOf[g]] = g]

\* defer m.mu.Unlock()
Released(g) == [lock EXCEPT ![ProcOf[g]] = Free]

LockTypeOK == lock \in [Procs -> Agents \cup Writers \cup {Free}]
=============================================================================
