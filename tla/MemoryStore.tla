---------------------------- MODULE MemoryStore ----------------------------
(***************************************************************************)
(* The MEMORY.md of one session: Append, Write, Read, MemorySize and       *)
(* DeleteSession of internal/memory/memory.go, and the goroutine that      *)
(* every Agent.Run leaves behind, maybeConsolidate of agent.go, which      *)
(* reads the file, asks the API for a shorter text and writes that back.   *)
(*                                                                         *)
(* The content of the file is the set of facts noted in it.  The API is    *)
(* asked to preserve every fact, in at most 2048 tokens; its text may have *)
(* any of them, and is written as it is, cut short or not.                 *)
(***************************************************************************)
EXTENDS MemoryLock, Naturals, FiniteSets

CONSTANTS
    Facts,          \* what update_memory may note
    Threshold       \* consolidateThreshold, in facts

ASSUME StoreAssumption == Threshold \in Nat \ {0}

VARIABLES
    notes,      \* facts in MEMORY.md; an absent file reads as an empty one
    stage,      \* where each maybeConsolidate is
    snap,       \* snap[a]: the content a has read, then the text it writes
    kept        \* history: facts appended while nobody was consolidating, since
                \* the file was last destroyed, that no answer has left out

storeVars == <<notes, stage, snap, kept>>

\* Between the read of a consolidation and its write.
InFlight(a) == stage[a] \in {"calling", "answered", "filling"}

StoreInit ==
    /\ notes = {}
    /\ stage = [a \in Agents |-> "idle"]
    /\ snap = [a \in Agents |-> {}]
    /\ kept = {}

-----------------------------------------------------------------------------
\* Append holds the lock from end to end; O_APPEND writes at the end of the
\* file.  An Append that fails leaves the file as it was.
AppendNote(p, fact) ==
    /\ lock[p] = Free
    /\ notes' = notes \cup {fact}
    /\ kept' = IF \E a \in Agents : InFlight(a) THEN kept ELSE kept \cup {fact}
    /\ UNCHANGED <<lock, stage, snap>>

\* DeleteSession takes no lock.  Windows refuses while a handle is open.
Delete ==
    /\ \A a \in Agents : stage[a] # "filling"
    /\ notes' = {}
    /\ kept' = {}
    /\ UNCHANGED <<lock, stage, snap>>

-----------------------------------------------------------------------------
(* maybeConsolidate *)

\* MemorySize is not below the threshold.
Sized(a) ==
    /\ stage[a] = "idle"
    /\ LockFree(a)
    /\ Cardinality(notes) >= Threshold
    /\ stage' = [stage EXCEPT ![a] = "sized"]
    /\ UNCHANGED <<notes, lock, snap, kept>>

ReadNothing(a) ==
    /\ stage[a] = "sized"
    /\ LockFree(a)
    /\ notes = {}
    /\ stage' = [stage EXCEPT ![a] = "idle"]
    /\ UNCHANGED <<notes, lock, snap, kept>>

ReadNotes(a) ==
    /\ stage[a] = "sized"
    /\ LockFree(a)
    /\ notes # {}
    /\ snap' = [snap EXCEPT ![a] = notes]
    /\ stage' = [stage EXCEPT ![a] = "calling"]
    /\ UNCHANGED <<notes, lock, kept>>

\* resp.Content[0].Text; nobody looks at the stop_reason.
TextArrives(a) ==
    /\ stage[a] = "calling"
    /\ \E text \in SUBSET snap[a] :
          /\ snap' = [snap EXCEPT ![a] = text]
          /\ kept' = kept \ (snap[a] \ text)
    /\ stage' = [stage EXCEPT ![a] = "answered"]
    /\ UNCHANGED <<notes, lock>>

\* Error, timeout after 30 seconds, or an answer without content.
RequestFails(a) ==
    /\ stage[a] = "calling"
    /\ stage' = [stage EXCEPT ![a] = "idle"]
    /\ UNCHANGED <<notes, lock, snap, kept>>

\* Write: lock, make the directory, open the file and truncate it.
Truncate(a) ==
    /\ stage[a] = "answered"
    /\ LockFree(a)
    /\ lock' = Taken(a)
    /\ notes' = {}
    /\ stage' = [stage EXCEPT ![a] = "filling"]
    /\ UNCHANGED <<snap, kept>>

\* Write: the text goes to the head of the file, over anything another
\* process may have appended since; unlock.
Fill(a) ==
    /\ stage[a] = "filling"
    /\ notes' = snap[a]
    /\ lock' = Released(a)
    /\ stage' = [stage EXCEPT ![a] = "idle"]
    /\ UNCHANGED <<snap, kept>>

\* The write fails: nothing puts the old content back.
FillFails(a) ==
    /\ Faults
    /\ stage[a] = "filling"
    /\ lock' = Released(a)
    /\ stage' = [stage EXCEPT ![a] = "idle"]
    /\ kept' = {}
    /\ UNCHANGED <<notes, snap>>

\* The process dies; a file it was filling stays truncated.
StoreCrash(p) ==
    /\ stage' = [a \in Agents |-> IF ProcOf[a] = p THEN "idle" ELSE stage[a]]
    /\ kept' = IF lock[p] \in Agents THEN {} ELSE kept
    /\ UNCHANGED <<notes, snap>>

Consolidate(a) ==
    \/ Sized(a)
    \/ ReadNothing(a)
    \/ ReadNotes(a)
    \/ TextArrives(a)
    \/ RequestFails(a)
    \/ Truncate(a)
    \/ Fill(a)
    \/ FillFails(a)

StoreStep ==
    \/ \E p \in Procs, fact \in Facts : AppendNote(p, fact)
    \/ Delete
    \/ \E a \in Agents : Consolidate(a)

-----------------------------------------------------------------------------
(* Properties *)

\* Type invariant.
StoreTypeOK ==
    /\ notes \subseteq Facts
    /\ stage \in [Agents -> {"idle", "sized", "calling", "answered", "filling"}]
    /\ snap \in [Agents -> SUBSET Facts]
    /\ kept \subseteq Facts

\* Whoever may read the file (Read and MemorySize wait for the lock) finds in
\* it every fact that was appended while no consolidation was in flight, since a
\* delete, a crash or a failed write last destroyed the file, and that no answer
\* of the API has left out: what consolidations write over each other and over
\* appends never loses such a fact.
KeptNotes ==
    \A p \in Procs : lock[p] = Free => kept \subseteq notes

-----------------------------------------------------------------------------
(* What the documentation says and the code does not do; see the run that   *)
(* expects a violation.                                                     *)

\* README.md:70 on the memory files: "Written atomically (tmp + rename)".  A
\* write that comes to its end, by an error or the end of its process too,
\* leaves a file with the facts that the content before and the new one share.
WrittenAtomically ==
    [][\A a \in Agents :
          stage[a] = "filling" /\ stage'[a] = "idle" => kept \subseteq notes']_<<storeVars, lock>>
=============================================================================
