----------------------------- MODULE AtomicFile -----------------------------
(***************************************************************************)
(* Replacing a whole file by way of a temporary one: WriteSoul and         *)
(* InitSoul of internal/memory/memory.go (WriteGlobal has the same steps   *)
(* on GLOBAL.md and no caller).  A write is os.WriteFile (open and         *)
(* truncate, write, close) on SOUL.md.tmp, then os.Rename over SOUL.md,    *)
(* the whole under the MemoryManager's lock.                               *)
(***************************************************************************)
EXTENDS MemoryLock, Integers, Sequences

CONSTANTS
    Contents,       \* contents to write, as non-empty sequences
    Default         \* defaultSoul, one of Contents

ASSUME FileAssumption ==
    /\ Contents \subseteq Seq(Nat) \ {<<>>}
    /\ Default \in Contents

\* No file at a path.
Absent == <<-1>>

VARIABLES
    file,       \* what is at the path
    tmp,        \* what is at the path with .tmp
    at,         \* where each writer is
    arg         \* arg[g]: the content g is writing

fileVars == <<file, tmp, at, arg>>

\* A handle on tmp is open: Windows then refuses to rename or remove it.
Opened(g)  == at[g] \in {"opened", "written"}
TmpInUse   == \E g \in Writers : Opened(g)

FileInit ==
    /\ file = Absent
    /\ tmp = Absent
    /\ at = [g \in Writers |-> "idle"]
    /\ arg = [g \in Writers |-> Default]

-----------------------------------------------------------------------------
\* InitSoul: os.Stat finds nothing.  It holds no lock yet.
StatAbsent(g) ==
    /\ at[g] = "idle"
    /\ file = Absent
    /\ at' = [at EXCEPT ![g] = "start"]
    /\ arg' = [arg EXCEPT ![g] = Default]
    /\ UNCHANGED <<file, tmp, lock>>

\* WriteSoul(content) is called.
Call(g, content) ==
    /\ at[g] = "idle"
    /\ at' = [at EXCEPT ![g] = "start"]
    /\ arg' = [arg EXCEPT ![g] = content]
    /\ UNCHANGED <<file, tmp, lock>>

Lock(g) ==
    /\ at[g] = "start"
    /\ LockFree(g)
    /\ lock' = Taken(g)
    /\ at' = [at EXCEPT ![g] = "locked"]
    /\ UNCHANGED <<file, tmp, arg>>

\* os.WriteFile opens the temporary file, creating or truncating it.
Open(g) ==
    /\ at[g] = "locked"
    /\ tmp' = <<>>
    /\ at' = [at EXCEPT ![g] = "opened"]
    /\ UNCHANGED <<file, arg, lock>>

\* The content goes to the head of the file, over whatever is there by now.
Written(content) == content \o SubSeq(tmp, Len(content) + 1, Len(tmp))

Write(g) ==
    /\ at[g] = "opened"
    /\ tmp' = Written(arg[g])
    /\ at' = [at EXCEPT ![g] = "written"]
    /\ UNCHANGED <<file, arg, lock>>

Close(g) ==
    /\ at[g] = "written"
    /\ at' = [at EXCEPT ![g] = "closed"]
    /\ UNCHANGED <<file, tmp, arg, lock>>

Return(g) ==
    /\ at' = [at EXCEPT ![g] = "idle"]
    /\ lock' = Released(g)
    /\ UNCHANGED arg

\* os.WriteFile fails: the error is returned, the temporary file stays.
WriteFails(g) ==
    /\ at[g] \in {"locked", "opened"}
    /\ Return(g)
    /\ UNCHANGED <<file, tmp>>

Rename(g) ==
    /\ at[g] = "closed"
    /\ tmp # Absent
    /\ ~TmpInUse
    /\ file' = tmp
    /\ tmp' = Absent
    /\ Return(g)

\* The rename fails (the target may be open elsewhere); os.Remove(tmp) follows.
RenameFails(g) ==
    /\ at[g] = "closed"
    /\ tmp' = IF TmpInUse THEN tmp ELSE Absent
    /\ UNCHANGED file
    /\ Return(g)

\* The process dies: its goroutines, handles and locks go, the files stay.
FileCrash(p) ==
    /\ at' = [g \in Writers |-> IF ProcOf[g] = p THEN "idle" ELSE at[g]]
    /\ UNCHANGED <<file, tmp, arg>>

Step(g) ==
    \/ StatAbsent(g)
    \/ \E content \in Contents \ {Default} : Call(g, content)
    \/ Lock(g)
    \/ Open(g)
    \/ Write(g)
    \/ Close(g)
    \/ WriteFails(g)
    \/ Rename(g)
    \/ RenameFails(g)

FileStep == \E g \in Writers : Step(g)

-----------------------------------------------------------------------------
(* Properties *)

\* Type invariant.
FileTypeOK ==
    /\ at \in [Writers -> {"idle", "start", "locked", "opened", "written", "closed"}]
    /\ arg \in [Writers -> Contents]

\* The file is absent or one of the contents in full, never a part of one or a
\* mixture: "WriteSoul atomically replaces the soul file with content".
FileWhole == file = Absent \/ file \in Contents

\* A write that reports success has put its own content in place.
SuccessIsOwnContent ==
    [][\A g \in Writers :
          at[g] = "closed" /\ at'[g] = "idle" /\ file' # file => file' = arg[g]]_<<fileVars, lock>>
=============================================================================
