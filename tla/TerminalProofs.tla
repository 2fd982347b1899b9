---------------------------- MODULE TerminalProofs ----------------------------
(***************************************************************************)
(* The terminal.  Repl: the agent, the session in the prompt and the       *)
(* messages stay together, and readLine never runs during a request, for   *)
(* any lines and any turn limit.  LineEditor: it implements TextLine, and  *)
(* a draft comes back, for lines and histories of any length.  Terminal:   *)
(* each of the two keeps what it promises when they are joined.            *)
(***************************************************************************)
EXTENDS Terminal, WellFoundedInduction, TLAPS

\* A request is going on exactly while Run is called, and then there is room
\* for its turn.
Running ==
    /\ agentRunning <=> pc = "run"
    /\ pc = "run" => messages[session] < MaxTurns

\* The inductive invariant.
RInv == TypeOK /\ OneContext /\ Running

USE DEF loop, bg, Objs, NewAgent, GoesTo, Done, Handling

LEMMA ReplInit == Init => RInv
<1> SUFFICES ASSUME Init PROVE RInv
  OBVIOUS
<1>1. PICK attached \in BOOLEAN :
         agentObj = [obj |-> 1, thinking |-> FALSE, image |-> attached]
  BY DEF Init
<1>2. agentObj \in [obj : Objs, thinking : BOOLEAN, image : BOOLEAN]
  BY <1>1
<1>3. OneContext
  BY <1>1 DEF Init, OneContext
<1>4. Running
  BY DEF Init, Running
<1>5. messages \in [Objs -> 0..MaxTurns] /\ since \in 0..MaxTurns
  BY ReplAssumption DEF ReplAssumption, Init
<1>6. TypeOK
  BY <1>2, <1>5 DEF Init, TypeOK
<1> QED
  BY <1>3, <1>4, <1>6 DEF RInv

\* A step that leaves the agent, the messages and the place of a request alone.
LEMMA Untouched ==
    ASSUME RInv, UNCHANGED <<loop, since, agentRunning>>, pc # "run", pc' # "run"
    PROVE  OneContext' /\ Running'
BY DEF RInv, OneContext, Running

LEMMA ReplStep == RInv /\ [Next]_vars => RInv'
<1> SUFFICES ASSUME RInv, [Next]_vars PROVE RInv'
  OBVIOUS
<1>0. MaxTurns \in Nat \ {0}
  BY ReplAssumption DEF ReplAssumption
<1>1. CASE Signal \/ TaskStarts \/ PollingEnds \/ TaskEnds
  <2>1. cancelled' \in BOOLEAN /\ polling' \in BOOLEAN /\ task' \in BOOLEAN
    BY <1>1 DEF Signal, TaskStarts, PollingEnds, TaskEnds, RInv, TypeOK
  <2>2. UNCHANGED <<pc, line, loop, since, agentRunning, raw>>
    BY <1>1 DEF Signal, TaskStarts, PollingEnds, TaskEnds
  <2>3. TypeOK'
    BY <2>1, <2>2 DEF RInv, TypeOK
  <2>4. OneContext' /\ Running'
    BY <2>2 DEF RInv, OneContext, Running
  <2> QED
    BY <2>3, <2>4 DEF RInv
<1>2. CASE ReadLine
  <2>1. pc = "read" /\ pc' \in {"handle", "check", "leave"} /\ line' \in Lines \cup {"other"}
    BY <1>2 DEF ReadLine, LineEntered, BlankEntered, ReadEnds, RInv, TypeOK
  <2>2. UNCHANGED <<loop, since, agentRunning, cancelled, raw, bg>>
    BY <1>2 DEF ReadLine, LineEntered, BlankEntered, ReadEnds
  <2>3. TypeOK'
    BY <2>1, <2>2 DEF RInv, TypeOK
  <2> QED
    BY <2>1, <2>2, <2>3, Untouched DEF RInv
<1>3. CASE \/ Check \/ Leave \/ StopScheduler
           \/ CommandFails \/ cmdOther \/ cmdExit \/ cmdEdit \/ NotepadCloses
  <2>1. /\ UNCHANGED <<line, loop, since, agentRunning, cancelled, bg>>
        /\ pc # "run" /\ pc' # "run"
        /\ pc' \in {"leave", "read", "stop", "ended", "check", "notepad"}
    BY <1>3 DEF Check, CtxDone, Leave, Restored, StopScheduler, CommandFails, cmdOther,
                cmdExit, cmdEdit, NotepadCloses
  <2>2. raw' \in BOOLEAN
    BY <1>3 DEF Check, Leave, Restored, StopScheduler, CommandFails, cmdOther,
                cmdExit, cmdEdit, NotepadCloses, RInv, TypeOK
  <2>3. TypeOK'
    BY <2>1, <2>2 DEF RInv, TypeOK
  <2> QED
    BY <2>1, <2>3, Untouched DEF RInv
<1>4. CASE cmdNewOrSwitch
  BY <1>0, <1>4 DEF cmdNewOrSwitch, Enters, RInv, TypeOK, OneContext, Running
<1>5. CASE cmdReset
  BY <1>0, <1>5 DEF cmdReset, RInv, TypeOK, OneContext, Running
<1>6. CASE cmdThink \/ cmdAttach
  <2>1. /\ UNCHANGED <<line, session, messages, agentRunning, cancelled, raw, bg, since>>
        /\ pc = "handle" /\ pc' = "check"
    BY <1>6 DEF cmdThink, cmdAttach
  <2>2. /\ agentObj' \in [obj : Objs, thinking : BOOLEAN, image : BOOLEAN]
        /\ agentObj'.obj = agentObj.obj
    BY <1>6 DEF cmdThink, cmdAttach, RInv, TypeOK
  <2>3. TypeOK'
    BY <2>1, <2>2 DEF RInv, TypeOK
  <2> QED
    BY <2>1, <2>2, <2>3 DEF RInv, OneContext, Running
<1>7. CASE runAgent
  <2>1. /\ agentRunning' = TRUE /\ pc' = "run"
        /\ agentObj' = [obj |-> session, thinking |-> FALSE, image |-> FALSE]
        /\ UNCHANGED <<line, session, messages, cancelled, raw, bg, since>>
    BY <1>7 DEF runAgent
  <2>2. messages[session] < MaxTurns
    BY <1>0, <1>7 DEF runAgent, AtLimit, RInv, TypeOK
  <2>3. TypeOK'
    BY <2>1 DEF RInv, TypeOK
  <2>4. OneContext' /\ Running'
    BY <2>1, <2>2 DEF RInv, OneContext, Running
  <2> QED
    BY <2>3, <2>4 DEF RInv
<1>8. CASE RunRefused
  BY <1>0, <1>8 DEF RunRefused, AtLimit, RInv, TypeOK, OneContext, Running
<1>9. CASE RunReturns
  <2>1. PICK n \in {0, 1} : Remembers(n)
    BY <1>9 DEF RunReturns
  <2>2. /\ pc = "run" /\ pc' = "check" /\ agentRunning' = FALSE
        /\ UNCHANGED <<line, session, agentObj, cancelled, raw, bg>>
    BY <1>9 DEF RunReturns, TurnEnds
  <2>3. /\ agentObj.obj = session /\ messages[session] = since /\ messages[session] < MaxTurns
        /\ messages \in [Objs -> 0..MaxTurns] /\ session \in Objs
    BY <2>2 DEF RInv, TypeOK, OneContext, Running
  <2>4. /\ messages' \in [Objs -> 0..MaxTurns] /\ since' \in 0..MaxTurns
        /\ messages'[session] = since'
    BY <1>0, <2>1, <2>3 DEF Remembers
  <2>5. TypeOK'
    BY <2>2, <2>4 DEF RInv, TypeOK
  <2> QED
    BY <2>2, <2>3, <2>4, <2>5 DEF RInv, OneContext, Running
<1>10. CASE UNCHANGED vars
  BY <1>10 DEF vars, RInv, TypeOK, OneContext, Running
<1> QED
  BY <1>1, <1>2, <1>3, <1>4, <1>5, <1>6, <1>7, <1>8, <1>9, <1>10 DEF Next, LoopStep

\* The loop of REPL.Run and what is in it stay well formed.
THEOREM ReplInvariance == Spec => []RInv
BY ReplInit, ReplStep, PTL DEF Spec

\* Run, its commands, runAgent and main keep every variable in its range: no
\* handler comes back to a place that the loop does not know.
THEOREM ReplTypes == Spec => []TypeOK
<1>1. RInv => TypeOK
  BY DEF RInv
<1> QED
  BY <1>1, ReplInvariance, PTL

\* handleCommand and runAgent: whatever fails, the agent is that of the session
\* in the prompt and remembers the turns since it was entered or reset.
THEOREM Context == Spec => []OneContext
<1>1. RInv => OneContext
  BY DEF RInv
<1> QED
  BY <1>1, ReplInvariance, PTL

\* readLine: no request goes on while a line is read, so that the branch of
\* Ctrl+C that cancels one is never taken.
THEOREM ReadsAlone == Spec => [](pc = "read" => ~agentRunning)
<1>1. RInv => (pc = "read" => ~agentRunning)
  BY DEF RInv, Running
<1> QED
  BY <1>1, ReplInvariance, PTL

-----------------------------------------------------------------------------
(* LineEditor *)

\* A text cut in two at the cursor, and put together again.
LEMMA Cut ==
    ASSUME NEW S, NEW b \in Seq(S), NEW k \in 0..Len(b)
    PROVE  /\ SubSeq(b, 1, k) \in Seq(S) /\ Len(SubSeq(b, 1, k)) = k
           /\ SubSeq(b, k + 1, Len(b)) \in Seq(S) /\ Len(SubSeq(b, k + 1, Len(b))) = Len(b) - k
           /\ SubSeq(b, 1, k) \o SubSeq(b, k + 1, Len(b)) = b
<1> DEFINE l == SubSeq(b, 1, k)
           r == SubSeq(b, k + 1, Len(b))
<1>1. /\ l \in Seq(S) /\ Len(l) = k /\ r \in Seq(S) /\ Len(r) = Len(b) - k
      /\ \A i \in 1..k : l[i] = b[i]
      /\ \A i \in 1..Len(b) - k : r[i] = b[k + i]
  OBVIOUS
<1> HIDE DEF l, r
<1> DEFINE u == l \o r
<1>2. u \in Seq(S) /\ Len(u) = Len(l) + Len(r) /\ Len(b) \in Nat
  BY <1>1
<1>3. \A i \in 1..Len(l) + Len(r) : u[i] = IF i <= Len(l) THEN l[i] ELSE r[i - Len(l)]
  BY <1>1
<1> HIDE DEF u
<1>4. Len(u) = Len(b) /\ \A i \in 1..Len(b) : u[i] = IF i <= k THEN l[i] ELSE r[i - k]
  BY <1>1, <1>2, <1>3
<1>5. ASSUME NEW i \in 1..Len(b) PROVE u[i] = b[i]
  <2>1. CASE i <= k
    BY <1>1, <1>4, <2>1
  <2>2. CASE i > k
    <3>1. u[i] = r[i - k] /\ i - k \in 1..Len(b) - k
      BY <1>2, <1>4, <2>2
    <3>2. r[i - k] = b[k + (i - k)] /\ k + (i - k) = i
      BY <1>1, <3>1
    <3> QED
      BY <3>1, <3>2
  <2> QED
    BY <1>2, <2>1, <2>2
<1>6. u = b
  BY <1>2, <1>4, <1>5
<1> QED
  BY <1>1, <1>6 DEF l, r, u

LEMMA Join ==
    ASSUME NEW S, NEW l \in Seq(S), NEW r \in Seq(S)
    PROVE  /\ l \o r \in Seq(S) /\ Len(l) \in 0..Len(l \o r)
           /\ SubSeq(l \o r, 1, Len(l)) = l
           /\ SubSeq(l \o r, Len(l) + 1, Len(l \o r)) = r
OBVIOUS

\* The parts beside the cursor when it moves or a character goes.
LEMMA ShiftLeft ==
    ASSUME NEW S, NEW b \in Seq(S), NEW k \in 1..Len(b)
    PROVE  /\ SubSeq(b, 1, k - 1) = Front(SubSeq(b, 1, k))
           /\ SubSeq(b, k, Len(b)) = <<Last(SubSeq(b, 1, k))>> \o SubSeq(b, k + 1, Len(b))
BY DEF Front, Last

LEMMA ShiftRight ==
    ASSUME NEW S, NEW b \in Seq(S), NEW k \in 0..Len(b) - 1
    PROVE  /\ SubSeq(b, k + 2, Len(b)) = Tail(SubSeq(b, k + 1, Len(b)))
           /\ SubSeq(b, 1, k + 1) = Append(SubSeq(b, 1, k), Head(SubSeq(b, k + 1, Len(b))))
<1>1. SubSeq(b, k + 2, Len(b)) = Tail(SubSeq(b, k + 1, Len(b)))
  OBVIOUS
<1>2. SubSeq(b, 1, k + 1) = Append(SubSeq(b, 1, k), Head(SubSeq(b, k + 1, Len(b))))
  OBVIOUS
<1> QED
  BY <1>1, <1>2

\* What goes in or out beside the cursor changes the part it is in.
LEMMA Inserted ==
    ASSUME NEW S, NEW b \in Seq(S), NEW k \in 0..Len(b), NEW c \in S
    PROVE  /\ InsertAt(b, k + 1, c) = Append(SubSeq(b, 1, k), c) \o SubSeq(b, k + 1, Len(b))
           /\ InsertAt(b, k + 1, c) \in Seq(S) /\ Len(InsertAt(b, k + 1, c)) = Len(b) + 1
<1> DEFINE l == SubSeq(b, 1, k)
           r == SubSeq(b, k + 1, Len(b))
<1>0. (k + 1) - 1 = k
  OBVIOUS
<1>1. InsertAt(b, k + 1, c) = l \o <<c>> \o r
  BY <1>0 DEF InsertAt
<1>2. l \in Seq(S) /\ Len(l) = k /\ r \in Seq(S) /\ Len(r) = Len(b) - k
  BY Cut
<1> HIDE DEF l, r
<1>3. l \o <<c>> = Append(l, c) /\ Append(l, c) \in Seq(S) /\ Len(Append(l, c)) = k + 1
  BY <1>2
<1>4. Append(l, c) \o r \in Seq(S) /\ Len(Append(l, c) \o r) = Len(b) + 1
  BY <1>2, <1>3
<1>5. InsertAt(b, k + 1, c) = Append(l, c) \o r
  BY <1>1, <1>3
<1> QED
  BY <1>4, <1>5 DEF l, r

LEMMA Removed ==
    ASSUME NEW S, NEW b \in Seq(S), NEW k \in 1..Len(b)
    PROVE  /\ RemoveAt(b, k) = SubSeq(b, 1, k - 1) \o SubSeq(b, k + 1, Len(b))
           /\ RemoveAt(b, k) \in Seq(S) /\ Len(RemoveAt(b, k)) = Len(b) - 1
<1> DEFINE l == SubSeq(b, 1, k - 1)
           r == SubSeq(b, k + 1, Len(b))
<1>1. RemoveAt(b, k) = l \o r
  BY DEF RemoveAt
<1>2. l \in Seq(S) /\ Len(l) = k - 1 /\ r \in Seq(S) /\ Len(r) = Len(b) - k
  OBVIOUS
<1> HIDE DEF l, r
<1>3. l \o r \in Seq(S) /\ Len(l \o r) = Len(b) - 1
  BY <1>2, SMTT(20)
<1> QED
  BY <1>1, <1>3 DEF l, r

\* Every set of numbers with an element has a least one.
LEMMA LeastNumber ==
    ASSUME NEW T \in SUBSET Nat, T # {}
    PROVE  \E x \in T : \A y \in T : x <= y
<1> DEFINE R == {ss \in Nat \X Nat : ss[1] < ss[2]}
<1>1. IsWellFoundedOn(R, Nat)
  BY NatLessThanWellFounded DEF OpToRel
<1>2. \A x, y \in Nat : <<y, x>> \in R <=> y < x
  OBVIOUS
<1> HIDE DEF R
<1>3. PICK x \in T : \A y \in T : ~ (<<y, x>> \in R)
  BY <1>1, WFMin
<1>4. ASSUME NEW y \in T PROVE x <= y
  <2>1. x \in Nat /\ y \in Nat /\ ~(y < x)
    BY <1>2, <1>3
  <2> QED
    BY <2>1
<1> QED
  BY <1>4

LEMMA LeastAndGreatest ==
    ASSUME NEW n \in Nat, NEW T \in SUBSET (1..n), T # {}
    PROVE  /\ \E x \in T : \A y \in T : x <= y
           /\ \E x \in T : \A y \in T : x >= y
<1>1. \E x \in T : \A y \in T : x <= y
  BY LeastNumber
<1>2. \E x \in T : \A y \in T : x >= y
  <2> DEFINE U == {n - y : y \in T}
  <2>1. \A y \in T : n - y \in Nat
    OBVIOUS
  <2> HIDE DEF U
  <2>2. U \in SUBSET Nat /\ U # {}
    BY <2>1 DEF U
  <2>3. PICK u \in U : \A w \in U : u <= w
    BY <2>2, LeastNumber
  <2>4. PICK x \in T : u = n - x
    BY DEF U
  <2>5. \A y \in T : n - x <= n - y
    BY <2>3, <2>4 DEF U
  <2> QED
    BY <2>5
<1> QED
  BY <1>1, <1>2

\* A text without its blank ends is a text.
LEMMA Trimmed == ASSUME NEW text \in Texts PROVE TrimSpace(text) \in Texts
<1> DEFINE ink == {i \in DOMAIN text : text[i] \notin Blank}
           first == CHOOSE i \in ink : \A j \in ink : i <= j
           last == CHOOSE i \in ink : \A j \in ink : i >= j
<1>1. text \in Seq(Chars \cup {NewLine}) /\ Len(text) \in Nat /\ ink \subseteq 1..Len(text)
  BY DEF Texts
<1>2. CASE ink = {}
  BY <1>2 DEF TrimSpace, Texts
<1>3. CASE ink # {}
  <2>1. first \in ink /\ last \in ink
    BY <1>1, <1>3, LeastAndGreatest
  <2>2. TrimSpace(text) = SubSeq(text, first, last)
    BY <1>3 DEF TrimSpace
  <2> HIDE DEF ink, first, last
  <2>3. first \in 1..Len(text) /\ last \in 1..Len(text)
    BY <1>1, <2>1
  <2> QED
    BY <1>1, <2>2, <2>3 DEF Texts
<1> QED
  BY <1>2, <1>3

-----------------------------------------------------------------------------
\* The text a user has typed on the first line of an input is on the line, or
\* the editor has it: it is the one saved when the user left it.
Drafts ==
    cont = <<>> => /\ home <=> histPos = Len(history)
                   /\ ~home => saved = own

EInv == EditorTypeOK /\ Drafts

LEMMA EditorStarts == EditorInit => EInv
BY DEF EditorInit, EInv, EditorTypeOK, Drafts, Texts

LEMMA EditorTypes == EditorTypeOK /\ [EditorNext]_editorVars => EditorTypeOK'
<1> SUFFICES ASSUME EditorTypeOK, [EditorNext]_editorVars PROVE EditorTypeOK'
  OBVIOUS
<1> USE DEF EditorTypeOK, Texts, Reading
<1>0. cursor \in 0..Len(buf) /\ Len(buf) \in Nat /\ <<>> \in Seq(Chars \cup {NewLine}) /\ Len(<<>>) = 0
  OBVIOUS
<1>1. ASSUME NEW c \in Chars, Printable(c) PROVE EditorTypeOK'
  <2>1. /\ buf' \in Seq(Chars \cup {NewLine}) /\ Len(buf') = Len(buf) + 1
        /\ cursor' = cursor + 1
    <3>1. c \in Chars \cup {NewLine} /\ buf' = InsertAt(buf, cursor + 1, c) /\ cursor' = cursor + 1
      BY <1>1 DEF Printable, insert
    <3>2. buf \in Seq(Chars \cup {NewLine}) /\ cursor \in 0..Len(buf)
      OBVIOUS
    <3> DEFINE S == Chars \cup {NewLine}
    <3>3. c \in S /\ buf \in Seq(S)
      BY <3>1, <3>2
    <3> HIDE DEF S
    <3>4. \A b \in Seq(S) : \A k \in 0..Len(b) : \A x \in S :
             InsertAt(b, k + 1, x) \in Seq(S) /\ Len(InsertAt(b, k + 1, x)) = Len(b) + 1
      BY ONLY Inserted
    <3>5. InsertAt(buf, cursor + 1, c) \in Seq(S) /\ Len(InsertAt(buf, cursor + 1, c)) = Len(buf) + 1
      BY ONLY <3>2, <3>3, <3>4
    <3> QED
      BY <3>1, <3>5 DEF S
  <2> QED
    BY <1>0, <1>1, <2>1 DEF Printable, aux
<1>2. CASE Backspace \/ CtrlD \/ Delete
  <2>1. ASSUME NEW i \in 1..Len(buf)
        PROVE  RemoveAt(buf, i) \in Seq(Chars \cup {NewLine}) /\ Len(RemoveAt(buf, i)) = Len(buf) - 1
    BY Removed
  <2>2. \/ UNCHANGED editor
        \/ cursor \in 1..Len(buf) /\ buf' = RemoveAt(buf, cursor) /\ cursor' = cursor - 1
        \/ cursor + 1 \in 1..Len(buf) /\ buf' = RemoveAt(buf, cursor + 1) /\ cursor' = cursor
    BY <1>0, <1>2 DEF Backspace, CtrlD, Delete, deleteBack, deleteForward, editor
  <2>3. buf' \in Seq(Chars \cup {NewLine}) /\ cursor' \in 0..Len(buf')
    BY <1>0, <2>1, <2>2 DEF editor
  <2> QED
    BY <1>2, <2>3 DEF Backspace, CtrlD, Delete, aux
<1>3. CASE CtrlC \/ Escape \/ AfterEscape \/ OtherKey
  <2>1. buf' = buf /\ cursor' \in 0..Len(buf)
    BY <1>0, <1>3 DEF CtrlC, Escape, AfterEscape, OtherKey, moveLeft, moveRight, editor
  <2> QED
    BY <1>3, <2>1 DEF CtrlC, Escape, AfterEscape, OtherKey, aux
<1>4. CASE Continue
  <2>1. cont' \in Seq(Chars \cup {NewLine})
    BY <1>4 DEF Continue, Front, GoesOn
  <2> QED
    BY <1>0, <1>4, <2>1 DEF Continue, editorFromString
<1>5. CASE Return
  <2>1. TrimSpace(cont \o buf) \in Seq(Chars \cup {NewLine})
    <3>1. cont \o buf \in Texts
      BY DEF Texts
    <3> QED
      BY <3>1, Trimmed
  <2>2. history' \in Seq(Seq(Chars \cup {NewLine})) /\ Len(history') \in Nat
    BY <1>5, <2>1 DEF Return, Remembered
  <2> QED
    BY <1>0, <1>5, <2>2 DEF Return, editorFromString
<1>6. CASE Up \/ Down
  <2>1. \A i \in 1..Len(history) : history[i] \in Seq(Chars \cup {NewLine})
    OBVIOUS
  <2>2. /\ buf' \in Seq(Chars \cup {NewLine}) /\ cursor' = Len(buf')
        /\ histPos' \in 0..Len(history) /\ history' = history
    <3>1. CASE Up
      BY <2>1, <3>1 DEF Up, editorFromString
    <3>2. CASE Down
      BY <2>1, <3>2 DEF Down, editorFromString
    <3> QED
      BY <1>6, <3>1, <3>2
  <2>3. saved' \in Seq(Chars \cup {NewLine}) /\ own' \in Seq(Chars \cup {NewLine}) /\ home' \in BOOLEAN
    BY <1>6 DEF Up, Down, SavedOnUp, Leaves
  <2> QED
    BY <1>0, <1>6, <2>2, <2>3 DEF Up, Down
<1>7. CASE UNCHANGED editorVars
  BY <1>7 DEF editorVars
<1> QED
  BY <1>1, <1>2, <1>3, <1>4, <1>5, <1>6, <1>7 DEF EditorNext

LEMMA DraftsStay == EInv /\ [EditorNext]_editorVars => Drafts'
<1> SUFFICES ASSUME EInv, [EditorNext]_editorVars PROVE Drafts'
  OBVIOUS
<1> USE DEF Drafts
<1>1. Len(history) \in Nat /\ histPos \in 0..Len(history)
  BY DEF EInv, EditorTypeOK
<1>2. CASE UNCHANGED <<cont, history, histPos, saved, aux>>
  BY <1>2 DEF EInv, aux
<1>3. CASE Continue
  <2>1. cont' # <<>>
    BY <1>3 DEF Continue, EInv, EditorTypeOK, Texts, GoesOn, Front
  <2> QED
    BY <2>1
<1>4. CASE Return
  BY <1>4 DEF Return
<1>5. CASE Up
  BY <1>1, <1>5 DEF Up, SavedOnUp, Leaves, EInv
<1>6. CASE Down
  <2>1. /\ home' <=> histPos' = Len(history')
        /\ cont' = cont /\ saved' = saved /\ own' = IF home THEN buf ELSE own
        /\ histPos # Len(history)
    <3>1. home' = (histPos' = Len(history)) /\ history' = history
      BY <1>6 DEF Down
    <3>2. home' <=> histPos' = Len(history')
      BY <3>1, Zenon
    <3> QED
      BY <1>1, <1>6, <3>2 DEF Down
  <2> QED
    BY <2>1 DEF EInv
<1> QED
  BY <1>2, <1>3, <1>4, <1>5, <1>6
     DEF EditorNext, editorVars, aux, Printable, Backspace, CtrlD, CtrlC, Escape, AfterEscape,
         OtherKey, Delete

LEMMA EditorInvariance == EditorSpec => []EInv
<1>1. EInv /\ [EditorNext]_editorVars => EInv'
  BY EditorTypes, DraftsStay DEF EInv
<1> QED
  BY EditorStarts, <1>1, PTL DEF EditorSpec

\* lineEditor and readLine: the cursor stays in the buffer, the position in the
\* history, and only texts get into it.
THEOREM EditorTypesCorrect == EditorSpec => []EditorTypeOK
<1>1. EInv => EditorTypeOK
  BY DEF EInv
<1> QED
  BY <1>1, EditorInvariance, PTL

\* savedCurrent: whoever comes down to the end of the history has the text back
\* that was on the line when it was left, on whatever way.
THEOREM DraftsAreKept == EditorSpec => DraftKept
<1>1. EInv /\ [EditorNext]_editorVars
         => [Down /\ ~home /\ cont = <<>> /\ histPos' = Len(history) => buf' = own]_editorVars
  BY DEF EInv, Drafts, Down, editorFromString
<1> QED
  BY <1>1, EditorInvariance, PTL DEF EditorSpec, DraftKept

-----------------------------------------------------------------------------
(* The editor is the text of TextLine *)

Left  == SubSeq(buf, 1, cursor)
Right == SubSeq(buf, cursor + 1, Len(buf))

\* The text after an operation, from its two parts.
LEMMA Parts ==
    ASSUME NEW S, NEW l \in Seq(S), NEW r \in Seq(S), buf' = l \o r, cursor' = Len(l)
    PROVE  Left' = l /\ Right' = r
<1>1. SubSeq(l \o r, 1, Len(l)) = l /\ SubSeq(l \o r, Len(l) + 1, Len(l \o r)) = r
  BY Join
<1> QED
  BY <1>1 DEF Left, Right

\* A line that comes up whole is to the left of the cursor.
LEMMA Whole ==
    ASSUME NEW S, NEW text \in Seq(S)
    PROVE  SubSeq(text, 1, Len(text)) = text /\ SubSeq(text, Len(text) + 1, Len(text)) = <<>>
OBVIOUS

\* A character, and what the keys beside it do.
LEMMA TypesText ==
    ASSUME EditorTypeOK, NEW c \in Chars, insert(c)
    PROVE  Left' = Append(Left, c) /\ Right' = Right
<1> DEFINE S == Chars \cup {NewLine}
<1>1. buf \in Seq(S) /\ cursor \in 0..Len(buf) /\ c \in S /\ Len(buf) \in Nat
  BY DEF EditorTypeOK, Texts
<1>2. buf' = InsertAt(buf, cursor + 1, c) /\ cursor' = cursor + 1
  BY DEF insert
<1> HIDE DEF S
<1>3. Left \in Seq(S) /\ Len(Left) = cursor /\ Right \in Seq(S)
  BY <1>1, Cut DEF Left, Right
<1>4. buf' = Append(Left, c) \o Right
  <2>1. \A b \in Seq(S) : \A k \in 0..Len(b) : \A x \in S :
           InsertAt(b, k + 1, x) = Append(SubSeq(b, 1, k), x) \o SubSeq(b, k + 1, Len(b))
    BY ONLY Inserted
  <2> QED
    BY ONLY <1>1, <1>2, <2>1 DEF Left, Right
<1>5. Append(Left, c) \in Seq(S) /\ Len(Append(Left, c)) = cursor'
  BY <1>1, <1>2, <1>3
<1> QED
  BY <1>3, <1>4, <1>5, Parts

LEMMA ErasesLeft ==
    ASSUME EditorTypeOK, cursor # 0, deleteBack
    PROVE  Left # <<>> /\ Left' = Front(Left) /\ Right' = Right
<1> DEFINE S == Chars \cup {NewLine}
<1>1. buf \in Seq(S) /\ cursor \in 1..Len(buf) /\ cursor \in 0..Len(buf) /\ Len(buf) \in Nat
  BY DEF EditorTypeOK, Texts
<1>2. buf' = RemoveAt(buf, cursor) /\ cursor' = cursor - 1
  BY DEF deleteBack
<1> HIDE DEF S
<1>3. Left \in Seq(S) /\ Len(Left) = cursor /\ Right \in Seq(S)
  BY <1>1, Cut DEF Left, Right
<1>4. SubSeq(buf, 1, cursor - 1) = Front(Left)
  BY <1>1, ShiftLeft DEF Left
<1>5. buf' = Front(Left) \o Right
  BY <1>1, <1>2, <1>4, Removed DEF Right
<1>6. Front(Left) \in Seq(S) /\ Len(Front(Left)) = cursor' /\ Left # <<>>
  BY <1>1, <1>2, <1>3 DEF Front
<1> QED
  BY <1>3, <1>5, <1>6, Parts

LEMMA ErasesRight ==
    ASSUME EditorTypeOK, cursor < Len(buf), deleteForward
    PROVE  Right # <<>> /\ Left' = Left /\ Right' = Tail(Right)
<1> DEFINE S == Chars \cup {NewLine}
<1>1. /\ buf \in Seq(S) /\ cursor + 1 \in 1..Len(buf) /\ cursor \in 0..Len(buf) /\ Len(buf) \in Nat
      /\ (cursor + 1) - 1 = cursor /\ (cursor + 1) + 1 = cursor + 2
  BY DEF EditorTypeOK, Texts
<1>2. buf' = RemoveAt(buf, cursor + 1) /\ cursor' = cursor
  BY <1>1 DEF deleteForward
<1> HIDE DEF S
<1>3. Left \in Seq(S) /\ Len(Left) = cursor /\ Right \in Seq(S) /\ Len(Right) = Len(buf) - cursor
  BY <1>1, Cut DEF Left, Right
<1>4. SubSeq(buf, cursor + 2, Len(buf)) = Tail(Right)
  BY <1>1, ShiftRight DEF Right
<1>5. buf' = Left \o Tail(Right)
  BY <1>1, <1>2, <1>4, Removed DEF Left
<1>6. Tail(Right) \in Seq(S) /\ Right # <<>>
  BY <1>1, <1>3
<1> QED
  BY <1>2, <1>3, <1>5, <1>6, Parts

LEMMA MovesText ==
    ASSUME EditorTypeOK, UNCHANGED buf
    PROVE  /\ cursor > 0 /\ cursor' = cursor - 1 =>
                 Left # <<>> /\ Left' = Front(Left) /\ Right' = <<Last(Left)>> \o Right
           /\ cursor < Len(buf) /\ cursor' = cursor + 1 =>
                 Right # <<>> /\ Left' = Append(Left, Head(Right)) /\ Right' = Tail(Right)
<1> DEFINE S == Chars \cup {NewLine}
<1>1. /\ buf \in Seq(S) /\ cursor \in 0..Len(buf) /\ Len(buf) \in Nat
      /\ (cursor - 1) + 1 = cursor /\ (cursor + 1) + 1 = cursor + 2
  BY DEF EditorTypeOK, Texts
<1> HIDE DEF S
<1>2. Len(Left) = cursor /\ Len(Right) = Len(buf) - cursor
  BY <1>1, Cut DEF Left, Right
<1>3. Left' = SubSeq(buf, 1, cursor') /\ Right' = SubSeq(buf, cursor' + 1, Len(buf))
  BY DEF Left, Right
<1>4. CASE cursor > 0 /\ cursor' = cursor - 1
  <2>1. /\ SubSeq(buf, 1, cursor - 1) = Front(Left)
        /\ SubSeq(buf, cursor, Len(buf)) = <<Last(Left)>> \o Right
    BY <1>1, <1>4, ShiftLeft DEF Left, Right
  <2> QED
    BY <1>1, <1>2, <1>3, <1>4, <2>1
<1>5. CASE cursor < Len(buf) /\ cursor' = cursor + 1
  <2>1. /\ cursor \in 0..Len(buf) - 1
        /\ SubSeq(buf, cursor + 2, Len(buf)) = Tail(Right)
        /\ SubSeq(buf, 1, cursor + 1) = Append(Left, Head(Right))
    BY <1>1, <1>5, ShiftRight, SMTT(20) DEF Left, Right
  <2> QED
    BY <1>1, <1>2, <1>3, <1>5, <2>1
<1> QED
  BY <1>4, <1>5

LEMMA ShowsText ==
    ASSUME NEW text \in Texts, editorFromString(text)
    PROVE  Left' = text /\ Right' = <<>>
BY Whole DEF Left, Right, Texts, editorFromString

\* A line is entered: what is remembered is no blank line and no repetition.
LEMMA Remembering ==
    ASSUME NEW text \in Texts, history \in Seq(Texts)
    PROVE  \/ Remembered(text) = history
           \/ /\ Remembered(text) # <<>> /\ Front(Remembered(text)) = history
              /\ Last(Remembered(text)) # <<>>
              /\ history # <<>> => Last(history) # Last(Remembered(text))
<1>1. CASE text = <<>> \/ (history # <<>> /\ Last(history) = text)
  BY <1>1 DEF Remembered
<1>2. CASE text # <<>> /\ (history # <<>> => Last(history) # text)
  <2>1. Remembered(text) = Append(history, text)
    BY <1>2 DEF Remembered
  <2>2. /\ Append(history, text) # <<>> /\ Front(Append(history, text)) = history
        /\ Last(Append(history, text)) = text
    BY DEF Front, Last
  <2> QED
    BY <1>2, <2>1, <2>2
<1> QED
  BY <1>1, <1>2

\* Every step of the editor is one of the text or leaves it alone.
LEMMA TextStep ==
    ASSUME EInv, [EditorNext]_editorVars
    PROVE  [Text!TextNext]_(Text!tvars)
<1> USE DEF EInv
<1>0. /\ EditorTypeOK /\ history \in Seq(Texts) /\ saved \in Texts /\ <<>> \in Texts
      /\ cursor \in 0..Len(buf) /\ Len(buf) \in Nat /\ histPos \in 0..Len(history)
      /\ \A i \in 1..Len(history) : history[i] \in Texts
  BY DEF EditorTypeOK, Texts
<1>1. ASSUME Left' = Left, Right' = Right, UNCHANGED <<history, saved>>
      PROVE  UNCHANGED Text!tvars
  BY <1>1 DEF Left, Right, Text!tvars
<1>2. ASSUME UNCHANGED <<editor, history, saved>> PROVE UNCHANGED Text!tvars
  BY <1>2 DEF editor, Text!tvars
<1>3. ASSUME NEW c \in Chars, Printable(c) PROVE Text!TextNext
  <2>1. Left' = Append(Left, c) /\ Right' = Right
    BY <1>0, <1>3, TypesText DEF Printable
  <2>2. Text!Type(c)
    BY <1>3, <2>1 DEF Printable, Left, Right, Text!Type
  <2> QED
    BY <2>2 DEF Text!TextNext
<1>4. CASE Backspace
  <2>1. CASE cursor = 0
    BY <1>2, <1>4, <2>1 DEF Backspace, deleteBack
  <2>2. CASE cursor # 0
    <3>1. Left # <<>> /\ Left' = Front(Left) /\ Right' = Right
      BY <1>0, <1>4, <2>2, ErasesLeft DEF Backspace
    <3>2. Text!EraseLeft
      BY <1>4, <3>1 DEF Backspace, Left, Right, Text!EraseLeft, Front, Text!Front
    <3> QED
      BY <3>2 DEF Text!TextNext
  <2> QED
    BY <2>1, <2>2
<1>5. CASE CtrlD \/ Delete
  <2>1. deleteForward /\ UNCHANGED <<history, saved>>
    BY <1>5 DEF CtrlD, Delete
  <2>2. CASE cursor >= Len(buf)
    BY <1>2, <2>1, <2>2 DEF deleteForward, editor
  <2>3. CASE cursor < Len(buf)
    <3>1. Right # <<>> /\ Left' = Left /\ Right' = Tail(Right)
      BY <1>0, <2>1, <2>3, ErasesRight
    <3>2. Text!EraseRight
      BY <2>1, <3>1 DEF Left, Right, Text!EraseRight
    <3> QED
      BY <3>2 DEF Text!TextNext
  <2> QED
    BY <1>0, <2>2, <2>3
<1>6. CASE CtrlC \/ Escape \/ AfterEscape \/ UNCHANGED editorVars
  BY <1>2, <1>6 DEF CtrlC, Escape, AfterEscape, editorVars, editor
<1>7. CASE OtherKey
  <2>1. UNCHANGED <<buf, history, saved>>
    BY <1>7 DEF OtherKey, moveLeft, moveRight, editor
  <2>2. CASE cursor' = cursor
    BY <1>2, <2>1, <2>2 DEF editor
  <2>3. CASE cursor > 0 /\ cursor' = cursor - 1
    <3>1. Left # <<>> /\ Left' = Front(Left) /\ Right' = <<Last(Left)>> \o Right
      BY <1>0, <2>1, <2>3, MovesText
    <3>2. Text!MoveLeft
      BY <2>1, <3>1 DEF Left, Right, Text!MoveLeft, Front, Text!Front, Last, Text!Last
    <3> QED
      BY <3>2 DEF Text!TextNext
  <2>4. CASE cursor < Len(buf) /\ cursor' = cursor + 1
    <3>1. Right # <<>> /\ Left' = Append(Left, Head(Right)) /\ Right' = Tail(Right)
      BY <1>0, <2>1, <2>4, MovesText
    <3>2. Text!MoveRight
      BY <2>1, <3>1 DEF Left, Right, Text!MoveRight
    <3> QED
      BY <3>2 DEF Text!TextNext
  <2> QED
    BY <1>7, <2>2, <2>3, <2>4 DEF OtherKey, moveLeft, moveRight, editor
<1>8. ASSUME NEW i \in 1..Len(history), editorFromString(history[i]),
             saved' \in {saved, buf}, UNCHANGED history
      PROVE  Text!TextNext
  <2>1. Left' = history[i] /\ Right' = <<>>
    BY <1>0, <1>8, ShowsText
  <2>2. history[i] \in ToSet(history)
    BY <1>0, <1>8 DEF ToSet
  <2>3. Left \o Right = buf
    BY <1>0, Cut DEF Left, Right, EditorTypeOK, Texts
  <2>4. Text!Recall
    BY <1>8, <2>1, <2>2, <2>3 DEF Left, Right, Text!Recall, ToSet, Text!ToSet
  <2> QED
    BY <2>4 DEF Text!TextNext
<1>9. CASE Up
  BY <1>0, <1>8, <1>9 DEF Up, SavedOnUp
<1>10. CASE Down
  <2>1. CASE histPos' = Len(history)
    <3>1. Left' = saved /\ Right' = <<>>
      BY <1>0, <1>10, <2>1, ShowsText DEF Down
    <3>2. Text!Return
      BY <1>10, <3>1 DEF Down, Left, Right, Text!Return
    <3> QED
      BY <3>2 DEF Text!TextNext
  <2>2. CASE histPos' # Len(history)
    <3>1. histPos' + 1 \in 1..Len(history)
      BY <1>0, <1>10, <2>2 DEF Down
    <3> QED
      BY <1>8, <1>10, <2>2, <3>1 DEF Down
  <2> QED
    BY <2>1, <2>2
<1>11. CASE Continue
  <2>1. Left' = <<>> /\ Right' = <<>>
    BY <1>0, <1>11, ShowsText DEF Continue
  <2>2. Left # <<>> \/ Right # <<>>
    <3>1. Left \o Right = buf
      BY <1>0, Cut DEF Left, Right, EditorTypeOK, Texts
    <3> QED
      BY <1>11, <3>1 DEF Continue, GoesOn
  <2>3. Text!NextLine
    BY <1>11, <2>1, <2>2 DEF Continue, Left, Right, Text!NextLine
  <2> QED
    BY <2>3 DEF Text!TextNext
<1>12. CASE Return
  <2>1. Left' = <<>> /\ Right' = <<>>
    BY <1>0, <1>12, ShowsText DEF Return
  <2>2. TrimSpace(cont \o buf) \in Texts
    <3>1. cont \o buf \in Texts
      BY DEF EditorTypeOK, Texts
    <3> QED
      BY <3>1, Trimmed
  <2>3. \/ history' = history
        \/ /\ history' # <<>> /\ Front(history') = history
           /\ Last(history') # <<>>
           /\ history # <<>> => Last(history) # Last(history')
    BY <1>0, <1>12, <2>2, Remembering DEF Return
  <2>4. Text!Enter
    BY <1>12, <2>1, <2>3 DEF Return, Left, Right, Text!Enter, Front, Text!Front, Last, Text!Last
  <2> QED
    BY <2>4 DEF Text!TextNext
<1> QED
  BY <1>3, <1>4, <1>5, <1>6, <1>7, <1>9, <1>10, <1>11, <1>12 DEF EditorNext

\* readLine with its lineEditor is a text with a cursor in it, a past and a draft:
\* each byte it reads is one operation on that text or none.
THEOREM EditorIsText == EditorSpec => EditsText
<1>1. EditorInit => Text!TextInit
  BY DEF EditorInit, Text!TextInit
<1>2. EInv /\ [EditorNext]_editorVars => [Text!TextNext]_(Text!tvars)
  BY TextStep
<1> QED
  BY <1>1, <1>2, EditorInvariance, PTL DEF EditorSpec, EditsText, Text!TextSpec

-----------------------------------------------------------------------------
(* The two joined *)

\* REPL.Run with its readLine: whatever bytes come and whenever a command, a
\* signal or a scheduled run comes between two lines, the loop does what Repl
\* says and the line what LineEditor says, so that the theorems about each of
\* them hold of the terminal.
THEOREM Joined == TerminalSpec => Spec /\ EditorSpec
<1>1. TerminalInit => Init /\ EditorInit
  BY DEF TerminalInit
<1>2. [TerminalNext]_terminalVars => [Next]_vars /\ [EditorNext]_editorVars
  <2> SUFFICES ASSUME [TerminalNext]_terminalVars
               PROVE  [Next]_vars /\ [EditorNext]_editorVars
    OBVIOUS
  <2>1. CASE ReadsOn
    BY <2>1 DEF ReadsOn
  <2>2. CASE Enter
    BY <2>2 DEF Enter, EditorNext, Next, ReadLine
  <2>3. CASE Quits
    BY <2>3 DEF Quits, EditorNext, Next, ReadLine
  <2>4. CASE InputEnds
    BY <2>4 DEF InputEnds, Next, ReadLine
  <2>5. CASE Others /\ UNCHANGED editorVars
    BY <2>5 DEF Others, Next
  <2>6. CASE UNCHANGED terminalVars
    BY <2>6 DEF terminalVars
  <2> QED
    BY <2>1, <2>2, <2>3, <2>4, <2>5, <2>6 DEF TerminalNext
<1> QED
  BY <1>1, <1>2, PTL DEF TerminalSpec, Spec, EditorSpec
=============================================================================
