----------------------------- MODULE LineEditor ------------------------------
(***************************************************************************)
(* The raw-mode line editor of internal/terminal/repl.go: readLine, called *)
(* again and again by REPL.Run, with its lineEditor and the history of the *)
(* terminal.  One step is one byte of the console's input; a character of  *)
(* several bytes comes whole and is one of Chars.  readLine appends to the *)
(* history just before it returns, so that the snapshot it works on is the *)
(* history.  What is drawn on the screen is left out.                      *)
(***************************************************************************)
EXTENDS Naturals, Sequences, SequencesExt

CONSTANTS
    Chars,      \* the characters typed into lines
    MaxLine,    \* bound on the length of a line, its continuations included
    MaxHistory  \* bound on the lines remembered

ASSUME LineAssumption == MaxLine \in Nat /\ MaxHistory \in Nat

Backslash == "\\"
Space     == " "
NewLine   == "\n"

VARIABLES
    buf,        \* lineEditor.buf
    cursor,     \* lineEditor.cursor
    history,    \* REPL.history
    histPos,    \* how far up the history the user is
    saved,      \* savedCurrent
    cont,       \* continuation: the lines before this one
    pend,       \* bytes of an escape sequence read so far: none, esc, csi, tilde
    open,       \* FALSE: readLine has returned an error
    home,       \* history: the text on the line is one the user is typing
    own         \* history: the text the user had typed when leaving it

editor == <<buf, cursor>>
aux    == <<home, own>>
editorVars   == <<buf, cursor, history, histPos, saved, cont, pend, open, home, own>>

EditorInit ==
    /\ buf = <<>> /\ cursor = 0
    /\ history = <<>>
    /\ histPos = 0
    /\ saved = <<>>
    /\ cont = <<>>
    /\ pend = "none"
    /\ open = TRUE
    /\ home = TRUE
    /\ own = <<>>

-----------------------------------------------------------------------------
(* lineEditor *)

insert(c) ==
    /\ buf' = InsertAt(buf, cursor + 1, c)
    /\ cursor' = cursor + 1

deleteBack ==
    IF cursor = 0 THEN UNCHANGED editor
    ELSE buf' = RemoveAt(buf, cursor) /\ cursor' = cursor - 1

deleteForward ==
    /\ buf' = IF cursor >= Len(buf) THEN buf ELSE RemoveAt(buf, cursor + 1)
    /\ UNCHANGED cursor

moveLeft ==
    /\ cursor' = IF cursor > 0 THEN cursor - 1 ELSE cursor
    /\ UNCHANGED buf

moveRight ==
    /\ cursor' = IF cursor < Len(buf) THEN cursor + 1 ELSE cursor
    /\ UNCHANGED buf

BuggyFromString(text) ==
    /\ buf' = text
    /\ cursor' = 0

editorFromString(text) ==
    /\ buf' = text
    /\ cursor' = Len(text)

-----------------------------------------------------------------------------
(* readLine: bytes outside an escape sequence *)

Reading(p) == open /\ pend = p

Printable(c) ==
    /\ Reading("none")
    /\ Len(cont) + Len(buf) < MaxLine
    /\ insert(c)
    /\ UNCHANGED <<history, histPos, saved, cont, pend, open, aux>>

Backspace ==
    /\ Reading("none")
    /\ deleteBack
    /\ UNCHANGED <<history, histPos, saved, cont, pend, open, aux>>

CtrlD ==
    /\ Reading("none")
    /\ deleteForward
    /\ open' = (buf # <<>>)
    /\ UNCHANGED <<history, histPos, saved, cont, pend, aux>>

\* r.agentRunning is false whenever readLine runs (module Repl).
CtrlC ==
    /\ Reading("none")
    /\ open' = FALSE
    /\ UNCHANGED <<editor, history, histPos, saved, cont, pend, aux>>

Escape ==
    /\ Reading("none")
    /\ pend' = "esc"
    /\ UNCHANGED <<editor, history, histPos, saved, cont, open, aux>>

\* strings.TrimSpace
Blank == {Space, NewLine}
TrimSpace(text) ==
    LET ink == {i \in DOMAIN text : text[i] \notin Blank}
    IN  IF ink = {} THEN <<>>
        ELSE SubSeq(text, CHOOSE i \in ink : \A j \in ink : i <= j,
                          CHOOSE i \in ink : \A j \in ink : i >= j)

GoesOn == buf # <<>> /\ Last(buf) = Backslash

\* Enter after a backslash: the next line continues this one.
Continue ==
    /\ Reading("none")
    /\ GoesOn
    /\ Len(cont) + Len(buf) <= MaxLine
    /\ cont' = cont \o Front(buf) \o <<NewLine>>
    /\ editorFromString(<<>>)
    /\ home' = TRUE /\ own' = <<>>
    /\ UNCHANGED <<history, histPos, saved, pend, open>>

Remembered(line) ==
    IF line = <<>> \/ (history # <<>> /\ Last(history) = line)
    THEN history
    ELSE Append(history, line)

\* Enter: readLine returns the line, and is called again when it is handled.
Return ==
    /\ Reading("none")
    /\ ~GoesOn
    /\ Len(cont) + Len(buf) <= MaxLine
    /\ history' = Remembered(TrimSpace(cont \o buf))
    /\ Len(history') <= MaxHistory
    /\ histPos' = Len(history')
    /\ editorFromString(<<>>)
    /\ cont' = <<>> /\ saved' = <<>>
    /\ home' = TRUE /\ own' = <<>>
    /\ UNCHANGED <<pend, open>>

-----------------------------------------------------------------------------
(* readLine: the bytes of an escape sequence *)

\* The byte after ESC, whatever it is: Enter and Ctrl+C are lost here.
AfterEscape ==
    /\ Reading("esc")
    /\ pend' \in {"csi", "none"}
    /\ UNCHANGED <<editor, history, histPos, saved, cont, open, aux>>

\* The ghosts of a step along the history.
Leaves ==
    /\ home' = FALSE
    /\ own' = IF home THEN buf ELSE own

BuggySavedOnUp == buf
SavedOnUp == IF histPos = Len(history) THEN buf ELSE saved

Up ==
    /\ Reading("csi")
    /\ histPos > 0
    /\ saved' = SavedOnUp
    /\ histPos' = histPos - 1
    /\ editorFromString(history[histPos])
    /\ pend' = "none"
    /\ Leaves
    /\ UNCHANGED <<history, cont, open>>

Down ==
    /\ Reading("csi")
    /\ histPos < Len(history)
    /\ histPos' = histPos + 1
    /\ editorFromString(IF histPos' = Len(history) THEN saved ELSE history[histPos' + 1])
    /\ pend' = "none"
    /\ home' = (histPos' = Len(history))
    /\ own' = IF home THEN buf ELSE own
    /\ UNCHANGED <<history, saved, cont, open>>

\* Right, Left, Delete (which has one more byte), and a byte that is none of
\* the editor's keys, or an arrow with nowhere to go.
OtherKey ==
    /\ Reading("csi")
    /\ \/ moveRight /\ pend' = "none"
       \/ moveLeft /\ pend' = "none"
       \/ UNCHANGED editor /\ pend' \in {"none", "tilde"}
    /\ UNCHANGED <<history, histPos, saved, cont, open, aux>>

\* readByte after ESC [ 3, then the deletion.
Delete ==
    /\ Reading("tilde")
    /\ deleteForward
    /\ pend' = "none"
    /\ UNCHANGED <<history, histPos, saved, cont, open, aux>>

-----------------------------------------------------------------------------

EditorNext ==
    \/ \E c \in Chars : Printable(c)
    \/ Backspace \/ CtrlD \/ CtrlC \/ Escape
    \/ Continue \/ Return
    \/ AfterEscape \/ Up \/ Down \/ OtherKey \/ Delete

EditorSpec == EditorInit /\ [][EditorNext]_editorVars

-----------------------------------------------------------------------------
(* Properties *)

Texts == Seq(Chars \cup {NewLine})

\* Type invariant: the cursor stays in the buffer, the position in the history.
EditorTypeOK ==
    /\ buf \in Texts /\ saved \in Texts /\ cont \in Texts /\ own \in Texts
    /\ history \in Seq(Texts)
    /\ cursor \in 0..Len(buf)
    /\ histPos \in 0..Len(history)
    /\ pend \in {"none", "esc", "csi", "tilde"}
    /\ open \in BOOLEAN /\ home \in BOOLEAN

\* The comment on savedCurrent, "preserves the partial line during history
\* nav": whoever goes up the history from the first line of an input and comes
\* down to its end again, on whatever way, has the text back.  (A line continued
\* from a recalled one keeps its histPos: Up does not save what is typed on it.)
DraftKept ==
    [][Down /\ ~home /\ cont = <<>> /\ histPos' = Len(history) => buf' = own]_editorVars

\* The editor is a text with a cursor in it, a past and a draft.
Text == INSTANCE TextLine WITH
    left  <- SubSeq(buf, 1, cursor),
    right <- SubSeq(buf, cursor + 1, Len(buf)),
    past  <- history,
    draft <- saved

EditsText == Text!TextSpec
=============================================================================
