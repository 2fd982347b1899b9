------------------------------ MODULE TextLine -------------------------------
(***************************************************************************)
(* What a line editor with a history promises: a text to the left and to   *)
(* the right of the cursor, the lines entered before, and a draft, the     *)
(* text that was on the line when its user left it for an earlier one.     *)
(***************************************************************************)
EXTENDS Naturals, Sequences, SequencesExt

CONSTANT Chars

VARIABLES left, right, past, draft

tvars == <<left, right, past, draft>>

TextInit ==
    /\ left = <<>> /\ right = <<>>
    /\ past = <<>> /\ draft = <<>>

Type(c) ==
    /\ left' = Append(left, c)
    /\ UNCHANGED <<right, past, draft>>

MoveLeft ==
    /\ left # <<>>
    /\ left' = Front(left)
    /\ right' = <<Last(left)>> \o right
    /\ UNCHANGED <<past, draft>>

MoveRight ==
    /\ right # <<>>
    /\ left' = Append(left, Head(right))
    /\ right' = Tail(right)
    /\ UNCHANGED <<past, draft>>

EraseLeft ==
    /\ left # <<>>
    /\ left' = Front(left)
    /\ UNCHANGED <<right, past, draft>>

EraseRight ==
    /\ right # <<>>
    /\ right' = Tail(right)
    /\ UNCHANGED <<left, past, draft>>

\* An earlier line, whole, with the cursor at its end.
Recall ==
    /\ left' \in ToSet(past)
    /\ right' = <<>>
    /\ draft' \in {draft, left \o right}
    /\ UNCHANGED past

\* Back to the draft.
Return ==
    /\ left' = draft
    /\ right' = <<>>
    /\ UNCHANGED <<past, draft>>

\* The text goes on on an empty line.
NextLine ==
    /\ left # <<>> \/ right # <<>>
    /\ left' = <<>> /\ right' = <<>>
    /\ UNCHANGED <<past, draft>>

\* A line is entered: it is remembered unless it is blank or repeats the one
\* before it.
Enter ==
    /\ left' = <<>> /\ right' = <<>> /\ draft' = <<>>
    /\ \/ UNCHANGED past
       \/ /\ past' # <<>> /\ Front(past') = past
          /\ Last(past') # <<>>
          /\ past # <<>> => Last(past) # Last(past')

TextNext ==
    \/ \E c \in Chars : Type(c)
    \/ MoveLeft \/ MoveRight \/ EraseLeft \/ EraseRight
    \/ Recall \/ Return \/ NextLine \/ Enter

TextSpec == TextInit /\ [][TextNext]_tvars
=============================================================================
