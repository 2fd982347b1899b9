------------------------------ MODULE Terminal -------------------------------
(***************************************************************************)
(* The terminal of internal/terminal/repl.go: the loop of Repl whose lines *)
(* are read byte by byte by LineEditor.  The editor moves only while       *)
(* REPL.Run is in readLine, and the loop goes on when readLine returns;    *)
(* the history is all that one call leaves to the next.                    *)
(***************************************************************************)
EXTENDS Repl, LineEditor

terminalVars == <<vars, editorVars>>

TerminalInit == Init /\ EditorInit

\* A byte after which readLine reads on: Ctrl+D on a line that has text, Ctrl+C
\* after ESC and Enter after a backslash are of these.
ReadsOn ==
    /\ pc = "read"
    /\ EditorNext /\ ~Return /\ open'
    /\ UNCHANGED vars

\* Enter: Run goes back to its select for a blank line, else it handles the line.
Enter ==
    /\ Return
    /\ IF TrimSpace(cont \o buf) = <<>> THEN BlankEntered ELSE LineEntered

\* Ctrl+C, or Ctrl+D on an empty line.
Quits ==
    /\ CtrlC \/ CtrlD
    /\ ~open'
    /\ ReadEnds

\* os.Stdin.Read fails: the console is gone.
InputEnds == ReadEnds /\ UNCHANGED editorVars

Others == LoopStep \/ Signal \/ TaskStarts \/ PollingEnds \/ TaskEnds

TerminalNext ==
    \/ ReadsOn \/ Enter \/ Quits \/ InputEnds
    \/ Others /\ UNCHANGED editorVars

TerminalSpec == TerminalInit /\ [][TerminalNext]_terminalVars

\* The fairness of Repl: nobody has to type.
FairTerminal ==
    /\ TerminalSpec
    /\ WF_vars(LoopStep) /\ WF_vars(TaskEnds) /\ WF_vars(PollingEnds)
=============================================================================
