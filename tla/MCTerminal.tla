----------------------------- MODULE MCTerminal ------------------------------
(***************************************************************************)
(* Terminal for TLC: what is typed into lines, and how much.  Lines are    *)
(* edited at length at the first prompt, as long as nothing else has       *)
(* happened in the terminal; after that, and when it is left, they have    *)
(* one character, and the history has one line.                            *)
(***************************************************************************)
EXTENDS Terminal

Typed == {"a", Space, Backslash}

\* As main has started it.
Fresh ==
    /\ pc # "leave" /\ line = "other" /\ session = 1 /\ agentObj = NewAgent(1)
    /\ ~agentRunning /\ ~cancelled /\ raw /\ polling /\ ~task

Brief ==
    /\ buf \in {<<>>, <<"a">>} /\ cont = <<>> /\ saved = <<>> /\ pend = "none"
    /\ Len(history) <= 1

MCNext == TerminalNext /\ (Fresh \/ Brief)'

MCSpec ==
    /\ TerminalInit /\ [][MCNext]_terminalVars
    /\ WF_vars(LoopStep) /\ WF_vars(TaskEnds) /\ WF_vars(PollingEnds)
=============================================================================
