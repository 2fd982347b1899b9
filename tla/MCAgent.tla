------------------------------ MODULE MCAgent ------------------------------
(***************************************************************************)
(* The package internal/agent with its memory, in one run: the turns of an *)
(* agent with their tools, the files of the memory, and the sessions.      *)
(* They share no variable.  Each of the three moves only while the other   *)
(* two are in one initial state of theirs, so that every state of each is  *)
(* reached and the states of the three add up.                             *)
(***************************************************************************)
EXTENDS MCTools, MCMemoryManager, MCSessions

agentVars == <<allVars, memoryVars, sessionVars>>

\* The turns have not begun; of their hosts and directories one is enough here.
NoTurn == ToolsInit /\ host = "terminal" /\ dir = {}

MCInit == ToolsInit /\ MemoryInit /\ SessionsInit

MCNext ==
    \/ MemoryInit /\ SessionsInit /\ ToolsNext    /\ UNCHANGED <<memoryVars, sessionVars>>
    \/ NoTurn /\ SessionsInit     /\ MemoryNext   /\ UNCHANGED <<allVars, sessionVars>>
    \/ NoTurn /\ MemoryInit       /\ SessionsNext /\ UNCHANGED <<allVars, memoryVars>>

MCSpec == MCInit /\ [][MCNext]_agentVars

\* Of the identities those that save most: goroutines of one kind are alike.
Symmetry == Permutations(Agents) \cup Permutations(Writers)
=============================================================================
