---------------------------- MODULE MCScheduling ----------------------------
(***************************************************************************)
(* The scheduler and the search it asks for the next time of an            *)
(* expression, in one run.  Every expression is searched for; the table is *)
(* explored after the shortest of the searches only, one that refuses its  *)
(* expression, so that the states of the two add up.                       *)
(***************************************************************************)
EXTENDS MCScheduler, MCCronSearch

allVars == <<searchVars, vars>>

Refused == Cron(Star, Star, Star, Star, Bad)

\* The search that the table is explored after is over.
Searched == pc = "invalid" /\ from = 0 /\ expr = Refused

MCInit == SearchInit /\ Init

MCNext ==
    \/ SearchNext /\ UNCHANGED vars
    \/ Searched /\ Next /\ UNCHANGED searchVars

\* That of FairSearch, and once the search is over that of Scheduler.
MCFairness ==
    /\ WF_searchVars(SearchNext)
    /\ WF_vars(Searched /\ Advance)
    /\ \A p \in Procs : WF_vars(Searched /\ LoopStep(p)) /\ WF_vars(Searched /\ StopReturns(p))
    /\ \A p \in Procs, t \in Tasks :
          WF_vars(Searched /\ \E e \in execs : e.proc = p /\ e.task = t /\ ExecStep(e))

MCSpec == MCInit /\ [][MCNext]_allVars /\ MCFairness
=============================================================================
