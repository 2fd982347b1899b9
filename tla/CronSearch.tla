----------------------------- MODULE CronSearch -----------------------------
(***************************************************************************)
(* parseCron of internal/scheduler/scheduler.go: the search for the first  *)
(* minute after a given time at which a cron expression fires, with the    *)
(* parser of its five fields.                                              *)
(*                                                                         *)
(* Time is a number of minutes.  The calendar is a parameter: the value of *)
(* each field at each minute, and where the month, the day and the hour of *)
(* a minute end (time.Date normalises day 32, month 13 and hour 24, and    *)
(* everything is in UTC).  A token is a record, as read from its           *)
(* characters.                                                             *)
(***************************************************************************)
EXTENDS Integers, FiniteSets

Field == {"minute", "hour", "dom", "month", "dow"}

CONSTANTS
    Horizon,            \* the calendar covers the minutes 0..Horizon
    At,                 \* At[f][t]: the value of field f at minute t
    HourEnd,            \* HourEnd[t]: the first minute of the next hour
    DayEnd,
    MonthEnd,
    Lo, Hi,             \* Lo[f]..Hi[f]: the range parseCronExpr gives field f
    SearchWindow,       \* how far the search goes (two years)
    CronExprs,          \* expressions: a token for each field
    Froms               \* times to search from

Times == 0..Horizon

\* end[t] is where a unit of the calendar ends that contains minute t, and the
\* fields in fs do not change before it.
EndsBlock(end, fs) ==
    /\ end \in [0..Horizon - 1 -> 1..Horizon]
    /\ \A t \in 0..Horizon - 1 :
          /\ t < end[t]
          /\ \A u \in t..end[t] - 1, f \in fs : At[f][u] = At[f][t]

ASSUME CalendarAssumption ==
    /\ Horizon \in Nat
    /\ At \in [Field -> [Times -> Int]]
    /\ Lo \in [Field -> Int] /\ Hi \in [Field -> Int]
    /\ EndsBlock(HourEnd, {"hour"})
    /\ EndsBlock(DayEnd, {"dom", "dow"})
    /\ EndsBlock(MonthEnd, {"month"})

\* A field of an expression: "*", "*/by", "a/by" or "a-b/by", "a-b,c", and what
\* is none of them.
Tokens ==
    [kind : {"star", "bad"}]
    \cup [kind : {"every"}, by : Int]
    \cup [kind : {"step"}, a : Int, to : BOOLEAN, b : Int, by : Int]
    \cup [kind : {"list"}, ranges : SUBSET [a : Int, b : Int]]

ASSUME SearchAssumption ==
    /\ SearchWindow \in Nat \ {0}
    /\ CronExprs \subseteq [Field -> Tokens]
    /\ Froms \subseteq Nat
    /\ \A t \in Froms : t + 1 + SearchWindow <= Horizon

VARIABLES
    expr,       \* the expression
    from,       \* the minute to search from, cut off at the whole minute
    candidate,
    pc          \* parse, search, found, failed, invalid

searchVars == <<expr, from, candidate, pc>>

-----------------------------------------------------------------------------
(* parseCronField *)

\* A step's range is not compared with the field's, a list's is.
Valid(f, token) ==
    CASE token.kind = "star"  -> TRUE
      [] token.kind = "every" -> token.by > 0
      [] token.kind = "step"  -> token.by > 0
      [] token.kind = "list"  -> \A r \in token.ranges :
                                    r.a <= r.b /\ Lo[f] <= r.a /\ r.b <= Hi[f]
      [] OTHER -> FALSE

BuggySteps(a, b, by) == {v \in a..b : v % by = 0}
Steps(a, b, by) == {v \in a..b : (v - a) % by = 0}

\* The values a token allows.
Values(f, token) ==
    CASE token.kind = "star"  -> Lo[f]..Hi[f]
      [] token.kind = "every" -> Steps(Lo[f], Hi[f], token.by)
      [] token.kind = "step"  -> Steps(token.a, IF token.to THEN token.b ELSE Hi[f], token.by)
      [] token.kind = "list"  -> UNION {r.a..r.b : r \in token.ranges}

\* cronField.matches, at minute t.
Matches(f, t) == expr[f].kind = "star" \/ At[f][t] \in Values(f, expr[f])

-----------------------------------------------------------------------------
(* parseCron *)

BuggyFirst(t) == t
First(t) == t + 1

BuggyLimit == from + SearchWindow
Limit == First(from) + SearchWindow

SearchInit ==
    /\ expr \in CronExprs
    /\ from \in Froms
    /\ candidate = 0
    /\ pc = "parse"

Parse ==
    /\ pc = "parse"
    /\ IF \A f \in Field : Valid(f, expr[f])
       THEN pc' = "search" /\ candidate' = First(from)
       ELSE pc' = "invalid" /\ UNCHANGED candidate
    /\ UNCHANGED <<expr, from>>

Searching == pc = "search" /\ candidate < Limit

MonthFits == Matches("month", candidate)
DayFits   == Matches("dom", candidate) /\ Matches("dow", candidate)
HourFits  == Matches("hour", candidate)

GoTo(t) == candidate' = t /\ UNCHANGED <<expr, from, pc>>

NextMonth ==
    /\ Searching
    /\ ~MonthFits
    /\ GoTo(MonthEnd[candidate])

NextDay ==
    /\ Searching
    /\ MonthFits /\ ~DayFits
    /\ GoTo(DayEnd[candidate])

NextHour ==
    /\ Searching
    /\ MonthFits /\ DayFits /\ ~HourFits
    /\ GoTo(HourEnd[candidate])

Hit ==
    /\ Searching
    /\ MonthFits /\ DayFits /\ HourFits /\ Matches("minute", candidate)
    /\ pc' = "found"
    /\ UNCHANGED <<expr, from, candidate>>

BuggyLater(t) == t
Later(t) == t + 1

NextMinute ==
    /\ Searching
    /\ MonthFits /\ DayFits /\ HourFits /\ ~Matches("minute", candidate)
    /\ GoTo(Later(candidate))

GiveUp ==
    /\ pc = "search" /\ candidate >= Limit
    /\ pc' = "failed"
    /\ UNCHANGED <<expr, from, candidate>>

SearchNext ==
    \/ Parse
    \/ NextMonth \/ NextDay \/ NextHour \/ Hit \/ NextMinute
    \/ GiveUp

SearchSpec == SearchInit /\ [][SearchNext]_searchVars

\* A function that runs goes on.
FairSearch == SearchSpec /\ WF_searchVars(SearchNext)

-----------------------------------------------------------------------------
(* Properties *)

\* What a token says of a field's value v.  (In a list an element stands for
\* itself, in a step for every by-th value from its beginning on.)
Says(f, token, v) ==
    CASE token.kind = "star"  -> TRUE
      [] token.kind = "every" -> \E k \in 0..Hi[f] - Lo[f] :
                                    v = Lo[f] + k * token.by /\ v <= Hi[f]
      [] token.kind = "step"  -> LET end == IF token.to THEN token.b ELSE Hi[f]
                                 IN  \E k \in 0..end - token.a :
                                    v = token.a + k * token.by /\ v <= end
      [] token.kind = "list"  -> \E r \in token.ranges : r.a <= v /\ v <= r.b
      [] OTHER -> FALSE

\* What the expression says: at minute t each field has one of its values.
Fires(t) == \A f \in Field : Says(f, expr[f], At[f][t])

\* The same, as the search sees it.
Match(t) == \A f \in Field : Matches(f, t)

\* Type invariant: the search never leaves the calendar, and ends within it.
SearchTypeOK ==
    /\ expr \in CronExprs
    /\ from \in Froms
    /\ candidate \in Times
    /\ pc \in {"parse", "search", "found", "failed", "invalid"}
    /\ pc = "found" => candidate \in from + 1..from + SearchWindow

\* No minute is jumped over: an answer lies after from, fires, and is the first
\* minute after from to do so.
FirstMatch ==
    pc = "found" => /\ from < candidate
                    /\ Match(candidate)
                    /\ \A t \in from + 1..candidate - 1 : ~Match(t)

\* An error means that the whole window holds no minute that fires.
NoneInWindow ==
    pc = "failed" => \A t \in from + 1..from + SearchWindow : ~Match(t)

\* The sets of values the parser builds are what the tokens say.
MatchIsFires ==
    pc \in {"search", "found"} => \A t \in Times : Match(t) <=> Fires(t)

\* The search ends, for an expression no minute satisfies too.
SearchEnds == <>(pc \in {"found", "failed", "invalid"})
=============================================================================
