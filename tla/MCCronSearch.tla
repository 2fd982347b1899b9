---------------------------- MODULE MCCronSearch ----------------------------
(***************************************************************************)
(* A small calendar for CronSearch: hours of two minutes, days of two      *)
(* hours, weeks of two days, years of two months with two days and one day *)
(* and, every fourth year, three days and one.                             *)
(***************************************************************************)
EXTENDS CronSearch, Sequences, Functions, TLC

Year  == <<[month |-> 1, dom |-> 1], [month |-> 1, dom |-> 2], [month |-> 2, dom |-> 1]>>
Leap  == <<[month |-> 1, dom |-> 1], [month |-> 1, dom |-> 2], [month |-> 1, dom |-> 3],
           [month |-> 2, dom |-> 1]>>
Days  == Year \o Year \o Leap \o Year \o Year \o Year \o Leap
Hours == 4 * Len(Days)

DayOf(t) == Days[IF t = Hours THEN 1 ELSE 1 + t \div 4]

CalendarAt ==
    [minute |-> [t \in 0..Hours |-> t % 2],
     hour   |-> [t \in 0..Hours |-> (t \div 2) % 2],
     dom    |-> [t \in 0..Hours |-> DayOf(t).dom],
     month  |-> [t \in 0..Hours |-> DayOf(t).month],
     dow    |-> [t \in 0..Hours |-> (t \div 4) % 2]]

HourEnds == [t \in 0..Hours - 1 |-> 2 * (t \div 2) + 2]
DayEnds  == [t \in 0..Hours - 1 |-> 4 * (t \div 4) + 4]

\* firstMinuteOfMonth of the next month.
MonthEnds ==
    [t \in 0..Hours - 1 |->
        CHOOSE u \in t + 1..Hours :
            /\ u % 4 = 0
            /\ u = Hours \/ DayOf(u).dom = 1
            /\ \A w \in t + 1..u - 1 : ~(w % 4 = 0 /\ DayOf(w).dom = 1)]

Lowest  == [minute |-> 0, hour |-> 0, dom |-> 1, month |-> 1, dow |-> 0]
Highest == [minute |-> 1, hour |-> 1, dom |-> 3, month |-> 2, dow |-> 1]

YearLength == 4 * Len(Year)
TwoYears   == 2 * YearLength

Star         == [kind |-> "star"]
Every(n)     == [kind |-> "every", by |-> n]
StepFrom(x, n)    == [kind |-> "step", a |-> x, to |-> FALSE, b |-> x, by |-> n]
StepIn(x, y, n)   == [kind |-> "step", a |-> x, to |-> TRUE, b |-> y, by |-> n]
One(x)       == [kind |-> "list", ranges |-> {[a |-> x, b |-> x]}]
Two(x, y)    == [kind |-> "list", ranges |-> {[a |-> x, b |-> x], [a |-> y, b |-> y]}]
Span(x, y)   == [kind |-> "list", ranges |-> {[a |-> x, b |-> y]}]
Bad          == [kind |-> "bad"]

Cron(mi, ho, do, mo, dw) ==
    [minute |-> mi, hour |-> ho, dom |-> do, month |-> mo, dow |-> dw]

\* Expressions with every kind of token, a step beyond its field among them.
Expressions ==
    {Cron(mi, ho, do, mo, dw) :
        mi \in {Star, One(1), StepFrom(5, 2)}, ho \in {Star, One(0), StepIn(1, 1, 3)},
        do \in {Star, StepIn(1, 3, 2), Two(1, 3), One(3), Every(0)},
        mo \in {Star, Span(1, 2), One(2), Span(2, 3)},
        dw \in {Star, Every(2), One(1), Bad}}
=============================================================================
