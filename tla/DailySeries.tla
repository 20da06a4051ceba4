----------------------------- MODULE DailySeries -----------------------------
(***************************************************************************)
(* What the readers of an equity curve rely on, without the update job: a  *)
(* value for each day from the first to the last recorded one.  Recording  *)
(* a day leaves every earlier day as it was; days nobody recorded between  *)
(* two recorded ones take over the value of the earlier, as Carried has it.*)
(***************************************************************************)
EXTENDS Naturals

CONSTANTS
    Value,      \* what can be recorded of a day
    Carried     \* [Value -> Value]: a value repeated on a day without a record

VARIABLES
    clock,      \* today
    last,       \* the last recorded day
    series      \* [recorded days -> Value]

seriesVars == <<clock, last, series>>

SeriesInit ==
    /\ clock = 0 /\ last = 0
    /\ series \in [{0} -> Value]

Midnight ==
    /\ clock' = clock + 1
    /\ UNCHANGED <<last, series>>

\* Some day from the last recorded one to today gets a value, its first or a
\* new one.
Record ==
    /\ last <= last' /\ last' <= clock
    /\ series' = [d \in DOMAIN series \cup (last .. last') |->
                    IF d = last' THEN series'[d]
                    ELSE IF d \in DOMAIN series THEN series[d]
                    ELSE Carried[series[last]]]
    /\ series'[last'] \in Value
    /\ UNCHANGED clock

SeriesNext == Midnight \/ Record

SeriesSpec == SeriesInit /\ [][SeriesNext]_seriesVars
=============================================================================
