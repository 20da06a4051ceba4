----------------------------- MODULE MCBackfill -----------------------------
\* Two ticks per day, pages of two rows, one core pair and one other symbol.
\* Tick 1 is older than everything that is asked for by time, tick 2 is in a
\* quarterly file only, tick 3 in a file and on bills-archive, tick 4 on both
\* endpoints of the bills.
EXTENDS Backfill

MCRowKinds == {[kind |-> "fill", sym |-> "core", amount |-> 2],
               [kind |-> "fill", sym |-> "other", amount |-> -3],
               [kind |-> "flow", sym |-> "none", amount |-> 5],
               [kind |-> "flow", sym |-> "none", amount |-> -4]}

MCQuarters == <<{2}, {3}>>
=============================================================================
