---------------------------- MODULE TransferViews ----------------------------
(***************************************************************************)
(* The transfer pipeline: core/transfer_collector.py merges the records    *)
(* the exchange gave the backfill with what the equity curve says about    *)
(* its days, and core/transfer_store.py keeps the result per client for    *)
(* the life of the process.  PerformanceStats reads the flows off the same *)
(* curve by code of its own.  Records have ids, so the lists are sets; the *)
(* order by time they are sorted in changes no sum.                        *)
(***************************************************************************)
EXTENDS PerformanceStats

CONSTANTS Failed     \* amounts of withdrawals that failed at the exchange

VARIABLES
    ccxt,            \* transfers.json: [id, day, currency, amount, usd, ok], outgoing < 0
    cache            \* _cache of the process: [rows, days], days the curve had then

transferVars == <<account, curve, ccxt, cache>>

NotRead == [rows |-> {}, days |-> 0]

-----------------------------------------------------------------------------
\* An id of the exchange ("tx") or one made of the day ("eq"); see _make_record.
Record(id, day, currency, amount, usd) ==
    [id |-> id, day |-> day, currency |-> currency, amount |-> amount, usd |-> usd, ok |-> TRUE]

\* _parse_ccxt_transfer knows the USD value of stablecoins alone.
Raw(day, currency, amount) ==
    Record("tx", day, currency, amount, IF currency = "USDT" THEN amount ELSE 0)

OfCurve(day, currency, amount) ==
    Record("eq", day, currency, amount,
           IF currency = "USDT" THEN amount ELSE amount * curve[day].price)

NonZero(rows) == {r \in rows : r.amount # 0}

\* _extract_day1_deposits: a first point marked as a deposit.
DayOneDeposits ==
    LET p == curve[1]
    IN  IF ~p.flagged THEN {}
        ELSE IF account = "usd" THEN NonZero({OfCurve(1, "USDT", p.cash)})
        ELSE NonZero({OfCurve(1, "BTC", p.equity), OfCurve(1, "USDT", p.usdt)})

\* _extract_usdt_transfer and _extract_btc_transfers.
CurveTransfers(i) ==
    LET p == curve[i]
        usdt == p.usdt - curve[i - 1].usdt
    IN  IF account = "usd" THEN NonZero({OfCurve(i, "USDT", p.cash)})
        ELSE IF ~p.flagged THEN {}
        ELSE NonZero({OfCurve(i, "BTC", p.equity - curve[i - 1].equity),
                      OfCurve(i, "USDT", IF Size(usdt) > Noise THEN usdt ELSE 0)})

\* collect_from_equity_curve
FromCurve ==
    IF Len(curve) < 2 THEN {} ELSE DayOneDeposits \cup UNION {CurveTransfers(i) : i \in 2 .. Len(curve)}

AllFromCurve(dates) == FromCurve

\* The curve's records for days the exchange's records do not cover.
Uncovered(dates) == {r \in FromCurve : r.day \notin dates}

\* collect_all_transfers: an exchange record covers its day whatever its
\* status and whatever part of the day's flow it is.
Collected == ccxt \cup Uncovered({r.day : r \in ccxt})

Confirmed(rows) == {r \in rows : r.ok}

\* net_deposits_usd of get_net_deposits: records that are not ok do not count.
NetDeposits(rows) == SumOf([r \in Confirmed(rows) |-> r.usd])

\* get_daily_transfers for one currency.
Daily(rows, day, currency) ==
    SumOf([r \in {s \in Confirmed(rows) : s.day = day /\ s.currency = currency} |-> r.amount])

-----------------------------------------------------------------------------
\* What the exchange knows of a day's flows.
AtExchange(i) ==
    NonZero({Raw(i, "BTC", curve[i].coins), Raw(i, "USDT", curve[i].cash)})

Failures == {[Raw(day, "USDT", amount) EXCEPT !.ok = FALSE] : day \in Days, amount \in Failed}

\* A backfill stores the deposits, the withdrawals or both since a day, each
\* being asked for by itself, and maybe one that failed.
Fetch ==
    /\ \E from \in Days, failed \in {{}} \cup {{f} : f \in Failures},
          given \in SUBSET {"deposits", "withdrawals"} :
          LET known == UNION {AtExchange(i) : i \in from .. Len(curve)}
          IN  ccxt' = failed \cup {r \in known :
                                     (IF r.amount > 0 THEN "deposits" ELSE "withdrawals") \in given}
    /\ UNCHANGED <<account, curve, cache>>

\* get_transfers: read once per process.
GetTransfers ==
    /\ cache' = IF cache = NotRead THEN [rows |-> Collected, days |-> Len(curve)] ELSE cache
    /\ UNCHANGED <<account, curve, ccxt>>

\* The process starts anew, with the module's cache; clear_cache.
ClearCache ==
    /\ cache # NotRead
    /\ cache' = NotRead
    /\ UNCHANGED <<account, curve, ccxt>>

TransferInit == PerfInit /\ ccxt = {} /\ cache = NotRead

TransferNext ==
    \/ PerfNext /\ UNCHANGED <<ccxt, cache>>
    \/ Fetch \/ GetTransfers \/ ClearCache

TransferSpec == TransferInit /\ [][TransferNext]_transferVars

-----------------------------------------------------------------------------
\* The flow performance is corrected for, and the opening deposit, which it
\* is not.
DayFlow(i) == IF i = 1 THEN curve[1].coins + curve[1].cash ELSE Transfer(i)

\* The curve alone speaks for a day, or the exchange does, with all that was
\* moved, and the curve tells the same.  The code cannot know: any record of
\* the exchange silences the curve for its day.
Settled(i) ==
    (\E r \in cache.rows : r.id = "tx" /\ r.day = i) => Told(i) /\ AtExchange(i) \subseteq cache.rows

\* The days as the store answers them, in the account's currency.
DayMoved(i) == Daily(cache.rows, i, "BTC") + Daily(cache.rows, i, "USDT") \div curve[i].price

\* What the store answers on a settled day is the flow performance is
\* corrected for, and the opening deposit: nothing twice where both sources
\* know it, nothing lost where one does, as of the day of the reading
\* (get_daily_transfers against _get_transfer, copies of one detection in two
\* modules).  So are the net deposits in USD, at each day's price, unless the
\* exchange gave a record in BTC, which get_net_deposits counts for nothing.
\* A curve of one point tells of no transfer, for as long as the process lives.
TransferViewsAgree ==
    cache # NotRead /\ cache.days >= 2 =>
        /\ \A i \in 1 .. cache.days : Settled(i) => DayMoved(i) = DayFlow(i)
        /\ /\ \A i \in 1 .. cache.days : Settled(i)
           /\ ~\E r \in cache.rows : r.id = "tx" /\ r.currency = "BTC"
           => NetDeposits(cache.rows) = SumOf([i \in 1 .. cache.days |-> DayFlow(i) * curve[i].price])
=============================================================================
