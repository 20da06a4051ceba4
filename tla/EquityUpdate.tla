---------------------------- MODULE EquityUpdate ----------------------------
(***************************************************************************)
(* The hourly equity update of one client (cli/update_command.py,          *)
(* cli/equity_update.py, cli/pnl_fetch.py) running against a live exchange *)
(* account.  The account keeps trading, paying in and out and being        *)
(* repriced between the separate exchange calls of one update, and the     *)
(* clock may pass midnight between them.                                   *)
(*                                                                         *)
(* Days are natural numbers.  The account holds USDT and a fixed quantity  *)
(* of BTC, of which the model keeps the USD value ("mark").  The exchange  *)
(* ledger is kept as running totals: pnlTotal booked so far and the total  *)
(* when each day opened, so the P&L of a window is a difference.           *)
(***************************************************************************)
EXTENDS Integers, Sequences

CONSTANTS
    MaxDay,      \* bound: the clock stops on this day
    MaxEvents,   \* bound: number of account events (P&L, transfer, repricing)
    Opening,     \* USDT balance on the first recorded day
    PnlSteps,    \* amounts one P&L booking can have
    FlowSteps,   \* amounts one deposit (+) or withdrawal (-) can have
    Marks,       \* USD values of the BTC holding; {0} for a USDT-only account
    Threshold    \* noise threshold of _detect_transfer for this account

ASSUME DayAssumption == MaxDay \in Nat /\ MaxEvents \in Nat
ASSUME AmountAssumption ==
    /\ Opening \in Int
    /\ PnlSteps \subseteq Int /\ FlowSteps \subseteq Int
    /\ Marks \subseteq Nat /\ Marks # {}
    /\ Threshold \in Nat

VARIABLES
    \* the exchange account and the clock
    today, pnlTotal, pnlAtOpen, flowTotal, mark, events,
    \* equity_curve.json
    curve,
    \* one run of _update_client
    pc, gap, point,
    \* history, read by the properties only: what the ledger held when the
    \* last point's balance, and this run's balance, were fetched, and what
    \* the run's ledger query returned
    seen, atSnap, fetched

world   == <<today, pnlTotal, pnlAtOpen, flowTotal, mark, events>>
history == <<seen, atSnap, fetched>>
vars    == <<world, curve, pc, gap, point, history>>

Days == 0 .. MaxDay

Point == [date : Days, usdt : Int, mark : Nat, transfer : Int]

Gap == [today : Days, last : Days]

Totals == [pnl : Int, flow : Int]

Abs(x) == IF x < 0 THEN -x ELSE x

Equity(p) == p.usdt + p.mark

Last == curve[Len(curve)]

GapDays == gap.today - gap.last

HoldsBtc == Marks # {0}

-----------------------------------------------------------------------------
(* The account.                                                            *)

Usdt == Opening + pnlTotal + flowTotal

Event == events < MaxEvents /\ events' = events + 1

\* A fill, a fee or a funding payment changes the balance and enters the
\* exchange's ledger of bills / income.
BookPnl(amount) ==
    /\ Event
    /\ pnlTotal' = pnlTotal + amount
    /\ UNCHANGED <<today, pnlAtOpen, flowTotal, mark, curve, pc, gap, point, history>>

\* A deposit or withdrawal changes the balance; the ledger walk skips its row.
MoveCash(amount) ==
    /\ Event
    /\ flowTotal' = flowTotal + amount
    /\ UNCHANGED <<today, pnlTotal, pnlAtOpen, mark, curve, pc, gap, point, history>>

Reprice(value) ==
    /\ Event
    /\ value # mark
    /\ mark' = value
    /\ UNCHANGED <<today, pnlTotal, pnlAtOpen, flowTotal, curve, pc, gap, point, history>>

\* Midnight.  An update takes well under a day, so at most one midnight
\* falls inside a run.
NextDay ==
    /\ today < MaxDay
    /\ pc # "idle" => today = gap.today
    /\ today' = today + 1
    /\ pnlAtOpen' = [pnlAtOpen EXCEPT ![today + 1] = pnlTotal]
    /\ UNCHANGED <<pnlTotal, flowTotal, mark, events, curve, pc, gap, point, history>>

-----------------------------------------------------------------------------
(* One run of _update_client.                                              *)

NoTotals == [pnl |-> 0, flow |-> 0]

NoGap == [today |-> 0, last |-> 0]

NoPoint == [date |-> 0, usdt |-> 0, mark |-> 0, transfer |-> 0]

NothingFetched == [pnl |-> 0, booked |-> 0]

\* The run returns: its local variables go away, and with them what the
\* history says of them.
EndRun ==
    /\ pc' = "idle"
    /\ gap' = NoGap
    /\ point' = NoPoint
    /\ atSnap' = NoTotals
    /\ fetched' = NothingFetched

StartSameDayOnly ==
    /\ pc = "idle"
    /\ Last.date >= today
    /\ gap' = [today |-> today, last |-> Last.date]
    /\ pc' = "balance"
    /\ UNCHANGED <<world, curve, point, history>>

\* _load_existing_equity_curve and _compute_update_gap: a curve that ends in
\* the future ends the run before anything is fetched.
StartUpdate ==
    /\ pc = "idle"
    /\ Last.date <= today
    /\ gap' = [today |-> today, last |-> Last.date]
    /\ pc' = "balance"
    /\ UNCHANGED <<world, curve, point, history>>

\* _open_exchange_with_balance
FetchBalance ==
    /\ pc = "balance"
    /\ point' = [date |-> gap.today, usdt |-> Usdt, mark |-> 0, transfer |-> 0]
    /\ atSnap' = [pnl |-> pnlTotal, flow |-> flowTotal]
    /\ pc' = "price"
    /\ UNCHANGED <<world, curve, gap, seen, fetched>>

\* No credentials, or the exchange refuses: the run returns False.
ExchangeFails ==
    /\ pc = "balance"
    /\ EndRun
    /\ UNCHANGED <<world, curve, seen>>

\* The ticker calls of _get_usd_price either answer or leave the price at 0.
QuotedMarks == IF HoldsBtc THEN {mark, 0} ELSE {mark}

\* _parse_balances reads the price in a call of its own, after the balance,
\* and _build_equity_point builds today's point.
ParseBalances ==
    /\ pc = "price"
    /\ \E m \in QuotedMarks :
        point' = [point EXCEPT !.mark = m]
    /\ pc' = IF GapDays > 0 THEN "ledger" ELSE "merge"
    /\ UNCHANGED <<world, curve, gap, history>>

\* The ledger total at the end of the window: the start of the day after
\* gap.today once that day has begun, otherwise everything booked so far.
WindowEnd == IF today > gap.today THEN pnlAtOpen[gap.today + 1] ELSE pnlTotal

\* _fetch_pnl_since, from 00:00 of the last recorded day to the end of
\* gap.today.  A ccxt error part-way leaves the sum of the pages read so far
\* (pages taken to end at a day boundary).
CompletePnl == WindowEnd - pnlAtOpen[gap.last]

PartialPnl == { pnlAtOpen[d] - pnlAtOpen[gap.last] : d \in gap.last .. gap.today }

PriceEffectIgnored(m) == 0

\* The holding's own gain; none when the last point has no price.
PriceEffect(m) == IF Last.mark > 0 THEN m - Last.mark ELSE 0

Residual(pnl) == Equity(point) - Equity(Last) - pnl - PriceEffect(point.mark)

Flagged(pnl) == IF Abs(Residual(pnl)) > Threshold THEN Residual(pnl) ELSE 0

\* _maybe_attach_transfer and _detect_transfer
DetectTransfer ==
    /\ pc = "ledger"
    /\ \E pnl \in {CompletePnl} \cup PartialPnl :
        /\ fetched' = [pnl |-> pnl, booked |-> WindowEnd]
        /\ point' = [point EXCEPT !.transfer = Flagged(pnl)]
    /\ pc' = "merge"
    /\ UNCHANGED <<world, curve, gap, seen, atSnap>>

\* The list comprehension that drops a point already dated today (the
\* identity when there is none).
Without(c, day) ==
    IF \E i \in DOMAIN c : c[i].date = day
    THEN SelectSeq(c, LAMBDA p : p.date # day)
    ELSE c

CarryWithTransfer(p, day) == [p EXCEPT !.date = day]

CarryForward(p, day) == [p EXCEPT !.date = day, !.transfer = 0]

\* _fill_gap_days: every missing day repeats the balances of the last point.
FillGapDays(c) ==
    [i \in 1 .. Len(c) + GapDays - 1 |->
        IF i <= Len(c) THEN c[i]
        ELSE CarryForward(c[Len(c)], gap.last + i - Len(c))]

MergedNoFill(c) ==
    IF GapDays > 0 THEN Append(Without(c, gap.today), point)
    ELSE [c EXCEPT ![Len(c)] = point]

MergedLosesRefresh(c) ==
    IF GapDays > 0 THEN Append(Without(FillGapDays(c), gap.today), point)
    ELSE Without(c, gap.today)

\* _merge_today_point_into_curve
Merged(c) ==
    IF GapDays > 0 THEN Append(Without(FillGapDays(c), gap.today), point)
    ELSE [c EXCEPT ![Len(c)] = point]

\* The merged curve is written to equity_curve.json.
MergePoint ==
    /\ pc = "merge"
    /\ curve' = Merged(curve)
    /\ seen' = atSnap
    /\ EndRun
    /\ UNCHANGED world

-----------------------------------------------------------------------------
\* A backfill has left a curve that ends today; no update has run yet.
Init ==
    /\ today = 0
    /\ pnlTotal = 0
    /\ pnlAtOpen = [d \in Days |-> 0]
    /\ flowTotal = 0
    /\ mark \in Marks
    /\ events = 0
    /\ curve = <<[date |-> 0, usdt |-> Opening, mark |-> mark, transfer |-> 0]>>
    /\ seen = NoTotals
    /\ pc = "idle" /\ gap = NoGap /\ point = NoPoint
    /\ atSnap = NoTotals /\ fetched = NothingFetched

Next ==
    \/ \E amount \in PnlSteps : BookPnl(amount)
    \/ \E amount \in FlowSteps : MoveCash(amount)
    \/ \E value \in Marks : Reprice(value)
    \/ NextDay
    \/ StartUpdate
    \/ FetchBalance
    \/ ExchangeFails
    \/ ParseBalances
    \/ DetectTransfer
    \/ MergePoint

Spec == Init /\ [][Next]_vars

\* Days pass, the scheduler starts the job again and again and a started run
\* goes on; the exchange may refuse any number of times but not for ever.
Fairness ==
    /\ WF_vars(NextDay)
    /\ WF_vars(StartUpdate)
    /\ SF_vars(FetchBalance)
    /\ WF_vars(ParseBalances)
    /\ WF_vars(DetectTransfer)
    /\ WF_vars(MergePoint)

FairSpec == Spec /\ Fairness

-----------------------------------------------------------------------------
(* Properties.                                                             *)

TypeOK ==
    /\ today \in Days
    /\ pnlTotal \in Int
    /\ pnlAtOpen \in [Days -> Int]
    /\ flowTotal \in Int
    /\ mark \in Marks
    /\ events \in 0 .. MaxEvents
    /\ curve \in Seq(Point) /\ curve # <<>>
    /\ pc \in {"idle", "balance", "price", "ledger", "merge"}
    /\ gap \in Gap
    /\ point \in Point
    /\ seen \in Totals /\ atSnap \in Totals
    /\ fetched \in [pnl : Int, booked : Int]

\* The curve has exactly one point for every day from the first recorded day
\* to the last, in order, and none beyond the clock: filling a gap of any
\* length, refreshing the same day and crossing midnight never leave a hole,
\* a duplicate or an inversion (_fill_gap_days, _merge_today_point_into_curve).
CurveIsDaily ==
    /\ \A i \in 1 .. Len(curve) : curve[i].date = curve[1].date + i - 1
    /\ Last.date <= today

KeepsClosedDays ==
    /\ Len(curve') >= Len(curve)
    /\ \A i \in 1 .. Len(curve) :
          curve'[i] # curve[i] => i = Len(curve) /\ curve[i].date = gap.today

\* A day that has been left behind is never rewritten: an update changes at
\* most the point the curve ends with, and only when that point is today's
\* (_merge_today_point_into_curve).
ClosedDaysAreFinal == [][KeepsClosedDays]_vars

\* The balances a point records, and those of a day the job missed.
Balances == [usdt : Int, mark : Nat, transfer : Int]

Recorded(p) == [usdt |-> p.usdt, mark |-> p.mark, transfer |-> p.transfer]

Repeated == [v \in Balances |-> [v EXCEPT !.transfer = 0]]

\* A curve as its readers use it: by date.
ByDate(c) ==
    [d \in {c[i].date : i \in 1 .. Len(c)} |->
        Recorded(c[CHOOSE i \in 1 .. Len(c) : c[i].date = d])]

Daily == INSTANCE DailySeries WITH
    Value <- Balances, Carried <- Repeated,
    clock <- today, last <- Last.date, series <- ByDate(curve)

\* The update job implements the daily series its readers rely on: however
\* long it was down and whenever midnight falls, a run records one day, never
\* touches an earlier one and repeats the last balances, without their
\* transfer, on the days it missed (_update_client).
ImplementsDailySeries == Daily!SeriesSpec

\* The run's view of the account was coherent: the whole ledger window was
\* read, no P&L was booked between the balance and the ledger call, and the
\* BTC quotes behind both points were answered.
CoherentRun ==
    /\ pc = "merge" /\ GapDays > 0
    /\ fetched.pnl = fetched.booked - pnlAtOpen[gap.last]
    /\ fetched.booked = atSnap.pnl
    /\ HoldsBtc => point.mark > 0 /\ Last.mark > 0

StampedIsCashMoved ==
    LET moved == atSnap.flow - seen.flow
    IN  point.transfer = IF Abs(moved) > Threshold THEN moved ELSE 0

\* Residual analysis is exact for a coherent run, provided no P&L was booked
\* on the last recorded day before that day's balance was taken: what it
\* stamps on the point is the cash moved since the previous snapshot if that
\* exceeds the threshold and nothing otherwise, whatever was traded and
\* however the BTC holding was repriced since, over any number of missing
\* days (_detect_transfer, _fetch_pnl_since).
CleanRunIsExact ==
    CoherentRun /\ seen.pnl = pnlAtOpen[gap.last] => StampedIsCashMoved

\* However long the job was down, the curve is brought up to the current day
\* once it runs again and the exchange answers.
CurveCatchesUp == <>[](Last.date = MaxDay)

\* "This avoids counting a client's $50K deposit as trading profit"
\* (docs/CLIENT_OPERATIONS_GUIDE.md:242): a transfer recorded on a day's
\* point stays recorded.  The same-day refresh replaces the point by one that
\* carries no transfer.
DetectedTransferKept ==
    [][\A i \in 1 .. Len(curve) :
          curve[i].transfer # 0 => curve'[i].transfer = curve[i].transfer]_vars
=============================================================================
