------------------------- MODULE EquityUpdateProofs -------------------------
(***************************************************************************)
(* Theorems about EquityUpdate, for every account, threshold and bound.    *)
(*                                                                         *)
(* The invariants are not inductive by themselves: that the merged curve   *)
(* has no hole depends on what the run recorded about its gap several      *)
(* steps earlier, and that residual analysis is exact depends on what the  *)
(* two balances behind the points contained.  RunInv and BooksInv say so.  *)
(***************************************************************************)
EXTENDS EquityUpdate, SequenceTheorems, TLAPS

\* What a run that is under way knows about the curve and the clock.
RunInv ==
    /\ pc # "idle" =>
          /\ gap.last = Last.date
          /\ gap.last <= gap.today
          /\ gap.today <= today
          /\ today <= gap.today + 1
    /\ pc \in {"price", "ledger", "merge"} => point.date = gap.today
    /\ pc = "ledger" => GapDays > 0

\* The balances behind the last point and behind the point being built are
\* the opening balance plus what had been booked and moved by then.
BooksInv ==
    /\ Last.usdt = Opening + seen.pnl + seen.flow
    /\ pc \in {"price", "ledger", "merge"} =>
          point.usdt = Opening + atSnap.pnl + atSnap.flow
    /\ ~HoldsBtc => Last.mark = 0 /\ point.mark = 0
    /\ pc = "merge" /\ GapDays > 0 => point.transfer = Flagged(fetched.pnl)

IInv == TypeOK /\ CurveIsDaily /\ RunInv /\ BooksInv

-----------------------------------------------------------------------------
\* The curve ends with one of its points.
LEMMA LastPoint ==
    ASSUME curve \in Seq(Point), curve # <<>>
    PROVE  /\ Len(curve) \in Nat \ {0}
           /\ Last = curve[Len(curve)]
           /\ Last \in Point
<1>1. Len(curve) \in Nat \ {0}
  BY EmptySeq
<1>2. QED
  BY <1>1, ElementOfSeq DEF Last

\* Days are natural numbers, and a recorded point has one.
LEMMA DaysAreNat == Days \subseteq Nat
BY DayAssumption DEF Days

LEMMA GapArithmetic ==
    ASSUME gap \in Gap
    PROVE  /\ gap.last \in Days /\ gap.today \in Days
           /\ gap.last \in Nat /\ gap.today \in Nat
           /\ GapDays \in Int /\ gap.today = gap.last + GapDays
<1>1. gap.last \in Days /\ gap.today \in Days
  BY DEF Gap
<1>2. gap.last \in Nat /\ gap.today \in Nat
  BY <1>1, DaysAreNat
<1>3. QED
  BY <1>1, <1>2 DEF GapDays

\* A carried point is a point of the new day.
LEMMA CarriedPoint ==
    ASSUME NEW p \in Point, NEW day \in Days
    PROVE  /\ CarryForward(p, day) \in Point
           /\ CarryForward(p, day).date = day
<1> DEFINE q == [p EXCEPT !.date = day]
<1>1. q \in Point /\ q.date = day
  BY DEF Point
<1>2. CarryForward(p, day) = [q EXCEPT !.transfer = 0]
  BY DEF CarryForward
<1> HIDE DEF q
<1>3. QED
  BY <1>1, <1>2 DEF Point

\* _fill_gap_days keeps the curve and appends one point for every day between
\* the last recorded day and today.
LEMMA FilledCurve ==
    ASSUME TypeOK, gap.last = Last.date, GapDays > 0
    PROVE  /\ FillGapDays(curve) \in Seq(Point)
           /\ Len(FillGapDays(curve)) = Len(curve) + GapDays - 1
           /\ \A i \in 1 .. Len(curve) : FillGapDays(curve)[i] = curve[i]
           /\ \A i \in Len(curve) + 1 .. Len(curve) + GapDays - 1 :
                 FillGapDays(curve)[i].date = gap.last + i - Len(curve)
<1> DEFINE n == Len(curve)
           k == GapDays
           m == n + k - 1
           F == FillGapDays(curve)
<1>1. /\ n \in Nat \ {0} /\ curve[n] \in Point
      /\ \A i \in 1 .. n : curve[i] \in Point
  BY LastPoint, ElementOfSeq DEF TypeOK
<1>2. /\ k \in Nat \ {0} /\ gap.last \in Nat /\ gap.today \in Days
      /\ gap.today = gap.last + k
  BY GapArithmetic DEF TypeOK
<1>3. F = [i \in 1 .. m |-> IF i <= n THEN curve[i]
                            ELSE CarryForward(curve[n], gap.last + i - n)]
  BY DEF FillGapDays
<1>4. m = n + k - 1
  OBVIOUS
<1> HIDE DEF n, k, m, F
<1>5. m \in Nat /\ n <= m
  BY <1>1, <1>2, <1>4
<1>6. ASSUME NEW i \in 1 .. m, ~(i <= n)
      PROVE  F[i] \in Point /\ F[i].date = gap.last + i - n
  <2>1. gap.last + i - n \in Nat /\ gap.last + i - n <= gap.today
    BY <1>1, <1>2, <1>4, <1>5, <1>6
  <2>2. gap.last + i - n \in Days
    BY <2>1, <1>2, DayAssumption DEF Days
  <2>3. F[i] = CarryForward(curve[n], gap.last + i - n)
    BY <1>3, <1>6
  <2>4. QED
    BY <2>2, <2>3, <1>1, CarriedPoint
<1>7. ASSUME NEW i \in 1 .. n
      PROVE  i \in 1 .. m /\ F[i] = curve[i]
  BY <1>1, <1>3, <1>5, <1>7
<1>8. F \in [1 .. m -> Point]
  <2>1. \A i \in 1 .. m : F[i] \in Point
    <3> TAKE i \in 1 .. m
    <3>1. CASE i <= n
      <4>1. i \in 1 .. n
        BY <3>1, <1>1, <1>5
      <4>2. QED
        BY <4>1, <1>1, <1>7
    <3>2. CASE ~(i <= n)
      BY <3>2, <1>6
    <3>3. QED
      BY <3>1, <3>2
  <2>2. QED
    BY <2>1, <1>3
<1>9. F \in Seq(Point) /\ Len(F) = m
  BY <1>5, <1>8, SeqDef, LenProperties
<1>10. \A i \in n + 1 .. m : F[i].date = gap.last + i - n
  <2> TAKE i \in n + 1 .. m
  <2>1. i \in 1 .. m /\ ~(i <= n)
    BY <1>1, <1>5
  <2>2. QED
    BY <2>1, <1>6
<1>11. QED
  BY <1>4, <1>7, <1>9, <1>10 DEF n, k, F

\* When no point is dated today the filter of the merge removes nothing.
LEMMA NothingToRemove ==
    ASSUME NEW c, NEW day, \A i \in DOMAIN c : c[i].date # day
    PROVE  Without(c, day) = c
BY DEF Without

\* Merging after a gap: the old points, one per missing day, today's point.
LEMMA MergedAfterGap ==
    ASSUME TypeOK, CurveIsDaily, RunInv, pc = "merge", GapDays > 0
    PROVE  /\ Merged(curve) \in Seq(Point)
           /\ Len(Merged(curve)) = Len(curve) + GapDays
           /\ \A i \in 1 .. Len(curve) : Merged(curve)[i] = curve[i]
           /\ \A i \in 1 .. Len(Merged(curve)) :
                 Merged(curve)[i].date = curve[1].date + i - 1
           /\ Merged(curve)[Len(Merged(curve))] = point
           /\ \A i \in 1 .. Len(curve) + GapDays - 1 :
                 Merged(curve)[i] = FillGapDays(curve)[i]
<1> DEFINE n == Len(curve)
           k == GapDays
           m == n + k - 1
           F == FillGapDays(curve)
           first == curve[1].date
<1>1. /\ n \in Nat \ {0}
      /\ \A i \in 1 .. n : curve[i] \in Point
      /\ Last = curve[n]
  BY LastPoint, ElementOfSeq DEF TypeOK
<1>2. /\ k \in Nat \ {0} /\ gap.last \in Nat
      /\ gap.today = gap.last + k
  BY GapArithmetic DEF TypeOK
<1>3. point \in Point /\ point.date = gap.today
  BY DEF TypeOK, RunInv
<1>4. /\ F \in Seq(Point) /\ Len(F) = m
      /\ \A i \in 1 .. n : F[i] = curve[i]
      /\ \A i \in n + 1 .. m : F[i].date = gap.last + i - n
  BY FilledCurve DEF RunInv
<1>5. \A i \in 1 .. n : curve[i].date = first + i - 1
  BY DEF CurveIsDaily
<1>6. gap.last = curve[n].date
  BY <1>1 DEF RunInv
<1>7. first \in Nat
  <2>1. curve[1] \in Point
    BY <1>1
  <2>2. QED
    BY <2>1, DaysAreNat DEF Point
<1>8. m = n + k - 1
  OBVIOUS
<1>9. DOMAIN F = 1 .. m
  BY <1>4, LenProperties
<1>10. Merged(curve) = Append(Without(F, gap.today), point)
  BY DEF Merged
<1> HIDE DEF n, k, m, F, first
<1>11. gap.last = first + n - 1
  BY <1>1, <1>5, <1>6
<1>12. \A i \in 1 .. m : F[i].date = first + i - 1
  <2> TAKE i \in 1 .. m
  <2>1. CASE i <= n
    <3>1. i \in 1 .. n
      BY <2>1, <1>1, <1>2, <1>8
    <3>2. QED
      BY <3>1, <1>4, <1>5
  <2>2. CASE ~(i <= n)
    <3>1. i \in n + 1 .. m
      BY <2>2, <1>1, <1>2, <1>8
    <3>2. F[i].date = gap.last + i - n
      BY <3>1, <1>4
    <3>3. QED
      BY <3>1, <3>2, <1>1, <1>2, <1>7, <1>8, <1>11
  <2>3. QED
    BY <2>1, <2>2
<1>13. \A i \in DOMAIN F : F[i].date # gap.today
  BY <1>1, <1>2, <1>7, <1>8, <1>9, <1>11, <1>12
<1>14. Merged(curve) = Append(F, point)
  BY <1>10, <1>13, NothingToRemove
<1>15. /\ Append(F, point) \in Seq(Point)
       /\ Len(Append(F, point)) = m + 1
       /\ \A i \in 1 .. m : Append(F, point)[i] = F[i]
       /\ Append(F, point)[m + 1] = point
  BY <1>3, <1>4, AppendProperties
<1>16. m + 1 = n + k /\ m \in Nat /\ n <= m
  BY <1>1, <1>2, <1>8
<1>17. \A i \in 1 .. m + 1 : Append(F, point)[i].date = first + i - 1
  <2> TAKE i \in 1 .. m + 1
  <2>1. CASE i = m + 1
    BY <2>1, <1>1, <1>2, <1>3, <1>7, <1>11, <1>15, <1>16
  <2>2. CASE i # m + 1
    <3>1. i \in 1 .. m
      BY <2>2, <1>16
    <3>2. QED
      BY <3>1, <1>12, <1>15
  <2>3. QED
    BY <2>1, <2>2
<1>18. \A i \in 1 .. n : Append(F, point)[i] = curve[i]
  BY <1>1, <1>4, <1>15, <1>16
<1>19. \A i \in 1 .. n + k - 1 : Append(F, point)[i] = F[i]
  BY <1>8, <1>15
<1>20. QED
  BY <1>14, <1>15, <1>16, <1>17, <1>18, <1>19 DEF n, k, first, F

\* Merging on the same day: only the last point changes.
LEMMA MergedSameDay ==
    ASSUME TypeOK, RunInv, pc = "merge", ~(GapDays > 0)
    PROVE  /\ Merged(curve) \in Seq(Point)
           /\ Len(Merged(curve)) = Len(curve)
           /\ \A i \in 1 .. Len(curve) :
                 Merged(curve)[i] = IF i = Len(curve) THEN point ELSE curve[i]
           /\ point.date = curve[Len(curve)].date
<1>1. point.date = Last.date
  BY DEF TypeOK, RunInv, Gap, GapDays, Days
<1>2. QED
  BY <1>1, LastPoint, ExceptSeq DEF Merged, TypeOK

-----------------------------------------------------------------------------
LEMMA InitIInv == Init => IInv
<1> SUFFICES ASSUME Init PROVE IInv
  OBVIOUS
<1> DEFINE p == [date |-> 0, usdt |-> Opening, mark |-> mark, transfer |-> 0]
<1>1. 0 \in Days /\ mark \in Nat
  BY DayAssumption, AmountAssumption DEF Init, Days
<1>2. p \in Point /\ NoPoint \in Point /\ NoGap \in Gap /\ NoTotals \in Totals
      /\ NothingFetched \in [pnl : Int, booked : Int]
  BY <1>1, AmountAssumption
     DEF Point, NoPoint, Gap, NoGap, NoTotals, Totals, NothingFetched
<1>3. curve = <<p>>
  BY DEF Init
<1>4. curve \in Seq(Point) /\ curve # <<>> /\ Len(curve) = 1 /\ curve[1] = p
  BY <1>2, <1>3
<1>5. Last = p
  BY <1>4 DEF Last
<1>6. TypeOK
  BY <1>1, <1>2, <1>4, DayAssumption DEF Init, TypeOK
<1>7. CurveIsDaily
  <2>1. p.date = 0 /\ today = 0
    BY DEF Init
  <2>2. QED
    BY <1>4, <1>5, <2>1 DEF CurveIsDaily
<1>8. RunInv
  BY DEF Init, RunInv
<1>9. BooksInv
  <2>1. p.usdt = Opening /\ p.mark = mark /\ seen.pnl = 0 /\ seen.flow = 0
        /\ point.mark = 0
    BY DEF Init, NoTotals, NoPoint
  <2>2. ~HoldsBtc => mark = 0
    BY DEF HoldsBtc, Init
  <2>3. QED
    BY <1>5, <2>1, <2>2, AmountAssumption DEF Init, BooksInv
<1>10. QED
  BY <1>6, <1>7, <1>8, <1>9 DEF IInv

\* A step of the account or the clock leaves the curve and the run alone.
LEMMA WorldStep ==
    ASSUME IInv, UNCHANGED <<curve, pc, gap, point, history>>,
           today' \in Days, today' >= today,
           pc # "idle" => today' <= gap.today + 1,
           pnlTotal' \in Int, pnlAtOpen' \in [Days -> Int], flowTotal' \in Int,
           mark' \in Marks, events' \in 0 .. MaxEvents
    PROVE  IInv'
<1>1. TypeOK'
  BY DEF IInv, TypeOK, history
<1>2. Last' = Last /\ GapDays' = GapDays
  BY DEF Last, GapDays
<1>3. today \in Nat /\ today' \in Nat /\ Last.date \in Nat
      /\ gap.today \in Nat
  BY LastPoint, DaysAreNat, GapArithmetic DEF IInv, TypeOK, Point
<1>4. CurveIsDaily'
  BY <1>2, <1>3 DEF IInv, CurveIsDaily
<1>5. RunInv'
  BY <1>2, <1>3 DEF IInv, RunInv
<1>6. (\A q : Flagged(q)' = Flagged(q)) /\ history' = history
  BY <1>2 DEF Flagged, Residual, PriceEffect, Equity, history
<1>7. BooksInv'
  BY <1>2, <1>6 DEF IInv, BooksInv, history
<1>8. QED
  BY <1>1, <1>4, <1>5, <1>7 DEF IInv

\* Every step keeps the inductive invariant; only MergePoint touches the curve.
LEMMA StepIInv == IInv /\ [Next]_vars => IInv'
<1> SUFFICES ASSUME IInv, [Next]_vars PROVE IInv'
  OBVIOUS
<1> USE DEF IInv
<1>0. /\ today \in Nat /\ today \in Days /\ Last \in Point /\ Last.date \in Days
      /\ Last.date \in Nat /\ Last.usdt \in Int /\ Last.mark \in Nat
      /\ gap.last \in Nat /\ gap.today \in Nat
  BY LastPoint, DaysAreNat, GapArithmetic DEF TypeOK, Point
<1>1. ASSUME NEW amount \in PnlSteps, BookPnl(amount) PROVE IInv'
  <2>1. pnlTotal' \in Int /\ events' \in 0 .. MaxEvents
    BY <1>1, AmountAssumption, DayAssumption DEF BookPnl, Event, TypeOK
  <2>2. QED
    BY <1>0, <1>1, <2>1, WorldStep DEF BookPnl, TypeOK, RunInv
<1>2. ASSUME NEW amount \in FlowSteps, MoveCash(amount) PROVE IInv'
  <2>1. flowTotal' \in Int /\ events' \in 0 .. MaxEvents
    BY <1>2, AmountAssumption, DayAssumption DEF MoveCash, Event, TypeOK
  <2>2. QED
    BY <1>0, <1>2, <2>1, WorldStep DEF MoveCash, TypeOK, RunInv
<1>3. ASSUME NEW value \in Marks, Reprice(value) PROVE IInv'
  <2>1. events' \in 0 .. MaxEvents
    BY <1>3, DayAssumption DEF Reprice, Event, TypeOK
  <2>2. QED
    BY <1>0, <1>3, <2>1, WorldStep DEF Reprice, TypeOK, RunInv
<1>4. CASE NextDay
  <2>1. today' = today + 1 /\ today' \in Days
    BY <1>0, <1>4, DayAssumption DEF NextDay, Days
  <2>2. pnlAtOpen' \in [Days -> Int]
    BY <1>4 DEF NextDay, TypeOK
  <2>3. QED
    BY <1>0, <1>4, <2>1, <2>2, WorldStep DEF NextDay, TypeOK
<1>5. CASE StartUpdate
  <2>1. Last' = Last /\ gap' = [today |-> today, last |-> Last.date] /\ pc' = "balance"
        /\ UNCHANGED <<world, curve, point, history>>
    BY <1>5 DEF StartUpdate, Last
  <2>2. gap' \in Gap /\ gap'.today = today /\ gap'.last = Last.date
    BY <1>0, <2>1 DEF Gap
  <2>3. TypeOK'
    BY <2>1, <2>2 DEF TypeOK, world, history
  <2>4. CurveIsDaily'
    BY <2>1 DEF CurveIsDaily, world
  <2>5. RunInv'
    BY <1>0, <1>5, <2>1, <2>2 DEF RunInv, StartUpdate, world
  <2>6. BooksInv'
    BY <2>1 DEF BooksInv, history
  <2>7. QED
    BY <2>3, <2>4, <2>5, <2>6
<1>6. CASE FetchBalance
  <2>1. pc = "balance" /\ Last' = Last /\ pc' = "price"
        /\ UNCHANGED <<world, curve, gap, seen, fetched>>
    BY <1>6 DEF FetchBalance, Last
  <2>2. /\ point' \in Point /\ point'.date = gap.today /\ point'.usdt = Usdt
        /\ point'.mark = 0
        /\ atSnap' \in Totals /\ atSnap'.pnl = pnlTotal /\ atSnap'.flow = flowTotal
    <3>1. Usdt \in Int /\ gap.today \in Days
      BY AmountAssumption DEF Usdt, TypeOK, Gap
    <3>2. QED
      BY <1>6, <3>1 DEF FetchBalance, Point, Totals, TypeOK
  <2>3. TypeOK'
    BY <2>1, <2>2 DEF TypeOK, world
  <2>4. CurveIsDaily'
    BY <2>1 DEF CurveIsDaily, world
  <2>5. RunInv'
    BY <1>0, <2>1, <2>2 DEF RunInv, world
  <2>6. BooksInv'
    BY <2>1, <2>2 DEF BooksInv, Usdt
  <2>7. QED
    BY <2>3, <2>4, <2>5, <2>6
<1>7. CASE ExchangeFails
  <2>1. Last' = Last /\ pc' = "idle" /\ point' = NoPoint /\ gap' = NoGap
        /\ atSnap' = NoTotals /\ fetched' = NothingFetched
        /\ UNCHANGED <<world, curve, seen>>
    BY <1>7 DEF ExchangeFails, EndRun, Last
  <2>2. TypeOK'
    BY <2>1, DayAssumption
       DEF TypeOK, world, NoPoint, NoGap, NoTotals, NothingFetched, Point, Gap, Totals, Days
  <2>3. CurveIsDaily'
    BY <2>1 DEF CurveIsDaily, world
  <2>4. RunInv' /\ BooksInv'
    BY <2>1 DEF RunInv, BooksInv, NoPoint
  <2>5. QED
    BY <2>2, <2>3, <2>4
<1>8. CASE ParseBalances
  <2>1. PICK m \in QuotedMarks : point' = [point EXCEPT !.mark = m]
    BY <1>8 DEF ParseBalances
  <2>2. pc = "price" /\ Last' = Last /\ UNCHANGED <<world, curve, gap, history>>
        /\ pc' = IF GapDays > 0 THEN "ledger" ELSE "merge"
    BY <1>8 DEF ParseBalances, Last
  <2>3. m \in Nat /\ (~HoldsBtc => m = 0)
    BY AmountAssumption DEF QuotedMarks, HoldsBtc, TypeOK
  <2>4. point' \in Point /\ point'.date = point.date /\ point'.usdt = point.usdt
        /\ point'.mark = m
    BY <2>1, <2>3 DEF TypeOK, Point
  <2>5. TypeOK'
    BY <2>2, <2>4 DEF TypeOK, world, history
  <2>6. CurveIsDaily'
    BY <2>2 DEF CurveIsDaily, world
  <2>7. GapDays' = GapDays
    BY <2>2 DEF GapDays
  <2>8. RunInv'
    BY <2>2, <2>4, <2>7 DEF RunInv, world
  <2>9. BooksInv'
    BY <2>2, <2>3, <2>4, <2>7 DEF BooksInv, history
  <2>10. QED
    BY <2>5, <2>6, <2>8, <2>9
<1>9. CASE DetectTransfer
  <2>1. PICK pnl \in {CompletePnl} \cup PartialPnl :
           /\ fetched' = [pnl |-> pnl, booked |-> WindowEnd]
           /\ point' = [point EXCEPT !.transfer = Flagged(pnl)]
    BY <1>9 DEF DetectTransfer
  <2>2. pc = "ledger" /\ pc' = "merge" /\ Last' = Last /\ GapDays' = GapDays
        /\ UNCHANGED <<world, curve, gap, seen, atSnap>>
    BY <1>9 DEF DetectTransfer, Last, GapDays
  <2>3. WindowEnd \in Int /\ pnl \in Int
    <3>1. gap.last \in Days /\ gap.today \in Days
      BY GapArithmetic DEF TypeOK
    <3>2. today > gap.today => gap.today + 1 \in Days
      <4>1. today > gap.today => gap.today + 1 = today
        BY <1>0, <2>2 DEF RunInv
      <4>2. QED
        BY <4>1, <1>0
    <3>3. WindowEnd \in Int
      BY <3>2 DEF WindowEnd, TypeOK
    <3>4. pnlAtOpen[gap.last] \in Int
      BY <3>1 DEF TypeOK
    <3>5. \A d \in gap.last .. gap.today : d \in Days
      BY <1>0, <3>1, DayAssumption DEF Days
    <3>6. \A d \in gap.last .. gap.today : pnlAtOpen[d] - pnlAtOpen[gap.last] \in Int
      BY <3>4, <3>5 DEF TypeOK
    <3>7. QED
      BY <3>3, <3>4, <3>6 DEF CompletePnl, PartialPnl
  <2>4. Flagged(pnl) \in Int
    <3>1. point.usdt \in Int /\ point.mark \in Nat
      BY DEF TypeOK, Point
    <3>2. Equity(point) \in Int /\ Equity(Last) \in Int /\ PriceEffect(point.mark) \in Int
      BY <1>0, <3>1 DEF Equity, PriceEffect
    <3>3. Residual(pnl) \in Int
      BY <2>3, <3>2 DEF Residual
    <3>4. QED
      BY <3>3 DEF Flagged
  <2>5. /\ point' \in Point /\ point'.date = point.date /\ point'.usdt = point.usdt
        /\ point'.mark = point.mark /\ point'.transfer = Flagged(pnl)
        /\ fetched' \in [pnl : Int, booked : Int] /\ fetched'.pnl = pnl
    BY <2>1, <2>3, <2>4 DEF TypeOK, Point
  <2>6. Flagged(pnl)' = Flagged(pnl)
    <3>1. Equity(point)' = Equity(point) /\ Equity(Last)' = Equity(Last)
          /\ PriceEffect(point.mark)' = PriceEffect(point.mark)
      BY <2>2, <2>5 DEF Equity, PriceEffect
    <3>2. Residual(pnl)' = Residual(pnl)
      BY <3>1 DEF Residual
    <3>3. QED
      BY <3>2 DEF Flagged
  <2>7. TypeOK'
    BY <2>2, <2>5 DEF TypeOK, world
  <2>8. CurveIsDaily' /\ RunInv'
    BY <2>2, <2>5 DEF CurveIsDaily, RunInv, world
  <2>9. BooksInv'
    BY <2>2, <2>5, <2>6 DEF BooksInv
  <2>10. QED
    BY <2>7, <2>8, <2>9
<1>10. CASE MergePoint
  <2>1. /\ pc = "merge" /\ curve' = Merged(curve) /\ seen' = atSnap
        /\ pc' = "idle" /\ point' = NoPoint /\ gap' = NoGap
        /\ atSnap' = NoTotals /\ fetched' = NothingFetched /\ UNCHANGED world
    BY <1>10 DEF MergePoint, EndRun
  <2>2. /\ curve' \in Seq(Point) /\ Len(curve') >= Len(curve)
        /\ Len(curve) \in Nat \ {0} /\ Len(curve') \in Nat
        /\ curve'[Len(curve')] = point
        /\ \A i \in 1 .. Len(curve') : curve'[i].date = curve'[1].date + i - 1
    <3>0. Len(curve) \in Nat \ {0} /\ 1 \in 1 .. Len(curve)
      BY LastPoint DEF TypeOK
    <3>1. CASE GapDays > 0
      <4>1. /\ Merged(curve) \in Seq(Point)
            /\ Len(Merged(curve)) = Len(curve) + GapDays
            /\ Merged(curve)[1] = curve[1]
            /\ \A i \in 1 .. Len(Merged(curve)) :
                  Merged(curve)[i].date = curve[1].date + i - 1
            /\ Merged(curve)[Len(Merged(curve))] = point
        BY <3>0, <3>1, <2>1, MergedAfterGap
      <4>2. GapDays \in Int
        BY GapArithmetic DEF TypeOK
      <4>3. curve' = Merged(curve)
        BY <2>1
      <4>4. Len(Merged(curve)) >= Len(curve) /\ Len(Merged(curve)) \in Nat
        BY <3>0, <3>1, <4>1, <4>2
      <4>5. QED
        BY <3>0, <4>1, <4>3, <4>4
    <3>2. CASE ~(GapDays > 0)
      <4>1. /\ Len(Merged(curve)) = Len(curve) /\ Merged(curve) \in Seq(Point)
            /\ Merged(curve)[Len(curve)] = point
            /\ \A i \in 1 .. Len(curve) : Merged(curve)[i].date = curve[i].date
        BY <3>0, <3>2, <2>1, MergedSameDay
      <4>2. QED
        BY <3>0, <4>1, <2>1 DEF CurveIsDaily
    <3>3. QED
      BY <3>1, <3>2
  <2>3. curve' # <<>>
    BY <2>2, EmptySeq
  <2>4. Last' = point
    BY <2>2 DEF Last
  <2>5. TypeOK'
    BY <2>1, <2>2, <2>3, DayAssumption
       DEF TypeOK, world, NoPoint, NoGap, NoTotals, NothingFetched, Point, Gap, Totals, Days
  <2>6. CurveIsDaily'
    <3>1. point.date <= today
      BY <2>1 DEF RunInv
    <3>2. QED
      BY <2>1, <2>2, <2>4, <3>1 DEF CurveIsDaily, world
  <2>7. RunInv'
    BY <2>1 DEF RunInv
  <2>8. BooksInv'
    BY <2>1, <2>4 DEF BooksInv, NoPoint
  <2>9. QED
    BY <2>5, <2>6, <2>7, <2>8
<1>11. CASE UNCHANGED vars
  BY <1>0, <1>11, WorldStep DEF vars, world, history, TypeOK, RunInv
<1>12. QED
  BY <1>1, <1>2, <1>3, <1>4, <1>5, <1>6, <1>7, <1>8, <1>9, <1>10, <1>11 DEF Next

\* The inductive invariant holds in every reachable state.
THEOREM Inductive == Spec => []IInv
<1>1. Init => IInv
  BY InitIInv
<1>2. IInv /\ [Next]_vars => IInv'
  BY StepIInv
<1>3. QED
  BY <1>1, <1>2, PTL DEF Spec

\* Every variable has its type in every reachable state.
THEOREM TypeCorrect == Spec => []TypeOK
<1>1. IInv => TypeOK
  BY DEF IInv
<1>2. QED
  BY <1>1, Inductive, PTL

\* The equity curve always has exactly one point per day and none in the
\* future (CurveIsDaily).
THEOREM DailyCurve == Spec => []CurveIsDaily
<1>1. IInv => CurveIsDaily
  BY DEF IInv
<1>2. QED
  BY <1>1, Inductive, PTL

-----------------------------------------------------------------------------
\* For a run whose view was coherent the residual is the cash that moved.
LEMMA ResidualIsFlow ==
    ASSUME IInv, CoherentRun, seen.pnl = pnlAtOpen[gap.last]
    PROVE  Residual(fetched.pnl) = atSnap.flow - seen.flow
<1>1. /\ Last \in Point /\ point \in Point
      /\ atSnap \in Totals /\ seen \in Totals
      /\ fetched \in [pnl : Int, booked : Int]
  BY LastPoint DEF IInv, TypeOK
<1>2. /\ Last.usdt \in Int /\ Last.mark \in Nat
      /\ point.usdt \in Int /\ point.mark \in Nat
      /\ atSnap.pnl \in Int /\ atSnap.flow \in Int
      /\ seen.pnl \in Int /\ seen.flow \in Int
      /\ fetched.pnl \in Int
  BY <1>1 DEF Point, Totals
<1>3. PriceEffect(point.mark) = point.mark - Last.mark
  <2>1. CASE HoldsBtc
    BY <2>1, <1>2 DEF CoherentRun, PriceEffect
  <2>2. CASE ~HoldsBtc
    BY <2>2, <1>2 DEF IInv, BooksInv, PriceEffect
  <2>3. QED
    BY <2>1, <2>2
<1>4. /\ point.usdt = Opening + atSnap.pnl + atSnap.flow
      /\ Last.usdt = Opening + seen.pnl + seen.flow
      /\ fetched.pnl = atSnap.pnl - seen.pnl
  BY DEF IInv, BooksInv, CoherentRun
<1>5. QED
  BY <1>2, <1>3, <1>4, AmountAssumption DEF Residual, Equity

\* Residual analysis is exact for a coherent run over a window that opens
\* with the last snapshot's P&L (CleanRunIsExact): no amount traded, no
\* repricing and no length of gap makes _detect_transfer miss or invent cash.
THEOREM CleanRun == Spec => []CleanRunIsExact
<1>1. IInv => CleanRunIsExact
  <2> SUFFICES ASSUME IInv, CoherentRun, seen.pnl = pnlAtOpen[gap.last]
               PROVE  StampedIsCashMoved
    BY DEF CleanRunIsExact
  <2>1. point.transfer = Flagged(fetched.pnl)
    BY DEF IInv, BooksInv, CoherentRun
  <2>2. Residual(fetched.pnl) = atSnap.flow - seen.flow
    BY ResidualIsFlow
  <2>3. QED
    BY <2>1, <2>2 DEF Flagged, StampedIsCashMoved
<1>2. QED
  BY <1>1, Inductive, PTL

\* What one step may do to the days already recorded.
LEMMA StepKeepsClosedDays ==
    ASSUME IInv, [Next]_vars
    PROVE  /\ Len(curve') >= Len(curve)
           /\ \A i \in 1 .. Len(curve) :
                 curve'[i] # curve[i] => i = Len(curve) /\ curve[i].date = gap.today
<1>1. Len(curve) \in Nat
  BY LastPoint DEF IInv, TypeOK
<1>2. CASE MergePoint
  <2>1. curve' = Merged(curve) /\ pc = "merge"
    BY <1>2 DEF MergePoint
  <2>2. CASE GapDays > 0
    <3>1. /\ Len(Merged(curve)) = Len(curve) + GapDays
          /\ \A i \in 1 .. Len(curve) : Merged(curve)[i] = curve[i]
      BY <2>1, <2>2, MergedAfterGap DEF IInv
    <3>2. GapDays \in Int
      BY GapArithmetic DEF IInv, TypeOK
    <3>3. Len(Merged(curve)) >= Len(curve)
      BY <1>1, <2>2, <3>1, <3>2
    <3>4. QED
      BY <2>1, <3>1, <3>3
  <2>3. CASE ~(GapDays > 0)
    <3>1. /\ Len(Merged(curve)) = Len(curve)
          /\ \A i \in 1 .. Len(curve) :
                Merged(curve)[i] = IF i = Len(curve) THEN point ELSE curve[i]
          /\ point.date = curve[Len(curve)].date
      BY <2>1, <2>3, MergedSameDay DEF IInv
    <3>2. point.date = gap.today
      BY <2>1 DEF IInv, RunInv
    <3>3. ASSUME NEW i \in 1 .. Len(curve), curve'[i] # curve[i]
          PROVE  i = Len(curve) /\ curve[i].date = gap.today
      <4>1. i = Len(curve)
        BY <2>1, <3>1, <3>3
      <4>2. QED
        BY <3>1, <3>2, <4>1
    <3>4. Len(curve') >= Len(curve)
      BY <1>1, <2>1, <3>1
    <3>5. QED
      BY <3>3, <3>4
  <2>4. QED
    BY <2>2, <2>3
<1>3. CASE ~MergePoint
  <2>1. curve' = curve
    BY <1>3 DEF Next, BookPnl, MoveCash, Reprice, NextDay, StartUpdate, FetchBalance,
                ExchangeFails, ParseBalances, DetectTransfer, vars, world, history
  <2>2. QED
    BY <1>1, <2>1
<1>4. QED
  BY <1>2, <1>3

\* An update rewrites at most the point the curve ends with, and only when it
\* is today's (ClosedDaysAreFinal): the days reported to clients are final.
THEOREM ClosedDays == Spec => ClosedDaysAreFinal
<1>1. IInv /\ [Next]_vars =>
        [KeepsClosedDays]_vars
  BY StepKeepsClosedDays DEF KeepsClosedDays
<1>2. QED
  BY <1>1, Inductive, PTL DEF Spec, ClosedDaysAreFinal

-----------------------------------------------------------------------------
(***************************************************************************)
(* EquityUpdate implements DailySeries.  The mapping reads the curve by    *)
(* date; CurveIsDaily makes that the same as reading it by position, and   *)
(* then every step of the update but the merge, and midnight, leaves the   *)
(* mapped series alone.                                                    *)
(***************************************************************************)

\* A curve without holes, as a function of the days from its first on.
IsDaily(c) ==
    /\ c \in Seq(Point) /\ Len(c) > 0
    /\ \A i \in 1 .. Len(c) : c[i].date = c[1].date + i - 1

\* Read by date, such a curve is the curve read by position.
LEMMA ByDateOfDaily ==
    ASSUME NEW c, IsDaily(c)
    PROVE  ByDate(c) = [d \in c[1].date .. c[1].date + Len(c) - 1 |->
                            Recorded(c[d - c[1].date + 1])]
<1> DEFINE n == Len(c)
           first == c[1].date
           dates == {c[i].date : i \in 1 .. n}
<1>1. n \in Nat \ {0}
  BY LenProperties DEF IsDaily
<1>2. first \in Nat
  <2>1. c[1] \in Point
    BY <1>1, ElementOfSeq DEF IsDaily
  <2>2. QED
    BY <2>1, DaysAreNat DEF Point
<1>3. \A i \in 1 .. n : c[i].date = first + i - 1
  BY DEF IsDaily
<1> HIDE DEF n, first
<1>4. dates = first .. first + n - 1
  <2>1. ASSUME NEW d \in dates PROVE d \in first .. first + n - 1
    BY <1>1, <1>2, <1>3
  <2>2. ASSUME NEW d \in first .. first + n - 1 PROVE d \in dates
    <3>1. d - first + 1 \in 1 .. n
      BY <1>1, <1>2
    <3>2. c[d - first + 1].date = d
      BY <1>2, <1>3, <3>1
    <3>3. QED
      BY <3>1, <3>2
  <2>3. QED
    BY <2>1, <2>2
<1>5. ASSUME NEW d \in first .. first + n - 1
      PROVE  (CHOOSE i \in 1 .. n : c[i].date = d) = d - first + 1
  <2>1. d - first + 1 \in 1 .. n
    BY <1>1, <1>2
  <2>2. c[d - first + 1].date = d
    BY <1>2, <1>3, <2>1
  <2>3. \A i \in 1 .. n : c[i].date = d => i = d - first + 1
    BY <1>1, <1>2, <1>3
  <2>4. QED
    BY <2>1, <2>2, <2>3
<1>6. ByDate(c) = [d \in dates |-> Recorded(c[CHOOSE i \in 1 .. n : c[i].date = d])]
  BY DEF ByDate, n
<1> HIDE DEF dates
<1>7. ByDate(c) = [d \in first .. first + n - 1 |-> Recorded(c[d - first + 1])]
  BY <1>4, <1>5, <1>6
<1>8. QED
  BY <1>7 DEF n, first

\* What a point records are balances.
LEMMA RecordedBalances ==
    ASSUME NEW p \in Point
    PROVE  /\ Recorded(p) \in Balances
           /\ \A day : Recorded(CarryForward(p, day)) = Repeated[Recorded(p)]
<1>1. /\ p.usdt \in Int /\ p.mark \in Nat /\ p.transfer \in Int
      /\ p = [date |-> p.date, usdt |-> p.usdt, mark |-> p.mark, transfer |-> p.transfer]
  BY DEF Point
<1>2. Recorded(p) \in Balances
  BY <1>1 DEF Recorded, Balances
<1>3. ASSUME NEW day PROVE Recorded(CarryForward(p, day)) = Repeated[Recorded(p)]
  <2>1. CarryForward(p, day) =
           [date |-> day, usdt |-> p.usdt, mark |-> p.mark, transfer |-> 0]
    <3> DEFINE q == [date |-> day, usdt |-> p.usdt, mark |-> p.mark, transfer |-> p.transfer]
    <3>1. [p EXCEPT !.date = day] = q
      BY <1>1
    <3>2. CarryForward(p, day) = [q EXCEPT !.transfer = 0]
      BY <3>1 DEF CarryForward
    <3>3. QED
      BY <3>2
  <2>2. Repeated[Recorded(p)] = [usdt |-> p.usdt, mark |-> p.mark, transfer |-> 0]
    BY <1>2 DEF Repeated, Recorded
  <2>3. QED
    BY <2>1, <2>2 DEF Recorded
<1>4. QED
  BY <1>2, <1>3

\* Where a curve without holes begins and ends.
LEMMA EndsOfDaily ==
    ASSUME NEW c, IsDaily(c)
    PROVE  /\ Len(c) \in Nat \ {0} /\ c[1].date \in Nat
           /\ c[Len(c)] \in Point
           /\ c[Len(c)].date = c[1].date + Len(c) - 1
<1>1. Len(c) \in Nat \ {0}
  BY LenProperties DEF IsDaily
<1>2. c[1] \in Point /\ c[Len(c)] \in Point
  BY <1>1, ElementOfSeq DEF IsDaily
<1>3. c[1].date \in Nat
  BY <1>2, DaysAreNat DEF Point
<1>4. QED
  BY <1>1, <1>2, <1>3 DEF IsDaily

-----------------------------------------------------------------------------
(* Two steps of DailySeries on curves read by date.                        *)

\* What Daily!Record says of a curve c followed by a curve e.
Records(c, e) ==
    LET old == ByDate(c)
        new == ByDate(e)
        from == c[Len(c)].date
        to == e[Len(e)].date
    IN  /\ from <= to
        /\ new = [d \in DOMAIN old \cup (from .. to) |->
                     IF d = to THEN new[d]
                     ELSE IF d \in DOMAIN old THEN old[d]
                     ELSE Repeated[old[from]]]
        /\ new[to] \in Balances

\* A longer curve that keeps all points of the old one and repeats the last
\* between them and its own last records one day, and so does a curve that
\* differs from the old one in its last point.
LEMMA LongerRecords ==
    ASSUME NEW c, NEW e, IsDaily(c), IsDaily(e), e[1].date = c[1].date,
           Len(c) <= Len(e),
           \A i \in 1 .. Len(c) - 1 : e[i] = c[i],
           Len(c) < Len(e) => e[Len(c)] = c[Len(c)],
           \A i \in Len(c) + 1 .. Len(e) - 1 :
              Recorded(e[i]) = Repeated[Recorded(c[Len(c)])]
    PROVE  Records(c, e)
<1> DEFINE n == Len(c)
           m == Len(e)
           first == c[1].date
           from == c[n].date
           to == e[m].date
           old == ByDate(c)
           new == ByDate(e)
<1>1. /\ n \in Nat \ {0} /\ m \in Nat \ {0} /\ n <= m /\ first \in Nat
      /\ from = first + n - 1 /\ to = first + m - 1
      /\ e[m] \in Point
  BY EndsOfDaily
<1>2. /\ old = [d \in first .. first + n - 1 |-> Recorded(c[d - first + 1])]
      /\ new = [d \in first .. first + m - 1 |-> Recorded(e[d - first + 1])]
  BY ByDateOfDaily
<1>3. /\ \A i \in 1 .. n - 1 : e[i] = c[i]
      /\ n < m => e[n] = c[n]
      /\ \A i \in n + 1 .. m - 1 : Recorded(e[i]) = Repeated[Recorded(c[n])]
  OBVIOUS
<1> HIDE DEF n, m, first, from, to, old, new
<1>4. DOMAIN old = first .. first + n - 1 /\ DOMAIN new = first .. first + m - 1
  BY <1>2
<1>5. DOMAIN new = DOMAIN old \cup (from .. to)
  BY <1>1, <1>4
<1>6. ASSUME NEW d \in DOMAIN new, d # to, d \in DOMAIN old
      PROVE  new[d] = old[d]
  <2>1. d - first + 1 \in 1 .. n /\ d - first + 1 < m
    BY <1>1, <1>4, <1>6
  <2>2. e[d - first + 1] = c[d - first + 1]
    BY <1>1, <1>3, <2>1
  <2>3. QED
    BY <1>2, <1>4, <1>6, <2>2
<1>7. ASSUME NEW d \in DOMAIN new, d # to, d \notin DOMAIN old
      PROVE  new[d] = Repeated[old[from]]
  <2>1. d - first + 1 \in n + 1 .. m - 1
    BY <1>1, <1>4, <1>7
  <2>2. from \in DOMAIN old /\ from - first + 1 = n
    <3>1. from = first + n - 1 /\ first \in Nat /\ n \in Nat \ {0}
      BY <1>1
    <3>2. from \in first .. first + n - 1
      BY <3>1
    <3>3. from - first + 1 = n
      BY <3>1
    <3>4. QED
      BY <1>4, <3>2, <3>3
  <2>3. old[from] = Recorded(c[n])
    BY <1>2, <1>4, <2>2
  <2>4. QED
    BY <1>2, <1>3, <1>4, <1>7, <2>1, <2>3
<1>8. new[to] \in Balances
  <2>1. to \in DOMAIN new /\ to - first + 1 = m
    BY <1>1, <1>4
  <2>2. new[to] = Recorded(e[m])
    BY <1>2, <1>4, <2>1
  <2>3. QED
    BY <1>1, <2>2, RecordedBalances
<1>9. new = [d \in DOMAIN old \cup (from .. to) |->
                IF d = to THEN new[d]
                ELSE IF d \in DOMAIN old THEN old[d]
                ELSE Repeated[old[from]]]
  <2> DEFINE rhs == [d \in DOMAIN old \cup (from .. to) |->
                IF d = to THEN new[d]
                ELSE IF d \in DOMAIN old THEN old[d]
                ELSE Repeated[old[from]]]
  <2>1. DOMAIN new = DOMAIN rhs
    BY <1>5
  <2>2. \A d \in DOMAIN new : new[d] = rhs[d]
    BY <1>5, <1>6, <1>7
  <2>3. new = [d \in DOMAIN new |-> new[d]]
    BY <1>2, <1>4
  <2>4. QED
    BY <2>1, <2>2, <2>3
<1>10. from <= to
  BY <1>1
<1>11. QED
  BY <1>8, <1>9, <1>10 DEF Records, n, m, from, to, old, new

-----------------------------------------------------------------------------
\* A merge records one day of the series.
LEMMA MergeRecords ==
    ASSUME IInv, IInv', MergePoint
    PROVE  Daily!Record
<1>1. IsDaily(curve)
  BY LastPoint DEF IInv, TypeOK, CurveIsDaily, IsDaily
<1>2. IsDaily(curve')
  <2>1. curve' \in Seq(Point) /\ curve' # <<>>
    BY DEF IInv, TypeOK
  <2>2. Len(curve') > 0
    BY <2>1, EmptySeq, LenProperties
  <2>3. QED
    BY <2>1, <2>2 DEF IInv, CurveIsDaily, IsDaily
<1>3. pc = "merge" /\ curve' = Merged(curve) /\ today' = today
  BY DEF MergePoint, world
<1>4. Len(curve) \in Nat \ {0} /\ Last = curve[Len(curve)] /\ Last \in Point
  BY LastPoint DEF IInv, TypeOK
<1>5. Records(curve, curve')
  <2>1. CASE GapDays > 0
    <3>1. /\ Len(curve') = Len(curve) + GapDays
          /\ \A i \in 1 .. Len(curve) : curve'[i] = curve[i]
          /\ \A i \in 1 .. Len(curve) + GapDays - 1 :
                curve'[i] = FillGapDays(curve)[i]
      BY <1>3, <2>1, MergedAfterGap DEF IInv
    <3>2. GapDays \in Nat \ {0}
      BY <2>1, GapArithmetic DEF IInv, TypeOK
    <3>3. ASSUME NEW i \in Len(curve) + 1 .. Len(curve') - 1
          PROVE  Recorded(curve'[i]) = Repeated[Recorded(curve[Len(curve)])]
      <4>1. i \in 1 .. Len(curve) + GapDays - 1 /\ ~(i <= Len(curve))
        BY <1>4, <3>1, <3>2, <3>3
      <4>2. curve'[i] = CarryForward(curve[Len(curve)], gap.last + i - Len(curve))
        BY <3>1, <4>1 DEF FillGapDays
      <4>3. QED
        BY <1>4, <4>2, RecordedBalances
    <3>4. /\ curve'[1] = curve[1] /\ Len(curve) <= Len(curve')
          /\ \A i \in 1 .. Len(curve) - 1 : curve'[i] = curve[i]
          /\ curve'[Len(curve)] = curve[Len(curve)]
      BY <1>4, <3>1, <3>2
    <3>5. QED
      BY <1>1, <1>2, <3>3, <3>4, LongerRecords
  <2>2. CASE ~(GapDays > 0)
    <3>1. /\ Len(curve') = Len(curve)
          /\ \A i \in 1 .. Len(curve) :
                curve'[i] = IF i = Len(curve) THEN point ELSE curve[i]
          /\ point.date = curve[Len(curve)].date
      BY <1>3, <2>2, MergedSameDay DEF IInv
    <3>2. curve'[1].date = curve[1].date
      BY <1>4, <3>1
    <3>3. \A i \in 1 .. Len(curve) - 1 : curve'[i] = curve[i]
      BY <1>4, <3>1
    <3>4. /\ Len(curve) <= Len(curve') /\ ~(Len(curve) < Len(curve'))
          /\ Len(curve) + 1 .. Len(curve') - 1 = {}
      BY <1>4, <3>1
    <3>5. QED
      BY <1>1, <1>2, <3>2, <3>3, <3>4, LongerRecords
  <2>3. QED
    BY <2>1, <2>2
<1>6. Last'.date <= today
  BY <1>3 DEF IInv, CurveIsDaily
<1>7. Last' = curve'[Len(curve')]
  BY DEF Last
<1>8. QED
  BY <1>3, <1>4, <1>5, <1>6, <1>7 DEF Daily!Record, Records

\* Steps other than the merge leave the curve, and but for midnight the clock.
LEMMA OtherSteps ==
    ASSUME [Next]_vars, ~MergePoint
    PROVE  /\ UNCHANGED curve
           /\ today' = today \/ today' = today + 1
BY DEF Next, BookPnl, MoveCash, Reprice, NextDay, StartUpdate, FetchBalance,
       ExchangeFails, ParseBalances, DetectTransfer, vars, world, history

\* The hourly update implements the daily series its readers rely on
\* (ImplementsDailySeries): one day recorded per run, earlier days final,
\* missed days repeated without their transfer.
THEOREM Refinement == Spec => ImplementsDailySeries
<1>1. Init => Daily!SeriesInit
  <2> SUFFICES ASSUME Init PROVE Daily!SeriesInit
    OBVIOUS
  <2> DEFINE p == [date |-> 0, usdt |-> Opening, mark |-> mark, transfer |-> 0]
  <2>1. IInv
    BY InitIInv
  <2>2. curve = <<p>> /\ today = 0
    BY DEF Init
  <2>3. Len(curve) = 1 /\ curve[1] = p /\ Last = p
    BY <2>2 DEF Last
  <2>4. p.date = 0 /\ p \in Point
    BY <2>1, <2>3, LastPoint DEF IInv, TypeOK
  <2>5. IsDaily(curve)
    BY <2>1, <2>3 DEF IInv, TypeOK, CurveIsDaily, IsDaily
  <2>6. ByDate(curve) = [d \in 0 .. 0 |-> Recorded(curve[d - 0 + 1])]
    BY <2>3, <2>4, <2>5, ByDateOfDaily
  <2>7. ByDate(curve) \in [{0} -> Balances]
    <3>1. Recorded(curve[1]) \in Balances
      BY <2>3, <2>4, RecordedBalances
    <3>2. 0 .. 0 = {0}
      OBVIOUS
    <3>3. QED
      BY <2>6, <3>1, <3>2
  <2>8. QED
    BY <2>2, <2>3, <2>4, <2>7 DEF Daily!SeriesInit
<1>2. IInv /\ IInv' /\ [Next]_vars => [Daily!SeriesNext]_Daily!seriesVars
  <2> SUFFICES ASSUME IInv, IInv', [Next]_vars
               PROVE  [Daily!SeriesNext]_Daily!seriesVars
    OBVIOUS
  <2>1. CASE MergePoint
    BY <2>1, MergeRecords DEF Daily!SeriesNext
  <2>2. CASE ~MergePoint
    <3>1. curve' = curve /\ (today' = today \/ today' = today + 1)
      BY <2>2, OtherSteps
    <3>2. Last'.date = Last.date /\ ByDate(curve)' = ByDate(curve)
      BY <3>1 DEF Last, ByDate
    <3>3. QED
      BY <3>1, <3>2 DEF Daily!SeriesNext, Daily!Midnight, Daily!seriesVars
  <2>3. QED
    BY <2>1, <2>2
<1>3. QED
  BY <1>1, <1>2, Inductive, PTL DEF Spec, ImplementsDailySeries, Daily!SeriesSpec
=============================================================================
