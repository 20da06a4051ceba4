--------------------------- MODULE BackfillProofs ---------------------------
(***************************************************************************)
(* The backfill, for accounts with any number of rows, pages of any size,  *)
(* any retention limits and any number of failing calls: which rows the    *)
(* pagers can miss, and that a ledger that was cut short still yields the  *)
(* right curve.  The invariant says for every stage what the rows behind   *)
(* the cursor have become.                                                 *)
(***************************************************************************)
EXTENDS Backfill, FiniteSetLemmas, SequenceTheorems

-----------------------------------------------------------------------------
(* The invariant *)

\* No row was fetched twice.
Distinct(s) == \A m, n \in DOMAIN s : s[m] = s[n] => m = n

Row == [tick : 1 .. Ticks, kind : {"fill", "flow"}, sym : {k.sym : k \in RowKinds}, amount : Int]

\* The account's rows are in the order they were booked.
HistoryInv ==
    /\ rows \in Seq(Row) /\ Len(rows) <= MaxRows
    /\ \A i, j \in Ids : i < j => TickOf(i) <= TickOf(j)
    /\ \A i \in Ids : rows[i].kind = "fill" => rows[i].sym \in Syms

BeforeTrades == {"start", "ledger", "archive", "history"}
AfterFills == {"deposits", "withdrawals", "save", "done"}
OkxOnly == {"archive", "history", "fills"}

RunInv ==
    /\ venue \in {"binance", "okx"}
    /\ stage \in BeforeTrades \cup {"trades", "fills"} \cup AfterFills
    /\ venue = "binance" => stage \notin OkxOnly
    /\ todo \subseteq Syms /\ cursor \in Int /\ balance \in Int /\ snapLen \in 0 .. Len(rows)
    /\ ledger \in Seq(Ids) /\ trades \in Seq(Ids) /\ transfers \in Seq(Ids)
    /\ Distinct(ledger) /\ Distinct(trades) /\ Distinct(transfers)
    /\ stage = "history" => cursor \in 1 .. Len(Quarters) + 1

\* The income pages fetched lie behind the cursor; the quarterly files come
\* after the bills.
LedgerInv ==
    /\ stage = "start" => ledger = <<>> /\ failed = {}
    /\ stage \in {"start", "ledger", "archive"} => filed = {}
    /\ venue = "binance" /\ stage = "ledger" => \A i \in Fetched(ledger) : TickOf(i) > cursor

Has(i, s) == i \in Fetched(s) \/ LostInTie(i, Fetched(s))

BillsRead == venue = "okx" /\ stage \notin {"start", "ledger", "archive"}

\* The file of quarter q was asked for.
FileRead(q) == BillsRead /\ (stage = "history" => q < cursor)

\* What is behind the cursor was fetched or lost in a tie.
LedgerCovers ==
    failed = {} =>
      \A i \in 1 .. snapLen :
        /\ venue = "binance" /\ stage # "start" /\ (stage = "ledger" => TickOf(i) > cursor) => Has(i, ledger)
        /\ venue = "okx" /\ stage = "archive" /\ i >= cursor /\ TickOf(i) >= ArchiveFrom => i \in Fetched(ledger)
        /\ BillsRead /\ TickOf(i) >= ArchiveFrom => i \in Fetched(ledger)
        /\ \A q \in DOMAIN Quarters : FileRead(q) /\ TickOf(i) \in Quarters[q] => i \in Fetched(ledger)

\* The cursor of the present symbol has gone past row i.
Passed(i) == IF venue = "binance" THEN TickOf(i) < cursor ELSE TickOf(i) > cursor

TradesInv ==
    /\ stage \in BeforeTrades => trades = <<>>
    /\ \A i \in Fetched(trades) :
          /\ rows[i].kind = "fill"
          /\ stage = "trades" /\ rows[i].sym \in todo => rows[i].sym = Sym /\ Passed(i)
          /\ venue = "okx" /\ stage = "trades" => TickOf(i) >= RecentFrom

Scanned(i) ==
    \/ stage = "trades" /\ (rows[i].sym \in todo => rows[i].sym = Sym /\ Passed(i))
    \/ stage \in {"fills"} \cup AfterFills

\* Row i is not older than what the venue's scan asks for.
Within(i) == TickOf(i) >= IF venue = "okx" THEN RecentFrom ELSE TradesFrom

\* Phase 2 has asked for row i.
LookedUp(i) ==
    \/ stage = "fills" /\ (rows[i].sym \in todo => rows[i].sym = Sym /\ i >= cursor)
    \/ stage \in AfterFills

TradesCover ==
    failed = {} =>
      \A i \in Ids : rows[i].kind = "fill" /\ rows[i].sym \in Discovered =>
        /\ Scanned(i) /\ Within(i) => Has(i, trades)
        /\ venue = "okx" /\ TickOf(i) < RecentFrom /\ LookedUp(i) /\ rows[i].sym \in WithTrades
              => i \in Fetched(trades)

TransfersInv ==
    /\ stage \in BeforeTrades \cup {"trades", "fills"} => transfers = <<>>
    /\ \A i \in Fetched(transfers) :
          /\ rows[i].kind = "flow"
          /\ stage = "deposits" => rows[i].amount > 0 /\ TickOf(i) < cursor
          /\ stage = "withdrawals" => rows[i].amount > 0 \/ TickOf(i) < cursor

\* The walk of the deposits, then that of the withdrawals, has passed row i.
Walked(i) ==
    IF rows[i].amount > 0
    THEN (stage = "deposits" /\ TickOf(i) < cursor) \/ stage \in {"withdrawals", "save", "done"}
    ELSE (stage = "withdrawals" /\ TickOf(i) < cursor) \/ stage \in {"save", "done"}

TransfersCover ==
    failed = {} => \A i \in Flows :
        Walked(i) /\ TickOf(i) >= FlowsFrom => Has(i, transfers) \/ Jammed

Falling(s) == \A m, n \in DOMAIN s : m < n => s[m] > s[n]

\* The rows of the paged endpoints are the newest, wherever each was left.
PagedIsNewest == \A i \in Fetched(ledger) \ filed, j \in Ids : j > i => j \in Fetched(ledger)

\* As long as no row is booked during the walk, the bills come newest first
\* and without a hole; rows of one millisecond stay in this order when the
\* quarterly files are appended, unless both come out of a file.
OrderInv ==
    venue = "okx" /\ snapLen = Len(rows) =>
      /\ stage \in {"ledger", "archive"} =>
            Falling(ledger) /\ \A i \in BillsServed : i >= cursor => i \in Fetched(ledger)
      /\ PagedIsNewest
      /\ \A m, n \in DOMAIN ledger :
            m < n /\ TickOf(ledger[m]) = TickOf(ledger[n])
               => ledger[m] > ledger[n] \/ {ledger[m], ledger[n]} \subseteq filed

BalanceInv == stage # "start" /\ Calm => balance = Amount(Ids)

IInv ==
    /\ HistoryInv /\ RunInv
    /\ LedgerInv /\ LedgerCovers /\ OrderInv /\ BalanceInv
    /\ TradesInv /\ TradesCover /\ TransfersInv /\ TransfersCover

-----------------------------------------------------------------------------
(* Rows and pages *)

LEMMA RowType ==
    ASSUME HistoryInv
    PROVE  /\ Len(rows) \in Nat /\ Ids = 1 .. Len(rows)
           /\ \A i \in Ids : /\ TickOf(i) \in 1 .. Ticks /\ rows[i].amount \in Int
                             /\ rows[i].kind \in {"fill", "flow"}
           /\ IsFiniteSet(Ids)
           /\ \A S \in SUBSET Ids : IsFiniteSet(S) /\ Cardinality(S) \in Nat /\ S \subseteq Int
<1>1. Len(rows) \in Nat /\ Ids = 1 .. Len(rows)
  BY DEF HistoryInv, Ids
<1>2. \A i \in Ids : rows[i] \in Row
  BY <1>1 DEF HistoryInv
<1>3. IsFiniteSet(Ids) /\ Ids \subseteq Int
  BY <1>1, FS_Interval
<1>4. \A S \in SUBSET Ids : IsFiniteSet(S) /\ Cardinality(S) \in Nat
  BY <1>3, FS_Subset, FS_CardinalityType
<1> QED BY <1>1, <1>2, <1>3, <1>4 DEF Row, TickOf

LEMMA TickBounds ==
    ASSUME HistoryInv, NEW page \in SUBSET Ids, page # {}
    PROVE  /\ FirstTick(page) \in 1 .. Ticks /\ LastTick(page) \in 1 .. Ticks
           /\ \E i \in page : TickOf(i) = FirstTick(page)
           /\ \E i \in page : TickOf(i) = LastTick(page)
           /\ \A i \in page : FirstTick(page) <= TickOf(i) /\ TickOf(i) <= LastTick(page)
<1> DEFINE ticks == {TickOf(i) : i \in page}
<1>1. ticks \subseteq 1 .. Ticks /\ ticks # {} /\ Ticks \in Int
  BY RowType, BackfillAssumption
<1>2. IsFiniteSet(ticks) /\ ticks \subseteq Int
  <2> HIDE DEF ticks
  <2>1. IsFiniteSet(1 .. Ticks)
    BY <1>1, FS_Interval
  <2>2. IsFiniteSet(ticks)
    BY <1>1, <2>1, FS_Subset
  <2> QED BY <1>1, <2>2
<1>3. \A i \in page : TickOf(i) \in ticks
  OBVIOUS
<1>4. \A t \in ticks : \E i \in page : t = TickOf(i)
  OBVIOUS
<1>5. FirstTick(page) = Min(ticks) /\ LastTick(page) = Max(ticks)
  BY DEF FirstTick, LastTick
<1> HIDE DEF ticks
<1>6. Min(ticks) \in ticks /\ \A y \in ticks : Min(ticks) <= y
  BY <1>1, <1>2, LeastElement
<1>7. Max(ticks) \in ticks /\ \A y \in ticks : y <= Max(ticks)
  BY <1>1, <1>2, GreatestElement
<1> QED BY <1>1, <1>3, <1>4, <1>5, <1>6, <1>7

\* The newest page of S has its newest rows.
LEMMA NewestPage ==
    ASSUME HistoryInv, NEW S \in SUBSET Ids
    PROVE  /\ Newest(S) \in SUBSET S
           /\ S # {} => Newest(S) # {}
           /\ \A i \in S \ Newest(S), p \in Newest(S) : i < p
<1> DEFINE Above(i) == {j \in S : j > i}
<1>1. \A i \in S : IsFiniteSet(Above(i)) /\ Cardinality(Above(i)) \in Nat
  BY RowType
<1>2. Newest(S) = {i \in S : Cardinality(Above(i)) < Limit}
  BY DEF Newest
<1>3. ASSUME S # {} PROVE Newest(S) # {}
  <2>1. IsFiniteSet(S) /\ S \subseteq Int
    BY RowType
  <2>2. PICK m \in S : \A y \in S : y <= m
    BY <1>3, <2>1, GreatestElement
  <2>3. Above(m) = {}
    <3> SUFFICES ASSUME NEW j \in S, j > m PROVE FALSE
      OBVIOUS
    <3>1. j \in Int /\ m \in Int /\ j <= m
      BY <2>1, <2>2
    <3> QED BY <3>1
  <2>4. Cardinality(Above(m)) = 0
    BY <2>3, FS_EmptySet
  <2>5. Cardinality(Above(m)) < Limit
    <3> HIDE DEF Above
    <3> QED BY <2>4, BackfillAssumption
  <2> HIDE DEF Above
  <2> QED BY <1>2, <2>5
<1>4. ASSUME NEW i \in S \ Newest(S), NEW p \in Newest(S) PROVE i < p
  <2>1. i \in Int /\ p \in Int /\ p \in S
    BY <1>2, RowType
  <2>2. ASSUME p < i PROVE FALSE
    <3>1. Above(i) \in SUBSET Above(p) /\ IsFiniteSet(Above(p))
      <4> SUFFICES ASSUME NEW j \in S, j > i PROVE j > p
        BY <1>1, <2>1
      <4>1. j \in Int
        BY RowType
      <4> QED BY <2>1, <2>2, <4>1
    <3>2. Cardinality(Above(i)) <= Cardinality(Above(p))
      BY <3>1, FS_Subset
    <3>3. Cardinality(Above(p)) < Limit /\ ~(Cardinality(Above(i)) < Limit)
      BY <1>2
    <3>4. Cardinality(Above(p)) \in Nat /\ Cardinality(Above(i)) \in Nat /\ Limit \in Nat
      BY <1>1, <2>1, BackfillAssumption
    <3> HIDE DEF Above
    <3> QED BY <3>2, <3>3, <3>4
  <2>3. i # p
    OBVIOUS
  <2> QED BY <2>1, <2>2, <2>3
<1> QED BY <1>2, <1>3, <1>4

\* The oldest page of S has its oldest rows, and is full if S has more.
LEMMA OldestPage ==
    ASSUME HistoryInv, NEW S \in SUBSET Ids
    PROVE  /\ Oldest(S) \in SUBSET S
           /\ S # {} => Oldest(S) # {}
           /\ \A i \in S \ Oldest(S), p \in Oldest(S) : p < i
           /\ S # Oldest(S) => Cardinality(Oldest(S)) >= Limit
<1> DEFINE Below(i) == {j \in S : j < i}
<1>1. \A i \in S : IsFiniteSet(Below(i)) /\ Cardinality(Below(i)) \in Nat
  BY RowType
<1>2. Oldest(S) = {i \in S : Cardinality(Below(i)) < Limit}
  BY DEF Oldest
<1>3. ASSUME S # {} PROVE Oldest(S) # {}
  <2>1. IsFiniteSet(S) /\ S \subseteq Int
    BY RowType
  <2>2. PICK m \in S : \A y \in S : m <= y
    BY <1>3, <2>1, LeastElement
  <2>3. Below(m) = {}
    <3> SUFFICES ASSUME NEW j \in S, j < m PROVE FALSE
      OBVIOUS
    <3>1. j \in Int /\ m \in Int /\ m <= j
      BY <2>1, <2>2
    <3> QED BY <3>1
  <2>4. Cardinality(Below(m)) = 0
    BY <2>3, FS_EmptySet
  <2>5. Cardinality(Below(m)) < Limit
    <3> HIDE DEF Below
    <3> QED BY <2>4, BackfillAssumption
  <2> HIDE DEF Below
  <2> QED BY <1>2, <2>5
<1>4. ASSUME NEW i \in S \ Oldest(S), NEW p \in Oldest(S) PROVE p < i
  <2>1. i \in Int /\ p \in Int /\ p \in S
    BY <1>2, RowType
  <2>2. ASSUME i < p PROVE FALSE
    <3>1. Below(i) \in SUBSET Below(p) /\ IsFiniteSet(Below(p))
      <4> SUFFICES ASSUME NEW j \in S, j < i PROVE j < p
        BY <1>1, <2>1
      <4>1. j \in Int
        BY RowType
      <4> QED BY <2>1, <2>2, <4>1
    <3>2. Cardinality(Below(i)) <= Cardinality(Below(p))
      BY <3>1, FS_Subset
    <3>3. Cardinality(Below(p)) < Limit /\ ~(Cardinality(Below(i)) < Limit)
      BY <1>2
    <3>4. Cardinality(Below(p)) \in Nat /\ Cardinality(Below(i)) \in Nat /\ Limit \in Nat
      BY <1>1, <2>1, BackfillAssumption
    <3> HIDE DEF Below
    <3> QED BY <3>2, <3>3, <3>4
  <2>3. i # p
    OBVIOUS
  <2> QED BY <2>1, <2>2, <2>3
<1>5. ASSUME S # Oldest(S) PROVE Cardinality(Oldest(S)) >= Limit
  <2> DEFINE R == S \ Oldest(S)
  <2>1. R # {} /\ IsFiniteSet(R) /\ R \subseteq Int
    BY <1>2, <1>5, RowType
  <2>2. PICK m \in R : \A y \in R : m <= y
    BY <2>1, LeastElement
  <2>3. Below(m) \in SUBSET Oldest(S)
    BY <2>1, <2>2, RowType
  <2>4. IsFiniteSet(Oldest(S)) /\ Cardinality(Oldest(S)) \in Nat
    BY <1>2, RowType
  <2>5. Cardinality(Below(m)) <= Cardinality(Oldest(S))
    BY <2>3, <2>4, FS_Subset
  <2>6. ~(Cardinality(Below(m)) < Limit) /\ Cardinality(Below(m)) \in Nat /\ Limit \in Nat
    BY <1>1, <1>2, BackfillAssumption
  <2> HIDE DEF Below
  <2> QED BY <2>4, <2>5, <2>6
<1> QED BY <1>2, <1>3, <1>4, <1>5

-----------------------------------------------------------------------------
(* Lists *)

\* The list of a set of rows: all of them, once, oldest or newest first.
LEMMA AscendingList ==
    ASSUME HistoryInv, NEW S \in SUBSET Ids
    PROVE  /\ Ascending(S) \in Seq(S) /\ Fetched(Ascending(S)) = S
           /\ Distinct(Ascending(S))
           /\ \A m, n \in DOMAIN Ascending(S) : m < n => Ascending(S)[m] < Ascending(S)[n]
<1>1. IsFiniteSet(S) /\ S \subseteq Int /\ Cardinality(S) \in Nat
  BY RowType
<1> DEFINE n == Cardinality(S)
           Good(s) == \A i, j \in 1 .. n : i < j => s[i] < s[j]
<1>2. \E s \in [1 .. n -> S] : Good(s)
  BY <1>1, RisingExists DEF Rising
<1>3. Ascending(S) = CHOOSE s \in [1 .. n -> S] : Good(s)
  BY DEF Ascending
<1>4. Ascending(S) \in [1 .. n -> S] /\ Good(Ascending(S))
  <2> HIDE DEF Good
  <2> QED BY <1>2, <1>3
<1>5. \A x \in S : \E i \in 1 .. n : Ascending(S)[i] = x
  BY <1>1, <1>4, RisingIsOnto DEF Rising
<1> HIDE DEF n
<1>6. DOMAIN Ascending(S) = 1 .. n /\ \A i \in 1 .. n : Ascending(S)[i] \in S
  BY <1>4
<1>7. Fetched(Ascending(S)) = S
  BY <1>5, <1>6 DEF Fetched, ToSet
<1>8. Distinct(Ascending(S))
  <2> SUFFICES ASSUME NEW i \in 1 .. n, NEW j \in 1 .. n, i < j
               PROVE  Ascending(S)[i] # Ascending(S)[j]
    BY <1>1, <1>6 DEF Distinct, n
  <2>1. Ascending(S)[i] < Ascending(S)[j] /\ Ascending(S)[i] \in Int
    BY <1>1, <1>4, <1>6
  <2> QED BY <2>1
<1>9. Ascending(S) \in Seq(S)
  BY <1>1, <1>4 DEF n
<1> QED BY <1>4, <1>6, <1>7, <1>8, <1>9

LEMMA DescendingList ==
    ASSUME HistoryInv, NEW S \in SUBSET Ids
    PROVE  /\ Descending(S) \in Seq(S) /\ Fetched(Descending(S)) = S
           /\ Distinct(Descending(S)) /\ Falling(Descending(S))
<1>1. PICK a \in Seq(S) : /\ a = Ascending(S) /\ Fetched(a) = S
                          /\ \A i, j \in DOMAIN a : i < j => a[i] < a[j]
  BY AscendingList
<1>2. S \subseteq Int
  BY RowType
<1> DEFINE n == Len(a)
           d == [i \in 1 .. n |-> a[(n - i) + 1]]
<1>3. Descending(S) = d
  BY <1>1 DEF Descending, Reverse
<1>4. n \in Nat /\ DOMAIN a = 1 .. n /\ \A i \in 1 .. n : a[i] \in S
  BY <1>1
<1>5. \A i \in 1 .. n : (n - i) + 1 \in 1 .. n /\ (n - ((n - i) + 1)) + 1 = i
  BY <1>4
<1>6. d \in Seq(S) /\ DOMAIN d = 1 .. n /\ \A i \in 1 .. n : d[i] = a[(n - i) + 1]
  BY <1>4, <1>5
<1>7. \A i \in 1 .. n : d[(n - i) + 1] = a[i]
  BY <1>5, <1>6
<1> HIDE DEF d
<1>8. Fetched(d) = S
  <2>1. \A x \in S : \E i \in 1 .. n : a[i] = x
    BY <1>1, <1>4 DEF Fetched, ToSet
  <2> HIDE DEF n
  <2>2. ASSUME NEW i \in 1 .. n PROVE d[i] \in S
    BY <1>4, <1>5, <1>6
  <2>3. ASSUME NEW x \in S PROVE \E i \in 1 .. n : d[i] = x
    <3>1. PICK i \in 1 .. n : a[i] = x
      BY <2>1
    <3> QED BY <1>5, <1>7, <3>1
  <2>4. Fetched(d) = {d[i] : i \in 1 .. n}
    BY <1>6 DEF Fetched, ToSet
  <2> QED BY <2>2, <2>3, <2>4
<1>9. Falling(d)
  <2> SUFFICES ASSUME NEW i \in 1 .. n, NEW j \in 1 .. n, i < j PROVE d[i] > d[j]
    BY <1>6 DEF Falling
  <2>1. /\ (n - j) + 1 \in 1 .. n /\ (n - i) + 1 \in 1 .. n
        /\ (n - j) + 1 < (n - i) + 1
    BY <1>4
  <2>2. a[(n - j) + 1] < a[(n - i) + 1]
    BY <1>1, <1>4, <2>1
  <2>3. a[(n - j) + 1] \in Int /\ a[(n - i) + 1] \in Int
    BY <1>2, <1>4, <2>1
  <2> HIDE DEF n
  <2> QED BY <1>6, <2>2, <2>3
<1>10. Distinct(d)
  <2> SUFFICES ASSUME NEW i \in 1 .. n, NEW j \in 1 .. n, i < j PROVE d[i] # d[j]
    BY <1>4, <1>6 DEF Distinct
  <2>1. d[i] > d[j] /\ d[i] \in Int
    BY <1>2, <1>4, <1>5, <1>6, <1>9 DEF Falling
  <2> QED BY <2>1
<1> QED BY <1>3, <1>6, <1>8, <1>9, <1>10

\* Appending a page that shares no row with what was fetched before.
LEMMA AppendPage ==
    ASSUME NEW S, NEW s \in Seq(S), NEW t \in Seq(S)
    PROVE  /\ s \o t \in Seq(S)
           /\ Fetched(s \o t) = Fetched(s) \cup Fetched(t)
           /\ Distinct(s) /\ Distinct(t) /\ Fetched(s) \cap Fetched(t) = {} => Distinct(s \o t)
<1> DEFINE m == Len(s)
           n == Len(t)
           u == s \o t
<1>1. /\ m \in Nat /\ n \in Nat /\ DOMAIN s = 1 .. m /\ DOMAIN t = 1 .. n
      /\ u \in Seq(S) /\ Len(u) = m + n /\ DOMAIN u = 1 .. (m + n)
      /\ \A i \in 1 .. (m + n) : u[i] = IF i <= m THEN s[i] ELSE t[i - m]
  BY ConcatProperties
<1> HIDE DEF m, n, u
<1>2. \A i \in 1 .. m : i \in 1 .. (m + n) /\ u[i] = s[i]
  BY <1>1
<1>3. \A i \in 1 .. n : i + m \in 1 .. (m + n) /\ u[i + m] = t[i]
  BY <1>1
<1>4. \A i \in 1 .. (m + n) : \/ i \in 1 .. m /\ u[i] = s[i]
                              \/ i - m \in 1 .. n /\ u[i] = t[i - m]
  BY <1>1
<1>5. Fetched(u) = Fetched(s) \cup Fetched(t)
  <2>1. ASSUME NEW x \in Fetched(u) PROVE x \in Fetched(s) \cup Fetched(t)
    BY <1>1, <1>4 DEF Fetched, ToSet
  <2>2. ASSUME NEW x \in Fetched(s) PROVE x \in Fetched(u)
    BY <1>1, <1>2 DEF Fetched, ToSet
  <2>3. ASSUME NEW x \in Fetched(t) PROVE x \in Fetched(u)
    BY <1>1, <1>3 DEF Fetched, ToSet
  <2> QED BY <2>1, <2>2, <2>3
<1>6. ASSUME Distinct(s), Distinct(t), Fetched(s) \cap Fetched(t) = {} PROVE Distinct(u)
  <2> SUFFICES ASSUME NEW i \in 1 .. (m + n), NEW j \in 1 .. (m + n), u[i] = u[j] PROVE i = j
    BY <1>1 DEF Distinct
  <2>1. \A k \in 1 .. m : s[k] \in Fetched(s)
    BY <1>1 DEF Fetched, ToSet
  <2>2. \A k \in 1 .. n : t[k] \in Fetched(t)
    BY <1>1 DEF Fetched, ToSet
  <2>3. CASE i \in 1 .. m /\ j \in 1 .. m
    BY <1>1, <1>2, <1>6, <2>3 DEF Distinct
  <2>4. CASE i - m \in 1 .. n /\ j - m \in 1 .. n
    <3>1. t[i - m] = t[j - m]
      BY <1>1, <2>4
    <3>2. i - m = j - m
      BY <1>1, <1>6, <2>4, <3>1 DEF Distinct
    <3> QED BY <1>1, <3>2
  <2>5. CASE i \in 1 .. m /\ j - m \in 1 .. n
    <3>1. s[i] = t[j - m]
      BY <1>1, <2>5
    <3> QED BY <1>6, <2>1, <2>2, <2>5, <3>1
  <2>6. CASE i - m \in 1 .. n /\ j \in 1 .. m
    <3>1. s[j] = t[i - m]
      BY <1>1, <2>6
    <3> QED BY <1>6, <2>1, <2>2, <2>6, <3>1
  <2> QED BY <1>4, <2>3, <2>4, <2>5, <2>6
<1> QED BY <1>1, <1>5, <1>6 DEF u

\* A page that lies behind everything fetched keeps the ledger newest first.
LEMMA AppendFalling ==
    ASSUME HistoryInv, NEW s \in Seq(Ids), NEW t \in Seq(Ids), Falling(s), Falling(t),
           \A x \in Fetched(s), y \in Fetched(t) : x > y
    PROVE  Falling(s \o t)
<1> DEFINE m == Len(s)
           n == Len(t)
           u == s \o t
<1>1. /\ m \in Nat /\ n \in Nat /\ DOMAIN s = 1 .. m /\ DOMAIN t = 1 .. n
      /\ DOMAIN u = 1 .. (m + n)
      /\ \A i \in 1 .. (m + n) : u[i] = IF i <= m THEN s[i] ELSE t[i - m]
  BY ConcatProperties
<1> HIDE DEF m, n, u
<1> SUFFICES ASSUME NEW i \in 1 .. (m + n), NEW j \in 1 .. (m + n), i < j PROVE u[i] > u[j]
  BY <1>1 DEF Falling, u
<1>2. \A k \in 1 .. m : s[k] \in Fetched(s)
  BY <1>1 DEF Fetched, ToSet
<1>3. \A k \in 1 .. n : t[k] \in Fetched(t)
  BY <1>1 DEF Fetched, ToSet
<1>4. CASE j <= m
  <2>1. i \in 1 .. m /\ j \in 1 .. m /\ u[i] = s[i] /\ u[j] = s[j]
    BY <1>1, <1>4
  <2> QED BY <1>1, <2>1 DEF Falling
<1>5. CASE i > m
  <2>1. i - m \in 1 .. n /\ j - m \in 1 .. n /\ i - m < j - m /\ u[i] = t[i - m] /\ u[j] = t[j - m]
    BY <1>1, <1>5
  <2> QED BY <1>1, <2>1 DEF Falling
<1>6. CASE i <= m /\ j > m
  <2>1. i \in 1 .. m /\ j - m \in 1 .. n /\ u[i] = s[i] /\ u[j] = t[j - m]
    BY <1>1, <1>6
  <2> QED BY <1>2, <1>3, <2>1
<1> QED BY <1>1, <1>4, <1>5, <1>6

\* A list without repetitions is as long as the set of its rows.
LEMMA DistinctIsOnce ==
    ASSUME NEW S, NEW s \in Seq(S), Distinct(s)
    PROVE  Once(s)
<1>1. Len(s) \in Nat /\ DOMAIN s = 1 .. Len(s)
  OBVIOUS
<1>2. IsFiniteSet(1 .. Len(s)) /\ Cardinality(1 .. Len(s)) = Len(s)
  BY <1>1, FS_Interval
<1>3. s \in Bijection(1 .. Len(s), Fetched(s))
  BY <1>1 DEF Bijection, Injection, Surjection, IsInjective, Fetched, ToSet, Distinct
<1>4. Cardinality(Fetched(s)) = Cardinality(1 .. Len(s))
  BY <1>2, <1>3, FS_Bijection DEF ExistsBijection
<1> QED BY <1>2, <1>4 DEF Once

-----------------------------------------------------------------------------
(* Amounts *)

Amounts == [i \in Ids |-> rows[i].amount]

LEMMA AmountIsTotal ==
    ASSUME HistoryInv, NEW S \in SUBSET Ids
    PROVE  Amount(S) = Total(Amounts, S)
<1>1. IsFiniteSet(S) /\ \A i \in S : Amounts[i] = rows[i].amount /\ Amounts[i] \in Int
  BY RowType DEF Amounts
<1> DEFINE f == [i \in S |-> rows[i].amount]
           Eq(g) == g = [s \in SUBSET S |-> IF s = {} THEN 0
                              ELSE rows[CHOOSE x \in s : TRUE].amount + g[s \ {CHOOSE x \in s : TRUE}]]
           c == CHOOSE g : Eq(g)
<1>2. Amount(S) = c[S]
  BY DEF Amount, MapThenSumSet, MapThenFoldSet
<1>3. \A s \in SUBSET S : s # {} => f[CHOOSE x \in s : TRUE] = rows[CHOOSE x \in s : TRUE].amount
  <2> SUFFICES ASSUME NEW s \in SUBSET S, s # {} PROVE (CHOOSE x \in s : TRUE) \in S
    OBVIOUS
  <2>1. Some(s) \in s
    BY SomeIsIn
  <2> QED BY <2>1 DEF Some
<1>4. \A x \in S : f[x] \in Int /\ f[x] = Amounts[x]
  BY <1>1
<1> HIDE DEF f
<1>5. PICK h \in [SUBSET S -> Int] : Sums(h, f, S)
  BY <1>1, <1>4, SumsExist
<1>6. Eq(h)
  BY <1>3, <1>5 DEF Sums, Some
<1>7. Eq(c)
  <2> HIDE DEF Eq
  <2> QED BY <1>6
<1>8. Sums(c, f, S)
  <2> HIDE DEF c
  <2> QED BY <1>3, <1>7 DEF Sums, Some
<1>9. c[S] = Total(f, S)
  <2> HIDE DEF c, Eq
  <2> QED BY <1>1, <1>4, <1>8, SumIsTotal
<1>10. Total(f, S) = Total(Amounts, S)
  BY <1>1, <1>4, TotalEqual
<1> QED BY <1>2, <1>9, <1>10

LEMMA AmountType ==
    ASSUME HistoryInv
    PROVE  \A S \in SUBSET Ids : Amount(S) \in Int
<1> SUFFICES ASSUME NEW S \in SUBSET Ids PROVE Amount(S) \in Int
  OBVIOUS
<1>1. IsFiniteSet(S) /\ \A i \in S : Amounts[i] \in Int
  BY RowType DEF Amounts
<1> QED BY <1>1, AmountIsTotal, TotalType

LEMMA AmountSplit ==
    ASSUME HistoryInv, NEW S \in SUBSET Ids, NEW T \in SUBSET Ids, S \cap T = {}
    PROVE  Amount(S \cup T) = Amount(S) + Amount(T)
<1>1. IsFiniteSet(S) /\ IsFiniteSet(T) /\ \A i \in S \cup T : Amounts[i] \in Int
  BY RowType DEF Amounts
<1>2. Total(Amounts, S \cup T) = Total(Amounts, S) + Total(Amounts, T)
  BY <1>1, TotalUnion
<1>3. S \cup T \in SUBSET Ids
  OBVIOUS
<1> QED BY <1>2, <1>3, AmountIsTotal


-----------------------------------------------------------------------------
(* Steps *)

\* The rows the account had keep their place and their content.
LEMMA BookedRow ==
    ASSUME HistoryInv, BookRow
    PROVE  /\ HistoryInv'
           /\ Len(rows') = Len(rows) + 1 /\ Ids \subseteq Ids'
           /\ \A i \in Ids : rows'[i] = rows[i]
<1>1. PICK k \in RowKinds :
         rows' = Append(rows, [tick |-> Ticks, kind |-> k.kind, sym |-> k.sym, amount |-> k.amount])
  BY DEF BookRow
<1> DEFINE r == [tick |-> Ticks, kind |-> k.kind, sym |-> k.sym, amount |-> k.amount]
<1>2. r \in Row
  BY BackfillAssumption DEF Row
<1>3. r.tick = Ticks /\ r.kind = k.kind /\ r.sym = k.sym
  OBVIOUS
<1>4. r.kind = "fill" => r.sym \in Syms
  BY <1>3, BackfillAssumption DEF Syms
<1> HIDE DEF r
<1>5. rows \in Seq(Row) /\ Len(rows) \in Nat /\ Len(rows) < MaxRows /\ MaxRows \in Nat
  BY BackfillAssumption DEF HistoryInv, BookRow
<1>6. /\ rows' \in Seq(Row) /\ Len(rows') = Len(rows) + 1
      /\ \A i \in 1 .. Len(rows) : rows'[i] = rows[i]
      /\ rows'[Len(rows) + 1] = r
  BY <1>1, <1>2, <1>5 DEF r
<1>7. Ids = 1 .. Len(rows) /\ Ids' = 1 .. (Len(rows) + 1)
  BY <1>6 DEF Ids
<1>8. \A i \in Ids' : i \in Ids \/ i = Len(rows) + 1
  BY <1>5, <1>7
<1>9. \A i, j \in Ids' : i < j => TickOf(i)' <= TickOf(j)'
  <2> SUFFICES ASSUME NEW i \in Ids', NEW j \in Ids', i < j
               PROVE  rows'[i].tick <= rows'[j].tick
    BY DEF TickOf
  <2>1. i \in Ids
    BY <1>5, <1>7
  <2>2. CASE j \in Ids
    BY <1>6, <1>7, <2>1, <2>2 DEF HistoryInv, TickOf
  <2>3. CASE j = Len(rows) + 1
    <3>1. rows'[i].tick \in 1 .. Ticks /\ rows'[j].tick = Ticks
      BY <1>3, <1>6, <1>7, <2>1, <2>3, RowType DEF TickOf
    <3> QED BY <3>1, BackfillAssumption
  <2> QED BY <1>8, <2>2, <2>3
<1>10. \A i \in Ids' : rows'[i].kind = "fill" => rows'[i].sym \in Syms
  BY <1>4, <1>6, <1>7, <1>8 DEF HistoryInv
<1>11. Syms' = Syms
  BY DEF Syms
<1>12. HistoryInv'
  BY <1>5, <1>6, <1>9, <1>10, <1>11 DEF HistoryInv, Row
<1> QED BY <1>5, <1>6, <1>7, <1>12

LEMMA SameHistory ==
    ASSUME HistoryInv, rows' = rows
    PROVE  HistoryInv' /\ Ids' = Ids /\ Flows' = Flows /\ (Jammed <=> Jammed')
<1>1. Ids' = Ids
  BY DEF Ids
<1>2. Flows' = Flows
  BY <1>1 DEF Flows
<1>3. \A i : TickOf(i)' = TickOf(i)
  BY DEF TickOf
<1>4. Jammed <=> Jammed'
  BY <1>2, <1>3 DEF Jammed
<1>5. HistoryInv'
  BY <1>1, <1>3 DEF HistoryInv, Row, Syms
<1> QED BY <1>1, <1>2, <1>4, <1>5

RowsTyped ==
    /\ \A i \in Ids : TickOf(i) \in 1 .. Ticks /\ rows[i].amount \in Int
    /\ \A i \in Ids : rows[i].kind = "fill" => rows[i].sym \in Syms

LEMMA RowsAreTyped == HistoryInv => RowsTyped
BY RowType DEF HistoryInv, RowsTyped

LEMMA RowsStayTyped == HistoryInv' => RowsTyped'
BY RowsAreTyped, PTL

SumsOfRows == \A S \in SUBSET Ids : Amount(S) = Total(Amounts, S)

LEMMA RowsAreSummed == HistoryInv => SumsOfRows
BY AmountIsTotal DEF SumsOfRows

LEMMA RowsStaySummed == HistoryInv' => SumsOfRows'
BY RowsAreSummed, PTL

LEMMA SameAmount ==
    ASSUME HistoryInv, rows' = rows
    PROVE  Amount(Ids)' = Amount(Ids) /\ Amount(Ids) \in Int
<1>1. SumsOfRows /\ SumsOfRows' /\ Ids' = Ids
  BY SameHistory, RowsAreSummed, RowsStaySummed
<1>2. Amounts' = Amounts
  BY <1>1 DEF Amounts
<1>3. Amount(Ids) = Total(Amounts, Ids)
  BY <1>1 DEF SumsOfRows
<1>4. Amount(Ids)' = Total(Amounts, Ids)
  BY <1>1, <1>2 DEF SumsOfRows
<1> QED BY <1>3, <1>4, AmountType

\* A step that enters the trades, or stays before them, has none yet.
LEMMA NoTradesYet ==
    ASSUME HistoryInv, HistoryInv', RunInv', trades' = <<>>,
           \/ stage' \in BeforeTrades
           \/ stage' = "trades" /\ todo' = Syms /\ cursor' = IF venue' = "binance" THEN TradesFrom ELSE Ticks
    PROVE  TradesInv' /\ TradesCover'
<1>1. Fetched(trades') = {}
  BY DEF Fetched, ToSet
<1>2. TradesInv'
  BY <1>1 DEF TradesInv, BeforeTrades
<1>3. TradesCover'
  <2> SUFFICES ASSUME NEW i \in Ids', rows'[i].kind = "fill",
                      (Scanned(i) /\ Within(i))' \/ LookedUp(i)'
               PROVE  FALSE
    BY DEF TradesCover
  <2>1. /\ stage' = "trades" /\ todo' = Syms /\ cursor' = IF venue' = "binance" THEN TradesFrom ELSE Ticks
        /\ rows'[i].sym \in todo' => Passed(i)'
    BY DEF Scanned, LookedUp, AfterFills, BeforeTrades
  <2>2. rows'[i].sym \in Syms /\ TickOf(i)' \in 1 .. Ticks
    BY RowsStayTyped DEF RowsTyped, Syms
  <2>3. Within(i)'
    BY <2>1 DEF LookedUp, AfterFills
  <2> QED BY <2>1, <2>2, <2>3, BackfillAssumption DEF Passed, Within, TickOf
<1> QED BY <1>2, <1>3

LEMMA NoTransfersYet ==
    ASSUME HistoryInv', transfers' = <<>>,
           \/ stage' \in BeforeTrades \cup {"trades", "fills"}
           \/ stage' = "deposits" /\ cursor' = FlowsFrom
    PROVE  TransfersInv' /\ TransfersCover'
<1>1. Fetched(transfers') = {}
  BY DEF Fetched, ToSet
<1>2. TransfersInv'
  BY <1>1 DEF TransfersInv, BeforeTrades
<1>3. TransfersCover'
  <2> SUFFICES ASSUME NEW i \in Flows', Walked(i)', TickOf(i)' >= FlowsFrom PROVE FALSE
    BY DEF TransfersCover
  <2>1. stage' = "deposits" /\ TickOf(i)' < FlowsFrom
    BY DEF Walked, BeforeTrades
  <2>2. TickOf(i)' \in 1 .. Ticks
    BY RowsStayTyped DEF RowsTyped, Flows
  <2> QED BY <2>1, <2>2, BackfillAssumption
<1> QED BY <1>2, <1>3

\* After its walk the ledger is left alone.
LEMMA LateLedger ==
    ASSUME IInv, stage \notin BeforeTrades, stage' \notin BeforeTrades, failed \subseteq failed',
           failed' \cap {"balance", "start"} = failed \cap {"balance", "start"},
           UNCHANGED <<venue, rows, ledger, filed, snapLen, balance>>
    PROVE  LedgerInv' /\ LedgerCovers' /\ OrderInv' /\ BalanceInv'
<1>1. Ids' = Ids /\ Amount(Ids)' = Amount(Ids)
  BY SameHistory, SameAmount DEF IInv
<1>2. LedgerInv'
  BY DEF BeforeTrades, LedgerInv
<1>3. LedgerCovers'
  <2> SUFFICES ASSUME failed' = {}, NEW i \in 1 .. snapLen
               PROVE  /\ venue = "binance" => Has(i, ledger)'
                      /\ venue = "okx" /\ TickOf(i) >= ArchiveFrom => i \in Fetched(ledger)
                      /\ venue = "okx" => \A q \in DOMAIN Quarters :
                            TickOf(i) \in Quarters[q] => i \in Fetched(ledger)
    BY DEF LedgerCovers, BillsRead, FileRead, BeforeTrades, TickOf
  <2>1. /\ venue = "binance" => Has(i, ledger)
        /\ venue = "okx" /\ TickOf(i) >= ArchiveFrom => i \in Fetched(ledger)
        /\ venue = "okx" => \A q \in DOMAIN Quarters :
              TickOf(i) \in Quarters[q] => i \in Fetched(ledger)
    BY DEF IInv, LedgerCovers, BillsRead, FileRead, BeforeTrades
  <2> QED BY <2>1 DEF Has, LostInTie, TickOf
<1>4. OrderInv'
  BY <1>1 DEF IInv, OrderInv, PagedIsNewest, BeforeTrades, TickOf
<1>5. BalanceInv'
  <2>1. stage # "start" /\ (Calm' => Calm)
    BY DEF BeforeTrades, Calm
  <2> QED BY <1>1, <2>1 DEF IInv, BalanceInv
<1> QED BY <1>2, <1>3, <1>4, <1>5

\* After their walk the trades are left alone.
LEMMA LateTrades ==
    ASSUME IInv, stage \in AfterFills, stage' \in AfterFills, failed \subseteq failed',
           UNCHANGED <<venue, rows, trades, heldNow>>
    PROVE  TradesInv' /\ TradesCover'
<1>1. Ids' = Ids /\ Discovered' = Discovered /\ WithTrades' = WithTrades
  BY DEF Ids, Discovered, WithTrades, Newest, RecentFills, Fills, From, Syms
<1>2. TradesInv'
  BY DEF IInv, TradesInv, AfterFills, BeforeTrades
<1>3. TradesCover'
  <2> SUFFICES ASSUME failed' = {}, NEW i \in Ids, rows[i].kind = "fill", rows[i].sym \in Discovered
               PROVE  /\ Within(i) => Has(i, trades)'
                      /\ venue = "okx" /\ TickOf(i) < RecentFrom /\ rows[i].sym \in WithTrades
                            => i \in Fetched(trades)
    BY <1>1 DEF TradesCover, Within, TickOf
  <2>1. /\ Within(i) => Has(i, trades)
        /\ venue = "okx" /\ TickOf(i) < RecentFrom /\ rows[i].sym \in WithTrades
              => i \in Fetched(trades)
    BY DEF IInv, TradesCover, Scanned, LookedUp
  <2> QED BY <2>1 DEF Has, LostInTie, TickOf
<1> QED BY <1>2, <1>3

\* A failed call, and the stages after it, leave what they do not touch.
LEMMA NothingCovered ==
    ASSUME failed' # {}
    PROVE  LedgerCovers' /\ TradesCover' /\ TransfersCover'
BY DEF LedgerCovers, TradesCover, TransfersCover

LEMMA SameBalance ==
    ASSUME IInv, stage # "start", failed \subseteq failed',
           UNCHANGED <<rows, snapLen, balance>>
    PROVE  BalanceInv'
<1>1. Amount(Ids)' = Amount(Ids)
  BY SameAmount DEF IInv
<1>2. Calm' => Calm
  BY DEF Calm
<1> QED BY <1>1, <1>2 DEF IInv, BalanceInv

-----------------------------------------------------------------------------
(* The ledger *)

LEMMA StepNoCredentials == ASSUME IInv, NoCredentials PROVE IInv'
<1>1. /\ UNCHANGED <<venue, rows, todo, cursor, balance, heldNow, ledger, trades, transfers, filed, snapLen>>
      /\ stage = "start" /\ stage' = "done" /\ failed' = {"start"}
  BY DEF NoCredentials, files, setting
<1>2. ledger = <<>> /\ trades = <<>> /\ transfers = <<>>
  BY <1>1 DEF IInv, LedgerInv, TradesInv, TransfersInv, BeforeTrades
<1>3. Fetched(ledger') = {} /\ Fetched(trades') = {} /\ Fetched(transfers') = {}
  BY <1>1, <1>2 DEF Fetched, ToSet
<1>4. HistoryInv' /\ Ids' = Ids
  BY <1>1, SameHistory DEF IInv
<1>5. RunInv'
  BY <1>1, <1>4 DEF IInv, RunInv, AfterFills, OkxOnly, Distinct, Syms
<1>6. LedgerInv' /\ TradesInv' /\ TransfersInv'
  BY <1>1, <1>2, <1>3 DEF LedgerInv, TradesInv, TransfersInv, BeforeTrades
<1>7. LedgerCovers' /\ TradesCover' /\ TransfersCover'
  BY <1>1, NothingCovered
<1>8. OrderInv'
  BY <1>1, <1>2, <1>3 DEF OrderInv, PagedIsNewest
<1>9. BalanceInv'
  BY <1>1 DEF BalanceInv, Calm
<1> QED BY <1>4, <1>5, <1>6, <1>7, <1>8, <1>9 DEF IInv

LEMMA StepFetchBalance == ASSUME IInv, FetchBalance PROVE IInv'
<1>1. /\ UNCHANGED <<venue, rows, heldNow, ledger, trades, transfers, filed>>
      /\ stage = "start" /\ stage' = "ledger" /\ todo' = {} /\ snapLen' = Len(rows)
      /\ cursor' = IF venue = "binance" THEN Ticks ELSE MaxRows + 1
      /\ \/ balance' = Amount(Ids) /\ failed' = failed
         \/ balance' = 0 /\ failed' = {"balance"}
  BY Zenon DEF FetchBalance, files, setting, Enter, FirstCursor
<1>2. ledger = <<>> /\ trades = <<>> /\ transfers = <<>> /\ failed = {} /\ filed = {}
  BY <1>1 DEF IInv, LedgerInv, TradesInv, TransfersInv, BeforeTrades
<1>3. Fetched(ledger') = {} /\ Fetched(trades') = {} /\ Fetched(transfers') = {}
  BY <1>1, <1>2 DEF Fetched, ToSet
<1>4. HistoryInv' /\ Ids' = Ids
  BY <1>1, SameHistory DEF IInv
<1>5. Amount(Ids) \in Int /\ Amount(Ids)' = Amount(Ids)
  BY <1>1, SameAmount DEF IInv
<1>6. Len(rows) \in 0 .. Len(rows)' /\ cursor' \in Int /\ balance' \in Int
  BY <1>1, <1>5, RowType, BackfillAssumption DEF IInv
<1>7. RunInv'
  BY <1>1, <1>4, <1>6 DEF IInv, RunInv, BeforeTrades, OkxOnly, Distinct
<1>8. TradesInv' /\ TradesCover'
  BY <1>1, <1>2, <1>4, <1>7, NoTradesYet DEF IInv, BeforeTrades
<1>9. TransfersInv' /\ TransfersCover'
  BY <1>1, <1>2, <1>4, NoTransfersYet DEF BeforeTrades
<1>10. LedgerInv'
  BY <1>1, <1>2, <1>3 DEF LedgerInv
<1>11. LedgerCovers'
  <2> SUFFICES ASSUME NEW i \in Ids PROVE ~(venue = "binance" /\ TickOf(i) > Ticks)
    BY <1>1, RowType DEF IInv, LedgerCovers, BillsRead, FileRead, BeforeTrades, TickOf
  <2> QED BY RowType, BackfillAssumption DEF IInv
<1>12. OrderInv'
  <2> SUFFICES ASSUME venue = "okx", NEW i \in Ids PROVE ~(i >= MaxRows + 1)
    BY <1>1, <1>2, <1>3, <1>4 DEF OrderInv, Falling, PagedIsNewest, BillsServed, From
  <2> QED BY RowType, BackfillAssumption DEF IInv, HistoryInv
<1>13. BalanceInv'
  BY <1>1, <1>5 DEF BalanceInv, Calm
<1> QED BY <1>4, <1>7, <1>8, <1>9, <1>10, <1>11, <1>12, <1>13 DEF IInv

LEMMA StepBookRow == ASSUME IInv, BookRow PROVE IInv'
<1>1. /\ UNCHANGED <<venue, stage, todo, cursor, balance, heldNow, ledger, trades, transfers,
                     failed, filed, snapLen>>
      /\ stage = "ledger"
  BY DEF BookRow, fetchState, files, setting
<1>2. /\ HistoryInv' /\ Len(rows') = Len(rows) + 1 /\ Ids \subseteq Ids'
      /\ \A i \in Ids : rows'[i] = rows[i]
  BY BookedRow DEF IInv
<1>3. Len(rows) \in Nat /\ snapLen \in 0 .. Len(rows) /\ ledger \in Seq(Ids) /\ Ids = 1 .. Len(rows)
  BY RowType DEF IInv, RunInv
<1>4. trades = <<>> /\ transfers = <<>>
  BY <1>1 DEF IInv, TradesInv, TransfersInv, BeforeTrades
<1>5. ~(snapLen' = Len(rows'))
  BY <1>1, <1>2, <1>3
<1>6. RunInv'
  <2>1. ledger \in Seq(Ids') /\ trades \in Seq(Ids') /\ transfers \in Seq(Ids')
    BY <1>2, <1>3, <1>4
  <2>2. snapLen \in 0 .. Len(rows')
    BY <1>2, <1>3
  <2> QED BY <1>1, <2>1, <2>2 DEF IInv, RunInv, Distinct, Syms
<1>7. \A i \in Fetched(ledger) : i \in Ids
  BY <1>3 DEF Fetched, ToSet
<1>8. LedgerInv'
  BY <1>1, <1>2, <1>7 DEF IInv, LedgerInv, TickOf
<1>9. LedgerCovers'
  <2> SUFFICES ASSUME failed = {}, NEW i \in 1 .. snapLen, venue = "binance", TickOf(i)' > cursor
               PROVE  Has(i, ledger)'
    BY <1>1 DEF LedgerCovers, BillsRead, FileRead, BeforeTrades
  <2>1. i \in Ids
    BY <1>3
  <2>2. Has(i, ledger)
    BY <1>1, <1>2, <2>1 DEF IInv, LedgerCovers, TickOf
  <2> QED BY <1>1, <1>2, <1>7, <2>1, <2>2 DEF Has, LostInTie, TickOf
<1>10. OrderInv' /\ BalanceInv'
  BY <1>5 DEF OrderInv, BalanceInv, Calm
<1>11. TradesInv' /\ TradesCover'
  BY <1>1, <1>2, <1>4, <1>6, NoTradesYet DEF IInv, BeforeTrades
<1>12. TransfersInv' /\ TransfersCover'
  BY <1>1, <1>2, <1>4, NoTransfersYet DEF BeforeTrades
<1> QED BY <1>2, <1>6, <1>8, <1>9, <1>10, <1>11, <1>12 DEF IInv

LEMMA FirstCursors ==
    /\ FirstCursor("trades") = IF venue = "binance" THEN TradesFrom ELSE Ticks
    /\ \A next \in {"deposits", "withdrawals"} : FirstCursor(next) = FlowsFrom
    /\ FirstCursor("history") = 1
    /\ \A next \in {"archive", "fills", "save"} : FirstCursor(next) = MaxRows + 1
BY Zenon DEF FirstCursor

\* A step of the ledger's walk leaves the rest of the run alone.
LEMMA EarlyStep ==
    ASSUME IInv, stage \in BeforeTrades,
           UNCHANGED <<venue, rows, balance, heldNow, trades, transfers, snapLen>>,
           ledger' \in Seq(Ids), Distinct(ledger'),
           \/ /\ stage' = stage /\ todo' = todo /\ cursor' \in Int
              /\ stage = "history" => cursor' \in 1 .. Len(Quarters) + 1
           \/ /\ stage' \in {"archive", "history"} /\ todo' = {} /\ venue = "okx"
              /\ cursor' = IF stage' = "archive" THEN MaxRows + 1 ELSE 1
           \/ /\ stage' = "trades" /\ todo' = Syms
              /\ cursor' = IF venue = "binance" THEN TradesFrom ELSE Ticks
    PROVE  /\ HistoryInv' /\ RunInv' /\ Ids' = Ids
           /\ TradesInv' /\ TradesCover' /\ TransfersInv' /\ TransfersCover'
<1>1. HistoryInv' /\ Ids' = Ids
  BY SameHistory DEF IInv
<1>2. trades = <<>> /\ transfers = <<>>
  BY DEF IInv, TradesInv, TransfersInv, BeforeTrades
<1>3. cursor' \in Int /\ (stage' = "trades" => cursor' = IF venue' = "binance" THEN TradesFrom ELSE Ticks)
  BY BackfillAssumption DEF BeforeTrades
<1>4. stage' \in BeforeTrades \/ (stage' = "trades" /\ todo' = Syms)
  BY DEF BeforeTrades
<1>5. RunInv'
  BY <1>1, <1>3, <1>4 DEF IInv, RunInv, OkxOnly, Syms, BeforeTrades, Distinct
<1>6. TradesInv' /\ TradesCover'
  BY <1>1, <1>2, <1>3, <1>4, <1>5, NoTradesYet DEF IInv
<1>7. TransfersInv' /\ TransfersCover'
  BY <1>1, <1>2, <1>4, NoTransfersYet
<1> QED BY <1>1, <1>5, <1>6, <1>7

\* The ledger a walk leaves when it moves on from an endpoint.
LEMMA WalkLeft ==
    ASSUME IInv, stage \in {"ledger", "archive"}, venue = "okx",
           \/ stage' = "archive" /\ cursor' = MaxRows + 1
           \/ stage' = "history",
           UNCHANGED <<venue, rows, ledger, filed, snapLen>>
    PROVE  LedgerInv' /\ OrderInv'
<1>1. Ids' = Ids /\ Len(rows) <= MaxRows /\ \A i \in Ids : ~(i >= MaxRows + 1)
  BY SameHistory, RowType, BackfillAssumption DEF IInv, HistoryInv
<1>2. LedgerInv'
  BY DEF IInv, LedgerInv, TickOf
<1>3. OrderInv'
  <2>1. BillsServed' \subseteq Ids
    BY <1>1 DEF BillsServed, From
  <2> QED BY <1>1, <2>1 DEF IInv, OrderInv, PagedIsNewest, TickOf
<1> QED BY <1>2, <1>3

LEMMA StepIncomePage == ASSUME IInv, IncomePage PROVE IInv'
<1> DEFINE asked == UpTo(Ids, cursor)
           page == Newest(asked)
           edge == BeforePage(page)
           left == UpTo(Ids, edge)
<1>1. /\ UNCHANGED <<venue, rows, balance, heldNow, filed, snapLen, trades, transfers>>
      /\ venue = "binance" /\ stage = "ledger" /\ failed \subseteq failed'
      /\ \/ /\ page = {} /\ stage' = "trades" /\ todo' = Syms /\ ledger' = ledger
            /\ cursor' = TradesFrom /\ failed' = failed
         \/ /\ page # {} /\ ledger' = ledger \o Ascending(page)
            /\ cursor' = edge /\ stage' = stage /\ todo' = todo /\ failed' = failed
         \/ /\ page # {} /\ ledger' = ledger \o Ascending(page)
            /\ stage' = "trades" /\ todo' = Syms /\ cursor' = TradesFrom
            /\ failed' = failed \cup (IF left = {} THEN {} ELSE {stage})
  BY FirstCursors DEF IncomePage, TurnPage, Kept, setting, Enter
<1>2. ledger \in Seq(Ids) /\ Distinct(ledger) /\ cursor \in Int /\ HistoryInv
      /\ \A i \in Ids : TickOf(i) \in Int
  BY RowType DEF IInv, RunInv
<1>3. asked \in SUBSET Ids /\ page \in SUBSET asked /\ page \in SUBSET Ids
  BY <1>2, NewestPage DEF UpTo
<1>4. BalanceInv'
  BY <1>1, SameBalance
<1>5. OrderInv'
  BY <1>1 DEF OrderInv
<1>6. CASE page = {}
  <2>1. /\ HistoryInv' /\ RunInv' /\ Ids' = Ids
        /\ TradesInv' /\ TradesCover' /\ TransfersInv' /\ TransfersCover'
    BY <1>1, <1>2, <1>6, EarlyStep DEF BeforeTrades
  <2>2. asked = {}
    BY <1>2, <1>3, <1>6, NewestPage
  <2>3. \A i \in Ids : TickOf(i) > cursor
    BY <1>2, <2>2 DEF UpTo, TickOf
  <2>4. LedgerInv'
    BY <1>1, <1>6 DEF LedgerInv
  <2>5. LedgerCovers'
    <3> SUFFICES ASSUME failed = {}, NEW i \in 1 .. snapLen PROVE Has(i, ledger)'
      BY <1>1, <1>6 DEF LedgerCovers, BillsRead, FileRead
    <3>1. i \in Ids
      BY <1>2, RowType DEF IInv, RunInv
    <3>2. Has(i, ledger)
      BY <1>1, <2>3, <3>1 DEF IInv, LedgerCovers
    <3> QED BY <1>1, <1>6, <3>2 DEF Has, LostInTie, TickOf
  <2> QED BY <1>4, <1>5, <2>1, <2>4, <2>5 DEF IInv
<1>7. CASE page # {}
  <2>1. /\ FirstTick(page) \in Int
        /\ \E i \in page : TickOf(i) = FirstTick(page)
        /\ \A i \in page : FirstTick(page) <= TickOf(i)
    BY <1>2, <1>3, <1>7, TickBounds
  <2>2. Ascending(page) \in Seq(Ids) /\ Fetched(Ascending(page)) = page /\ Distinct(Ascending(page))
    BY <1>2, <1>3, AscendingList
  <2>3. \A i \in Fetched(ledger) : TickOf(i) > cursor
    BY <1>1 DEF IInv, LedgerInv
  <2>4. \A i \in page : TickOf(i) <= cursor
    BY <1>3 DEF UpTo, TickOf
  <2>5. Fetched(ledger) \subseteq Ids
    BY <1>2 DEF Fetched, ToSet
  <2>6. Fetched(ledger) \cap page = {}
    BY <1>2, <1>3, <2>3, <2>4
  <2>7. /\ ledger' \in Seq(Ids) /\ Distinct(ledger')
        /\ Fetched(ledger') = Fetched(ledger) \cup page
    <3>1. ledger' = ledger \o Ascending(page)
      BY <1>1, <1>7
    <3> HIDE DEF page
    <3> QED BY <1>2, <2>2, <2>6, <3>1, AppendPage
  <2>8. edge = FirstTick(page) - 1 /\ edge \in Int
    BY <2>1 DEF BeforePage
  <2>9. /\ HistoryInv' /\ RunInv' /\ Ids' = Ids
        /\ TradesInv' /\ TradesCover' /\ TransfersInv' /\ TransfersCover'
    <3> HIDE DEF page, edge, left
    <3> QED BY <1>1, <1>7, <2>7, <2>8, EarlyStep DEF BeforeTrades
  <2>10. FirstTick(page) <= cursor
    BY <1>2, <1>3, <1>7, <2>1, <2>4
  <2> HIDE DEF page, edge
  <2>11. LedgerInv'
    <3> SUFFICES ASSUME NEW i \in Fetched(ledger) \cup page PROVE TickOf(i) > edge
      BY <1>1, <1>7, <2>7 DEF IInv, LedgerInv, TickOf
    <3>1. i \in Ids
      BY <1>3, <2>5
    <3> QED BY <1>2, <2>1, <2>3, <2>8, <2>10, <3>1
  <2>12. ASSUME failed = {}, NEW i \in 1 .. snapLen, TickOf(i) > edge PROVE Has(i, ledger)'
    <3>1. i \in Ids
      BY <1>2, RowType DEF IInv, RunInv
    <3>2. CASE TickOf(i) > cursor
      <4>1. Has(i, ledger)
        BY <1>1, <2>12, <3>1, <3>2 DEF IInv, LedgerCovers
      <4> QED BY <1>1, <2>7, <4>1 DEF Has, LostInTie, TickOf
    <3>3. CASE i \in page
      BY <2>7, <3>3 DEF Has
    <3>4. CASE TickOf(i) <= cursor /\ i \notin page
      <4>1. i \in asked
        BY <3>1, <3>4 DEF UpTo, TickOf
      <4>2. PICK p \in page : TickOf(p) = FirstTick(page)
        BY <2>1
      <4>3. i < p
        BY <1>2, <1>3, <3>4, <4>1, NewestPage DEF page
      <4>4. TickOf(i) <= TickOf(p)
        BY <1>2, <1>3, <3>1, <4>3 DEF HistoryInv
      <4>5. TickOf(i) = TickOf(p)
        BY <1>2, <1>3, <2>1, <2>8, <2>12, <3>1, <4>2, <4>4
      <4> QED BY <1>1, <2>7, <4>5 DEF Has, LostInTie, TickOf
    <3> QED BY <1>2, <3>1, <3>2, <3>3, <3>4
  <2>13. LedgerCovers'
    <3> SUFFICES ASSUME failed' = {}, NEW i \in 1 .. snapLen,
                        stage' = "ledger" => TickOf(i) > cursor'
                 PROVE  Has(i, ledger)'
      BY <1>1 DEF LedgerCovers, BillsRead, FileRead, TickOf
    <3>1. failed = {} /\ i \in Ids
      BY <1>1, <1>2, RowType DEF IInv, RunInv
    <3>2. TickOf(i) > edge
      <4>1. CASE stage' = stage /\ cursor' = edge
        BY <1>1, <4>1
      <4>2. CASE failed' = failed \cup (IF left = {} THEN {} ELSE {stage})
        <5>1. left = {}
          BY <4>2
        <5> QED BY <1>2, <2>8, <3>1, <5>1 DEF UpTo, TickOf
      <4> QED BY <1>1, <1>7, <4>1, <4>2
    <3> QED BY <2>12, <3>1, <3>2
  <2> QED BY <1>4, <1>5, <2>9, <2>11, <2>13 DEF IInv
<1> QED BY <1>6, <1>7

LEMMA StepBillsPage == ASSUME IInv, BillsPage PROVE IInv'
<1> DEFINE asked == {i \in BillsServed : i < cursor}
           page == Newest(asked)
           fresh == page \ Fetched(ledger)
           edge == Min(page)
           left == {i \in BillsServed : i < edge}
           start == IF stage' = "archive" THEN MaxRows + 1 ELSE 1
<1>1. /\ UNCHANGED <<venue, rows, balance, heldNow, filed, snapLen, trades, transfers>>
      /\ venue = "okx" /\ stage \in {"ledger", "archive"} /\ failed \subseteq failed'
      /\ \/ /\ page = {} /\ stage' = AfterBills /\ todo' = {} /\ ledger' = ledger
            /\ cursor' = start /\ failed' = failed
         \/ /\ page # {} /\ ledger' = ledger \o Descending(fresh)
            /\ cursor' = edge /\ stage' = stage /\ todo' = todo /\ failed' = failed
         \/ /\ page # {} /\ ledger' = ledger \o Descending(fresh)
            /\ stage' = AfterBills /\ todo' = {} /\ cursor' = start
            /\ failed' = failed \cup (IF left = {} THEN {} ELSE {stage})
  <2>1. cursor' = FirstCursor(AfterBills) /\ stage' = AfterBills => cursor' = start
    BY FirstCursors DEF AfterBills
  <2> HIDE DEF start
  <2> QED BY <2>1 DEF BillsPage, BillsAdd, TurnPage, Kept, setting, setting, Enter
<1>2. ledger \in Seq(Ids) /\ Distinct(ledger) /\ cursor \in Int /\ HistoryInv
      /\ \A i \in Ids : TickOf(i) \in Int /\ i \in Int
  BY RowType DEF IInv, RunInv
<1>3. /\ BillsServed \subseteq Ids /\ asked \in SUBSET Ids
      /\ page \in SUBSET asked /\ page \in SUBSET Ids /\ fresh \in SUBSET Ids
  BY <1>2, NewestPage DEF BillsServed, From
<1>4. BalanceInv'
  BY <1>1, SameBalance
<1>5. AfterBills \in {"archive", "history"} /\ (stage = "ledger" <=> AfterBills = "archive")
  BY <1>1 DEF AfterBills
<1>6. \A i \in 1 .. snapLen : i \in Ids /\ i < MaxRows + 1
  BY <1>2, RowType, BackfillAssumption DEF IInv, RunInv, HistoryInv
\* Once the endpoint is left without an error, its rows are all there.
<1>7. ASSUME stage' = AfterBills, cursor' = start,
             failed' = {} /\ stage = "archive" => \A i \in 1 .. snapLen :
                TickOf(i) >= ArchiveFrom => i \in Fetched(ledger')
      PROVE  LedgerCovers'
  <2> SUFFICES ASSUME failed' = {}, NEW i \in 1 .. snapLen
               PROVE  /\ stage' = "archive" => ~(i >= cursor')
                      /\ stage' = "history" /\ TickOf(i) >= ArchiveFrom => i \in Fetched(ledger')
                      /\ stage' = "history" => \A q \in DOMAIN Quarters : ~(q < cursor')
    BY <1>1, <1>5, <1>7 DEF LedgerCovers, BillsRead, FileRead, TickOf
  <2>1. \A q \in DOMAIN Quarters : q >= 1 /\ q \in Nat
    BY BackfillAssumption
  <2> QED BY <1>1, <1>5, <1>6, <1>7, <2>1, BackfillAssumption
<1>8. CASE page = {}
  <2>1. /\ HistoryInv' /\ RunInv' /\ Ids' = Ids
        /\ TradesInv' /\ TradesCover' /\ TransfersInv' /\ TransfersCover'
    BY <1>1, <1>2, <1>5, <1>8, EarlyStep DEF BeforeTrades
  <2>2. LedgerInv' /\ OrderInv'
    BY <1>1, <1>5, <1>8, WalkLeft
  <2>3. asked = {}
    BY <1>2, <1>3, <1>8, NewestPage
  <2>4. LedgerCovers'
    <3> SUFFICES ASSUME failed = {}, stage = "archive", NEW i \in 1 .. snapLen, TickOf(i) >= ArchiveFrom
                 PROVE  i \in Fetched(ledger)
      BY <1>1, <1>7, <1>8
    <3>1. i \in BillsServed
      BY <1>6 DEF BillsServed, From, TickOf
    <3>2. i >= cursor
      BY <1>2, <1>6, <2>3, <3>1
    <3> QED BY <1>1, <3>2 DEF IInv, LedgerCovers
  <2> QED BY <1>4, <2>1, <2>2, <2>4 DEF IInv
<1>9. CASE page # {}
  <2>1. edge \in page /\ \A p \in page : edge <= p
    <3>1. IsFiniteSet(page) /\ page \subseteq Int
      BY <1>2, <1>3, RowType
    <3> QED BY <1>1, <1>9, <3>1, LeastElement
  <2>2. /\ Descending(fresh) \in Seq(Ids) /\ Fetched(Descending(fresh)) = fresh
        /\ Distinct(Descending(fresh)) /\ Falling(Descending(fresh))
    <3> HIDE DEF fresh
    <3>1. Descending(fresh) \in Seq(fresh)
      BY <1>2, <1>3, DescendingList
    <3>2. Seq(fresh) \subseteq Seq(Ids)
      BY <1>3
    <3> QED BY <1>2, <1>3, <3>1, <3>2, DescendingList
  <2>3. Fetched(ledger) \cap fresh = {} /\ Fetched(ledger) \subseteq Ids
    BY <1>2 DEF Fetched, ToSet
  <2>4. /\ ledger' \in Seq(Ids) /\ Distinct(ledger')
        /\ Fetched(ledger') = Fetched(ledger) \cup page
        /\ ledger' = ledger \o Descending(fresh)
    <3>1. ledger' = ledger \o Descending(fresh)
      BY <1>1, <1>9
    <3>2. Fetched(ledger) \cup fresh = Fetched(ledger) \cup page
      OBVIOUS
    <3> HIDE DEF page, fresh
    <3> QED BY <1>2, <2>2, <2>3, <3>1, <3>2, AppendPage
  <2>5. edge \in Int /\ filed = {} /\ filed' = {}
    BY <1>1, <1>2, <1>3, <2>1 DEF IInv, LedgerInv
  <2>6. /\ HistoryInv' /\ RunInv' /\ Ids' = Ids
        /\ TradesInv' /\ TradesCover' /\ TransfersInv' /\ TransfersCover'
    <3> HIDE DEF page, edge, left, fresh
    <3> QED BY <1>1, <1>2, <1>5, <1>9, <2>4, <2>5, EarlyStep DEF BeforeTrades
  <2>7. \A i \in asked : i >= edge => i \in page
    <3> SUFFICES ASSUME NEW i \in asked, i \notin page, i >= edge PROVE FALSE
      OBVIOUS
    <3>1. i < edge
      BY <1>2, <1>3, <2>1, NewestPage
    <3> QED BY <1>2, <1>3, <2>5, <3>1
  <2> HIDE DEF page, edge
  <2>8. LedgerInv'
    BY <1>1, <1>5, <2>5 DEF LedgerInv
  <2>9. ASSUME failed = {}, NEW i \in 1 .. snapLen, TickOf(i) >= ArchiveFrom,
               i >= edge, stage = "archive"
        PROVE  i \in Fetched(ledger')
    <3>1. i \in Ids
      BY <1>6
    <3>2. CASE i >= cursor
      BY <1>1, <2>4, <2>9, <3>2 DEF IInv, LedgerCovers
    <3>3. CASE i < cursor
      <4>1. i \in asked
        BY <2>9, <3>1, <3>3 DEF BillsServed, From, TickOf
      <4> QED BY <2>4, <2>7, <2>9, <4>1
    <3> QED BY <1>2, <3>1, <3>2, <3>3
  <2>10. LedgerCovers'
    <3>1. CASE cursor' = edge /\ stage' = stage /\ failed' = failed
      <4> SUFFICES ASSUME failed = {}, NEW i \in 1 .. snapLen, TickOf(i) >= ArchiveFrom,
                          i >= edge, stage = "archive"
                   PROVE  i \in Fetched(ledger')
        BY <1>1, <3>1 DEF LedgerCovers, BillsRead, FileRead, TickOf
      <4> QED BY <2>9
    <3>2. CASE /\ stage' = AfterBills /\ cursor' = start
               /\ failed' = failed \cup (IF left = {} THEN {} ELSE {stage})
      <4> SUFFICES ASSUME failed' = {}, stage = "archive", NEW i \in 1 .. snapLen, TickOf(i) >= ArchiveFrom
                   PROVE  i \in Fetched(ledger')
        BY <1>7, <3>2
      <4>1. failed = {} /\ left = {}
        BY <3>2
      <4>2. i \in BillsServed /\ i \in Int
        BY <1>2, <1>6 DEF BillsServed, From, TickOf
      <4>3. i >= edge
        BY <2>5, <4>1, <4>2
      <4> QED BY <2>9, <4>1, <4>3
    <3> QED BY <1>1, <1>9, <3>1, <3>2
  <2>11. ASSUME snapLen = Len(rows)
         PROVE  /\ Falling(ledger')
                /\ \A i \in Ids, j \in Ids : i \in Fetched(ledger') /\ j > i => j \in Fetched(ledger')
                /\ \A i \in BillsServed : i >= edge => i \in Fetched(ledger')
    <3>1. /\ Falling(ledger)
          /\ \A i \in Fetched(ledger), j \in Ids : j > i => j \in Fetched(ledger)
          /\ \A i \in BillsServed : i >= cursor => i \in Fetched(ledger)
      BY <1>1, <2>5, <2>11 DEF IInv, OrderInv, PagedIsNewest
    <3>2. ASSUME NEW i \in BillsServed, i >= edge PROVE i \in Fetched(ledger')
      <4>1. i \in Int
        BY <1>2, <1>3
      <4>2. CASE i >= cursor
        BY <2>4, <3>1, <4>2
      <4>3. CASE i < cursor
        BY <2>4, <2>7, <3>2, <4>3
      <4> QED BY <1>2, <4>1, <4>2, <4>3
    <3>3. ASSUME NEW i \in Ids, NEW j \in Ids, i \in Fetched(ledger'), j > i
          PROVE  j \in Fetched(ledger')
      <4>1. CASE i \in Fetched(ledger)
        BY <2>4, <3>1, <3>3, <4>1
      <4>2. CASE i \in page
        <5>1. TickOf(i) <= TickOf(j)
          BY <1>2, <3>3 DEF HistoryInv
        <5>2. i \in BillsServed
          BY <1>3, <4>2
        <5>3. j \in BillsServed
          BY <1>2, <5>1, <5>2, BackfillAssumption DEF BillsServed, From, TickOf
        <5>4. j >= edge
          BY <1>2, <2>1, <2>5, <3>3, <4>2
        <5> QED BY <3>2, <5>3, <5>4
      <4> QED BY <2>4, <3>3, <4>1, <4>2
    <3>4. \A x \in Fetched(ledger), y \in fresh : x > y
      <4> SUFFICES ASSUME NEW x \in Fetched(ledger), NEW y \in fresh, ~(x > y) PROVE FALSE
        OBVIOUS
      <4>1. x \in Ids /\ y \in Ids /\ x # y
        BY <1>3, <2>3
      <4>2. y > x
        BY <1>2, <4>1
      <4> QED BY <3>1, <4>1, <4>2
    <3>5. Falling(ledger')
      <4> HIDE DEF fresh
      <4> QED BY <1>2, <2>2, <2>4, <3>1, <3>4, AppendFalling
    <3> QED BY <3>2, <3>3, <3>5
  <2>12. OrderInv'
    <3> SUFFICES ASSUME snapLen = Len(rows) PROVE OrderInv'
      BY <1>1 DEF OrderInv
    <3>1. PagedIsNewest'
      <4>1. Fetched(ledger') \subseteq Ids
        BY <1>3, <2>3, <2>4
      <4> QED BY <2>6, <2>11, <4>1 DEF PagedIsNewest
    <3>2. \A m, n \in DOMAIN ledger' : m < n => ledger'[m] > ledger'[n]
      BY <2>11 DEF Falling
    <3>3. stage' \in {"ledger", "archive"} => \A i \in BillsServed' : i >= cursor' => i \in Fetched(ledger')
      <4>1. CASE cursor' = edge /\ stage' = stage
        <5>1. BillsServed' = BillsServed
          BY <1>1, <2>6, <4>1 DEF BillsServed, From
        <5> QED BY <2>11, <4>1, <5>1
      <4>2. CASE stage' = AfterBills /\ cursor' = start
        <5>1. BillsServed' \subseteq Ids
          BY <2>6 DEF BillsServed, From
        <5>2. \A i \in Ids : ~(i >= MaxRows + 1)
          BY <1>2, RowType, BackfillAssumption DEF HistoryInv
        <5> QED BY <1>5, <4>2, <5>1, <5>2
      <4> QED BY <1>1, <1>9, <4>1, <4>2
    <3> QED BY <2>11, <3>1, <3>2, <3>3 DEF OrderInv
  <2> QED BY <1>4, <2>6, <2>8, <2>10, <2>12 DEF IInv
<1> QED BY <1>8, <1>9

LEMMA StepRetry == ASSUME NEW limit, IInv, Retry(limit) PROVE IInv'
<1>1. /\ UNCHANGED <<venue, rows, balance, heldNow, filed, snapLen, ledger, trades, transfers>>
      /\ venue = "okx" /\ stage \in {"ledger", "archive"}
      /\ \/ /\ stage' = AfterBills /\ todo' = {} /\ cursor' = FirstCursor(AfterBills)
            /\ failed' = failed \cup {stage}
         \/ UNCHANGED <<stage, todo, cursor, failed>>
  BY DEF Retry, Enter, files, setting
<1>2. BalanceInv'
  BY <1>1, SameBalance
<1>3. ledger' \in Seq(Ids) /\ Distinct(ledger') /\ cursor \in Int
  BY <1>1 DEF IInv, RunInv
<1>4. CASE stage' = AfterBills /\ todo' = {} /\ cursor' = FirstCursor(AfterBills) /\ failed' = failed \cup {stage}
  <2>1. stage' \in {"archive", "history"} /\ cursor' = IF stage' = "archive" THEN MaxRows + 1 ELSE 1
    BY <1>1, <1>4, FirstCursors DEF AfterBills
  <2>2. /\ HistoryInv' /\ RunInv' /\ TradesInv' /\ TransfersInv'
    BY <1>1, <1>3, <1>4, <2>1, EarlyStep DEF BeforeTrades
  <2>3. LedgerInv' /\ OrderInv'
    BY <1>1, <1>4, <2>1, WalkLeft
  <2>4. LedgerCovers' /\ TradesCover' /\ TransfersCover'
    BY <1>4, NothingCovered
  <2> QED BY <1>2, <2>2, <2>3, <2>4 DEF IInv
<1>5. CASE UNCHANGED <<stage, todo, cursor, failed>>
  <2>1. /\ HistoryInv' /\ RunInv' /\ Ids' = Ids
        /\ TradesInv' /\ TradesCover' /\ TransfersInv' /\ TransfersCover'
    BY <1>1, <1>3, <1>5, EarlyStep DEF BeforeTrades
  <2>2. LedgerInv'
    BY <1>1, <1>5 DEF IInv, LedgerInv, TickOf
  <2>3. LedgerCovers'
    BY <1>1, <1>5 DEF IInv, LedgerCovers, BillsRead, FileRead, TickOf, Has, LostInTie
  <2>4. OrderInv'
    BY <1>1, <1>5, <2>1 DEF IInv, OrderInv, PagedIsNewest, BillsServed, From, TickOf
  <2> QED BY <1>2, <2>1, <2>2, <2>3, <2>4 DEF IInv
<1> QED BY <1>1, <1>4, <1>5

\* A quarterly file adds rows the ledger lacks, all of them older than those
\* of the paged endpoints.
LEMMA StepQuarterFile == ASSUME IInv, QuarterFile PROVE IInv'
<1> DEFINE unseen == {i \in Ids : TickOf(i) \in Quarters[cursor]} \ Fetched(ledger)
<1>1. PICK read \in SUBSET unseen :
        /\ ledger' \in {ledger \o Ascending(read), ledger \o Descending(read)}
        /\ filed' = filed \cup read
        /\ failed' = failed \cup (IF read = unseen THEN {} ELSE {stage})
  BY DEF QuarterFile
<1>2. /\ UNCHANGED <<venue, rows, balance, heldNow, snapLen, trades, transfers, stage, todo>>
      /\ stage = "history" /\ cursor \in DOMAIN Quarters /\ cursor' = cursor + 1
  BY DEF QuarterFile, Kept, setting, setting
<1>3. venue = "okx" /\ cursor \in Nat /\ cursor' \in 1 .. Len(Quarters) + 1
      /\ \A q \in DOMAIN Quarters : q \in Nat
  BY <1>2, BackfillAssumption DEF IInv, RunInv, OkxOnly
<1>4. ledger \in Seq(Ids) /\ Distinct(ledger) /\ HistoryInv
      /\ \A i \in Ids : TickOf(i) \in Int /\ i \in Int
  BY RowType DEF IInv, RunInv
<1>5. Fetched(ledger) \subseteq Ids /\ read \in SUBSET Ids /\ Fetched(ledger) \cap read = {}
  BY <1>4 DEF Fetched, ToSet
<1>6. BalanceInv'
  BY <1>1, <1>2, SameBalance
<1>7. PICK file \in Seq(Ids) : ledger' = ledger \o file /\ Fetched(file) = read /\ Distinct(file)
  <2>1. /\ Ascending(read) \in Seq(Ids) /\ Fetched(Ascending(read)) = read /\ Distinct(Ascending(read))
    BY <1>4, <1>5, AscendingList
  <2>2. /\ Descending(read) \in Seq(read) /\ Fetched(Descending(read)) = read
        /\ Distinct(Descending(read))
    BY <1>4, <1>5, DescendingList
  <2>3. Seq(read) \subseteq Seq(Ids)
    BY <1>5
  <2>4. Descending(read) \in Seq(Ids)
    BY <2>2, <2>3
  <2>5. CASE ledger' = ledger \o Ascending(read)
    BY <2>1, <2>5
  <2>6. CASE ledger' = ledger \o Descending(read)
    BY <2>2, <2>4, <2>6
  <2> QED BY <1>1, <2>5, <2>6
<1>8. ledger' \in Seq(Ids) /\ Distinct(ledger') /\ Fetched(ledger') = Fetched(ledger) \cup read
  BY <1>4, <1>5, <1>7, AppendPage
<1>9. /\ HistoryInv' /\ RunInv' /\ Ids' = Ids
      /\ TradesInv' /\ TradesCover' /\ TransfersInv' /\ TransfersCover'
  BY <1>2, <1>3, <1>8, EarlyStep DEF BeforeTrades
<1>10. LedgerInv'
  BY <1>2, <1>3 DEF LedgerInv
<1>11. LedgerCovers'
  <2> SUFFICES ASSUME failed' = {}, NEW i \in 1 .. snapLen
               PROVE  /\ TickOf(i) >= ArchiveFrom => i \in Fetched(ledger')
                      /\ \A q \in DOMAIN Quarters :
                            q < cursor' /\ TickOf(i) \in Quarters[q] => i \in Fetched(ledger')
    BY <1>2, <1>3 DEF LedgerCovers, BillsRead, FileRead, TickOf
  <2>1. failed = {} /\ read = unseen
    BY <1>1
  <2>2. i \in Ids
    BY <1>4, RowType DEF IInv, RunInv
  <2>3. /\ TickOf(i) >= ArchiveFrom => i \in Fetched(ledger)
        /\ \A q \in DOMAIN Quarters : q < cursor /\ TickOf(i) \in Quarters[q] => i \in Fetched(ledger)
    BY <1>2, <1>3, <2>1 DEF IInv, LedgerCovers, BillsRead, FileRead
  <2>4. ASSUME NEW q \in DOMAIN Quarters, q < cursor', TickOf(i) \in Quarters[q]
        PROVE  i \in Fetched(ledger')
    <3>1. CASE q = cursor
      BY <1>8, <2>1, <2>2, <2>4, <3>1
    <3>2. CASE q # cursor
      <4>1. q < cursor
        BY <1>2, <1>3, <2>4, <3>2
      <4> QED BY <1>8, <2>3, <2>4, <4>1
    <3> QED BY <3>1, <3>2
  <2> QED BY <1>8, <2>3, <2>4
<1>12. OrderInv'
  <2> SUFFICES ASSUME snapLen = Len(rows) PROVE OrderInv'
    BY <1>2 DEF OrderInv
  <2>1. /\ PagedIsNewest
        /\ \A m, n \in DOMAIN ledger :
              m < n /\ TickOf(ledger[m]) = TickOf(ledger[n])
                 => ledger[m] > ledger[n] \/ {ledger[m], ledger[n]} \subseteq filed
    BY <1>3 DEF IInv, OrderInv
  <2>2. PagedIsNewest'
    BY <1>1, <1>8, <1>9, <2>1 DEF PagedIsNewest
  <2>3. ASSUME NEW m \in DOMAIN ledger', NEW n \in DOMAIN ledger', m < n,
               TickOf(ledger'[m]) = TickOf(ledger'[n])
        PROVE  ledger'[m] > ledger'[n] \/ {ledger'[m], ledger'[n]} \subseteq filed'
    <3> DEFINE p == Len(ledger)
               q == Len(file)
    <3>1. /\ p \in Nat /\ q \in Nat /\ DOMAIN ledger = 1 .. p /\ DOMAIN file = 1 .. q
          /\ DOMAIN ledger' = 1 .. (p + q)
          /\ \A k \in 1 .. (p + q) : ledger'[k] = IF k <= p THEN ledger[k] ELSE file[k - p]
      BY <1>4, <1>7, <1>8, ConcatProperties
    <3> HIDE DEF p, q
    <3>2. \A k \in 1 .. (p + q) : /\ k <= p => k \in DOMAIN ledger /\ ledger'[k] = ledger[k]
                                  /\ ~(k <= p) => ledger'[k] \in read
      <4> SUFFICES ASSUME NEW k \in 1 .. (p + q), ~(k <= p) PROVE file[k - p] \in read
        BY <3>1
      <4>1. k - p \in DOMAIN file
        BY <3>1
      <4> QED BY <1>7, <4>1 DEF Fetched, ToSet
    <3>3. CASE n <= p
      <4>1. m <= p
        BY <2>3, <3>1, <3>3
      <4> QED BY <1>1, <2>1, <2>3, <3>1, <3>2, <3>3, <4>1
    <3>4. CASE ~(n <= p) /\ ~(m <= p)
      BY <1>1, <2>3, <3>1, <3>2, <3>4
    <3>5. CASE ~(n <= p) /\ m <= p
      <4>1. m \in DOMAIN ledger /\ ledger'[m] = ledger[m] /\ ledger'[n] \in read
        BY <3>1, <3>2, <3>5
      <4>2. PICK x \in Fetched(ledger) : x = ledger'[m]
        BY <4>1 DEF Fetched, ToSet
      <4>3. PICK y \in read : y = ledger'[n]
        BY <4>1
      <4>4. CASE x \in filed
        BY <1>1, <4>2, <4>3, <4>4
      <4>5. CASE x \notin filed
        <5>1. ~(y > x)
          BY <1>5, <2>1, <4>5 DEF PagedIsNewest
        <5>2. x > y
          BY <1>4, <1>5, <5>1
        <5> QED BY <4>2, <4>3, <5>2
      <4> QED BY <4>4, <4>5
    <3> QED BY <3>3, <3>4, <3>5
  <2> QED BY <1>2, <2>2, <2>3 DEF OrderInv, TickOf
<1> QED BY <1>6, <1>9, <1>10, <1>11, <1>12 DEF IInv

LEMMA StepQuartersEnd == ASSUME IInv, QuartersEnd PROVE IInv'
<1>1. /\ UNCHANGED <<venue, rows, balance, heldNow, failed, filed, snapLen, ledger, trades, transfers>>
      /\ stage = "history" /\ cursor \notin DOMAIN Quarters /\ stage' = "trades" /\ todo' = Syms
      /\ cursor' = IF venue = "binance" THEN TradesFrom ELSE Ticks
  BY FirstCursors DEF QuartersEnd, Kept, setting, setting, files, Enter
<1>2. venue = "okx" /\ ledger' \in Seq(Ids) /\ Distinct(ledger')
  BY <1>1 DEF IInv, RunInv, OkxOnly
<1>3. \A q \in DOMAIN Quarters : q < cursor
  <2>1. cursor \in 1 .. Len(Quarters) + 1 /\ Len(Quarters) \in Nat /\ DOMAIN Quarters = 1 .. Len(Quarters)
    BY <1>1, BackfillAssumption DEF IInv, RunInv
  <2> QED BY <1>1, <2>1
<1>4. /\ HistoryInv' /\ RunInv' /\ Ids' = Ids
      /\ TradesInv' /\ TradesCover' /\ TransfersInv' /\ TransfersCover'
  BY <1>1, <1>2, EarlyStep DEF BeforeTrades
<1>5. BalanceInv'
  BY <1>1, SameBalance
<1>6. LedgerInv'
  BY <1>1 DEF LedgerInv
<1>7. LedgerCovers'
  <2> SUFFICES ASSUME failed = {}, NEW i \in 1 .. snapLen
               PROVE  /\ TickOf(i) >= ArchiveFrom => i \in Fetched(ledger)
                      /\ \A q \in DOMAIN Quarters : TickOf(i) \in Quarters[q] => i \in Fetched(ledger)
    BY <1>1, <1>2 DEF LedgerCovers, BillsRead, FileRead, TickOf
  <2> QED BY <1>1, <1>2, <1>3 DEF IInv, LedgerCovers, BillsRead, FileRead
<1>8. OrderInv'
  BY <1>1, <1>4 DEF IInv, OrderInv, PagedIsNewest, TickOf
<1> QED BY <1>4, <1>5, <1>6, <1>7, <1>8 DEF IInv

LEMMA StepLedgerFails ==
    ASSUME IInv, stage \in {"ledger", "archive"}, failed' = failed \cup {stage},
           UNCHANGED <<venue, rows, balance, heldNow, ledger, trades, transfers, filed, snapLen>>,
           \/ /\ venue = "binance" /\ stage' = "trades" /\ todo' = Syms
              /\ cursor' = TradesFrom
           \/ /\ venue = "okx" /\ stage' \in {"archive", "history"} /\ todo' = {}
              /\ cursor' = IF stage' = "archive" THEN MaxRows + 1 ELSE 1
    PROVE  IInv'
<1>1. ledger' \in Seq(Ids) /\ Distinct(ledger')
  BY DEF IInv, RunInv
<1>2. /\ HistoryInv' /\ RunInv' /\ TradesInv' /\ TransfersInv'
  BY <1>1, EarlyStep DEF BeforeTrades
<1>3. LedgerInv' /\ OrderInv'
  <2>1. CASE venue = "okx"
    BY <2>1, WalkLeft
  <2>2. CASE venue = "binance"
    BY <2>2 DEF LedgerInv, OrderInv
  <2> QED BY <2>1, <2>2
<1>4. LedgerCovers' /\ TradesCover' /\ TransfersCover'
  BY NothingCovered
<1>5. BalanceInv'
  BY SameBalance
<1> QED BY <1>2, <1>3, <1>4, <1>5 DEF IInv

-----------------------------------------------------------------------------
(* The trades *)

\* What a step of the trades leaves alone.
LEMMA TradesStep ==
    ASSUME IInv, stage \in {"trades", "fills"}, failed \subseteq failed',
           failed' \cap {"balance", "start"} = failed \cap {"balance", "start"},
           UNCHANGED <<venue, rows, balance, heldNow, ledger, transfers, filed, snapLen>>,
           trades' \in Seq(Ids), Distinct(trades'),
           stage' \in {"trades", "fills", "deposits"},
           stage' = "fills" => venue = "okx",
           stage' = "deposits" => cursor' = FlowsFrom,
           todo' \subseteq Syms, cursor' \in Int
    PROVE  /\ HistoryInv' /\ RunInv' /\ Ids' = Ids /\ Discovered' = Discovered
           /\ LedgerInv' /\ LedgerCovers' /\ OrderInv' /\ BalanceInv'
           /\ TransfersInv' /\ TransfersCover'
<1>1. HistoryInv' /\ Ids' = Ids
  BY SameHistory DEF IInv
<1>2. RunInv'
  BY <1>1 DEF IInv, RunInv, OkxOnly, Syms, BeforeTrades, AfterFills, Distinct
<1>3. LedgerInv' /\ LedgerCovers' /\ OrderInv' /\ BalanceInv'
  BY LateLedger DEF BeforeTrades
<1>4. transfers = <<>>
  BY DEF IInv, TransfersInv
<1>5. TransfersInv' /\ TransfersCover'
  BY <1>1, <1>4, NoTransfersYet
<1>6. Discovered' = Discovered
  BY <1>1 DEF Discovered, Newest, RecentFills, Fills, From, Syms
<1> QED BY <1>1, <1>2, <1>3, <1>5, <1>6

LEMMA SymIsNext == todo # {} => Sym \in todo
BY DEF Sym

\* The scan goes on to the next symbol.
LEMMA SymbolScanned ==
    ASSUME IInv, stage = "trades", todo # {}, stage' = "trades", todo' = todo \ {Sym},
           cursor' = IF venue = "binance" THEN TradesFrom ELSE Ticks,
           failed \subseteq failed',
           failed' \cap {"balance", "start"} = failed \cap {"balance", "start"},
           UNCHANGED <<venue, rows, balance, heldNow, ledger, trades, transfers, filed, snapLen>>,
           failed' = {} /\ Sym \in Discovered => \A i \in Fills(Sym) : Within(i) => Has(i, trades)
    PROVE  IInv'
<1>1. trades \in Seq(Ids) /\ Distinct(trades) /\ todo' \subseteq Syms /\ cursor' \in Int
  BY BackfillAssumption DEF IInv, RunInv
<1>2. /\ HistoryInv' /\ RunInv' /\ Ids' = Ids /\ Discovered' = Discovered
      /\ LedgerInv' /\ LedgerCovers' /\ OrderInv' /\ BalanceInv'
      /\ TransfersInv' /\ TransfersCover'
  BY <1>1, TradesStep
<1>3. TradesInv'
  BY DEF IInv, TradesInv, BeforeTrades, TickOf
<1>4. TradesCover'
  <2> SUFFICES ASSUME failed' = {}, NEW i \in Ids, rows[i].kind = "fill",
                      rows[i].sym \in Discovered, Scanned(i)', Within(i)
               PROVE  Has(i, trades)'
    BY <1>2 DEF TradesCover, Within, LookedUp, TickOf, AfterFills
  <2>1. rows[i].sym \in todo' => Passed(i)'
    BY DEF Scanned, AfterFills
  <2>2. TickOf(i) \in 1 .. Ticks /\ Ticks \in Int
    BY RowType, BackfillAssumption DEF IInv
  <2>3. rows[i].sym \notin todo'
    BY <2>1, <2>2, BackfillAssumption DEF Passed, Within, TickOf
  <2>4. Has(i, trades)
    <3>1. CASE rows[i].sym = Sym
      BY <3>1 DEF Fills
    <3>2. CASE rows[i].sym \notin todo
      BY <3>2 DEF IInv, TradesCover, Scanned
    <3> QED BY <2>3, <3>1, <3>2
  <2> QED BY <2>4 DEF Has, LostInTie, TickOf
<1> QED BY <1>2, <1>3, <1>4 DEF IInv

LEMMA StepSkipSymbol == ASSUME IInv, SkipSymbol PROVE IInv'
<1>1. /\ UNCHANGED <<venue, rows, balance, heldNow, failed, filed, snapLen, ledger, trades, transfers, stage>>
      /\ stage = "trades" /\ todo # {} /\ todo' = todo \ {Sym} /\ Sym \notin Discovered
      /\ cursor' = IF venue = "binance" THEN TradesFrom ELSE Ticks
  BY FirstCursors DEF SkipSymbol, NextSymbol, Kept, setting, files
<1> QED BY <1>1, SymbolScanned

LEMMA StepScanEnds == ASSUME IInv, ScanEnds PROVE IInv'
<1>1. /\ UNCHANGED <<venue, rows, balance, heldNow, failed, filed, snapLen, ledger, trades, transfers>>
      /\ stage \in {"trades", "fills"} /\ todo = {}
      /\ \/ /\ venue = "okx" /\ stage = "trades" /\ stage' = "fills" /\ todo' = WithTrades
            /\ cursor' = MaxRows + 1
         \/ /\ ~(venue = "okx" /\ stage = "trades") /\ stage' = "deposits" /\ todo' = {}
            /\ cursor' = FlowsFrom
  BY FirstCursors DEF ScanEnds, Enter, Kept, setting, setting, files
<1>2. WithTrades \subseteq Syms
  <2> SUFFICES ASSUME NEW i \in Fetched(trades) PROVE rows[i].sym \in Syms
    BY DEF WithTrades, From
  <2>1. i \in Ids /\ rows[i].kind = "fill"
    BY DEF IInv, RunInv, TradesInv, Fetched, ToSet
  <2> QED BY <2>1 DEF IInv, HistoryInv
<1>3. trades \in Seq(Ids) /\ Distinct(trades) /\ cursor' \in Int /\ todo' \subseteq Syms
  BY <1>1, <1>2, BackfillAssumption DEF IInv, RunInv
<1>4. /\ HistoryInv' /\ RunInv' /\ Ids' = Ids /\ Discovered' = Discovered
      /\ LedgerInv' /\ LedgerCovers' /\ OrderInv' /\ BalanceInv'
      /\ TransfersInv' /\ TransfersCover'
  BY <1>1, <1>3, TradesStep
<1>5. TradesInv'
  BY <1>1 DEF IInv, TradesInv, BeforeTrades, TickOf
<1>6. TradesCover'
  <2> SUFFICES ASSUME failed = {}, NEW i \in Ids, rows[i].kind = "fill",
                      rows[i].sym \in Discovered
               PROVE  /\ Within(i) => Has(i, trades)'
                      /\ venue = "okx" /\ TickOf(i) < RecentFrom /\ LookedUp(i)'
                         /\ rows[i].sym \in WithTrades => i \in Fetched(trades)
    BY <1>1, <1>4 DEF TradesCover, Within, WithTrades, From, TickOf
  <2>1. Within(i) => Has(i, trades)
    BY <1>1 DEF IInv, TradesCover, Scanned
  <2>2. ASSUME venue = "okx", TickOf(i) < RecentFrom, LookedUp(i)', rows[i].sym \in WithTrades
        PROVE  i \in Fetched(trades)
    <3>1. CASE stage' = "fills"
      <4>1. i >= MaxRows + 1
        BY <1>1, <2>2, <3>1 DEF LookedUp, AfterFills
      <4> QED BY <4>1, RowType, BackfillAssumption DEF IInv, HistoryInv
    <3>2. CASE stage' = "deposits"
      BY <1>1, <2>2, <3>2 DEF IInv, TradesCover, LookedUp
    <3> QED BY <1>1, <3>1, <3>2
  <2> QED BY <1>1, <2>1, <2>2 DEF Has, LostInTie, TickOf
<1> QED BY <1>4, <1>5, <1>6 DEF IInv

\* A page of the fills asked for was added, and the cursor moved past it.
LEMMA TradesFetched ==
    ASSUME IInv, stage = "trades", todo # {}, NEW asked \in SUBSET Fills(Sym),
           venue = "okx" => \A i \in asked : TickOf(i) >= RecentFrom,
           \A i \in Fills(Sym) : \/ i \in asked \/ Passed(i)
                                 \/ venue = "okx" /\ ~(TickOf(i) >= RecentFrom),
           \A i \in asked : ~Passed(i),
           NEW page \in SUBSET asked,
           trades' = trades \o Ascending(page \ Fetched(trades)),
           UNCHANGED <<venue, rows, balance, heldNow, ledger, transfers, filed, snapLen,
                       stage, todo, failed>>,
           cursor' \in Int,
           \A i \in page : Passed(i)',
           \A i \in Ids : Passed(i) => Passed(i)',
           \A i \in asked \ page : Passed(i)' => LostInTie(i, page)
    PROVE  IInv'
<1>1. trades \in Seq(Ids) /\ Distinct(trades) /\ todo \subseteq Syms /\ HistoryInv
  BY DEF IInv, RunInv
<1>2. /\ page \in SUBSET Ids /\ Sym \in todo
      /\ \A i \in asked : i \in Ids /\ rows[i].kind = "fill" /\ rows[i].sym = Sym
  BY SymIsNext DEF Fills
<1>3. Fetched(trades) \cap page = {} /\ Fetched(trades) \subseteq Ids
  <2>1. Fetched(trades) \subseteq Ids
    BY <1>1 DEF Fetched, ToSet
  <2>2. \A i \in Fetched(trades) : rows[i].sym = Sym => Passed(i)
    BY <1>2 DEF IInv, TradesInv
  <2> QED BY <1>2, <2>1, <2>2
<1>4. page \ Fetched(trades) = page
  BY <1>3
<1>5. Ascending(page) \in Seq(Ids) /\ Fetched(Ascending(page)) = page /\ Distinct(Ascending(page))
  BY <1>1, <1>2, AscendingList
<1>6. trades' \in Seq(Ids) /\ Distinct(trades') /\ Fetched(trades') = Fetched(trades) \cup page
  <2>1. trades' = trades \o Ascending(page)
    BY <1>4
  <2>2. PICK list \in Seq(Ids) : list = Ascending(page)
    BY <1>5
  <2>3. Fetched(trades) \cap Fetched(list) = {} /\ Distinct(list)
    BY <1>3, <1>5, <2>2
  <2>4. /\ trades \o list \in Seq(Ids) /\ Distinct(trades \o list)
        /\ Fetched(trades \o list) = Fetched(trades) \cup Fetched(list)
    BY <1>1, <2>3, AppendPage
  <2> QED BY <1>5, <2>1, <2>2, <2>4
<1>7. /\ HistoryInv' /\ RunInv' /\ Ids' = Ids /\ Discovered' = Discovered
      /\ LedgerInv' /\ LedgerCovers' /\ OrderInv' /\ BalanceInv'
      /\ TransfersInv' /\ TransfersCover'
  BY <1>1, <1>6, TradesStep
<1>8. Sym' = Sym
  BY DEF Sym
<1>9. TradesInv'
  <2> SUFFICES ASSUME NEW i \in Fetched(trades) \cup page
               PROVE  /\ rows[i].kind = "fill"
                      /\ rows[i].sym \in todo => rows[i].sym = Sym /\ Passed(i)'
                      /\ venue = "okx" => TickOf(i) >= RecentFrom
    BY <1>6, <1>8 DEF TradesInv, BeforeTrades, TickOf
  <2>1. CASE i \in page
    BY <1>2, <2>1
  <2>2. CASE i \in Fetched(trades)
    BY <1>3, <2>2 DEF IInv, TradesInv
  <2> QED BY <2>1, <2>2
<1>10. TradesCover'
  <2> SUFFICES ASSUME failed = {}, NEW i \in Ids, rows[i].kind = "fill",
                      rows[i].sym \in Discovered, Scanned(i)', Within(i)
               PROVE  Has(i, trades)'
    BY <1>7 DEF TradesCover, Within, LookedUp, TickOf, AfterFills
  <2>1. rows[i].sym \in todo => rows[i].sym = Sym /\ Passed(i)'
    BY <1>8 DEF Scanned, AfterFills
  <2>2. CASE rows[i].sym \notin todo
    <3>1. Has(i, trades)
      BY <2>2 DEF IInv, TradesCover, Scanned
    <3> QED BY <1>6, <3>1 DEF Has, LostInTie, TickOf
  <2>3. CASE rows[i].sym = Sym /\ Passed(i)
    <3>1. Has(i, trades)
      BY <2>3 DEF IInv, TradesCover, Scanned
    <3> QED BY <1>6, <3>1 DEF Has, LostInTie, TickOf
  <2>4. CASE i \in page
    BY <1>6, <2>4 DEF Has
  <2>5. CASE i \in asked \ page /\ Passed(i)'
    <3>1. LostInTie(i, page)
      BY <2>5
    <3> QED BY <1>6, <3>1 DEF Has, LostInTie, TickOf
  <2>6. rows[i].sym = Sym => i \in Fills(Sym)
    BY DEF Fills
  <2>7. venue = "okx" => TickOf(i) >= RecentFrom
    BY DEF Within
  <2> QED BY <2>1, <2>2, <2>3, <2>4, <2>5, <2>6, <2>7
<1> QED BY <1>7, <1>9, <1>10 DEF IInv

LEMMA StepBinanceTrades == ASSUME IInv, BinanceTradesPage PROVE IInv'
<1> DEFINE asked == From(Fills(Sym), cursor)
           page == Oldest(asked)
<1>1. /\ UNCHANGED <<venue, rows, balance, heldNow, failed, filed, snapLen, ledger, transfers, stage>>
      /\ venue = "binance" /\ stage = "trades" /\ todo # {}
      /\ \/ /\ page = {} /\ trades' = trades /\ todo' = todo \ {Sym}
            /\ cursor' = IF venue = "binance" THEN TradesFrom ELSE Ticks
         \/ /\ page # {} /\ trades' = trades \o Ascending(page \ Fetched(trades))
            /\ cursor' = NextSince(page) /\ todo' = todo
  BY FirstCursors DEF BinanceTradesPage, NextSymbol, Kept, setting
<1>2. /\ HistoryInv /\ cursor \in Int
      /\ \A i \in Ids : TickOf(i) \in Int /\ i \in Int
  BY RowType DEF IInv, RunInv
<1>3. /\ asked \in SUBSET Fills(Sym) /\ Fills(Sym) \subseteq Ids /\ asked \in SUBSET Ids
      /\ page \in SUBSET asked /\ page \in SUBSET Ids
  BY <1>2, OldestPage DEF From, Fills
<1>4. \A i \in Fills(Sym) : i \in asked \/ Passed(i)
  BY <1>1, <1>2, <1>3 DEF From, Passed, TickOf
<1>5. CASE page = {}
  <2>1. asked = {}
    BY <1>2, <1>3, <1>5, OldestPage
  <2>2. \A i \in Fills(Sym) : Passed(i)
    BY <1>4, <2>1
  <2>3. failed' = {} /\ Sym \in Discovered => \A i \in Fills(Sym) : Within(i) => Has(i, trades)
    <3> SUFFICES ASSUME failed = {}, Sym \in Discovered, NEW i \in Fills(Sym), Within(i)
                 PROVE  Has(i, trades)
      BY <1>1
    <3> QED BY <1>1, <2>2 DEF IInv, TradesCover, Scanned, Fills
  <2> QED BY <1>1, <1>5, <2>3, SymbolScanned
<1>6. CASE page # {}
  <2>1. /\ LastTick(page) \in Int
        /\ \E i \in page : TickOf(i) = LastTick(page)
        /\ \A i \in page : TickOf(i) <= LastTick(page)
    BY <1>2, <1>3, <1>6, TickBounds
  <2>2. cursor' = LastTick(page) + 1
    BY <1>1, <1>6 DEF NextSince
  <2>3. \A i \in asked : TickOf(i) >= cursor
    BY DEF From, TickOf
  <2>4. \A i \in asked : ~Passed(i)
    BY <1>1, <1>2, <1>3, <2>3 DEF Passed
  <2>5. trades' = trades \o Ascending(page \ Fetched(trades)) /\ todo' = todo
    BY <1>1, <1>6
  <2> HIDE DEF page
  <2>6. cursor <= cursor'
    BY <1>2, <1>3, <2>1, <2>2, <2>3
  <2>7. \A i \in page : Passed(i)'
    BY <1>1, <1>2, <1>3, <2>1, <2>2 DEF Passed, TickOf
  <2>8. \A i \in Ids : Passed(i) => Passed(i)'
    BY <1>1, <1>2, <2>1, <2>2, <2>6 DEF Passed, TickOf
  <2>9. \A i \in asked \ page : Passed(i)' => LostInTie(i, page)
    <3> SUFFICES ASSUME NEW i \in asked \ page, TickOf(i) < cursor' PROVE LostInTie(i, page)
      BY <1>1 DEF Passed, TickOf
    <3>1. PICK p \in page : TickOf(p) = LastTick(page)
      BY <2>1
    <3>2. i \in Ids /\ p \in Ids /\ p < i
      BY <1>2, <1>3, OldestPage DEF page
    <3>3. TickOf(p) <= TickOf(i)
      BY <1>2, <3>2 DEF HistoryInv
    <3>4. TickOf(p) = TickOf(i)
      BY <1>2, <2>1, <2>2, <3>1, <3>2, <3>3
    <3> QED BY <3>4 DEF LostInTie
  <2> HIDE DEF asked
  <2>10. cursor' \in Int
    BY <2>1, <2>2
  <2> QED BY <1>1, <1>3, <1>4, <2>4, <2>5, <2>7, <2>8, <2>9, <2>10, TradesFetched
<1> QED BY <1>5, <1>6

LEMMA StepOkxRecent == ASSUME IInv, OkxRecentPage PROVE IInv'
<1> DEFINE asked == UpTo(RecentFills(Sym), cursor)
           page == Newest(asked)
<1>1. /\ UNCHANGED <<venue, rows, balance, heldNow, failed, filed, snapLen, ledger, transfers, stage>>
      /\ venue = "okx" /\ stage = "trades" /\ todo # {}
      /\ \/ /\ page \subseteq Fetched(trades) /\ trades' = trades /\ todo' = todo \ {Sym}
            /\ cursor' = IF venue = "binance" THEN TradesFrom ELSE Ticks
         \/ /\ ~(page \subseteq Fetched(trades))
            /\ trades' = trades \o Ascending(page \ Fetched(trades))
            /\ cursor' = BeforePage(page) /\ todo' = todo
  BY FirstCursors DEF OkxRecentPage, NextSymbol, Kept, setting
<1>2. /\ HistoryInv /\ cursor \in Int
      /\ \A i \in Ids : TickOf(i) \in Int /\ i \in Int
  BY RowType DEF IInv, RunInv
<1>3. /\ asked \in SUBSET Fills(Sym) /\ Fills(Sym) \subseteq Ids /\ asked \in SUBSET Ids
      /\ page \in SUBSET asked /\ page \in SUBSET Ids
  BY <1>2, NewestPage DEF UpTo, RecentFills, From, Fills
<1>4. /\ \A i \in asked : TickOf(i) >= RecentFrom /\ TickOf(i) <= cursor
      /\ \A i \in Fills(Sym) : i \in asked \/ Passed(i) \/ ~(TickOf(i) >= RecentFrom)
  BY <1>1, <1>2, <1>3 DEF UpTo, RecentFills, From, Passed, TickOf
<1>5. \A i \in asked : ~Passed(i)
  BY <1>1, <1>2, <1>3, <1>4 DEF Passed
\* A page of known fills is an empty one.
<1>6. page \subseteq Fetched(trades) => page = {}
  <2> SUFFICES ASSUME NEW i \in page, i \in Fetched(trades) PROVE FALSE
    OBVIOUS
  <2>1. rows[i].sym = Sym /\ Sym \in todo
    BY <1>1, <1>3, SymIsNext DEF Fills
  <2>2. Passed(i)
    BY <1>1, <2>1 DEF IInv, TradesInv
  <2> QED BY <1>3, <1>5, <2>2
<1>7. CASE page = {}
  <2>1. asked = {}
    BY <1>2, <1>3, <1>7, NewestPage
  <2>2. \A i \in Fills(Sym) : TickOf(i) >= RecentFrom => Passed(i)
    BY <1>4, <2>1
  <2>3. failed' = {} /\ Sym \in Discovered =>
           \A i \in Fills(Sym) : Within(i) => Has(i, trades)
    <3> SUFFICES ASSUME failed = {}, Sym \in Discovered, NEW i \in Fills(Sym), Within(i),
                        TickOf(i) >= RecentFrom
                 PROVE  Has(i, trades)
      BY <1>1 DEF Within
    <3> QED BY <1>1, <2>2 DEF IInv, TradesCover, Scanned, Fills
  <2> QED BY <1>1, <1>7, <2>3, SymbolScanned
<1>8. CASE page # {}
  <2>1. /\ FirstTick(page) \in Int
        /\ \E i \in page : TickOf(i) = FirstTick(page)
        /\ \A i \in page : FirstTick(page) <= TickOf(i)
    BY <1>2, <1>3, <1>8, TickBounds
  <2>2. cursor' = FirstTick(page) - 1
    BY <1>1, <1>6, <1>8 DEF BeforePage
  <2>3. trades' = trades \o Ascending(page \ Fetched(trades)) /\ todo' = todo
    BY <1>1, <1>6, <1>8
  <2> HIDE DEF page
  <2>4. cursor' <= cursor
    BY <1>2, <1>3, <1>4, <2>1, <2>2
  <2>5. \A i \in page : Passed(i)'
    BY <1>1, <1>2, <1>3, <2>1, <2>2 DEF Passed, TickOf
  <2>6. \A i \in Ids : Passed(i) => Passed(i)'
    BY <1>1, <1>2, <2>1, <2>2, <2>4 DEF Passed, TickOf
  <2>7. \A i \in asked \ page : Passed(i)' => LostInTie(i, page)
    <3> SUFFICES ASSUME NEW i \in asked \ page, TickOf(i) > cursor' PROVE LostInTie(i, page)
      BY <1>1 DEF Passed, TickOf
    <3>1. PICK p \in page : TickOf(p) = FirstTick(page)
      BY <2>1
    <3>2. i \in Ids /\ p \in Ids /\ i < p
      BY <1>2, <1>3, NewestPage DEF page
    <3>3. TickOf(i) <= TickOf(p)
      BY <1>2, <3>2 DEF HistoryInv
    <3>4. TickOf(p) = TickOf(i)
      BY <1>2, <2>1, <2>2, <3>1, <3>2, <3>3
    <3> QED BY <3>4 DEF LostInTie
  <2> HIDE DEF asked
  <2>8. cursor' \in Int
    BY <2>1, <2>2
  <2> QED BY <1>1, <1>3, <1>4, <1>5, <2>3, <2>5, <2>6, <2>7, <2>8, TradesFetched
<1> QED BY <1>7, <1>8

LEMMA StepOkxArchivePage == ASSUME IInv, OkxArchivePage PROVE IInv'
<1> DEFINE asked == {i \in ArchivedFills(Sym) : i < cursor}
           page == Newest(asked)
           fresh == page \ Fetched(trades)
<1>1. /\ UNCHANGED <<venue, rows, balance, heldNow, failed, filed, ledger, transfers, snapLen>>
      /\ stage = "fills" /\ stage' = stage /\ todo # {}
      /\ \/ /\ page = {} /\ trades' = trades /\ todo' = todo \ {Sym} /\ cursor' = MaxRows + 1
         \/ /\ page # {} /\ trades' = trades \o Descending(fresh)
            /\ cursor' = Min(page) /\ todo' = todo
  BY FirstCursors DEF OkxArchivePage, NextSymbol, Kept, setting, setting
<1>2. venue = "okx"
  BY <1>1 DEF IInv, RunInv, OkxOnly
<1>3. /\ HistoryInv /\ trades \in Seq(Ids) /\ Distinct(trades) /\ cursor \in Int /\ todo \subseteq Syms
      /\ \A i \in Ids : TickOf(i) \in Int /\ i \in Int
  BY RowType DEF IInv, RunInv
<1>4. /\ asked \in SUBSET Ids /\ page \in SUBSET asked /\ page \in SUBSET Ids /\ fresh \in SUBSET Ids
      /\ \A i \in asked : rows[i].kind = "fill" /\ ~(TickOf(i) >= RecentFrom)
      /\ \A i \in Ids : rows[i].kind = "fill" /\ rows[i].sym = Sym /\ TickOf(i) < RecentFrom
            => i \in asked \/ i >= cursor
  <2>1. /\ asked \in SUBSET Ids
        /\ \A i \in asked : rows[i].kind = "fill" /\ ~(TickOf(i) >= RecentFrom)
    BY DEF ArchivedFills, RecentFills, Fills, From, TickOf
  <2>2. page \in SUBSET asked
    BY <1>3, <2>1, NewestPage
  <2>3. ASSUME NEW i \in Ids, rows[i].kind = "fill", rows[i].sym = Sym, TickOf(i) < RecentFrom
        PROVE  i \in asked \/ i >= cursor
    <3>1. ~(TickOf(i) >= RecentFrom)
      BY <1>3, <2>3, BackfillAssumption
    <3>2. i \in ArchivedFills(Sym)
      BY <2>3, <3>1 DEF ArchivedFills, RecentFills, Fills, From, TickOf
    <3> QED BY <1>3, <3>2
  <2> QED BY <2>1, <2>2, <2>3
<1>5. CASE page = {}
  <2>1. asked = {}
    BY <1>3, <1>4, <1>5, NewestPage
  <2>2. todo' \subseteq Syms /\ cursor' \in Int
    BY <1>1, <1>3, <1>5, BackfillAssumption
  <2>3. /\ HistoryInv' /\ RunInv' /\ Ids' = Ids /\ Discovered' = Discovered
        /\ LedgerInv' /\ LedgerCovers' /\ OrderInv' /\ BalanceInv'
        /\ TransfersInv' /\ TransfersCover'
    BY <1>1, <1>2, <1>3, <1>5, <2>2, TradesStep
  <2>4. TradesInv'
    BY <1>1, <1>5 DEF IInv, TradesInv, BeforeTrades
  <2>5. TradesCover'
    <3> SUFFICES ASSUME failed = {}, NEW i \in Ids, rows[i].kind = "fill", rows[i].sym \in Discovered
                 PROVE  /\ Within(i) => Has(i, trades)'
                        /\ TickOf(i) < RecentFrom /\ LookedUp(i)' /\ rows[i].sym \in WithTrades
                              => i \in Fetched(trades)
      BY <1>1, <1>2, <1>5, <2>3 DEF TradesCover, Within, WithTrades, From, TickOf
    <3>1. Within(i) => Has(i, trades)
      BY <1>1 DEF IInv, TradesCover, Scanned
    <3>2. ASSUME TickOf(i) < RecentFrom, LookedUp(i)', rows[i].sym \in WithTrades
          PROVE  i \in Fetched(trades)
      <4>1. rows[i].sym \in todo' => i >= MaxRows + 1
        BY <1>1, <1>5, <3>2 DEF LookedUp, AfterFills
      <4>2. rows[i].sym \notin todo'
        BY <1>3, <4>1, RowType, BackfillAssumption DEF HistoryInv
      <4>3. LookedUp(i)
        BY <1>1, <1>4, <1>5, <2>1, <3>2, <4>2 DEF LookedUp
      <4> QED BY <1>2, <3>2, <4>3 DEF IInv, TradesCover
    <3> QED BY <1>1, <1>5, <3>1, <3>2 DEF Has, LostInTie, TickOf
  <2> QED BY <2>3, <2>4, <2>5 DEF IInv
<1>6. CASE page # {}
  <2>1. Min(page) \in page /\ \A p \in page : Min(page) <= p
    <3>1. IsFiniteSet(page) /\ page \subseteq Int
      BY <1>3, <1>4, RowType
    <3> QED BY <1>6, <3>1, LeastElement
  <2>2. cursor' = Min(page) /\ cursor' \in Int /\ todo' = todo
    BY <1>1, <1>3, <1>4, <1>6, <2>1
  <2>3. /\ trades' \in Seq(Ids) /\ Distinct(trades')
        /\ Fetched(trades') = Fetched(trades) \cup page
    <3>1. PICK list \in Seq(Ids) : list = Descending(fresh) /\ Fetched(list) = fresh /\ Distinct(list)
      <4> HIDE DEF fresh
      <4>1. /\ Descending(fresh) \in Seq(fresh) /\ Fetched(Descending(fresh)) = fresh
            /\ Distinct(Descending(fresh))
        BY <1>3, <1>4, DescendingList
      <4>2. Seq(fresh) \subseteq Seq(Ids)
        BY <1>4
      <4> QED BY <4>1, <4>2
    <3>2. Fetched(trades) \cap Fetched(list) = {}
      BY <3>1
    <3>3. /\ trades \o list \in Seq(Ids) /\ Distinct(trades \o list)
          /\ Fetched(trades \o list) = Fetched(trades) \cup Fetched(list)
      <4> HIDE DEF fresh
      <4> QED BY <1>3, <3>1, <3>2, AppendPage
    <3>4. trades' = trades \o list
      BY <1>1, <1>6, <3>1
    <3> QED BY <3>1, <3>3, <3>4
  <2>4. /\ HistoryInv' /\ RunInv' /\ Ids' = Ids /\ Discovered' = Discovered
        /\ LedgerInv' /\ LedgerCovers' /\ OrderInv' /\ BalanceInv'
        /\ TransfersInv' /\ TransfersCover'
    BY <1>1, <1>2, <1>3, <2>2, <2>3, TradesStep
  <2>5. \A i \in asked : i >= cursor' => i \in page
    <3> SUFFICES ASSUME NEW i \in asked, i \notin page, i >= cursor' PROVE FALSE
      OBVIOUS
    <3>1. i < Min(page)
      BY <1>3, <1>4, <2>1, NewestPage
    <3> QED BY <1>3, <1>4, <2>2, <3>1
  <2> HIDE DEF page
  <2>6. TradesInv'
    <3> SUFFICES ASSUME NEW i \in Fetched(trades) \cup page PROVE rows[i].kind = "fill"
      BY <1>1, <2>3 DEF TradesInv, BeforeTrades
    <3> QED BY <1>4 DEF IInv, TradesInv
  <2>7. WithTrades' = WithTrades
    <3>1. From(Fetched(trades), RecentFrom)' = From(Fetched(trades), RecentFrom)
      BY <1>1, <1>4, <2>3 DEF From, TickOf
    <3> QED BY <1>1, <3>1 DEF WithTrades
  <2>8. Sym' = Sym
    BY <2>2 DEF Sym
  <2>9. TradesCover'
    <3> SUFFICES ASSUME failed = {}, NEW i \in Ids, rows[i].kind = "fill", rows[i].sym \in Discovered
                 PROVE  /\ Within(i) => Has(i, trades)'
                        /\ TickOf(i) < RecentFrom /\ LookedUp(i)' /\ rows[i].sym \in WithTrades
                              => i \in Fetched(trades')
      BY <1>1, <1>2, <2>4, <2>7 DEF TradesCover, Within, TickOf
    <3>1. Within(i) => Has(i, trades)'
      <4>1. Within(i) => Has(i, trades)
        BY <1>1 DEF IInv, TradesCover, Scanned
      <4> QED BY <1>1, <2>3, <4>1 DEF Has, LostInTie, TickOf
    <3>2. ASSUME TickOf(i) < RecentFrom, LookedUp(i)', rows[i].sym \in WithTrades
          PROVE  i \in Fetched(trades')
      <4>1. CASE LookedUp(i)
        BY <1>2, <2>3, <3>2, <4>1 DEF IInv, TradesCover
      <4>2. CASE ~LookedUp(i)
        <5>1. rows[i].sym = Sym /\ i >= cursor' /\ ~(i >= cursor)
          BY <1>1, <2>2, <2>8, <3>2, <4>2 DEF LookedUp, AfterFills
        <5>2. i \in asked
          BY <1>4, <3>2, <5>1
        <5> QED BY <2>3, <2>5, <5>1, <5>2
      <4> QED BY <4>1, <4>2
    <3> QED BY <3>1, <3>2
  <2> QED BY <2>4, <2>6, <2>9 DEF IInv
<1> QED BY <1>5, <1>6

-----------------------------------------------------------------------------
(* The transfers *)

\* What a step of the transfers leaves alone.
LEMMA TransfersStep ==
    ASSUME IInv, stage \in {"deposits", "withdrawals", "save"}, failed \subseteq failed',
           failed' \cap {"balance", "start"} = failed \cap {"balance", "start"},
           UNCHANGED <<venue, rows, balance, heldNow, ledger, trades, filed, snapLen>>,
           transfers' \in Seq(Ids), Distinct(transfers'),
           stage' \in AfterFills, todo' \subseteq Syms, cursor' \in Int
    PROVE  /\ HistoryInv' /\ RunInv' /\ Ids' = Ids /\ Flows' = Flows /\ (Jammed <=> Jammed')
           /\ LedgerInv' /\ LedgerCovers' /\ OrderInv' /\ BalanceInv'
           /\ TradesInv' /\ TradesCover'
<1>1. HistoryInv' /\ Ids' = Ids /\ Flows' = Flows /\ (Jammed <=> Jammed')
  BY SameHistory DEF IInv
<1>2. RunInv'
  BY <1>1 DEF IInv, RunInv, OkxOnly, Syms, BeforeTrades, AfterFills, Distinct
<1>3. LedgerInv' /\ LedgerCovers' /\ OrderInv' /\ BalanceInv'
  BY LateLedger DEF BeforeTrades, AfterFills
<1>4. TradesInv' /\ TradesCover'
  BY LateTrades DEF AfterFills
<1> QED BY <1>1, <1>2, <1>3, <1>4

LEMMA StepTransfersPage == ASSUME IInv, TransfersPage PROVE IInv'
<1> DEFINE wanted == {i \in Flows : (rows[i].amount > 0) = (stage = "deposits")}
           asked == From(wanted, cursor)
           page == Oldest(asked)
           next == IF stage = "deposits" THEN "withdrawals" ELSE "save"
           last == page = {} \/ LastTick(page) <= cursor
<1>1. /\ UNCHANGED <<venue, rows, balance, heldNow, failed, filed, snapLen, ledger, trades>>
      /\ stage \in {"deposits", "withdrawals"}
      /\ transfers' = transfers \o Ascending(page)
      /\ \/ last /\ stage' = next /\ todo' = {} /\ cursor' = FirstCursor(next)
         \/ ~last /\ stage' = stage /\ todo' = todo /\ cursor' = NextSince(page)
  BY DEF TransfersPage, Enter, Kept, setting
<1>2. /\ HistoryInv /\ cursor \in Int /\ transfers \in Seq(Ids) /\ Distinct(transfers)
      /\ todo \subseteq Syms
      /\ \A i \in Ids : TickOf(i) \in 1 .. Ticks /\ TickOf(i) \in Int /\ rows[i].amount \in Int
  BY RowType DEF IInv, RunInv
<1>3. /\ Flows \subseteq Ids /\ asked \in SUBSET wanted /\ asked \in SUBSET Ids
      /\ page \in SUBSET asked /\ page \in SUBSET Ids
  BY <1>2, OldestPage DEF From, Flows
<1>4. \A i \in wanted : /\ i \in Flows /\ i \in Ids /\ rows[i].kind = "flow"
                        /\ rows[i].amount > 0 <=> stage = "deposits"
                        /\ i \in asked <=> TickOf(i) >= cursor
  BY <1>3 DEF From, TickOf, Flows
<1>5. \A i \in Flows : (rows[i].amount > 0 <=> stage = "deposits") => i \in wanted
  OBVIOUS
<1>6. /\ \A i \in Fetched(transfers) : i \in Ids /\ rows[i].kind = "flow"
      /\ \A i \in Fetched(transfers) : ~(i \in page)
      /\ \A i \in Fetched(transfers) : rows[i].amount > 0 \/ TickOf(i) < cursor
      /\ stage = "deposits" => \A i \in Fetched(transfers) : rows[i].amount > 0
  <2>1. \A i \in Fetched(transfers) : i \in Ids /\ rows[i].kind = "flow"
    BY <1>2 DEF IInv, TransfersInv, Fetched, ToSet
  <2>2. /\ \A i \in Fetched(transfers) : rows[i].amount > 0 \/ TickOf(i) < cursor
        /\ stage = "deposits" => \A i \in Fetched(transfers) : rows[i].amount > 0
    BY <1>1 DEF IInv, TransfersInv
  <2>3. ASSUME NEW i \in Fetched(transfers), i \in page PROVE FALSE
    <3>1. TickOf(i) >= cursor /\ TickOf(i) \in Int /\ (rows[i].amount > 0 <=> stage = "deposits")
      BY <1>2, <1>3, <1>4, <2>3
    <3>2. TickOf(i) < cursor
      BY <1>1, <2>2, <2>3, <3>1 DEF IInv, TransfersInv
    <3> QED BY <1>2, <3>1, <3>2
  <2> QED BY <2>1, <2>2, <2>3
<1>7. \A i \in asked \ page, p \in page : TickOf(p) <= TickOf(i)
  <2> SUFFICES ASSUME NEW i \in asked \ page, NEW p \in page PROVE TickOf(p) <= TickOf(i)
    OBVIOUS
  <2>1. p < i /\ p \in Ids /\ i \in Ids
    BY <1>2, <1>3, OldestPage
  <2> QED BY <1>2, <2>1 DEF HistoryInv
<1>8. page = {} => asked = {}
  BY <1>2, <1>3, OldestPage
\* A page that ends the walk before its end is full, and of one millisecond.
<1>9. last /\ asked # page => Jammed
  <2> SUFFICES ASSUME last, asked # page PROVE Jammed
    OBVIOUS
  <2>1. page # {} /\ LastTick(page) <= cursor
    BY <1>8
  <2>2. Cardinality(page) >= Limit
    BY <1>2, <1>3, OldestPage
  <2> HIDE DEF page
  <2>3. LastTick(page) \in 1 .. Ticks /\ \A i \in page : TickOf(i) <= LastTick(page)
    BY <1>2, <1>3, <2>1, TickBounds
  <2>4. \A i \in page : TickOf(i) = cursor
    <3> SUFFICES ASSUME NEW i \in page PROVE TickOf(i) = cursor
      OBVIOUS
    <3>1. TickOf(i) >= cursor /\ TickOf(i) \in Int /\ TickOf(i) <= LastTick(page)
      BY <1>2, <1>3, <1>4, <2>3
    <3> QED BY <1>2, <2>1, <2>3, <3>1
  <2>5. cursor \in 1 .. Ticks
    BY <1>2, <1>3, <2>1, <2>4
  <2> DEFINE tied == {i \in Flows : TickOf(i) = cursor}
  <2>6. page \in SUBSET tied /\ tied \in SUBSET Ids
    BY <1>3, <1>4, <2>4
  <2>7. IsFiniteSet(tied) /\ Cardinality(tied) \in Nat /\ Cardinality(page) \in Nat
    BY <1>2, <1>3, <2>6, RowType
  <2>8. Cardinality(page) <= Cardinality(tied)
    BY <2>6, <2>7, FS_Subset
  <2>9. Cardinality(tied) >= Limit
    <3> HIDE DEF tied
    <3> QED BY <2>2, <2>7, <2>8, BackfillAssumption
  <2> QED BY <2>5, <2>9 DEF Jammed
<1>10. /\ transfers' \in Seq(Ids) /\ Distinct(transfers')
       /\ Fetched(transfers') = Fetched(transfers) \cup page
  <2> HIDE DEF page
  <2>1. PICK list \in Seq(Ids) : list = Ascending(page)
    BY <1>2, <1>3, AscendingList
  <2>2. Fetched(list) = page /\ Distinct(list)
    BY <1>2, <1>3, <2>1, AscendingList
  <2>3. Fetched(transfers) \cap Fetched(list) = {}
    BY <1>6, <2>2
  <2>4. /\ transfers \o list \in Seq(Ids) /\ Distinct(transfers \o list)
        /\ Fetched(transfers \o list) = Fetched(transfers) \cup Fetched(list)
    BY <1>2, <2>2, <2>3, AppendPage
  <2> QED BY <1>1, <2>1, <2>2, <2>4
<1>11. CASE last /\ stage' = next /\ todo' = {} /\ cursor' = FirstCursor(next)
  <2>1. /\ stage' = IF stage = "deposits" THEN "withdrawals" ELSE "save"
        /\ cursor' \in Int /\ (stage = "deposits" => cursor' = FlowsFrom) /\ stage' \in AfterFills
    BY <1>1, <1>11, FirstCursors, BackfillAssumption DEF AfterFills
  <2>2. /\ HistoryInv' /\ RunInv' /\ Ids' = Ids /\ Flows' = Flows /\ (Jammed <=> Jammed')
        /\ LedgerInv' /\ LedgerCovers' /\ OrderInv' /\ BalanceInv'
        /\ TradesInv' /\ TradesCover'
    BY <1>1, <1>10, <1>11, <2>1, TransfersStep
  <2>3. TransfersInv'
    <3> SUFFICES ASSUME NEW i \in Fetched(transfers) \cup page
                 PROVE  rows[i].kind = "flow" /\ (stage' = "withdrawals" => rows[i].amount > 0)
      BY <1>1, <1>10, <2>1 DEF TransfersInv, AfterFills, BeforeTrades, TickOf
    <3>1. CASE i \in page
      BY <1>1, <1>3, <1>4, <2>1, <3>1
    <3>2. CASE i \in Fetched(transfers)
      BY <1>1, <1>6, <2>1, <3>2
    <3> QED BY <3>1, <3>2
  <2>4. TransfersCover'
    <3> SUFFICES ASSUME failed = {}, NEW i \in Flows, Walked(i)', TickOf(i) >= FlowsFrom
                 PROVE  Has(i, transfers)' \/ Jammed
      BY <1>1, <2>2 DEF TransfersCover, TickOf
    <3>1. TickOf(i) \in 1 .. Ticks /\ rows[i].amount \in Int
      BY <1>2, <1>3
    <3>2. Walked(i) => Has(i, transfers) \/ Jammed
      BY DEF IInv, TransfersCover
    <3>3. Has(i, transfers) => Has(i, transfers)'
      BY <1>1, <1>10 DEF Has, LostInTie, TickOf
    <3>4. CASE i \in wanted
      <4>1. CASE TickOf(i) < cursor
        <5>1. Walked(i)
          BY <1>1, <1>4, <3>4, <4>1 DEF Walked
        <5> QED BY <3>2, <3>3, <5>1
      <4>2. CASE i \in page
        BY <1>10, <4>2 DEF Has
      <4>3. CASE i \in asked /\ i \notin page
        BY <1>9, <1>11, <4>3
      <4> QED BY <1>2, <1>4, <3>1, <3>4, <4>1, <4>2, <4>3
    <3>5. CASE i \notin wanted
      <4>1. ~(rows[i].amount > 0 <=> stage = "deposits")
        BY <3>5
      <4>2. Walked(i)
        BY <1>1, <2>1, <3>1, <4>1 DEF Walked, TickOf
      <4> QED BY <3>2, <3>3, <4>2
    <3> QED BY <3>4, <3>5
  <2> QED BY <2>2, <2>3, <2>4 DEF IInv
<1>12. CASE ~last /\ stage' = stage /\ todo' = todo /\ cursor' = NextSince(page)
  <2>1. page # {} /\ ~(LastTick(page) <= cursor) /\ cursor' = LastTick(page) + 1
    BY <1>12 DEF NextSince
  <2>2. /\ LastTick(page) \in Int
        /\ \E i \in page : TickOf(i) = LastTick(page)
        /\ \A i \in page : TickOf(i) <= LastTick(page)
    <3> HIDE DEF page
    <3> QED BY <1>2, <1>3, <2>1, TickBounds
  <2>3. cursor' \in Int /\ cursor < cursor' /\ stage' \in AfterFills
    <3> HIDE DEF page
    <3> QED BY <1>1, <1>2, <1>12, <2>1, <2>2 DEF AfterFills
  <2>4. /\ HistoryInv' /\ RunInv' /\ Ids' = Ids /\ Flows' = Flows /\ (Jammed <=> Jammed')
        /\ LedgerInv' /\ LedgerCovers' /\ OrderInv' /\ BalanceInv'
        /\ TradesInv' /\ TradesCover'
    BY <1>1, <1>2, <1>10, <1>12, <2>3, TransfersStep
  <2> HIDE DEF page
  <2>5. TransfersInv'
    <3> SUFFICES ASSUME NEW i \in Fetched(transfers) \cup page
                 PROVE  /\ rows[i].kind = "flow"
                        /\ stage = "deposits" => rows[i].amount > 0 /\ TickOf(i) < cursor'
                        /\ stage = "withdrawals" => rows[i].amount > 0 \/ TickOf(i) < cursor'
      BY <1>1, <1>10, <1>12 DEF TransfersInv, AfterFills, BeforeTrades, TickOf
    <3>1. CASE i \in page
      <4>1. TickOf(i) < cursor'
        BY <1>2, <1>3, <2>1, <2>2, <3>1
      <4> QED BY <1>3, <1>4, <3>1, <4>1
    <3>2. CASE i \in Fetched(transfers)
      <4>1. TickOf(i) \in Int /\ (TickOf(i) < cursor => TickOf(i) < cursor')
        BY <1>2, <1>6, <2>3, <3>2
      <4> QED BY <1>1, <1>6, <3>2, <4>1 DEF IInv, TransfersInv
    <3> QED BY <3>1, <3>2
  <2>6. TransfersCover'
    <3> SUFFICES ASSUME failed = {}, NEW i \in Flows, Walked(i)', TickOf(i) >= FlowsFrom
                 PROVE  Has(i, transfers)' \/ Jammed
      BY <1>1, <2>4 DEF TransfersCover, TickOf
    <3>1. TickOf(i) \in 1 .. Ticks /\ rows[i].amount \in Int
      BY <1>2, <1>3
    <3>2. Walked(i) => Has(i, transfers) \/ Jammed
      BY DEF IInv, TransfersCover
    <3>3. Has(i, transfers) => Has(i, transfers)'
      BY <1>1, <1>10 DEF Has, LostInTie, TickOf
    <3>4. CASE i \in wanted
      <4>1. TickOf(i) < cursor'
        BY <1>1, <1>4, <1>12, <3>4 DEF Walked, TickOf
      <4>2. CASE TickOf(i) < cursor
        <5>1. Walked(i)
          BY <1>1, <1>4, <3>4, <4>2 DEF Walked
        <5> QED BY <3>2, <3>3, <5>1
      <4>3. CASE i \in page
        BY <1>10, <4>3 DEF Has
      <4>4. CASE i \in asked /\ i \notin page
        <5>1. PICK p \in page : TickOf(p) = LastTick(page)
          BY <2>2
        <5>2. TickOf(p) <= TickOf(i)
          BY <1>7, <4>4, <5>1
        <5>3. TickOf(i) = TickOf(p)
          BY <2>1, <2>2, <3>1, <4>1, <5>1, <5>2
        <5> QED BY <1>1, <1>10, <5>1, <5>3 DEF Has, LostInTie, TickOf
      <4> QED BY <1>2, <1>4, <3>1, <3>4, <4>2, <4>3, <4>4
    <3>5. CASE i \notin wanted
      <4>1. ~(rows[i].amount > 0 <=> stage = "deposits")
        BY <3>5
      <4>2. Walked(i)
        BY <1>1, <1>12, <3>1, <4>1 DEF Walked, TickOf
      <4> QED BY <3>2, <3>3, <4>2
    <3> QED BY <3>4, <3>5
  <2> QED BY <2>4, <2>5, <2>6 DEF IInv
<1> QED BY <1>1, <1>11, <1>12

-----------------------------------------------------------------------------
(* The run *)

\* A failing call ends the loop around it, and nothing else.
LEMMA StepCallFails == ASSUME IInv, CallFails PROVE IInv'
<1>1. /\ UNCHANGED <<venue, rows, balance, heldNow, filed, snapLen, ledger, trades, transfers>>
      /\ failed' = failed \cup {stage} /\ failed' # {}
  BY DEF CallFails, Break, files, setting
<1>2. \/ /\ stage = "ledger" /\ venue = "okx"
         /\ stage' = "archive" /\ todo' = {} /\ cursor' = MaxRows + 1
      \/ /\ stage = "ledger" /\ venue = "binance"
         /\ stage' = "trades" /\ todo' = Syms /\ cursor' = TradesFrom
      \/ /\ stage = "archive"
         /\ stage' = "history" /\ todo' = {} /\ cursor' = 1
      \/ /\ stage = "trades" /\ todo # {} /\ stage' = "trades" /\ todo' = todo \ {Sym}
         /\ cursor' = IF venue = "binance" THEN TradesFrom ELSE Ticks
      \/ /\ stage = "fills" /\ todo # {} /\ stage' = "fills" /\ todo' = todo \ {Sym}
         /\ cursor' = MaxRows + 1
      \/ /\ stage = "deposits" /\ stage' = "withdrawals" /\ todo' = {} /\ cursor' = FlowsFrom
      \/ /\ stage = "withdrawals" /\ stage' = "save" /\ todo' = {} /\ cursor' = MaxRows + 1
  BY FirstCursors DEF CallFails, Break, Enter, IInv, RunInv
<1>3. CASE stage \in {"ledger", "archive"}
  <2>1. stage = "archive" => venue = "okx"
    BY DEF IInv, RunInv, OkxOnly
  <2> QED BY <1>1, <1>2, <1>3, <2>1, StepLedgerFails
<1>4. CASE stage = "trades"
  BY <1>1, <1>2, <1>4, SymbolScanned
<1>6. CASE stage = "fills"
  <2>1. /\ trades' \in Seq(Ids) /\ Distinct(trades') /\ todo' \subseteq Syms /\ cursor' \in Int
        /\ stage' = "fills" /\ venue = "okx"
    BY <1>1, <1>2, <1>6, BackfillAssumption DEF IInv, RunInv, OkxOnly
  <2>2. /\ HistoryInv' /\ RunInv' /\ LedgerInv' /\ OrderInv' /\ BalanceInv' /\ TransfersInv'
    BY <1>1, <1>6, <2>1, TradesStep
  <2>3. LedgerCovers' /\ TradesCover' /\ TransfersCover'
    BY <1>1, NothingCovered
  <2>4. TradesInv'
    BY <1>1, <1>6, <2>1 DEF IInv, TradesInv, BeforeTrades
  <2> QED BY <2>2, <2>3, <2>4 DEF IInv
<1>5. CASE stage \in {"deposits", "withdrawals"}
  <2>1. /\ transfers' \in Seq(Ids) /\ Distinct(transfers') /\ todo' \subseteq Syms /\ cursor' \in Int
        /\ stage' \in AfterFills /\ todo' = {} /\ (stage' = "withdrawals" <=> stage = "deposits")
    BY <1>1, <1>2, <1>5, BackfillAssumption DEF IInv, RunInv, AfterFills
  <2>2. /\ HistoryInv' /\ RunInv' /\ LedgerInv' /\ OrderInv' /\ BalanceInv' /\ TradesInv'
    BY <1>1, <1>5, <2>1, TransfersStep
  <2>3. LedgerCovers' /\ TradesCover' /\ TransfersCover'
    BY <1>1, NothingCovered
  <2>4. TransfersInv'
    BY <1>1, <1>2, <1>5, <2>1 DEF IInv, TransfersInv, BeforeTrades, AfterFills, TickOf
  <2> QED BY <2>2, <2>3, <2>4 DEF IInv
<1> QED BY <1>2, <1>3, <1>4, <1>5, <1>6

LEMMA StepSaveCurve == ASSUME IInv, SaveCurve PROVE IInv'
<1>1. /\ UNCHANGED <<venue, rows, balance, heldNow, snapLen, failed, filed, ledger, trades, transfers,
                     todo, cursor>>
      /\ stage = "save" /\ stage' = "done"
  BY DEF SaveCurve, Kept, setting
<1>2. transfers' \in Seq(Ids) /\ Distinct(transfers') /\ todo' \subseteq Syms /\ cursor' \in Int
  BY <1>1 DEF IInv, RunInv
<1>3. /\ HistoryInv' /\ RunInv' /\ Flows' = Flows /\ (Jammed <=> Jammed')
      /\ LedgerInv' /\ LedgerCovers' /\ OrderInv' /\ BalanceInv'
      /\ TradesInv' /\ TradesCover'
  BY <1>1, <1>2, TransfersStep DEF AfterFills
<1>4. TransfersInv'
  BY <1>1 DEF IInv, TransfersInv, BeforeTrades
<1>5. TransfersCover'
  <2> SUFFICES ASSUME failed = {}, NEW i \in Flows, TickOf(i) >= FlowsFrom
               PROVE  Has(i, transfers)' \/ Jammed
    BY <1>1, <1>3 DEF TransfersCover, TickOf
  <2>1. Has(i, transfers) \/ Jammed
    BY <1>1 DEF IInv, TransfersCover, Walked
  <2> QED BY <1>1, <2>1 DEF Has, LostInTie, TickOf
<1> QED BY <1>3, <1>4, <1>5 DEF IInv

LEMMA StepNothing == ASSUME IInv, UNCHANGED bvars PROVE IInv'
<1>1. /\ UNCHANGED <<venue, rows, balance, heldNow, snapLen, failed, filed, ledger, trades, transfers,
                     todo, cursor, stage>>
  BY DEF bvars, fetchState, files, setting
<1>2. /\ HistoryInv' /\ Ids' = Ids /\ Flows' = Flows /\ (Jammed <=> Jammed')
      /\ Amount(Ids)' = Amount(Ids) /\ Discovered' = Discovered /\ WithTrades' = WithTrades
  BY <1>1, SameHistory, SameAmount
     DEF IInv, Discovered, WithTrades, Newest, RecentFills, Fills, From, Syms
<1>3. RunInv' /\ LedgerInv' /\ OrderInv' /\ BalanceInv'
  BY <1>1, <1>2 DEF IInv, RunInv, LedgerInv, OrderInv, BalanceInv, Calm, Syms, Distinct, TickOf,
                    PagedIsNewest, BillsServed, From
<1>4. LedgerCovers'
  BY <1>1, <1>2 DEF IInv, LedgerCovers, BillsRead, FileRead, Has, LostInTie, TickOf
<1>5. Sym' = Sym
  BY <1>1 DEF Sym
<1>6. TradesInv' /\ TransfersInv'
  BY <1>1, <1>5 DEF IInv, TradesInv, TransfersInv, Passed, TickOf
<1>7. TradesCover'
  BY <1>1, <1>2, <1>5 DEF IInv, TradesCover, Has, LostInTie, TickOf, Scanned, Passed, Within, LookedUp
<1>8. TransfersCover'
  BY <1>1, <1>2 DEF IInv, TransfersCover, Has, LostInTie, TickOf, Walked
<1> QED BY <1>2, <1>3, <1>4, <1>6, <1>7, <1>8 DEF IInv

\* Every history of the initial states is one the invariant speaks of.
LEMMA FirstHistory == ASSUME BackfillInit PROVE HistoryInv
<1>1. rows \in SeqOf(PossibleRows, MaxRows) /\ InOrder(rows)
  BY DEF BackfillInit, Histories
<1>2. \A r \in PossibleRows :
         /\ r \in Row /\ r.tick \in 1 .. Ticks
         /\ r.kind = "fill" => r.sym \in Syms
  <2> SUFFICES ASSUME NEW t \in 1 .. Ticks, NEW k \in RowKinds
               PROVE  /\ RowAt(t, k) \in Row /\ RowAt(t, k).tick \in 1 .. Ticks
                      /\ RowAt(t, k).kind = "fill" => RowAt(t, k).sym \in Syms
    BY DEF PossibleRows
  <2>1. RowAt(t, k) = [tick |-> t, kind |-> k.kind, sym |-> k.sym, amount |-> k.amount]
    BY DEF RowAt
  <2>2. k.kind \in {"fill", "flow"} /\ k.amount \in Int /\ k.sym \in {x.sym : x \in RowKinds}
        /\ (k.kind = "fill" => k.sym # "none")
    BY BackfillAssumption
  <2> QED BY <2>1, <2>2 DEF Row, Syms
<1>3. PICK m \in 0 .. MaxRows : rows \in [1 .. m -> PossibleRows]
  BY <1>1 DEF SeqOf
<1>4. m \in Nat /\ m <= MaxRows /\ rows \in Seq(PossibleRows) /\ Len(rows) = m
  BY <1>3, BackfillAssumption
<1>5. Ids = 1 .. m /\ \A i \in Ids : rows[i] \in PossibleRows
  BY <1>3, <1>4 DEF Ids
<1>6. rows \in Seq(Row)
  BY <1>2, <1>3, <1>4
<1>7. \A i, j \in Ids : i < j => TickOf(i) <= TickOf(j)
  <2> SUFFICES ASSUME NEW i \in Ids, NEW j \in Ids, i < j PROVE rows[i].tick <= rows[j].tick
    BY DEF TickOf
  <2> DEFINE S == {n \in Nat : i + n <= m => rows[i].tick <= rows[i + n].tick}
  <2>1. 0 \in S
    <3>1. rows[i].tick \in 1 .. Ticks /\ i \in Int
      BY <1>2, <1>4, <1>5
    <3> QED BY <3>1
  <2>2. \A n \in Nat : n \in S => n + 1 \in S
    <3> SUFFICES ASSUME NEW n \in Nat, n \in S, i + (n + 1) <= m
                 PROVE  rows[i].tick <= rows[i + (n + 1)].tick
      OBVIOUS
    <3>1. i + n \in Ids /\ i + (n + 1) \in Ids /\ i + n < m /\ (i + n) + 1 = i + (n + 1) /\ i \in Ids
      BY <1>4, <1>5
    <3>2. rows[i].tick <= rows[i + n].tick
      BY <1>4, <1>5, <3>1
    <3>3. rows[i + n].tick <= rows[(i + n) + 1].tick
      BY <1>1, <1>4, <1>5, <3>1 DEF InOrder
    <3>4. rows[i].tick \in Int /\ rows[i + n].tick \in Int /\ rows[i + (n + 1)].tick \in Int
      BY <1>2, <1>5, <3>1
    <3> QED BY <3>1, <3>2, <3>3, <3>4
  <2> HIDE DEF S
  <2>3. \A n \in Nat : n \in S
    BY <2>1, <2>2, NatSetInduction
  <2>4. j - i \in Nat /\ i + (j - i) = j /\ j <= m
    BY <1>4, <1>5
  <2> QED BY <2>3, <2>4 DEF S
<1>8. \A i \in Ids : rows[i].kind = "fill" => rows[i].sym \in Syms
  BY <1>2, <1>5
<1> QED BY <1>4, <1>6, <1>7, <1>8 DEF HistoryInv

THEOREM BackfillInvariant == BackfillSpec => []IInv
<1>1. BackfillInit => IInv
  <2> SUFFICES ASSUME BackfillInit PROVE IInv
    OBVIOUS
  <2>1. HistoryInv
    BY FirstHistory
  <2>2. /\ stage = "start" /\ todo = {} /\ cursor = 0 /\ balance = 0 /\ failed = {} /\ filed = {} /\ snapLen = 0
        /\ ledger = <<>> /\ trades = <<>> /\ transfers = <<>> /\ venue \in {"binance", "okx"}
    BY DEF BackfillInit
  <2>3. Fetched(ledger) = {} /\ Fetched(trades) = {} /\ Fetched(transfers) = {}
    BY <2>2 DEF Fetched, ToSet
  <2>4. RunInv
    BY <2>1, <2>2, RowType DEF RunInv, BeforeTrades, OkxOnly, Distinct
  <2>5. LedgerInv /\ TradesInv /\ TransfersInv
    BY <2>2, <2>3 DEF LedgerInv, TradesInv, TransfersInv, BeforeTrades
  <2>6. LedgerCovers /\ TradesCover /\ TransfersCover
    BY <2>2 DEF LedgerCovers, BillsRead, FileRead, TradesCover, TransfersCover, BeforeTrades, Scanned,
                LookedUp, Walked, AfterFills
  <2>7. OrderInv /\ BalanceInv
    BY <2>2, <2>3 DEF OrderInv, PagedIsNewest, BalanceInv
  <2> QED BY <2>1, <2>4, <2>5, <2>6, <2>7 DEF IInv
<1>2. IInv /\ [BackfillNext]_bvars => IInv'
  BY StepBookRow, StepNoCredentials, StepFetchBalance, StepIncomePage, StepBillsPage,
     StepQuarterFile, StepQuartersEnd, StepSkipSymbol, StepScanEnds, StepBinanceTrades, StepOkxRecent,
     StepOkxArchivePage, StepTransfersPage, StepRetry, StepCallFails, StepSaveCurve, StepNothing
     DEF BackfillNext, Walk, Timeout, RateLimited
<1> QED BY <1>1, <1>2, PTL DEF BackfillSpec

\* Whatever the account's history, the page size, the page cap, the retention
\* limits and the quarters on file: no pager returns a row twice, and a run
\* that met no error, no cap and no unfinished file lost only the rows named
\* in BeyondLedger, BeyondTrades and BeyondTransfers
\* (fetch_binance_income_ledger, fetch_okx_bills_ledger,
\* fetch_all_trades_binance, fetch_all_trades_okx, fetch_all_transfers).
THEOREM OnlyKnownLosses == BackfillSpec => []OnlyKnownRowsAreLost
<1>1. IInv => OnlyKnownRowsAreLost
  <2> SUFFICES ASSUME IInv PROVE OnlyKnownRowsAreLost
    OBVIOUS
  <2>1. Once(ledger) /\ Once(trades) /\ Once(transfers)
    BY DistinctIsOnce DEF IInv, RunInv
  <2>2. \A i \in 1 .. snapLen : i \in Ids /\ TickOf(i) \in Int
    <3>1. snapLen \in 0 .. Len(rows) /\ Len(rows) \in Nat /\ Ids = 1 .. Len(rows)
      BY RowType DEF IInv, RunInv
    <3>2. \A i \in Ids : TickOf(i) \in Int
      BY RowType DEF IInv
    <3> QED BY <3>1, <3>2
  <2>3. ASSUME stage = "done", failed = {}, NEW i \in 1 .. snapLen, i \notin Fetched(ledger)
        PROVE  BeyondLedger(i)
    <3>1. CASE venue = "binance"
      BY <2>3, <3>1 DEF IInv, LedgerCovers, BeyondLedger, Has
    <3>2. CASE venue = "okx"
      <4>1. ~(TickOf(i) >= ArchiveFrom) /\ \A q \in DOMAIN Quarters : ~(TickOf(i) \in Quarters[q])
        BY <2>3, <3>2 DEF IInv, LedgerCovers, BillsRead, FileRead
      <4> QED BY <2>2, <3>2, <4>1, BackfillAssumption DEF BeyondLedger
    <3> QED BY <3>1, <3>2 DEF IInv, RunInv
  <2>4. ASSUME stage = "done", failed = {}, NEW i \in 1 .. snapLen, i \notin Fetched(trades),
               rows[i].kind = "fill", rows[i].sym \in Discovered,
               ~(venue = "okx" /\ rows[i].sym \notin WithTrades),
               ~(venue = "binance" /\ TickOf(i) < TradesFrom)
        PROVE  LostInTie(i, Fetched(trades))
    <3>1. i \in Ids /\ TickOf(i) \in Int
      BY <2>2
    <3>2. ~(venue = "okx" /\ TickOf(i) < RecentFrom)
      BY <2>4, <3>1 DEF IInv, TradesCover, LookedUp, AfterFills
    <3>3. Within(i)
      BY <2>4, <3>1, <3>2, BackfillAssumption DEF Within, IInv, RunInv
    <3> QED BY <2>4, <3>1, <3>3 DEF IInv, TradesCover, Scanned, AfterFills, Has
  <2>5. ASSUME stage = "done", failed = {}, NEW i \in 1 .. snapLen, i \notin Fetched(transfers),
               rows[i].kind = "flow", ~(TickOf(i) < FlowsFrom)
        PROVE  LostInTie(i, Fetched(transfers)) \/ Jammed
    <3>1. TickOf(i) >= FlowsFrom
      BY <2>2, <2>5, BackfillAssumption
    <3> QED BY <2>2, <2>5, <3>1 DEF IInv, TransfersCover, Walked, Flows, Has
  <2> QED BY <2>1, <2>3, <2>4, <2>5
          DEF OnlyKnownRowsAreLost, BeyondTrades, BeyondTransfers
<1> QED BY <1>1, BackfillInvariant, PTL

-----------------------------------------------------------------------------
(* The curve *)

LEMMA DayMonotone ==
    ASSUME NEW t \in Int, NEW u \in Int, t <= u
    PROVE  Day(t) \in Int /\ Day(u) \in Int /\ Day(t) <= Day(u)
<1> DEFINE n == TicksPerDay
           p == (t - 1) \div n
           q == (u - 1) \div n
<1>1. n \in Nat \ {0}
  BY BackfillAssumption
<1>2. p \in Int /\ q \in Int
  BY <1>1
<1>3. PICK r \in 0 .. (n - 1) : t - 1 = n * p + r
  BY <1>1
<1>4. PICK s \in 0 .. (n - 1) : u - 1 = n * q + s
  BY <1>1
<1> HIDE DEF n, p, q
<1>5. ASSUME q < p PROVE FALSE
  <2>1. n * (q + 1) <= n * p
    BY <1>1, <1>2, <1>5
  <2>2. n * (q + 1) = n * q + n
    BY <1>1, <1>2
  <2>3. n * q \in Int /\ n * p \in Int
    BY <1>1, <1>2
  <2> QED BY <1>1, <1>3, <1>4, <2>1, <2>2, <2>3
<1> QED BY <1>2, <1>5 DEF p, q, n, Day

\* The rows up to the end of day d.
Until(d) == {i \in Ids : Day(TickOf(i)) <= d}

LEMMA RowDays ==
    ASSUME HistoryInv
    PROVE  /\ Today \in Int
           /\ \A i \in Ids : Day(TickOf(i)) \in Int /\ Day(TickOf(i)) \in Day(1) .. Today
           /\ \A i, j \in Ids : i <= j => TickOf(i) <= TickOf(j) /\ Day(TickOf(i)) <= Day(TickOf(j))
           /\ \A i, j \in Ids : TickOf(i) <= TickOf(j) => Day(TickOf(i)) <= Day(TickOf(j))
<1>1. \A i \in Ids : TickOf(i) \in 1 .. Ticks /\ TickOf(i) \in Int /\ i \in Int
  BY RowType
<1>2. Ticks \in Int /\ 1 <= Ticks
  BY BackfillAssumption
<1>3. Today \in Int /\ Day(1) \in Int
  BY <1>2, DayMonotone DEF Today
<1>4. ASSUME NEW i \in Ids
      PROVE  Day(TickOf(i)) \in Int /\ Day(1) <= Day(TickOf(i)) /\ Day(TickOf(i)) <= Today
  BY <1>1, <1>2, DayMonotone DEF Today
<1>5. \A i, j \in Ids : TickOf(i) <= TickOf(j) => Day(TickOf(i)) <= Day(TickOf(j))
  BY <1>1, DayMonotone
<1>6. \A i, j \in Ids : i <= j => TickOf(i) <= TickOf(j)
  <2> SUFFICES ASSUME NEW i \in Ids, NEW j \in Ids, i <= j PROVE TickOf(i) <= TickOf(j)
    OBVIOUS
  <2>1. CASE i = j
    BY <1>1, <2>1
  <2>2. CASE i < j
    BY <2>2 DEF HistoryInv
  <2> QED BY <1>1, <2>1, <2>2
<1> QED BY <1>3, <1>4, <1>5, <1>6

\* The days of a set of rows have a first and a last one.
LEMMA DaysOf ==
    ASSUME HistoryInv, NEW S \in SUBSET Ids, S # {}
    PROVE  /\ LET first == FirstDay(S)
              IN  /\ first \in Int /\ \A i \in S : first <= Day(TickOf(i))
                  /\ \E i \in S : Day(TickOf(i)) = first
           /\ LET last == Max({Day(TickOf(i)) : i \in S})
              IN  /\ last \in Int /\ \A i \in S : Day(TickOf(i)) <= last
                  /\ \E i \in S : Day(TickOf(i)) = last
<1> DEFINE days == {Day(TickOf(i)) : i \in S}
<1>1. days \subseteq Day(1) .. Today /\ days \subseteq Int /\ days # {} /\ Today \in Int /\ Day(1) \in Int
  BY RowDays, DayMonotone
<1>2. IsFiniteSet(days)
  <2> HIDE DEF days
  <2>1. IsFiniteSet(Day(1) .. Today)
    BY <1>1, FS_Interval
  <2> QED BY <1>1, <2>1, FS_Subset
<1>3. /\ \A i \in S : Day(TickOf(i)) \in days
      /\ \A d \in days : \E i \in S : Day(TickOf(i)) = d
      /\ FirstDay(S) = Min(days)
  BY DEF FirstDay
<1> HIDE DEF days
<1>4. Min(days) \in days /\ \A d \in days : Min(days) <= d
  BY <1>1, <1>2, LeastElement
<1>5. Max(days) \in days /\ \A d \in days : d <= Max(days)
  BY <1>1, <1>2, GreatestElement
<1> QED BY <1>1, <1>3, <1>4, <1>5 DEF days

\* A ledger with enough in it for the curve.
Usable ==
    /\ IInv /\ stage # "start" /\ Calm /\ ledger # <<>>
    /\ Contiguous /\ Anchored /\ FilesTidy

\* A ledger without a hole has every row after its first day.
LEMMA LedgerDays ==
    ASSUME Usable
    PROVE  LET known == Fetched(ledger)
               first == FirstDay(known)
           IN  /\ HistoryInv /\ known \in SUBSET Ids /\ known # {}
               /\ first \in Int /\ \A i \in known : first <= Day(TickOf(i))
               /\ \E i \in known : Day(TickOf(i)) = first
               /\ \A i \in Ids : Day(TickOf(i)) > first => i \in known
               /\ balance = Amount(Ids) /\ balance \in Int /\ TickOf(1) \in Int
<1> DEFINE known == Fetched(ledger)
           first == FirstDay(known)
<1>1. HistoryInv /\ ledger \in Seq(Ids)
  BY DEF Usable, IInv, RunInv
<1>2. known \in SUBSET Ids /\ known # {}
  <2>1. 1 \in DOMAIN ledger
    BY <1>1 DEF Usable
  <2> QED BY <1>1, <2>1 DEF Fetched, ToSet
<1>3. /\ first \in Int /\ \A i \in known : first <= Day(TickOf(i))
      /\ \E i \in known : Day(TickOf(i)) = first
  <2> HIDE DEF known
  <2> QED BY <1>1, <1>2, DaysOf DEF first
<1>4. ASSUME NEW i \in Ids, Day(TickOf(i)) > first PROVE i \in known
  <2>1. PICK f \in known : Day(TickOf(f)) = first
    BY <1>3
  <2>2. f \in Ids /\ f \in Int /\ i \in Int
    BY <1>1, <1>2, RowType
  <2>3. ~(i <= f)
    <3>1. i <= f => Day(TickOf(i)) <= Day(TickOf(f))
      BY <1>1, <2>2, RowDays
    <3>2. Day(TickOf(i)) \in Int
      BY <1>1, RowDays
    <3> HIDE DEF first
    <3> QED BY <1>3, <1>4, <2>1, <3>1, <3>2
  <2> QED BY <2>1, <2>2, <2>3 DEF Usable, Contiguous
<1>5. balance = Amount(Ids) /\ balance \in Int
  BY DEF Usable, IInv, BalanceInv, RunInv
<1>6. 1 \in Ids
  BY <1>1, <1>2, RowType
<1>7. TickOf(1) \in Int
  BY <1>1, <1>6, RowType
<1> QED BY <1>1, <1>2, <1>3, <1>4, <1>5, <1>7

\* What is missing of the ledger is missing of every day's sum.
LEMMA MissingRows ==
    ASSUME Usable, NEW d \in Int, d >= FirstDay(Fetched(ledger))
    PROVE  /\ Amount(RowsUntil(d)) \in Int /\ TrueBalance(d) \in Int
           /\ Amount(Fetched(ledger)) \in Int
           /\ TrueBalance(d) - Amount(RowsUntil(d)) = balance - Amount(Fetched(ledger))
<1> DEFINE known == Fetched(ledger)
           first == FirstDay(known)
           late == {i \in Ids : Day(TickOf(i)) > d}
<1>1. /\ HistoryInv /\ known \in SUBSET Ids
      /\ first \in Int /\ balance = Amount(Ids) /\ d >= first
      /\ \A i \in Ids : Day(TickOf(i)) > first => i \in known
  BY LedgerDays
<1>2. \A i \in Ids : Day(TickOf(i)) \in Int
  BY <1>1, RowDays
<1> HIDE DEF first
<1>3. late \subseteq known
  BY <1>1, <1>2
<1>4. RowsUntil(d) \cup late = known /\ RowsUntil(d) \cap late = {}
  <2> HIDE DEF known
  <2> QED BY <1>1, <1>2, <1>3 DEF RowsUntil, known
<1>5. Until(d) \cup late = Ids /\ Until(d) \cap late = {}
  BY <1>2 DEF Until
<1>6. RowsUntil(d) \in SUBSET Ids /\ Until(d) \in SUBSET Ids /\ late \in SUBSET Ids /\ Ids \in SUBSET Ids
  BY <1>1 DEF RowsUntil, Until
<1>7. TrueBalance(d) = Amount(Until(d))
  BY DEF TrueBalance, Until
<1> HIDE DEF late, known
<1>8. /\ Amount(known) = Amount(RowsUntil(d)) + Amount(late)
      /\ Amount(Ids) = Amount(Until(d)) + Amount(late)
  <2>1. Amount(RowsUntil(d) \cup late) = Amount(RowsUntil(d)) + Amount(late)
    BY <1>1, <1>4, <1>6, AmountSplit
  <2>2. Amount(Until(d) \cup late) = Amount(Until(d)) + Amount(late)
    BY <1>1, <1>5, <1>6, AmountSplit
  <2> QED BY <1>4, <1>5, <2>1, <2>2
<1>9. /\ Amount(RowsUntil(d)) \in Int /\ Amount(Until(d)) \in Int /\ Amount(late) \in Int
      /\ Amount(known) \in Int
  BY <1>1, <1>6, AmountType
<1> QED BY <1>1, <1>7, <1>8, <1>9 DEF known

LEMMA FlowsOfDay ==
    ASSUME Usable, NEW d \in Int, d > FirstDay(Fetched(ledger))
    PROVE  /\ RowsOf(d) = {i \in Ids : Day(TickOf(i)) = d}
           /\ FlowOf(d) = TrueFlow(d) /\ TrueFlow(d) \in Int
<1> DEFINE known == Fetched(ledger)
           first == FirstDay(known)
<1>1. /\ HistoryInv /\ known \in SUBSET Ids /\ first \in Int /\ d > first
      /\ \A i \in Ids : Day(TickOf(i)) > first => i \in known
  BY LedgerDays
<1> HIDE DEF first
<1>2. RowsOf(d) = {i \in Ids : Day(TickOf(i)) = d}
  BY <1>1 DEF RowsOf
<1>3. RowsOf(d) \cap Flows = {i \in Flows : Day(TickOf(i)) = d}
  BY <1>2 DEF Flows
<1>4. FlowOf(d) = TrueFlow(d)
  BY <1>3 DEF FlowOf, TrueFlow
<1>5. RowsOf(d) \cap Flows \in SUBSET Ids
  BY <1>2
<1>6. FlowOf(d) \in Int
  BY <1>1, <1>5, AmountType DEF FlowOf
<1> QED BY <1>2, <1>4, <1>6

\* Binance: the drift makes up for what the cut took away.
LEMMA BinancePoint ==
    ASSUME Usable, NEW d \in Int, d >= FirstDay(Fetched(ledger))
    PROVE  AbsOf((Amount(RowsUntil(d)) + ShiftOf) - TrueBalance(d)) <= Drift
<1> DEFINE total == Amount(Fetched(ledger))
           part == Amount(RowsUntil(d))
           held == TrueBalance(d)
           gap == balance - total
<1>1. part \in Int /\ held \in Int /\ total \in Int /\ held - part = gap
  BY MissingRows
<1>2. balance = Amount(Ids) /\ balance \in Int
  BY LedgerDays
<1>3. ShiftOf = IF balance # 0 /\ AbsOf(gap) > Drift THEN gap ELSE 0
  BY DEF ShiftOf, DriftOf
<1>4. balance = 0 => gap = 0
  <2> SUFFICES ASSUME balance = 0 PROVE gap = 0
    OBVIOUS
  <2>1. Fetched(ledger) = Ids
    BY DEF Usable, Anchored
  <2>2. total = Amount(Ids)
    BY <2>1
  <2> HIDE DEF total
  <2> QED BY <1>2, <2>2
<1>5. Drift \in Nat
  BY BackfillAssumption
<1>6. (part + gap) - held = 0 /\ part - held = -gap /\ gap \in Int
  <2> HIDE DEF total, part, held
  <2> QED BY <1>1, <1>2
<1>7. CASE balance # 0 /\ AbsOf(gap) > Drift
  <2>1. (part + ShiftOf) - held = 0
    BY <1>3, <1>6, <1>7
  <2>2. AbsOf((part + ShiftOf) - held) = 0
    <3> HIDE DEF part, held
    <3> QED BY <2>1 DEF AbsOf
  <2> QED BY <1>5, <2>2
<1>8. CASE ~(balance # 0 /\ AbsOf(gap) > Drift)
  <2>1. ShiftOf = 0
    BY <1>3, <1>8
  <2>2. (part + ShiftOf) - held = -gap
    <3> HIDE DEF total, part, held
    <3> QED BY <1>1, <1>6, <2>1
  <2>3. AbsOf(gap) <= Drift
    <3>1. CASE balance = 0
      <4>1. gap = 0
        BY <1>4, <3>1
      <4> HIDE DEF gap
      <4> QED BY <1>5, <4>1 DEF AbsOf
    <3>2. CASE balance # 0
      <4>1. ~(AbsOf(gap) > Drift)
        BY <1>8, <3>2
      <4> HIDE DEF gap
      <4> QED BY <1>5, <1>6, <4>1 DEF AbsOf
    <3> QED BY <3>1, <3>2
  <2>4. AbsOf(-gap) = AbsOf(gap)
    <3> HIDE DEF gap
    <3> QED BY <1>6 DEF AbsOf
  <2>5. AbsOf((part + ShiftOf) - held) <= Drift
    <3> HIDE DEF part, held, gap
    <3> QED BY <2>2, <2>3, <2>4
  <2> QED BY <2>5
<1> QED BY <1>7, <1>8

\* OKX: the day's last bill says what the account held at the end of the day,
\* also on the days after it without a bill.
LEMMA EodIsBalance ==
    ASSUME Usable, venue = "okx", NEW d \in Int, d >= FirstDay(Fetched(ledger))
    PROVE  EodBalance(d) = TrueBalance(d) /\ TrueBalance(d) \in Int
<1> DEFINE known == Fetched(ledger)
           first == FirstDay(known)
           eod == LastRowDay(d)
           late == LastTick(RowsOf(eod))
           k == EodRow(eod)
<1>1. /\ HistoryInv /\ known \in SUBSET Ids /\ first \in Int /\ d >= first
      /\ \E i \in known : Day(TickOf(i)) = first
      /\ \A i \in Ids : Day(TickOf(i)) > first => i \in known
  BY LedgerDays
<1>2. /\ \A i \in Ids : Day(TickOf(i)) \in Int /\ TickOf(i) \in Int /\ i \in Int
      /\ ledger \in Seq(Ids)
  BY <1>1, RowDays, RowType DEF Usable, IInv, RunInv
<1>3. /\ eod \in Int /\ first <= eod /\ eod <= d
      /\ \E i \in known : Day(TickOf(i)) = eod
      /\ \A i \in known : Day(TickOf(i)) <= d => Day(TickOf(i)) <= eod
  <2>1. RowsUntil(d) \in SUBSET Ids /\ RowsUntil(d) = {i \in known : Day(TickOf(i)) <= d}
    BY <1>1 DEF RowsUntil
  <2>2. PICK f \in known : Day(TickOf(f)) = first
    BY <1>1
  <2>3. f \in RowsUntil(d)
    <3> HIDE DEF first, known
    <3> QED BY <1>1, <2>1, <2>2
  <2>4. /\ eod \in Int /\ \A i \in RowsUntil(d) : Day(TickOf(i)) <= eod
        /\ \E i \in RowsUntil(d) : Day(TickOf(i)) = eod
    BY <1>1, <2>1, <2>3, DaysOf DEF LastRowDay
  <2> HIDE DEF eod, known, first
  <2> QED BY <1>1, <1>2, <2>1, <2>2, <2>3, <2>4
<1>4. RowsOf(eod) = {i \in known : Day(TickOf(i)) = eod} /\ RowsOf(eod) \in SUBSET Ids
  BY <1>1 DEF RowsOf
<1> HIDE DEF known, first, eod
<1>5. /\ late \in Int /\ \A i \in RowsOf(eod) : TickOf(i) <= late
      /\ \E i \in RowsOf(eod) : TickOf(i) = late
  <2>1. RowsOf(eod) # {}
    BY <1>3, <1>4
  <2> QED BY <1>1, <1>4, <2>1, TickBounds
<1>6. /\ k \in RowsOf(eod) /\ TickOf(k) = late
      /\ \A i \in known : TickOf(i) = late => i <= k
  <2> DEFINE I == {n \in 1 .. Len(ledger) : TickOf(ledger[n]) = late}
  <2>1. k = ledger[IF I # {} THEN Min(I) ELSE 0]
    BY DEF EodRow, SelectInSeq
  <2> HIDE DEF late
  <2>2. /\ Len(ledger) \in Nat /\ DOMAIN ledger = 1 .. Len(ledger)
        /\ \A n \in 1 .. Len(ledger) : ledger[n] \in Ids /\ ledger[n] \in known
        /\ \A i \in known : \E n \in 1 .. Len(ledger) : ledger[n] = i
    BY <1>2 DEF known, Fetched, ToSet
  <2>3. I # {} /\ IsFiniteSet(I) /\ I \subseteq Int
    <3>1. IsFiniteSet(1 .. Len(ledger))
      BY <2>2, FS_Interval
    <3>2. IsFiniteSet(I)
      BY <3>1, FS_Subset
    <3> QED BY <1>4, <1>5, <2>2, <3>2
  <2>4. PICK m \in I : m = Min(I) /\ \A n \in I : m <= n
    <3> HIDE DEF I
    <3> QED BY <2>3, LeastElement
  <2>5. k = ledger[m] /\ m \in 1 .. Len(ledger) /\ TickOf(k) = late /\ k \in known /\ k \in Ids
    BY <2>1, <2>2, <2>3, <2>4
  <2> HIDE DEF k
  <2>6. k \in RowsOf(eod)
    <3>1. PICK i \in RowsOf(eod) : TickOf(i) = late
      BY <1>5
    <3>2. Day(TickOf(k)) = Day(TickOf(i))
      BY <2>5, <3>1
    <3> QED BY <1>4, <2>5, <3>1, <3>2
  <2>7. ASSUME NEW i \in known, TickOf(i) = late PROVE i <= k
    <3>1. PICK n \in 1 .. Len(ledger) : ledger[n] = i
      BY <2>2
    <3>2. m <= n /\ i \in Ids /\ i \in Int /\ k \in Int
      BY <1>1, <1>2, <2>4, <2>5, <2>7, <3>1
    <3>3. CASE m = n
      BY <2>5, <3>1, <3>2, <3>3
    <3>4. CASE m < n
      <4>1. ledger[m] > ledger[n] \/ {ledger[m], ledger[n]} \subseteq filed
        BY <2>2, <2>5, <2>7, <3>1, <3>4 DEF Usable, IInv, OrderInv, Calm
      <4>2. {k, i} \subseteq filed => i = k
        BY <2>5, <2>7 DEF Usable, FilesTidy
      <4> QED BY <2>5, <3>1, <3>2, <4>1, <4>2
    <3> QED BY <2>2, <2>5, <3>1, <3>2, <3>3, <3>4
  <2> QED BY <2>5, <2>6, <2>7
<1> HIDE DEF k, late
<1>7. 1 .. k = Until(d)
  <2>1. k \in Ids /\ k \in Int /\ Day(TickOf(k)) = eod /\ k \in known
    BY <1>2, <1>4, <1>6
  <2>2. ASSUME NEW i \in 1 .. k PROVE i \in Until(d)
    <3>1. i \in Ids /\ i <= k
      BY <1>1, <2>1, RowType
    <3>2. Day(TickOf(i)) <= eod
      BY <1>1, <2>1, <3>1, RowDays
    <3>3. Day(TickOf(i)) <= d
      BY <1>2, <1>3, <3>1, <3>2
    <3> QED BY <3>1, <3>3 DEF Until
  <2>3. ASSUME NEW i \in Until(d), i > k PROVE FALSE
    <3>1. i \in Ids /\ Day(TickOf(i)) <= d
      BY DEF Until
    <3>2. i \in known
      BY <2>1, <2>3, <3>1 DEF Usable, Contiguous, known
    <3>3. Day(TickOf(i)) <= eod
      BY <1>3, <3>1, <3>2
    <3>4. TickOf(k) <= TickOf(i) /\ Day(TickOf(k)) <= Day(TickOf(i))
      BY <1>1, <1>2, <2>1, <2>3, <3>1, RowDays
    <3>5. Day(TickOf(i)) = eod
      BY <1>2, <1>3, <2>1, <3>1, <3>3, <3>4
    <3>6. TickOf(i) <= late
      BY <1>4, <1>5, <3>2, <3>5
    <3>7. TickOf(i) = late
      BY <1>2, <1>5, <1>6, <3>1, <3>4, <3>6
    <3> QED BY <1>2, <1>6, <2>1, <2>3, <3>1, <3>2, <3>7
  <2>4. ASSUME NEW i \in Until(d) PROVE i \in 1 .. k
    <3>1. i \in Ids /\ i \in Int /\ 1 <= i
      BY <1>1, RowType DEF Until
    <3> QED BY <2>1, <2>3, <3>1
  <2> QED BY <2>2, <2>4
<1>8. EodBalance(d) = Amount(1 .. k)
  BY DEF EodBalance, BalanceAfter, k, eod
<1>9. TrueBalance(d) = Amount(Until(d))
  BY DEF TrueBalance, Until
<1>10. TrueBalance(d) \in Int
  BY MissingRows
<1> QED BY <1>7, <1>8, <1>9, <1>10

\* The residual of a day is what flowed that day.
LEMMA ResidualIsFlow ==
    ASSUME Usable, venue = "okx", NEW d \in Int, d > FirstDay(Fetched(ledger))
    PROVE  ResidualOf(d) = TrueFlow(d)
<1> DEFINE first == FirstDay(Fetched(ledger))
           today == {i \in Ids : Day(TickOf(i)) = d}
<1>1. HistoryInv /\ first \in Int /\ d > first
  BY LedgerDays
<1>2. d - 1 \in Int /\ d - 1 >= first /\ d >= first
  <2> HIDE DEF first
  <2> QED BY <1>1
<1>3. /\ EodBalance(d) = TrueBalance(d) /\ TrueBalance(d) \in Int
      /\ EodBalance(d - 1) = TrueBalance(d - 1) /\ TrueBalance(d - 1) \in Int
  BY <1>2, EodIsBalance
<1>4. RowsOf(d) = today /\ FlowOf(d) = TrueFlow(d) /\ TrueFlow(d) \in Int
  BY FlowsOfDay
<1>5. \A i \in Ids : Day(TickOf(i)) \in Int
  BY <1>1, RowDays
<1>6. Until(d) = Until(d - 1) \cup today /\ Until(d - 1) \cap today = {}
  BY <1>5 DEF Until
<1>7. today = (today \cap Flows) \cup (today \ Flows)
  OBVIOUS
<1> DEFINE flows == today \cap Flows
           fills == today \ Flows
<1>8. /\ flows \in SUBSET Ids /\ fills \in SUBSET Ids /\ today \in SUBSET Ids /\ Until(d - 1) \in SUBSET Ids
      /\ flows \cap fills = {} /\ flows \cup fills = today
  BY DEF Until
<1>9. Amount(Until(d)) = Amount(Until(d - 1)) + Amount(today)
  <2> HIDE DEF today, flows, fills
  <2> QED BY <1>1, <1>6, <1>8, AmountSplit
<1>10. Amount(today) = Amount(flows) + Amount(fills)
  <2>1. Amount(flows \cup fills) = Amount(flows) + Amount(fills)
    <3> HIDE DEF today, flows, fills
    <3> QED BY <1>1, <1>8, AmountSplit
  <2> QED BY <1>8, <2>1
<1>11. Amount(flows) = TrueFlow(d) /\ Amount(fills) = Amount(RowsOf(d) \ Flows)
  BY <1>4 DEF FlowOf
<1>12. Amount(flows) \in Int /\ Amount(fills) \in Int /\ Amount(today) \in Int
  <2> HIDE DEF today, flows, fills
  <2> QED BY <1>1, <1>8, AmountType
<1>13. TrueBalance(d) = Amount(Until(d)) /\ TrueBalance(d - 1) = Amount(Until(d - 1))
  BY DEF TrueBalance, Until
<1>14. ResidualOf(d) = (TrueBalance(d) - TrueBalance(d - 1)) - Amount(fills)
  BY <1>3, <1>11 DEF ResidualOf
<1> HIDE DEF today, flows, fills
<1> QED BY <1>3, <1>9, <1>10, <1>11, <1>12, <1>13, <1>14

\* What compute_daily_equity makes of a ledger without a hole.
LEMMA RightCurve ==
    ASSUME Usable, NEW d \in DOMAIN DailyEquity
    PROVE  /\ AbsOf(DailyEquity[d].equity - TrueBalance(d)) <= Drift
           /\ d > FirstDay(Fetched(ledger)) =>
                 DailyEquity[d].transfer = IF venue = "okx" THEN Noted(TrueFlow(d)) ELSE TrueFlow(d)
<1> DEFINE first == FirstDay(Fetched(ledger))
<1>1. /\ HistoryInv /\ first \in Int /\ balance = Amount(Ids) /\ balance \in Int
      /\ ledger # <<>> /\ venue \in {"binance", "okx"} /\ Drift \in Nat
  BY LedgerDays, BackfillAssumption DEF Usable, IInv, RunInv
<1>2. Today \in Int
  BY <1>1, RowDays
<1>3. CASE venue = "binance"
  <2>1. DailyEquity = BinanceCurve
    BY Zenon, <1>1, <1>3 DEF DailyEquity
  <2>2. BinanceCurve = [x \in first .. Today |->
            [equity |-> Amount(RowsUntil(x)) + ShiftOf,
             transfer |-> FlowOf(x) + IF x = first THEN DriftOf ELSE 0]]
    BY DEF BinanceCurve
  <2> HIDE DEF first
  <2>3. d \in first .. Today
    BY <2>1, <2>2
  <2>4. /\ DailyEquity[d].equity = Amount(RowsUntil(d)) + ShiftOf
        /\ DailyEquity[d].transfer = FlowOf(d) + IF d = first THEN DriftOf ELSE 0
    BY <2>1, <2>2, <2>3
  <2>5. d \in Int /\ d >= first
    BY <1>1, <1>2, <2>3
  <2>6. AbsOf(DailyEquity[d].equity - TrueBalance(d)) <= Drift
    BY <2>4, <2>5, BinancePoint DEF first
  <2>7. ASSUME d > first PROVE DailyEquity[d].transfer = TrueFlow(d)
    <3>1. FlowOf(d) = TrueFlow(d) /\ TrueFlow(d) \in Int
      BY <2>5, <2>7, FlowsOfDay DEF first
    <3>2. d # first
      BY <1>1, <2>5, <2>7
    <3> QED BY <2>4, <3>1, <3>2
  <2> QED BY <1>3, <2>6, <2>7 DEF first
<1>4. CASE venue = "okx"
  <2>1. DailyEquity = OkxCurve
    BY Zenon, <1>1, <1>4 DEF DailyEquity
  <2>2. OkxCurve = [x \in first .. Today |->
            [equity |-> IF x = Today THEN balance ELSE EodBalance(x),
             transfer |-> Noted(IF x = first THEN EodBalance(x) ELSE ResidualOf(x))]]
    BY DEF OkxCurve
  <2> HIDE DEF first
  <2>3. d \in first .. Today
    BY <2>1, <2>2
  <2>4. /\ DailyEquity[d].equity = IF d = Today THEN balance ELSE EodBalance(d)
        /\ DailyEquity[d].transfer = Noted(IF d = first THEN EodBalance(d) ELSE ResidualOf(d))
    BY <2>1, <2>2, <2>3
  <2>5. d \in Int /\ d >= first
    BY <1>1, <1>2, <2>3
  <2>6. EodBalance(d) = TrueBalance(d) /\ TrueBalance(d) \in Int
    BY <1>4, <2>5, EodIsBalance DEF first
  <2>7. d = Today => TrueBalance(d) = balance
    <3> SUFFICES ASSUME d = Today PROVE TrueBalance(d) = balance
      OBVIOUS
    <3>1. \A i \in Ids : Day(TickOf(i)) <= d
      BY <1>1, <1>2, RowDays
    <3>2. {i \in Ids : Day(TickOf(i)) <= d} = Ids
      BY <3>1
    <3> QED BY <1>1, <3>2 DEF TrueBalance
  <2>8. DailyEquity[d].equity = TrueBalance(d)
    BY <2>4, <2>6, <2>7
  <2>9. AbsOf(DailyEquity[d].equity - TrueBalance(d)) <= Drift
    <3>1. PICK held \in Int : held = TrueBalance(d)
      BY <2>6
    <3>2. held - held = 0
      OBVIOUS
    <3>3. DailyEquity[d].equity - TrueBalance(d) = 0
      BY <2>8, <3>1, <3>2
    <3> QED BY <1>1, <3>3 DEF AbsOf
  <2>10. ASSUME d > first PROVE DailyEquity[d].transfer = Noted(TrueFlow(d))
    <3>1. ResidualOf(d) = TrueFlow(d)
      BY <1>4, <2>5, <2>10, ResidualIsFlow DEF first
    <3>2. d # first
      BY <1>1, <2>5, <2>10
    <3> QED BY <2>4, <3>1, <3>2
  <2> QED BY <1>4, <2>9, <2>10 DEF first
<1> QED BY <1>1, <1>3, <1>4

LEMMA SameTruth ==
    ASSUME HistoryInv, rows' = rows, ledger' = ledger, NEW d
    PROVE  /\ TrueBalance(d)' = TrueBalance(d) /\ TrueFlow(d)' = TrueFlow(d)
           /\ FirstDay(Fetched(ledger))' = FirstDay(Fetched(ledger))
<1>1. SumsOfRows /\ SumsOfRows' /\ Ids' = Ids /\ Flows' = Flows
  BY SameHistory, RowsAreSummed, RowsStaySummed
<1>2. Amounts' = Amounts
  BY <1>1 DEF Amounts
<1> DEFINE flows == {i \in Flows : Day(TickOf(i)) = d}
<1>3. Until(d)' = Until(d) /\ flows' = flows /\ Until(d) \in SUBSET Ids /\ flows \in SUBSET Ids
  BY <1>1 DEF Until, TickOf, Flows
<1>4. /\ TrueBalance(d) = Amount(Until(d)) /\ TrueBalance(d)' = Amount(Until(d))'
      /\ TrueFlow(d) = Amount(flows) /\ TrueFlow(d)' = Amount(flows)'
  BY DEF TrueBalance, TrueFlow, Until
<1> HIDE DEF flows
<1>5. Amount(Until(d)) = Total(Amounts, Until(d)) /\ Amount(flows) = Total(Amounts, flows)
  BY <1>1, <1>3 DEF SumsOfRows
<1>6. Amount(Until(d))' = Total(Amounts, Until(d)) /\ Amount(flows)' = Total(Amounts, flows)
  BY <1>1, <1>2, <1>3 DEF SumsOfRows
<1>7. FirstDay(Fetched(ledger))' = FirstDay(Fetched(ledger))
  BY DEF FirstDay, TickOf
<1> QED BY <1>4, <1>5, <1>6, <1>7

\* The run ends without the credentials, or with the curve.
LEMMA LastStep ==
    ASSUME BackfillNext, ~NoCredentials, ~SaveCurve
    PROVE  stage' # "done"
<1>1. CASE BookRow
  BY <1>1 DEF BookRow, fetchState
<1>2. CASE FetchBalance \/ IncomePage \/ QuarterFile \/ QuartersEnd
  BY <1>2 DEF FetchBalance, IncomePage, TurnPage, QuarterFile, QuartersEnd, Enter
<1>3. CASE BillsPage \/ Timeout \/ RateLimited
  BY <1>3 DEF BillsPage, TurnPage, Timeout, RateLimited, Retry, AfterBills, Enter
<1>4. CASE SkipSymbol \/ ScanEnds
  BY <1>4 DEF SkipSymbol, ScanEnds, NextSymbol, Enter
<1>5. CASE BinanceTradesPage \/ OkxRecentPage
  BY <1>5 DEF BinanceTradesPage, OkxRecentPage, NextSymbol
<1>6. CASE OkxArchivePage \/ TransfersPage
  BY <1>6 DEF OkxArchivePage, NextSymbol, TransfersPage, Enter
<1>7. CASE CallFails
  BY <1>7 DEF CallFails, Break, Enter
<1> QED BY <1>1, <1>2, <1>3, <1>4, <1>5, <1>6, <1>7 DEF BackfillNext, Walk

\* However the ledger walk was cut short, wherever rows share a millisecond
\* and whatever was earned: as long as the ledger has no hole and its balance
\* is known, every point of the written curve is right up to the drift, and
\* the transfers are marked on the days money moved
\* (compute_daily_equity_from_binance_income, compute_daily_equity_from_okx_bills).
THEOREM CurveKept == BackfillSpec => []CutLedgerKeepsCurve
<1>1. BackfillInit => CutLedgerKeepsCurve
  BY DEF BackfillInit, CutLedgerKeepsCurve
<1>2. IInv /\ CutLedgerKeepsCurve /\ [BackfillNext]_bvars => CutLedgerKeepsCurve'
  <2> SUFFICES ASSUME IInv, CutLedgerKeepsCurve, [BackfillNext]_bvars,
                      stage' = "done", Calm', ledger' # <<>>, Contiguous', Anchored', FilesTidy',
                      NEW d \in DOMAIN curve'
               PROVE  /\ AbsOf(curve'[d].equity - TrueBalance(d)') <= Drift
                      /\ d > FirstDay(Fetched(ledger))' =>
                            curve'[d].transfer = IF venue' = "okx" THEN Noted(TrueFlow(d)') ELSE TrueFlow(d)'
    BY DEF CutLedgerKeepsCurve
  <2>1. CASE SaveCurve
    <3>1. /\ UNCHANGED <<venue, rows, balance, failed, filed, snapLen, ledger>> /\ stage = "save"
          /\ d \in DOMAIN DailyEquity /\ curve'[d] = DailyEquity[d]
      BY <2>1 DEF SaveCurve, Kept, setting
    <3>2. Ids' = Ids /\ Flows' = Flows /\ \A i : TickOf(i)' = TickOf(i)
      BY <3>1, SameHistory DEF IInv, TickOf
    <3>3. Usable
      BY <3>1, <3>2 DEF Usable, Calm, Contiguous, Anchored, FilesTidy
    <3>4. /\ AbsOf(DailyEquity[d].equity - TrueBalance(d)) <= Drift
          /\ d > FirstDay(Fetched(ledger)) =>
                DailyEquity[d].transfer = IF venue = "okx" THEN Noted(TrueFlow(d)) ELSE TrueFlow(d)
      BY <3>1, <3>3, RightCurve
    <3>5. /\ TrueBalance(d)' = TrueBalance(d) /\ TrueFlow(d)' = TrueFlow(d)
          /\ FirstDay(Fetched(ledger))' = FirstDay(Fetched(ledger))
      BY <3>1, SameTruth DEF IInv
    <3> QED BY <3>1, <3>4, <3>5
  <2>2. CASE ~SaveCurve
    <3>1. CASE UNCHANGED bvars
      <4>1. UNCHANGED <<venue, rows, balance, failed, filed, snapLen, ledger, stage, curve>>
        BY <3>1 DEF bvars, fetchState, files, setting
      <4>2. Ids' = Ids /\ Flows' = Flows /\ \A i : TickOf(i)' = TickOf(i)
        BY <4>1, SameHistory DEF IInv, TickOf
      <4>3. stage = "done" /\ Calm /\ ledger # <<>> /\ Contiguous /\ Anchored /\ FilesTidy
        BY <4>1, <4>2 DEF Calm, Contiguous, Anchored, FilesTidy
      <4>4. /\ AbsOf(curve[d].equity - TrueBalance(d)) <= Drift
            /\ d > FirstDay(Fetched(ledger)) =>
                  curve[d].transfer = IF venue = "okx" THEN Noted(TrueFlow(d)) ELSE TrueFlow(d)
        BY <4>1, <4>3 DEF CutLedgerKeepsCurve
      <4> QED BY <4>1, <4>4, SameTruth DEF IInv
    <3>2. CASE NoCredentials
      <4>1. ledger' = <<>>
        BY <3>2 DEF IInv, LedgerInv, NoCredentials, files
      <4> QED BY <4>1
    <3>3. CASE BackfillNext /\ ~NoCredentials
      <4>1. stage' # "done"
        BY <2>2, <3>3, LastStep
      <4> QED BY <4>1
    <3> QED BY <3>1, <3>2, <3>3
  <2> QED BY <2>1, <2>2
<1> QED BY <1>1, <1>2, BackfillInvariant, PTL DEF BackfillSpec

=============================================================================
