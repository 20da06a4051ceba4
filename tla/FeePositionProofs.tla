------------------------- MODULE FeePositionProofs -------------------------
(***************************************************************************)
(* The fee position, for every number of callers, days, writes, invoices   *)
(* and every amount: the reads of a request advance through the versions   *)
(* of the curve; what a coherent reply quotes is what trading earned since *)
(* the mark; the recovery follows trading; no gain is billed twice.        *)
(*                                                                         *)
(* The sums over the curve are recursive functions. Induction over the     *)
(* positions is done with the least element of a set of natural numbers,   *)
(* which the library's well-founded relations provide.                     *)
(***************************************************************************)
EXTENDS FeePosition, SequenceTheorems, WellFoundedInduction, TLAPS

-----------------------------------------------------------------------------
(* Induction and running totals *)

LessThan == {pair \in Nat \X Nat : pair[1] < pair[2]}

\* A set that holds 0 and every successor of its numbers holds every number.
LEMMA NatSetInduction ==
    ASSUME NEW S, 0 \in S, \A n \in Nat : n \in S => n + 1 \in S
    PROVE  \A n \in Nat : n \in S
<1> DEFINE T == Nat \ S
<1> SUFFICES ASSUME T # {} PROVE FALSE
  OBVIOUS
<1>1. IsWellFoundedOn(LessThan, Nat)
  BY NatLessThanWellFounded DEF LessThan, OpToRel
<1>2. PICK x \in T : \A y \in T : ~(<<y, x>> \in LessThan)
  <2>1. T \subseteq Nat
    OBVIOUS
  <2> HIDE DEF T
  <2> QED BY <1>1, <2>1, WFMin
<1>3. x - 1 \in T
  BY <1>2
<1>4. <<x - 1, x>> \in LessThan
  BY <1>2, <1>3 DEF LessThan
<1> QED BY <1>2, <1>3, <1>4

\* From position a on, g is a running total of the terms.
RunsUp(g, a, n, term) ==
    g[a] = 0 /\ \A i \in (a + 1)..n : g[i] = g[i - 1] + term[i]

\* Every sequence of integers has a running total.
LEMMA RunningTotalExists ==
    ASSUME NEW a \in Nat, NEW n \in Nat, a <= n,
           NEW term, \A i \in (a + 1)..n : term[i] \in Int
    PROVE  \E g \in [a..n -> Int] : RunsUp(g, a, n, term)
<1> DEFINE Has(m) == \E g \in [a..(a + m) -> Int] : RunsUp(g, a, a + m, term)
           S == {m \in Nat : a + m <= n => Has(m)}
<1>1. 0 \in S
  <2> DEFINE g == [i \in a..(a + 0) |-> 0]
  <2>1. g \in [a..(a + 0) -> Int]
    OBVIOUS
  <2>2. RunsUp(g, a, a + 0, term)
    BY DEF RunsUp
  <2> QED BY <2>1, <2>2
<1>2. \A m \in Nat : m \in S => m + 1 \in S
  <2> SUFFICES ASSUME NEW m \in Nat, Has(m), a + m + 1 <= n PROVE Has(m + 1)
    OBVIOUS
  <2>1. PICK g \in [a..(a + m) -> Int] : RunsUp(g, a, a + m, term)
    OBVIOUS
  <2> DEFINE h == [i \in a..(a + (m + 1)) |->
                     IF i = a + m + 1 THEN g[a + m] + term[a + m + 1]
                     ELSE g[i]]
  <2>2. h \in [a..(a + (m + 1)) -> Int]
    OBVIOUS
  <2>3. RunsUp(h, a, a + (m + 1), term)
    <3>1. h[a] = 0
      BY <2>1 DEF RunsUp
    <3>2. \A i \in (a + 1)..(a + m) : h[i] = h[i - 1] + term[i]
      BY <2>1 DEF RunsUp
    <3>3. h[a + m + 1] = h[a + m] + term[a + m + 1]
      OBVIOUS
    <3>4. \A i \in (a + 1)..(a + (m + 1)) :
            i \in (a + 1)..(a + m) \/ i = a + m + 1
      OBVIOUS
    <3> HIDE DEF h
    <3>5. \A i \in (a + 1)..(a + (m + 1)) : h[i] = h[i - 1] + term[i]
      <4> SUFFICES ASSUME NEW i \in (a + 1)..(a + (m + 1))
                   PROVE  h[i] = h[i - 1] + term[i]
        OBVIOUS
      <4>1. CASE i = a + m + 1
        <5>1. i - 1 = a + m
          BY <4>1
        <5> QED BY <3>3, <4>1, <5>1
      <4> QED BY <3>2, <3>4, <4>1
    <3> QED BY <3>1, <3>5 DEF RunsUp
  <2> QED BY <2>2, <2>3
<1>3. n - a \in S
  <2> HIDE DEF S
  <2> QED BY <1>1, <1>2, NatSetInduction
<1>4. Has(n - a)
  BY <1>3
<1>5. a + (n - a) = n
  OBVIOUS
<1> QED BY <1>4, <1>5

\* Two running totals of the same terms agree.
LEMMA RunningTotalUnique ==
    ASSUME NEW a \in Nat, NEW n \in Nat, a <= n, NEW term, NEW g, NEW h,
           RunsUp(g, a, n, term), RunsUp(h, a, n, term)
    PROVE  g[n] = h[n]
<1> DEFINE S == {m \in Nat : a + m <= n => g[a + m] = h[a + m]}
<1>1. 0 \in S
  BY DEF RunsUp
<1>2. \A m \in Nat : m \in S => m + 1 \in S
  BY DEF RunsUp
<1>3. n - a \in S
  <2> HIDE DEF S
  <2> QED BY <1>1, <1>2, NatSetInduction
<1> QED BY <1>3

\* What counts as deposited at each point.
Deposit(points) ==
    [i \in 1..Len(points) |-> IF points[i].date > SeedDate
                              THEN points[i].transfer ELSE 0]

\* DepositsSince is what a running total of the deposits comes to.
LEMMA DepositsRunUp ==
    ASSUME NEW points, Len(points) \in Nat,
           NEW g \in [0..Len(points) -> Int],
           RunsUp(g, 0, Len(points), Deposit(points))
    PROVE  DepositsSince(points) = g[Len(points)]
<1> DEFINE n == Len(points)
           At(f, i) == IF i = 0 THEN 0
                       ELSE f[i - 1] + IF points[i].date > SeedDate
                                       THEN points[i].transfer ELSE 0
           Total(f) == f = [i \in 0..n |-> At(f, i)]
           sum == CHOOSE f : Total(f)
<1>1. Total(g)
  <2>1. \A i \in 0..n : g[i] = At(g, i)
    BY DEF RunsUp, Deposit
  <2> QED BY <2>1
<1>2. Total(sum)
  <2> HIDE DEF Total
  <2> QED BY <1>1
<1>3. RunsUp(sum, 0, n, Deposit(points))
  <2>1. \A i \in 0..n : sum[i] = At(sum, i)
    <3> HIDE DEF sum
    <3> QED BY <1>2
  <2> HIDE DEF sum
  <2> QED BY <2>1 DEF RunsUp, Deposit
<1>4. DepositsSince(points) = sum[n]
  BY DEF DepositsSince
<1>5. sum[n] = g[n]
  <2> HIDE DEF sum
  <2> QED BY <1>3, RunningTotalUnique
<1> QED BY <1>4, <1>5

\* The balance jump at each point, when the recovery counts it.
Jump(points, i) == points[i].equity - points[i - 1].equity

Counted(points, i) ==
    /\ points[i].date > SeedDate /\ points[i].transfer # 0
    /\ Jump(points, i) > MinJump \/ Jump(points, i) < -MinJump

CountedJump(points) ==
    [i \in 2..Len(points) |->
       IF Counted(points, i) THEN Jump(points, i) ELSE 0]

\* UsdtMoved is what a running total of the counted jumps comes to.
LEMMA JumpsRunUp ==
    ASSUME NEW points, Len(points) \in Nat \ {0},
           NEW g \in [1..Len(points) -> Int],
           RunsUp(g, 1, Len(points), CountedJump(points))
    PROVE  UsdtMoved(points) = g[Len(points)]
<1> DEFINE n == Len(points)
           jump(i) == points[i].equity - points[i - 1].equity
           moved(i) == /\ points[i].date > SeedDate
                       /\ points[i].transfer # 0
                       /\ jump(i) > MinJump \/ jump(i) < -MinJump
           At(f, i) == IF i = 1 THEN 0
                       ELSE f[i - 1] + IF moved(i) THEN jump(i) ELSE 0
           Total(f) == f = [i \in 1..n |-> At(f, i)]
           sum == CHOOSE f : Total(f)
<1>1. Total(g)
  <2>1. \A i \in 1..n : g[i] = At(g, i)
    BY DEF RunsUp, CountedJump, Counted, Jump
  <2> QED BY <2>1
<1>2. Total(sum)
  <2> HIDE DEF Total
  <2> QED BY <1>1
<1>3. RunsUp(sum, 1, n, CountedJump(points))
  <2>1. \A i \in 1..n : sum[i] = At(sum, i)
    <3> HIDE DEF sum, At
    <3> QED BY <1>2
  <2> HIDE DEF sum
  <2> QED BY <2>1 DEF RunsUp, CountedJump, Counted, Jump
<1>4. UsdtMoved(points) = sum[n]
  BY DEF UsdtMoved
<1>5. sum[n] = g[n]
  <2> HIDE DEF sum
  <2> QED BY <1>3, RunningTotalUnique
<1> QED BY <1>4, <1>5
-----------------------------------------------------------------------------
(* Requests read in order *)

Versions == Nat \cup {None}

\* A request is a record with the fields a reply is made of.
Fields == {"pc", "live", "shown", "books", "sum", "result"}

ReqShape ==
    /\ DOMAIN req = Callers
    /\ \A c \in Callers : DOMAIN req[c] = Fields

\* What has been read is not newer than the file.
Seen(v) == v \in Versions /\ v <= version

\* What a request has not come to is not read.
Unread(r) ==
    /\ r.pc \in {"equity", "store", "usd"} => r.shown = None
    /\ r.pc \in {"equity", "store", "usd", "books"} => r.books.at = None

Advancing(r) ==
    /\ r.live.at # None /\ r.shown # None => r.live.at <= r.shown
    /\ r.live.at # None /\ r.books.at # None => r.live.at <= r.books.at
    /\ r.shown # None /\ r.books.at # None => r.shown <= r.books.at

ReqInv(r) ==
    /\ Seen(r.live.at) /\ Seen(r.shown) /\ Seen(r.books.at)
    /\ Unread(r) /\ Advancing(r)

IInv ==
    /\ version \in Nat
    /\ Seen(cache.at)
    /\ ReqShape
    /\ \A c \in Callers : ReqInv(req[c])

-----------------------------------------------------------------------------

\* The order of the three reads, step by step.
LEMMA StepOrder ==
    /\ Order[1] = "equity"
    /\ After("equity") = "usd"
    /\ After("usd") = "books"
    /\ After("books") = "reply"
<1>1. Order[1] = "equity" /\ Order[2] = "usd" /\ Order[3] = "books"
  BY DEF Order
<1>2. /\ (CHOOSE j \in 1..3 : Order[j] = "equity") = 1
      /\ (CHOOSE j \in 1..3 : Order[j] = "usd") = 2
      /\ (CHOOSE j \in 1..3 : Order[j] = "books") = 3
  <2>1. \A j \in 1..3 : j = 1 \/ j = 2 \/ j = 3
    OBVIOUS
  <2> QED BY <1>1, <2>1
<1> QED BY <1>1, <1>2 DEF After

\* A request that has read nothing satisfies the invariant.
LEMMA FreshRequest ==
    ASSUME version \in Nat, NEW step
    PROVE  ReqInv([NoRequest EXCEPT !.pc = step])
BY DEF ReqInv, Seen, Versions, Unread, Advancing, NoRequest, NoSnapshot, None

\* Replacing the request of one caller keeps the shape and the invariant of
\* all, when the file's version stays.
LEMMA OneRequest ==
    ASSUME IInv, NEW c \in Callers, NEW r, DOMAIN r = Fields, ReqInv(r),
           Continue(c, r), version' = version, Seen(cache'.at)
    PROVE  IInv'
<1>1. \A d \in Callers : req'[d] = IF d = c THEN r ELSE req[d]
  BY DEF IInv, ReqShape, Continue
<1>2. ReqShape'
  BY <1>1 DEF IInv, ReqShape, Continue
<1>3. \A d \in Callers : ReqInv(req'[d])
  BY <1>1 DEF IInv
<1>4. \A d \in Callers : ReqInv(req[d])'
  BY <1>3 DEF ReqInv, Seen, Unread, Advancing
<1> QED BY <1>2, <1>4 DEF IInv, Seen

\* A new version leaves what was read at most as new as the file.
LEMMA NewVersion ==
    ASSUME IInv, version' \in Nat, version <= version', cache' = cache,
           req' = req
    PROVE  IInv'
<1>1. \A v : Seen(v) => v \in Versions /\ v <= version'
  BY DEF IInv, Seen, Versions, None
<1>2. \A c \in Callers : ReqInv(req[c])'
  BY <1>1 DEF IInv, ReqInv, Seen, Unread, Advancing
<1> QED BY <1>1, <1>2 DEF IInv, Seen, ReqShape

LEMMA InitInv == Init => IInv
BY DEF Init, IInv, ReqShape, Fields, ReqInv, Seen, Versions, Unread, Advancing,
       NoRequest, NoSnapshot, None

\* A restart drops everything that was read.
LEMMA RestartInv ==
    ASSUME IInv, ProcessRestarts, version' = version
    PROVE  IInv'
BY DEF ProcessRestarts, IInv, ReqShape, Fields, ReqInv, Seen, Versions, Unread,
       Advancing, NoRequest, NoSnapshot, None

\* The account and the job touch no request.
LEMMA EnvironmentInv ==
    ASSUME IInv, Environment
    PROVE  IInv'
<1>1. cache' = cache /\ req' = req
  BY DEF Environment, Trade, MoveCash, NextDay, BeginWrite, EndWrite
<1>2. version' \in Nat /\ version <= version'
  BY DEF IInv, Environment, Trade, MoveCash, NextDay, BeginWrite, EndWrite
<1> QED BY <1>1, <1>2, NewVersion

\* Each step of a request reads at the version of the moment, or less when
\* the equity comes from the cache, before it has read anything else.
LEMMA ServeInv ==
    ASSUME IInv, NEW c \in Callers, Serve(c)
    PROVE  IInv'
<1> DEFINE r == req[c]
<1>0. /\ version \in Nat
      /\ DOMAIN r = Fields
      /\ ReqInv(r)
      /\ Seen(cache.at)
      /\ Snapshot.at = version
  BY DEF IInv, ReqShape, Snapshot
<1>1. ASSUME Call(c) PROVE IInv'
  <2> DEFINE s == [NoRequest EXCEPT !.pc = Order[1]]
  <2>1. ReqInv(s)
    BY <1>0, FreshRequest
  <2>2. DOMAIN s = Fields
    BY DEF NoRequest, Fields
  <2> QED BY <1>0, <1>1, <2>1, <2>2, OneRequest DEF Call
<1>2. ASSUME CachedEquity(c) PROVE IInv'
  <2> DEFINE s == [r EXCEPT !.live = cache, !.pc = After("equity")]
  <2>1. /\ DOMAIN s = Fields
        /\ s.pc = "usd" /\ s.live = cache
        /\ s.shown = r.shown /\ s.books = r.books
    BY <1>0, StepOrder DEF Fields
  <2>2. ReqInv(s)
    BY <1>0, <1>2, <2>1
       DEF CachedEquity, Serving, ReqInv, Seen, Unread, Advancing
  <2> QED BY <1>0, <1>2, <2>1, <2>2, OneRequest DEF CachedEquity
<1>3. ASSUME ReadEquity(c) PROVE IInv'
  <2> DEFINE s == [r EXCEPT !.live = Snapshot, !.pc = "store"]
  <2>1. /\ DOMAIN s = Fields
        /\ s.pc = "store" /\ s.live = Snapshot
        /\ s.shown = r.shown /\ s.books = r.books
    BY <1>0 DEF Fields
  <2>2. ReqInv(s)
    BY <1>0, <1>3, <2>1
       DEF ReadEquity, Serving, ReqInv, Seen, Versions, Unread, Advancing
  <2> QED BY <1>0, <1>3, <2>1, <2>2, OneRequest DEF ReadEquity
<1>4. ASSUME StoreEquity(c) PROVE IInv'
  <2> DEFINE s == [r EXCEPT !.pc = After("equity")]
  <2>1. /\ DOMAIN s = Fields
        /\ s.pc = "usd" /\ s.live = r.live
        /\ s.shown = r.shown /\ s.books = r.books
    BY <1>0, StepOrder DEF Fields
  <2>2. ReqInv(s)
    BY <1>0, <1>4, <2>1
       DEF StoreEquity, Serving, ReqInv, Seen, Unread, Advancing
  <2>3. Seen(cache'.at)
    BY <1>0, <1>4 DEF StoreEquity, ReqInv
  <2> QED BY <1>0, <1>4, <2>1, <2>2, <2>3, OneRequest DEF StoreEquity
<1>5. ASSUME NoLiveData(c) PROVE IInv'
  <2> DEFINE s == [NoRequest EXCEPT !.pc = "no_live_data"]
  <2>1. ReqInv(s)
    BY <1>0, FreshRequest
  <2>2. DOMAIN s = Fields
    BY DEF NoRequest, Fields
  <2> QED BY <1>0, <1>5, <2>1, <2>2, OneRequest DEF NoLiveData
<1>6. ASSUME ReadUsd(c) PROVE IInv'
  <2> DEFINE shown == IF Whole THEN version ELSE None
             s == [r EXCEPT !.shown = shown, !.pc = After("usd")]
  <2>1. /\ DOMAIN s = Fields
        /\ s.pc = "books" /\ s.live = r.live
        /\ s.shown = shown /\ s.books = r.books
    BY <1>0, StepOrder DEF Fields
  <2>2. ReqInv(s)
    BY <1>0, <1>6, <2>1
       DEF ReadUsd, Serving, ReqInv, Seen, Versions, Unread, Advancing, None
  <2> QED BY <1>0, <1>6, <2>1, <2>2, OneRequest DEF ReadUsd
<1>7. ASSUME ReadBooks(c) PROVE IInv'
  <2>1. PICK readable, sum :
          Continue(c, [r EXCEPT !.books = IF readable THEN Snapshot ELSE @,
                                !.sum = sum, !.pc = After("books")])
    BY <1>7 DEF ReadBooks
  <2> DEFINE s == [r EXCEPT !.books = IF readable THEN Snapshot ELSE @,
                            !.sum = sum, !.pc = After("books")]
  <2>2. /\ DOMAIN s = Fields
        /\ s.pc = "reply" /\ s.live = r.live /\ s.shown = r.shown
        /\ s.books = Snapshot \/ s.books = r.books
    BY <1>0, StepOrder DEF Fields
  <2>3. ReqInv(s)
    BY <1>0, <1>7, <2>2
       DEF ReadBooks, Serving, ReqInv, Seen, Versions, Unread, Advancing, None
  <2>4. version' = version /\ cache' = cache
    BY <1>7 DEF ReadBooks
  <2> QED BY <1>0, <2>1, <2>2, <2>3, <2>4, OneRequest
<1>8. ASSUME Reply(c) PROVE IInv'
  <2>1. PICK result : Continue(c, [r EXCEPT !.result = result,
                                            !.pc = "replied"])
    BY <1>8 DEF Reply
  <2> DEFINE s == [r EXCEPT !.result = result, !.pc = "replied"]
  <2>2. /\ DOMAIN s = Fields
        /\ s.pc = "replied" /\ s.live = r.live
        /\ s.shown = r.shown /\ s.books = r.books
    BY <1>0 DEF Fields
  <2>3. ReqInv(s)
    BY <1>0, <2>2 DEF ReqInv, Unread, Advancing
  <2>4. version' = version /\ cache' = cache
    BY <1>8 DEF Reply
  <2> QED BY <1>0, <2>1, <2>2, <2>3, <2>4, OneRequest
<1>9. ASSUME IssueInvoice(c) PROVE IInv'
  BY <1>9, RestartInv DEF IssueInvoice
<1> QED BY <1>1, <1>2, <1>3, <1>4, <1>5, <1>6, <1>7, <1>8, <1>9 DEF Serve

-----------------------------------------------------------------------------

LEMMA ReadsStep == IInv /\ [Next]_vars => IInv'
<1> SUFFICES ASSUME IInv, [Next]_vars PROVE IInv'
  OBVIOUS
<1>1. CASE Environment
  BY <1>1, EnvironmentInv
<1>2. CASE Restart
  BY <1>2, RestartInv DEF Restart
<1>3. CASE \E c \in Callers : Serve(c)
  BY <1>3, ServeInv
<1>4. CASE UNCHANGED vars
  <2>1. version' = version /\ cache' = cache /\ req' = req
    BY <1>4 DEF vars
  <2> QED BY <2>1, NewVersion DEF IInv
<1> QED BY <1>1, <1>2, <1>3, <1>4 DEF Next

\* The equity a fee starts from, the equity shown and the transfers netted are
\* of versions of the curve in that order, however requests, cache fills, file
\* writes and restarts interleave (compute_current_fees).
THEOREM ReadsInOrder == Spec => []ReadsAdvance
<1>1. IInv => ReadsAdvance
  BY DEF IInv, ReqInv, Advancing, ReadsAdvance
<1> QED BY InitInv, ReadsStep, <1>1, PTL DEF Spec

-----------------------------------------------------------------------------
(* The curve, the snapshots taken of it and the mark *)

Point ==
    [date : Nat, equity : Int, transfer : Int, gain : Int, flow : Int]

\* A curve has one point a day from the seed date on, each with the balance of
\* its moment.
Daily(points) ==
    /\ points \in Seq(Point) /\ Len(points) >= 1
    /\ \A i \in 1..Len(points) :
         /\ points[i].date = i - 1
         /\ points[i].equity = Base + points[i].gain + points[i].flow

\* Written once a day, a curve starts with nothing deposited and flags as
\* transfer what was deposited since the point before.
WrittenOnce(points) ==
    /\ points[1].flow = 0
    /\ \A i \in 2..Len(points) :
         points[i].transfer = points[i].flow - points[i - 1].flow

Prolongs(longer, points) ==
    /\ Len(points) < Len(longer)
    /\ \A i \in 1..Len(points) : longer[i] = points[i]

\* What has been deposited when nothing is withdrawn
Deposited(low, high) == 0 <= low /\ low <= high

CurveInv ==
    /\ Daily(curve) /\ LastOf(curve).date <= account.day
    /\ pending \in Seq(Point)
    /\ pending # <<>> =>
         Daily(pending) /\ LastOf(pending).date <= account.day
    /\ hist.refreshed = FALSE =>
         /\ WrittenOnce(curve)
         /\ pending # <<>> => WrittenOnce(pending) /\ Prolongs(pending, curve)
    /\ hist.withdrew = FALSE =>
         /\ Deposited(LastOf(curve).flow, account.flow)
         /\ pending # <<>> =>
              /\ Deposited(LastOf(curve).flow, LastOf(pending).flow)
              /\ LastOf(pending).flow <= account.flow

\* A day of the curve, when it is written once a day, stays as it was read.
OnCurve(date, gain, flow) ==
    hist.refreshed = FALSE =>
      /\ date + 1 <= Len(curve)
      /\ curve[date + 1].gain = gain /\ curve[date + 1].flow = flow

Genuine(s) ==
    /\ s \in SnapshotType
    /\ s.at # None =>
         /\ s.at <= version
         /\ s.equity = Base + s.gain + s.flow
         /\ s.gain <= hist.high
         /\ OnCurve(s.date, s.gain, s.flow)
         /\ hist.withdrew = FALSE => 0 <= s.flow

\* Two snapshots of one version are the same, and without withdrawals a later
\* one has no less deposited.
InStep(s, t) ==
    s.at # None /\ t.at # None =>
      /\ s.at = t.at => s = t
      /\ hist.withdrew = FALSE /\ s.at <= t.at => s.flow <= t.flow

\* Every snapshot the service holds, and the one it would take now
Held ==
    {cache} \cup {req[c].live : c \in Callers} \cup {req[c].books : c \in Callers}

Snapshots == Held \cup {Snapshot}

SnapshotInv ==
    /\ \A s \in Snapshots : Genuine(s)
    /\ \A s, t \in Snapshots : InStep(s, t)
    /\ cache = NoSnapshot \/ cache.at # None

MarkInv ==
    /\ mark \in [value : Int, gain : Int, flow : Int, date : Nat]
    /\ mark.value = InitialEquity + mark.gain + mark.flow
    /\ mark.gain <= hist.high
    /\ OnCurve(mark.date, mark.gain, mark.flow)
    /\ hist.withdrew = FALSE => 0 <= mark.flow
    /\ hist.withdrew = FALSE /\ hist.refreshed = FALSE /\ hist.misread = FALSE
         => hist.billed <= mark.gain

\* What a request has computed from what it has read
Computed(r) ==
    /\ r.pc \in {"idle", "equity", "store", "usd", "books", "reply",
                 "replied", "no_live_data"}
    /\ r.shown \in Nat \cup {None} /\ r.sum \in Int /\ r.result \in Nat
    /\ r.pc \in {"store", "usd", "books", "reply", "replied"} =>
         r.live.at # None
    /\ r.pc \in {"reply", "replied"} /\ r.books.at # None =>
         /\ class = "at_hwm" /\ hist.refreshed = FALSE => r.sum = r.books.flow
         /\ class = "pnl_based" /\ r.books.at = version =>
              r.sum = LastOf(curve).equity - UsdtMoved(curve)
    /\ r.pc = "replied" =>
         /\ class = "at_hwm" => r.result = Billable(r.live.equity, r.sum)
         /\ class = "pnl_based" => r.result = Max0(RecoverySeed - r.sum)

HistType ==
    /\ hist.refreshed \in BOOLEAN /\ hist.withdrew \in BOOLEAN
    /\ hist.misread \in BOOLEAN
    /\ hist.billed \in Int /\ hist.high \in Int
    /\ DOMAIN hist = {"refreshed", "withdrew", "misread", "billed", "high",
                      "invoices"}

DataInv ==
    /\ class \in Classes
    /\ account \in [day : Nat, gain : Int, flow : Int, events : Nat]
    /\ HistType /\ CurveInv /\ SnapshotInv /\ MarkInv
    /\ \A c \in Callers : Computed(req[c])

LEMMA BaseType == Base \in Int
BY FeeAssumption DEF Base

LEMMA PointType ==
    ASSUME NEW p \in Point
    PROVE  /\ p.date \in Nat /\ p.equity \in Int /\ p.transfer \in Int
           /\ p.gain \in Int /\ p.flow \in Int
BY DEF Point

\* What the sums return for any curve
LEMMA DepositsType ==
    ASSUME NEW points \in Seq(Point)
    PROVE  DepositsSince(points) \in Int
<1>1. \A i \in 1..Len(points) : points[i] \in Point
  OBVIOUS
<1>2. \A i \in (0 + 1)..Len(points) : Deposit(points)[i] \in Int
  BY <1>1, PointType DEF Deposit
<1>3. Len(points) \in Nat /\ 0 \in Nat /\ 0 <= Len(points)
  OBVIOUS
<1>4. PICK g \in [0..Len(points) -> Int] :
             RunsUp(g, 0, Len(points), Deposit(points))
  BY <1>2, <1>3, RunningTotalExists
<1> QED BY <1>3, <1>4, DepositsRunUp

LEMMA JumpsType ==
    ASSUME NEW points \in Seq(Point), Len(points) >= 1
    PROVE  UsdtMoved(points) \in Int
<1>1. \A i \in 1..Len(points) : points[i] \in Point
  OBVIOUS
<1>2. \A i \in (1 + 1)..Len(points) : CountedJump(points)[i] \in Int
  <2>1. \A i \in 2..Len(points) : Jump(points, i) \in Int
    BY <1>1, PointType DEF Jump
  <2> QED BY <2>1 DEF CountedJump
<1>3. Len(points) \in Nat /\ 1 \in Nat /\ 1 <= Len(points)
  OBVIOUS
<1>4. PICK g \in [1..Len(points) -> Int] :
             RunsUp(g, 1, Len(points), CountedJump(points))
  BY <1>2, <1>3, RunningTotalExists
<1> QED BY <1>3, <1>4, JumpsRunUp

\* On a curve written once a day, the transfers add up to what is deposited.
LEMMA DepositsAreFlow ==
    ASSUME NEW points, Daily(points), WrittenOnce(points)
    PROVE  DepositsSince(points) = LastOf(points).flow
<1> DEFINE n == Len(points)
           g == [i \in 0..n |-> IF i = 0 THEN 0 ELSE points[i].flow]
<1>1. /\ n \in Nat /\ n >= 1
      /\ \A i \in 1..n : points[i] \in Point
  BY DEF Daily
<1>2. g \in [0..n -> Int]
  BY <1>1 DEF Point
<1>3. \A i \in 1..n : g[i] = g[i - 1] + Deposit(points)[i]
  <2> SUFFICES ASSUME NEW i \in 1..n
               PROVE  g[i] = g[i - 1] + Deposit(points)[i]
    OBVIOUS
  <2>1. CASE i = 1
    BY <1>1, <2>1 DEF Daily, WrittenOnce, Deposit, SeedDate
  <2>2. CASE i # 1
    <3>1. i \in 2..n /\ i - 1 \in 1..n /\ i - 1 # 0
      BY <2>2
    <3>2. points[i].date > SeedDate
      BY <3>1 DEF Daily, SeedDate
    <3>3. /\ points[i].flow \in Int /\ points[i - 1].flow \in Int
          /\ points[i].transfer = points[i].flow - points[i - 1].flow
      BY <1>1, <3>1 DEF WrittenOnce, Point
    <3>4. g[i] = points[i].flow /\ g[i - 1] = points[i - 1].flow
      BY <3>1
    <3>5. Deposit(points)[i] = points[i].transfer
      BY <3>1, <3>2 DEF Deposit
    <3> HIDE DEF g
    <3> QED BY <3>3, <3>4, <3>5
  <2> QED BY <2>1, <2>2
<1>4. RunsUp(g, 0, n, Deposit(points))
  <2>1. g[0] = 0
    BY <1>1
  <2>2. (0 + 1)..n = 1..n
    OBVIOUS
  <2> HIDE DEF g
  <2> QED BY <1>3, <2>1, <2>2 DEF RunsUp
<1>5. DepositsSince(points) = g[n]
  BY <1>1, <1>2, <1>4, DepositsRunUp
<1> QED BY <1>1, <1>5 DEF LastOf

\* Trading and transfers apart, and every transfer above the noise
Readable(points) ==
    \A i \in 2..Len(points) :
      points[i].transfer # 0 =>
        /\ points[i].gain = points[i - 1].gain
        /\ points[i].transfer > MinJump \/ points[i].transfer < -MinJump

\* There the counted jumps add up to what is deposited, too.
LEMMA JumpsAreFlow ==
    ASSUME NEW points, Daily(points), WrittenOnce(points), Readable(points)
    PROVE  UsdtMoved(points) = LastOf(points).flow
<1> DEFINE n == Len(points)
           g == [i \in 1..n |-> points[i].flow]
<1>1. /\ n \in Nat /\ n >= 1
      /\ \A i \in 1..n : points[i] \in Point
  BY DEF Daily
<1>2. g \in [1..n -> Int]
  BY <1>1 DEF Point
<1>3. \A i \in 2..n : g[i] = g[i - 1] + CountedJump(points)[i]
  <2> SUFFICES ASSUME NEW i \in 2..n
               PROVE  g[i] = g[i - 1] + CountedJump(points)[i]
    OBVIOUS
  <2> DEFINE p == points[i]
             q == points[i - 1]
  <2>1. i \in 1..n /\ i - 1 \in 1..n
    OBVIOUS
  <2>2. /\ p \in Point /\ q \in Point
        /\ p.date > SeedDate
        /\ p.transfer = p.flow - q.flow
        /\ Jump(points, i) = p.gain + p.flow - q.gain - q.flow
    <3>1. p \in Point /\ q \in Point
      BY <1>1, <2>1
    <3>2. p.date > SeedDate
      BY <2>1 DEF Daily, SeedDate
    <3>3. p.transfer = p.flow - q.flow
      BY DEF WrittenOnce
    <3>4. Jump(points, i) = (Base + p.gain + p.flow) - (Base + q.gain + q.flow)
      BY <2>1 DEF Daily, Jump
    <3> QED BY <3>1, <3>2, <3>3, <3>4, BaseType DEF Point
  <2>3. CASE p.transfer = 0
    <3>1. p.flow = q.flow
      BY <2>2, <2>3 DEF Point
    <3>2. CountedJump(points)[i] = 0
      BY <2>3 DEF CountedJump, Counted
    <3> QED BY <2>1, <2>2, <3>1, <3>2 DEF Point
  <2>4. CASE p.transfer # 0
    <3>1. Jump(points, i) = p.transfer
      BY <2>2, <2>4 DEF Readable, Point
    <3>2. Jump(points, i) > MinJump \/ Jump(points, i) < -MinJump
      BY <2>4, <3>1 DEF Readable
    <3>3. CountedJump(points)[i] = p.transfer
      BY <2>2, <2>4, <3>1, <3>2 DEF CountedJump, Counted
    <3> QED BY <2>1, <2>2, <3>3 DEF Point
  <2> QED BY <2>3, <2>4
<1>4. RunsUp(g, 1, n, CountedJump(points))
  <2>1. g[1] = 0
    BY <1>1 DEF WrittenOnce
  <2>2. (1 + 1)..n = 2..n
    OBVIOUS
  <2> HIDE DEF g
  <2> QED BY <1>3, <2>1, <2>2 DEF RunsUp
<1>5. UsdtMoved(points) = g[n]
  BY <1>1, <1>2, <1>4, JumpsRunUp
<1> QED BY <1>1, <1>5 DEF LastOf

\* Where nothing is flagged as a transfer up to a day, nothing was deposited.
LEMMA NothingDeposited ==
    ASSUME NEW points, Daily(points), WrittenOnce(points),
           NEW day \in Nat, day + 1 <= Len(points),
           \A i \in 1..Len(points) :
             points[i].date > SeedDate /\ points[i].date <= day
               => points[i].transfer = 0
    PROVE  points[day + 1].flow = 0
<1> DEFINE S == {d \in Nat : d <= day => points[d + 1].flow = 0}
<1>1. 0 \in S
  BY DEF WrittenOnce
<1>2. \A d \in Nat : d \in S => d + 1 \in S
  <2> SUFFICES ASSUME NEW d \in Nat, d + 1 <= day, points[d + 1].flow = 0
               PROVE  points[(d + 1) + 1].flow = 0
    OBVIOUS
  <2> DEFINE i == d + 2
  <2>1. i \in 2..Len(points) /\ i \in 1..Len(points) /\ i - 1 = d + 1
    BY DEF Daily
  <2>2. points[i].date = d + 1
    BY <2>1 DEF Daily
  <2>3. points[i].transfer = 0
    BY <2>1, <2>2 DEF SeedDate
  <2>4. points[i].transfer = points[i].flow - points[i - 1].flow
    BY <2>1 DEF WrittenOnce
  <2>5. points[i].flow \in Int
    BY <2>1, PointType DEF Daily
  <2>6. points[i].flow = 0
    BY <2>1, <2>3, <2>4, <2>5
  <2>7. (d + 1) + 1 = i
    OBVIOUS
  <2> QED BY <2>6, <2>7
<1>3. day \in S
  <2> HIDE DEF S
  <2> QED BY <1>1, <1>2, NatSetInduction
<1> QED BY <1>3

-----------------------------------------------------------------------------
(* The curve, step by step *)

LEMMA FilledPoint ==
    ASSUME NEW last \in Point, NEW i \in Nat
    PROVE  Filled(last, i) \in Point
BY DEF Point, Filled

LEMMA PointNowType ==
    ASSUME account \in [day : Nat, gain : Int, flow : Int, events : Nat],
           Daily(curve)
    PROVE  /\ PointNow \in Point
           /\ PointNow.date = account.day
           /\ PointNow.equity = Base + account.gain + account.flow
           /\ PointNow.transfer = account.flow - LastOf(curve).flow
           /\ PointNow.gain = account.gain
           /\ PointNow.flow = account.flow
<1>1. LastOf(curve) \in Point
  BY DEF Daily, LastOf
<1>2. LastOf(curve).flow \in Int
  BY <1>1, PointType
<1> QED BY <1>2, BaseType DEF PointNow, Point

\* On the same day, the last point is replaced.
LEMMA RewrittenSameDay ==
    ASSUME account \in [day : Nat, gain : Int, flow : Int, events : Nat],
           Daily(curve), LastOf(curve).date = account.day
    PROVE  /\ Rewritten \in Seq(Point)
           /\ Len(Rewritten) = Len(curve)
           /\ Rewritten[Len(curve)] = PointNow
           /\ \A i \in 1..(Len(curve) - 1) : Rewritten[i] = curve[i]
<1> DEFINE n == Len(curve)
           last == LastOf(curve)
           kept == SubSeq(curve, 1, n - 1)
           filled == [i \in 1..0 |-> Filled(last, i)]
<1>1. curve \in Seq(Point) /\ n \in Nat /\ n >= 1
  BY DEF Daily
<1>2. Rewritten = kept \o filled \o <<PointNow>>
  BY DEF Rewritten
<1>3. filled = <<>>
  OBVIOUS
<1>4. /\ kept \in Seq(Point) /\ Len(kept) = n - 1
      /\ \A i \in 1..(n - 1) : kept[i] = curve[i]
  <2>1. \A i \in 1..(n - 1) : curve[i] \in Point
    BY <1>1
  <2>2. 1 \in Int /\ n - 1 \in Int
    BY <1>1
  <2>3. /\ kept \in Seq(Point)
        /\ Len(kept) = IF 1 <= n - 1 THEN n - 1 - 1 + 1 ELSE 0
        /\ \A i \in 1..(n - 1 - 1 + 1) : kept[i] = curve[1 + i - 1]
    BY <2>1, <2>2, SubSeqProperties
  <2>4. ASSUME NEW i \in 1..(n - 1) PROVE kept[i] = curve[i]
    <3>1. i \in 1..(n - 1 - 1 + 1) /\ 1 + i - 1 = i
      BY <1>1
    <3> HIDE DEF kept, n
    <3> QED BY <2>3, <3>1
  <2>5. Len(kept) = n - 1
    <3> HIDE DEF kept, n
    <3> QED BY <1>1, <2>3
  <2> QED BY <2>3, <2>4, <2>5
<1>5. PointNow \in Point
  BY PointNowType
<1>6. Rewritten = kept \o <<PointNow>>
  <2> HIDE DEF kept, filled
  <2> QED BY <1>2, <1>3, <1>4
<1>7. /\ <<PointNow>> \in Seq(Point) /\ Len(<<PointNow>>) = 1
      /\ <<PointNow>>[1] = PointNow
  BY <1>5
<1>8. /\ Rewritten \in Seq(Point)
      /\ Len(Rewritten) = n
      /\ \A i \in 1..n : Rewritten[i] = IF i <= n - 1 THEN kept[i]
                                        ELSE <<PointNow>>[i - (n - 1)]
  <2> HIDE DEF kept, n
  <2> QED BY <1>1, <1>4, <1>6, <1>7, ConcatProperties
<1>9. Rewritten[n] = PointNow
  <2>1. n \in 1..n /\ ~(n <= n - 1) /\ n - (n - 1) = 1
    BY <1>1
  <2> HIDE DEF kept, n
  <2> QED BY <1>7, <1>8, <2>1
<1>10. \A i \in 1..(n - 1) : Rewritten[i] = curve[i]
  <2> HIDE DEF kept, n
  <2> QED BY <1>1, <1>4, <1>8
<1> QED BY <1>8, <1>9, <1>10

\* On a later day, the missed days and today's point are added.
LEMMA RewrittenLater ==
    ASSUME account \in [day : Nat, gain : Int, flow : Int, events : Nat],
           Daily(curve), LastOf(curve).date < account.day
    PROVE  /\ Rewritten \in Seq(Point)
           /\ Len(Rewritten) = account.day + 1
           /\ Len(curve) <= account.day
           /\ Rewritten[account.day + 1] = PointNow
           /\ \A i \in 1..Len(curve) : Rewritten[i] = curve[i]
           /\ \A i \in (Len(curve) + 1)..account.day :
                Rewritten[i] = Filled(LastOf(curve), i - Len(curve))
<1> DEFINE n == Len(curve)
           last == LastOf(curve)
           missed == account.day - last.date - 1
           filled == [i \in 1..missed |-> Filled(last, i)]
           body == curve \o filled
<1>1. /\ curve \in Seq(Point) /\ n \in Nat /\ n >= 1
      /\ last \in Point /\ last.date = n - 1
  BY DEF Daily, LastOf
<1>2. /\ account.day \in Nat
      /\ missed = account.day - n
      /\ missed \in Nat
  BY <1>1
<1>3. Rewritten = curve \o filled \o <<PointNow>>
  <2>1. last.date # account.day
    BY <1>1, <1>2
  <2> QED BY <2>1 DEF Rewritten
<1>4. \A i \in 1..missed : filled[i] = Filled(last, i)
                           /\ filled[i] \in Point
  <2> HIDE DEF last, missed
  <2> QED BY <1>1, FilledPoint
<1>5. filled \in Seq(Point) /\ Len(filled) = missed
  <2>1. filled \in [1..missed -> Point]
    <3> HIDE DEF missed
    <3> QED BY <1>4
  <2> HIDE DEF missed, filled
  <2> QED BY <1>2, <2>1
<1>6. PointNow \in Point
  BY PointNowType
<1>7. /\ body \in Seq(Point) /\ Len(body) = account.day
      /\ \A i \in 1..n : body[i] = curve[i]
      /\ \A i \in (n + 1)..account.day : body[i] = filled[i - n]
  <2> HIDE DEF filled, missed
  <2> QED BY <1>1, <1>2, <1>5
<1>8. \A i \in (n + 1)..account.day : body[i] = Filled(last, i - n)
  <2> SUFFICES ASSUME NEW i \in (n + 1)..account.day
               PROVE  body[i] = Filled(last, i - n)
    OBVIOUS
  <2>1. i - n \in 1..missed
    BY <1>1, <1>2
  <2> QED BY <1>4, <1>7, <2>1
<1>9. Rewritten = body \o <<PointNow>>
  BY <1>3
<1> HIDE DEF body, last
<1>10. /\ Rewritten \in Seq(Point) /\ Len(Rewritten) = account.day + 1
       /\ Rewritten[account.day + 1] = PointNow
       /\ \A i \in 1..account.day : Rewritten[i] = body[i]
  BY <1>2, <1>6, <1>7, <1>9
<1>11. n <= account.day
  BY <1>1, <1>2
<1> QED BY <1>1, <1>2, <1>7, <1>8, <1>10, <1>11 DEF last

AccountType == account \in [day : Nat, gain : Int, flow : Int, events : Nat]

\* What the job writes is a curve again. When the day is new it prolongs the
\* one before and flags the right transfer.
LEMMA RewrittenIsCurve ==
    ASSUME AccountType, Daily(curve), LastOf(curve).date <= account.day
    PROVE  /\ Daily(Rewritten) /\ Rewritten # <<>>
           /\ LastOf(Rewritten) = PointNow
           /\ LastOf(curve).date # account.day =>
                /\ Prolongs(Rewritten, curve)
                /\ WrittenOnce(curve) => WrittenOnce(Rewritten)
<1> DEFINE n == Len(curve)
           last == LastOf(curve)
           day == account.day
<1>1. /\ n \in Nat /\ n >= 1 /\ day \in Nat
      /\ last \in Point /\ last.date = n - 1 /\ last = curve[n]
      /\ last.equity = Base + last.gain + last.flow
      /\ \A i \in 1..n : curve[i] \in Point
  BY DEF Daily, LastOf, AccountType
<1>2. /\ PointNow.date = day
      /\ PointNow.equity = Base + PointNow.gain + PointNow.flow
      /\ PointNow.transfer = PointNow.flow - last.flow
  BY PointNowType DEF AccountType
<1>3. CASE last.date = day
  <2>1. /\ Rewritten \in Seq(Point) /\ Len(Rewritten) = n
        /\ Rewritten[n] = PointNow
        /\ \A i \in 1..(n - 1) : Rewritten[i] = curve[i]
    BY <1>3, RewrittenSameDay DEF AccountType
  <2>2. ASSUME NEW i \in 1..n
        PROVE  /\ Rewritten[i].date = i - 1
               /\ Rewritten[i].equity = Base + Rewritten[i].gain
                                             + Rewritten[i].flow
    <3>1. CASE i = n
      BY <1>1, <1>2, <1>3, <2>1, <3>1
    <3>2. CASE i # n
      <4>1. i \in 1..(n - 1)
        BY <1>1, <3>2
      <4> QED BY <2>1, <4>1 DEF Daily
    <3> QED BY <3>1, <3>2
  <2>3. Rewritten # <<>>
    BY <1>1, <2>1
  <2> QED BY <1>1, <1>3, <2>1, <2>2, <2>3 DEF Daily, LastOf
<1>4. CASE last.date < day
  <2>1. /\ Rewritten \in Seq(Point) /\ Len(Rewritten) = day + 1
        /\ n <= day
        /\ Rewritten[day + 1] = PointNow
        /\ \A i \in 1..n : Rewritten[i] = curve[i]
        /\ \A i \in (n + 1)..day : Rewritten[i] = Filled(last, i - n)
    BY <1>4, RewrittenLater DEF AccountType
  <2>2. ASSUME NEW i \in 1..(day + 1)
        PROVE  i \in 1..n \/ i \in (n + 1)..day \/ i = day + 1
    BY <1>1
  <2>3. ASSUME NEW i \in (n + 1)..day
        PROVE  /\ Rewritten[i].date = i - 1
               /\ Rewritten[i].equity = last.equity
               /\ Rewritten[i].transfer = 0
               /\ Rewritten[i].gain = last.gain
               /\ Rewritten[i].flow = last.flow
    <3>1. Rewritten[i] = Filled(last, i - n)
      BY <2>1
    <3>2. last.date + (i - n) = i - 1
      BY <1>1
    <3> HIDE DEF last, n
    <3> QED BY <3>1, <3>2 DEF Filled
  <2>4. ASSUME NEW i \in 1..(day + 1)
        PROVE  /\ Rewritten[i].date = i - 1
               /\ Rewritten[i].equity = Base + Rewritten[i].gain
                                             + Rewritten[i].flow
    <3>1. CASE i \in 1..n
      BY <2>1, <3>1 DEF Daily
    <3>2. CASE i \in (n + 1)..day
      BY <1>1, <2>3, <3>2
    <3>3. CASE i = day + 1
      BY <1>1, <1>2, <2>1, <3>3
    <3> QED BY <2>2, <3>1, <3>2, <3>3
  <2>5. Rewritten # <<>>
    BY <1>1, <2>1
  <2>6. Daily(Rewritten)
    BY <1>1, <2>1, <2>4 DEF Daily
  <2>7. Prolongs(Rewritten, curve)
    BY <1>1, <2>1 DEF Prolongs
  <2>8. ASSUME WrittenOnce(curve) PROVE WrittenOnce(Rewritten)
    <3>1. Rewritten[1].flow = 0
      BY <1>1, <2>1, <2>8 DEF WrittenOnce
    <3>2. ASSUME NEW i \in 2..(day + 1)
          PROVE  Rewritten[i].transfer
                   = Rewritten[i].flow - Rewritten[i - 1].flow
      <4> DEFINE p == Rewritten[i]
                 q == Rewritten[i - 1]
      <4>1. i \in 1..(day + 1) /\ i - 1 \in 1..(day + 1) /\ last.flow \in Int
        BY <1>1, PointType
      <4>2. CASE i \in 1..n
        <5>1. i \in 2..n /\ i - 1 \in 1..n
          BY <4>2
        <5> QED BY <2>1, <2>8, <5>1 DEF WrittenOnce
      <4>3. CASE i \notin 1..n
        <5>1. i - 1 = n \/ i - 1 \in (n + 1)..day
          BY <1>1, <4>3
        <5>2. q.flow = last.flow
          <6>1. CASE i - 1 = n
            BY <1>1, <2>1, <6>1
          <6>2. CASE i - 1 \in (n + 1)..day
            BY <2>3, <6>2
          <6> QED BY <5>1, <6>1, <6>2
        <5>3. CASE i \in (n + 1)..day
          BY <2>3, <4>1, <5>2, <5>3
        <5>4. CASE i = day + 1
          BY <1>2, <2>1, <5>2, <5>4
        <5> QED BY <2>2, <4>1, <4>3, <5>3, <5>4
      <4> QED BY <4>2, <4>3
    <3> QED BY <1>1, <2>1, <3>1, <3>2 DEF WrittenOnce
  <2> QED BY <1>1, <2>1, <2>5, <2>6, <2>7, <2>8 DEF LastOf
<1> QED BY <1>1, <1>3, <1>4

\* While the file and the account stay, so does what holds of them.
LEMMA CurveStays ==
    ASSUME CurveInv, class' = class, account' = account, curve' = curve,
           pending' = pending,
           hist'.refreshed = hist.refreshed, hist'.withdrew = hist.withdrew
    PROVE  CurveInv'
BY DEF CurveInv, Daily, Base, LastOf, WrittenOnce, Prolongs, Deposited


LEMMA MovedAccount ==
    ASSUME AccountType, NEW dGain \in Int, NEW dFlow \in Int,
           Moved(dGain, dFlow)
    PROVE  /\ AccountType' /\ account'.day = account.day
           /\ account'.gain = account.gain + dGain
           /\ account'.flow = account.flow + dFlow
BY DEF AccountType, Moved

LEMMA NextDayAccount ==
    ASSUME AccountType, NextDay
    PROVE  /\ AccountType' /\ account'.day = account.day + 1
           /\ account'.gain = account.gain
           /\ account'.flow = account.flow
BY DEF AccountType, NextDay

\* What a deposit or withdrawal leaves in the record of what happened
LEMMA MoveCashHist ==
    ASSUME HistType, NEW amount \in Int,
           hist' = [hist EXCEPT !.withdrew = @ \/ amount < 0]
    PROVE  /\ HistType'
           /\ hist'.refreshed = hist.refreshed
           /\ hist'.misread = hist.misread
           /\ hist'.billed = hist.billed /\ hist'.high = hist.high
           /\ hist'.withdrew = FALSE =>
                hist.withdrew = FALSE /\ amount >= 0
<1>1. /\ hist'.refreshed = hist.refreshed
      /\ hist'.misread = hist.misread
      /\ hist'.billed = hist.billed /\ hist'.high = hist.high
      /\ DOMAIN hist' = DOMAIN hist
  BY DEF HistType
<1>2. hist'.withdrew = (hist.withdrew \/ amount < 0)
  BY DEF HistType
<1>3. CASE amount < 0
  BY <1>1, <1>2, <1>3 DEF HistType
<1>4. CASE amount >= 0
  <2>1. hist'.withdrew = hist.withdrew
    BY <1>2, <1>4 DEF HistType
  <2> QED BY <1>1, <1>4, <2>1 DEF HistType
<1>5. amount < 0 \/ amount >= 0
  OBVIOUS
<1> QED BY <1>3, <1>4, <1>5, Zenon

LEMMA BeginWriteHist ==
    ASSUME HistType, NEW sameDay \in BOOLEAN,
           hist' = [hist EXCEPT !.refreshed = @ \/ sameDay]
    PROVE  /\ HistType'
           /\ hist'.withdrew = hist.withdrew
           /\ hist'.misread = hist.misread
           /\ hist'.billed = hist.billed /\ hist'.high = hist.high
           /\ hist'.refreshed = FALSE =>
                hist.refreshed = FALSE /\ sameDay = FALSE
<1>1. /\ hist'.withdrew = hist.withdrew
      /\ hist'.misread = hist.misread
      /\ hist'.billed = hist.billed /\ hist'.high = hist.high
      /\ DOMAIN hist' = DOMAIN hist
  BY DEF HistType
<1>2. hist'.refreshed = (hist.refreshed \/ sameDay)
  BY DEF HistType
<1> QED BY <1>1, <1>2 DEF HistType

LEMMA EndWriteHist ==
    ASSUME HistType, NEW gain \in Int,
           hist' = [hist EXCEPT !.high = IF gain > @ THEN gain ELSE @]
    PROVE  /\ HistType'
           /\ hist'.refreshed = hist.refreshed
           /\ hist'.withdrew = hist.withdrew
           /\ hist'.misread = hist.misread
           /\ hist'.billed = hist.billed
           /\ hist.high <= hist'.high /\ gain <= hist'.high
BY DEF HistType

LEMMA InvoiceHist ==
    ASSUME HistType, NEW amount \in Int, NEW unread \in BOOLEAN,
           hist' = [hist EXCEPT !.billed = @ + amount,
                                !.invoices = @ + 1,
                                !.misread = @ \/ unread]
    PROVE  /\ HistType'
           /\ hist'.refreshed = hist.refreshed
           /\ hist'.withdrew = hist.withdrew
           /\ hist'.high = hist.high
           /\ hist'.billed = hist.billed + amount
           /\ hist'.misread = FALSE =>
                hist.misread = FALSE /\ unread = FALSE
<1>1. /\ hist'.refreshed = hist.refreshed
      /\ hist'.withdrew = hist.withdrew
      /\ hist'.billed = hist.billed + amount /\ hist'.high = hist.high
      /\ DOMAIN hist' = DOMAIN hist
  BY DEF HistType
<1>2. hist'.misread = (hist.misread \/ unread)
  BY DEF HistType
<1> QED BY <1>1, <1>2 DEF HistType

\* A trade, a deposit, a withdrawal or a day leaves the curve what it was.
LEMMA AccountMovesCurve ==
    ASSUME CurveInv, AccountType, AccountType', class' = class,
           curve' = curve, pending' = pending,
           account.day <= account'.day,
           hist'.refreshed = hist.refreshed,
           hist'.withdrew = FALSE =>
             hist.withdrew = FALSE /\ account.flow <= account'.flow
    PROVE  CurveInv'
<1>1. /\ account.day \in Nat /\ account'.day \in Nat
      /\ account.flow \in Int /\ account'.flow \in Int
  BY DEF AccountType
<1>2. LastOf(curve) \in Point /\ (pending # <<>> => LastOf(pending) \in Point)
  BY DEF CurveInv, Daily, LastOf
<1>3. Daily(curve)' /\ (LastOf(curve).date <= account.day)'
  BY <1>1, <1>2, PointType DEF CurveInv, Daily, Base, LastOf
<1>4. (pending # <<>> =>
         Daily(pending) /\ LastOf(pending).date <= account.day)'
  BY <1>1, <1>2, PointType DEF CurveInv, Daily, Base, LastOf
<1>5. (hist.refreshed = FALSE =>
         /\ WrittenOnce(curve)
         /\ pending # <<>> => WrittenOnce(pending) /\ Prolongs(pending, curve))'
  BY DEF CurveInv, WrittenOnce, Prolongs
<1>6. (hist.withdrew = FALSE =>
         /\ Deposited(LastOf(curve).flow, account.flow)
         /\ pending # <<>> =>
              /\ Deposited(LastOf(curve).flow, LastOf(pending).flow)
              /\ LastOf(pending).flow <= account.flow)'
  BY <1>1, <1>2, PointType DEF CurveInv, Deposited, LastOf
<1> QED BY <1>3, <1>4, <1>5, <1>6 DEF CurveInv

LEMMA BeginWriteCurve ==
    ASSUME CurveInv, AccountType, HistType, BeginWrite
    PROVE  CurveInv' /\ HistType'
<1> DEFINE last == LastOf(curve)
           sameDay == last.date = account.day
<1>1. /\ pending' = Rewritten /\ curve' = curve /\ account' = account
      /\ class' = class
      /\ hist' = [hist EXCEPT !.refreshed = @ \/ sameDay]
  BY DEF BeginWrite
<1>2. sameDay \in BOOLEAN
  OBVIOUS
<1>3. /\ HistType' /\ hist'.withdrew = hist.withdrew
      /\ hist'.refreshed = FALSE =>
           hist.refreshed = FALSE /\ last.date # account.day
  <2> HIDE DEF sameDay
  <2>1. /\ HistType' /\ hist'.withdrew = hist.withdrew
        /\ hist'.refreshed = FALSE =>
             hist.refreshed = FALSE /\ sameDay = FALSE
    BY <1>1, <1>2, BeginWriteHist
  <2> QED BY <2>1 DEF sameDay
<1>4. /\ Daily(Rewritten) /\ Rewritten # <<>>
      /\ LastOf(Rewritten) = PointNow
      /\ last.date # account.day =>
           /\ Prolongs(Rewritten, curve)
           /\ WrittenOnce(curve) => WrittenOnce(Rewritten)
  BY RewrittenIsCurve DEF CurveInv
<1>5. PointNow.date = account.day /\ PointNow.flow = account.flow
  BY PointNowType DEF CurveInv, AccountType
<1> DEFINE p == Rewritten
<1>6. /\ Daily(p) /\ p # <<>>
      /\ LastOf(p).date = account.day /\ LastOf(p).flow = account.flow
      /\ hist'.refreshed = FALSE => WrittenOnce(p) /\ Prolongs(p, curve)
      /\ pending' = p
  BY <1>1, <1>3, <1>4, <1>5 DEF CurveInv
<1> HIDE DEF p
<1>7. p \in Seq(Point) /\ account.day \in Nat /\ account.flow \in Int
  BY <1>6 DEF Daily, AccountType
<1>8. Daily(curve)' /\ (LastOf(curve).date <= account.day)'
  BY <1>1 DEF CurveInv, Daily, Base, LastOf
<1>9. Daily(pending)' /\ (LastOf(pending).date <= account.day)'
  BY <1>1, <1>6, <1>7 DEF Daily, Base, LastOf
<1>10. (hist.refreshed = FALSE =>
          /\ WrittenOnce(curve)
          /\ pending # <<>> => WrittenOnce(pending) /\ Prolongs(pending, curve))'
  BY <1>1, <1>3, <1>6 DEF CurveInv, WrittenOnce, Prolongs
<1>11. (hist.withdrew = FALSE =>
          /\ Deposited(LastOf(curve).flow, account.flow)
          /\ pending # <<>> =>
               /\ Deposited(LastOf(curve).flow, LastOf(pending).flow)
               /\ LastOf(pending).flow <= account.flow)'
  BY <1>1, <1>3, <1>6, <1>7 DEF CurveInv, Deposited, LastOf
<1>12. pending' \in Seq(Point)
  BY <1>6, <1>7
<1> QED BY <1>3, <1>8, <1>9, <1>10, <1>11, <1>12 DEF CurveInv

LEMMA EndWriteCurve ==
    ASSUME CurveInv, AccountType, HistType, EndWrite
    PROVE  /\ CurveInv' /\ HistType'
           /\ hist'.refreshed = hist.refreshed
           /\ hist'.withdrew = hist.withdrew
           /\ hist'.misread = hist.misread
           /\ hist'.billed = hist.billed
           /\ hist.high <= hist'.high /\ LastOf(pending).gain <= hist'.high
<1>1. /\ pending # <<>> /\ curve' = pending /\ pending' = <<>>
      /\ account' = account /\ class' = class
      /\ hist' = [hist EXCEPT !.high = IF LastOf(pending).gain > @
                                       THEN LastOf(pending).gain ELSE @]
  BY DEF EndWrite, Whole
<1>2. /\ Daily(pending) /\ LastOf(pending).date <= account.day
      /\ LastOf(pending) \in Point
  BY <1>1 DEF CurveInv, Daily, LastOf
<1>3. LastOf(pending).gain \in Int /\ LastOf(pending).flow \in Int
  BY <1>2, PointType
<1>4. /\ HistType'
      /\ hist'.refreshed = hist.refreshed
      /\ hist'.withdrew = hist.withdrew
      /\ hist'.misread = hist.misread
      /\ hist'.billed = hist.billed
      /\ hist.high <= hist'.high /\ LastOf(pending).gain <= hist'.high
  <2> DEFINE gain == LastOf(pending).gain
  <2> HIDE DEF gain
  <2>1. gain \in Int
    BY <1>3 DEF gain
  <2>2. hist' = [hist EXCEPT !.high = IF gain > @ THEN gain ELSE @]
    BY <1>1 DEF gain
  <2>3. /\ HistType'
        /\ hist'.refreshed = hist.refreshed
        /\ hist'.withdrew = hist.withdrew
        /\ hist'.misread = hist.misread
        /\ hist'.billed = hist.billed
        /\ hist.high <= hist'.high /\ gain <= hist'.high
    BY <2>1, <2>2, EndWriteHist
  <2> QED BY <2>3 DEF gain
<1>5. Daily(curve)' /\ (LastOf(curve).date <= account.day)'
  BY <1>1, <1>2 DEF Daily, Base, LastOf
<1>6. (hist.refreshed = FALSE => WrittenOnce(curve))'
  <2>1. hist'.refreshed = FALSE => WrittenOnce(pending)
    BY <1>1, <1>4 DEF CurveInv
  <2>2. WrittenOnce(curve)' = WrittenOnce(pending)
    BY <1>1 DEF WrittenOnce
  <2> QED BY <2>1, <2>2
<1>7. (hist.withdrew = FALSE => Deposited(LastOf(curve).flow, account.flow))'
  <2>1. hist.withdrew = FALSE =>
          0 <= LastOf(pending).flow /\ LastOf(pending).flow <= account.flow
    <3>1. LastOf(curve).flow \in Int
      BY PointType DEF CurveInv, Daily, LastOf
    <3> QED BY <1>1, <1>3, <3>1 DEF CurveInv, Deposited
  <2>2. LastOf(curve)' = LastOf(pending)
    BY <1>1 DEF LastOf
  <2> QED BY <1>1, <1>4, <2>1, <2>2 DEF Deposited
<1>8. pending' \in Seq(Point) /\ ~(pending # <<>>)'
  BY <1>1
<1> QED BY <1>4, <1>5, <1>6, <1>7, <1>8 DEF CurveInv

-----------------------------------------------------------------------------
(* The snapshots and the mark, step by step *)

\* What happened is only ever added to.
HistGrows ==
    /\ hist'.refreshed = FALSE => hist.refreshed = FALSE
    /\ hist'.withdrew = FALSE => hist.withdrew = FALSE
    /\ hist.high <= hist'.high

LEMMA SameHist == HistType /\ hist' = hist => HistGrows /\ HistType'
BY DEF HistType, HistGrows

LEMMA SnapshotFields ==
    ASSUME NEW s \in SnapshotType
    PROVE  /\ s.equity \in Int /\ s.gain \in Int /\ s.flow \in Int
           /\ s.date \in Nat /\ s.at \in Nat \cup {None}
BY DEF SnapshotType

LEMMA NoSnapshotGenuine ==
    /\ Genuine(NoSnapshot) /\ NoSnapshot.at = None
    /\ \A t : InStep(NoSnapshot, t) /\ InStep(t, NoSnapshot)
BY DEF Genuine, SnapshotType, NoSnapshot, InStep, None

\* What the last point of the curve says, a snapshot taken now says.
LEMMA FreshSnapshot ==
    CurveInv /\ version \in Nat /\ LastOf(curve).gain <= hist.high
      => Genuine(Snapshot) /\ Snapshot.at = version
<1> SUFFICES ASSUME CurveInv, version \in Nat, LastOf(curve).gain <= hist.high
             PROVE  Genuine(Snapshot) /\ Snapshot.at = version
  OBVIOUS
<1> DEFINE n == Len(curve)
           last == LastOf(curve)
<1>1. /\ n \in Nat /\ n >= 1 /\ last \in Point /\ last = curve[n]
      /\ last.date = n - 1 /\ last.equity = Base + last.gain + last.flow
  BY DEF CurveInv, Daily, LastOf
<1>2. /\ last.date \in Nat /\ last.equity \in Int /\ last.gain \in Int
      /\ last.flow \in Int
  BY <1>1, PointType
<1>3. /\ Snapshot.equity = last.equity /\ Snapshot.gain = last.gain
      /\ Snapshot.flow = last.flow /\ Snapshot.date = last.date
      /\ Snapshot.at = version
  BY DEF Snapshot
<1>4. Snapshot \in SnapshotType
  <2> HIDE DEF last
  <2> QED BY <1>2 DEF Snapshot, SnapshotType, last
<1>5. OnCurve(Snapshot.date, Snapshot.gain, Snapshot.flow)
  <2>1. last.date + 1 = n
    BY <1>1
  <2> QED BY <1>1, <1>3, <2>1 DEF OnCurve
<1>6. hist.withdrew = FALSE => 0 <= last.flow
  BY DEF CurveInv, Deposited
<1> HIDE DEF last
<1> QED BY <1>1, <1>3, <1>4, <1>5, <1>6 DEF Genuine, last

\* The curve stays, or is prolonged while it is written once a day.
CurveKept ==
    \/ curve' = curve
    \/ hist'.refreshed = FALSE =>
         /\ Len(curve) < Len(curve') /\ Len(curve') \in Nat
         /\ \A i \in 1..Len(curve) : curve'[i] = curve[i]

\* A day of the curve stays where it is, and a snapshot stays genuine.
LEMMA OnCurveStays ==
    ASSUME HistGrows, NEW date \in Nat, NEW gain, NEW flow,
           OnCurve(date, gain, flow), curve \in Seq(Point),
           CurveKept
    PROVE  OnCurve(date, gain, flow)'
<1>1. date + 1 >= 1 /\ Len(curve) \in Nat
  OBVIOUS
<1> QED BY <1>1 DEF OnCurve, HistGrows, CurveKept

LEMMA GenuineStays ==
    ASSUME HistType, HistType', HistGrows, NEW s, Genuine(s),
           class' = class, version \in Nat, version' \in Nat,
           version <= version', curve \in Seq(Point),
           CurveKept
    PROVE  Genuine(s)'
<1>1. s \in SnapshotType /\ s.date \in Nat /\ s.gain \in Int
      /\ s.at \in Nat \cup {None}
  BY SnapshotFields DEF Genuine
<1>2. hist.high \in Int /\ hist'.high \in Int
  BY DEF HistType
<1>3. s.at # None => OnCurve(s.date, s.gain, s.flow)'
  BY <1>1, OnCurveStays DEF Genuine
<1>4. s.at # None => s.gain <= hist'.high
  BY <1>1, <1>2 DEF Genuine, HistGrows
<1>5. s.at # None => s.at <= version'
  BY <1>1 DEF Genuine, None
<1>6. s.at # None /\ hist'.withdrew = FALSE => 0 <= s.flow
  BY DEF Genuine, HistGrows
<1>7. s.at # None => s.equity = (Base + s.gain + s.flow)'
  BY DEF Genuine, Base
<1> QED BY <1>1, <1>3, <1>4, <1>5, <1>6, <1>7 DEF Genuine

\* Steps that write no curve pass on the snapshots they find, or drop them.
LEMMA SnapshotsPassedOn ==
    ASSUME SnapshotInv, CurveInv, HistType, HistType', HistGrows,
           class' = class, curve' = curve,
           version \in Nat, version' = version,
           Snapshots' \subseteq Snapshots \cup {NoSnapshot},
           cache' = NoSnapshot \/ cache'.at # None
    PROVE  SnapshotInv'
<1>1. curve \in Seq(Point)
  BY DEF CurveInv, Daily
<1>2. ASSUME NEW s \in Snapshots' PROVE Genuine(s)'
  <2>1. Genuine(s)
    BY <1>2, NoSnapshotGenuine DEF SnapshotInv
  <2> QED BY <1>1, <2>1, GenuineStays DEF CurveKept
<1>3. ASSUME NEW s \in Snapshots', NEW t \in Snapshots' PROVE InStep(s, t)'
  <2>1. InStep(s, t)
    BY <1>3, NoSnapshotGenuine DEF SnapshotInv
  <2> QED BY <2>1 DEF InStep, HistGrows
<1>4. \A s \in Snapshots' : Genuine(s)'
  BY <1>2
<1>5. \A s, t \in Snapshots' : InStep(s, t)'
  BY <1>3
<1> QED BY <1>4, <1>5 DEF SnapshotInv

\* A new version of the file is a new snapshot, later than every other.
LEMMA EndWriteSnapshots ==
    ASSUME IInv, SnapshotInv, CurveInv, AccountType, HistType, EndWrite
    PROVE  SnapshotInv'
<1>1. /\ CurveInv' /\ HistType'
      /\ hist'.refreshed = hist.refreshed
      /\ hist'.withdrew = hist.withdrew
      /\ hist.high <= hist'.high /\ LastOf(pending).gain <= hist'.high
  BY EndWriteCurve
<1>2. /\ version \in Nat /\ version' = version + 1 /\ class' = class
      /\ curve' = pending /\ pending # <<>> /\ cache' = cache /\ req' = req
  BY DEF IInv, EndWrite, Whole
<1>3. HistGrows
  BY <1>1 DEF HistGrows
<1>4. (Genuine(Snapshot) /\ Snapshot.at = version)'
  <2>1. LastOf(curve)' = LastOf(pending)
    BY <1>2 DEF LastOf
  <2>2. (CurveInv /\ version \in Nat /\ LastOf(curve).gain <= hist.high)'
    BY <1>1, <1>2, <2>1
  <2> QED BY <2>2, FreshSnapshot, PTL
<1>5. curve \in Seq(Point) /\ pending \in Seq(Point)
  BY DEF CurveInv, Daily
<1>6. hist'.refreshed = FALSE => Prolongs(curve', curve)
  BY <1>1, <1>2 DEF CurveInv
<1>7. hist'.refreshed = FALSE =>
        /\ Len(curve) < Len(curve') /\ Len(curve') \in Nat
        /\ \A i \in 1..Len(curve) : curve'[i] = curve[i]
  BY <1>2, <1>5, <1>6 DEF Prolongs
<1>8. Snapshots' \subseteq Snapshots \cup {Snapshot'}
  <2>1. Held' = Held
    BY <1>2 DEF Held
  <2> QED BY <2>1 DEF Snapshots
<1>9. ASSUME NEW s \in Snapshots PROVE Genuine(s)'
  <2>1. Genuine(s)
    BY DEF SnapshotInv
  <2>2. version' \in Nat /\ version <= version'
    BY <1>2
  <2> QED BY <1>1, <1>2, <1>3, <1>5, <1>7, <2>1, <2>2, GenuineStays
     DEF CurveKept
<1>10. \A s \in Snapshots' : Genuine(s)'
  BY <1>4, <1>8, <1>9
<1>11. PICK fresh : fresh = Snapshot'
  OBVIOUS
<1>12. /\ fresh.at = version + 1
       /\ hist'.withdrew = FALSE => LastOf(curve).flow <= fresh.flow
  <2>1. fresh.flow = LastOf(pending).flow
    BY <1>2, <1>11 DEF Snapshot, LastOf
  <2> QED BY <1>1, <1>2, <1>4, <1>11, <2>1 DEF CurveInv, Deposited
<1>13. fresh.flow \in Int
  BY <1>4, <1>11, SnapshotFields DEF Genuine
<1>14. ASSUME NEW s \in Snapshots
       PROVE  /\ s.at # None => s.at <= version /\ s.at \in Nat
              /\ s.at # None /\ hist'.withdrew = FALSE => s.flow <= fresh.flow
  <2>1. Genuine(s) /\ Genuine(Snapshot) /\ InStep(s, Snapshot)
    BY DEF SnapshotInv, Snapshots
  <2>2. /\ s.at \in Nat \cup {None} /\ s.flow \in Int
        /\ s.at # None => s.at <= version
    BY <2>1, SnapshotFields DEF Genuine
  <2>3. /\ Snapshot.at = version /\ Snapshot.flow = LastOf(curve).flow
        /\ Snapshot.flow \in Int /\ version # None
    BY <1>2, <2>1, SnapshotFields DEF Snapshot, Genuine, None
  <2>4. s.at # None /\ hist'.withdrew = FALSE => s.flow <= LastOf(curve).flow
    BY <1>1, <2>1, <2>2, <2>3 DEF InStep
  <2>5. LastOf(curve).flow \in Int
    BY <2>3
  <2>6. s.at # None => s.at <= version /\ s.at \in Nat
    BY <2>2
  <2>7. s.at # None /\ hist'.withdrew = FALSE => s.flow <= fresh.flow
    BY <1>12, <1>13, <2>2, <2>4, <2>5
  <2> QED BY <2>6, <2>7
<1>15. ASSUME NEW s \in Snapshots
       PROVE  InStep(s, fresh)' /\ InStep(fresh, s)'
  <2>1. s.at # None => s.at # fresh.at /\ ~(fresh.at <= s.at)
    <3>1. s.at # None => s.at <= version /\ s.at \in Nat
      BY <1>14
    <3>2. version \in Nat /\ fresh.at = version + 1
      BY <1>2, <1>12
    <3> QED BY <3>1, <3>2
  <2>2. s.at # None /\ hist'.withdrew = FALSE => s.flow <= fresh.flow
    BY <1>14
  <2> QED BY <2>1, <2>2 DEF InStep
<1>16. \A s, t \in Snapshots : InStep(s, t)'
  BY <1>1 DEF SnapshotInv, InStep
<1>17. InStep(fresh, fresh)'
  BY <1>13 DEF InStep
<1>18. \A s, t \in Snapshots' : InStep(s, t)'
  BY <1>8, <1>11, <1>15, <1>16, <1>17
<1>19. (cache = NoSnapshot \/ cache.at # None)'
  BY <1>2 DEF SnapshotInv
<1> QED BY <1>10, <1>18, <1>19 DEF SnapshotInv

\* The mark stays what it was when the curve stays or is prolonged.
LEMMA MarkStays ==
    ASSUME MarkInv, HistType, HistType', HistGrows, mark' = mark,
           hist'.billed = hist.billed, hist'.misread = hist.misread,
           curve \in Seq(Point),
           CurveKept
    PROVE  MarkInv'
<1>1. mark.date \in Nat /\ mark.gain \in Int /\ mark.flow \in Int
  BY DEF MarkInv
<1>2. OnCurve(mark.date, mark.gain, mark.flow)'
  <2>1. PICK date \in Nat, gain \in Int, flow \in Int :
          date = mark.date /\ gain = mark.gain /\ flow = mark.flow
    BY <1>1
  <2>2. OnCurve(date, gain, flow)
    BY <2>1 DEF MarkInv
  <2>3. OnCurve(date, gain, flow)'
    BY <2>2, OnCurveStays
  <2> QED BY <2>1, <2>3 DEF OnCurve
<1>3. mark'.gain <= hist'.high
  BY <1>1 DEF MarkInv, HistType, HistGrows
<1> QED BY <1>2, <1>3 DEF MarkInv, HistGrows

\* A request that does not move keeps what it has computed: the mark and the
\* class stay, and its books are of the version of the file or of an older one.
LEMMA ComputedStays ==
    ASSUME NEW r, Computed(r), class' = class, mark' = mark,
           hist'.refreshed = FALSE => hist.refreshed = FALSE,
           \/ curve' = curve /\ version' = version
           \/ r.books.at # None => r.books.at # version'
    PROVE  Computed(r)'
<1>1. (r.pc \in {"reply", "replied"} /\ r.books.at # None =>
         /\ class = "at_hwm" /\ hist.refreshed = FALSE => r.sum = r.books.flow
         /\ class = "pnl_based" /\ r.books.at = version =>
              r.sum = LastOf(curve).equity - UsdtMoved(curve))'
  BY DEF Computed, LastOf
<1>2. (r.pc = "replied" =>
         /\ class = "at_hwm" => r.result = Billable(r.live.equity, r.sum)
         /\ class = "pnl_based" => r.result = Max0(RecoverySeed - r.sum))'
  BY DEF Computed, Billable
<1> QED BY <1>1, <1>2 DEF Computed

LEMMA ComputedOf ==
    ASSUME NEW c, NEW r, r = req'[c], Computed(r)'
    PROVE  Computed(req[c])'
BY DEF Computed, Billable

LEMMA FreshComputed ==
    ASSUME NEW step \in {"idle", "equity", "no_live_data"}
    PROVE  Computed([NoRequest EXCEPT !.pc = step])
<1> DEFINE r == [NoRequest EXCEPT !.pc = step]
<1>1. /\ r.pc = step /\ r.live = NoSnapshot /\ r.shown = None
      /\ r.books = NoSnapshot /\ r.sum = 0 /\ r.result = 0
  BY DEF NoRequest
<1>2. r.pc \notin {"store", "usd", "books", "reply", "replied"}
  BY <1>1
<1>3. r.pc \in {"idle", "equity", "no_live_data"}
  BY <1>1
<1> HIDE DEF r
<1>4. r.shown \in Nat \cup {None} /\ r.sum \in Int /\ r.result \in Nat
  BY <1>1
<1>5. Computed(r)
  BY <1>2, <1>3, <1>4 DEF Computed
<1> QED BY <1>5 DEF r

LEMMA IdleComputed == Computed(NoRequest)
BY DEF Computed, NoRequest, NoSnapshot, None

\* What one step of a request has to show
LEMMA OneRequestData ==
    ASSUME IInv, DataInv, NEW c \in Callers, NEW r, Continue(c, r),
           UNCHANGED <<class, account, curve, pending, version, mark, hist>>,
           r.live \in Held \cup {Snapshot, NoSnapshot},
           r.books \in Held \cup {Snapshot, NoSnapshot},
           cache' \in Held \cup {Snapshot, NoSnapshot},
           cache' = NoSnapshot \/ cache'.at # None,
           Computed(r)
    PROVE  DataInv'
<1>1. \A d \in Callers : req'[d] = IF d = c THEN r ELSE req[d]
  BY DEF IInv, ReqShape, Continue
<1>2. HistGrows /\ HistType'
  BY SameHist DEF DataInv
<1>3. CurveInv'
  BY CurveStays DEF DataInv
<1>4. Snapshot' = Snapshot
  BY DEF Snapshot, LastOf
<1>5. Held' \subseteq Held \cup {Snapshot, NoSnapshot}
  <2>1. ASSUME NEW d \in Callers
        PROVE  /\ req'[d].live \in Held \cup {Snapshot, NoSnapshot}
               /\ req'[d].books \in Held \cup {Snapshot, NoSnapshot}
    BY <1>1 DEF Held
  <2> HIDE DEF Snapshot
  <2>2. Held' = {cache'} \cup {req'[d].live : d \in Callers}
                         \cup {req'[d].books : d \in Callers}
    BY DEF Held
  <2> QED BY <2>1, <2>2
<1>6. SnapshotInv'
  <2>1. Snapshots' \subseteq Snapshots \cup {NoSnapshot}
    BY <1>4, <1>5 DEF Snapshots
  <2> QED BY <1>2, <2>1, SnapshotsPassedOn DEF DataInv, IInv
<1>7. MarkInv'
  <2>1. curve \in Seq(Point)
    BY DEF DataInv, CurveInv, Daily
  <2> QED BY <1>2, <2>1, MarkStays DEF DataInv, CurveKept
<1>8. ASSUME NEW d \in Callers PROVE Computed(req[d])'
  <2>1. PICK q : q = req'[d]
    OBVIOUS
  <2>2. Computed(q)
    BY <1>1, <2>1 DEF DataInv
  <2>3. Computed(q)'
    BY <2>2, ComputedStays
  <2> QED BY <2>1, <2>3, ComputedOf
<1>9. \A d \in Callers : Computed(req[d])'
  BY <1>8
<1>10. (/\ class \in Classes
        /\ account \in [day : Nat, gain : Int, flow : Int, events : Nat])'
  BY DEF DataInv
<1> QED BY <1>2, <1>3, <1>6, <1>7, <1>9, <1>10 DEF DataInv

\* What a step of a request may use of the snapshots held
LEMMA HeldFacts ==
    ASSUME IInv, DataInv, NEW c \in Callers
    PROVE  /\ cache \in Held /\ req[c].live \in Held /\ req[c].books \in Held
           /\ Genuine(Snapshot) /\ Genuine(req[c].live) /\ Genuine(req[c].books)
           /\ InStep(req[c].live, req[c].books)
           /\ InStep(req[c].books, Snapshot)
           /\ cache = NoSnapshot \/ cache.at # None
           /\ Snapshot.at = version /\ version \in Nat
           /\ Computed(req[c]) /\ ReqInv(req[c]) /\ DOMAIN req[c] = Fields
BY DEF DataInv, SnapshotInv, Snapshots, Held, IInv, ReqShape, Snapshot

LEMMA ServeData ==
    ASSUME IInv, DataInv, NEW c \in Callers, Serve(c), ~IssueInvoice(c)
    PROVE  DataInv'
<1> DEFINE r == req[c]
<1>0. /\ cache \in Held /\ r.live \in Held /\ r.books \in Held
      /\ Genuine(Snapshot) /\ Genuine(r.live) /\ Genuine(r.books)
      /\ InStep(r.live, r.books) /\ InStep(r.books, Snapshot)
      /\ cache = NoSnapshot \/ cache.at # None
      /\ Snapshot.at = version /\ version \in Nat
      /\ Computed(r) /\ ReqInv(r) /\ DOMAIN r = Fields
  BY HeldFacts
<1>00. version # None /\ NoSnapshot.at = None
  BY <1>0 DEF None, NoSnapshot
<1> HIDE DEF r
<1>1. ASSUME Call(c) PROVE DataInv'
  <2> DEFINE s == [NoRequest EXCEPT !.pc = Order[1]]
  <2>1. Computed(s)
    BY FreshComputed, StepOrder
  <2>2. s.live = NoSnapshot /\ s.books = NoSnapshot
    BY DEF NoRequest
  <2> HIDE DEF s
  <2>3. Continue(c, s) /\ cache' = cache
        /\ UNCHANGED <<class, account, curve, pending, version, mark, hist>>
    BY <1>1 DEF Call, s
  <2> QED BY <1>0, <2>1, <2>2, <2>3, OneRequestData
<1>2. ASSUME CachedEquity(c) PROVE DataInv'
  <2> DEFINE s == [r EXCEPT !.live = cache, !.pc = After("equity")]
  <2>1. /\ s.pc = "usd" /\ s.live = cache /\ s.shown = r.shown
        /\ s.books = r.books /\ s.sum = r.sum /\ s.result = r.result
    BY <1>0, StepOrder DEF Fields
  <2> HIDE DEF s
  <2>2. /\ Continue(c, s) /\ cache' = cache /\ cache # NoSnapshot
        /\ UNCHANGED <<class, account, curve, pending, version, mark, hist>>
    BY <1>2 DEF CachedEquity, r, s
  <2>3. Computed(s)
    BY <1>0, <2>1, <2>2 DEF Computed
  <2> QED BY <1>0, <2>1, <2>2, <2>3, OneRequestData
<1>3. ASSUME ReadEquity(c) PROVE DataInv'
  <2> DEFINE s == [r EXCEPT !.live = Snapshot, !.pc = "store"]
  <2>1. /\ s.pc = "store" /\ s.live = Snapshot /\ s.shown = r.shown
        /\ s.books = r.books /\ s.sum = r.sum /\ s.result = r.result
    BY <1>0 DEF Fields
  <2> HIDE DEF s
  <2>2. /\ Continue(c, s) /\ cache' = cache
        /\ UNCHANGED <<class, account, curve, pending, version, mark, hist>>
    BY <1>3 DEF ReadEquity, r, s
  <2>3. Computed(s)
    BY <1>0, <1>00, <2>1 DEF Computed
  <2> QED BY <1>0, <2>1, <2>2, <2>3, OneRequestData
<1>4. ASSUME StoreEquity(c) PROVE DataInv'
  <2> DEFINE s == [r EXCEPT !.pc = After("equity")]
  <2>1. /\ s.pc = "usd" /\ s.live = r.live /\ s.shown = r.shown
        /\ s.books = r.books /\ s.sum = r.sum /\ s.result = r.result
    BY <1>0, StepOrder DEF Fields
  <2> HIDE DEF s
  <2>2. /\ Continue(c, s) /\ cache' = r.live /\ r.pc = "store"
        /\ UNCHANGED <<class, account, curve, pending, version, mark, hist>>
    BY <1>4 DEF StoreEquity, Serving, r, s
  <2>3. r.live.at # None
    BY <1>0, <2>2 DEF Computed
  <2>4. Computed(s)
    BY <1>0, <2>1, <2>3 DEF Computed
  <2> QED BY <1>0, <2>1, <2>2, <2>3, <2>4, OneRequestData
<1>5. ASSUME NoLiveData(c) PROVE DataInv'
  <2> DEFINE s == [NoRequest EXCEPT !.pc = "no_live_data"]
  <2>1. Computed(s)
    BY FreshComputed
  <2>2. s.live = NoSnapshot /\ s.books = NoSnapshot
    BY DEF NoRequest
  <2> HIDE DEF s
  <2>3. Continue(c, s) /\ cache' = cache
        /\ UNCHANGED <<class, account, curve, pending, version, mark, hist>>
    BY <1>5 DEF NoLiveData, s
  <2> QED BY <1>0, <2>1, <2>2, <2>3, OneRequestData
<1>6. ASSUME ReadUsd(c) PROVE DataInv'
  <2> DEFINE shown == IF Whole THEN version ELSE None
             s == [r EXCEPT !.shown = shown, !.pc = After("usd")]
  <2>1. /\ s.pc = "books" /\ s.live = r.live /\ s.shown = shown
        /\ s.books = r.books /\ s.sum = r.sum /\ s.result = r.result
    BY <1>0, StepOrder DEF Fields
  <2>2. shown \in Nat \cup {None}
    BY <1>0
  <2> HIDE DEF s, shown
  <2>3. /\ Continue(c, s) /\ cache' = cache /\ r.pc = "usd"
        /\ UNCHANGED <<class, account, curve, pending, version, mark, hist>>
    BY <1>6 DEF ReadUsd, Serving, r, s, shown
  <2>4. Computed(s)
    BY <1>0, <2>1, <2>2, <2>3 DEF Computed
  <2> QED BY <1>0, <2>1, <2>3, <2>4, OneRequestData
<1>7. ASSUME ReadBooks(c) PROVE DataInv'
  <2> DEFINE readable == Whole /\ class # "underwater"
             sum == CASE readable /\ class = "at_hwm"    -> DepositsSince(curve)
                      [] readable /\ class = "pnl_based" -> LastOf(curve).equity
                                                            - UsdtMoved(curve)
                      [] OTHER                           -> 0
             books == IF readable THEN Snapshot ELSE r.books
             s == [r EXCEPT !.books = IF readable THEN Snapshot ELSE @,
                            !.sum = sum, !.pc = After("books")]
  <2>1. /\ s.pc = "reply" /\ s.live = r.live /\ s.shown = r.shown
        /\ s.books = books /\ s.sum = sum /\ s.result = r.result
    <3> HIDE DEF readable, sum
    <3> QED BY <1>0, StepOrder DEF Fields
  <2>2. /\ Continue(c, s) /\ cache' = cache /\ r.pc = "books"
        /\ UNCHANGED <<class, account, curve, pending, version, mark, hist>>
    BY <1>7 DEF ReadBooks, Serving, r
  <2> HIDE DEF s
  <2>3. r.live.at # None /\ r.books.at = None
    BY <1>0, <2>2 DEF Computed, ReqInv, Unread
  <2>4. /\ curve \in Seq(Point) /\ Len(curve) >= 1 /\ Daily(curve)
        /\ class \in Classes /\ LastOf(curve) \in Point
    BY DEF DataInv, CurveInv, Daily, LastOf
  <2>5. CASE ~readable
    <3>1. sum = 0 /\ books = r.books
      <4> HIDE DEF readable
      <4> QED BY <2>5
    <3> HIDE DEF sum, books
    <3>2. Computed(s)
      BY <1>0, <2>1, <2>3, <3>1 DEF Computed
    <3> QED BY <1>0, <2>1, <2>2, <3>1, <3>2, OneRequestData
  <2>6. CASE readable /\ class = "at_hwm"
    <3>1. sum = DepositsSince(curve) /\ books = Snapshot
      <4> HIDE DEF readable
      <4> QED BY <2>6
    <3>2. sum \in Int
      BY <2>4, <3>1, DepositsType
    <3>3. hist.refreshed = FALSE => sum = Snapshot.flow
      <4>1. hist.refreshed = FALSE => WrittenOnce(curve)
        BY DEF DataInv, CurveInv
      <4>2. Snapshot.flow = LastOf(curve).flow
        BY DEF Snapshot
      <4> QED BY <2>4, <3>1, <4>1, <4>2, DepositsAreFlow
    <3> HIDE DEF sum, books
    <3>4. Computed(s)
      BY <1>0, <2>1, <2>3, <2>6, <3>1, <3>2, <3>3 DEF Computed
    <3> QED BY <1>0, <2>1, <2>2, <3>1, <3>4, OneRequestData
  <2>7. CASE readable /\ class = "pnl_based"
    <3>1. sum = LastOf(curve).equity - UsdtMoved(curve) /\ books = Snapshot
      <4> HIDE DEF readable
      <4> QED BY <2>7
    <3>2. sum \in Int
      BY <2>4, <3>1, JumpsType, PointType
    <3> HIDE DEF sum, books
    <3>3. Computed(s)
      BY <1>0, <2>1, <2>3, <2>7, <3>1, <3>2 DEF Computed
    <3> QED BY <1>0, <2>1, <2>2, <3>1, <3>3, OneRequestData
  <2> QED BY <2>4, <2>5, <2>6, <2>7 DEF Classes
<1>8. ASSUME Reply(c) PROVE DataInv'
  <2> DEFINE result == IF class = "at_hwm" THEN Billable(r.live.equity, r.sum)
                       ELSE Recovery(r.live.equity, r.sum)
             s == [r EXCEPT !.result = result, !.pc = "replied"]
  <2>1. /\ s.pc = "replied" /\ s.live = r.live /\ s.shown = r.shown
        /\ s.books = r.books /\ s.sum = r.sum /\ s.result = result
    <3> HIDE DEF result
    <3> QED BY <1>0 DEF Fields
  <2>2. /\ Continue(c, s) /\ cache' = cache /\ r.pc = "reply"
        /\ UNCHANGED <<class, account, curve, pending, version, mark, hist>>
    BY <1>8 DEF Reply, Serving, r
  <2>3. result \in Nat
    <3>1. r.live.equity \in Int /\ r.sum \in Int /\ mark.value \in Int
      BY <1>0, SnapshotFields DEF Genuine, Computed, DataInv, MarkInv
    <3> QED BY <3>1, FeeAssumption DEF Billable, Recovery, Max0
  <2>4. /\ class = "at_hwm" => result = Billable(r.live.equity, r.sum)
        /\ class = "pnl_based" => result = Max0(RecoverySeed - r.sum)
    BY DEF Recovery
  <2> HIDE DEF s, result
  <2>5. Computed(s)
    BY <1>0, <2>1, <2>2, <2>3, <2>4 DEF Computed
  <2> QED BY <1>0, <2>1, <2>2, <2>5, OneRequestData
<1> QED BY <1>1, <1>2, <1>3, <1>4, <1>5, <1>6, <1>7, <1>8 DEF Serve

\* A restart drops the snapshots and the requests; the file stays.
LEMMA RestartKeeps ==
    ASSUME IInv, DataInv, ProcessRestarts,
           class' = class, account' = account, curve' = curve,
           pending' = pending, version' = version,
           HistType', HistGrows,
           hist'.refreshed = hist.refreshed, hist'.withdrew = hist.withdrew
    PROVE  /\ CurveInv' /\ SnapshotInv'
           /\ \A c \in Callers : Computed(req[c])'
<1>1. CurveInv'
  BY CurveStays DEF DataInv
<1>2. Snapshot' = Snapshot
  BY DEF Snapshot, LastOf
<1>3. \A c \in Callers : req'[c] = NoRequest
  BY DEF ProcessRestarts
<1>4. SnapshotInv'
  <2>1. NoRequest.live = NoSnapshot /\ NoRequest.books = NoSnapshot
    BY DEF NoRequest
  <2>2. Held' \subseteq {NoSnapshot}
    BY <1>3, <2>1 DEF Held, ProcessRestarts
  <2>3. Snapshots' \subseteq Snapshots \cup {NoSnapshot}
    BY <1>2, <2>2 DEF Snapshots
  <2>4. cache' = NoSnapshot
    BY DEF ProcessRestarts
  <2> QED BY <2>3, <2>4, SnapshotsPassedOn DEF DataInv, IInv
<1>5. ASSUME NEW c \in Callers PROVE Computed(req[c])'
  BY <1>3, <1>5 DEF Computed, NoRequest, NoSnapshot, None
<1> QED BY <1>1, <1>4, <1>5

LEMMA RestartData ==
    ASSUME IInv, DataInv, Restart
    PROVE  DataInv'
<1>1. /\ ProcessRestarts
      /\ class' = class /\ account' = account /\ curve' = curve
      /\ pending' = pending /\ version' = version /\ mark' = mark
      /\ hist' = hist
  BY DEF Restart
<1>2. HistType' /\ HistGrows
  BY <1>1, SameHist DEF DataInv
<1>3. /\ CurveInv' /\ SnapshotInv'
      /\ \A c \in Callers : Computed(req[c])'
  BY <1>1, <1>2, RestartKeeps
<1>4. MarkInv'
  <2>1. curve \in Seq(Point)
    BY DEF DataInv, CurveInv, Daily
  <2> QED BY <1>1, <1>2, <2>1, MarkStays DEF DataInv, CurveKept
<1> QED BY <1>1, <1>2, <1>3, <1>4 DEF DataInv

\* What is billed is at most what the mark rises by: the equity the invoice
\* starts from is no newer than the transfers it is netted with.
LEMMA InvoiceData ==
    ASSUME IInv, DataInv, NEW c \in Callers, IssueInvoice(c)
    PROVE  DataInv'
<1> DEFINE r == req[c]
           live == r.live
           amount == r.result
           unread == r.books.at = None
<1>0. /\ Genuine(live) /\ Genuine(r.books) /\ InStep(live, r.books)
      /\ Computed(r) /\ ReqInv(r)
  BY HeldFacts
<1>1. /\ ProcessRestarts
      /\ class' = class /\ account' = account /\ curve' = curve
      /\ pending' = pending /\ version' = version
      /\ class = "at_hwm" /\ r.pc = "replied" /\ amount > 0
      /\ mark' = [value |-> live.equity, gain |-> live.gain,
                  flow |-> live.flow, date |-> live.date]
      /\ hist' = [hist EXCEPT !.billed = @ + amount, !.invoices = @ + 1,
                              !.misread = @ \/ unread]
  BY DEF IssueInvoice, Serving
<1>2. unread \in BOOLEAN
  OBVIOUS
<1>3. amount \in Int /\ live.at # None /\ amount = Billable(live.equity, r.sum)
  BY <1>0, <1>1 DEF Computed
<1>4. /\ HistType' /\ hist'.refreshed = hist.refreshed
      /\ hist'.withdrew = hist.withdrew /\ hist'.high = hist.high
      /\ hist'.billed = hist.billed + amount
      /\ hist'.misread = FALSE => hist.misread = FALSE /\ unread = FALSE
  <2> HIDE DEF unread, amount
  <2> QED BY <1>1, <1>2, <1>3, InvoiceHist DEF DataInv
<1>5. HistGrows
  BY <1>4 DEF HistGrows, HistType
<1>6. /\ CurveInv' /\ SnapshotInv'
      /\ \A d \in Callers : Computed(req[d])'
  BY <1>1, <1>4, <1>5, RestartKeeps
<1>7. /\ live \in SnapshotType
      /\ live.equity = Base + live.gain + live.flow
      /\ live.gain <= hist.high
      /\ OnCurve(live.date, live.gain, live.flow)
      /\ hist.withdrew = FALSE => 0 <= live.flow
  BY <1>0, <1>3 DEF Genuine
<1>8. /\ live.equity \in Int /\ live.gain \in Int /\ live.flow \in Int
      /\ live.date \in Nat
  BY <1>7, SnapshotFields
<1> HIDE DEF live, amount
<1>9. /\ mark'.value = live.equity /\ mark'.gain = live.gain
      /\ mark'.flow = live.flow /\ mark'.date = live.date
      /\ mark' \in [value : Int, gain : Int, flow : Int, date : Nat]
  BY <1>1, <1>8
<1>10. Base = InitialEquity
  BY <1>1 DEF Base
<1>11. OnCurve(mark.date, mark.gain, mark.flow)'
  BY <1>1, <1>4, <1>7, <1>9 DEF OnCurve
<1>12. ASSUME hist'.withdrew = FALSE, hist'.refreshed = FALSE,
              hist'.misread = FALSE
       PROVE  hist'.billed <= mark'.gain
  <2>1. /\ hist.withdrew = FALSE /\ hist.refreshed = FALSE
        /\ hist.misread = FALSE /\ r.books.at # None
    BY <1>4, <1>12 DEF unread
  <2>2. /\ hist.billed <= mark.gain /\ 0 <= mark.flow
        /\ mark.value = InitialEquity + mark.gain + mark.flow
        /\ mark.gain \in Int /\ mark.flow \in Int /\ mark.value \in Int
        /\ hist.billed \in Int
    BY <2>1 DEF DataInv, MarkInv, HistType
  <2>3. r.sum = r.books.flow
    BY <1>0, <1>1, <2>1 DEF Computed
  <2>4. live.flow <= r.books.flow
    BY <1>0, <1>3, <2>1 DEF InStep, ReqInv, Advancing, live
  <2>5. r.books.flow \in Int
    BY <1>0, SnapshotFields DEF Genuine
  <2>6. amount = live.equity - mark.value - r.books.flow
    BY <1>1, <1>3, <1>8, <2>2, <2>3, <2>5 DEF Billable, Max0
  <2>7. amount <= live.gain - mark.gain
    BY <1>3, <1>7, <1>8, <1>10, <2>2, <2>4, <2>5, <2>6, FeeAssumption
  <2> QED BY <1>3, <1>4, <1>8, <1>9, <2>2, <2>7
<1>13. MarkInv'
  BY <1>4, <1>7, <1>9, <1>10, <1>11, <1>12 DEF MarkInv
<1> QED BY <1>1, <1>4, <1>6, <1>13 DEF DataInv

\* What the account does reaches neither the file nor the requests.
LEMMA AccountMovesData ==
    ASSUME IInv, DataInv, AccountType', HistType', HistGrows,
           UNCHANGED <<class, curve, pending, version, mark, cache, req>>,
           account.day <= account'.day,
           hist'.refreshed = hist.refreshed,
           hist'.billed = hist.billed, hist'.misread = hist.misread,
           hist'.withdrew = FALSE =>
             hist.withdrew = FALSE /\ account.flow <= account'.flow
    PROVE  DataInv'
<1>1. CurveInv'
  BY AccountMovesCurve DEF DataInv, AccountType
<1>2. Snapshots' \subseteq Snapshots \cup {NoSnapshot}
  <2>1. Snapshot' = Snapshot /\ Held' = Held
    BY DEF Snapshot, LastOf, Held
  <2> QED BY <2>1 DEF Snapshots
<1>3. SnapshotInv'
  <2>1. cache' = NoSnapshot \/ cache'.at # None
    BY DEF DataInv, SnapshotInv
  <2> QED BY <1>2, <2>1, SnapshotsPassedOn DEF DataInv, IInv
<1>4. MarkInv'
  <2>1. curve \in Seq(Point)
    BY DEF DataInv, CurveInv, Daily
  <2> QED BY <2>1, MarkStays DEF DataInv, CurveKept
<1>5. ASSUME NEW c \in Callers PROVE Computed(req[c])'
  <2>1. PICK q : q = req'[c]
    OBVIOUS
  <2>2. Computed(q)
    BY <2>1 DEF DataInv
  <2>3. Computed(q)'
    BY <2>2, ComputedStays
  <2> QED BY <2>1, <2>3, ComputedOf
<1> QED BY <1>1, <1>3, <1>4, <1>5 DEF DataInv, AccountType

LEMMA EnvironmentData ==
    ASSUME IInv, DataInv, Environment
    PROVE  DataInv'
<1>0. /\ AccountType /\ HistType /\ CurveInv /\ SnapshotInv /\ MarkInv
      /\ curve \in Seq(Point) /\ account.flow \in Int /\ account.day \in Nat
  BY DEF DataInv, AccountType, CurveInv, Daily
<1>1. ASSUME Trade PROVE DataInv'
  <2>1. PICK amount \in Int : Moved(amount, 0)
    BY <1>1, FeeAssumption DEF Trade
  <2>2. /\ hist' = hist
        /\ UNCHANGED <<class, curve, pending, version, mark, cache, req>>
    BY <1>1 DEF Trade
  <2>3. /\ AccountType' /\ account'.day = account.day
        /\ account'.flow = account.flow + 0
    BY <1>0, <2>1, MovedAccount
  <2>4. HistType' /\ HistGrows
    BY <1>0, <2>2, SameHist
  <2>5. account.day <= account'.day /\ account.flow <= account'.flow
    BY <1>0, <2>3
  <2> QED BY <2>2, <2>3, <2>4, <2>5, AccountMovesData
<1>2. ASSUME MoveCash PROVE DataInv'
  <2>1. PICK amount \in Int :
           /\ Moved(0, amount)
           /\ hist' = [hist EXCEPT !.withdrew = @ \/ amount < 0]
    BY <1>2, FeeAssumption DEF MoveCash
  <2>2. UNCHANGED <<class, curve, pending, version, mark, cache, req>>
    BY <1>2 DEF MoveCash
  <2>3. /\ AccountType' /\ account'.day = account.day
        /\ account'.flow = account.flow + amount
    <3>1. 0 \in Int
      OBVIOUS
    <3> QED BY <1>0, <2>1, <3>1, MovedAccount
  <2>4. /\ HistType' /\ hist'.refreshed = hist.refreshed
        /\ hist'.misread = hist.misread
        /\ hist'.billed = hist.billed /\ hist'.high = hist.high
        /\ hist'.withdrew = FALSE => hist.withdrew = FALSE /\ amount >= 0
    BY <1>0, <2>1, MoveCashHist
  <2>5. HistGrows
    BY <2>4 DEF HistGrows, HistType
  <2>6. hist'.withdrew = FALSE =>
          hist.withdrew = FALSE /\ account.flow <= account'.flow
    BY <1>0, <2>3, <2>4
  <2>7. account.day <= account'.day
    BY <1>0, <2>3
  <2> QED BY <2>2, <2>3, <2>4, <2>5, <2>6, <2>7, AccountMovesData
<1>3. ASSUME NextDay PROVE DataInv'
  <2>1. /\ hist' = hist
        /\ UNCHANGED <<class, curve, pending, version, mark, cache, req>>
    BY <1>3 DEF NextDay
  <2>2. /\ AccountType' /\ account'.day = account.day + 1
        /\ account'.flow = account.flow
    BY <1>0, <1>3, NextDayAccount
  <2>3. HistType' /\ HistGrows
    BY <1>0, <2>1, SameHist
  <2>4. account.day <= account'.day /\ account.flow <= account'.flow
    BY <1>0, <2>2
  <2> QED BY <2>1, <2>2, <2>3, <2>4, AccountMovesData
<1>4. ASSUME BeginWrite PROVE DataInv'
  <2> DEFINE sameDay == LastOf(curve).date = account.day
  <2>1. /\ UNCHANGED <<class, account, curve, version, mark, cache, req>>
        /\ hist' = [hist EXCEPT !.refreshed = @ \/ sameDay]
    BY <1>4 DEF BeginWrite
  <2>2. CurveInv'
    BY <1>0, <1>4, BeginWriteCurve
  <2>3. sameDay \in BOOLEAN
    OBVIOUS
  <2>4. /\ HistType' /\ hist'.withdrew = hist.withdrew
        /\ hist'.misread = hist.misread
        /\ hist'.billed = hist.billed /\ hist'.high = hist.high
        /\ hist'.refreshed = FALSE => hist.refreshed = FALSE
    <3> HIDE DEF sameDay
    <3> QED BY <1>0, <2>1, <2>3, BeginWriteHist
  <2>5. HistGrows
    BY <2>4 DEF HistGrows, HistType
  <2>6. SnapshotInv'
    <3>1. Snapshot' = Snapshot /\ Held' = Held
      BY <2>1 DEF Snapshot, LastOf, Held
    <3>2. Snapshots' \subseteq Snapshots \cup {NoSnapshot}
      BY <3>1 DEF Snapshots
    <3>3. cache' = NoSnapshot \/ cache'.at # None
      BY <1>0, <2>1 DEF SnapshotInv
    <3> QED BY <1>0, <2>1, <2>4, <2>5, <3>2, <3>3, SnapshotsPassedOn DEF IInv
  <2>7. MarkInv'
    BY <1>0, <2>1, <2>4, <2>5, MarkStays DEF CurveKept
  <2>8. ASSUME NEW c \in Callers PROVE Computed(req[c])'
    <3>1. PICK q : q = req'[c]
      OBVIOUS
    <3>2. Computed(q)
      BY <2>1, <3>1 DEF DataInv
    <3>3. Computed(q)'
      BY <2>1, <2>4, <3>2, ComputedStays
    <3> QED BY <3>1, <3>3, ComputedOf
  <2> QED BY <2>1, <2>2, <2>4, <2>6, <2>7, <2>8 DEF DataInv
<1>5. ASSUME EndWrite PROVE DataInv'
  <2>1. /\ UNCHANGED <<class, account, mark, cache, req>>
        /\ version' = version + 1 /\ curve' = pending /\ pending # <<>>
    BY <1>5 DEF EndWrite, Whole
  <2>2. /\ CurveInv' /\ HistType'
        /\ hist'.refreshed = hist.refreshed
        /\ hist'.withdrew = hist.withdrew
        /\ hist'.misread = hist.misread
        /\ hist'.billed = hist.billed
        /\ hist.high <= hist'.high
    BY <1>0, <1>5, EndWriteCurve
  <2>3. HistGrows
    BY <2>2 DEF HistGrows
  <2>4. SnapshotInv'
    BY <1>0, <1>5, EndWriteSnapshots
  <2>5. hist'.refreshed = FALSE =>
          /\ Len(curve) < Len(curve') /\ Len(curve') \in Nat
          /\ \A i \in 1..Len(curve) : curve'[i] = curve[i]
    <3>1. hist'.refreshed = FALSE => Prolongs(curve', curve)
      BY <1>0, <2>1, <2>2 DEF CurveInv
    <3>2. curve' \in Seq(Point)
      BY <1>0, <2>1 DEF CurveInv
    <3> QED BY <3>1, <3>2 DEF Prolongs
  <2>6. MarkInv'
    BY <1>0, <2>1, <2>2, <2>3, <2>5, MarkStays DEF CurveKept
  <2>7. ASSUME NEW c \in Callers PROVE Computed(req[c])'
    <3>1. PICK q : q = req'[c]
      OBVIOUS
    <3>2. Computed(q) /\ q.books.at \in Versions /\ q.books.at <= version
      BY <2>1, <3>1 DEF DataInv, IInv, ReqInv, Seen
    <3>3. q.books.at # version'
      BY <2>1, <3>2 DEF IInv, Versions, None
    <3>4. Computed(q)'
      BY <2>1, <2>2, <3>2, <3>3, ComputedStays
    <3> QED BY <3>1, <3>4, ComputedOf
  <2> QED BY <2>1, <2>2, <2>4, <2>6, <2>7 DEF DataInv
<1> QED BY <1>1, <1>2, <1>3, <1>4, <1>5 DEF Environment

-----------------------------------------------------------------------------

LEMMA InitData == Init => DataInv
<1> SUFFICES ASSUME Init PROVE DataInv
  OBVIOUS
<1> DEFINE first == [date |-> SeedDate, equity |-> Base, transfer |-> 0,
                     gain |-> 0, flow |-> 0]
<1>1. first \in Point
  BY BaseType DEF Point, SeedDate
<1>2. /\ curve = <<first>> /\ Len(curve) = 1 /\ curve[1] = first
      /\ curve \in Seq(Point) /\ LastOf(curve) = first
  BY <1>1 DEF Init, LastOf
<1>3. /\ first.date = 0 /\ first.equity = Base /\ first.transfer = 0
      /\ first.gain = 0 /\ first.flow = 0
  BY DEF SeedDate
<1> HIDE DEF first
<1>4. /\ account \in [day : Nat, gain : Int, flow : Int, events : Nat]
      /\ account.day = 0 /\ account.flow = 0
  BY DEF Init, SeedDate
<1>5. HistType /\ hist.high = 0 /\ hist.billed = 0
  BY DEF Init, HistType
<1>6. pending = <<>> /\ version = 0 /\ cache = NoSnapshot
      /\ \A c \in Callers : req[c] = NoRequest
  BY DEF Init
<1>7. CurveInv
  <2>1. Daily(curve)
    BY <1>2, <1>3, BaseType DEF Daily
  <2>2. WrittenOnce(curve)
    BY <1>2, <1>3 DEF WrittenOnce
  <2>3. pending \in Seq(Point)
    BY <1>6
  <2> QED BY <1>2, <1>3, <1>4, <1>6, <2>1, <2>2, <2>3 DEF CurveInv, Deposited
<1>8. Genuine(Snapshot) /\ Snapshot.at = 0
  BY <1>2, <1>3, <1>5, <1>6, <1>7, FreshSnapshot
<1>9. SnapshotInv
  <2>1. NoRequest.live = NoSnapshot /\ NoRequest.books = NoSnapshot
    BY DEF NoRequest
  <2>2. Snapshots \subseteq {NoSnapshot, Snapshot}
    BY <1>6, <2>1 DEF Snapshots, Held
  <2>3. InStep(Snapshot, Snapshot)
    <3>1. Snapshot.flow \in Int
      BY <1>8, SnapshotFields DEF Genuine
    <3> QED BY <3>1 DEF InStep
  <2> HIDE DEF Snapshot
  <2>4. \A s \in Snapshots : Genuine(s)
    BY <1>8, <2>2, NoSnapshotGenuine
  <2>5. \A s, t \in Snapshots : InStep(s, t)
    BY <2>2, <2>3, NoSnapshotGenuine
  <2> QED BY <1>6, <2>4, <2>5 DEF SnapshotInv
<1>10. MarkInv
  <2>1. /\ mark.value = InitialEquity /\ mark.gain = 0 /\ mark.flow = 0
        /\ mark.date = 0
        /\ mark \in [value : Int, gain : Int, flow : Int, date : Nat]
    BY FeeAssumption DEF Init, SeedDate
  <2>2. OnCurve(mark.date, mark.gain, mark.flow)
    BY <1>2, <1>3, <2>1 DEF OnCurve
  <2> QED BY <1>5, <2>1, <2>2, FeeAssumption DEF MarkInv
<1>11. \A c \in Callers : Computed(req[c])
  BY <1>6, IdleComputed
<1>12. class \in Classes
  BY DEF Init
<1> QED BY <1>4, <1>5, <1>7, <1>9, <1>10, <1>11, <1>12 DEF DataInv

LEMMA DataStep == IInv /\ DataInv /\ [Next]_vars => DataInv'
<1> SUFFICES ASSUME IInv, DataInv, [Next]_vars PROVE DataInv'
  OBVIOUS
<1>1. CASE Environment
  BY <1>1, EnvironmentData
<1>2. CASE Restart
  BY <1>2, RestartData
<1>3. ASSUME NEW c \in Callers, Serve(c) PROVE DataInv'
  <2>1. CASE IssueInvoice(c)
    BY <2>1, InvoiceData
  <2>2. CASE ~IssueInvoice(c)
    BY <1>3, <2>2, ServeData
  <2> QED BY <2>1, <2>2
<1>4. CASE UNCHANGED vars
  <2>1. /\ UNCHANGED <<class, curve, pending, version, mark, cache, req>>
        /\ account' = account /\ hist' = hist
    BY <1>4 DEF vars
  <2>2. /\ AccountType' /\ account.day <= account'.day
        /\ account.flow <= account'.flow
    BY <2>1 DEF DataInv, AccountType
  <2>3. HistType' /\ HistGrows
    BY <2>1, SameHist DEF DataInv
  <2> QED BY <2>1, <2>2, <2>3, AccountMovesData
<1> QED BY <1>1, <1>2, <1>3, <1>4 DEF Next

THEOREM FeeInvariant == Spec => [](IInv /\ DataInv)
BY InitInv, InitData, ReadsStep, DataStep, PTL DEF Spec

\* Every variable of the fee position has its type: in particular no fee and no
\* recovery ever quoted is negative (max(0, ...) in invoice_state.py).
THEOREM FeesTyped == Spec => []TypeOK
<1>1. IInv /\ DataInv => TypeOK
  <2> SUFFICES ASSUME IInv, DataInv PROVE TypeOK
    OBVIOUS
  <2>1. \A points \in {curve, pending} : \A i \in DOMAIN points :
          points[i] \in [date : Nat, equity : Int, transfer : Int,
                         gain : Int, flow : Int]
    <3>1. curve \in Seq(Point) /\ pending \in Seq(Point)
      BY DEF DataInv, CurveInv, Daily
    <3>2. \A points \in {curve, pending} :
            \A i \in DOMAIN points : points[i] \in Point
      BY <3>1
    <3> QED BY <3>2 DEF Point
  <2>2. cache \in SnapshotType
    BY DEF DataInv, SnapshotInv, Snapshots, Held, Genuine
  <2>3. ASSUME NEW c \in Callers
        PROVE  /\ req[c].live \in SnapshotType
               /\ req[c].books \in SnapshotType
               /\ Computed(req[c])
    BY HeldFacts DEF Genuine
  <2>4. mark \in [value : Int, gain : Int, flow : Int, date : Nat]
    BY DEF DataInv, MarkInv
  <2> QED BY <2>1, <2>2, <2>3, <2>4 DEF DataInv, IInv, Computed, TypeOK
<1> QED BY <1>1, FeeInvariant, PTL

\* A reply whose equity and transfers are of one curve, written once a day and
\* without a transfer from before the mark, quotes what trading earned since
\* the mark, after any number of deposits, missed days and earlier invoices
\* (_compute_at_hwm_fees, compute_deposits_since_hwm).
THEOREM CoherentReplies == Spec => []CoherentReplyIsGain
<1>1. IInv /\ DataInv => CoherentReplyIsGain
  <2> SUFFICES ASSUME IInv, DataInv, NEW c \in Callers,
                      class = "at_hwm", req[c].pc = "replied",
                      req[c].live.at = req[c].books.at,
                      ~hist.refreshed, NoTransferBeforeMark
               PROVE  req[c].result = Max0(req[c].live.gain - mark.gain)
    BY DEF CoherentReplyIsGain
  <2> DEFINE r == req[c]
             live == r.live
  <2>1. hist.refreshed = FALSE
    BY DEF DataInv, HistType
  <2>2. /\ Genuine(live) /\ Genuine(r.books) /\ InStep(live, r.books)
        /\ Computed(r)
    BY HeldFacts
  <2>3. live.at # None /\ r.books.at # None
    BY <2>2 DEF Computed
  <2>4. live = r.books
    BY <2>2, <2>3 DEF InStep
  <2>5. /\ r.result = Billable(live.equity, r.sum)
        /\ r.sum = live.flow
    BY <2>1, <2>2, <2>3, <2>4 DEF Computed
  <2>6. /\ live.equity = InitialEquity + live.gain + live.flow
        /\ live.gain \in Int /\ live.flow \in Int
    BY <2>2, <2>3, SnapshotFields DEF Genuine, Base
  <2>7. /\ mark.value = InitialEquity + mark.gain + mark.flow
        /\ mark.gain \in Int /\ mark.flow \in Int /\ mark.date \in Nat
        /\ mark.date + 1 <= Len(curve)
        /\ curve[mark.date + 1].flow = mark.flow
    BY <2>1 DEF DataInv, MarkInv, OnCurve
  <2>8. mark.flow = 0
    <3>1. Daily(curve) /\ WrittenOnce(curve) /\ DOMAIN curve = 1..Len(curve)
      BY <2>1 DEF DataInv, CurveInv, Daily
    <3>2. \A i \in 1..Len(curve) :
            curve[i].date > SeedDate /\ curve[i].date <= mark.date
              => curve[i].transfer = 0
      BY <3>1 DEF NoTransferBeforeMark
    <3> QED BY <2>7, <3>1, <3>2, NothingDeposited
  <2> HIDE DEF live, r
  <2>9. live.equity - mark.value - r.sum = live.gain - mark.gain
    BY <2>5, <2>6, <2>7, <2>8, FeeAssumption
  <2> QED BY <2>5, <2>9 DEF Billable, r, live
<1> QED BY <1>1, FeeInvariant, PTL

\* The recovery quoted on the P&L model, from a curve written once a day whose
\* transfers are above the noise and on days without trading, is what trading
\* has left to earn back (_compute_pnl_based_recovery, _net_usdt_moved_after).
THEOREM RecoveryFollowsTrading == Spec => []RecoveryTracksGains
<1>1. IInv /\ DataInv => RecoveryTracksGains
  <2> SUFFICES ASSUME IInv, DataInv, NEW c \in Callers,
                      class = "pnl_based", req[c].pc = "replied",
                      req[c].books.at = version,
                      ~hist.refreshed, TransfersAlone, TransfersVisible
               PROVE  req[c].result = Max0(RecoverySeed - req[c].books.gain)
    BY DEF RecoveryTracksGains
  <2> DEFINE r == req[c]
             last == LastOf(curve)
  <2>1. hist.refreshed = FALSE
    BY DEF DataInv, HistType
  <2>2. /\ InStep(r.books, Snapshot) /\ Computed(r)
        /\ Snapshot.at = version /\ version \in Nat
    BY HeldFacts
  <2>3. r.books = Snapshot /\ r.books.at # None
    BY <2>2 DEF InStep, None
  <2>4. r.books.gain = last.gain
    BY <2>3 DEF Snapshot
  <2>5. /\ r.result = Max0(RecoverySeed - r.sum)
        /\ r.sum = last.equity - UsdtMoved(curve)
    BY <2>2, <2>3 DEF Computed
  <2>6. Daily(curve) /\ WrittenOnce(curve)
    BY <2>1 DEF DataInv, CurveInv
  <2>7. Readable(curve)
    BY DEF Readable, TransfersAlone, TransfersVisible
  <2>8. UsdtMoved(curve) = last.flow
    BY <2>6, <2>7, JumpsAreFlow
  <2>9. /\ last.equity = 0 + last.gain + last.flow
        /\ last.gain \in Int /\ last.flow \in Int
    <3>1. last \in Point /\ last.equity = Base + last.gain + last.flow
      BY <2>6 DEF Daily, LastOf
    <3>2. Base = 0
      BY DEF Base
    <3> HIDE DEF last
    <3> QED BY <3>1, <3>2, PointType
  <2>10. r.sum = last.gain
    BY <2>5, <2>8, <2>9
  <2> QED BY <2>4, <2>5, <2>10
<1> QED BY <1>1, FeeInvariant, PTL

\* However many invoices go out, and however stale the equity each starts from,
\* a client who does not withdraw is billed in all at most the highest gain the
\* curve ever showed, when it is written once a day and the transfers could be
\* read (compute_current_fees, the mark moved with each invoice).
THEOREM BilledOnce == Spec => []GainsBilledOnce
<1>1. IInv /\ DataInv => GainsBilledOnce
  <2> SUFFICES ASSUME DataInv, ~hist.withdrew, ~hist.refreshed, ~hist.misread
               PROVE  hist.billed <= hist.high
    BY DEF GainsBilledOnce
  <2>1. /\ hist.withdrew = FALSE /\ hist.refreshed = FALSE
        /\ hist.misread = FALSE
    BY DEF DataInv, HistType
  <2> QED BY <2>1 DEF DataInv, MarkInv, HistType
<1> QED BY <1>1, FeeInvariant, PTL

=============================================================================
