------------------------ MODULE EmergencyCloseProofs ------------------------
(***************************************************************************)
(* A close never opens, enlarges or turns a position, and reports what it  *)
(* leaves open, for any number of symbols, concurrent requests, trades,    *)
(* failing calls and late orders.                                          *)
(***************************************************************************)
EXTENDS EmergencyClose, TLAPS

\* What is left of a position of n contracts: same side, not larger.
Within(p, n) == (0 < p /\ p <= n) \/ (n <= p /\ p < 0)

\* What a request still owes or has reported, given the positions.
Covers(r, pos) ==
    r.pc \in {"listed", "replied"} /\ r.mode = "live" /\ r.view = "current"
      => \A s \in Symbols : pos[s] # 0
           => /\ s \in r.todo \/ r.result[s] = "failed"
              /\ Within(pos[s], r.listed[s])

\* A request at any point of its life.
ReqInv(r, pos) ==
    /\ r \in Requests
    /\ \A s \in Symbols :
         r.listed[s] = 0 => s \notin r.todo /\ r.result[s] = "none"
    /\ r.pc \in {"called", "replied"} => r.todo = {}
    /\ r.pc = "called" => r.view = "none" /\ r.listed = NothingListed
    /\ r.pc = "listed" => access = "trading"
    /\ Covers(r, pos)

LateInv ==
    /\ late \subseteq [order : Orders, id : Nat]
    /\ \A l \in late : l.order.reduceOnly
    /\ late # {} => access = "trading"

IInv ==
    /\ access \in Accesses
    /\ position \in [Symbols -> Int]
    /\ trades \in Nat /\ faults \in Nat
    /\ LateInv
    /\ DOMAIN closing = Closers /\ closing = [c \in Closers |-> closing[c]]
    /\ \A c \in Closers : ReqInv(closing[c], position)

-----------------------------------------------------------------------------
(* Orders *)

\* A reduce-only order that is taken moves the position towards zero.
LEMMA FillReduces ==
    ASSUME NEW o, NEW p \in Int, o.delta \in Int, o.reduceOnly, Takes(o, p)
    PROVE  FilledTo(o, p) \in Int /\ Reduced(p, FilledTo(o, p))
BY DEF Takes, FilledTo, Reduced

\* A closing order of the listed size closes what is left of the position.
LEMMA CloseCloses ==
    ASSUME NEW s \in Symbols, NEW n \in Int, NEW p \in Int, Within(p, n)
    PROVE  /\ Takes(CloseOrder(s, n), p)
           /\ FilledTo(CloseOrder(s, n), p) = 0
BY DEF Within, Takes, FilledTo, CloseOrder

LEMMA CloseOrderType ==
    ASSUME NEW s \in Symbols, NEW n \in Int
    PROVE  /\ CloseOrder(s, n) \in Orders
           /\ CloseOrder(s, n).reduceOnly
           /\ CloseOrder(s, n).delta \in Int
           /\ CloseOrder(s, n).symbol = s
BY DEF CloseOrder, Orders

\* Somebody else's close leaves a request's account of the positions true.
LEMMA ShrinkKeeps ==
    ASSUME NEW r, NEW pos \in [Symbols -> Int], NEW new \in [Symbols -> Int],
           ReqInv(r, pos),
           \A s \in Symbols : new[s] = pos[s] \/ Reduced(pos[s], new[s])
    PROVE  ReqInv(r, new)
<1>1. SUFFICES ASSUME r.pc \in {"listed", "replied"}, r.mode = "live",
                      r.view = "current",
                      NEW s \in Symbols, new[s] # 0
               PROVE  /\ s \in r.todo \/ r.result[s] = "failed"
                      /\ Within(new[s], r.listed[s])
  BY DEF ReqInv, Covers
<1>2. pos[s] \in Int /\ new[s] \in Int /\ r.listed[s] \in Int
  BY DEF ReqInv, Requests
<1>3. pos[s] # 0
  BY <1>1, <1>2 DEF Reduced
<1>4. (s \in r.todo \/ r.result[s] = "failed") /\ Within(pos[s], r.listed[s])
  BY <1>1, <1>3 DEF ReqInv, Covers
<1>5. Within(new[s], r.listed[s])
  BY <1>1, <1>2, <1>4 DEF Within, Reduced
<1> QED BY <1>4, <1>5

-----------------------------------------------------------------------------
(* Steps of one request *)

\* A step that replaces one request, and at most shrinks positions, keeps the
\* invariant when the new request and the late orders are in order.
LEMMA OneRequest ==
    ASSUME IInv, NEW c \in Closers, NEW r, Proceed(c, r),
           access' = access, trades' \in Nat, faults' \in Nat, LateInv',
           position' \in [Symbols -> Int],
           \A s \in Symbols : \/ position'[s] = position[s]
                              \/ Reduced(position[s], position'[s]),
           ReqInv(r, position')
    PROVE  IInv'
<1>1. \A d \in Closers : closing'[d] = IF d = c THEN r ELSE closing[d]
  BY DEF IInv, Proceed
<1>2. \A d \in Closers : ReqInv(closing[d], position')
  BY ShrinkKeeps DEF IInv
<1>3. \A d \in Closers : ReqInv(closing'[d], position')
  BY <1>1, <1>2
<1>4. \A d \in Closers : ReqInv(closing[d], position)'
  BY <1>3 DEF ReqInv, Covers
<1>5. (DOMAIN closing = Closers /\ closing = [d \in Closers |-> closing[d]])'
  BY DEF IInv, Proceed
<1> QED BY <1>4, <1>5 DEF IInv

\* The same for a step that touches nothing but the request.
LEMMA RequestOnly ==
    ASSUME IInv, NEW c \in Closers, NEW r, Proceed(c, r),
           UNCHANGED <<access, position, late, trades>>, faults' \in Nat,
           ReqInv(r, position)
    PROVE  IInv'
<1>1. LateInv'
  BY DEF IInv, LateInv
<1>2. ReqInv(r, position')
  OBVIOUS
<1> QED BY <1>1, <1>2, OneRequest DEF IInv

LEMMA Fresh ==
    ASSUME NEW pos, NEW r \in Requests, r.pc \in {"idle", "called"},
           r.view = "none", r.listed = NothingListed, r.todo = {},
           r.result = [s \in Symbols |-> "none"]
    PROVE  ReqInv(r, pos)
BY DEF ReqInv, Covers, NothingListed

\* What a step of the loop leaves to show: the handled position is closed, or
\* reported as failed, or the request is a preview.
LEMMA HandledKeeps ==
    ASSUME NEW r, NEW s \in Symbols, NEW new \in [Symbols -> Int],
           ReqInv(r, new), r.pc = "listed", s \in r.todo,
           NEW status \in {"would_close", "submitted", "failed"},
           \/ status = "failed" \/ r.mode = "dry_run"
           \/ r.view # "current" \/ new[s] = 0
    PROVE  ReqInv(Handled(r, s, status), new)
<1> DEFINE q == Handled(r, s, status)
<1>1. r \in Requests
  BY DEF ReqInv
<1>2. /\ q.pc = r.pc /\ q.mode = r.mode /\ q.view = r.view
      /\ q.listed = r.listed /\ q.todo = r.todo \ {s}
      /\ q.result = [r.result EXCEPT ![s] = status]
  BY <1>1 DEF Requests, Handled
<1>3. q \in Requests
  BY <1>1 DEF Requests, Handled
<1>4. \A t \in Symbols :
        q.listed[t] = 0 => t \notin q.todo /\ q.result[t] = "none"
  BY <1>1, <1>2 DEF ReqInv, Requests
<1>5. Covers(q, new)
  <2>1. SUFFICES ASSUME q.mode = "live", q.view = "current",
                        NEW t \in Symbols, new[t] # 0
                 PROVE  /\ t \in q.todo \/ q.result[t] = "failed"
                        /\ Within(new[t], q.listed[t])
    BY DEF Covers
  <2>2. /\ t \in r.todo \/ r.result[t] = "failed"
        /\ Within(new[t], r.listed[t])
    BY <1>2, <2>1 DEF ReqInv, Covers
  <2>3. CASE t # s
    BY <1>1, <1>2, <2>2, <2>3 DEF Requests
  <2>4. CASE t = s
    <3>1. status = "failed"
      BY <1>2, <2>1, <2>4
    <3> QED BY <1>1, <1>2, <2>2, <2>4, <3>1 DEF Requests
  <2> QED BY <2>3, <2>4
<1> QED BY <1>2, <1>3, <1>4, <1>5 DEF ReqInv

\* An outdated list promises nothing.
LEMMA OutdatedKeeps ==
    ASSUME NEW r, NEW pos, NEW new, ReqInv(r, pos)
    PROVE  ReqInv(Outdated(r), new)
<1> DEFINE q == Outdated(r)
<1>1. r \in Requests
  BY DEF ReqInv
<1>2. /\ q.pc = r.pc /\ q.mode = r.mode /\ q.view # "current"
      /\ q.listed = r.listed /\ q.todo = r.todo /\ q.result = r.result
      /\ r.view = "none" => q.view = "none"
  BY <1>1 DEF Requests, Outdated
<1>3. q \in Requests
  BY <1>1 DEF Requests, Views, Outdated
<1> QED BY <1>2, <1>3 DEF ReqInv, Covers

-----------------------------------------------------------------------------
(* The invariant *)

LEMMA InitInv == CloseInit => IInv
<1> SUFFICES ASSUME CloseInit PROVE IInv
  OBVIOUS
<1>1. NoClose \in Requests
  BY DEF NoClose, Requests, Modes, Views, NothingListed
<1>2. ReqInv(NoClose, position)
  BY <1>1, Fresh DEF NoClose
<1>3. LateInv
  BY DEF CloseInit, LateInv
<1>4. position \in [Symbols -> Int]
  BY DEF CloseInit
<1> QED BY <1>2, <1>3, <1>4 DEF CloseInit, IInv

\* A step of the loop, with the order it may have sent.
LEMMA LoopStep ==
    ASSUME IInv, NEW c \in Closers, NEW s \in Symbols, Pending(c, s)
    PROVE  /\ closing[c] \in Requests /\ ReqInv(closing[c], position)
           /\ closing[c].listed[s] \in Int /\ position[s] \in Int
           /\ access = "trading"
           /\ closing[c].pc = "listed" /\ s \in closing[c].todo
BY DEF IInv, ReqInv, Requests, Pending

LEMMA CallStep == ASSUME IInv, NEW c \in Closers, CallClose(c) PROVE IInv'
<1>1. PICK mode \in Modes :
        Proceed(c, [NoClose EXCEPT !.pc = "called", !.mode = mode])
  BY DEF CallClose
<1> DEFINE r == [NoClose EXCEPT !.pc = "called", !.mode = mode]
<1>2. /\ r \in Requests /\ r.pc = "called" /\ r.view = "none"
      /\ r.listed = NothingListed /\ r.todo = {}
      /\ r.result = [s \in Symbols |-> "none"]
  <2>1. /\ NoClose \in Requests /\ NoClose.view = "none"
        /\ NoClose.listed = NothingListed /\ NoClose.todo = {}
        /\ NoClose.result = [s \in Symbols |-> "none"]
    BY DEF NoClose, Requests, Modes, Views, NothingListed
  <2> QED BY <2>1 DEF Requests
<1>3. ReqInv(r, position)
  BY <1>2, Fresh
<1> QED BY <1>1, <1>3, RequestOnly DEF CallClose, IInv

LEMMA EndStep ==
    ASSUME IInv, NEW c \in Closers,
           Refuse(c) \/ MockPreview(c) \/ AnswerClose(c)
    PROVE  IInv'
<1>1. PICK end \in {"refused", "replied"} :
        /\ Proceed(c, [closing[c] EXCEPT !.pc = end])
        /\ closing[c].pc \in {"called", "listed"} /\ closing[c].todo = {}
        /\ closing[c].pc = "called" \/ end = "replied"
        /\ UNCHANGED <<access, position, late, trades, faults>>
  BY DEF Refuse, MockPreview, AnswerClose, IInv, ReqInv
<1> DEFINE r == closing[c]
           q == [closing[c] EXCEPT !.pc = end]
<1>2. r \in Requests /\ ReqInv(r, position)
  BY DEF IInv, ReqInv
<1>3. /\ q.pc = end /\ q.mode = r.mode /\ q.view = r.view
      /\ q.listed = r.listed /\ q.todo = r.todo /\ q.result = r.result
  BY <1>2 DEF Requests
<1>4. q \in Requests
  BY <1>2 DEF Requests
<1>5. Covers(q, position)
  BY <1>1, <1>2, <1>3 DEF ReqInv, Covers
<1>6. ReqInv(q, position)
  BY <1>1, <1>2, <1>3, <1>4, <1>5 DEF ReqInv
<1> QED BY <1>1, <1>6, RequestOnly DEF IInv

LEMMA ListStep ==
    ASSUME IInv, NEW c \in Closers, ListPositions(c) \/ ListFails(c)
    PROVE  IInv'
<1> DEFINE r == closing[c]
<1>1. r \in Requests /\ ReqInv(r, position) /\ position \in [Symbols -> Int]
  BY DEF IInv, ReqInv
<1>2. /\ r.pc = "called" /\ access = "trading"
      /\ r.listed = NothingListed /\ r.todo = {} /\ r.view = "none"
      /\ \A s \in Symbols : r.result[s] = "none"
  BY <1>1 DEF ListPositions, ListFails, ReqInv, NothingListed
<1>3. CASE ListPositions(c)
  <2> DEFINE q == [r EXCEPT !.pc = "listed", !.view = "current",
                     !.listed = position,
                     !.todo = {s \in Symbols : position[s] # 0}]
  <2>1. /\ q.pc = "listed" /\ q.listed = position
        /\ q.todo = {s \in Symbols : position[s] # 0}
        /\ q.result = r.result
    BY <1>1 DEF Requests
  <2>2. q \in Requests
    BY <1>1 DEF Requests, Views
  <2>3. Covers(q, position)
    BY <1>1, <2>1 DEF Covers, Within
  <2>4. ReqInv(q, position)
    BY <1>2, <2>1, <2>2, <2>3 DEF ReqInv
  <2> QED BY <1>3, <2>4, RequestOnly DEF ListPositions, IInv
<1>4. CASE ListFails(c)
  <2> DEFINE q == [r EXCEPT !.pc = "listed", !.view = "failed"]
  <2>1. /\ q.pc = "listed" /\ q.listed = r.listed /\ q.todo = r.todo
        /\ q.result = r.result /\ q.view = "failed"
    BY <1>1 DEF Requests
  <2>2. q \in Requests
    BY <1>1 DEF Requests, Views
  <2>3. ReqInv(q, position)
    BY <1>2, <2>1, <2>2 DEF ReqInv, Covers
  <2>4. faults' \in Nat
    BY <1>4 DEF ListFails, IInv
  <2> QED BY <1>4, <2>3, <2>4, RequestOnly DEF ListFails
<1> QED BY <1>3, <1>4

LEMMA QuietStep ==
    ASSUME IInv, NEW c \in Closers, NEW s \in Symbols,
           Preview(c, s) \/ Rejected(c, s) \/ OrderLost(c, s)
    PROVE  IInv'
<1>1. PICK status \in {"would_close", "failed"} :
        /\ Proceed(c, Handled(closing[c], s, status))
        /\ status = "failed" \/ closing[c].mode = "dry_run"
        /\ Pending(c, s)
        /\ UNCHANGED <<access, position, late, trades>>
        /\ faults' \in Nat
  BY DEF Preview, Rejected, OrderLost, Submitting, IInv
<1>2. ReqInv(Handled(closing[c], s, status), position)
  BY <1>1, LoopStep, HandledKeeps DEF IInv
<1> QED BY <1>1, <1>2, RequestOnly

LEMMA AnswerLostStep ==
    ASSUME IInv, NEW c \in Closers, NEW s \in Symbols, AnswerLost(c, s)
    PROVE  IInv'
<1>1. Pending(c, s)
  BY DEF AnswerLost, Submitting
<1>2. ReqInv(Handled(closing[c], s, "failed"), position)
  BY <1>1, LoopStep, HandledKeeps DEF IInv
<1>3. LateInv'
  <2>1. /\ CloseOrder(s, closing[c].listed[s]) \in Orders
        /\ CloseOrder(s, closing[c].listed[s]).reduceOnly
    BY <1>1, LoopStep, CloseOrderType
  <2>2. access' = "trading"
    BY <1>1, LoopStep DEF AnswerLost
  <2>3. faults \in Nat /\ LateInv
    BY DEF IInv
  <2> DEFINE new == [order |-> CloseOrder(s, closing[c].listed[s]), id |-> faults]
  <2>4. late' = late \cup {new}
    BY DEF AnswerLost
  <2>5. new \in [order : Orders, id : Nat] /\ new.order.reduceOnly
    BY <2>1, <2>3
  <2> HIDE DEF new
  <2> QED BY <2>2, <2>3, <2>4, <2>5 DEF LateInv
<1>4. faults' \in Nat
  BY DEF AnswerLost, IInv
<1>5. ReqInv(Handled(closing[c], s, "failed"), position')
  BY <1>2 DEF AnswerLost
<1> QED BY <1>3, <1>4, <1>5, OneRequest DEF AnswerLost, IInv

\* A taken order moves its symbol towards zero and leaves the others alone.
LEMMA FillStep ==
    ASSUME IInv, NEW o \in Orders, o.reduceOnly, Takes(o, position[o.symbol]),
           position' = [position EXCEPT ![o.symbol] = FilledTo(o, @)]
    PROVE  /\ position' \in [Symbols -> Int]
           /\ \A t \in Symbols : \/ position'[t] = position[t]
                                 \/ Reduced(position[t], position'[t])
<1>1. /\ o.symbol \in Symbols /\ o.delta \in Int
      /\ position \in [Symbols -> Int] /\ position[o.symbol] \in Int
  BY DEF IInv, Orders
<1>2. /\ FilledTo(o, position[o.symbol]) \in Int
      /\ Reduced(position[o.symbol], FilledTo(o, position[o.symbol]))
  BY <1>1, FillReduces
<1> QED BY <1>1, <1>2

LEMMA SubmitFills ==
    ASSUME IInv, NEW c \in Closers, NEW s \in Symbols, Submit(c, s)
    PROVE  /\ position' \in [Symbols -> Int]
           /\ \A t \in Symbols : \/ position'[t] = position[t]
                                 \/ Reduced(position[t], position'[t])
<1>1. Pending(c, s)
  BY DEF Submit, Submitting
<1>2. /\ CloseOrder(s, closing[c].listed[s]) \in Orders
      /\ CloseOrder(s, closing[c].listed[s]).reduceOnly
      /\ CloseOrder(s, closing[c].listed[s]).symbol = s
  BY <1>1, LoopStep, CloseOrderType
<1> QED BY <1>2, FillStep DEF Submit

LEMMA ThinFills ==
    ASSUME IInv, NEW c \in Closers, NEW s \in Symbols, SubmitThin(c, s)
    PROVE  /\ position' \in [Symbols -> Int]
           /\ \A t \in Symbols : \/ position'[t] = position[t]
                                 \/ Reduced(position[t], position'[t])
<1> DEFINE o == CloseOrder(s, closing[c].listed[s])
<1>1. Pending(c, s)
  BY DEF SubmitThin, Submitting
<1>2. /\ o.reduceOnly /\ o.delta \in Int /\ position[s] \in Int
  BY <1>1, LoopStep, CloseOrderType
<1>3. PICK q \in -MaxSize..MaxSize :
        /\ Between(q, position[s], FilledTo(o, position[s]))
        /\ position' = [position EXCEPT ![s] = q]
        /\ Takes(o, position[s])
  BY DEF SubmitThin
<1>4. FilledTo(o, position[s]) \in Int
  BY <1>2, <1>3, FillReduces
<1>5. q \in Int /\ Reduced(position[s], q)
  BY <1>2, <1>3, <1>4, FillReduces DEF Between, Reduced
<1> QED BY <1>3, <1>5 DEF IInv

LEMMA SubmitStep ==
    ASSUME IInv, NEW c \in Closers, NEW s \in Symbols, Submit(c, s)
    PROVE  IInv'
<1> DEFINE r == closing[c]
<1>1. Pending(c, s)
  BY DEF Submit, Submitting
<1>2. /\ r \in Requests /\ ReqInv(r, position) /\ r.pc = "listed"
      /\ s \in r.todo /\ r.listed[s] \in Int /\ position[s] \in Int
  BY <1>1, LoopStep
<1>3. /\ position' \in [Symbols -> Int]
      /\ \A t \in Symbols : \/ position'[t] = position[t]
                            \/ Reduced(position[t], position'[t])
  BY SubmitFills
<1>4. ReqInv(r, position')
  BY <1>2, <1>3, ShrinkKeeps DEF IInv
<1>5. position'[s] = 0 \/ r.view # "current"
  <2>1. SUFFICES ASSUME r.view = "current" PROVE position'[s] = 0
    OBVIOUS
  <2>2. r.mode = "live" /\ position[s] # 0
    BY <1>1, <1>2 DEF Submit, Submitting, Takes, CloseOrder
  <2>3. Within(position[s], r.listed[s])
    BY <1>2, <2>1, <2>2 DEF ReqInv, Covers
  <2>4. FilledTo(CloseOrder(s, r.listed[s]), position[s]) = 0
    BY <1>2, <2>3, CloseCloses
  <2> QED BY <2>4 DEF Submit, IInv
<1>6. ReqInv(Handled(r, s, "submitted"), position')
  BY <1>2, <1>3, <1>4, <1>5, HandledKeeps
<1>7. LateInv'
  BY DEF Submit, IInv, LateInv
<1> QED BY <1>3, <1>6, <1>7, OneRequest DEF Submit, IInv

LEMMA ThinStep ==
    ASSUME IInv, NEW c \in Closers, NEW s \in Symbols, SubmitThin(c, s)
    PROVE  IInv'
<1> DEFINE r == closing[c]
<1>1. Pending(c, s)
  BY DEF SubmitThin, Submitting
<1>2. /\ r \in Requests /\ ReqInv(r, position) /\ r.pc = "listed"
      /\ s \in r.todo
  BY <1>1, LoopStep
<1>3. /\ position' \in [Symbols -> Int]
      /\ \A t \in Symbols : \/ position'[t] = position[t]
                            \/ Reduced(position[t], position'[t])
  BY ThinFills
<1>4. Outdated(Handled(r, s, "submitted"))
        = Handled(Outdated(r), s, "submitted")
  BY <1>2 DEF Outdated, Handled, Requests
<1>5. /\ ReqInv(Outdated(r), position') /\ Outdated(r).pc = "listed"
      /\ s \in Outdated(r).todo /\ Outdated(r).view # "current"
  BY <1>2, OutdatedKeeps DEF Outdated, Requests
<1>6. ReqInv(Handled(Outdated(r), s, "submitted"), position')
  BY <1>3, <1>5, HandledKeeps
<1>7. LateInv'
  BY DEF SubmitThin, IInv, LateInv
<1> QED BY <1>3, <1>4, <1>6, <1>7, OneRequest DEF SubmitThin, IInv

LEMMA DieStep == ASSUME IInv, NEW c \in Closers, Die(c) PROVE IInv'
<1>1. NoClose \in Requests
  BY DEF NoClose, Requests, Modes, Views, NothingListed
<1>2. ReqInv(NoClose, position)
  BY <1>1, Fresh DEF NoClose
<1> QED BY <1>2, RequestOnly DEF Die, IInv

LEMMA ArriveFills ==
    ASSUME IInv, ArriveLate
    PROVE  /\ late # {}
           /\ position' \in [Symbols -> Int]
           /\ \A t \in Symbols : \/ position'[t] = position[t]
                                 \/ Reduced(position[t], position'[t])
<1>1. PICK l \in late :
        position' = IF Takes(l.order, position[l.order.symbol])
                    THEN [position EXCEPT ![l.order.symbol]
                                            = FilledTo(l.order, @)]
                    ELSE position
  BY DEF ArriveLate
<1>2. l.order \in Orders /\ l.order.reduceOnly
  BY <1>1 DEF IInv, LateInv
<1>3. CASE Takes(l.order, position[l.order.symbol])
  BY <1>1, <1>2, <1>3, FillStep
<1>4. CASE ~Takes(l.order, position[l.order.symbol])
  BY <1>1, <1>4 DEF IInv
<1> QED BY <1>1, <1>3, <1>4

LEMMA ArriveStep == ASSUME IInv, ArriveLate PROVE IInv'
<1>1. /\ position' \in [Symbols -> Int]
      /\ \A t \in Symbols : \/ position'[t] = position[t]
                            \/ Reduced(position[t], position'[t])
  BY ArriveFills
<1>2. LateInv'
  BY DEF ArriveLate, IInv, LateInv
<1>3. \A c \in Closers : ReqInv(closing[c], position')
  BY <1>1, ShrinkKeeps DEF IInv
<1>4. \A c \in Closers : ReqInv(closing[c], position)'
  BY <1>3 DEF ArriveLate, ReqInv, Covers
<1> QED BY <1>1, <1>2, <1>4 DEF ArriveLate, IInv

LEMMA TradeStep == ASSUME IInv, OthersTrade PROVE IInv'
<1>1. position' \in [Symbols -> Int]
  <2>1. PICK s \in Symbols, p \in -MaxSize..MaxSize :
          position' = [position EXCEPT ![s] = p]
    BY DEF OthersTrade
  <2>2. p \in Int
    BY CloseAssumption DEF CloseAssumption
  <2> QED BY <2>1, <2>2 DEF IInv
<1>2. \A c \in Closers : closing'[c] = Outdated(closing[c])
  BY DEF OthersTrade
<1>3. \A c \in Closers : ReqInv(Outdated(closing[c]), position')
  BY OutdatedKeeps DEF IInv
<1>4. \A c \in Closers : ReqInv(closing'[c], position')
  BY <1>2, <1>3
<1>5. \A c \in Closers : ReqInv(closing[c], position)'
  BY <1>4 DEF OthersTrade, ReqInv, Covers
<1>6. LateInv'
  BY DEF OthersTrade, IInv, LateInv
<1>7. /\ (DOMAIN closing = Closers /\ closing = [c \in Closers |-> closing[c]])'
      /\ trades' \in Nat
  BY DEF OthersTrade, IInv
<1> QED BY <1>1, <1>5, <1>6, <1>7 DEF OthersTrade, IInv

LEMMA StutterStep == ASSUME IInv, UNCHANGED closeVars PROVE IInv'
<1>1. LateInv'
  BY DEF closeVars, IInv, LateInv
<1>2. \A c \in Closers : ReqInv(closing[c], position)'
  BY DEF closeVars, IInv, ReqInv, Covers
<1> QED BY <1>1, <1>2 DEF closeVars, IInv

\* IInv is inductive.
LEMMA NextInv == IInv /\ [CloseNext]_closeVars => IInv'
<1> SUFFICES ASSUME IInv, [CloseNext]_closeVars PROVE IInv'
  OBVIOUS
<1>1. CASE UNCHANGED closeVars
  BY <1>1, StutterStep
<1>2. CASE OthersTrade
  BY <1>2, TradeStep
<1>3. CASE ArriveLate
  BY <1>3, ArriveStep
<1>4. ASSUME NEW c \in Closers, ServeClose(c) PROVE IInv'
  <2>1. CASE CallClose(c)
    BY <2>1, CallStep
  <2>2. CASE Refuse(c) \/ MockPreview(c) \/ AnswerClose(c)
    BY <2>2, EndStep
  <2>3. CASE ListPositions(c) \/ ListFails(c)
    BY <2>3, ListStep
  <2>4. CASE Die(c)
    BY <2>4, DieStep
  <2>5. ASSUME NEW s \in Symbols,
               Preview(c, s) \/ Rejected(c, s) \/ OrderLost(c, s)
        PROVE  IInv'
    BY <2>5, QuietStep
  <2>6. ASSUME NEW s \in Symbols, Submit(c, s) PROVE IInv'
    BY <2>6, SubmitStep
  <2>7. ASSUME NEW s \in Symbols, SubmitThin(c, s) PROVE IInv'
    BY <2>7, ThinStep
  <2>8. ASSUME NEW s \in Symbols, AnswerLost(c, s) PROVE IInv'
    BY <2>8, AnswerLostStep
  <2> QED BY <1>4, <2>1, <2>2, <2>3, <2>4, <2>5, <2>6, <2>7, <2>8 DEF ServeClose
<1> QED BY <1>1, <1>2, <1>3, <1>4 DEF CloseNext

LEMMA Invariance == CloseSpec => []IInv
BY InitInv, NextInv, PTL DEF CloseSpec

-----------------------------------------------------------------------------
(* The theorems *)

\* Variables have their types, and a request has results for listed positions
\* only.
THEOREM TypeCorrect == CloseSpec => []CloseTypeOK
<1>1. IInv => CloseTypeOK
  <2> SUFFICES ASSUME IInv PROVE CloseTypeOK
    OBVIOUS
  <2>1. \A c \in Closers : closing[c] \in Requests
    BY DEF IInv, ReqInv
  <2>2. closing \in [Closers -> Requests]
    BY <2>1 DEF IInv
  <2>3. \A c \in Closers, s \in Symbols :
          closing[c].listed[s] = 0 => s \notin closing[c].todo
                                  /\ closing[c].result[s] = "none"
    BY DEF IInv, ReqInv
  <2> QED BY <2>2, <2>3 DEF IInv, LateInv, CloseTypeOK
<1> QED BY <1>1, Invariance, PTL

\* What a live close leaves open, it reports as failed, unless somebody traded
\* since its listing, an order was filled in part or the listing failed.
THEOREM OpenReported == CloseSpec => []OpenIsReported
<1>1. IInv => OpenIsReported
  <2> SUFFICES ASSUME IInv, NEW c \in Closers,
                      closing[c].pc = "replied", closing[c].mode = "live",
                      closing[c].view = "current",
                      NEW s \in Symbols, position[s] # 0
               PROVE  closing[c].result[s] = "failed"
    BY DEF OpenIsReported
  <2>1. ReqInv(closing[c], position)
    BY DEF IInv
  <2> QED BY <2>1 DEF ReqInv, Covers
<1> QED BY <1>1, Invariance, PTL

\* What a step other than a trade does to the positions.
LEMMA OwnStep ==
    ASSUME IInv, [CloseNext]_closeVars, trades' = trades
    PROVE  /\ \A s \in Symbols : \/ position'[s] = position[s]
                                 \/ Reduced(position[s], position'[s])
           /\ position' # position =>
                /\ access = "trading"
                /\ late # {} \/ \E c \in Closers :
                                  closing[c].mode = "live" /\ closing[c].pc = "listed"
<1>1. CASE position' = position
  BY <1>1
<1>2. CASE ArriveLate
  BY <1>2, ArriveFills DEF IInv, LateInv
<1>3. ASSUME NEW c \in Closers, NEW s \in Symbols,
             Submit(c, s) \/ SubmitThin(c, s)
      PROVE  /\ \A t \in Symbols : \/ position'[t] = position[t]
                                   \/ Reduced(position[t], position'[t])
             /\ access = "trading"
             /\ closing[c].mode = "live" /\ closing[c].pc = "listed"
  <2>1. Pending(c, s) /\ closing[c].mode = "live"
    BY <1>3 DEF Submit, SubmitThin, Submitting
  <2> QED BY <1>3, <2>1, SubmitFills, ThinFills, LoopStep
<1>4. CASE position' # position /\ ~ArriveLate
  <2>1. CloseNext /\ ~OthersTrade
    BY <1>4 DEF closeVars, OthersTrade, IInv
  <2>2. PICK c \in Closers, s \in Symbols : Submit(c, s) \/ SubmitThin(c, s)
    BY <1>4, <2>1 DEF CloseNext, ServeClose, CallClose, Refuse, MockPreview, ListPositions,
                      ListFails, Preview, Rejected, OrderLost, AnswerLost,
                      AnswerClose, Die
  <2> QED BY <1>3, <2>2
<1> QED BY <1>1, <1>2, <1>4

\* Only trades by others open, enlarge or turn a position.
THEOREM OnlyReduces == CloseSpec => ClosingOnlyReduces
<1>1. IInv /\ [CloseNext]_closeVars
        => [\A s \in Symbols :
              trades' = trades /\ position'[s] # position[s]
                => Reduced(position[s], position'[s])]_closeVars
  BY OwnStep
<1> QED BY <1>1, Invariance, PTL DEF CloseSpec, ClosingOnlyReduces

\* Without trading keys, and without a live request, no position changes but
\* by trades.
THEOREM PreviewsAreSafe == CloseSpec => PreviewsChangeNothing
<1>1. IInv /\ [CloseNext]_closeVars
        => [trades' = trades /\ position' # position
              => /\ access = "trading"
                 /\ late # {} \/ \E c \in Closers :
                      closing[c].mode = "live" /\ closing[c].pc = "listed"]_closeVars
  BY OwnStep
<1> QED BY <1>1, Invariance, PTL DEF CloseSpec, PreviewsChangeNothing

=============================================================================
