--------------------------- MODULE EmergencyClose ---------------------------
(***************************************************************************)
(* POST /api/v1/emergency/close-all/{client_id} (api/routes/emergency.py): *)
(* list the client's open positions, then submit one reduce-only market    *)
(* order for each and answer with a result per position.                   *)
(*                                                                         *)
(* Requests run in a pool of threads, the account goes on trading, and an  *)
(* order that ends in an exception may still reach the exchange. Nothing   *)
(* is kept between requests.                                               *)
(***************************************************************************)
EXTENDS Integers

CONSTANTS
    Symbols,     \* instruments
    Closers,     \* requests served at the same time
    MaxSize,     \* size a position may be traded to
    MaxTrades,   \* trades by others
    MaxFaults    \* failing calls to the exchange

ASSUME CloseAssumption ==
    /\ MaxSize \in Nat /\ MaxTrades \in Nat /\ MaxFaults \in Nat

\* What the registry, the secrets and the mode make of the client.
Accesses == {"trading", "no_keys", "no_secret", "mock"}

VARIABLES
    access,     \* one of Accesses
    position,   \* signed contracts per symbol, at the exchange
    late,       \* orders on their way although the call has failed
    closing,    \* the request each caller has in progress, or its last answer
    trades,     \* trades by others so far
    faults      \* failing calls so far

closeVars == <<access, position, late, closing, trades, faults>>

-----------------------------------------------------------------------------
(* Orders at the exchange *)

CloseOrderPlain(s, contracts) ==
    [symbol |-> s, delta |-> -contracts, reduceOnly |-> FALSE]

\* An order changes the position by delta: a sell closes a long, a buy a short.
CloseOrder(s, contracts) ==
    [symbol |-> s, delta |-> -contracts, reduceOnly |-> TRUE]

\* Whether the exchange takes an order, given the present position.
Takes(o, p) == o.reduceOnly => (o.delta < 0 /\ p > 0) \/ (o.delta > 0 /\ p < 0)

\* The position after the order is filled: reduce-only stops at zero.
FilledTo(o, p) ==
    LET q == p + o.delta
    IN  IF o.reduceOnly /\ ((p > 0 /\ q < 0) \/ (p < 0 /\ q > 0)) THEN 0 ELSE q

Between(q, p, r) == (p < q /\ q < r) \/ (r < q /\ q < p)

-----------------------------------------------------------------------------
(* Requests *)

Modes == {"dry_run", "live"}

\* What a request knows of the positions: nothing yet, nothing because the
\* query failed, or a list; "current" turns into "outdated" when somebody
\* trades or an order is filled in part (history).
Views == {"none", "failed", "current", "outdated"}

NothingListed == [s \in Symbols |-> 0]

NoClose ==
    [pc |-> "idle", mode |-> "dry_run", view |-> "none",
     listed |-> NothingListed, todo |-> {},
     result |-> [s \in Symbols |-> "none"]]

Proceed(c, r) == closing' = [closing EXCEPT ![c] = r]

CallClose(c) ==
    /\ closing[c].pc \in {"idle", "replied", "refused"}
    /\ \E mode \in Modes :
         Proceed(c, [NoClose EXCEPT !.pc = "called", !.mode = mode])
    /\ UNCHANGED <<access, position, late, trades, faults>>

\* 403 without the trading flag, 502 without the secrets.
Refuse(c) ==
    /\ closing[c].pc = "called" /\ access \in {"no_keys", "no_secret"}
    /\ Proceed(c, [closing[c] EXCEPT !.pc = "refused"])
    /\ UNCHANGED <<access, position, late, trades, faults>>

\* Mock mode answers an empty list, live or not.
MockPreview(c) ==
    /\ closing[c].pc = "called" /\ access = "mock"
    /\ Proceed(c, [closing[c] EXCEPT !.pc = "replied"])
    /\ UNCHANGED <<access, position, late, trades, faults>>

ListAll(c) ==
    /\ closing[c].pc = "called" /\ access = "trading"
    /\ Proceed(c, [closing[c] EXCEPT !.pc = "listed", !.view = "current",
                      !.listed = position, !.todo = Symbols])
    /\ UNCHANGED <<access, position, late, trades, faults>>

\* _fetch_open_positions
ListPositions(c) ==
    /\ closing[c].pc = "called" /\ access = "trading"
    /\ Proceed(c, [closing[c] EXCEPT !.pc = "listed", !.view = "current",
                      !.listed = position,
                      !.todo = {s \in Symbols : position[s] # 0}])
    /\ UNCHANGED <<access, position, late, trades, faults>>

\* A failing query is logged and reads as "no open positions".
ListFails(c) ==
    /\ closing[c].pc = "called" /\ access = "trading"
    /\ faults < MaxFaults /\ faults' = faults + 1
    /\ Proceed(c, [closing[c] EXCEPT !.pc = "listed", !.view = "failed"])
    /\ UNCHANGED <<access, position, late, trades>>

\* The positions are taken one by one, in the order of the exchange's answer.
Pending(c, s) == closing[c].pc = "listed" /\ s \in closing[c].todo

Handled(r, s, status) ==
    [r EXCEPT !.todo = @ \ {s}, !.result = [@ EXCEPT ![s] = status]]

Outdated(r) == [r EXCEPT !.view = IF @ = "current" THEN "outdated" ELSE @]

Preview(c, s) ==
    /\ Pending(c, s) /\ closing[c].mode = "dry_run"
    /\ Proceed(c, Handled(closing[c], s, "would_close"))
    /\ UNCHANGED <<access, position, late, trades, faults>>

SubmittingAlways(c, s) == Pending(c, s)

Submitting(c, s) == Pending(c, s) /\ closing[c].mode = "live"

\* create_order returns: the order was taken and filled ...
Submit(c, s) ==
    /\ Submitting(c, s)
    /\ LET o == CloseOrder(s, closing[c].listed[s])
       IN  /\ Takes(o, position[s])
           /\ position' = [position EXCEPT ![s] = FilledTo(o, @)]
    /\ Proceed(c, Handled(closing[c], s, "submitted"))
    /\ UNCHANGED <<access, late, trades, faults>>

\* ... or, in a thin market, filled in part, which the code does not look at.
SubmitThin(c, s) ==
    /\ Submitting(c, s)
    /\ LET o == CloseOrder(s, closing[c].listed[s])
       IN  /\ Takes(o, position[s])
           /\ \E q \in -MaxSize..MaxSize :
                /\ Between(q, position[s], FilledTo(o, position[s]))
                /\ position' = [position EXCEPT ![s] = q]
    /\ Proceed(c, Outdated(Handled(closing[c], s, "submitted")))
    /\ UNCHANGED <<access, late, trades, faults>>

\* create_order raises: the exchange rejects an order with nothing to reduce,
\* the order does not arrive, or its answer does not and it is filled later.
Rejected(c, s) ==
    /\ Submitting(c, s)
    /\ ~Takes(CloseOrder(s, closing[c].listed[s]), position[s])
    /\ Proceed(c, Handled(closing[c], s, "failed"))
    /\ UNCHANGED <<access, position, late, trades, faults>>

OrderLostEndsLoop(c, s) ==
    /\ Submitting(c, s)
    /\ faults < MaxFaults /\ faults' = faults + 1
    /\ Proceed(c, [closing[c] EXCEPT !.todo = {},
                               !.result = [@ EXCEPT ![s] = "failed"]])
    /\ UNCHANGED <<access, position, late, trades>>

OrderLost(c, s) ==
    /\ Submitting(c, s)
    /\ faults < MaxFaults /\ faults' = faults + 1
    /\ Proceed(c, Handled(closing[c], s, "failed"))
    /\ UNCHANGED <<access, position, late, trades>>

AnswerLost(c, s) ==
    /\ Submitting(c, s)
    /\ faults < MaxFaults /\ faults' = faults + 1
    /\ late' = late \cup
         {[order |-> CloseOrder(s, closing[c].listed[s]), id |-> faults]}
    /\ Proceed(c, Handled(closing[c], s, "failed"))
    /\ UNCHANGED <<access, position, trades>>

AnswerClose(c) ==
    /\ closing[c].pc = "listed" /\ closing[c].todo = {}
    /\ Proceed(c, [closing[c] EXCEPT !.pc = "replied"])
    /\ UNCHANGED <<access, position, late, trades, faults>>

\* The process ends in the middle of the loop.
Die(c) ==
    /\ closing[c].pc \in {"called", "listed"}
    /\ Proceed(c, NoClose)
    /\ UNCHANGED <<access, position, late, trades, faults>>

-----------------------------------------------------------------------------
(* The exchange *)

\* An order of a failed call arrives: it is filled, or rejected.
ArriveLate ==
    /\ \E l \in late :
         LET s == l.order.symbol
         IN  /\ late' = late \ {l}
             /\ position' = IF Takes(l.order, position[s])
                            THEN [position EXCEPT ![s] = FilledTo(l.order, @)]
                            ELSE position
    /\ UNCHANGED <<access, closing, trades, faults>>

\* Somebody else trades; no listing is up to date any more.
OthersTrade ==
    /\ trades < MaxTrades /\ trades' = trades + 1
    /\ \E s \in Symbols, p \in -MaxSize..MaxSize :
         position' = [position EXCEPT ![s] = p]
    /\ closing' = [c \in Closers |-> Outdated(closing[c])]
    /\ UNCHANGED <<access, late, faults>>

CloseInit ==
    /\ access \in Accesses
    /\ position \in [Symbols -> -MaxSize..MaxSize]
    /\ late = {}
    /\ closing = [c \in Closers |-> NoClose]
    /\ trades = 0 /\ faults = 0

ServeClose(c) ==
    \/ CallClose(c) \/ Refuse(c) \/ MockPreview(c)
    \/ ListPositions(c) \/ ListFails(c)
    \/ \E s \in Symbols :
         \/ Preview(c, s) \/ Submit(c, s) \/ SubmitThin(c, s)
         \/ Rejected(c, s) \/ OrderLost(c, s) \/ AnswerLost(c, s)
    \/ AnswerClose(c) \/ Die(c)

CloseNext == OthersTrade \/ ArriveLate \/ \E c \in Closers : ServeClose(c)

CloseSpec == CloseInit /\ [][CloseNext]_closeVars

-----------------------------------------------------------------------------
(* Properties *)

Orders == [symbol : Symbols, delta : Int, reduceOnly : BOOLEAN]

Requests ==
    [pc : {"idle", "called", "listed", "replied", "refused"},
     mode : Modes, view : Views,
     listed : [Symbols -> Int], todo : SUBSET Symbols,
     result : [Symbols -> {"none", "would_close", "submitted", "failed"}]]

\* Every variable has its type, and a request only has results for positions
\* it has listed.
CloseTypeOK ==
    /\ access \in Accesses
    /\ position \in [Symbols -> Int]
    /\ late \subseteq [order : Orders, id : Nat]
    /\ closing \in [Closers -> Requests]
    /\ trades \in Nat /\ faults \in Nat
    /\ \A c \in Closers, s \in Symbols :
         closing[c].listed[s] = 0 => s \notin closing[c].todo
                                 /\ closing[c].result[s] = "none"

\* p has moved towards zero and not past it.
Reduced(p, q) == (0 <= q /\ q < p) \/ (p < q /\ q <= 0)

\* Whatever a request has listed, however stale it is by the time its order
\* arrives, and whoever else is closing: only trades by others open, enlarge
\* or turn a position (params={"reduceOnly": True}, close_side).
ClosingOnlyReduces ==
    [][ \A s \in Symbols :
          trades' = trades /\ position'[s] # position[s]
            => Reduced(position[s], position'[s]) ]_closeVars

\* A position changes without a trade by others only for a client with trading
\* keys, and only while a request with dry_run=false is in its loop or an order
\* of one is still on its way.
PreviewsChangeNothing ==
    [][ trades' = trades /\ position' # position
          => /\ access = "trading"
             /\ late # {} \/ \E c \in Closers :
                               closing[c].mode = "live" /\ closing[c].pc = "listed" ]_closeVars

\* What is still open after a live close that could list the positions, and
\* since when nobody traded and the market took whole orders, is reported as
\* failed: the caller can trust "submitted" and retry the rest.
OpenIsReported ==
    \A c \in Closers :
      LET r == closing[c]
      IN  r.pc = "replied" /\ r.mode = "live" /\ r.view = "current"
            => \A s \in Symbols :
                 position[s] # 0 => r.result[s] = "failed"

=============================================================================
