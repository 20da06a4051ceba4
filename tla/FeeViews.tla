------------------------------- MODULE FeeViews -------------------------------
(***************************************************************************)
(* Who is charged what, as the screens show it: the dashboard summary of   *)
(* core/invoice_state.py, the trader payment and introducer lists, the     *)
(* admin, trader and introducer portals and the line items of a live       *)
(* invoice (api/routes/invoices/).  Each view projects the same fee blocks *)
(* with tests and sums of its own.  How one client's block comes from      *)
(* files that change during a request is FeePosition's subject; here a     *)
(* view sees all accounts at one moment.                                   *)
(*                                                                         *)
(* Rates are in percent, so fees, payments and credits are in hundredths   *)
(* of the currency and introducer shares in ten-thousandths; the rounding  *)
(* of a share to cents is left out.                                        *)
(***************************************************************************)
EXTENDS Integers, FiniteSets, Summation

CONSTANTS
    Registry,          \* [clients -> registry entry]
    Seeds,             \* [clients -> their entry of _HWM_SEED]
    Introductions,     \* [introduced clients -> their entry of _INTRODUCER_SEED]
    AdminList,         \* clients of the admin portal's introducer table
    PortalList,        \* clients the introducer portal goes through
    ServerCost,        \* 50 units a month
    Amounts,           \* what an account gains or moves at a time
    MaxEquity,         \* bound
    MaxFlows,          \* bound: net deposits or withdrawals
    MaxChanged         \* bound: accounts away from their seed at a time

VARIABLE accounts      \* [clients -> [equity, flows, readable]]

Clients == DOMAIN Registry

\* Rates and payments are not negative; both portals go through the introduced
\* clients of the admin's table, and a client who was introduced has the
\* introducer's rate in the registry (credentials-registry.yaml,
\* _INTRODUCER_SEED).
ASSUME FeeViewsAssumption ==
    /\ IsFiniteSet(Clients) /\ ServerCost \in Nat
    /\ Amounts \subseteq Int /\ MaxEquity \in Nat /\ MaxFlows \in Nat
    /\ \A c \in Clients :
          /\ Registry[c].odumPct \in Nat /\ Registry[c].traderPct \in Nat
          /\ Registry[c].introPct \in Nat /\ Registry[c].underwater \in BOOLEAN
          /\ Seeds[c].hwm \in Int /\ Seeds[c].paid \in Nat /\ Seeds[c].credits \in Int
    /\ \A c \in DOMAIN Introductions :
          /\ Introductions[c].invoiced \in Int /\ Introductions[c].paid \in Int
          /\ c \in AdminList => c \in PortalList
          /\ c \in Clients => /\ Registry[c].introducer # ""
                             /\ Introductions[c].rate = Registry[c].introPct

AtLeast0(x) == IF x > 0 THEN x ELSE 0

AtMost(x, y) == IF x < y THEN x ELSE y

-----------------------------------------------------------------------------
(* The fee block of a client *)

CreditsOfGross(gross, paid, credits) ==
    LET credit == IF credits < 0 THEN AtMost(gross, -credits) ELSE 0
    IN  [net |-> AtLeast0(gross - paid - credit), credit |-> credit]

\* _apply_trader_credits: what was paid is deducted first, then the credits.
ApplyCredits(gross, paid, credits) ==
    LET unpaid == AtLeast0(gross - paid)
        credit == IF credits < 0 THEN AtMost(unpaid, -credits) ELSE 0
    IN  [net |-> unpaid - credit, credit |-> credit]

\* _compute_at_hwm_fees
Pnl(c) == AtLeast0(accounts[c].equity - Seeds[c].hwm - accounts[c].flows)

IntroShare(c) ==
    IF Registry[c].introducer = "" THEN 0
    ELSE Pnl(c) * Registry[c].odumPct * Registry[c].introPct

\* _at_hwm_fee_block
Earning(c) ==
    LET gross == Pnl(c) * Registry[c].traderPct
        net == ApplyCredits(gross, Seeds[c].paid, Seeds[c].credits)
    IN  [client |-> c, status |-> IF Pnl(c) > 0 THEN "AT_HWM" ELSE "BELOW_HWM",
         pnl |-> Pnl(c), odum |-> Pnl(c) * Registry[c].odumPct, gross |-> gross,
         net |-> net.net, credit |-> net.credit, intro |-> IntroShare(c), server |-> 0]

NoFees(c, status) ==
    [client |-> c, status |-> status, pnl |-> 0, odum |-> 0, gross |-> 0,
     net |-> 0, credit |-> 0, intro |-> 0, server |-> 0]

\* _underwater_fee_block
Recovering(c) ==
    [NoFees(c, IF Registry[c].underwater THEN "UNDERWATER" ELSE "PROP")
        EXCEPT !.server = IF Registry[c].underwater THEN ServerCost ELSE 0]

\* compute_current_fees
Fees(c) ==
    IF ~accounts[c].readable THEN NoFees(c, "NO_LIVE_DATA")
    ELSE IF Registry[c].underwater \/ Registry[c].odumPct = 0 THEN Recovering(c)
    ELSE Earning(c)

-----------------------------------------------------------------------------
(* The dashboard summary *)

\* get_dashboard_summary goes through the active clients; those of a fund of
\* funds are listed without fees.
Managed == {c \in Clients : Registry[c].active /\ Registry[c].tranche # "fund_of_fund"}

\* _classify_client_for_dashboard; a client whose curve cannot be read lands
\* among those at their mark, underwater or not.
Summary ==
    LET blocks == {Fees(c) : c \in Managed}
        underwater == {b \in blocks : b.status = "UNDERWATER"}
        prop == {b \in blocks : b.status = "PROP"}
    IN  [underwater |-> underwater, prop |-> prop,
         atHwm |-> (blocks \ underwater) \ prop]

ServerTotal(s) == ServerCost * Cardinality(s.underwater)

\* get_total_trader_credits: of every seed, active or not.
CreditsOutstanding ==
    SumOf([c \in {d \in Clients : Seeds[d].credits < 0} |-> Seeds[c].credits])

-----------------------------------------------------------------------------
(* The views of a summary s *)

\* trader_payment_summary
PaymentRows(s) == {b \in s.atHwm : b.net > 0}
PaymentPerf(s) == SumOf([b \in PaymentRows(s) |-> b.net])
PaymentDue(s) == PaymentPerf(s) + ServerTotal(s)

\* The rows of portal_trader; the totals it shows under them are left out.
TraderRows(s) == {b \in s.atHwm : b.pnl > 0}

\* _introducer_summary_rows, _introducer_client_row: the balance of a client
\* that was introduced, active or not, at the rate of the seed.
Balance(c) ==
    LET i == Introductions[c]
    IN  (i.invoiced + Fees(c).odum) * i.rate - i.paid

Introduced(list) == {c \in list : c \in DOMAIN Introductions}

AdminBalances == [c \in Introduced(AdminList) |-> Balance(c)]

PortalBalances(introducer) ==
    [c \in {d \in Introduced(PortalList) : Introductions[d].introducer = introducer} |-> Balance(c)]

\* _admin_at_hwm_rows and _admin_underwater_rows
AdminRows(s) == s.atHwm \cup s.underwater

\* _clients_for_org and _build_live_invoice_line_items
LineItems(s, org) ==
    LET billed == {b \in AdminRows(s) \cup s.prop : Registry[b.client].org = org}
    IN  {[client |-> b.client, kind |-> "odum_fee", amount |-> b.odum] : b \in {x \in billed : x.odum > 0}}
        \cup {[client |-> b.client, kind |-> "server_cost", amount |-> b.server] :
                  b \in {x \in billed : x.server > 0}}

InvoiceTotal(s, org) == SumOf([i \in LineItems(s, org) |-> i.amount])

-----------------------------------------------------------------------------
(* The accounts *)

\* A trade gains or loses; a deposit or withdrawal enters the curve's transfers.
Trade(c) ==
    \E a \in Amounts \cup {-a : a \in Amounts} :
        /\ accounts[c].equity + a \in 0 .. MaxEquity
        /\ accounts' = [accounts EXCEPT ![c].equity = @ + a]

MoveCash(c) ==
    \E a \in Amounts \cup {-a : a \in Amounts} :
        /\ accounts[c].equity + a \in 0 .. MaxEquity
        /\ accounts[c].flows + a \in -MaxFlows .. MaxFlows
        /\ accounts' = [accounts EXCEPT ![c].equity = @ + a, ![c].flows = @ + a]

\* The curve of a client is missing or torn for a while; then get_live_equity
\* has no answer.
Unreadable(c) == accounts' = [accounts EXCEPT ![c].readable = ~@]

AtSeed(c) == [equity |-> Seeds[c].hwm, flows |-> 0, readable |-> TRUE]

FeeInit == accounts = [c \in Clients |-> AtSeed(c)]

FeeNext ==
    /\ \E c \in Clients : Trade(c) \/ MoveCash(c) \/ Unreadable(c)
    /\ Cardinality({c \in Clients : accounts'[c] # AtSeed(c)}) <= MaxChanged

FeeSpec == FeeInit /\ [][FeeNext]_accounts

-----------------------------------------------------------------------------
Orgs == {Registry[c].org : c \in Managed}

\* The trader's portal and the trader payment select their rows by different
\* tests, and the rows come to the same fees: the payment is due those of the
\* portal's rows and the server costs.  That the portal adds none of its rows
\* to the total it shows is not part of this.  Of each gross fee nothing is
\* lost: it is what was paid, what the credits covered and what is due.
TraderIsPaidOnce(s) ==
    /\ PaymentDue(s) = ServerTotal(s) + SumOf([b \in TraderRows(s) |-> b.net])
    /\ \A b \in s.atHwm :
          /\ b.gross = b.net + b.credit + AtMost(Seeds[b.client].paid, b.gross)
          /\ b.credit <= AtLeast0(-Seeds[b.client].credits)
    /\ SumOf([b \in s.atHwm |-> b.credit]) <= -CreditsOutstanding

\* The invoices of all organisations come to the fees the admin sees and the
\* server costs of the trader payment; nobody is charged twice, or a fee and
\* a server cost.
InvoicesCoverFees(s) ==
    LET items == UNION {LineItems(s, o) : o \in Orgs}
    IN  /\ SumOf([o \in Orgs |-> InvoiceTotal(s, o)])
              = SumOf([b \in AdminRows(s) |-> b.odum]) + ServerTotal(s)
        /\ \A i, j \in items : i.client = j.client => i = j

\* An introduced client's balance is the same in both portals, and the share
\* of the new fee in it is the one the admin's row shows.
IntroducersAgree(s) ==
    /\ \A c \in DOMAIN AdminBalances :
          PortalBalances(Introductions[c].introducer)[c] = AdminBalances[c]
    /\ \A b \in AdminRows(s) : b.client \in DOMAIN Introductions =>
          LET i == Introductions[b.client]
          IN  Balance(b.client) = i.invoiced * i.rate - i.paid + b.intro

\* The rows of the fee views, the totals of the payment and of the invoices and
\* the introducers' balances agree with each other in every state of the
\* accounts (dashboards.py, portals.py, generation.py over
\* get_dashboard_summary).  The totals of the trader's portal are not among them.
FeeViewsAgree ==
    LET s == Summary
    IN  TraderIsPaidOnce(s) /\ InvoicesCoverFees(s) /\ IntroducersAgree(s)
=============================================================================
