---------------------------- MODULE ReportProofs ----------------------------
(***************************************************************************)
(* Theorems about the modules beside the reports: the daily digest of the  *)
(* ledger (DailyDigest), the invoices with their envelopes                 *)
(* (InvoiceRecords), the views of the fees (FeeViews), those of the        *)
(* attribution rows and the transfers (AttributionViews), the folds of a   *)
(* run's tape into positions and P&L (PaperBook), the sums over coins,     *)
(* days, months and clients and the holding times of the trade analytics   *)
(* (TradeAnalytics), and the transfers and statistics read off the curve   *)
(* (TransferViews, PerformanceStats).                                      *)
(***************************************************************************)
EXTENDS DailyDigest, InvoiceRecords, FeeViews, AttributionViews, PaperBook,
        TradeAnalytics, TransferViews, FiniteSetLemmas

(***************************************************************************)
(* ZeroExitMeansDelivered for any number of clients, runs and executions,  *)
(* tapes of any length and failures of any number of reads and posts.      *)
(*                                                                         *)
(* The promise about the end of an execution is inductive once it is made  *)
(* for the clients the loop has passed (Passed), and the rows in hand are  *)
(* tied to the runs the execution found (Fresh).                           *)
(***************************************************************************)

Alert ==
    [client : Everyone, tape : [run : Int, rows : Nat], execution : Nat]

\* The clients the loop has still to do.
Queued == ToSet(queue)

\* Types, as far as the proof needs them.
DigestShapes ==
    /\ tapes \in [Everyone -> [1 .. MaxRuns -> Nat \cup {NoTape}]]
    /\ execution \in Nat
    /\ queue \in Seq(Everyone)
    /\ read \in [run : Int, rows : Nat]
    /\ alerts \in Seq(Alert)
    /\ atStart.newest \in [Everyone -> Nat]
    /\ atStart.scope \subseteq Everyone

\* The loop visits each client of the scope once and is not over before.
LoopInv ==
    /\ \A i, j \in 1 .. Len(queue) : queue[i] = queue[j] => i = j
    /\ Queued \subseteq atStart.scope
    /\ Running => exit = "none"

\* No run is older than the ones the execution found.  Rows in hand are the
\* whole tape of such a run, or there was none, unless the storage failed.
Fresh ==
    /\ \A c \in Everyone : Canonical(c) >= atStart.newest[c]
    /\ Running /\ read # Unread /\ Head(queue) \notin faulty =>
          \/ OfWholeTape(Head(queue), read)
          \/ read.rows = 0 /\ atStart.newest[Head(queue)] = 0

\* A digest of this execution is of a client that has been visited, and there
\* is one at most.
Posted ==
    /\ \A i \in DOMAIN alerts : alerts[i].execution <= execution
    /\ \A c \in Everyone :
          /\ Delivered(c) # {} => live /\ c \in atStart.scope /\ c \notin Queued
          /\ \A i, j \in Delivered(c) : i = j
          /\ c \notin faulty => \A i \in Delivered(c) : OfWholeTape(c, alerts[i].tape)

\* Until an exception, each client the loop has passed has its digest.
Passed ==
    exit \in {"none", "ok"} /\ live =>
        \A c \in (atStart.scope \ faulty) \ Queued : Delivered(c) # {} \/ NoFills(c)

DInv == DigestShapes /\ LoopInv /\ Fresh /\ Posted /\ Passed

-----------------------------------------------------------------------------
\* Taking the head off a queue without repetitions.
LEMMA HeadOff ==
    ASSUME NEW S, NEW q \in Seq(S), q # <<>>,
           \A i, j \in 1 .. Len(q) : q[i] = q[j] => i = j
    PROVE  /\ Head(q) \in S /\ Tail(q) \in Seq(S)
           /\ ToSet(q) = ToSet(Tail(q)) \cup {Head(q)}
           /\ Head(q) \notin ToSet(Tail(q))
           /\ \A i, j \in 1 .. Len(Tail(q)) : Tail(q)[i] = Tail(q)[j] => i = j
           /\ Len(q) = 1 <=> Tail(q) = <<>>
<1>1. Len(q) \in Nat \ {0} /\ Head(q) = q[1] /\ Len(Tail(q)) = Len(q) - 1
      /\ DOMAIN q = 1 .. Len(q) /\ DOMAIN Tail(q) = 1 .. Len(q) - 1
  OBVIOUS
<1>2. Head(q) \in S /\ Tail(q) \in Seq(S)
  OBVIOUS
<1>3. \A i \in 1 .. Len(q) - 1 : Tail(q)[i] = q[i + 1]
  OBVIOUS
<1>4. \A i \in 1 .. Len(q) : i = 1 \/ (i - 1 \in 1 .. Len(q) - 1 /\ q[i] = Tail(q)[i - 1])
  BY <1>1, <1>3
<1>5. ToSet(q) = ToSet(Tail(q)) \cup {Head(q)}
  <2>1. ASSUME NEW i \in 1 .. Len(q) PROVE q[i] \in ToSet(Tail(q)) \cup {Head(q)}
    <3>1. CASE i = 1
      BY <1>1, <3>1
    <3>2. CASE i # 1
      <4>1. i - 1 \in DOMAIN Tail(q) /\ q[i] = Tail(q)[i - 1]
        BY <1>1, <1>4, <3>2
      <4>2. QED
        BY <4>1 DEF ToSet
    <3>3. QED
      BY <3>1, <3>2
  <2>2. ToSet(Tail(q)) \subseteq ToSet(q)
    BY <1>1, <1>3 DEF ToSet
  <2>3. Head(q) \in ToSet(q)
    BY <1>1 DEF ToSet
  <2>4. QED
    BY <1>1, <2>1, <2>2, <2>3 DEF ToSet
<1>6. Head(q) \notin ToSet(Tail(q))
  BY <1>1, <1>3 DEF ToSet
<1>7. \A i, j \in 1 .. Len(Tail(q)) : Tail(q)[i] = Tail(q)[j] => i = j
  BY <1>1, <1>3
<1>8. Len(q) = 1 <=> Tail(q) = <<>>
  BY <1>1, <1>2
<1>9. QED
  BY <1>2, <1>5, <1>6, <1>7, <1>8

LEMMA EmptyQueue == ToSet(<<>>) = {}
BY DEF ToSet

\* The canonical run of a client is its last one with a tape, or 0, before and
\* after a step.
LEMMA LastRun ==
    ASSUME NEW W, W \subseteq 1 .. MaxRuns
    PROVE  /\ Max(W \cup {0}) \in W \cup {0} /\ Max(W \cup {0}) \in Nat
           /\ \A r \in W \cup {0} : r <= Max(W \cup {0})
<1>1. IsFiniteSet(0 .. MaxRuns)
  BY BoundsAssumption, FS_Interval
<1>2. W \cup {0} \subseteq 0 .. MaxRuns /\ W \cup {0} \subseteq Nat
  BY BoundsAssumption
<1> DEFINE V == W \cup {0}
<1>3. V \subseteq Int /\ V # {} /\ V \subseteq 0 .. MaxRuns /\ V \subseteq Nat
  BY <1>2
<1> HIDE DEF V
<1>4. IsFiniteSet(V)
  BY <1>1, <1>3, FS_Subset
<1>5. Max(V) \in V /\ \A y \in V : y <= Max(V)
  BY <1>3, <1>4, GreatestElement
<1>6. QED
  BY <1>3, <1>5 DEF V

LEMMA CanonicalIsLast ==
    ASSUME NEW c
    PROVE  /\ Canonical(c) \in Written(c) \cup {0} /\ Canonical(c) \in Nat
           /\ Canonical(c)' \in Nat
           /\ \A r \in Written(c)' \cup {0} : r <= Canonical(c)'
<1>1. Written(c) \subseteq 1 .. MaxRuns /\ Written(c)' \subseteq 1 .. MaxRuns
  BY DEF Written
<1>2. Canonical(c) = Max(Written(c) \cup {0}) /\ Canonical(c)' = Max(Written(c)' \cup {0})
  BY DEF Canonical
<1>3. QED
  BY <1>1, <1>2, LastRun

\* A tape that is written stays as it is, and no older run takes its place.
LEMMA TapesStay ==
    ASSUME DigestShapes, NEW c \in Everyone, WriteTape(c)
    PROVE  /\ tapes' \in [Everyone -> [1 .. MaxRuns -> Nat \cup {NoTape}]]
           /\ \A e \in Everyone :
                 /\ Written(e) \subseteq Written(e)'
                 /\ \A r \in Written(e) : tapes'[e][r] = tapes[e][r]
                 /\ Canonical(e)' >= Canonical(e)
<1>1. PICK r \in (1 .. MaxRuns) \ Written(c), n \in 0 .. MaxTapeRows :
          tapes' = [tapes EXCEPT ![c][r] = n]
  BY DEF WriteTape
<1>2. tapes \in [Everyone -> [1 .. MaxRuns -> Nat \cup {NoTape}]] /\ n \in Nat
  BY BoundsAssumption DEF DigestShapes
<1>3. tapes' \in [Everyone -> [1 .. MaxRuns -> Nat \cup {NoTape}]]
  BY <1>1, <1>2
<1>4. ASSUME NEW e \in Everyone, NEW q \in Written(e)
      PROVE  tapes'[e][q] = tapes[e][q] /\ q \in Written(e)'
  <2>1. q \in 1 .. MaxRuns /\ tapes[e][q] # NoTape
    BY <1>4 DEF Written
  <2>2. e # c \/ q # r
    BY <1>1, <1>4
  <2>3. tapes'[e][q] = tapes[e][q]
    BY <1>1, <1>2, <2>1, <2>2
  <2>4. QED
    BY <2>1, <2>3 DEF Written
<1>5. ASSUME NEW e \in Everyone PROVE Canonical(e)' >= Canonical(e)
  <2>1. Canonical(e) \in Written(e) \cup {0}
    BY CanonicalIsLast
  <2>2. Canonical(e) \in Written(e)' \cup {0}
    BY <1>4, <1>5, <2>1
  <2>3. \A r1 \in Written(e)' \cup {0} : r1 <= Canonical(e)'
    BY CanonicalIsLast
  <2>4. Canonical(e) \in Nat /\ Canonical(e)' \in Nat
    BY CanonicalIsLast
  <2>5. QED
    BY <2>2, <2>3, <2>4
<1>6. QED
  BY <1>3, <1>4, <1>5

\* The invariant holds initially.
LEMMA InitDInv == DigestInit => DInv
<1> SUFFICES ASSUME DigestInit PROVE DInv
  OBVIOUS
<1>1. DigestShapes
  BY DEF DigestInit, DigestShapes, Unread
<1>2. LoopInv
  BY EmptyQueue DEF DigestInit, LoopInv, Queued, Running
<1>3. Fresh
  BY CanonicalIsLast DEF DigestInit, Fresh, Running
<1>4. Posted
  BY DEF DigestInit, Posted, Delivered
<1>5. Passed
  BY DEF DigestInit, Passed
<1>6. QED
  BY <1>1, <1>2, <1>3, <1>4, <1>5 DEF DInv

-----------------------------------------------------------------------------
\* Without a new digest, the digests of this execution stay what they are.
LEMMA SameAlerts ==
    ASSUME alerts' = alerts, execution' = execution
    PROVE  \A c : Delivered(c)' = Delivered(c)
BY DEF Delivered

\* The client the loop is at has no digest of this execution yet, and is not
\* among those after it.
LEMMA LeaveClient ==
    ASSUME DInv, Running
    PROVE  /\ Head(queue) \in Everyone /\ Head(queue) \in atStart.scope
           /\ Queued = ToSet(Tail(queue)) \cup {Head(queue)}
           /\ Head(queue) \notin ToSet(Tail(queue))
           /\ Tail(queue) \in Seq(Everyone)
           /\ \A i, j \in 1 .. Len(Tail(queue)) : Tail(queue)[i] = Tail(queue)[j] => i = j
           /\ Len(queue) = 1 <=> Tail(queue) = <<>>
           /\ Delivered(Head(queue)) = {}
<1>1. queue \in Seq(Everyone) /\ queue # <<>>
      /\ \A i, j \in 1 .. Len(queue) : queue[i] = queue[j] => i = j
  BY DEF DInv, DigestShapes, LoopInv, Running
<1>2. /\ Head(queue) \in Everyone /\ Tail(queue) \in Seq(Everyone)
      /\ Queued = ToSet(Tail(queue)) \cup {Head(queue)}
      /\ Head(queue) \notin ToSet(Tail(queue))
      /\ \A i, j \in 1 .. Len(Tail(queue)) : Tail(queue)[i] = Tail(queue)[j] => i = j
      /\ Len(queue) = 1 <=> Tail(queue) = <<>>
  BY <1>1, HeadOff DEF Queued
<1>3. Head(queue) \in atStart.scope
  BY <1>2 DEF DInv, LoopInv
<1>4. Delivered(Head(queue)) = {}
  BY <1>2 DEF DInv, Posted
<1>5. QED
  BY <1>2, <1>3, <1>4

\* A digest of the client at the head of the queue is the only one of this
\* execution, and holds the rows in hand.
LEMMA ReceivedIsNew ==
    ASSUME DInv, NEW h \in Everyone, h = Head(queue),
           Received, execution' = execution
    PROVE  /\ alerts' \in Seq(Alert)
           /\ \A i \in DOMAIN alerts' : alerts'[i].execution <= execution
           /\ \A c \in Everyone \ {h} :
                 /\ Delivered(c)' = Delivered(c)
                 /\ \A i \in Delivered(c) : alerts'[i] = alerts[i]
           /\ Delivered(h) = {} =>
                 /\ \A i, j \in Delivered(h)' : i = j
                 /\ Delivered(h)' # {}
                 /\ \A i \in Delivered(h)' : alerts'[i].tape = read
<1> DEFINE a == Digest(h, read)
           n == Len(alerts) + 1
<1>1. alerts \in Seq(Alert) /\ execution \in Nat
      /\ \A i \in DOMAIN alerts : alerts[i].execution <= execution
  BY DEF DInv, DigestShapes, Posted
<1>2. /\ a \in Alert /\ a.client = h /\ a.execution = execution /\ a.tape = read
  BY <1>1 DEF Digest, Alert, DInv, DigestShapes
<1>3. alerts' = Append(alerts, a)
  BY DEF Received
<1> HIDE DEF a
<1>4. /\ alerts' \in Seq(Alert) /\ DOMAIN alerts' = DOMAIN alerts \cup {n}
      /\ n \notin DOMAIN alerts /\ alerts'[n] = a
      /\ \A i \in DOMAIN alerts : alerts'[i] = alerts[i]
  BY <1>1, <1>2, <1>3
<1> HIDE DEF n
<1>5. \A i \in DOMAIN alerts' : alerts'[i].execution <= execution
  BY <1>1, <1>2, <1>4
<1>6. ASSUME NEW c \in Everyone \ {h}
      PROVE  Delivered(c)' = Delivered(c) /\ \A i \in Delivered(c) : alerts'[i] = alerts[i]
  BY <1>2, <1>4 DEF Delivered
<1>7. Delivered(h)' = Delivered(h) \cup {n}
  BY <1>2, <1>4 DEF Delivered
<1>8. Delivered(h) = {} => Delivered(h)' = {n} /\ alerts'[n].tape = read
  BY <1>2, <1>4, <1>7
<1>9. QED
  BY <1>4, <1>5, <1>6, <1>8

\* Every step keeps the invariant, by the parts it can disturb.
LEMMA StepDInv ==
    ASSUME DInv, [DigestNext]_digestVars
    PROVE  DInv'
<1> USE DEF DInv
<1>1. ASSUME NEW c \in Everyone, WriteTape(c) PROVE DInv'
  <2>1. UNCHANGED <<execution, live, queue, read, exit, alerts, atStart, faulty>>
    BY <1>1 DEF WriteTape
  <2>2. /\ tapes' \in [Everyone -> [1 .. MaxRuns -> Nat \cup {NoTape}]]
        /\ \A e \in Everyone :
              /\ Written(e) \subseteq Written(e)'
              /\ \A r \in Written(e) : tapes'[e][r] = tapes[e][r]
              /\ Canonical(e)' >= Canonical(e)
    BY <1>1, TapesStay
  <2>3. DigestShapes'
    BY <2>1, <2>2 DEF DigestShapes
  <2>4. LoopInv'
    BY <2>1 DEF LoopInv, Queued, Running
  <2>5. ASSUME NEW e \in Everyone
        PROVE  /\ \A t : OfWholeTape(e, t) => OfWholeTape(e, t)'
               /\ NoFills(e) => NoFills(e)'
    BY <2>1, <2>2 DEF OfWholeTape, NoFills
  <2>6. Fresh'
    <3>1. ASSUME NEW e \in Everyone PROVE Canonical(e)' >= atStart'.newest[e]
      <4>1. Canonical(e)' >= Canonical(e) /\ Canonical(e) >= atStart.newest[e]
        BY <2>2 DEF Fresh
      <4>2. Canonical(e) \in Nat /\ Canonical(e)' \in Nat
        BY CanonicalIsLast
      <4>3. atStart.newest[e] \in Nat
        BY DEF DigestShapes
      <4>4. QED
        BY <2>1, <4>1, <4>2, <4>3
    <3>2. Running => Head(queue) \in Everyone
      BY DEF Running, DigestShapes
    <3>3. Running /\ read # Unread /\ Head(queue) \notin faulty =>
              \/ OfWholeTape(Head(queue), read)'
              \/ read.rows = 0 /\ atStart.newest[Head(queue)] = 0
      <4>1. SUFFICES ASSUME Running, read # Unread, Head(queue) \notin faulty,
                            OfWholeTape(Head(queue), read)
                     PROVE  OfWholeTape(Head(queue), read)'
        BY DEF Fresh
      <4>2. QED
        BY <2>1, <2>2, <3>2, <4>1 DEF OfWholeTape
    <3>4. QED
      BY <2>1, <3>1, <3>3 DEF Fresh, Running
  <2>7. Posted'
    <3>1. \A e : Delivered(e)' = Delivered(e)
      BY <2>1, SameAlerts
    <3>2. ASSUME NEW e \in Everyone, NEW i \in Delivered(e), OfWholeTape(e, alerts[i].tape)
          PROVE  OfWholeTape(e, alerts[i].tape)'
      BY <2>1, <2>2, <3>2 DEF OfWholeTape
    <3>3. QED
      BY <2>1, <3>1, <3>2 DEF Posted, Queued
  <2>8. Passed'
    <3>1. \A e : Delivered(e)' = Delivered(e)
      BY <2>1, SameAlerts
    <3>2. atStart.scope \subseteq Everyone
      BY DEF DigestShapes
    <3>3. QED
      BY <2>1, <2>5, <3>1, <3>2 DEF Passed, Queued
  <2>9. QED
    BY <2>3, <2>4, <2>6, <2>7, <2>8
<1>2. CASE Begin \/ NobodyActive
  <2> DEFINE Newest == [e \in Everyone |-> Canonical(e)]
  <2>1. /\ ~Running /\ execution' = execution + 1
        /\ UNCHANGED <<tapes, alerts>>
        /\ faulty' = {}
    BY <1>2 DEF Begin, NobodyActive
  <2>2. /\ queue' \in Seq(Everyone)
        /\ \A i, j \in 1 .. Len(queue') : queue'[i] = queue'[j] => i = j
        /\ atStart' = [newest |-> Newest, scope |-> ToSet(queue')]
        /\ read' \in {Unread, read}
        /\ queue' # <<>> => exit' = "none" /\ read' = Unread
    <3>1. CASE NobodyActive
      <4>1. queue = <<>> /\ queue' = queue /\ read' = read
            /\ atStart' = [newest |-> Newest, scope |-> {}]
        BY <3>1 DEF NobodyActive, Running
      <4>2. queue' = <<>> /\ Len(<<>>) = 0 /\ ToSet(queue') = {}
        BY <4>1, EmptyQueue
      <4>3. queue' \in Seq(Everyone)
        BY <4>2
      <4>4. \A i, j \in 1 .. Len(queue') : queue'[i] = queue'[j] => i = j
        BY <4>2
      <4>5. atStart' = [newest |-> Newest, scope |-> ToSet(queue')]
        BY <4>1, <4>2
      <4>6. QED
        BY <4>1, <4>2, <4>3, <4>4, <4>5
    <3>2. CASE Begin
      <4>1. PICK scope \in {ClientList} \cup {<<c>> : c \in Everyone} :
                queue' = scope /\ atStart' = [newest |-> Newest, scope |-> ToSet(scope)]
        BY <3>2 DEF Begin
      <4>2. scope \in Seq(Everyone)
            /\ \A i, j \in 1 .. Len(scope) : scope[i] = scope[j] => i = j
        <5>1. CASE scope = ClientList
          BY <5>1, RegistryAssumption DEF Everyone
        <5>2. ASSUME NEW c \in Everyone, scope = <<c>>
              PROVE  scope \in Seq(Everyone) /\ Len(scope) = 1
          BY <5>2
        <5>3. QED
          BY <4>1, <5>1, <5>2
      <4>3. QED
        BY <3>2, <4>1, <4>2 DEF Begin
    <3>3. QED
      BY <1>2, <3>1, <3>2
  <2>3. atStart'.newest = Newest /\ atStart'.scope = ToSet(queue')
    BY <2>2
  <2>4. ToSet(queue') \subseteq Everyone
    BY <2>2 DEF ToSet
  <2>5. DigestShapes'
    <3>1. Newest \in [Everyone -> Nat]
      BY CanonicalIsLast
    <3>2. Unread \in [run : Int, rows : Nat]
      BY DEF Unread
    <3>3. QED
      BY <2>1, <2>2, <2>3, <2>4, <3>1, <3>2 DEF DigestShapes
  <2>6. LoopInv'
    BY <2>2, <2>3 DEF LoopInv, Queued, Running
  <2>7. Fresh'
    <3>1. ASSUME NEW e \in Everyone PROVE Canonical(e)' >= atStart'.newest[e]
      <4>1. Canonical(e)' = Canonical(e)
        BY <2>1 DEF Canonical, Written
      <4>2. Canonical(e) \in Nat
        BY CanonicalIsLast
      <4>3. QED
        BY <2>3, <4>1, <4>2
    <3>2. QED
      BY <2>2, <3>1 DEF Fresh, Running
  <2>8. \A i \in DOMAIN alerts : alerts[i].execution <= execution /\ alerts[i].execution \in Nat
    <3>1. ASSUME NEW i \in DOMAIN alerts PROVE alerts[i] \in Alert
      BY DEF DigestShapes
    <3>2. \A a \in Alert : a.execution \in Nat
      BY DEF Alert
    <3>3. QED
      BY <3>1, <3>2 DEF Posted
  <2>9. \A c : Delivered(c)' = {}
    BY <2>1, <2>8 DEF Delivered, DigestShapes
  <2>10. Posted'
    BY <2>1, <2>8, <2>9 DEF Posted, DigestShapes
  <2>11. Passed'
    BY <2>3 DEF Passed, Queued
  <2>12. QED
    BY <2>5, <2>6, <2>7, <2>10, <2>11
<1>3. CASE ReadTape
  <2>1. /\ Running /\ read = Unread
        /\ UNCHANGED <<tapes, execution, live, queue, exit, alerts, atStart>>
    BY <1>3 DEF ReadTape
  <2>2. queue \in Seq(Everyone) /\ queue # <<>>
    BY <2>1 DEF DigestShapes, Running
  <2>3. Head(queue) \in Everyone
    BY <2>2
  <2>4. PICK h : h = Head(queue)
    OBVIOUS
  <2>5. PICK r : r = Canonical(h)
    OBVIOUS
  <2>6. /\ r \in Written(h) \cup {0} /\ r \in Nat
        /\ r \in Written(h) => r \in 1 .. MaxRuns /\ tapes[h][r] \in Nat
    <3>1. r \in Written(h) \cup {0} /\ r \in Nat
      BY <2>5, CanonicalIsLast
    <3>2. ASSUME r \in Written(h) PROVE r \in 1 .. MaxRuns /\ tapes[h][r] \in Nat
      BY <2>3, <2>4, <3>2 DEF Written, DigestShapes
    <3>3. QED
      BY <3>1, <3>2
  <2>7. /\ read' \in [run : Int, rows : Nat] /\ faulty \subseteq faulty' /\ faulty' \subseteq faulty \cup {h}
        /\ h \notin faulty' => read' = [run |-> r, rows |-> IF r = 0 THEN 0 ELSE tapes[h][r]]
    <3>1. CASE /\ read' = [run |-> r, rows |-> IF r = 0 THEN 0 ELSE tapes[h][r]]
               /\ faulty' = faulty
      BY <2>6, <3>1
    <3>2. CASE /\ \E n \in 0 .. MaxTapeRows : read' = [run |-> r, rows |-> n]
               /\ faulty' = faulty \cup {h}
      BY <2>6, <3>2, BoundsAssumption
    <3>3. QED
      BY <1>3, <2>4, <2>5, <3>1, <3>2 DEF ReadTape
  <2>8. DigestShapes'
    BY <2>1, <2>7 DEF DigestShapes
  <2>9. LoopInv'
    BY <2>1 DEF LoopInv, Queued, Running
  <2>10. Fresh'
    <3>1. ASSUME NEW e \in Everyone PROVE Canonical(e)' >= atStart'.newest[e]
      BY <2>1 DEF Fresh, Canonical, Written
    <3>2. ASSUME h \notin faulty'
          PROVE  OfWholeTape(h, read)' \/ (read'.rows = 0 /\ atStart.newest[h] = 0)
      <4>1. r >= atStart.newest[h] /\ atStart.newest[h] \in Nat
        BY <2>3, <2>4, <2>5 DEF Fresh, DigestShapes
      <4>2. CASE r = 0
        BY <2>7, <3>2, <4>1, <4>2
      <4>3. CASE r # 0
        <5>1. r \in Written(h) /\ read'.run = r /\ read'.rows = tapes[h][r]
          BY <2>6, <2>7, <3>2, <4>3
        <5>2. QED
          BY <2>1, <4>1, <5>1 DEF OfWholeTape, Written
      <4>4. QED
        BY <4>2, <4>3
    <3>3. h' = Head(queue')
      BY <2>1, <2>4
    <3>4. QED
      BY <2>1, <2>4, <3>1, <3>2 DEF Fresh, Running, OfWholeTape, Written
  <2>11. Posted'
    <3>1. \A e : Delivered(e)' = Delivered(e)
      BY <2>1, SameAlerts
    <3>2. ASSUME NEW e \in Everyone, e \notin faulty', NEW i \in Delivered(e)
          PROVE  OfWholeTape(e, alerts[i].tape)'
      <4>1. OfWholeTape(e, alerts[i].tape)
        BY <2>7, <3>2 DEF Posted
      <4>2. QED
        BY <2>1, <4>1 DEF OfWholeTape, Written
    <3>3. QED
      BY <2>1, <3>1, <3>2 DEF Posted, Queued
  <2>12. Passed'
    BY <2>1, <2>7 DEF Passed, Delivered, Queued, NoFills, Written
  <2>13. QED
    BY <2>8, <2>9, <2>10, <2>11, <2>12
<1>4. CASE NothingToPost \/ Post \/ PostFails
  <2>1. /\ Running /\ read # Unread /\ read' = Unread
        /\ UNCHANGED <<tapes, execution, live, atStart, faulty>>
    BY <1>4 DEF NothingToPost, Post, PostFails, NextClient, Raised, DigestShapes, Unread
  <2>2. PICK h : h = Head(queue)
    OBVIOUS
  <2>3. /\ h \in Everyone /\ h \in atStart.scope
        /\ Queued = ToSet(Tail(queue)) \cup {h} /\ h \notin ToSet(Tail(queue))
        /\ Tail(queue) \in Seq(Everyone)
        /\ \A i, j \in 1 .. Len(Tail(queue)) : Tail(queue)[i] = Tail(queue)[j] => i = j
        /\ Len(queue) = 1 <=> Tail(queue) = <<>>
        /\ Delivered(h) = {}
    BY <2>1, <2>2, LeaveClient
  <2>4. \/ NextClient
        \/ Raised /\ live
    BY <1>4 DEF NothingToPost, Post, PostFails
  <2>5. \/ Received /\ live
        \/ alerts' = alerts
    BY <1>4 DEF NothingToPost, Post, PostFails
  <2>6. /\ queue' \in Seq(Everyone)
        /\ \A i, j \in 1 .. Len(queue') : queue'[i] = queue'[j] => i = j
        /\ Queued' \subseteq Queued /\ h \notin Queued'
    <3>1. CASE NextClient
      <4>1. queue' = Tail(queue)
        BY <3>1 DEF NextClient
      <4>2. QED
        BY <2>3, <4>1 DEF Queued
    <3>2. CASE Raised
      <4>1. queue' = <<>>
        BY <3>2 DEF Raised
      <4>2. QED
        BY <4>1, EmptyQueue DEF Queued
    <3>3. QED
      BY <2>4, <3>1, <3>2
  <2>7. LoopInv'
    <3>1. queue' # <<>> => exit' = "none"
      BY <2>3, <2>4 DEF NextClient, Raised
    <3>2. Queued' \subseteq atStart'.scope
      BY <2>1, <2>6 DEF LoopInv
    <3>3. QED
      BY <2>6, <3>1, <3>2 DEF LoopInv, Running
  <2>8. Fresh'
    BY <2>1 DEF Fresh, Canonical, Written
  <2>9. /\ alerts' \in Seq(Alert)
        /\ \A i \in DOMAIN alerts' : alerts'[i].execution <= execution
        /\ \A c \in Everyone \ {h} :
              Delivered(c)' = Delivered(c) /\ \A i \in Delivered(c) : alerts'[i] = alerts[i]
        /\ \A i, j \in Delivered(h)' : i = j
        /\ alerts' = alerts => Delivered(h)' = {}
        /\ Received => Delivered(h)' # {} /\ \A i \in Delivered(h)' : alerts'[i].tape = read
    <3>1. CASE Received
      <4>1. alerts' # alerts
        BY <3>1 DEF Received, DigestShapes
      <4>2. QED
        BY <2>1, <2>2, <2>3, <3>1, <4>1, ReceivedIsNew
    <3>2. CASE alerts' = alerts
      <4>1. ~Received
        BY <3>2 DEF Received, DigestShapes
      <4>2. \A c : Delivered(c)' = Delivered(c)
        BY <2>1, <3>2, SameAlerts
      <4>3. QED
        BY <2>3, <3>2, <4>1, <4>2 DEF DigestShapes, Posted
    <3>3. QED
      BY <2>5, <3>1, <3>2
  <2>10. DigestShapes'
    <3>1. Unread \in [run : Int, rows : Nat]
      BY DEF Unread
    <3>2. QED
      BY <2>1, <2>6, <2>9, <3>1 DEF DigestShapes
  <2>11. Posted'
    <3>1. ASSUME NEW c \in Everyone
          PROVE  /\ Delivered(c)' # {} => live' /\ c \in atStart'.scope /\ c \notin Queued'
                 /\ \A i, j \in Delivered(c)' : i = j
                 /\ c \notin faulty' =>
                       \A i \in Delivered(c)' : OfWholeTape(c, alerts'[i].tape)
      <4>1. CASE c = h
        <5>1. ASSUME h \notin faulty, Received, read.rows > 0 PROVE OfWholeTape(h, read)
          BY <2>1, <2>2, <5>1 DEF Fresh
        <5>2. Received => read.rows > 0
          <6>1. NothingToPost => ~Received
            BY DEF NothingToPost, Received, DigestShapes
          <6>2. QED
            BY <1>4, <6>1 DEF Post, PostFails
        <5>3. h \notin faulty => \A i \in Delivered(h)' : OfWholeTape(h, alerts'[i].tape)
          BY <2>5, <2>9, <5>1, <5>2
        <5>4. QED
          BY <2>1, <2>3, <2>5, <2>6, <2>9, <4>1, <5>3
      <4>2. CASE c # h
        <5>1. c \in Everyone \ {h}
          BY <4>2
        <5>2. Delivered(c)' = Delivered(c) /\ \A i \in Delivered(c) : alerts'[i] = alerts[i]
          BY <2>9, <5>1
        <5>3. c \notin faulty => \A i \in Delivered(c) : OfWholeTape(c, alerts[i].tape)
          BY DEF Posted
        <5>4. QED
          BY <2>1, <2>6, <5>2, <5>3 DEF Posted
      <4>3. QED
        BY <4>1, <4>2
    <3>2. ASSUME NEW c \in Everyone, c \notin faulty', NEW i \in Delivered(c)'
          PROVE  OfWholeTape(c, alerts[i].tape)'
      BY <2>1, <3>1, <3>2 DEF OfWholeTape, Written
    <3>3. QED
      BY <2>1, <2>9, <3>1, <3>2 DEF Posted
  <2>12. Passed'
    <3>1. CASE Raised
      BY <3>1 DEF Raised, Passed
    <3>2. CASE NextClient
      <4> SUFFICES ASSUME live, NEW c \in (atStart.scope \ faulty) \ Queued'
                   PROVE  Delivered(c)' # {} \/ NoFills(c)
        BY <2>1 DEF Passed, NoFills, Written
      <4>1. c \in Everyone
        BY DEF DigestShapes
      <4>2. CASE c = h
        <5>1. OfWholeTape(h, read) \/ (read.rows = 0 /\ atStart.newest[h] = 0)
          BY <2>1, <2>2, <4>2 DEF Fresh
        <5>2. CASE read.rows = 0
          BY <4>2, <5>1, <5>2 DEF NoFills, OfWholeTape
        <5>3. CASE read.rows # 0
          <6>1. ~NothingToPost
            BY <5>3 DEF NothingToPost
          <6>2. ~PostFails
            BY <3>2 DEF PostFails, NextClient, Raised
          <6>3. Received
            BY <1>4, <6>1, <6>2 DEF Post
          <6>4. QED
            BY <2>9, <4>2, <6>3
        <5>4. QED
          BY <5>2, <5>3
      <4>3. CASE c # h
        <5>1. c \notin Queued
          <6>1. queue' = Tail(queue)
            BY <3>2 DEF NextClient
          <6>2. QED
            BY <2>3, <4>3, <6>1 DEF Queued
        <5>2. Delivered(c) # {} \/ NoFills(c)
          BY <2>1, <5>1 DEF Passed, LoopInv
        <5>3. QED
          BY <2>9, <4>1, <4>3, <5>2
      <4>4. QED
        BY <4>2, <4>3
    <3>3. QED
      BY <2>4, <3>1, <3>2
  <2>13. QED
    BY <2>7, <2>8, <2>10, <2>11, <2>12
<1>5. CASE UNCHANGED digestVars
  <2>1. DigestShapes' /\ LoopInv'
    BY <1>5 DEF digestVars, DigestShapes, LoopInv, Queued, Running
  <2>2. Fresh'
    BY <1>5 DEF digestVars, Fresh, Running, Canonical, Written, OfWholeTape
  <2>3. Posted'
    BY <1>5 DEF digestVars, Posted, Delivered, Queued, OfWholeTape, Written
  <2>4. Passed'
    BY <1>5 DEF digestVars, Passed, Delivered, Queued, NoFills, Written
  <2>5. QED
    BY <2>1, <2>2, <2>3, <2>4
<1>6. QED
  BY <1>1, <1>2, <1>3, <1>4, <1>5 DEF DigestNext

\* What is left of the invariant when the loop is over.
LEMMA DInvImplies == DInv => ZeroExitMeansDelivered
<1> SUFFICES ASSUME DInv PROVE ZeroExitMeansDelivered
  OBVIOUS
<1>1. exit = "ok" => Queued = {}
  <2>1. exit = "ok" => queue = <<>>
    BY DEF DInv, LoopInv, Running
  <2>2. QED
    BY <2>1, EmptyQueue DEF Queued
<1>2. QED
  BY <1>1 DEF DInv, Posted, Passed, ZeroExitMeansDelivered

\* An execution that ends with exit code 0 has delivered one digest of every
\* client in its scope, of the whole tape of a run as new as the newest it
\* found, unless that run has no fills or the storage failed on the client;
\* none is delivered twice (ZeroExitMeansDelivered, cmd_daily_ledger_digest),
\* for any registry that names a client once and runs that end in any order.
THEOREM ZeroExitDelivers == DigestSpec => []ZeroExitMeansDelivered
<1>1. DigestInit => DInv
  BY InitDInv
<1>2. DInv /\ [DigestNext]_digestVars => DInv'
  BY StepDInv
<1>3. DInv => ZeroExitMeansDelivered
  BY DInvImplies
<1>4. QED
  BY <1>1, <1>2, <1>3, PTL DEF DigestSpec

-----------------------------------------------------------------------------
(***************************************************************************)
(* RecordsHold for any set of invoices, any seed and any number of         *)
(* concurrent requests, envelopes and restarts.                            *)
(*                                                                         *)
(* Whether a closed invoice can be opened is a matter of what the requests *)
(* at work have read: ReadBefore says that one that holds the status of an *)
(* open invoice read it before it was closed.                              *)
(***************************************************************************)

\* Functions with the domains of the initial state, and a count.
RecordShapes ==
    /\ invoices = [id \in Ids |-> invoices[id]]
    /\ requests = [t \in Threads |-> requests[t]]
    /\ closedSince = [t \in Threads |-> closedSince[t]]
    /\ restarts \in Nat

AtWork(t) == requests[t] # Idle

\* A request at work on a closed invoice either knows that it is closed or has
\* read it before that.
ReadBefore ==
    \A t \in Threads :
        AtWork(t) =>
            /\ requests[t].id \in Ids
            /\ invoices[requests[t].id].status \in Closed =>
                  requests[t].inv.status \in Closed \/ requests[t].id \in closedSince[t]

Statuses == {"sent"} \cup EventStatuses

Envelope == [document : Documents, status : Statuses, signed : BOOLEAN, completed : BOOLEAN]

\* A completed envelope is stamped with both its times.
EnvelopesStamped ==
    /\ envelopes \in Seq(Envelope)
    /\ \A i \in DOMAIN envelopes :
          envelopes[i].status = "completed" =>
              envelopes[i].signed = TRUE /\ envelopes[i].completed = TRUE

RInv == RecordShapes /\ ReadBefore /\ EnvelopesStamped

-----------------------------------------------------------------------------
\* Nothing leads out of a closed status.
LEMMA ClosedIsTerminal == \A status \in Closed : Allowed(status) = {}
BY DEF Allowed, Closed

\* A step of the documents leaves the invoices alone, and the other way round.
LEMMA InvoicesAndDocuments ==
    /\ DocumentStep => UNCHANGED <<invoices, requests, restarts, closedSince>>
    /\ InvoiceStep => UNCHANGED <<documents, envelopes>>
<1>1. DocumentStep => UNCHANGED <<invoices, requests, restarts, closedSince>>
  BY DEF DocumentStep, CreateUploadUrl, DeleteDocument, SendForSignature, Webhook
<1>2. InvoiceStep => UNCHANGED <<documents, envelopes>>
  BY DEF InvoiceStep, Generate, ReadInvoice, Conflict, StoreInvoice, Restart
<1>3. QED
  BY <1>1, <1>2

\* An event of the signature service stamps its own envelope.
LEMMA StampedEnvelope ==
    ASSUME NEW e \in Envelope, NEW s \in Statuses,
           e.status = "completed" => e.signed = TRUE /\ e.completed = TRUE
    PROVE  /\ Stamped(e, s) \in Envelope
           /\ Stamped(e, s).status = "completed" =>
                 Stamped(e, s).signed = TRUE /\ Stamped(e, s).completed = TRUE
           /\ e.signed = TRUE => Stamped(e, s).signed = TRUE
           /\ e.completed = TRUE => Stamped(e, s).completed = TRUE
<1> DEFINE sg == e.signed \/ s \in {"signed", "completed"}
           co == e.completed \/ s = "completed"
           q == [document |-> e.document, status |-> s, signed |-> sg, completed |-> co]
<1>1. Stamped(e, s) = q
  BY DEF Stamped
<1>2. sg \in BOOLEAN /\ co \in BOOLEAN
  OBVIOUS
<1>3. /\ s = "completed" => sg = TRUE /\ co = TRUE
      /\ e.signed = TRUE => sg = TRUE
      /\ e.completed = TRUE => co = TRUE
  OBVIOUS
<1>4. e.document \in Documents
  BY DEF Envelope
<1> HIDE DEF sg, co
<1>5. q \in Envelope
  BY <1>2, <1>4 DEF Envelope
<1>6. q.status = s /\ q.signed = sg /\ q.completed = co
  OBVIOUS
<1> HIDE DEF q
<1>7. QED
  BY <1>1, <1>3, <1>5, <1>6

-----------------------------------------------------------------------------
\* The invariant holds initially.
LEMMA InitRInv == RecordInit => RInv
<1> SUFFICES ASSUME RecordInit PROVE RInv
  OBVIOUS
<1>1. RecordShapes
  BY DEF RecordInit, RecordShapes
<1>2. ReadBefore
  BY DEF RecordInit, ReadBefore, AtWork
<1>3. EnvelopesStamped
  BY DEF RecordInit, EnvelopesStamped
<1>4. QED
  BY <1>1, <1>2, <1>3 DEF RInv

\* What a request read stays in order while invoices it does not hold, or
\* that are not closed afterwards, change.
LEMMA StepInvoices ==
    ASSUME RInv, InvoiceStep
    PROVE  RecordShapes' /\ ReadBefore'
<1> USE DEF RInv
<1>1. ASSUME NEW id \in Generated, Generate(id) PROVE RecordShapes' /\ ReadBefore'
  <2>1. /\ invoices' = [invoices EXCEPT ![id] = Invoice("draft", FALSE)]
        /\ UNCHANGED <<requests, restarts, closedSince>>
    BY <1>1 DEF Generate
  <2>2. \A j \in Ids : invoices'[j].status \in Closed => invoices[j].status \in Closed
    BY <2>1 DEF RecordShapes, Invoice, Closed
  <2>3. RecordShapes'
    BY <2>1 DEF RecordShapes
  <2>4. ReadBefore'
    BY <2>1, <2>2 DEF ReadBefore, AtWork
  <2>5. QED
    BY <2>3, <2>4
<1>2. ASSUME NEW t \in Threads, NEW id \in Ids, ReadInvoice(t, id) PROVE RecordShapes' /\ ReadBefore'
  <2>1. PICK target \in Targets :
            requests' = [requests EXCEPT ![t] = [id |-> id, target |-> target, inv |-> invoices[id]]]
    BY <1>2 DEF ReadInvoice
  <2>2. /\ closedSince' = [closedSince EXCEPT ![t] = {}]
        /\ UNCHANGED <<invoices, restarts>>
    BY <1>2 DEF ReadInvoice
  <2>3. RecordShapes'
    BY <2>1, <2>2 DEF RecordShapes
  <2>4. ASSUME NEW u \in Threads, AtWork(u)'
        PROVE  /\ requests'[u].id \in Ids
               /\ invoices'[requests'[u].id].status \in Closed =>
                     requests'[u].inv.status \in Closed \/ requests'[u].id \in closedSince'[u]
    <3>1. CASE u = t
      BY <2>1, <2>2, <3>1 DEF RecordShapes
    <3>2. CASE u # t
      <4>1. requests'[u] = requests[u] /\ closedSince'[u] = closedSince[u]
        BY <2>1, <2>2, <3>2 DEF RecordShapes
      <4>2. QED
        BY <2>2, <2>4, <4>1 DEF ReadBefore, AtWork
    <3>3. QED
      BY <3>1, <3>2
  <2>5. QED
    BY <2>3, <2>4 DEF ReadBefore
<1>3. ASSUME NEW t \in Threads, Conflict(t) PROVE RecordShapes' /\ ReadBefore'
  <2>1. /\ requests' = [requests EXCEPT ![t] = Idle]
        /\ UNCHANGED <<invoices, restarts, closedSince>>
    BY <1>3 DEF Conflict
  <2>2. \A u \in Threads : requests'[u] = requests[u] \/ requests'[u] = Idle
    BY <2>1 DEF RecordShapes
  <2>3. RecordShapes'
    BY <2>1 DEF RecordShapes
  <2>4. ReadBefore'
    BY <2>1, <2>2 DEF ReadBefore, AtWork
  <2>5. QED
    BY <2>3, <2>4
<1>4. ASSUME NEW t \in Threads, StoreInvoice(t) PROVE RecordShapes' /\ ReadBefore'
  <2> DEFINE r == requests[t]
  <2>1. PICK txid : invoices' = [invoices EXCEPT ![r.id] = Invoice(r.target, txid)]
    BY <1>4 DEF StoreInvoice
  <2>2. /\ requests' = [requests EXCEPT ![t] = Idle]
        /\ restarts' = restarts
        /\ closedSince' = [u \in Threads |->
                            IF r.target \in Closed THEN closedSince[u] \cup {r.id} ELSE closedSince[u]]
    BY <1>4 DEF StoreInvoice
  <2>3. RecordShapes'
    BY <2>1, <2>2 DEF RecordShapes
  <2>4. ASSUME NEW u \in Threads, AtWork(u)'
        PROVE  /\ requests'[u].id \in Ids
               /\ invoices'[requests'[u].id].status \in Closed =>
                     requests'[u].inv.status \in Closed \/ requests'[u].id \in closedSince'[u]
    <3> DEFINE id == requests[u].id
    <3>1. requests'[u] = requests[u] /\ AtWork(u) /\ id \in Ids
      BY <2>2, <2>4 DEF RecordShapes, AtWork, ReadBefore
    <3>2. closedSince[u] \subseteq closedSince'[u]
      BY <2>2
    <3>3. CASE id = r.id
      <4>1. invoices'[id].status = r.target
        BY <2>1, <3>1, <3>3 DEF RecordShapes, Invoice
      <4>2. r.target \in Closed => id \in closedSince'[u]
        BY <2>2, <3>3
      <4>3. QED
        BY <3>1, <4>1, <4>2
    <3>4. CASE id # r.id
      <4>1. invoices'[id] = invoices[id]
        BY <2>1, <3>1, <3>4 DEF RecordShapes
      <4>2. QED
        BY <3>1, <3>2, <4>1 DEF ReadBefore
    <3>5. QED
      BY <3>3, <3>4
  <2>5. QED
    BY <2>3, <2>4 DEF ReadBefore
<1>5. CASE Restart
  <2>1. \A t \in Threads : requests'[t] = Idle
    BY <1>5 DEF Restart
  <2>2. RecordShapes'
    BY <1>5 DEF Restart, RecordShapes
  <2>3. QED
    BY <2>1, <2>2 DEF ReadBefore, AtWork
<1>6. QED
  BY <1>1, <1>2, <1>3, <1>4, <1>5 DEF InvoiceStep

\* Every step of the documents keeps the stamps of the envelopes, and no time
\* is taken back.
LEMMA StepDocuments ==
    ASSUME EnvelopesStamped, DocumentStep
    PROVE  EnvelopesStamped' /\ EnvelopesKeepTimes
<1>1. ASSUME envelopes' = envelopes PROVE EnvelopesStamped' /\ EnvelopesKeepTimes
  BY <1>1 DEF EnvelopesStamped, EnvelopesKeepTimes
<1>2. CASE \E d \in Documents : CreateUploadUrl(d) \/ DeleteDocument(d)
  BY <1>1, <1>2 DEF CreateUploadUrl, DeleteDocument
<1>3. ASSUME NEW d \in Documents, SendForSignature(d)
      PROVE  EnvelopesStamped' /\ EnvelopesKeepTimes
  <2> DEFINE e == [document |-> d, status |-> "sent", signed |-> FALSE, completed |-> FALSE]
  <2>1. envelopes' = Append(envelopes, e) /\ e \in Envelope /\ e.status = "sent"
    <3>1. envelopes' = Append(envelopes, e)
      BY <1>3, Zenon DEF SendForSignature
    <3>2. e \in Envelope /\ e.status = "sent"
      BY DEF Envelope, Statuses
    <3>3. QED
      BY <3>1, <3>2
  <2> HIDE DEF e
  <2>2. /\ envelopes' \in Seq(Envelope)
        /\ DOMAIN envelopes' = DOMAIN envelopes \cup {Len(envelopes) + 1}
        /\ \A i \in DOMAIN envelopes : envelopes'[i] = envelopes[i]
        /\ envelopes'[Len(envelopes) + 1] = e
    BY <2>1 DEF EnvelopesStamped
  <2>3. EnvelopesStamped'
    BY <2>1, <2>2 DEF EnvelopesStamped
  <2>4. EnvelopesKeepTimes
    BY <2>2 DEF EnvelopesStamped, EnvelopesKeepTimes
  <2>5. QED
    BY <2>3, <2>4
<1>4. ASSUME NEW i, Webhook(i) PROVE EnvelopesStamped' /\ EnvelopesKeepTimes
  <2>1. i \in DOMAIN envelopes
    BY <1>4 DEF Webhook
  <2>2. PICK s \in EventStatuses \cup {envelopes[i].status} :
            envelopes' = [envelopes EXCEPT ![i] = Stamped(envelopes[i], s)]
    BY <1>4 DEF Webhook
  <2>3. /\ envelopes[i] \in Envelope /\ s \in Statuses
        /\ envelopes[i].status = "completed" =>
              envelopes[i].signed = TRUE /\ envelopes[i].completed = TRUE
    <3>1. envelopes[i] \in Envelope
      BY <2>1 DEF EnvelopesStamped
    <3>2. envelopes[i].status \in Statuses
      BY <3>1 DEF Envelope
    <3>3. s \in Statuses
      BY <2>2, <3>2 DEF Statuses
    <3>4. envelopes[i].status = "completed" =>
              envelopes[i].signed = TRUE /\ envelopes[i].completed = TRUE
      BY <2>1, Zenon DEF EnvelopesStamped
    <3>5. QED
      BY <3>1, <3>3, <3>4
  <2> DEFINE q == Stamped(envelopes[i], s)
  <2>4. /\ q \in Envelope
        /\ q.status = "completed" => q.signed = TRUE /\ q.completed = TRUE
        /\ envelopes[i].signed = TRUE => q.signed = TRUE
        /\ envelopes[i].completed = TRUE => q.completed = TRUE
    BY <2>2, <2>3, StampedEnvelope
  <2>5. envelopes' = [envelopes EXCEPT ![i] = q]
    BY <2>2
  <2> HIDE DEF q
  <2>6. /\ envelopes' \in Seq(Envelope) /\ DOMAIN envelopes' = DOMAIN envelopes
        /\ envelopes'[i] = q
        /\ \A j \in DOMAIN envelopes : j # i => envelopes'[j] = envelopes[j]
    BY <2>1, <2>4, <2>5 DEF EnvelopesStamped
  <2>7. EnvelopesStamped'
    BY <2>4, <2>6 DEF EnvelopesStamped
  <2>8. EnvelopesKeepTimes
    <3> SUFFICES ASSUME NEW j \in DOMAIN envelopes
                 PROVE  /\ envelopes'[j].status = "completed" =>
                              envelopes'[j].signed /\ envelopes'[j].completed
                        /\ envelopes[j].signed => envelopes'[j].signed
                        /\ envelopes[j].completed => envelopes'[j].completed
      BY DEF EnvelopesKeepTimes
    <3>1. CASE j = i
      BY <2>3, <2>4, <2>6, <3>1 DEF Envelope
    <3>2. CASE j # i
      BY <2>6, <3>2 DEF EnvelopesStamped
    <3>3. QED
      BY <3>1, <3>2
  <2>9. QED
    BY <2>7, <2>8
<1>5. QED
  BY <1>2, <1>3, <1>4 DEF DocumentStep

\* A request that changes a closed invoice passed its check on an older reading.
LEMMA StepSettled ==
    ASSUME RInv, InvoiceStep
    PROVE  ClosedStaysClosed
<1> SUFFICES ASSUME NEW id \in Ids, invoices[id].status \in Closed, invoices'[id] # invoices[id]
             PROVE  \/ restarts' # restarts
                    \/ \E t \in Threads :
                          requests[t].id = id /\ requests'[t] = Idle /\ id \in closedSince[t]
  BY DEF ClosedStaysClosed
<1> USE DEF RInv
<1>1. ASSUME NEW j \in Generated, Generate(j) PROVE FALSE
  <2>1. j = id
    BY <1>1 DEF Generate, RecordShapes
  <2>2. invoices[id].status = "none"
    BY <1>1, <2>1 DEF Generate, Absent, Invoice
  <2>3. QED
    BY <2>2 DEF Closed
<1>2. ASSUME NEW t \in Threads, NEW j \in Ids, ReadInvoice(t, j) PROVE FALSE
  BY <1>2 DEF ReadInvoice
<1>3. ASSUME NEW t \in Threads, Conflict(t) PROVE FALSE
  BY <1>3 DEF Conflict
<1>4. ASSUME NEW t \in Threads, StoreInvoice(t)
      PROVE  requests[t].id = id /\ requests'[t] = Idle /\ id \in closedSince[t]
  <2>1. requests[t].id = id
    BY <1>4 DEF StoreInvoice, RecordShapes
  <2>2. requests'[t] = Idle
    BY <1>4 DEF StoreInvoice, RecordShapes
  <2>3. AtWork(t) /\ requests[t].inv.status \notin Closed
    BY <1>4, ClosedIsTerminal DEF StoreInvoice, AtWork
  <2>4. QED
    BY <2>1, <2>2, <2>3 DEF ReadBefore
<1>5. CASE Restart
  BY <1>5 DEF Restart, RecordShapes
<1>6. QED
  BY <1>1, <1>2, <1>3, <1>4, <1>5 DEF InvoiceStep

\* Every step keeps the invariant and is as RecordsStep says.
LEMMA StepRInv == RInv /\ [RecordNext]_recordVars => RInv' /\ [RecordsStep]_recordVars
<1> SUFFICES ASSUME RInv, [RecordNext]_recordVars PROVE RInv' /\ [RecordsStep]_recordVars
  OBVIOUS
<1>1. CASE InvoiceStep
  <2>1. RecordShapes' /\ ReadBefore' /\ ClosedStaysClosed
    BY <1>1, StepInvoices, StepSettled
  <2>2. envelopes' = envelopes
    BY <1>1, InvoicesAndDocuments
  <2>3. EnvelopesStamped' /\ EnvelopesKeepTimes
    BY <2>2 DEF RInv, EnvelopesStamped, EnvelopesKeepTimes
  <2>4. QED
    BY <2>1, <2>3 DEF RInv, RecordsStep
<1>2. CASE DocumentStep
  <2>1. UNCHANGED <<invoices, requests, restarts, closedSince>>
    BY <1>2, InvoicesAndDocuments
  <2>2. RecordShapes' /\ ReadBefore' /\ ClosedStaysClosed
    BY <2>1 DEF RInv, RecordShapes, ReadBefore, AtWork, ClosedStaysClosed
  <2>3. EnvelopesStamped' /\ EnvelopesKeepTimes
    BY <1>2, StepDocuments DEF RInv
  <2>4. QED
    BY <2>2, <2>3 DEF RInv, RecordsStep
<1>3. CASE UNCHANGED recordVars
  BY <1>3 DEF recordVars, RInv, RecordShapes, ReadBefore, AtWork, EnvelopesStamped
<1>4. QED
  BY <1>1, <1>2, <1>3 DEF RecordNext

\* A paid invoice at most becomes voided and a voided one stays so, unless a
\* request had read it before or the seed is loaded at a restart, and an
\* envelope's times are complete and never taken back (RecordsHold, transition_invoice and docusign_webhook), for any
\* number of requests at a time.
THEOREM RecordsAreKept == RecordSpec => RecordsHold
<1>1. RecordInit => RInv
  BY InitRInv
<1>2. RInv /\ [RecordNext]_recordVars => RInv' /\ [RecordsStep]_recordVars
  BY StepRInv
<1>3. QED
  BY <1>1, <1>2, PTL DEF RecordSpec, RecordsHold

-----------------------------------------------------------------------------
(***************************************************************************)
(* FeeViewsAgree for any number of clients, rates, seeds, balances and     *)
(* introductions.  What is true of one client's block (Sound) makes the    *)
(* views agree, because each is a sum over the same blocks with some of    *)
(* the zeros left out.                                                     *)
(***************************************************************************)

AccountsTyped == accounts \in [Clients -> [equity : Int, flows : Int, readable : BOOLEAN]]

Block ==
    [client : Clients,
     status : {"AT_HWM", "BELOW_HWM", "UNDERWATER", "PROP", "NO_LIVE_DATA"},
     pnl : Nat, odum : Nat, gross : Nat, net : Nat, credit : Nat, intro : Nat, server : Nat]

\* What the views rely on in a client's block.
Sound(b) ==
    /\ b.pnl = 0 => b.net = 0
    /\ b.gross = b.net + b.credit + AtMost(Seeds[b.client].paid, b.gross)
    /\ b.credit <= AtLeast0(-Seeds[b.client].credits)
    /\ b.server = IF b.status = "UNDERWATER" THEN ServerCost ELSE 0
    /\ b.status \in {"UNDERWATER", "PROP"} => b.odum = 0
    /\ b.client \in DOMAIN Introductions =>
          b.intro = b.odum * Introductions[b.client].rate

LEMMA SeedType ==
    ASSUME NEW c \in Clients
    PROVE  /\ Registry[c].odumPct \in Nat /\ Registry[c].traderPct \in Nat
           /\ Registry[c].introPct \in Nat
           /\ Seeds[c].hwm \in Int /\ Seeds[c].paid \in Nat /\ Seeds[c].credits \in Int
           /\ ServerCost \in Nat
BY FeeViewsAssumption

LEMMA TimesNat == ASSUME NEW m \in Nat, NEW n \in Nat PROVE m * n \in Nat /\ 0 * n = 0
OBVIOUS

LEMMA NoFeesSound ==
    ASSUME NEW c \in Clients, NEW status \in {"UNDERWATER", "PROP", "NO_LIVE_DATA"},
           NEW cost \in Nat, cost = IF status = "UNDERWATER" THEN ServerCost ELSE 0,
           NEW b, b = [client |-> c, status |-> status, pnl |-> 0, odum |-> 0, gross |-> 0,
                       net |-> 0, credit |-> 0, intro |-> 0, server |-> cost]
    PROVE  b \in Block /\ Sound(b)
<1>1. /\ b.client = c /\ b.status = status /\ b.pnl = 0 /\ b.odum = 0 /\ b.gross = 0
      /\ b.net = 0 /\ b.credit = 0 /\ b.intro = 0 /\ b.server = cost
  OBVIOUS
<1>2. b \in Block
  BY DEF Block
<1>3. AtMost(Seeds[c].paid, 0) = 0 /\ 0 <= AtLeast0(-Seeds[c].credits)
  BY SeedType DEF AtMost, AtLeast0
<1>4. c \in DOMAIN Introductions => 0 = 0 * Introductions[c].rate
  BY FeeViewsAssumption, TimesNat
<1> QED BY <1>1, <1>2, <1>3, <1>4 DEF Sound

LEMMA EarningSound ==
    ASSUME AccountsTyped, NEW c \in Clients
    PROVE  Earning(c) \in Block /\ Sound(Earning(c)) /\ Earning(c).client = c
<1> DEFINE pnl == Pnl(c)
           gross == pnl * Registry[c].traderPct
           paid == Seeds[c].paid
           credits == Seeds[c].credits
           net == ApplyCredits(gross, paid, credits).net
           credit == ApplyCredits(gross, paid, credits).credit
           odum == pnl * Registry[c].odumPct
           intro == IntroShare(c)
           b == Earning(c)
<1>1. pnl \in Nat
  BY SeedType DEF Pnl, AtLeast0, AccountsTyped
<1>2. paid \in Nat /\ credits \in Int
  BY SeedType
<1>3. /\ gross \in Nat /\ odum \in Nat
      /\ pnl = 0 => gross = 0
  BY <1>1, SeedType, TimesNat
<1>4. /\ net \in Nat /\ credit \in Nat
      /\ gross = net + credit + AtMost(paid, gross)
      /\ credit <= AtLeast0(-credits)
      /\ gross = 0 => net = 0
  <2> HIDE DEF gross, paid, credits
  <2> QED BY <1>2, <1>3 DEF ApplyCredits, AtLeast0, AtMost
<1>5. intro \in Nat /\ (c \in DOMAIN Introductions => intro = odum * Introductions[c].rate)
  <2>1. Registry[c].introPct \in Nat
    BY SeedType
  <2>2. odum * Registry[c].introPct \in Nat
    BY <1>3, <2>1, TimesNat
  <2>3. c \in DOMAIN Introductions =>
          /\ Registry[c].introducer # ""
          /\ Introductions[c].rate = Registry[c].introPct
    BY FeeViewsAssumption
  <2>4. intro = IF Registry[c].introducer = "" THEN 0 ELSE odum * Registry[c].introPct
    BY DEF IntroShare
  <2> HIDE DEF intro, odum
  <2> QED BY <2>2, <2>3, <2>4
<1>6. b = [client |-> c, status |-> IF pnl > 0 THEN "AT_HWM" ELSE "BELOW_HWM",
           pnl |-> pnl, odum |-> odum, gross |-> gross,
           net |-> net, credit |-> credit, intro |-> intro, server |-> 0]
  BY DEF Earning
<1> HIDE DEF pnl, gross, paid, credits, net, credit, odum, intro, b
<1>7. b \in Block
  BY <1>1, <1>3, <1>4, <1>5, <1>6 DEF Block
<1>8. /\ b.client = c /\ b.pnl = pnl /\ b.odum = odum /\ b.gross = gross
      /\ b.net = net /\ b.credit = credit /\ b.intro = intro /\ b.server = 0
      /\ b.status \in {"AT_HWM", "BELOW_HWM"}
  BY <1>6
<1>9. paid = Seeds[c].paid /\ credits = Seeds[c].credits
  BY DEF paid, credits
<1>10. Sound(b)
  BY <1>3, <1>4, <1>5, <1>8, <1>9 DEF Sound
<1> QED BY <1>7, <1>8, <1>10 DEF b

\* Every client's block is sound.
LEMMA FeesSound ==
    ASSUME AccountsTyped, NEW c \in Clients
    PROVE  Fees(c) \in Block /\ Sound(Fees(c)) /\ Fees(c).client = c
<1>1. CASE ~accounts[c].readable
  <2>1. Fees(c) = [client |-> c, status |-> "NO_LIVE_DATA", pnl |-> 0, odum |-> 0, gross |-> 0,
                   net |-> 0, credit |-> 0, intro |-> 0, server |-> 0]
    BY <1>1 DEF Fees, NoFees
  <2>2. Fees(c) \in Block /\ Sound(Fees(c))
    BY <2>1, NoFeesSound
  <2> QED BY <2>1, <2>2
<1>2. CASE accounts[c].readable /\ (Registry[c].underwater \/ Registry[c].odumPct = 0)
  <2> DEFINE status == IF Registry[c].underwater THEN "UNDERWATER" ELSE "PROP"
             cost == IF Registry[c].underwater THEN ServerCost ELSE 0
  <2>1. Fees(c) = [client |-> c, status |-> status, pnl |-> 0, odum |-> 0, gross |-> 0,
                   net |-> 0, credit |-> 0, intro |-> 0, server |-> cost]
    BY <1>2 DEF Fees, Recovering, NoFees
  <2>2. status \in {"UNDERWATER", "PROP"} /\ cost \in Nat
        /\ cost = IF status = "UNDERWATER" THEN ServerCost ELSE 0
    BY SeedType
  <2> HIDE DEF status, cost
  <2>3. Fees(c) \in Block /\ Sound(Fees(c))
    BY <2>1, <2>2, NoFeesSound
  <2> QED BY <2>1, <2>3
<1>3. CASE accounts[c].readable /\ ~(Registry[c].underwater \/ Registry[c].odumPct = 0)
  <2>1. Fees(c) = Earning(c)
    BY <1>3 DEF Fees
  <2> QED BY <2>1, EarningSound
<1> QED BY <1>1, <1>2, <1>3

-----------------------------------------------------------------------------
(* The summary *)

Blocks == {Fees(c) : c \in Managed}

LEMMA ClientsFinite == IsFiniteSet(Clients) /\ IsFiniteSet(Managed) /\ Managed \subseteq Clients
<1>1. IsFiniteSet(Clients)
  BY FeeViewsAssumption
<1>2. Managed \subseteq Clients
  BY DEF Managed
<1> QED BY <1>1, <1>2, FS_Subset

LEMMA BlocksSound ==
    ASSUME AccountsTyped
    PROVE  /\ IsFiniteSet(Blocks)
           /\ \A b \in Blocks : b \in Block /\ Sound(b) /\ b.client \in Managed
           /\ \A a, b \in Blocks : a.client = b.client => a = b
<1>1. IsFiniteSet(Blocks)
  <2> DEFINE e == [c \in Managed |-> Fees(c)]
  <2>1. IsFiniteSet({e[c] : c \in Managed})
    <3> HIDE DEF e
    <3> QED BY ClientsFinite, FiniteImage
  <2>2. {e[c] : c \in Managed} = Blocks
    BY DEF Blocks
  <2> QED BY <2>1, <2>2
<1>2. \A c \in Managed : Fees(c) \in Block /\ Sound(Fees(c)) /\ Fees(c).client = c
  BY FeesSound, ClientsFinite
<1> QED BY <1>1, <1>2 DEF Blocks

\* The summary parts the blocks.
LEMMA SummaryParts ==
    /\ Summary.underwater = {b \in Blocks : b.status = "UNDERWATER"}
    /\ Summary.prop = {b \in Blocks : b.status = "PROP"}
    /\ Summary.atHwm = {b \in Blocks : b.status \notin {"UNDERWATER", "PROP"}}
<1> DEFINE under == {b \in Blocks : b.status = "UNDERWATER"}
           prop == {b \in Blocks : b.status = "PROP"}
           rest == (Blocks \ under) \ prop
<1>1. Summary = [underwater |-> under, prop |-> prop, atHwm |-> rest]
  BY DEF Summary, Blocks
<1>2. rest = {b \in Blocks : b.status \notin {"UNDERWATER", "PROP"}}
  OBVIOUS
<1> HIDE DEF under, prop, rest
<1>3. Summary.underwater = under /\ Summary.prop = prop /\ Summary.atHwm = rest
  BY <1>1
<1> QED BY <1>2, <1>3 DEF under, prop

LEMMA SumOfTerms ==
    ASSUME NEW S, IsFiniteSet(S), NEW f, DOMAIN f = S, \A x \in S : f[x] \in Int,
           NEW g, \A x \in S : f[x] = g[x]
    PROVE  SumOf(f) = Total(g, S)
<1>1. SumOf(f) = Total(f, S)
  BY DEF SumOf, Total
<1> QED BY <1>1, TotalEqual

-----------------------------------------------------------------------------
(* The trader *)

Owed == [c \in Clients |-> AtLeast0(-Seeds[c].credits)]

\* The credits of any clients are at most those outstanding.
LEMMA CreditsAreOutstanding ==
    ASSUME NEW H \in SUBSET Clients
    PROVE  Total(Owed, H) <= -CreditsOutstanding /\ CreditsOutstanding \in Int
<1> DEFINE D == {d \in Clients : Seeds[d].credits < 0}
           zero == [c \in Clients |-> 0]
           owedIn == [c \in Clients |-> IF c \in H THEN Owed[c] ELSE 0]
           credit == [c \in D |-> Seeds[c].credits]
<1>1. IsFiniteSet(Clients) /\ IsFiniteSet(H) /\ IsFiniteSet(D) /\ D \in SUBSET Clients
  BY ClientsFinite, FS_Subset
<1>2. \A c \in Clients : Owed[c] \in Int /\ owedIn[c] \in Int /\ 0 <= Owed[c] /\ owedIn[c] <= Owed[c]
  BY SeedType DEF Owed, AtLeast0
<1>3. \A c \in Clients \ H : owedIn[c] = 0
  OBVIOUS
<1>4. \A c \in H : owedIn[c] = Owed[c] /\ owedIn[c] \in Int
  BY <1>2
<1>5. \A c \in Clients \ D : Owed[c] = 0
  BY SeedType DEF Owed, AtLeast0
<1>6. \A c \in D : credit[c] \in Int /\ Owed[c] \in Int /\ zero[c] = 0 /\ zero[c] = Owed[c] + credit[c]
  BY SeedType DEF Owed, AtLeast0
<1>7. DOMAIN credit = D
  OBVIOUS
<1>8. CreditsOutstanding = SumOf(credit)
  BY DEF CreditsOutstanding
<1> HIDE DEF D, zero, owedIn, credit
<1>9. Total(owedIn, Clients) = Total(owedIn, H)
  BY <1>1, <1>2, <1>3, TotalWithout
<1>10. Total(owedIn, H) = Total(Owed, H)
  BY <1>1, <1>4, TotalEqual
<1>11. Total(owedIn, Clients) <= Total(Owed, Clients)
  BY <1>1, <1>2, TotalAtMost
<1>12. Total(Owed, Clients) = Total(Owed, D)
  BY <1>1, <1>2, <1>5, TotalWithout
<1>13. SumOf(credit) = Total(credit, D)
  BY <1>1, <1>6, <1>7, SumOfTerms
<1>14. Total(zero, D) = Total(Owed, D) + Total(credit, D)
  BY <1>1, <1>6, TotalPlus
<1>15. Total(zero, D) = 0
  BY <1>1, <1>6, TotalZero
<1>16. Total(Owed, D) \in Int /\ Total(credit, D) \in Int
  BY <1>1, <1>6, TotalType
<1> QED BY <1>8, <1>9, <1>10, <1>11, <1>12, <1>13, <1>14, <1>15, <1>16

LEMMA PaidOnce == ASSUME AccountsTyped PROVE TraderIsPaidOnce(Summary)
<1> DEFINE s == Summary
           R == PaymentRows(s)
           T == TraderRows(s)
           net == [b \in Blocks |-> b.net]
           credit == [b \in Blocks |-> b.credit]
           owed == [b \in Blocks |-> Owed[b.client]]
           named == [b \in Blocks |-> b.client]
           H == {named[b] : b \in s.atHwm}
           netR == [b \in R |-> b.net]
           netT == [b \in T |-> b.net]
           creditA == [b \in s.atHwm |-> b.credit]
<1>1. s.atHwm \subseteq Blocks /\ R \subseteq s.atHwm /\ T \subseteq s.atHwm
  BY SummaryParts DEF PaymentRows, TraderRows
<1>2. IsFiniteSet(s.atHwm) /\ IsFiniteSet(R) /\ IsFiniteSet(T)
  BY <1>1, BlocksSound, FS_Subset
<1>3. \A b \in Blocks : /\ b.net \in Nat /\ b.credit \in Nat /\ b.pnl \in Nat /\ b.gross \in Nat
                        /\ b.client \in Clients /\ Sound(b)
  BY BlocksSound DEF Block
<1>4. \A b \in Blocks : /\ net[b] = b.net /\ credit[b] = b.credit
                        /\ owed[b] = Owed[b.client] /\ named[b] = b.client
  OBVIOUS
<1>5. R \in SUBSET T
  <2>1. \A b \in s.atHwm : b.net > 0 => b.pnl > 0
    BY <1>1, <1>3 DEF Sound
  <2> QED BY <2>1 DEF PaymentRows, TraderRows
<1>6. \A b \in T \ R : net[b] = 0
  <2> SUFFICES ASSUME NEW b \in T \ R PROVE net[b] = 0
    OBVIOUS
  <2>1. b \in s.atHwm /\ ~(b.net > 0) /\ b.net \in Nat
    BY <1>1, <1>3 DEF PaymentRows
  <2> QED BY <1>1, <1>4, <2>1
<1>7. PaymentDue(s) = ServerTotal(s) + SumOf(netT)
  <2>1. PaymentDue(s) = SumOf(netR) + ServerTotal(s)
    BY DEF PaymentDue, PaymentPerf
  <2>2. /\ DOMAIN netR = R /\ DOMAIN netT = T
        /\ \A b \in R : netR[b] = net[b] /\ netR[b] \in Int
        /\ \A b \in T : netT[b] = net[b] /\ netT[b] \in Int /\ net[b] \in Int
    BY <1>1, <1>3
  <2>3. ServerTotal(s) \in Int
    <3>1. IsFiniteSet(s.underwater)
      BY BlocksSound, SummaryParts, FS_Subset
    <3>2. Cardinality(s.underwater) \in Nat /\ ServerCost \in Nat
      BY <3>1, FS_CardinalityType, FeeViewsAssumption
    <3> QED BY <3>2, TimesNat DEF ServerTotal
  <2> HIDE DEF s, R, T, net, netR, netT
  <2>4. SumOf(netR) = Total(net, R)
    BY <1>2, <2>2, SumOfTerms
  <2>5. SumOf(netT) = Total(net, T)
    BY <1>2, <2>2, SumOfTerms
  <2>6. Total(net, T) = Total(net, R)
    BY <1>2, <1>5, <1>6, <2>2, TotalWithout
  <2>7. Total(net, T) \in Int
    BY <1>2, <2>2, TotalType
  <2> QED BY <2>1, <2>3, <2>4, <2>5, <2>6, <2>7
<1>8. \A b \in s.atHwm :
          /\ b.gross = b.net + b.credit + AtMost(Seeds[b.client].paid, b.gross)
          /\ b.credit <= AtLeast0(-Seeds[b.client].credits)
  BY <1>1, <1>3 DEF Sound
<1>9. SumOf(creditA) <= -CreditsOutstanding
  <2>1. /\ DOMAIN creditA = s.atHwm
        /\ \A b \in s.atHwm : /\ creditA[b] = credit[b] /\ creditA[b] \in Int
                              /\ credit[b] \in Int /\ owed[b] \in Int /\ credit[b] <= owed[b]
                              /\ Owed[named[b]] = owed[b]
    BY <1>1, <1>3, <1>4, <1>8, SeedType DEF Owed, AtLeast0
  <2>2. \A a, b \in s.atHwm : named[a] = named[b] => a = b
    BY <1>1, <1>4, BlocksSound
  <2>3. H \in SUBSET Clients
    BY <1>1, <1>3, <1>4
  <2>4. Total(Owed, H) <= -CreditsOutstanding /\ CreditsOutstanding \in Int
    <3> HIDE DEF H
    <3> QED BY <2>3, CreditsAreOutstanding
  <2> HIDE DEF s, credit, creditA, owed, named
  <2>5. SumOf(creditA) = Total(credit, s.atHwm)
    BY <1>2, <2>1, SumOfTerms
  <2>6. Total(credit, s.atHwm) <= Total(owed, s.atHwm)
    BY <1>2, <2>1, TotalAtMost
  <2>7. Total(Owed, {named[b] : b \in s.atHwm}) = Total(owed, s.atHwm)
    BY <1>2, <2>1, <2>2, TotalRenamed
  <2>8. Total(Owed, H) = Total(owed, s.atHwm)
    BY <2>7
  <2>9. Total(credit, s.atHwm) \in Int /\ Total(owed, s.atHwm) \in Int
    BY <1>2, <2>1, TotalType
  <2> QED BY <2>4, <2>5, <2>6, <2>8, <2>9
<1> QED BY <1>7, <1>8, <1>9 DEF TraderIsPaidOnce

-----------------------------------------------------------------------------
(* The invoices *)

Billed(org) == {b \in Blocks : Registry[b.client].org = org}

FeeItem(b) == [client |-> b.client, kind |-> "odum_fee", amount |-> b.odum]

CostItem(b) == [client |-> b.client, kind |-> "server_cost", amount |-> b.server]

Charged == [b \in Blocks |-> b.odum + b.server]

LEMMA ItemsOfOrg ==
    ASSUME NEW org
    PROVE  LineItems(Summary, org) =
              {FeeItem(b) : b \in {x \in Billed(org) : x.odum > 0}}
              \cup {CostItem(b) : b \in {x \in Billed(org) : x.server > 0}}
<1>1. AdminRows(Summary) \cup Summary.prop = Blocks
  BY SummaryParts DEF AdminRows
<1> QED BY <1>1 DEF LineItems, Billed, FeeItem, CostItem

LEMMA ItemFields ==
    ASSUME NEW b
    PROVE  /\ FeeItem(b).client = b.client /\ FeeItem(b).kind = "odum_fee" /\ FeeItem(b).amount = b.odum
           /\ CostItem(b).client = b.client /\ CostItem(b).kind = "server_cost"
           /\ CostItem(b).amount = b.server
BY DEF FeeItem, CostItem

\* The items of an organisation are worth what its blocks are charged.
LEMMA InvoiceIsCharged ==
    ASSUME AccountsTyped, NEW org
    PROVE  InvoiceTotal(Summary, org) = Total(Charged, Billed(org))
<1> DEFINE B == Billed(org)
           P == {x \in B : x.odum > 0}
           Q == {x \in B : x.server > 0}
           odum == [b \in Blocks |-> b.odum]
           server == [b \in Blocks |-> b.server]
           fee == [b \in P |-> FeeItem(b)]
           cost == [b \in Q |-> CostItem(b)]
           I == {fee[b] : b \in P}
           J == {cost[b] : b \in Q}
           amount == [i \in LineItems(Summary, org) |-> i.amount]
<1>1. IsFiniteSet(B) /\ B \subseteq Blocks /\ P \in SUBSET B /\ Q \in SUBSET B
  BY BlocksSound, FS_Subset DEF Billed
<1>2. IsFiniteSet(P) /\ IsFiniteSet(Q)
  BY <1>1, FS_Subset
<1>3. \A b \in Blocks : b.odum \in Nat /\ b.server \in Nat
  BY BlocksSound DEF Block
<1>4. /\ \A b \in B : /\ odum[b] \in Int /\ server[b] \in Int
                      /\ Charged[b] = odum[b] + server[b]
      /\ \A b \in B \ P : odum[b] = 0
      /\ \A b \in B \ Q : server[b] = 0
  BY <1>1, <1>3 DEF Charged
<1>5. LineItems(Summary, org) = I \cup J
  <2>1. I = {FeeItem(b) : b \in P} /\ J = {CostItem(b) : b \in Q}
    OBVIOUS
  <2> HIDE DEF I, J
  <2> QED BY <2>1, ItemsOfOrg
<1>6. /\ \A b \in P : fee[b].client = b.client /\ fee[b].kind = "odum_fee" /\ fee[b].amount = b.odum
      /\ \A b \in Q : cost[b].client = b.client /\ cost[b].kind = "server_cost"
                      /\ cost[b].amount = b.server
  BY ItemFields
<1>7. /\ \A a, b \in P : fee[a] = fee[b] => a = b
      /\ \A a, b \in Q : cost[a] = cost[b] => a = b
  <2>1. \A a, b \in P : fee[a] = fee[b] => a.client = b.client
    BY <1>6
  <2>2. \A a, b \in Q : cost[a] = cost[b] => a.client = b.client
    BY <1>6
  <2> QED BY <1>1, <2>1, <2>2, BlocksSound
<1>8. I \cap J = {}
  <2> SUFFICES ASSUME NEW i \in I, i \in J PROVE FALSE
    OBVIOUS
  <2>1. PICK a \in P : i = fee[a]
    OBVIOUS
  <2>2. PICK b \in Q : i = cost[b]
    OBVIOUS
  <2>3. fee[a].kind = "odum_fee" /\ cost[b].kind = "server_cost"
    BY <1>6
  <2> HIDE DEF fee, cost, P, Q, I, J
  <2> QED BY <2>1, <2>2, <2>3
<1>9. /\ \A b \in P : amount[fee[b]] = odum[b] /\ odum[b] \in Int
      /\ \A b \in Q : amount[cost[b]] = server[b] /\ server[b] \in Int
  <2>1. \A b \in P : fee[b] \in LineItems(Summary, org) /\ odum[b] = b.odum
    BY <1>1, <1>5
  <2>2. \A b \in Q : cost[b] \in LineItems(Summary, org) /\ server[b] = b.server
    BY <1>1, <1>5
  <2>3. \A i \in LineItems(Summary, org) : amount[i] = i.amount
    OBVIOUS
  <2> HIDE DEF amount, fee, cost, odum, server
  <2> QED BY <1>1, <1>4, <1>6, <2>1, <2>2, <2>3
<1>10. InvoiceTotal(Summary, org) = SumOf(amount) /\ DOMAIN amount = I \cup J
  BY <1>5 DEF InvoiceTotal
<1>11. IsFiniteSet(I) /\ IsFiniteSet(J)
  <2> HIDE DEF fee, cost, P, Q
  <2> QED BY <1>2, FiniteImage
<1>12. \A i \in I \cup J : amount[i] \in Int
  BY <1>9
<1> HIDE DEF B, P, Q, odum, server, fee, cost, amount
<1>13. Total(amount, I) = Total(odum, P)
  BY <1>2, <1>7, <1>9, TotalRenamed
<1>14. Total(amount, J) = Total(server, Q)
  BY <1>2, <1>7, <1>9, TotalRenamed
<1> HIDE DEF I, J
<1>15. IsFiniteSet(I \cup J)
  BY <1>11, FS_Union
<1>16. SumOf(amount) = Total(amount, I \cup J)
  BY <1>10, <1>12, <1>15, SumOfTerms
<1>17. Total(amount, I \cup J) = Total(amount, I) + Total(amount, J)
  BY <1>8, <1>11, <1>12, TotalUnion
<1>18. Total(odum, B) = Total(odum, P)
  BY <1>1, <1>4, TotalWithout
<1>19. Total(server, B) = Total(server, Q)
  BY <1>1, <1>4, TotalWithout
<1>20. Total(Charged, B) = Total(odum, B) + Total(server, B)
  BY <1>1, <1>4, TotalPlus
<1>21. InvoiceTotal(Summary, org) = Total(Charged, B)
  BY <1>10, <1>13, <1>14, <1>16, <1>17, <1>18, <1>19, <1>20
<1> QED BY <1>21 DEF B

LEMMA InvoicesCover == ASSUME AccountsTyped PROVE InvoicesCoverFees(Summary)
<1> DEFINE s == Summary
           R == AdminRows(s)
           U == s.underwater
           odum == [b \in Blocks |-> b.odum]
           server == [b \in Blocks |-> b.server]
           orgOf == [b \in Blocks |-> Registry[b.client].org]
           total == [o \in Orgs |-> InvoiceTotal(s, o)]
           odumR == [b \in R |-> b.odum]
           items == UNION {LineItems(s, o) : o \in Orgs}
<1>1. /\ IsFiniteSet(Blocks) /\ R \in SUBSET Blocks /\ U \in SUBSET Blocks
      /\ \A b \in Blocks : /\ b.odum \in Nat /\ b.server \in Nat /\ Sound(b)
                           /\ b.client \in Managed
                           /\ b \notin R => b.status = "PROP"
                           /\ b \in U <=> b.status = "UNDERWATER"
  BY BlocksSound, SummaryParts DEF AdminRows, Block
<1>2. IsFiniteSet(R) /\ IsFiniteSet(U)
  BY <1>1, FS_Subset
<1>3. IsFiniteSet(Orgs)
  <2> DEFINE e == [c \in Managed |-> Registry[c].org]
  <2>1. IsFiniteSet({e[c] : c \in Managed})
    <3> HIDE DEF e
    <3> QED BY ClientsFinite, FiniteImage
  <2>2. {e[c] : c \in Managed} = Orgs
    BY DEF Orgs
  <2> QED BY <2>1, <2>2
<1>4. /\ \A b \in Blocks : /\ odum[b] = b.odum /\ server[b] = b.server
                           /\ odum[b] \in Int /\ server[b] \in Int
                           /\ Charged[b] = odum[b] + server[b] /\ Charged[b] \in Int
                           /\ orgOf[b] \in Orgs
      /\ \A b \in Blocks \ R : odum[b] = 0
      /\ \A b \in Blocks \ U : server[b] = 0
      /\ \A b \in U : server[b] = ServerCost
  BY <1>1 DEF Charged, Orgs, Sound
<1>5. \A o \in Orgs : total[o] = Total(Charged, Group(Blocks, orgOf, o))
  <2> SUFFICES ASSUME NEW o \in Orgs
               PROVE  total[o] = Total(Charged, Group(Blocks, orgOf, o))
    OBVIOUS
  <2>1. total[o] = Total(Charged, Billed(o))
    BY InvoiceIsCharged
  <2>2. Billed(o) = Group(Blocks, orgOf, o)
    BY DEF Billed, Group
  <2> QED BY <2>1, <2>2
<1>6. \A o \in Orgs : total[o] \in Int
  <2> SUFFICES ASSUME NEW o \in Orgs PROVE total[o] \in Int
    OBVIOUS
  <2> DEFINE G == Group(Blocks, orgOf, o)
  <2>1. IsFiniteSet(G) /\ \A b \in G : Charged[b] \in Int
    BY <1>1, <1>4, FS_Subset DEF Group
  <2>2. total[o] = Total(Charged, G)
    BY <1>5
  <2> HIDE DEF G, total
  <2> QED BY <2>1, <2>2, TotalType
<1>7. /\ DOMAIN total = Orgs /\ DOMAIN odumR = R
      /\ \A b \in R : odumR[b] = odum[b] /\ odumR[b] \in Int
  BY <1>1
<1>8. SumOf(total) = SumOf(odumR) + ServerTotal(s)
  <2>0. ServerTotal(s) = ServerCost * Cardinality(U) /\ ServerCost \in Int
    <3>1. ServerCost \in Nat
      BY FeeViewsAssumption
    <3> QED BY <3>1 DEF ServerTotal
  <2> HIDE DEF s, R, U, odum, server, orgOf, total, odumR
  <2>1. SumOf(total) = Total(total, Orgs)
    BY <1>3, <1>6, <1>7, SumOfTerms
  <2>2. Total(total, Orgs) = Total(Charged, Blocks)
    <3>1. IsFiniteSet(Blocks) /\ IsFiniteSet(Orgs)
      BY <1>1, <1>3
    <3>2. \A b \in Blocks : Charged[b] \in Int /\ orgOf[b] \in Orgs
      BY <1>4
    <3> QED BY <3>1, <3>2, <1>5, TotalByGroup
  <2>3. Total(Charged, Blocks) = Total(odum, Blocks) + Total(server, Blocks)
    BY <1>1, <1>4, TotalPlus
  <2>4. Total(odum, Blocks) = Total(odum, R)
    BY <1>1, <1>4, TotalWithout
  <2>5. SumOf(odumR) = Total(odum, R)
    BY <1>2, <1>7, SumOfTerms
  <2>6. Total(server, Blocks) = Total(server, U)
    BY <1>1, <1>4, TotalWithout
  <2>7. Total(server, U) = ServerCost * Cardinality(U)
    BY <1>2, <1>4, <2>0, TotalConstant
  <2> QED BY <2>0, <2>1, <2>2, <2>3, <2>4, <2>5, <2>6, <2>7
<1>9. \A i, j \in items : i.client = j.client => i = j
  <2>1. \A i \in items : \E b \in Blocks :
            \/ i = FeeItem(b) /\ b.odum > 0
            \/ i = CostItem(b) /\ b.server > 0
    BY ItemsOfOrg DEF Billed
  <2> SUFFICES ASSUME NEW i \in items, NEW j \in items, i.client = j.client PROVE i = j
    OBVIOUS
  <2>2. PICK a \in Blocks : \/ i = FeeItem(a) /\ a.odum > 0
                            \/ i = CostItem(a) /\ a.server > 0
    BY <2>1
  <2>3. PICK b \in Blocks : \/ j = FeeItem(b) /\ b.odum > 0
                            \/ j = CostItem(b) /\ b.server > 0
    BY <2>1
  <2>4. a = b
    <3>1. a.client = b.client
      BY <2>2, <2>3, ItemFields
    <3> QED BY <3>1, BlocksSound
  <2>5. ~(a.odum > 0 /\ a.server > 0)
    BY <1>1 DEF Sound
  <2> QED BY <2>2, <2>3, <2>4, <2>5
<1> QED BY <1>8, <1>9 DEF InvoicesCoverFees

-----------------------------------------------------------------------------
(* The introducers *)

LEMMA BalancesAgree == ASSUME AccountsTyped PROVE IntroducersAgree(Summary)
<1>1. ASSUME NEW c \in DOMAIN AdminBalances
      PROVE  PortalBalances(Introductions[c].introducer)[c] = AdminBalances[c]
  <2>1. c \in AdminList /\ c \in DOMAIN Introductions
    BY DEF AdminBalances, Introduced
  <2>2. c \in PortalList
    BY <2>1, FeeViewsAssumption
  <2> QED BY <2>1, <2>2 DEF AdminBalances, PortalBalances, Introduced
<1>2. ASSUME NEW b \in AdminRows(Summary), b.client \in DOMAIN Introductions
      PROVE  LET i == Introductions[b.client]
             IN  Balance(b.client) = i.invoiced * i.rate - i.paid + b.intro
  <2> DEFINE c == b.client
             invoiced == Introductions[c].invoiced
             rate == Introductions[c].rate
             paid == Introductions[c].paid
  <2>1. b \in Blocks
    BY SummaryParts DEF AdminRows
  <2>2. /\ c \in Managed /\ c \in Clients /\ b = Fees(c) /\ b.odum \in Nat
        /\ b.intro = b.odum * rate
    <3>1. c \in Managed /\ Sound(b) /\ b.odum \in Nat
      BY <2>1, BlocksSound DEF Block
    <3>2. c \in Clients /\ Fees(c) \in Blocks /\ Fees(c).client = c
      BY <3>1, ClientsFinite, FeesSound DEF Blocks
    <3>3. b = Fees(c)
      BY <2>1, <3>2, BlocksSound
    <3>4. b.intro = b.odum * rate
      BY <1>2, <3>1 DEF Sound
    <3> QED BY <3>1, <3>2, <3>3, <3>4
  <2>3. invoiced \in Int /\ paid \in Int /\ rate \in Nat
    BY <1>2, <2>2, FeeViewsAssumption
  <2>4. Balance(c) = (invoiced + b.odum) * rate - paid
    BY <2>2 DEF Balance
  <2>5. PICK x \in Int, y \in Int, z \in Int, p \in Int :
            x = invoiced /\ y = b.odum /\ z = rate /\ p = paid
    BY <2>2, <2>3
  <2>6. (x + y) * z - p = x * z - p + y * z
    OBVIOUS
  <2> HIDE DEF c, invoiced, rate, paid
  <2>7. Balance(c) = invoiced * rate - paid + b.intro
    BY <2>2, <2>4, <2>5, <2>6
  <2> QED BY <2>7 DEF c, invoiced, rate, paid
<1> QED BY <1>1, <1>2 DEF IntroducersAgree

-----------------------------------------------------------------------------
(* The theorem *)

LEMMA AccountsStayTyped == AccountsTyped /\ [FeeNext]_accounts => AccountsTyped'
<1> SUFFICES ASSUME AccountsTyped, [FeeNext]_accounts PROVE AccountsTyped'
  OBVIOUS
<1>1. \A a \in Amounts \cup {-a : a \in Amounts} : a \in Int
  <2>1. Amounts \subseteq Int
    BY FeeViewsAssumption
  <2> QED BY <2>1
<1>2. ASSUME NEW c \in Clients, Trade(c) PROVE AccountsTyped'
  BY <1>1, <1>2 DEF Trade, AccountsTyped
<1>3. ASSUME NEW c \in Clients, MoveCash(c) PROVE AccountsTyped'
  <2>1. PICK a \in Int :
            accounts' = [accounts EXCEPT ![c].equity = @ + a, ![c].flows = @ + a]
    BY <1>1, <1>3 DEF MoveCash
  <2> DEFINE mid == [accounts EXCEPT ![c].equity = @ + a]
  <2>2. mid \in [Clients -> [equity : Int, flows : Int, readable : BOOLEAN]]
    BY DEF AccountsTyped
  <2>3. accounts' = [mid EXCEPT ![c].flows = @ + a]
    BY <2>1, Zenon DEF AccountsTyped
  <2> HIDE DEF mid
  <2> QED BY <2>2, <2>3 DEF AccountsTyped
<1>4. ASSUME NEW c \in Clients, Unreadable(c) PROVE AccountsTyped'
  BY <1>4 DEF Unreadable, AccountsTyped
<1>5. CASE UNCHANGED accounts
  BY <1>5 DEF AccountsTyped
<1> QED BY <1>2, <1>3, <1>4, <1>5 DEF FeeNext

\* The rows of the portals, the payment list and the invoices that project one
\* summary agree about every client, and so do the totals of the payment, of
\* the invoices and of the introducers (FeeViewsAgree), for every registry and
\* all states of the accounts.  Nothing is said of the trader portal's totals.
THEOREM FeesAgree == FeeSpec => []FeeViewsAgree
<1>1. FeeInit => AccountsTyped
  BY SeedType DEF FeeInit, AccountsTyped, AtSeed
<1>2. AccountsTyped => FeeViewsAgree
  BY PaidOnce, InvoicesCover, BalancesAgree DEF FeeViewsAgree
<1> QED BY <1>1, <1>2, AccountsStayTyped, PTL DEF FeeSpec

-----------------------------------------------------------------------------
(***************************************************************************)
(* AttributionAddsUp for any rows and any number of them.  Each view is a  *)
(* sum by groups of the same terms (TotalByGroup), so all that is needed   *)
(* of a state is that the rows are finitely many and of the types assumed  *)
(* of the constants.                                                       *)
(***************************************************************************)

RowsTyped == attr \in Seq(AttrRows) /\ moves \in Seq(Moves)

LEMMA RowsStayTyped == AttrSpec => []RowsTyped
<1>1. AttrInit => RowsTyped
  BY DEF AttrInit, RowsTyped
<1>2. RowsTyped /\ [AttrNext]_attrVars => RowsTyped'
  <2> SUFFICES ASSUME RowsTyped, [AttrNext]_attrVars PROVE RowsTyped'
    OBVIOUS
  <2>1. CASE Attribute
    <3> PICK row \in AttrRows : attr' = Append(attr, row)
      BY <2>1 DEF Attribute
    <3>1. Append(attr, row) \in Seq(AttrRows)
      BY DEF RowsTyped
    <3> QED BY <2>1, <3>1 DEF Attribute, RowsTyped
  <2>2. CASE MoveFunds
    <3> PICK t \in Moves : moves' = Append(moves, t)
      BY <2>2 DEF MoveFunds
    <3>1. Append(moves, t) \in Seq(Moves)
      BY DEF RowsTyped
    <3> QED BY <2>2, <3>1 DEF MoveFunds, RowsTyped
  <2>3. CASE UNCHANGED attrVars
    BY <2>3 DEF attrVars, RowsTyped
  <2> QED BY <2>1, <2>2, <2>3 DEF AttrNext
<1> QED BY <1>1, <1>2, PTL DEF AttrSpec

\* What each row counts for, in the attribution and in the transfers.
Amount == [i \in Rows |-> AttrAmount(attr[i])]

Moved == [i \in DOMAIN moves |-> moves[i].delta]

LEMMA RowsAreFinite ==
    ASSUME RowsTyped
    PROVE  /\ IsFiniteSet(Rows) /\ IsFiniteSet(DOMAIN moves)
           /\ \A i \in Rows : Amount[i] \in Int
           /\ \A i \in DOMAIN moves : Moved[i] \in Int
<1>1. /\ Rows = 1 .. Len(attr) /\ Len(attr) \in Nat /\ \A i \in Rows : attr[i] \in AttrRows
      /\ DOMAIN moves = 1 .. Len(moves) /\ Len(moves) \in Nat
      /\ \A i \in DOMAIN moves : moves[i] \in Moves
  BY DEF RowsTyped, Rows
<1>2. IsFiniteSet(1 .. Len(attr)) /\ IsFiniteSet(1 .. Len(moves))
  BY <1>1, FS_Interval
<1>3. \A i \in Rows : AttrAmount(attr[i]) \in Int
  BY <1>1, AttributionAssumption DEF AttrAmount
<1>4. \A i \in DOMAIN moves : moves[i].delta \in Int
  BY <1>1, AttributionAssumption
<1> QED BY <1>1, <1>2, <1>3, <1>4 DEF Amount, Moved

\* Sums by groups add up to the sum of all.
LEMMA GroupsAddUp ==
    ASSUME NEW I, IsFiniteSet(I), NEW f, \A i \in I : f[i] \in Int, NEW key,
           NEW g, DOMAIN g = {key[i] : i \in I},
           \A k \in DOMAIN g : g[k] = Total(f, Group(I, key, k))
    PROVE  SumOf(g) = Total(f, I)
<1>1. IsFiniteSet(DOMAIN g)
  BY FiniteImage
<1>2. \A k \in DOMAIN g : g[k] \in Int
  <2> SUFFICES ASSUME NEW k \in DOMAIN g PROVE g[k] \in Int
    OBVIOUS
  <2>1. IsFiniteSet(Group(I, key, k)) /\ \A i \in Group(I, key, k) : f[i] \in Int
    BY FS_Subset DEF Group
  <2> QED BY <2>1, TotalType
<1>3. SumOf(g) = Total(g, DOMAIN g)
  BY <1>1, <1>2, SumOfTerms
<1>4. Total(g, DOMAIN g) = Total(f, I)
  <2>1. \A i \in I : key[i] \in DOMAIN g
    OBVIOUS
  <2> QED BY <1>1, <2>1, TotalByGroup
<1> QED BY <1>3, <1>4

LEMMA RowsTotal ==
    ASSUME RowsTyped, NEW I \in SUBSET Rows
    PROVE  /\ SumRows(I) = Total(Amount, I) /\ SumRows(I) \in Int
           /\ IsFiniteSet(I) /\ \A i \in I : Amount[i] \in Int
<1>1. IsFiniteSet(I) /\ \A i \in I : Amount[i] \in Int
  BY RowsAreFinite, FS_Subset
<1> DEFINE f == [i \in I |-> AttrAmount(attr[i])]
<1>2. SumRows(I) = SumOf(f)
  BY DEF SumRows
<1>3. DOMAIN f = I /\ \A i \in I : f[i] = Amount[i]
  BY DEF Amount
<1> HIDE DEF f
<1>4. SumOf(f) = Total(Amount, I)
  BY <1>1, <1>3, SumOfTerms
<1> QED BY <1>1, <1>2, <1>4, TotalType

LEMMA RollupAddsUp ==
    ASSUME RowsTyped, NEW I \in SUBSET Rows, NEW key
    PROVE  SumOf(GroupSum(I, key)) = SumRows(I)
<1>1. /\ DOMAIN GroupSum(I, key) = {key[i] : i \in I}
      /\ \A k \in DOMAIN GroupSum(I, key) :
            GroupSum(I, key)[k] = SumRows({i \in I : key[i] = k})
  BY DEF GroupSum
<1>2. \A k \in DOMAIN GroupSum(I, key) :
         GroupSum(I, key)[k] = Total(Amount, Group(I, key, k))
  BY <1>1, RowsTotal DEF Group
<1> QED BY <1>1, <1>2, RowsTotal, GroupsAddUp

LEMMA BreakdownIsWhole == ASSUME RowsTyped PROVE BreakdownAddsUp
<1>1. /\ Breakdown.by_venue = GroupSum(Rows, By("venue"))
      /\ Breakdown.by_instrument = GroupSum(Rows, By("symbol"))
      /\ Breakdown.by_factor = GroupSum(Rows, By("factor"))
      /\ Breakdown.by_layer = GroupSum(Rows, By("layer"))
      /\ Breakdown.per_strategy_total = GroupSum(Rows, By("strategy"))
  BY DEF Breakdown
<1>2. \A key : SumOf(GroupSum(Rows, key)) = SumRows(Rows)
  BY RollupAddsUp
<1>3. ASSUME NEW s \in DOMAIN Breakdown.per_strategy_total
      PROVE  SumOf(FactorsOf(s)) = Breakdown.per_strategy_total[s]
  <2> DEFINE I == {i \in Rows : By("strategy")[i] = s}
  <2>1. Breakdown.per_strategy_total[s] = SumRows(I)
    BY <1>1, <1>3 DEF GroupSum
  <2>2. FactorsOf(s) = GroupSum(I, By("factor"))
    BY DEF FactorsOf
  <2> QED BY <2>1, <2>2, RollupAddsUp
<1> QED BY <1>1, <1>2, <1>3 DEF BreakdownAddsUp

\* The three parts of a point share out its rows.
LEMMA PartsShareRows ==
    ASSUME RowsTyped, NEW I \in SUBSET Rows
    PROVE  Point(I).total = SumRows(I)
<1> DEFINE C == Carried(I)
           M == Marked(I)
           R == (I \ C) \ M
<1>1. /\ C \subseteq Rows /\ M \subseteq Rows /\ R \subseteq Rows
      /\ C \cap M = {} /\ C \cap R = {} /\ (C \cup R) \cap M = {} /\ I = (C \cup R) \cup M
  BY DEF Carried, Marked, CarryFactors, UnrealizedFactors
<1>2. Point(I).total = SumRows(R) + SumRows(M) + SumRows(C)
  BY DEF Point, Parts
<1> HIDE DEF C, M, R
<1>3. Total(Amount, C \cup R) = Total(Amount, C) + Total(Amount, R)
  BY <1>1, RowsTotal, TotalUnion
<1>4. Total(Amount, I) = Total(Amount, C \cup R) + Total(Amount, M)
  BY <1>1, RowsTotal, TotalUnion
<1> QED BY <1>1, <1>2, <1>3, <1>4, RowsTotal

LEMMA SeriesIsWhole == ASSUME RowsTyped PROVE SeriesAddsUp
<1> DEFINE totals == [k \in DOMAIN Series |-> Series[k].total]
           readable == {i \in Rows : attr[i].amount # Garbage}
           day == [i \in Rows |-> DayOf(attr[i])]
<1>1. DOMAIN Series = {SeriesKey[i] : i \in Rows}
  BY DEF Series
<1>2. ASSUME NEW k \in DOMAIN Series
      PROVE  totals[k] = Total(Amount, Group(Rows, SeriesKey, k))
  <2>1. Series[k] = Point({i \in Rows : SeriesKey[i] = k})
    BY <1>1, <1>2 DEF Series
  <2>2. Series[k].total = SumRows({i \in Rows : SeriesKey[i] = k})
    BY <2>1, PartsShareRows
  <2> QED BY <2>2, RowsTotal DEF Group
<1>3. SumOf(totals) = Total(Amount, Rows)
  <2>1. DOMAIN totals = {SeriesKey[i] : i \in Rows}
    BY <1>1
  <2> HIDE DEF totals
  <2> QED BY <1>1, <1>2, <2>1, RowsTotal, GroupsAddUp
<1>4. NavByDay = GroupSum(readable, day)
  BY DEF NavByDay
<1>5. readable \in SUBSET Rows /\ \A i \in Rows \ readable : Amount[i] = 0
  BY DEF Amount, AttrAmount
<1> HIDE DEF readable, day
<1>6. SumOf(NavByDay) = Total(Amount, readable)
  BY <1>4, <1>5, RollupAddsUp, RowsTotal
<1>7. Total(Amount, Rows) = Total(Amount, readable)
  BY <1>5, RowsTotal, TotalWithout
<1>8. SumRows(Rows) = Total(Amount, Rows)
  BY RowsTotal
<1> QED BY <1>3, <1>6, <1>7, <1>8 DEF SeriesAddsUp

-----------------------------------------------------------------------------
(* The transfers panel *)

LEMMA MovesTotal ==
    ASSUME RowsTyped, NEW I \in SUBSET DOMAIN moves
    PROVE  /\ NetAmount(I) = Total(Moved, I) /\ IsFiniteSet(I)
           /\ \A i \in I : Moved[i] \in Int
<1>1. IsFiniteSet(I) /\ \A i \in I : Moved[i] \in Int
  BY RowsAreFinite, FS_Subset
<1> DEFINE f == [i \in I |-> moves[i].delta]
<1>2. NetAmount(I) = SumOf(f)
  BY DEF NetAmount
<1>3. DOMAIN f = I /\ \A i \in I : f[i] = Moved[i]
  BY DEF Moved
<1> HIDE DEF f
<1>4. SumOf(f) = Total(Moved, I)
  BY <1>1, <1>3, SumOfTerms
<1> QED BY <1>1, <1>2, <1>4

\* The strategies that own a row.
Owners == {Owner[i] : i \in DOMAIN moves}

LEMMA PanelFields ==
    ASSUME NEW I
    PROVE  /\ Panel(I).total = Cardinality(I)
           /\ DOMAIN Panel(I).by_strategy = {Owner[i] : i \in I}
           /\ \A s \in {Owner[i] : i \in I} :
                 Panel(I).by_strategy[s] = NetAmount({i \in I : Owner[i] = s})
  BY DEF Panel

\* The panel of a strategy has all its rows: its amount is that of the whole.
LEMMA OwnAmountKept ==
    ASSUME NEW s \in Owners
    PROVE  Panel(Shown(s)).by_strategy[s] = Panel(DOMAIN moves).by_strategy[s]
<1>1. {i \in Shown(s) : Owner[i] = s} = {i \in DOMAIN moves : Owner[i] = s}
  BY DEF Shown, Matches
<1>2. s \in {Owner[i] : i \in Shown(s)} /\ s \in {Owner[i] : i \in DOMAIN moves}
  BY DEF Owners, Shown, Matches
<1>3. Panel(Shown(s)).by_strategy[s] = NetAmount({i \in Shown(s) : Owner[i] = s})
  BY <1>2, PanelFields
<1>4. Panel(DOMAIN moves).by_strategy[s] = NetAmount({i \in DOMAIN moves : Owner[i] = s})
  BY <1>2, PanelFields
<1> QED BY <1>1, <1>3, <1>4

\* Counting the rows owner by owner, and panel by panel.
LEMMA EveryRowShown ==
    ASSUME RowsTyped,
           NEW panels, panels = [s \in Owners |-> Panel(Shown(s)).total]
    PROVE  /\ SumOf(panels) >= Cardinality(DOMAIN moves)
           /\ (\A s, z \in Owners : Matches(z, s) => z = s)
                 => SumOf(panels) = Cardinality(DOMAIN moves)
<1> DEFINE M == DOMAIN moves
           one == [i \in M |-> 1]
           owned == [s \in Owners |-> Cardinality(Group(M, Owner, s))]
<1>1. IsFiniteSet(M) /\ IsFiniteSet(Owners)
  <2>1. IsFiniteSet(M)
    BY RowsAreFinite
  <2> QED BY <2>1, FiniteImage DEF Owners
<1>2. ASSUME NEW s \in Owners
      PROVE  /\ Group(M, Owner, s) \subseteq Shown(s) /\ Shown(s) \subseteq M
             /\ Cardinality(Group(M, Owner, s)) \in Nat /\ Cardinality(Shown(s)) \in Nat
             /\ Cardinality(Group(M, Owner, s)) <= Cardinality(Shown(s))
             /\ panels[s] = Cardinality(Shown(s)) /\ owned[s] = Cardinality(Group(M, Owner, s))
             /\ IsFiniteSet(Group(M, Owner, s))
  <2>1. Group(M, Owner, s) \subseteq Shown(s) /\ Shown(s) \subseteq M
    BY DEF Group, Shown, Matches
  <2>2. IsFiniteSet(Shown(s)) /\ IsFiniteSet(Group(M, Owner, s))
    BY <1>1, <2>1, FS_Subset
  <2>3. panels[s] = Cardinality(Shown(s))
    BY PanelFields
  <2> QED BY <2>1, <2>2, <2>3, FS_CardinalityType, FS_Subset
<1>3. Total(owned, Owners) = Total(one, M)
  <2>1. \A s \in Owners : owned[s] = Total(one, Group(M, Owner, s))
    <3> SUFFICES ASSUME NEW s \in Owners PROVE owned[s] = Total(one, Group(M, Owner, s))
      OBVIOUS
    <3>1. \A i \in Group(M, Owner, s) : one[i] = 1
      BY DEF Group
    <3> HIDE DEF one
    <3>2. Total(one, Group(M, Owner, s)) = 1 * Cardinality(Group(M, Owner, s))
      BY <1>2, <3>1, TotalConstant
    <3> QED BY <1>2, <3>2
  <2>2. (\A i \in M : one[i] \in Int) /\ \A i \in M : Owner[i] \in Owners
    BY DEF Owners
  <2> HIDE DEF one, owned, M
  <2> QED BY <1>1, <2>1, <2>2, TotalByGroup
<1>4. Total(one, M) = Cardinality(M) /\ Cardinality(M) \in Nat
  <2>1. \A i \in M : one[i] = 1
    OBVIOUS
  <2> HIDE DEF one, M
  <2>2. Total(one, M) = 1 * Cardinality(M)
    BY <1>1, <2>1, TotalConstant
  <2> QED BY <1>1, <2>2, FS_CardinalityType
<1>5. SumOf(panels) = Total(panels, Owners)
  <2>1. DOMAIN panels = Owners /\ \A s \in Owners : panels[s] \in Int
    BY <1>2
  <2> QED BY <1>1, <2>1, SumOfTerms
<1>6. SumOf(panels) >= Cardinality(M)
  <2>1. \A s \in Owners : owned[s] \in Int /\ panels[s] \in Int /\ owned[s] <= panels[s]
    BY <1>2
  <2> HIDE DEF owned, M, one
  <2>2. Total(owned, Owners) <= Total(panels, Owners)
    BY <1>1, <2>1, TotalAtMost
  <2>3. Total(panels, Owners) \in Int
    BY <1>1, <2>1, TotalType
  <2> QED BY <1>3, <1>4, <1>5, <2>2, <2>3
<1>7. ASSUME \A s, z \in Owners : Matches(z, s) => z = s
      PROVE  SumOf(panels) = Cardinality(M)
  <2>1. \A s \in Owners : Shown(s) = Group(M, Owner, s)
    BY <1>7 DEF Shown, Group, Matches, Owners
  <2>2. \A s \in Owners : panels[s] \in Int /\ panels[s] = owned[s]
    BY <1>2, <2>1
  <2> HIDE DEF owned, M, one
  <2>3. Total(panels, Owners) = Total(owned, Owners)
    BY <1>1, <2>2, TotalEqual
  <2> QED BY <1>3, <1>4, <1>5, <2>3
<1> QED BY <1>6, <1>7

LEMMA PanelsAreWhole == ASSUME RowsTyped PROVE PanelsAddUp
<1> DEFINE M == DOMAIN moves
           strategies == DOMAIN Panel(M).by_strategy
           panels == [s \in strategies |-> Panel(Shown(s)).total]
<1>1. strategies = Owners /\ Panel(M).total = Cardinality(M)
  BY PanelFields DEF Owners
<1>2. SumOf(Panel(M).by_strategy) = NetAmount(M)
  <2>1. \A s \in strategies : Panel(M).by_strategy[s] = Total(Moved, Group(M, Owner, s))
    BY PanelFields, MovesTotal DEF Group
  <2>2. IsFiniteSet(M) /\ (\A i \in M : Moved[i] \in Int) /\ NetAmount(M) = Total(Moved, M)
    BY MovesTotal
  <2>3. strategies = {Owner[i] : i \in M}
    BY PanelFields
  <2> QED BY <2>1, <2>2, <2>3, GroupsAddUp
<1>3. \A s \in strategies : Panel(Shown(s)).by_strategy[s] = Panel(M).by_strategy[s]
  BY <1>1, OwnAmountKept
<1>4. /\ SumOf(panels) >= Panel(M).total
      /\ (\A s, z \in strategies : Matches(z, s) => z = s) => SumOf(panels) = Panel(M).total
  <2>1. panels = [s \in Owners |-> Panel(Shown(s)).total]
    BY <1>1
  <2> HIDE DEF panels
  <2> QED BY <1>1, <2>1, EveryRowShown
<1> QED BY <1>2, <1>3, <1>4 DEF PanelsAddUp

\* The rollups of the attribution rows, the points of the P&L series, the daily
\* figures and the transfer panels add up, whatever the rows.
THEOREM AttributionIsWhole == AttrSpec => []AttributionAddsUp
<1>1. RowsTyped => AttributionAddsUp
  BY BreakdownIsWhole, SeriesIsWhole, PanelsAreWhole DEF AttributionAddsUp
<1> QED BY <1>1, RowsStayTyped, PTL

-----------------------------------------------------------------------------
(***************************************************************************)
(* The properties of PaperBook for tapes of any length, any prices,        *)
(* quantities, marks and ids.                                              *)
(*                                                                         *)
(* At every fill realised P&L less cost changes by the signed notional,    *)
(* whatever the average cost is and whether the fill opens, reduces or     *)
(* turns the position (BookedValue).  The P&L of a leg at a mark is so a   *)
(* sum over its fills (PositionValue), and any way of grouping the fills   *)
(* gives the same total.                                                   *)
(***************************************************************************)

Pos == [qty : Int, cost : Int, realized : Int]

TradeRow == [kind : {"trade"}, strategy : Strategies, leg : Legs, delta : Int, price : Int]

PassiveRow == [kind : {"passive"}, strategy : Strategies, leg : {"cash"}, delta : Int, price : {0}]

\* What is read from a tape, filtered or not.
Ledger(rows) ==
    /\ DOMAIN rows \subseteq 1 .. LastLine
    /\ \A i \in DOMAIN rows : rows[i] \in TradeRow \cup PassiveRow

LEMMA BookedValue ==
    ASSUME NEW pos \in Pos, NEW q \in Int, NEW price \in Int
    PROVE  /\ Booked(pos, q, price) \in Pos
           /\ \A mark \in Int :
                 Booked(pos, q, price).realized + mark * Booked(pos, q, price).qty
                        - Booked(pos, q, price).cost
                    = (pos.realized + mark * pos.qty - pos.cost) + (mark * q - q * price)
<1> DEFINE a == AvgCost(pos)
           Worth(p, mark) == p.realized + mark * p.qty - p.cost
<1>1. pos.qty \in Int /\ pos.cost \in Int /\ pos.realized \in Int
  BY DEF Pos
<1>2. CASE Opens(pos, q)
  <2>1. Booked(pos, q, price)
          = [qty |-> pos.qty + q, cost |-> pos.cost + q * price, realized |-> pos.realized]
    BY <1>2, Zenon DEF Booked
  <2>2. \A mark \in Int : mark * (pos.qty + q) = mark * pos.qty + mark * q
    BY <1>1
  <2> QED BY <1>1, <2>1, <2>2 DEF Pos
<1>3. CASE ~Opens(pos, q) /\ AbsQty(q) <= AbsQty(pos.qty)
  <2>1. Booked(pos, q, price)
          = [qty |-> pos.qty + q, cost |-> pos.cost + q * a, realized |-> pos.realized - q * (price - a)]
    BY <1>3, Zenon DEF Booked
  <2>2. a \in Int
    <3>1. pos.qty # 0
      BY <1>3 DEF Opens
    <3>2. CASE pos.qty > 0
      BY <1>1, <3>2 DEF AvgCost
    <3>3. CASE ~(pos.qty > 0)
      <4>1. -pos.qty \in Nat \ {0} /\ -pos.cost \in Int
        BY <1>1, <3>1, <3>3
      <4> QED BY <3>3, <4>1 DEF AvgCost
    <3> QED BY <3>2, <3>3
  <2> HIDE DEF a
  <2>3. q * (price - a) = q * price - q * a
    BY <2>2
  <2>4. \A mark \in Int : mark * (pos.qty + q) = mark * pos.qty + mark * q
    BY <1>1
  <2>5. q * a \in Int /\ q * price \in Int
    BY <2>2
  <2> QED BY <1>1, <2>1, <2>2, <2>3, <2>4, <2>5 DEF Pos
<1>4. CASE ~Opens(pos, q) /\ ~(AbsQty(q) <= AbsQty(pos.qty))
  <2>1. Booked(pos, q, price)
          = [qty |-> pos.qty + q, cost |-> (pos.qty + q) * price,
             realized |-> pos.realized + pos.qty * price - pos.cost]
    BY <1>4, Zenon DEF Booked
  <2>2. PICK held \in Int, c \in Int, r \in Int :
           held = pos.qty /\ c = pos.cost /\ r = pos.realized
    BY <1>1
  <2>3. (held + q) * price = held * price + q * price
    OBVIOUS
  <2>4. \A mark \in Int : mark * (held + q) = mark * held + mark * q
    OBVIOUS
  <2>5. PICK x \in Int, y \in Int : x = held * price /\ y = q * price
    OBVIOUS
  <2>6. Booked(pos, q, price) = [qty |-> held + q, cost |-> x + y, realized |-> r + x - c]
    BY <2>1, <2>2, <2>3, <2>5
  <2>7. Booked(pos, q, price) \in Pos
    BY <2>6 DEF Pos
  <2>8. ASSUME NEW mark \in Int
        PROVE  (r + x - c) + mark * (held + q) - (x + y) = (r + mark * held - c) + (mark * q - y)
    <3>1. PICK u \in Int, v \in Int : u = mark * held /\ v = mark * q
      OBVIOUS
    <3>2. mark * (held + q) = u + v
      BY <2>4, <3>1
    <3>3. (r + x - c) + (u + v) - (x + y) = (r + u - c) + (v - y)
      OBVIOUS
    <3> QED BY <3>1, <3>2, <3>3
  <2> QED BY <2>2, <2>5, <2>6, <2>7, <2>8
<1> QED BY <1>2, <1>3, <1>4

\* What the position is line by line.
Fold(h, rows, leg) ==
    h = [n \in 0 .. LastLine |->
            IF n = 0 THEN Flat
            ELSE IF n \in LegLines(rows, leg) THEN Booked(h[n - 1], rows[n].delta, rows[n].price)
            ELSE h[n - 1]]

LEMMA LinesTyped ==
    ASSUME NEW rows, Ledger(rows), NEW leg
    PROVE  /\ LastLine \in Nat /\ LegLines(rows, leg) \subseteq 1 .. LastLine
           /\ IsFiniteSet(LegLines(rows, leg)) /\ IsFiniteSet(TradeLines(rows))
           /\ IsFiniteSet(DOMAIN rows)
           /\ \A i \in LegLines(rows, leg) :
                 rows[i] \in TradeRow /\ rows[i].delta \in Int /\ rows[i].price \in Int
<1>1. LastLine \in Nat
  BY BookAssumption DEF LastLine
<1>2. LegLines(rows, leg) \subseteq 1 .. LastLine /\ TradeLines(rows) \subseteq 1 .. LastLine
  BY DEF LegLines, TradeLines, Ledger
<1>3. IsFiniteSet(1 .. LastLine)
  BY <1>1, FS_Interval
<1>4. ASSUME NEW i \in LegLines(rows, leg) PROVE rows[i] \in TradeRow
  <2>1. rows[i] \in TradeRow \cup PassiveRow /\ rows[i].kind = "trade"
    BY DEF LegLines, TradeLines, Ledger
  <2>2. rows[i] \in PassiveRow => rows[i].kind = "passive"
    BY DEF PassiveRow
  <2> QED BY <2>1, <2>2
<1>5. \A i \in LegLines(rows, leg) : rows[i].delta \in Int /\ rows[i].price \in Int
  BY <1>4 DEF TradeRow
<1>6. DOMAIN rows \subseteq 1 .. LastLine
  BY DEF Ledger
<1> QED BY <1>1, <1>2, <1>3, <1>4, <1>5, <1>6, FS_Subset

LEMMA FoldExists ==
    ASSUME NEW rows, Ledger(rows), NEW leg
    PROVE  \E h \in [0 .. LastLine -> Pos] : Fold(h, rows, leg)
<1> DEFINE N == LastLine
           next(n, pos) == IF n \in LegLines(rows, leg)
                           THEN Booked(pos, rows[n].delta, rows[n].price) ELSE pos
           g == [n \in 1 .. N |-> [pos \in Pos |-> next(n, pos)]]
<1>1. N \in Nat /\ Flat \in Pos
  BY LinesTyped DEF Flat, Pos
<1>2. \A n \in 1 .. N : \A pos \in Pos : next(n, pos) \in Pos
  BY LinesTyped, BookedValue
<1>3. g \in [1 .. N -> [Pos -> Pos]]
  BY <1>2
<1>4. \A n \in 1 .. N : \A pos \in Pos : g[n][pos] = next(n, pos)
  OBVIOUS
<1> HIDE DEF g, next, N
<1>5. PICK h \in [0 .. N -> Pos] : Iterates(h, g, Flat, N)
  BY <1>1, <1>3, IterationExists
<1>6. h = [n \in 0 .. N |-> IF n = 0 THEN Flat ELSE g[n][h[n - 1]]]
  BY <1>5 DEF Iterates
<1>7. \A n \in 0 .. N : n # 0 => n \in 1 .. N /\ n - 1 \in 0 .. N
  BY <1>1
<1>8. \A n \in 0 .. N : n # 0 => g[n][h[n - 1]] = next(n, h[n - 1])
  BY <1>4, <1>7
<1>9. h = [n \in 0 .. N |-> IF n = 0 THEN Flat ELSE next(n, h[n - 1])]
  BY <1>6, <1>8
<1>10. Fold(h, rows, leg)
  BY <1>9, Zenon DEF Fold, next, N
<1> QED BY <1>10 DEF N

\* The fills of a leg decide, not what else is on the tape.
LEMMA FoldSame ==
    ASSUME NEW rows, Ledger(rows), NEW leg, NEW others,
           LegLines(others, leg) = LegLines(rows, leg),
           \A i \in LegLines(rows, leg) :
              others[i].delta = rows[i].delta /\ others[i].price = rows[i].price,
           NEW h, Fold(h, rows, leg), NEW k, Fold(k, others, leg)
    PROVE  h = k
<1> DEFINE K == {n \in Nat : n <= LastLine => h[n] = k[n]}
<1>0. LastLine \in Nat
  BY LinesTyped
<1>1. 0 \in K
  BY <1>0 DEF Fold
<1>2. \A n \in Nat : n \in K => n + 1 \in K
  <2> SUFFICES ASSUME NEW n \in Nat, n \in K, n + 1 <= LastLine PROVE h[n + 1] = k[n + 1]
    OBVIOUS
  <2>1. h[n] = k[n] /\ n + 1 \in 0 .. LastLine /\ n + 1 # 0 /\ (n + 1) - 1 = n
    BY <1>0
  <2>2. CASE n + 1 \in LegLines(rows, leg)
    <3>1. /\ h[n + 1] = Booked(h[n], rows[n + 1].delta, rows[n + 1].price)
          /\ k[n + 1] = Booked(k[n], others[n + 1].delta, others[n + 1].price)
      BY <2>1, <2>2 DEF Fold
    <3> QED BY <2>1, <2>2, <3>1
  <2>3. CASE n + 1 \notin LegLines(rows, leg)
    <3>1. h[n + 1] = h[n] /\ k[n + 1] = k[n]
      BY <2>1, <2>3 DEF Fold
    <3> QED BY <2>1, <3>1
  <2> QED BY <2>2, <2>3
<1> HIDE DEF K
<1>3. \A n \in Nat : n \in K
  BY <1>1, <1>2, NatSetInduction
<1>4. \A n \in 0 .. LastLine : h[n] = k[n]
  BY <1>0, <1>3 DEF K
<1> QED BY <1>4 DEF Fold

LEMMA PositionFold ==
    ASSUME NEW rows, Ledger(rows), NEW leg
    PROVE  \E h \in [0 .. LastLine -> Pos] : Fold(h, rows, leg) /\ Position(rows, leg) = h[LastLine]
<1> DEFINE c == CHOOSE h : Fold(h, rows, leg)
<1>1. PICK h \in [0 .. LastLine -> Pos] : Fold(h, rows, leg)
  BY FoldExists
<1>2. Fold(c, rows, leg)
  BY <1>1
<1>3. Position(rows, leg) = c[LastLine]
  BY DEF Position, Fold
<1> HIDE DEF c
<1>4. c = h
  BY <1>1, <1>2, FoldSame
<1> QED BY <1>1, <1>3, <1>4

LEMMA PositionSame ==
    ASSUME NEW rows, Ledger(rows), NEW leg, NEW others, Ledger(others),
           LegLines(others, leg) = LegLines(rows, leg),
           \A i \in LegLines(rows, leg) :
              others[i].delta = rows[i].delta /\ others[i].price = rows[i].price
    PROVE  Position(others, leg) = Position(rows, leg)
<1>1. PICK h : Fold(h, rows, leg) /\ Position(rows, leg) = h[LastLine]
  BY PositionFold
<1>2. PICK k : Fold(k, others, leg) /\ Position(others, leg) = k[LastLine]
  BY PositionFold
<1>3. h = k
  BY <1>1, <1>2, FoldSame
<1> QED BY <1>1, <1>2, <1>3

\* What the fills add to the P&L of their legs at a mark.
GainsAt(rows, mark) ==
    [i \in TradeLines(rows) |-> mark * rows[i].delta - rows[i].delta * rows[i].price]

Worth(pos, mark) == pos.realized + mark * pos.qty - pos.cost

LEMMA PositionValue ==
    ASSUME NEW rows, Ledger(rows), NEW leg
    PROVE  /\ Position(rows, leg) \in Pos
           /\ \A mark \in Int :
                 Worth(Position(rows, leg), mark) = Total(GainsAt(rows, mark), LegLines(rows, leg))
           /\ LegLines(rows, leg) = {} => Position(rows, leg) = Flat
<1>1. PICK h \in [0 .. LastLine -> Pos] : Fold(h, rows, leg) /\ Position(rows, leg) = h[LastLine]
  BY PositionFold
<1>0. LastLine \in Nat
  BY LinesTyped
<1>2. \A n \in Nat : n + 1 <= LastLine =>
         /\ n \in 0 .. LastLine /\ n + 1 \in 0 .. LastLine
         /\ n + 1 \in LegLines(rows, leg) =>
               h[n + 1] = Booked(h[n], rows[n + 1].delta, rows[n + 1].price)
         /\ n + 1 \notin LegLines(rows, leg) => h[n + 1] = h[n]
  <2> SUFFICES ASSUME NEW n \in Nat, n + 1 <= LastLine
               PROVE  /\ n \in 0 .. LastLine /\ n + 1 \in 0 .. LastLine
                      /\ n + 1 \in LegLines(rows, leg) =>
                            h[n + 1] = Booked(h[n], rows[n + 1].delta, rows[n + 1].price)
                      /\ n + 1 \notin LegLines(rows, leg) => h[n + 1] = h[n]
    OBVIOUS
  <2>1. n \in 0 .. LastLine /\ n + 1 \in 0 .. LastLine /\ n + 1 # 0 /\ (n + 1) - 1 = n
    BY <1>0
  <2> QED BY <1>1, <2>1 DEF Fold
<1>3. h[0] = Flat
  BY <1>0, <1>1 DEF Fold
<1>4. ASSUME NEW mark \in Int
      PROVE  Worth(h[LastLine], mark) = Total(GainsAt(rows, mark), LegLines(rows, leg))
  <2> DEFINE gains == GainsAt(rows, mark)
             Upto(n) == {i \in LegLines(rows, leg) : i <= n}
             K == {n \in Nat : n <= LastLine => Worth(h[n], mark) = Total(gains, Upto(n))}
  <2>1. \A i \in LegLines(rows, leg) :
           /\ gains[i] = mark * rows[i].delta - rows[i].delta * rows[i].price
           /\ gains[i] \in Int /\ rows[i].delta \in Int /\ rows[i].price \in Int
    <3> SUFFICES ASSUME NEW i \in LegLines(rows, leg)
                 PROVE  /\ gains[i] = mark * rows[i].delta - rows[i].delta * rows[i].price
                        /\ gains[i] \in Int /\ rows[i].delta \in Int /\ rows[i].price \in Int
      OBVIOUS
    <3>1. PICK q \in Int, price \in Int : q = rows[i].delta /\ price = rows[i].price
      BY LinesTyped
    <3>2. gains[i] = mark * q - q * price
      BY <3>1 DEF GainsAt, LegLines
    <3> HIDE DEF gains
    <3> QED BY <3>1, <3>2
  <2>2. 0 \in K
    <3>1. Upto(0) = {}
      BY LinesTyped
    <3>2. Worth(Flat, mark) = 0
      BY DEF Worth, Flat
    <3> QED BY <1>3, <3>1, <3>2, TotalEmpty
  <2>3. \A n \in Nat : n \in K => n + 1 \in K
    <3> SUFFICES ASSUME NEW n \in Nat, n \in K, n + 1 <= LastLine
                 PROVE  Worth(h[n + 1], mark) = Total(gains, Upto(n + 1))
      <4> HIDE DEF gains, Upto
      <4> QED OBVIOUS
    <3> DEFINE old == Upto(n)
    <3>1. Worth(h[n], mark) = Total(gains, old)
      BY <1>0
    <3>2. /\ IsFiniteSet(old) /\ n + 1 \notin old /\ \A i \in old : gains[i] \in Int
      <4>1. IsFiniteSet(LegLines(rows, leg)) /\ old \subseteq LegLines(rows, leg)
        BY LinesTyped
      <4>2. n + 1 \notin old
        OBVIOUS
      <4> QED BY <2>1, <4>1, <4>2, FS_Subset
    <3>3. CASE n + 1 \in LegLines(rows, leg)
      <4> DEFINE q == rows[n + 1].delta
                 price == rows[n + 1].price
      <4>1. Upto(n + 1) = old \cup {n + 1}
        BY <3>3, LinesTyped
      <4>2. q \in Int /\ price \in Int /\ gains[n + 1] = mark * q - q * price /\ gains[n + 1] \in Int
        BY <2>1, <3>3
      <4>3. h[n] \in Pos /\ h[n + 1] = Booked(h[n], q, price)
        BY <1>1, <1>2, <3>3
      <4> HIDE DEF gains, old, Upto, q, price, K
      <4>4. Worth(h[n + 1], mark) = Worth(h[n], mark) + gains[n + 1]
        <5>1. PICK pos \in Pos : pos = h[n]
          BY <4>3
        <5>2. Worth(Booked(pos, q, price), mark) = Worth(pos, mark) + (mark * q - q * price)
          BY <4>2, BookedValue DEF Worth
        <5> QED BY <4>2, <4>3, <5>1, <5>2
      <4>5. Total(gains, old \cup {n + 1}) = gains[n + 1] + Total(gains, old)
        BY <3>2, <4>2, TotalAdd
      <4>6. Total(gains, old) \in Int
        BY <3>2, TotalType
      <4> DEFINE w == Worth(h[n + 1], mark)
                 before == Total(gains, old)
                 gain == gains[n + 1]
      <4>7. before \in Int /\ gain \in Int /\ w = before + gain
        BY <3>1, <4>2, <4>4, <4>6
      <4>8. Total(gains, Upto(n + 1)) = gain + before
        BY <4>1, <4>5
      <4> HIDE DEF w, before, gain
      <4>9. gain + before = before + gain
        BY <4>7
      <4> QED BY <4>7, <4>8, <4>9 DEF w
    <3>4. CASE n + 1 \notin LegLines(rows, leg)
      <4>1. Upto(n + 1) = old
        BY <3>4, LinesTyped
      <4>2. h[n + 1] = h[n]
        BY <1>2, <3>4
      <4> HIDE DEF gains, old, Upto, K
      <4> QED BY <3>1, <4>1, <4>2
    <3> QED BY <3>3, <3>4
  <2>4. LastLine \in K
    <3> HIDE DEF K
    <3> QED BY <1>0, <2>2, <2>3, NatSetInduction
  <2>5. Upto(LastLine) = LegLines(rows, leg)
    BY LinesTyped
  <2> HIDE DEF gains, Upto
  <2>6. Worth(h[LastLine], mark) = Total(gains, Upto(LastLine))
    BY <1>0, <2>4
  <2> QED BY <2>5, <2>6 DEF gains
<1>5. ASSUME LegLines(rows, leg) = {} PROVE h[LastLine] = Flat
  <2> DEFINE K == {n \in Nat : n <= LastLine => h[n] = Flat}
  <2>1. 0 \in K
    BY <1>3
  <2>2. \A n \in Nat : n \in K => n + 1 \in K
    BY <1>0, <1>2, <1>5
  <2> HIDE DEF K
  <2>3. LastLine \in K
    BY <1>0, <2>1, <2>2, NatSetInduction
  <2> QED BY <1>0, <2>3 DEF K
<1> QED BY <1>0, <1>1, <1>4, <1>5

\* The marks, and what a leg has earned at its own.
MarksTyped == marks \in [Legs -> Nat]

LegPnl(rows, leg) == Position(rows, leg).realized + Unrealized(rows, leg)

LEMMA LegValue ==
    ASSUME MarksTyped, NEW rows, Ledger(rows), NEW leg \in Legs
    PROVE  /\ Position(rows, leg) \in Pos
           /\ Unrealized(rows, leg) \in Int /\ LegPnl(rows, leg) \in Int
           /\ marks[leg] \in Nat
           /\ marks[leg] # 0 =>
                 LegPnl(rows, leg) = Total(GainsAt(rows, marks[leg]), LegLines(rows, leg))
           /\ marks[leg] = 0 =>
                 Unrealized(rows, leg) = 0 /\ LegPnl(rows, leg) = Position(rows, leg).realized
<1> DEFINE pos == Position(rows, leg)
           mark == marks[leg]
<1>1. pos \in Pos /\ mark \in Nat
  BY PositionValue DEF MarksTyped
<1>2. Unrealized(rows, leg) = IF mark = 0 THEN 0 ELSE mark * pos.qty - pos.cost
  BY DEF Unrealized
<1>3. LegPnl(rows, leg) = pos.realized + Unrealized(rows, leg)
  BY DEF LegPnl
<1>4. Worth(pos, mark) = Total(GainsAt(rows, mark), LegLines(rows, leg))
  BY <1>1, PositionValue
<1>5. PICK q \in Int, c \in Int, r \in Int : q = pos.qty /\ c = pos.cost /\ r = pos.realized
  BY <1>1 DEF Pos
<1>6. Worth(pos, mark) = r + mark * q - c
  BY <1>5 DEF Worth
<1> HIDE DEF pos, mark
<1>7. CASE mark = 0
  BY <1>1, <1>2, <1>3, <1>5, <1>7 DEF pos, mark
<1>8. CASE mark # 0
  <2>1. Unrealized(rows, leg) = mark * q - c
    BY <1>2, <1>5, <1>8
  <2>2. PICK u \in Int : u = mark * q
    BY <1>1
  <2>3. LegPnl(rows, leg) = r + (u - c) /\ Worth(pos, mark) = r + u - c
    BY <1>3, <1>5, <1>6, <2>1, <2>2
  <2>4. LegPnl(rows, leg) = Worth(pos, mark) /\ LegPnl(rows, leg) \in Int /\ Unrealized(rows, leg) \in Int
    BY <2>1, <2>2, <2>3
  <2> QED BY <1>1, <1>4, <1>8, <2>4 DEF pos, mark
<1> QED BY <1>7, <1>8

LEMMA HeldLegs ==
    ASSUME NEW rows, Ledger(rows)
    PROVE  /\ Held(rows) \subseteq Legs /\ IsFiniteSet(Held(rows))
           /\ IsFiniteSet(Accruing(rows)) /\ \A i \in Accruing(rows) : rows[i].delta \in Int
           /\ IsFiniteSet(TradeLines(rows)) /\ \A i \in TradeLines(rows) : rows[i] \in TradeRow
           /\ \A leg : leg \in Held(rows) <=> LegLines(rows, leg) # {}
<1>1. IsFiniteSet(DOMAIN rows) /\ IsFiniteSet(TradeLines(rows))
  BY LinesTyped
<1>2. \A i \in TradeLines(rows) : rows[i] \in TradeRow
  <2> SUFFICES ASSUME NEW i \in TradeLines(rows) PROVE rows[i] \in TradeRow
    OBVIOUS
  <2>1. rows[i] \in TradeRow \cup PassiveRow /\ rows[i].kind = "trade"
    BY DEF TradeLines, Ledger
  <2>2. rows[i] \in PassiveRow => rows[i].kind = "passive"
    BY DEF PassiveRow
  <2> QED BY <2>1, <2>2
<1>3. \A i \in Accruing(rows) : rows[i].delta \in Int
  BY DEF Accruing, Ledger, TradeRow, PassiveRow
<1>4. IsFiniteSet(Accruing(rows))
  BY <1>1, FS_Subset DEF Accruing
<1>5. IsFiniteSet(Held(rows))
  <2> DEFINE legOf == [i \in TradeLines(rows) |-> rows[i].leg]
  <2>1. Held(rows) = {legOf[i] : i \in TradeLines(rows)}
    BY DEF Held
  <2> HIDE DEF legOf
  <2> QED BY <1>1, <2>1, FiniteImage
<1>6. Held(rows) \subseteq Legs
  BY <1>2 DEF Held, TradeRow
<1>7. \A leg : leg \in Held(rows) <=> LegLines(rows, leg) # {}
  BY DEF Held, LegLines
<1> QED BY <1>1, <1>2, <1>3, <1>4, <1>5, <1>6, <1>7

\* The legs' P&L, and the accruals.
PnlOf(rows) == [leg \in Held(rows) |-> LegPnl(rows, leg)]

IncomeOf(rows) == [i \in Accruing(rows) |-> rows[i].delta]

LEMMA TotalsSplit ==
    ASSUME MarksTyped, NEW rows, Ledger(rows)
    PROVE  /\ Totals(rows).realized \in Int /\ Totals(rows).unrealized \in Int
           /\ Accrued(rows) = Total(IncomeOf(rows), Accruing(rows)) /\ Accrued(rows) \in Int
           /\ Totals(rows).total = Total(PnlOf(rows), Held(rows)) + Accrued(rows)
           /\ Totals(rows).total = Totals(rows).realized + Totals(rows).unrealized
           /\ Totals(rows).total \in Int
           /\ LegRealized(rows) \in Int /\ UnrealizedTotal(rows) \in Int
           /\ Totals(rows).total = LegRealized(rows) + Accrued(rows) + UnrealizedTotal(rows)
           /\ Unmarked => UnrealizedTotal(rows) = 0
<1> DEFINE held == Held(rows)
           real == [leg \in held |-> Position(rows, leg).realized]
           unreal == [leg \in held |-> Unrealized(rows, leg)]
<1>1. held \subseteq Legs /\ IsFiniteSet(held)
  BY HeldLegs
<1>2. \A leg \in held : real[leg] \in Int /\ unreal[leg] \in Int /\ PnlOf(rows)[leg] = real[leg] + unreal[leg]
  <2> SUFFICES ASSUME NEW leg \in held
               PROVE  /\ Position(rows, leg).realized \in Int /\ Unrealized(rows, leg) \in Int
                      /\ PnlOf(rows)[leg] = Position(rows, leg).realized + Unrealized(rows, leg)
    OBVIOUS
  <2>1. Position(rows, leg) \in Pos /\ Unrealized(rows, leg) \in Int
    BY <1>1, LegValue
  <2> QED BY <2>1 DEF PnlOf, LegPnl, Pos
<1>3. LegRealized(rows) = Total(real, held) /\ UnrealizedTotal(rows) = Total(unreal, held)
  <2>1. DOMAIN real = held /\ DOMAIN unreal = held
    OBVIOUS
  <2>2. LegRealized(rows) = SumOf(real) /\ UnrealizedTotal(rows) = SumOf(unreal)
    BY DEF LegRealized, UnrealizedTotal
  <2> HIDE DEF held, real, unreal
  <2> QED BY <1>1, <1>2, <2>1, <2>2, SumOfTerms
<1>4. Accrued(rows) = Total(IncomeOf(rows), Accruing(rows)) /\ Accrued(rows) \in Int
  <2>1. Accrued(rows) = SumOf(IncomeOf(rows)) /\ DOMAIN IncomeOf(rows) = Accruing(rows)
    BY DEF Accrued, IncomeOf
  <2>2. \A i \in Accruing(rows) : IncomeOf(rows)[i] \in Int
    BY HeldLegs DEF IncomeOf
  <2>3. IsFiniteSet(Accruing(rows))
    BY HeldLegs
  <2> QED BY <2>1, <2>2, <2>3, SumOfTerms, TotalType
<1>5. ASSUME Unmarked PROVE UnrealizedTotal(rows) = 0
  <2>1. \A leg \in held : unreal[leg] = 0
    <3> SUFFICES ASSUME NEW leg \in held PROVE Unrealized(rows, leg) = 0
      OBVIOUS
    <3>1. marks[leg] = 0
      BY <1>1, <1>5 DEF Unmarked
    <3> QED BY <3>1 DEF Unrealized
  <2> HIDE DEF held, unreal
  <2> QED BY <1>1, <1>3, <2>1, TotalZero
<1> HIDE DEF held, real, unreal
<1>6. Total(PnlOf(rows), held) = Total(real, held) + Total(unreal, held)
  BY <1>1, <1>2, TotalPlus
<1>7. Total(real, held) \in Int /\ Total(unreal, held) \in Int
  BY <1>1, <1>2, TotalType
<1>8. /\ Totals(rows).realized = LegRealized(rows) + Accrued(rows)
      /\ Totals(rows).unrealized = UnrealizedTotal(rows)
      /\ Totals(rows).total = (LegRealized(rows) + Accrued(rows)) + UnrealizedTotal(rows)
  BY DEF Totals, RealizedTotal
<1> QED BY <1>3, <1>4, <1>5, <1>6, <1>7, <1>8 DEF held

LEMMA ReplyIsTotals ==
    ASSUME MarksTyped, NEW rows, Ledger(rows)
    PROVE  PnlReply(rows) = Totals(rows)
<1>1. CASE Unmarked
  <2>1. UnrealizedTotal(rows) = 0 /\ LegRealized(rows) \in Int /\ Accrued(rows) \in Int
    BY <1>1, TotalsSplit
  <2>2. RealizedTotal(rows) \in Int
    BY <2>1 DEF RealizedTotal
  <2>3. RealizedTotal(rows) + UnrealizedTotal(rows) = RealizedTotal(rows)
    BY <2>1, <2>2
  <2> QED BY <1>1, <2>1, <2>3 DEF PnlReply, Totals
<1>2. CASE ~Unmarked
  BY <1>2 DEF PnlReply
<1> QED BY <1>1, <1>2

\* The rows of a strategy, or any other choice of lines, are a ledger too.
LEMMA ChosenLines ==
    ASSUME NEW rows, Ledger(rows), NEW P \in SUBSET DOMAIN rows
    PROVE  /\ Ledger(Restrict(rows, P))
           /\ DOMAIN Restrict(rows, P) = P
           /\ \A i \in P : Restrict(rows, P)[i] = rows[i]
           /\ TradeLines(Restrict(rows, P)) = TradeLines(rows) \cap P
           /\ Accruing(Restrict(rows, P)) = Accruing(rows) \cap P
           /\ \A leg : LegLines(Restrict(rows, P), leg) = LegLines(rows, leg) \cap P
<1> DEFINE r == Restrict(rows, P)
<1>1. r = [i \in P |-> rows[i]]
  BY DEF Restrict
<1>2. DOMAIN r = P /\ \A i \in P : r[i] = rows[i]
  BY <1>1
<1> HIDE DEF r
<1>3. Ledger(r)
  BY <1>2 DEF Ledger
<1>4. TradeLines(r) = TradeLines(rows) \cap P /\ Accruing(r) = Accruing(rows) \cap P
  BY <1>2 DEF TradeLines, Accruing
<1>5. \A leg : LegLines(r, leg) = LegLines(rows, leg) \cap P
  BY <1>2, <1>4 DEF LegLines
<1> QED BY <1>2, <1>3, <1>4, <1>5 DEF r

StrategyAt(rows) == [i \in DOMAIN rows |-> rows[i].strategy]

LEMMA PartLines ==
    ASSUME NEW rows, Ledger(rows), NEW s
    PROVE  /\ Ledger(Part(rows, s))
           /\ DOMAIN Part(rows, s) = {i \in DOMAIN rows : rows[i].strategy = s}
           /\ \A i \in DOMAIN Part(rows, s) : Part(rows, s)[i] = rows[i]
           /\ Accruing(Part(rows, s)) = Group(Accruing(rows), StrategyAt(rows), s)
           /\ \A leg : LegLines(Part(rows, s), leg) = Group(LegLines(rows, leg), StrategyAt(rows), s)
           /\ Held(Part(rows, s)) \subseteq Held(rows)
<1> DEFINE P == {i \in DOMAIN rows : rows[i].strategy = s}
           part == Restrict(rows, P)
<1>1. Part(rows, s) = part
  BY DEF Part
<1>2. P \in SUBSET DOMAIN rows
  OBVIOUS
<1>3. \A T \in SUBSET DOMAIN rows : T \cap P = Group(T, StrategyAt(rows), s)
  BY DEF Group, StrategyAt
<1>4. Accruing(rows) \in SUBSET DOMAIN rows /\ \A leg : LegLines(rows, leg) \in SUBSET DOMAIN rows
  BY DEF Accruing, LegLines, TradeLines
<1> HIDE DEF P
<1>5. /\ Ledger(part) /\ DOMAIN part = P /\ \A i \in P : part[i] = rows[i]
      /\ Accruing(part) = Accruing(rows) \cap P
      /\ \A leg : LegLines(part, leg) = LegLines(rows, leg) \cap P
  BY <1>2, ChosenLines
<1> HIDE DEF part
<1>6. \A leg : leg \in Held(part) => leg \in Held(rows)
  <2> SUFFICES ASSUME NEW leg, leg \in Held(part) PROVE leg \in Held(rows)
    OBVIOUS
  <2>1. LegLines(part, leg) # {}
    BY <1>5, HeldLegs
  <2>2. LegLines(rows, leg) # {}
    BY <1>5, <2>1
  <2> QED BY <2>2, HeldLegs
<1> QED BY <1>1, <1>3, <1>4, <1>5, <1>6 DEF P

\* A leg has a mark, or one strategy has traded it.
Separable(rows, leg) ==
    \/ marks[leg] # 0
    \/ \A i, j \in LegLines(rows, leg) : rows[i].strategy = rows[j].strategy

\* The share of a strategy in a leg.
Share(rows, s) ==
    [leg \in Held(rows) |->
        IF leg \in Held(Part(rows, s)) THEN LegPnl(Part(rows, s), leg) ELSE 0]

LEMMA LegByStrategy ==
    ASSUME MarksTyped, NEW rows, Ledger(rows), NEW leg \in Held(rows), Separable(rows, leg),
           NEW U, IsFiniteSet(U), StampedIds(rows) \subseteq U,
           NEW g, \A s \in U : g[s] = Share(rows, s)[leg]
    PROVE  Total(g, U) = LegPnl(rows, leg)
<1> DEFINE lines == LegLines(rows, leg)
           strategy == StrategyAt(rows)
           mark == marks[leg]
           gains == GainsAt(rows, mark)
<1>1. leg \in Legs /\ lines # {} /\ IsFiniteSet(lines) /\ lines \subseteq DOMAIN rows
  <2>1. leg \in Legs /\ lines # {}
    BY HeldLegs
  <2>2. IsFiniteSet(lines)
    BY LinesTyped
  <2>3. lines \subseteq DOMAIN rows
    BY DEF LegLines, TradeLines
  <2> QED BY <2>1, <2>2, <2>3
<1>2. \A i \in lines : strategy[i] = rows[i].strategy /\ strategy[i] \in U
  BY <1>1 DEF StrategyAt, StampedIds
<1>3. \A s \in U : /\ Ledger(Part(rows, s))
                   /\ LegLines(Part(rows, s), leg) = Group(lines, strategy, s)
                   /\ \A i \in Group(lines, strategy, s) : Part(rows, s)[i] = rows[i]
                   /\ leg \in Held(Part(rows, s)) <=> Group(lines, strategy, s) # {}
  <2> SUFFICES ASSUME NEW s \in U
               PROVE  /\ Ledger(Part(rows, s))
                      /\ LegLines(Part(rows, s), leg) = Group(lines, strategy, s)
                      /\ \A i \in Group(lines, strategy, s) : Part(rows, s)[i] = rows[i]
                      /\ leg \in Held(Part(rows, s)) <=> Group(lines, strategy, s) # {}
    OBVIOUS
  <2>1. /\ Ledger(Part(rows, s))
        /\ LegLines(Part(rows, s), leg) = Group(lines, strategy, s)
        /\ \A i \in DOMAIN Part(rows, s) : Part(rows, s)[i] = rows[i]
    BY PartLines
  <2>2. LegLines(Part(rows, s), leg) \subseteq DOMAIN Part(rows, s)
    BY DEF LegLines, TradeLines
  <2>3. leg \in Held(Part(rows, s)) <=> LegLines(Part(rows, s), leg) # {}
    BY <2>1, HeldLegs
  <2> QED BY <2>1, <2>2, <2>3
<1>4. \A s \in U : g[s] = IF Group(lines, strategy, s) # {} THEN LegPnl(Part(rows, s), leg) ELSE 0
  BY <1>3 DEF Share
<1>5. CASE mark # 0
  <2>0. \A i \in lines : gains[i] \in Int
    <3> SUFFICES ASSUME NEW i \in lines PROVE gains[i] \in Int
      OBVIOUS
    <3>1. PICK q \in Int, price \in Int : q = rows[i].delta /\ price = rows[i].price
      BY LinesTyped
    <3>2. mark \in Int
      BY <1>1, LegValue
    <3>3. gains[i] = mark * q - q * price
      BY <3>1 DEF GainsAt, LegLines
    <3> HIDE DEF gains, mark
    <3> QED BY <3>1, <3>2, <3>3
  <2>1. \A s \in U : g[s] = Total(gains, Group(lines, strategy, s))
    <3> SUFFICES ASSUME NEW s \in U PROVE g[s] = Total(gains, Group(lines, strategy, s))
      OBVIOUS
    <3> DEFINE own == Group(lines, strategy, s)
               part == Part(rows, s)
    <3>1. CASE own = {}
      BY <1>4, <3>1, TotalEmpty
    <3>2. CASE own # {}
      <4>1. Ledger(part) /\ LegLines(part, leg) = own /\ \A i \in own : part[i] = rows[i]
        BY <1>3
      <4>2. g[s] = LegPnl(part, leg)
        BY <1>4, <3>2
      <4>3. LegPnl(part, leg) = Total(GainsAt(part, mark), own)
        BY <1>1, <1>5, <4>1, LegValue
      <4>4. own \subseteq lines /\ own \subseteq TradeLines(part) /\ own \subseteq TradeLines(rows)
        BY <4>1 DEF Group, LegLines
      <4>5. \A i \in own : gains[i] \in Int /\ gains[i] = GainsAt(part, mark)[i]
        <5> HIDE DEF own, part
        <5> QED BY <2>0, <4>1, <4>4 DEF GainsAt
      <4>6. IsFiniteSet(own)
        BY <1>1, <4>4, FS_Subset
      <4> HIDE DEF own, gains, part
      <4>7. Total(gains, own) = Total(GainsAt(part, mark), own)
        BY <4>5, <4>6, TotalEqual
      <4> QED BY <4>2, <4>3, <4>7 DEF own
    <3> QED BY <3>1, <3>2
  <2>2. LegPnl(rows, leg) = Total(gains, lines)
    BY <1>1, <1>5, LegValue
  <2> HIDE DEF gains, lines, strategy
  <2>3. Total(g, U) = Total(gains, lines)
    BY <1>1, <1>2, <2>0, <2>1, TotalByGroup
  <2> QED BY <2>2, <2>3
<1>6. CASE mark = 0
  <2>1. PICK i \in lines : TRUE
    BY <1>1
  <2> DEFINE t == rows[i].strategy
  <2>2. t \in U /\ \A j \in lines : strategy[j] = t
    BY <1>2, <1>6 DEF Separable
  <2>3. Group(lines, strategy, t) = lines /\ \A s \in U : s # t => Group(lines, strategy, s) = {}
    BY <2>2 DEF Group
  <2>4. \A s \in U \ {t} : g[s] = 0
    BY <1>4, <2>3
  <2>5. g[t] = LegPnl(rows, leg)
    <3>1. /\ Ledger(Part(rows, t)) /\ LegLines(Part(rows, t), leg) = lines
          /\ \A j \in lines : Part(rows, t)[j] = rows[j]
      BY <1>3, <2>2, <2>3
    <3>2. Position(Part(rows, t), leg) = Position(rows, leg)
      BY <3>1, PositionSame
    <3>3. g[t] = LegPnl(Part(rows, t), leg)
      BY <1>1, <1>4, <2>2, <2>3
    <3> QED BY <3>2, <3>3 DEF LegPnl, Unrealized
  <2>6. LegPnl(rows, leg) \in Int
    BY <1>1, LegValue
  <2> HIDE DEF t
  <2>7. \A s \in U : g[s] \in Int
    BY <2>4, <2>5, <2>6
  <2>8. Total(g, U) = g[t] + Total(g, U \ {t})
    BY <2>2, <2>7, TotalRemove
  <2>9. Total(g, U \ {t}) = 0
    BY <2>4, FS_Subset, TotalZero
  <2> QED BY <2>5, <2>6, <2>8, <2>9
<1> QED BY <1>5, <1>6

LEMMA PartsAddUp ==
    ASSUME MarksTyped, NEW rows, Ledger(rows), \A leg \in Held(rows) : Separable(rows, leg),
           NEW U, IsFiniteSet(U), StampedIds(rows) \subseteq U,
           NEW g, \A s \in U : g[s] = Totals(Part(rows, s)).total
    PROVE  Total(g, U) = Totals(rows).total
<1> DEFINE held == Held(rows)
           table == [s \in U |-> Share(rows, s)]
           shares == [s \in U |-> Total(table[s], held)]
           column == [leg \in held |-> [s \in U |-> table[s][leg]]]
           columns == PnlOf(rows)
           income == [s \in U |-> Accrued(Part(rows, s))]
<1>1. IsFiniteSet(held) /\ held \subseteq Legs
  BY HeldLegs
<1>2. \A s \in U : \A leg \in held : table[s][leg] \in Int
  <2> SUFFICES ASSUME NEW s \in U, NEW leg \in held PROVE Share(rows, s)[leg] \in Int
    OBVIOUS
  <2>1. LegPnl(Part(rows, s), leg) \in Int
    BY <1>1, PartLines, LegValue
  <2> QED BY <2>1 DEF Share
<1>3. \A leg \in held : columns[leg] = Total(column[leg], U)
  <2> SUFFICES ASSUME NEW leg \in held PROVE LegPnl(rows, leg) = Total(column[leg], U)
    BY DEF PnlOf
  <2> DEFINE c == column[leg]
  <2>1. \A s \in U : c[s] = Share(rows, s)[leg]
    OBVIOUS
  <2> HIDE DEF c, table, column
  <2>2. Total(c, U) = LegPnl(rows, leg)
    BY <2>1, LegByStrategy
  <2> QED BY <2>2 DEF c
<1>4. Total(shares, U) = Total(columns, held)
  <2>1. RowSums(shares, table, U, held) /\ RowSums(columns, column, held, U)
    BY <1>3 DEF RowSums
  <2>2. Transposed(table, column, U, held)
    BY DEF Transposed
  <2> HIDE DEF held, table, shares, column, columns
  <2> QED BY <1>1, <1>2, <2>1, <2>2, TotalSwap
<1>5. Total(income, U) = Accrued(rows)
  <2> DEFINE amounts == IncomeOf(rows)
             strategy == StrategyAt(rows)
  <2>1. IsFiniteSet(Accruing(rows)) /\ \A i \in Accruing(rows) : amounts[i] \in Int
    BY HeldLegs DEF IncomeOf
  <2>2. \A i \in Accruing(rows) : strategy[i] \in U
    BY DEF StrategyAt, StampedIds, Accruing
  <2>3. \A s \in U : income[s] = Total(amounts, Group(Accruing(rows), strategy, s))
    <3> SUFFICES ASSUME NEW s \in U
                 PROVE  Accrued(Part(rows, s)) = Total(amounts, Group(Accruing(rows), strategy, s))
      OBVIOUS
    <3> DEFINE part == Part(rows, s)
               own == Accruing(part)
    <3>1. Ledger(part) /\ own = Group(Accruing(rows), strategy, s) /\ \A i \in DOMAIN part : part[i] = rows[i]
      BY PartLines
    <3>2. Accrued(part) = Total(IncomeOf(part), own) /\ IsFiniteSet(own)
      BY <3>1, TotalsSplit, HeldLegs
    <3>3. own \subseteq DOMAIN part /\ own \subseteq Accruing(rows)
      BY <3>1 DEF Accruing, Group
    <3>4. \A i \in own : amounts[i] \in Int /\ IncomeOf(part)[i] = amounts[i]
      <4> HIDE DEF part, amounts
      <4> QED BY <2>1, <3>1, <3>3 DEF IncomeOf, amounts
    <3> HIDE DEF own, part, amounts
    <3>5. Total(amounts, own) = Total(IncomeOf(part), own)
      BY <3>2, <3>4, TotalEqual
    <3> QED BY <3>1, <3>2, <3>5 DEF part
  <2>4. Accrued(rows) = Total(amounts, Accruing(rows))
    BY TotalsSplit
  <2> HIDE DEF amounts, strategy, income
  <2> QED BY <2>1, <2>2, <2>3, <2>4, TotalByGroup
<1>6. \A s \in U : shares[s] \in Int /\ income[s] \in Int /\ g[s] = shares[s] + income[s]
  <2> SUFFICES ASSUME NEW s \in U
               PROVE  /\ Total(table[s], held) \in Int /\ Accrued(Part(rows, s)) \in Int
                      /\ Totals(Part(rows, s)).total = Total(table[s], held) + Accrued(Part(rows, s))
    OBVIOUS
  <2> DEFINE part == Part(rows, s)
             own == Held(part)
             row == table[s]
  <2>1. Ledger(part) /\ own \subseteq held
    BY PartLines
  <2>2. Accrued(part) \in Int /\ Totals(part).total = Total(PnlOf(part), own) + Accrued(part)
    BY <2>1, TotalsSplit
  <2>3. /\ \A leg \in own : row[leg] = PnlOf(part)[leg]
        /\ \A leg \in held \ own : row[leg] = 0
        /\ \A leg \in held : row[leg] \in Int
    BY <1>2, <2>1 DEF Share, PnlOf
  <2>4. IsFiniteSet(own)
    BY <1>1, <2>1, FS_Subset
  <2> HIDE DEF held, own, part, row
  <2>5. Total(row, held) = Total(row, own)
    BY <1>1, <2>1, <2>3, TotalWithout
  <2>6. Total(row, own) = Total(PnlOf(part), own)
    BY <2>1, <2>3, <2>4, TotalEqual
  <2>7. Total(row, held) \in Int
    BY <1>1, <2>3, TotalType
  <2> QED BY <2>2, <2>5, <2>6, <2>7 DEF part, row
<1> HIDE DEF shares, income, columns, held
<1>7. Total(g, U) = Total(shares, U) + Total(income, U)
  BY <1>6, TotalPlus
<1>8. Totals(rows).total = Total(columns, held) + Accrued(rows)
  BY TotalsSplit DEF columns, held
<1> QED BY <1>4, <1>5, <1>7, <1>8

\* Types of the state.
BookTyped ==
    /\ tape \in Seq(TradeRow \cup PassiveRow) /\ Len(tape) <= MaxTape
    /\ MarksTyped

LEMMA TapeIsLedger == ASSUME BookTyped PROVE Ledger(tape) /\ Trades(tape) = Restrict(tape, TradeLines(tape))
<1>1. MaxTape \in Nat /\ LastLine = MaxTape + 1
  BY BookAssumption DEF LastLine
<1>2. DOMAIN tape = 1 .. Len(tape) /\ Len(tape) \in Nat /\ \A i \in DOMAIN tape : tape[i] \in TradeRow \cup PassiveRow
  BY DEF BookTyped
<1>3. DOMAIN tape \subseteq 1 .. LastLine
  BY <1>1, <1>2 DEF BookTyped
<1> QED BY <1>2, <1>3 DEF Ledger, Trades

LEMMA IdsAreFinite ==
    ASSUME NEW rows, Ledger(rows)
    PROVE  IsFiniteSet(StampedIds(rows)) /\ IsFiniteSet(Universe(rows))
<1>1. IsFiniteSet(DOMAIN rows)
  BY LinesTyped
<1>2. StampedIds(rows) = {StrategyAt(rows)[i] : i \in DOMAIN rows}
  BY DEF StampedIds, StrategyAt
<1>3. IsFiniteSet(StampedIds(rows))
  BY <1>1, <1>2, FiniteImage
<1> QED BY <1>3, BookAssumption, FS_Union DEF Universe

\* The venues and the accruals.
LEMMA VenuesAddUp ==
    ASSUME MarksTyped, NEW rows, Ledger(rows)
    PROVE  SumOf([v \in DOMAIN ByVenue(rows) |-> ByVenue(rows)[v].pnl]) + Accrued(rows)
               = Totals(rows).total
<1> DEFINE held == Held(rows)
           venue == [leg \in held |-> VenueOf[leg]]
           G == {VenueOf[leg] : leg \in held}
           pnl == PnlOf(rows)
           g == [v \in G |-> Total(pnl, Group(held, venue, v))]
           shown == [v \in DOMAIN ByVenue(rows) |-> ByVenue(rows)[v].pnl]
<1>1. IsFiniteSet(held) /\ held \subseteq Legs
  BY HeldLegs
<1>2. \A leg \in held : pnl[leg] \in Int /\ venue[leg] \in G
  BY <1>1, LegValue DEF PnlOf
<1>3. IsFiniteSet(G)
  <2>1. G = {venue[leg] : leg \in held}
    OBVIOUS
  <2> HIDE DEF G, held, venue
  <2> QED BY <1>1, <2>1, FiniteImage
<1>4. \A v \in G : IsFiniteSet(Group(held, venue, v)) /\ \A leg \in Group(held, venue, v) : pnl[leg] \in Int
  <2> HIDE DEF held, venue, pnl
  <2> QED BY <1>1, <1>2, FS_Subset DEF Group
<1>5. DOMAIN shown = G
  BY DEF ByVenue
<1>6. \A v \in G : shown[v] = g[v] /\ g[v] \in Int
  <2> SUFFICES ASSUME NEW v \in G
               PROVE  /\ ByVenue(rows)[v].pnl = Total(pnl, Group(held, venue, v))
                      /\ Total(pnl, Group(held, venue, v)) \in Int
    BY <1>5
  <2> DEFINE own == VenueLegs(rows, v)
             amounts == [leg \in own |-> Position(rows, leg).realized + Unrealized(rows, leg)]
  <2>1. own = Group(held, venue, v) /\ own \subseteq held
    BY DEF VenueLegs, Group
  <2>2. ByVenue(rows)[v].pnl = SumOf(amounts)
    BY DEF ByVenue
  <2>3. DOMAIN amounts = own
    OBVIOUS
  <2>4. \A leg \in own : amounts[leg] = pnl[leg]
    BY <2>1 DEF PnlOf, LegPnl
  <2>5. IsFiniteSet(own) /\ \A leg \in own : pnl[leg] \in Int
    BY <1>4, <2>1
  <2> HIDE DEF own, amounts, pnl, venue, held, G
  <2>6. SumOf(amounts) = Total(pnl, own)
    BY <2>3, <2>4, <2>5, SumOfTerms
  <2>7. Total(pnl, own) \in Int
    BY <2>5, TotalType
  <2> QED BY <2>1, <2>2, <2>6, <2>7
<1>7. \A v \in G : g[v] = Total(pnl, Group(held, venue, v))
  OBVIOUS
<1>8. Totals(rows).total = Total(pnl, held) + Accrued(rows)
  BY TotalsSplit
<1> HIDE DEF G, g, shown, pnl, held, venue
<1>9. SumOf(shown) = Total(g, G)
  <2>1. \A v \in G : shown[v] \in Int
    BY <1>6
  <2> QED BY <1>3, <1>5, <1>6, <2>1, SumOfTerms
<1>10. Total(g, G) = Total(pnl, held)
  BY <1>1, <1>2, <1>3, <1>7, TotalByGroup
<1> QED BY <1>8, <1>9, <1>10 DEF shown

LEMMA SeparableLegs ==
    ASSUME BookTyped, ~SharedUnmarked
    PROVE  \A leg \in Held(tape) : Separable(tape, leg)
<1> SUFFICES ASSUME NEW leg \in Held(tape), marks[leg] = 0,
                    NEW i \in LegLines(tape, leg), NEW j \in LegLines(tape, leg)
             PROVE  tape[i].strategy = tape[j].strategy
  BY DEF Separable
<1>1. i \in TradeLines(tape) /\ j \in TradeLines(tape) /\ tape[i].leg = leg /\ tape[j].leg = leg
  BY DEF LegLines
<1> QED BY <1>1 DEF SharedUnmarked

LEMMA AllViewsAgree == ASSUME BookTyped PROVE ViewsAgree
<1> DEFINE whole == Totals(tape).total
           stamped == [s \in StampedIds(tape) |-> ByStrategy(tape)[s].total]
           parts == [s \in Universe(tape) |-> PerStrategy(tape)[s]["total"]]
<1>1. Ledger(tape) /\ MarksTyped
  BY TapeIsLedger DEF BookTyped
<1>2. PositionsReply(tape).total = whole /\ PnlReply(tape).total = whole
  BY <1>1, ReplyIsTotals DEF PositionsReply
<1>3. SumOf([v \in DOMAIN ByVenue(tape) |-> ByVenue(tape)[v].pnl]) + Accrued(tape) = whole
  BY <1>1, VenuesAddUp
<1>4. \A s : Totals(Part(tape, s)).total \in Int
  BY <1>1, PartLines, TotalsSplit
<1>5. IsFiniteSet(StampedIds(tape)) /\ IsFiniteSet(Universe(tape)) /\ StampedIds(tape) \subseteq Universe(tape)
  BY <1>1, IdsAreFinite DEF Universe
<1>6. ASSUME ~SharedUnmarked
      PROVE  SumOf(stamped) = whole /\ Overall(tape).total = whole
  <2>1. \A leg \in Held(tape) : Separable(tape, leg)
    BY <1>6, SeparableLegs
  <2>2. \A s \in StampedIds(tape) : stamped[s] = Totals(Part(tape, s)).total
    BY DEF ByStrategy
  <2>3. \A s \in Universe(tape) : parts[s] = Totals(Part(tape, s)).total
    BY DEF PerStrategy, Metrics
  <2>4. DOMAIN stamped = StampedIds(tape) /\ DOMAIN parts = Universe(tape)
    OBVIOUS
  <2>5. Overall(tape).total = SumOf(parts)
    BY DEF Overall
  <2> HIDE DEF stamped, parts
  <2>6. SumOf(stamped) = Total(stamped, StampedIds(tape)) /\ SumOf(parts) = Total(parts, Universe(tape))
    BY <1>4, <1>5, <2>2, <2>3, <2>4, SumOfTerms
  <2>7. Total(stamped, StampedIds(tape)) = Totals(tape).total /\ Total(parts, Universe(tape)) = Totals(tape).total
    BY <1>1, <1>5, <2>1, <2>2, <2>3, PartsAddUp
  <2> QED BY <2>5, <2>6, <2>7
<1>7. ASSUME NEW s \in StampedIds(tape), \A t \in StampedIds(tape) : <<s, t>> \notin PartOf
      PROVE  PnlReply(Filtered(tape, s)) = ByStrategy(tape)[s]
  <2>1. Filtered(tape, s) = Part(tape, s)
    <3>1. \A i \in DOMAIN tape : <<s, tape[i].strategy>> \notin PartOf
      BY <1>7 DEF StampedIds
    <3>2. {i \in DOMAIN tape : tape[i].strategy = s \/ <<s, tape[i].strategy>> \in PartOf}
              = {i \in DOMAIN tape : tape[i].strategy = s}
      BY <3>1
    <3> QED BY <3>2 DEF Filtered, Part
  <2>2. PnlReply(Part(tape, s)) = Totals(Part(tape, s))
    BY <1>1, PartLines, ReplyIsTotals
  <2> QED BY <2>1, <2>2 DEF ByStrategy
<1> QED BY <1>2, <1>3, <1>6, <1>7 DEF ViewsAgree

-----------------------------------------------------------------------------
(* The exposure per coin.                                                  *)

\* With one USD price for a coin, every leg of the coin is valued at it.
LEMMA OnePricePerCoin ==
    ASSUME BookTyped, NEW coin, OneUsdMark(coin)
    PROVE  /\ UsdPrice(tape, coin) \in Int
           /\ \A leg \in CoinLegs(tape, coin) :
                 UsdValue(tape, leg) = UsdPrice(tape, coin) * Position(tape, leg).qty
<1> DEFINE legs == CoinLegs(tape, coin)
           all == {marks[leg] : leg \in legs}
           known == all \ {0}
           price == UsdPrice(tape, coin)
<1>1. Ledger(tape) /\ MarksTyped /\ Unit \in Int
  BY TapeIsLedger, BookAssumption DEF BookTyped
<1>2. legs \subseteq Held(tape) /\ Held(tape) \subseteq Legs /\ IsFiniteSet(Held(tape))
  BY <1>1, HeldLegs DEF CoinLegs
<1>3. \A leg \in legs : marks[leg] \in Nat /\ CoinOf[leg] = coin
  BY <1>1, <1>2 DEF MarksTyped, CoinLegs
<1>4. IsFiniteSet(known) /\ known \subseteq Int
  <2> DEFINE markOf == [leg \in legs |-> marks[leg]]
  <2>1. IsFiniteSet(legs)
    BY <1>2, FS_Subset
  <2>2. all = {markOf[leg] : leg \in legs}
    OBVIOUS
  <2>3. all \subseteq Int
    BY <1>3
  <2> HIDE DEF markOf, legs, all
  <2>4. IsFiniteSet(all)
    BY <2>1, <2>2, FiniteImage
  <2> QED BY <2>3, <2>4, FS_Subset
<1>5. price = IF known = {} THEN 0 ELSE Max(known)
  BY DEF UsdPrice
<1>6. price \in Int /\ known # {} => price \in known /\ \A m \in known : m <= price
  <2> HIDE DEF known, price
  <2> QED BY <1>4, <1>5, GreatestElement
<1>7. price \in Int
  <2> HIDE DEF known, price
  <2> QED BY <1>4, <1>5, GreatestElement
<1>8. ASSUME NEW leg \in legs, marks[leg] > Unit PROVE price = marks[leg]
  <2>1. \A other \in legs : marks[other] > Unit => marks[other] = marks[leg]
    BY <1>8 DEF OneUsdMark
  <2>2. \A m \in known : m > Unit => m = marks[leg]
    BY <2>1
  <2>3. CASE marks[leg] = 0
    <3>1. known = {}
      BY <1>1, <1>3, <1>8, <2>2, <2>3
    <3> QED BY <1>5, <2>3, <3>1
  <2>4. CASE marks[leg] # 0
    <3>1. marks[leg] \in known
      BY <2>4
    <3>2. PICK m \in Int : m = marks[leg] /\ m > Unit
      BY <1>3, <1>8
    <3> HIDE DEF known, price
    <3>3. price \in known /\ m <= price
      BY <1>6, <1>7, <3>1, <3>2
    <3>4. price > Unit
      BY <1>1, <1>7, <3>2, <3>3
    <3> QED BY <2>2, <3>3, <3>4
  <2> QED BY <2>3, <2>4
<1>9. ASSUME NEW leg \in legs
      PROVE  UsdValue(tape, leg) = price * Position(tape, leg).qty
  <2> DEFINE q == Position(tape, leg).qty
  <2>1. q \in Int
    BY <1>1, <1>2, LegValue DEF Pos
  <2>2. UsdValue(tape, leg) = IF marks[leg] > Unit THEN q * marks[leg] ELSE q * price
    BY <1>3 DEF UsdValue
  <2> HIDE DEF q, price, legs
  <2>3. UsdValue(tape, leg) = q * price
    BY <1>8, <2>2
  <2>4. q * price = price * q
    BY <1>7, <2>1
  <2> QED BY <2>3, <2>4 DEF q
<1> QED BY <1>7, <1>9

LEMMA HedgedIsFlat == ASSUME BookTyped PROVE HedgedCoinIsFlat
<1> SUFFICES ASSUME NEW coin, NetInCoin(tape, coin) = 0, OneUsdMark(coin)
             PROVE  DeltaPerCoin(tape, coin) = 0
  BY DEF HedgedCoinIsFlat
<1> DEFINE legs == CoinLegs(tape, coin)
           qty == [leg \in legs |-> Position(tape, leg).qty]
           usd == [leg \in legs |-> UsdValue(tape, leg)]
           price == UsdPrice(tape, coin)
<1>1. Ledger(tape) /\ MarksTyped
  BY TapeIsLedger DEF BookTyped
<1>2. IsFiniteSet(legs) /\ legs \subseteq Legs
  BY <1>1, HeldLegs, FS_Subset DEF CoinLegs
<1>3. \A leg \in legs : qty[leg] \in Int
  BY <1>1, <1>2, LegValue DEF Pos
<1>4. price \in Int /\ \A leg \in legs : usd[leg] = price * qty[leg]
  BY OnePricePerCoin
<1>5. NetInCoin(tape, coin) = SumOf(qty) /\ DeltaPerCoin(tape, coin) = SumOf(usd)
  BY DEF NetInCoin, DeltaPerCoin
<1>6. DOMAIN qty = legs /\ DOMAIN usd = legs
  OBVIOUS
<1> HIDE DEF legs, qty, usd, price
<1>7. \A leg \in legs : usd[leg] \in Int
  BY <1>3, <1>4
<1>8. SumOf(qty) = Total(qty, legs) /\ SumOf(usd) = Total(usd, legs)
  BY <1>2, <1>3, <1>6, <1>7, SumOfTerms
<1>9. Total(usd, legs) = price * Total(qty, legs)
  BY <1>2, <1>3, <1>4, TotalScaled
<1> QED BY <1>4, <1>5, <1>8, <1>9

-----------------------------------------------------------------------------
(* The high-water marks.                                                   *)

\* The highest of what the series showed up to line n and of what was
\* carried in.
Seen(series, prior, n) == {prior} \cup {series[j] : j \in 1 .. n}

LEMMA Peaks ==
    ASSUME NEW series \in Seq(Int), NEW prior \in Int
    PROVE  \E peak \in [0 .. Len(series) -> Int] :
              /\ peak[0] = prior
              /\ \A i \in 1 .. Len(series) : peak[i] = Advanced(peak[i - 1], series[i])
              /\ HwmRows(series, prior) =
                    [i \in 1 .. Len(series) |->
                        [nav |-> series[i], prior |-> peak[i - 1],
                         delta |-> Higher(0, series[i] - peak[i - 1])]]
<1> DEFINE N == Len(series)
           Steps(h) == h = [n \in 0 .. N |-> IF n = 0 THEN prior ELSE Advanced(h[n - 1], series[n])]
           g == [n \in 1 .. N |-> [p \in Int |-> Advanced(p, series[n])]]
           c == CHOOSE h : Steps(h)
<1>1. N \in Nat /\ \A n \in 1 .. N : series[n] \in Int
  OBVIOUS
<1>2. \A n \in 1 .. N : \A p \in Int : Advanced(p, series[n]) \in Int
  BY <1>1 DEF Advanced, Higher
<1>3. g \in [1 .. N -> [Int -> Int]]
  BY <1>2
<1>4. \A n \in 1 .. N : \A p \in Int : g[n][p] = Advanced(p, series[n])
  OBVIOUS
<1>5. \A n \in 0 .. N : n # 0 => n \in 1 .. N /\ n - 1 \in 0 .. N
  BY <1>1
<1>6. PICK h \in [0 .. N -> Int] : Iterates(h, g, prior, N)
  <2> HIDE DEF N, g
  <2> QED BY <1>1, <1>3, IterationExists
<1>7. Steps(h)
  <2>1. h = [n \in 0 .. N |-> IF n = 0 THEN prior ELSE g[n][h[n - 1]]]
    BY <1>6 DEF Iterates
  <2> HIDE DEF N, g
  <2>2. \A n \in 0 .. N : n # 0 => g[n][h[n - 1]] = Advanced(h[n - 1], series[n])
    BY <1>4, <1>5
  <2> QED BY <2>1, <2>2
<1>8. Steps(c)
  BY <1>7
<1>9. \A n \in 0 .. N : n # 0 => h[n] = Advanced(h[n - 1], series[n]) /\ c[n] = Advanced(c[n - 1], series[n])
  <2> HIDE DEF N, c
  <2> QED BY <1>7, <1>8
<1>10. h[0] = prior /\ c[0] = prior
  <2> HIDE DEF c
  <2> QED BY <1>1, <1>7, <1>8
<1>11. HwmRows(series, prior) =
          [i \in 1 .. N |->
              [nav |-> series[i], prior |-> c[i - 1], delta |-> Higher(0, series[i] - c[i - 1])]]
  BY DEF HwmRows
<1> HIDE DEF c
<1>12. \A n \in 0 .. N : c[n] = h[n]
  <2> DEFINE K == {n \in Nat : n <= N => c[n] = h[n]}
  <2>1. 0 \in K
    BY <1>10
  <2>2. \A n \in Nat : n \in K => n + 1 \in K
    <3> HIDE DEF N
    <3> SUFFICES ASSUME NEW n \in Nat, n \in K, n + 1 <= N PROVE c[n + 1] = h[n + 1]
      OBVIOUS
    <3>1. n + 1 \in 0 .. N /\ n + 1 # 0 /\ (n + 1) - 1 = n /\ c[n] = h[n]
      BY <1>1
    <3> QED BY <1>9, <3>1
  <2> HIDE DEF K
  <2>3. \A n \in Nat : n \in K
    BY <2>1, <2>2, NatSetInduction
  <2> QED BY <1>1, <2>3 DEF K
<1> HIDE DEF g
<1>13. \A i \in 1 .. N : i \in 0 .. N /\ i # 0 /\ i - 1 \in 0 .. N
  BY <1>1
<1>14. HwmRows(series, prior) =
          [i \in 1 .. N |->
              [nav |-> series[i], prior |-> h[i - 1], delta |-> Higher(0, series[i] - h[i - 1])]]
  <2> HIDE DEF N
  <2> QED BY <1>11, <1>12, <1>13
<1> QED BY <1>6, <1>9, <1>10, <1>13, <1>14

LEMMA PeakIsHighest ==
    ASSUME NEW series \in Seq(Int), NEW prior \in Int,
           NEW peak \in [0 .. Len(series) -> Int], peak[0] = prior,
           \A i \in 1 .. Len(series) : peak[i] = Advanced(peak[i - 1], series[i])
    PROVE  \A n \in 0 .. Len(series) : peak[n] = Max(Seen(series, prior, n))
<1> DEFINE N == Len(series)
           IsTop(n) == peak[n] \in Seen(series, prior, n) /\ \A x \in Seen(series, prior, n) : x <= peak[n]
           K == {n \in Nat : n <= N => IsTop(n)}
<1>1. N \in Nat /\ \A n \in 1 .. N : series[n] \in Int
  OBVIOUS
<1>2. 0 \in K
  BY DEF Seen
<1>3. \A n \in Nat : n \in K => n + 1 \in K
  <2> SUFFICES ASSUME NEW n \in Nat, IsTop(n), n + 1 <= N PROVE IsTop(n + 1)
    OBVIOUS
  <2>1. n + 1 \in 1 .. N /\ (n + 1) - 1 = n /\ n \in 0 .. N
    BY <1>1
  <2>2. PICK p \in Int, x \in Int : p = peak[n] /\ x = series[n + 1]
    BY <1>1, <2>1
  <2>3. peak[n + 1] = IF p > x THEN p ELSE x
    BY <2>1, <2>2 DEF Advanced, Higher
  <2>4. Seen(series, prior, n + 1) = Seen(series, prior, n) \cup {x}
    <3>1. 1 .. (n + 1) = (1 .. n) \cup {n + 1}
      OBVIOUS
    <3> HIDE DEF N
    <3> QED BY <2>2, <3>1 DEF Seen
  <2>5. Seen(series, prior, n) \subseteq Int
    BY <1>1, <2>1 DEF Seen
  <2> DEFINE S == Seen(series, prior, n)
  <2>6. p \in S /\ S \subseteq Int /\ \A y \in S : y <= p
    BY <2>2, <2>5
  <2>7. peak[n + 1] \in S \cup {x} /\ \A y \in S \cup {x} : y <= peak[n + 1]
    <3> HIDE DEF S
    <3> QED BY <2>3, <2>6
  <2> QED BY <2>4, <2>7
<1> HIDE DEF IsTop
<1>4. \A n \in Nat : n \in K
  <2> HIDE DEF K
  <2> QED BY <1>2, <1>3, NatSetInduction
<1>5. ASSUME NEW n \in 0 .. N PROVE peak[n] = Max(Seen(series, prior, n))
  <2> DEFINE S == Seen(series, prior, n)
  <2>1. n \in Nat /\ n <= N
    BY <1>1
  <2>2. peak[n] \in S /\ \A x \in S : x <= peak[n]
    BY <1>4, <2>1 DEF IsTop
  <2>3. S \subseteq Int
    BY <1>1, <2>1 DEF Seen
  <2>4. IsFiniteSet(S)
    <3>1. IsFiniteSet(1 .. n)
      BY <2>1, FS_Interval
    <3>2. IsFiniteSet({series[j] : j \in 1 .. n})
      BY <3>1, FiniteImage
    <3>3. IsFiniteSet({prior})
      BY FS_Singleton
    <3> QED BY <3>2, <3>3, FS_Union DEF Seen
  <2> HIDE DEF S
  <2>5. Max(S) \in S /\ \A y \in S : y <= Max(S)
    BY <2>2, <2>3, <2>4, GreatestElement
  <2>6. peak[n] <= Max(S) /\ Max(S) <= peak[n] /\ peak[n] \in Int /\ Max(S) \in Int
    BY <2>2, <2>3, <2>5
  <2> QED BY <2>6 DEF S
<1> QED BY <1>5

LEMMA NavIsTyped == ASSUME BookTyped PROVE NavSeries \in Seq(Int) /\ Len(NavSeries) = Len(tape)
<1> DEFINE nav(n) == Seed + Totals(Restrict(tape, 1 .. n)).total
<1>1. Len(tape) \in Nat /\ DOMAIN tape = 1 .. Len(tape) /\ Ledger(tape) /\ MarksTyped
  BY TapeIsLedger DEF BookTyped
<1>2. \A n \in 1 .. Len(tape) : nav(n) \in Int
  <2> SUFFICES ASSUME NEW n \in 1 .. Len(tape) PROVE nav(n) \in Int
    OBVIOUS
  <2>1. 1 .. n \in SUBSET DOMAIN tape
    BY <1>1
  <2>2. Ledger(Restrict(tape, 1 .. n))
    BY <1>1, <2>1, ChosenLines
  <2>3. Totals(Restrict(tape, 1 .. n)).total \in Int
    BY <1>1, <2>2, TotalsSplit
  <2> QED BY <2>3, BookAssumption
<1>3. NavSeries = [n \in 1 .. Len(tape) |-> nav(n)]
  BY DEF NavSeries
<1> HIDE DEF nav
<1> QED BY <1>1, <1>2, <1>3

LEMMA MarkIsPeak == ASSUME BookTyped PROVE MarkIsRunningPeak
<1> DEFINE series == NavSeries
           N == Len(series)
<1>1. series \in Seq(Int) /\ N \in Nat /\ \A i \in 1 .. N : series[i] \in Int
  BY NavIsTyped
<1> HIDE DEF series
<1>2. ASSUME NEW prior \in Int
      PROVE  /\ HwmAsserted(HwmRows(series, prior))
             /\ \A i \in DOMAIN HwmRows(series, prior) :
                   HwmRows(series, prior)[i].prior + HwmRows(series, prior)[i].delta
                       = Max(Seen(series, prior, i))
  <2> DEFINE rows == HwmRows(series, prior)
  <2>1. PICK peak \in [0 .. N -> Int] :
              /\ peak[0] = prior
              /\ \A i \in 1 .. N : peak[i] = Advanced(peak[i - 1], series[i])
              /\ rows = [i \in 1 .. N |->
                            [nav |-> series[i], prior |-> peak[i - 1],
                             delta |-> Higher(0, series[i] - peak[i - 1])]]
    BY <1>1, Peaks
  <2> HIDE DEF rows
  <2>2. DOMAIN rows = 1 .. N
    BY <2>1
  <2>3. ASSUME NEW i \in 1 .. N
        PROVE  /\ i \in 0 .. N
               /\ rows[i].delta = Higher(0, rows[i].nav - rows[i].prior)
               /\ rows[i].delta >= 0
               /\ rows[i].prior = peak[i - 1]
               /\ rows[i].prior + rows[i].delta = peak[i]
               /\ peak[i - 1] <= peak[i]
    <3>1. i \in 0 .. N /\ i - 1 \in 0 .. N
      BY <1>1
    <3>2. PICK p \in Int, x \in Int : p = peak[i - 1] /\ x = series[i]
      BY <1>1, <3>1
    <3>3. rows[i] = [nav |-> x, prior |-> p, delta |-> Higher(0, x - p)]
      BY <2>1, <3>2
    <3>4. peak[i] = Higher(p, x)
      BY <2>1, <3>2 DEF Advanced
    <3>5. Higher(0, x - p) >= 0 /\ p + Higher(0, x - p) = Higher(p, x) /\ p <= Higher(p, x)
      BY DEF Higher
    <3> QED BY <3>1, <3>2, <3>3, <3>4, <3>5
  <2>4. HwmAsserted(rows)
    <3> SUFFICES ASSUME NEW i \in 1 .. N
                 PROVE  /\ rows[i].delta >= 0
                        /\ rows[i].delta = Higher(0, rows[i].nav - rows[i].prior)
                        /\ i > 1 => rows[i].prior + rows[i].delta >= rows[i - 1].prior + rows[i - 1].delta
      BY <2>2 DEF HwmAsserted
    <3>1. i > 1 => i - 1 \in 1 .. N
      BY <1>1
    <3>2. i > 1 => peak[i] >= peak[i - 1] /\ rows[i - 1].prior + rows[i - 1].delta = peak[i - 1]
      <4>1. i \in 0 .. N /\ i - 1 \in 0 .. N
        BY <1>1
      <4>2. peak[i - 1] \in Int /\ peak[i] \in Int
        BY <2>1, <4>1
      <4>3. peak[i - 1] <= peak[i]
        BY <2>3
      <4>4. peak[i] >= peak[i - 1]
        BY <4>2, <4>3
      <4> QED BY <2>3, <3>1, <4>4
    <3> QED BY <2>3, <3>2
  <2>5. \A i \in 1 .. N : rows[i].prior + rows[i].delta = Max(Seen(series, prior, i))
    <3>1. \A n \in 0 .. N : peak[n] = Max(Seen(series, prior, n))
      BY <1>1, <2>1, PeakIsHighest
    <3> QED BY <2>3, <3>1
  <2> QED BY <2>2, <2>4, <2>5 DEF rows
<1>3. {Seed - Unit, Seed, Seed + Unit} \subseteq Int
  BY BookAssumption
<1> QED BY <1>2, <1>3 DEF MarkIsRunningPeak, Seen, series

-----------------------------------------------------------------------------
(* The rerun.                                                              *)

\* A fill of the rerun is the fill of its line, but for price and size.
RerunTyped ==
    \/ NoRerun
    \/ /\ batch = [i \in DOMAIN batch |-> batch[i]]
       /\ DOMAIN batch \subseteq 1 .. LastLine
       /\ \A i \in DOMAIN batch : batch[i] \in TradeRow
       /\ \A i \in DOMAIN batch \cap TradeLines(tape) :
             batch[i].strategy = tape[i].strategy /\ batch[i].leg = tape[i].leg

BookInv == BookTyped /\ RerunTyped

LEMMA TradesAreTape ==
    ASSUME BookTyped
    PROVE  /\ Trades(tape) = [i \in TradeLines(tape) |-> tape[i]]
           /\ DOMAIN Trades(tape) = TradeLines(tape)
           /\ \A i \in TradeLines(tape) : Trades(tape)[i] = tape[i] /\ tape[i] \in TradeRow
           /\ TradeLines(tape) \subseteq 1 .. MaxTape /\ MaxTape \in Nat
<1>1. Ledger(tape) /\ MaxTape \in Nat
  BY TapeIsLedger, BookAssumption
<1>2. \A i \in TradeLines(tape) : tape[i] \in TradeRow
  BY <1>1, HeldLegs
<1>3. Trades(tape) = [i \in TradeLines(tape) |-> tape[i]]
  BY DEF Trades, Restrict
<1>4. TradeLines(tape) \subseteq 1 .. MaxTape
  BY <1>1 DEF BookTyped, TradeLines
<1> QED BY <1>1, <1>2, <1>3, <1>4

LEMMA VerdictIsSame ==
    ASSUME BookInv, ~NoRerun, PricesKnown
    PROVE  Deterministic(tape, batch) <=> batch = Trades(tape)
<1> DEFINE lines == TradeLines(tape)
           fills == Trades(tape)
<1>1. /\ fills = [i \in lines |-> tape[i]] /\ \A i \in lines : tape[i] \in TradeRow
      /\ DOMAIN fills = lines /\ \A i \in lines : fills[i] = tape[i]
  BY TradesAreTape DEF BookInv
<1>2. /\ batch = [i \in DOMAIN batch |-> batch[i]]
      /\ \A i \in DOMAIN batch : batch[i] \in TradeRow
      /\ \A i \in DOMAIN batch \cap lines :
            batch[i].strategy = tape[i].strategy /\ batch[i].leg = tape[i].leg
  BY DEF BookInv, RerunTyped
<1>3. TradeLines(batch) = DOMAIN batch
  BY <1>2 DEF TradeLines, TradeRow
<1>4. ASSUME Deterministic(tape, batch) PROVE batch = fills
  <2>1. DOMAIN batch = lines
    <3>1. Unmatched(tape, batch) = {}
      BY <1>4 DEF Deterministic
    <3> QED BY <1>3, <3>1 DEF Unmatched
  <2>2. ASSUME NEW i \in lines PROVE batch[i] = tape[i]
    <3>1. ~Deviates(tape[i], batch[i]) /\ tape[i].price # 0
      BY <1>3, <1>4, <2>1 DEF Deterministic, PricesKnown
    <3>2. PICK p \in TradeRow, b \in TradeRow : p = tape[i] /\ b = batch[i]
      BY <1>1, <1>2, <2>1
    <3>3. b.delta = p.delta /\ AbsQty(b.price - p.price) = 0
      BY <3>1, <3>2 DEF Deviates, PriceDrift
    <3>4. b.price \in Int /\ p.price \in Int
      BY DEF TradeRow
    <3>5. b.price = p.price
      BY <3>3, <3>4 DEF AbsQty
    <3>6. b.strategy = p.strategy /\ b.leg = p.leg
      BY <1>2, <2>1, <3>2
    <3>7. b = p
      BY <3>3, <3>5, <3>6 DEF TradeRow
    <3> QED BY <3>2, <3>7
  <2> HIDE DEF lines, fills
  <2> QED BY <1>1, <1>2, <2>1, <2>2
<1>5. ASSUME batch = fills PROVE Deterministic(tape, batch)
  <2>1. TradeLines(batch) = lines
    BY <1>1, <1>3, <1>5
  <2>2. Unmatched(tape, batch) = {}
    BY <2>1 DEF Unmatched
  <2>3. ASSUME NEW i \in lines PROVE ~Deviates(tape[i], batch[i])
    <3>1. batch[i] = tape[i] /\ tape[i].price \in Int
      BY <1>1, <1>5 DEF TradeRow
    <3>2. AbsQty(tape[i].price - tape[i].price) = 0
      BY <3>1 DEF AbsQty
    <3> QED BY <3>1, <3>2 DEF Deviates, PriceDrift
  <2> QED BY <2>1, <2>2, <2>3 DEF Deterministic
<1> QED BY <1>4, <1>5

LEMMA RerunValue ==
    ASSUME BookTyped, batch = Trades(tape)
    PROVE  PaperMinusBatch = UnrealizedTotal(tape) + Accrued(tape)
<1> DEFINE lines == TradeLines(tape)
<1>1. Ledger(tape) /\ MarksTyped /\ lines \in SUBSET DOMAIN tape
  BY TapeIsLedger DEF BookTyped, TradeLines
<1>2. batch = Restrict(tape, lines)
  BY TapeIsLedger
<1>3. /\ Ledger(batch) /\ DOMAIN batch = lines /\ TradeLines(batch) = lines
      /\ \A i \in lines : batch[i] = tape[i]
      /\ \A leg : LegLines(batch, leg) = LegLines(tape, leg)
  <2> HIDE DEF lines
  <2>1. /\ Ledger(batch) /\ DOMAIN batch = lines /\ TradeLines(batch) = TradeLines(tape) \cap lines
        /\ \A i \in lines : batch[i] = tape[i]
        /\ \A leg : LegLines(batch, leg) = LegLines(tape, leg) \cap lines
    BY <1>1, <1>2, ChosenLines
  <2>2. \A leg : LegLines(tape, leg) \subseteq lines
    BY DEF LegLines, lines
  <2> QED BY <2>1, <2>2 DEF lines
<1>4. Held(batch) = Held(tape)
  BY <1>3 DEF Held
<1>5. \A leg : Position(batch, leg) = Position(tape, leg)
  <2> SUFFICES ASSUME NEW leg PROVE Position(batch, leg) = Position(tape, leg)
    OBVIOUS
  <2>1. \A i \in LegLines(tape, leg) : batch[i].delta = tape[i].delta /\ batch[i].price = tape[i].price
    BY <1>3 DEF LegLines
  <2> QED BY <1>1, <1>3, <2>1, PositionSame
<1>6. LegRealized(batch) = LegRealized(tape)
  BY <1>4, <1>5 DEF LegRealized
<1>7. /\ LegRealized(tape) \in Int /\ Accrued(tape) \in Int /\ UnrealizedTotal(tape) \in Int
      /\ Totals(tape).total = LegRealized(tape) + Accrued(tape) + UnrealizedTotal(tape)
  BY <1>1, TotalsSplit
<1> QED BY <1>6, <1>7 DEF PaperMinusBatch, BatchTotal

LEMMA ExactVerdict == ASSUME BookInv PROVE VerdictIsExact
BY VerdictIsSame DEF BookInv, VerdictIsExact

-----------------------------------------------------------------------------
(* Every state is of these types.                                          *)

LEMMA InitBookInv == BookInit => BookInv
<1> SUFFICES ASSUME BookInit PROVE BookInv
  OBVIOUS
<1>1. tape = <<>> /\ NoRerun
  BY DEF BookInit, NoRerun
<1>2. tape \in Seq(TradeRow \cup PassiveRow) /\ Len(tape) <= MaxTape
  BY <1>1, BookAssumption
<1>3. MarksTyped
  <2>1. PICK f \in [Legs -> UNION {MarksOf[leg] : leg \in Legs}] :
           marks = f /\ \A leg \in Legs : f[leg] \in MarksOf[leg]
    BY DEF BookInit
  <2>2. \A leg \in Legs : f[leg] \in Nat
    BY <2>1, BookAssumption
  <2> QED BY <2>1, <2>2 DEF MarksTyped
<1> QED BY <1>1, <1>2, <1>3 DEF BookInv, BookTyped, RerunTyped

LEMMA StepBookInv == BookInv /\ [BookNext]_bookVars => BookInv'
<1> SUFFICES ASSUME BookInv, [BookNext]_bookVars PROVE BookInv'
  OBVIOUS
<1> DEFINE R == TradeRow \cup PassiveRow
<1>1. tape \in Seq(R) /\ Len(tape) <= MaxTape /\ MaxTape \in Nat /\ MarksTyped
  BY BookAssumption DEF BookInv, BookTyped
<1>2. ASSUME NEW row \in R, tape' = Append(tape, row), Len(tape) < MaxTape,
             UNCHANGED <<marks, batch>>, NoRerun
      PROVE  BookInv'
  <2> HIDE DEF R
  <2>1. tape' \in Seq(R) /\ Len(tape') <= MaxTape
    BY <1>1, <1>2
  <2>2. MarksTyped' /\ NoRerun'
    BY <1>1, <1>2 DEF MarksTyped, NoRerun
  <2> QED BY <2>1, <2>2 DEF BookInv, BookTyped, RerunTyped, R
<1>3. CASE Fill
  <2>1. PICK s \in Strategies, leg \in Legs, q \in Deltas : \E price \in PricesOf[leg] :
           tape' = Append(tape, [kind |-> "trade", strategy |-> s, leg |-> leg,
                                 delta |-> q, price |-> price])
    BY <1>3 DEF Fill
  <2>2. PICK price \in PricesOf[leg] :
           tape' = Append(tape, [kind |-> "trade", strategy |-> s, leg |-> leg,
                                 delta |-> q, price |-> price])
    BY <2>1
  <2>3. q \in Int /\ price \in Int
    BY BookAssumption
  <2> DEFINE row == [kind |-> "trade", strategy |-> s, leg |-> leg, delta |-> q, price |-> price]
  <2>4. row \in R
    BY <2>3 DEF TradeRow
  <2>5. tape' = Append(tape, row) /\ Len(tape) < MaxTape /\ NoRerun /\ UNCHANGED <<marks, batch>>
    BY <1>3, <2>2 DEF Fill
  <2> HIDE DEF row, R
  <2> QED BY <1>2, <2>4, <2>5
<1>4. CASE Accrue
  <2>1. PICK s \in Strategies, a \in Accruals :
           tape' = Append(tape, [kind |-> "passive", strategy |-> s, leg |-> "cash",
                                 delta |-> a, price |-> 0])
    BY <1>4 DEF Accrue
  <2>2. a \in Int
    BY BookAssumption
  <2> DEFINE row == [kind |-> "passive", strategy |-> s, leg |-> "cash", delta |-> a, price |-> 0]
  <2>3. row \in R
    BY <2>2 DEF PassiveRow
  <2>4. tape' = Append(tape, row) /\ Len(tape) < MaxTape /\ NoRerun /\ UNCHANGED <<marks, batch>>
    BY <1>4, <2>1 DEF Accrue
  <2> HIDE DEF row, R
  <2> QED BY <1>2, <2>3, <2>4
<1>5. CASE Rerun
  <2> DEFINE lines == TradeLines(tape)
             fills == Trades(tape)
  <2>0. tape' = tape /\ marks' = marks
    BY <1>5 DEF Rerun
  <2>1. BookTyped' /\ TradeLines(tape)' = TradeLines(tape)
    BY <2>0 DEF BookInv, BookTyped, MarksTyped, TradeLines
  <2>2. /\ fills = [i \in lines |-> tape[i]] /\ DOMAIN fills = lines
        /\ \A i \in lines : fills[i] = tape[i] /\ fills[i] \in TradeRow
        /\ lines \subseteq 1 .. MaxTape
    BY TradesAreTape DEF BookInv
  <2>3. LastLine \in 1 .. LastLine /\ lines \subseteq 1 .. LastLine /\ LastLine \notin lines
    BY <1>1, <2>2 DEF LastLine
  <2>4. PICK new : new = batch'
    OBVIOUS
  <2>5. PICK i \in DOMAIN fills :
           new \in {fills, Restrict(fills, DOMAIN fills \ {i}),
                       [n \in DOMAIN fills \cup {LastLine} |-> fills[IF n = LastLine THEN i ELSE n]],
                       [fills EXCEPT ![i].delta = -@]}
                      \cup {[fills EXCEPT ![i].price = p] : p \in PricesOf[fills[i].leg]}
    BY <1>5, <2>4 DEF Rerun, fills
  <2> HIDE DEF lines, fills
  <2> DEFINE Kept(b) == /\ b = [n \in DOMAIN b |-> b[n]]
                        /\ DOMAIN b \subseteq 1 .. LastLine
                        /\ \A n \in DOMAIN b : b[n] \in TradeRow
                        /\ \A n \in DOMAIN b \cap lines :
                              b[n].strategy = tape[n].strategy /\ b[n].leg = tape[n].leg
  <2> SUFFICES Kept(new)
    <3>1. ASSUME Kept(new) PROVE BookInv'
      <4>1. RerunTyped'
        BY <2>0, <2>1, <2>4, <3>1 DEF RerunTyped, lines
      <4> QED BY <2>1, <4>1 DEF BookInv
    <3> QED BY <3>1
  <2>6. i \in lines /\ fills[i] \in TradeRow
    BY <2>2
  <2>7. PICK row \in TradeRow : row = fills[i]
    BY <2>6
  <2>8. /\ row.delta \in Int /\ row.strategy \in Strategies /\ row.leg \in Legs /\ row.kind = "trade"
        /\ row.price \in Int
    BY DEF TradeRow
  <2>9. ASSUME NEW other \in TradeRow, other.strategy = row.strategy, other.leg = row.leg,
               NEW b, b = [fills EXCEPT ![i] = other]
        PROVE  Kept(b)
    <3>1. b = [n \in lines |-> IF n = i THEN other ELSE fills[n]]
      BY <2>2, <2>9
    <3>2. DOMAIN b = lines /\ b[i] = other /\ \A n \in lines \ {i} : b[n] = fills[n]
      BY <2>6, <3>1
    <3>3. b = [n \in DOMAIN b |-> b[n]]
      BY <3>1, <3>2
    <3>4. \A n \in lines : b[n] \in TradeRow
      BY <2>2, <3>2
    <3>5. row.strategy = tape[i].strategy /\ row.leg = tape[i].leg
      BY <2>2, <2>6, <2>7
    <3>6. \A n \in lines : b[n].strategy = tape[n].strategy /\ b[n].leg = tape[n].leg
      BY <2>2, <2>9, <3>2, <3>5
    <3> HIDE DEF Kept
    <3> QED BY <2>3, <3>2, <3>3, <3>4, <3>6 DEF Kept
  <2>10. CASE new = fills
    <3>1. fills = [n \in DOMAIN fills |-> fills[n]]
      BY <2>2
    <3>2. Kept(fills)
      BY <2>2, <2>3, <3>1
    <3> QED BY <2>10, <3>2
  <2>11. CASE new = Restrict(fills, DOMAIN fills \ {i})
    <3> DEFINE b == Restrict(fills, DOMAIN fills \ {i})
    <3>1. b = [n \in lines \ {i} |-> fills[n]]
      BY <2>2 DEF Restrict
    <3> HIDE DEF b
    <3>2. DOMAIN b = lines \ {i} /\ \A n \in lines \ {i} : b[n] = fills[n]
      BY <3>1
    <3>3. b = [n \in DOMAIN b |-> b[n]]
      BY <3>1, <3>2
    <3>4. Kept(b)
      BY <2>2, <2>3, <3>2, <3>3
    <3> QED BY <2>11, <3>4 DEF b
  <2>12. CASE new = [n \in DOMAIN fills \cup {LastLine} |-> fills[IF n = LastLine THEN i ELSE n]]
    <3> DEFINE b == [n \in DOMAIN fills \cup {LastLine} |-> fills[IF n = LastLine THEN i ELSE n]]
    <3>1. DOMAIN b = lines \cup {LastLine} /\ b[LastLine] = fills[i] /\ \A n \in lines : b[n] = fills[n]
      BY <2>2, <2>3
    <3>2. b = [n \in DOMAIN b |-> b[n]]
      OBVIOUS
    <3> HIDE DEF b
    <3>3. \A n \in DOMAIN b : b[n] \in TradeRow
      BY <2>2, <2>6, <3>1
    <3>4. Kept(b)
      BY <2>2, <2>3, <3>1, <3>2, <3>3
    <3> QED BY <2>12, <3>4 DEF b
  <2>13. CASE new = [fills EXCEPT ![i].delta = -@]
    <3> DEFINE other == [kind |-> "trade", strategy |-> row.strategy, leg |-> row.leg,
                         delta |-> -row.delta, price |-> row.price]
    <3>1. [row EXCEPT !.delta = -@] = other
      BY <2>8 DEF TradeRow
    <3>2. other \in TradeRow /\ other.strategy = row.strategy /\ other.leg = row.leg
      BY <2>8 DEF TradeRow
    <3>3. new = [fills EXCEPT ![i] = [row EXCEPT !.delta = -@]]
      BY <2>7, <2>13
    <3> HIDE DEF other
    <3>4. new = [fills EXCEPT ![i] = other]
      BY <3>1, <3>3
    <3> HIDE DEF Kept
    <3> QED BY <2>9, <3>2, <3>4
  <2>14. ASSUME NEW p \in PricesOf[fills[i].leg], new = [fills EXCEPT ![i].price = p]
         PROVE  Kept(new)
    <3> DEFINE other == [kind |-> "trade", strategy |-> row.strategy, leg |-> row.leg,
                         delta |-> row.delta, price |-> p]
    <3>0. p \in Int
      BY <2>7, <2>8, BookAssumption
    <3>1. [row EXCEPT !.price = p] = other
      BY <2>8 DEF TradeRow
    <3>2. other \in TradeRow /\ other.strategy = row.strategy /\ other.leg = row.leg
      BY <2>8, <3>0 DEF TradeRow
    <3>3. new = [fills EXCEPT ![i] = [row EXCEPT !.price = p]]
      BY <2>7, <2>14
    <3> HIDE DEF other
    <3>4. new = [fills EXCEPT ![i] = other]
      BY <3>1, <3>3
    <3> HIDE DEF Kept
    <3> QED BY <2>9, <3>2, <3>4
  <2> HIDE DEF Kept
  <2> QED BY <2>5, <2>10, <2>11, <2>12, <2>13, <2>14
<1>6. CASE UNCHANGED bookVars
  BY <1>6 DEF BookInv, BookTyped, RerunTyped, MarksTyped, NoRerun, TradeLines, bookVars
<1> QED BY <1>3, <1>4, <1>5, <1>6 DEF BookNext

LEMMA BookIsTyped == BookSpec => []BookInv
BY InitBookInv, StepBookInv, PTL DEF BookSpec

\* Every view of a run tells the same P&L (ViewsAgree).
THEOREM OnePnl == BookSpec => []ViewsAgree
<1>1. BookInv => ViewsAgree
  BY AllViewsAgree DEF BookInv
<1> QED BY <1>1, BookIsTyped, PTL

\* A book that is flat in a coin has no USD exposure in it (HedgedCoinIsFlat).
THEOREM HedgeIsFlat == BookSpec => []HedgedCoinIsFlat
<1>1. BookInv => HedgedCoinIsFlat
  BY HedgedIsFlat DEF BookInv
<1> QED BY <1>1, BookIsTyped, PTL

\* The high-water mark is the highest NAV seen (MarkIsRunningPeak).
THEOREM MarkIsHighest == BookSpec => []MarkIsRunningPeak
<1>1. BookInv => MarkIsRunningPeak
  BY MarkIsPeak DEF BookInv
<1> QED BY <1>1, BookIsTyped, PTL

\* A rerun is called deterministic exactly when it filled the same
\* instructions alike (VerdictIsExact).
THEOREM RerunRecognised == BookSpec => []VerdictIsExact
<1>1. BookInv => VerdictIsExact
  BY ExactVerdict
<1> QED BY <1>1, BookIsTyped, PTL

\* What backtest_surface shows as the difference of a rerun that filled all
\* alike is the open positions' unrealised P&L and the accruals, which
\* read_batch_total_pnl leaves out; it is not zero, as its note has it.
THEOREM RerunGap ==
    BookSpec => [](batch = Trades(tape) =>
                      PaperMinusBatch = UnrealizedTotal(tape) + Accrued(tape))
<1>1. BookInv /\ batch = Trades(tape) => PaperMinusBatch = UnrealizedTotal(tape) + Accrued(tape)
  BY RerunValue DEF BookInv
<1> QED BY <1>1, BookIsTyped, PTL

-----------------------------------------------------------------------------
(***************************************************************************)
(* CoinsExplainTotals for any clients and files of any length.  Every      *)
(* total of a client is the sum of the same terms by groups, over coins or *)
(* over months (TotalByGroup); what the merge of several clients sums by   *)
(* key and then by client is summed the other way round (TotalSwap).       *)
(***************************************************************************)

TradeTyped == bills \in [Traders -> Seq(BillRows)] /\ trades \in [Traders -> Seq(TradeRows)]

LEMMA FilesStayTyped == TradeSpec => []TradeTyped
<1>1. TradeInit => TradeTyped
  BY DEF TradeInit, TradeTyped
<1>2. TradeTyped /\ [TradeNext]_tradeVars => TradeTyped'
  <2> SUFFICES ASSUME TradeTyped, [TradeNext]_tradeVars PROVE TradeTyped'
    OBVIOUS
  <2>1. CASE Bill
    <3> PICK c \in Traders, row \in BillRows : bills' = [bills EXCEPT ![c] = Append(@, row)]
      BY <2>1 DEF Bill
    <3>1. Append(bills[c], row) \in Seq(BillRows)
      BY DEF TradeTyped
    <3>2. bills' \in [Traders -> Seq(BillRows)]
      BY <3>1 DEF TradeTyped
    <3> QED BY <2>1, <3>2 DEF Bill, TradeTyped
  <2>2. CASE AddTrade
    <3> PICK c \in Traders, row \in TradeRows : trades' = [trades EXCEPT ![c] = Append(@, row)]
      BY <2>2 DEF AddTrade
    <3>1. Append(trades[c], row) \in Seq(TradeRows)
      BY DEF TradeTyped
    <3>2. trades' \in [Traders -> Seq(TradeRows)]
      BY <3>1 DEF TradeTyped
    <3> QED BY <2>2, <3>2 DEF AddTrade, TradeTyped
  <2>3. CASE UNCHANGED tradeVars
    BY <2>3 DEF tradeVars, TradeTyped
  <2> QED BY <2>1, <2>2, <2>3 DEF TradeNext
<1> QED BY <1>1, <1>2, PTL DEF TradeSpec

-----------------------------------------------------------------------------
(* The bills of one client *)

Change(b) == [i \in DOMAIN b |-> b[i].change]

LEMMA ChangesTotal ==
    ASSUME NEW b \in Seq(BillRows), NEW I \in SUBSET DOMAIN b
    PROVE  /\ IsFiniteSet(I) /\ \A i \in I : Change(b)[i] \in Int
           /\ Changes(b, I) = Total(Change(b), I) /\ Changes(b, I) \in Int
<1>1. DOMAIN b = 1 .. Len(b) /\ Len(b) \in Nat /\ \A i \in DOMAIN b : b[i] \in BillRows
  OBVIOUS
<1>2. IsFiniteSet(I)
  <2>1. IsFiniteSet(1 .. Len(b))
    BY <1>1, FS_Interval
  <2> QED BY <1>1, <2>1, FS_Subset
<1>3. \A i \in I : Change(b)[i] = b[i].change /\ Change(b)[i] \in Int
  BY <1>1, TradeAssumption DEF Change
<1> DEFINE f == [i \in I |-> b[i].change]
<1>4. Changes(b, I) = SumOf(f) /\ DOMAIN f = I /\ \A i \in I : f[i] = b[i].change
  BY DEF Changes
<1> HIDE DEF f
<1>5. \A i \in I : f[i] \in Int /\ f[i] = Change(b)[i]
  BY <1>3, <1>4
<1>6. SumOf(f) = Total(Change(b), I)
  BY <1>2, <1>4, <1>5, SumOfTerms
<1> QED BY <1>2, <1>3, <1>4, <1>6, TotalType

LEMMA ChangesJoin ==
    ASSUME NEW b \in Seq(BillRows), NEW I \in SUBSET DOMAIN b, NEW J \in SUBSET DOMAIN b,
           I \cap J = {}
    PROVE  Changes(b, I \cup J) = Changes(b, I) + Changes(b, J)
<1>1. /\ IsFiniteSet(I) /\ Changes(b, I) = Total(Change(b), I)
      /\ IsFiniteSet(J) /\ Changes(b, J) = Total(Change(b), J)
      /\ I \cup J \in SUBSET DOMAIN b
  BY ChangesTotal
<1>2. /\ Changes(b, I \cup J) = Total(Change(b), I \cup J)
      /\ \A i \in I \cup J : Change(b)[i] \in Int
  BY <1>1, ChangesTotal
<1> QED BY <1>1, <1>2, TotalUnion

LEMMA CoinsAreFinite ==
    ASSUME NEW rows, NEW I, IsFiniteSet(I)
    PROVE  IsFiniteSet(CoinsIn(rows, I))
<1> DEFINE coin == [i \in I |-> rows[i].coin]
<1>1. CoinsIn(rows, I) = {coin[i] : i \in I}
  BY DEF CoinsIn
<1> HIDE DEF coin
<1> QED BY <1>1, FiniteImage

\* The bills of one kind, summed over any coins that include all of theirs.
LEMMA KindByCoin ==
    ASSUME NEW b \in Seq(BillRows), NEW kind, NEW G, IsFiniteSet(G),
           CoinsIn(b, BillLines(b, kind)) \subseteq G,
           NEW g, \A coin \in G : g[coin] = BillSum(b, coin, kind)
    PROVE  /\ Total(g, G) = Changes(b, BillLines(b, kind))
           /\ \A coin \in G : g[coin] \in Int
<1> DEFINE L == BillLines(b, kind)
           coinOf == [i \in L |-> b[i].coin]
<1>1. L \in SUBSET DOMAIN b
  BY DEF BillLines
<1>2. \A i \in L : coinOf[i] \in G
  BY DEF CoinsIn
<1>3. \A coin \in G : /\ Group(L, coinOf, coin) = {i \in L : b[i].coin = coin}
                      /\ Group(L, coinOf, coin) \in SUBSET DOMAIN b
  BY <1>1 DEF Group
<1>4. \A coin \in G : /\ g[coin] = Total(Change(b), Group(L, coinOf, coin))
                      /\ g[coin] \in Int
  <2> SUFFICES ASSUME NEW coin \in G
               PROVE  /\ g[coin] = Total(Change(b), Group(L, coinOf, coin))
                      /\ g[coin] \in Int
    OBVIOUS
  <2>1. g[coin] = Changes(b, Group(L, coinOf, coin))
    BY <1>3 DEF BillSum
  <2> QED BY <1>3, <2>1, ChangesTotal
<1>5. /\ IsFiniteSet(L) /\ \A i \in L : Change(b)[i] \in Int
      /\ Changes(b, L) = Total(Change(b), L)
  BY <1>1, ChangesTotal
<1> HIDE DEF L, coinOf
<1>6. Total(g, G) = Total(Change(b), L)
  BY <1>2, <1>4, <1>5, TotalByGroup
<1> QED BY <1>4, <1>5, <1>6 DEF L

LEMMA KindTotalIsWhole ==
    ASSUME NEW b \in Seq(BillRows), NEW kind
    PROVE  /\ KindTotal(b, kind) = Changes(b, BillLines(b, kind))
           /\ KindTotal(b, kind) \in Int
<1> DEFINE L == BillLines(b, kind)
           G == CoinsIn(b, L)
           g == [coin \in G |-> BillSum(b, coin, kind)]
<1>1. L \in SUBSET DOMAIN b
  BY DEF BillLines
<1>2. IsFiniteSet(G)
  BY <1>1, ChangesTotal, CoinsAreFinite
<1>3. KindTotal(b, kind) = SumOf(g) /\ DOMAIN g = G /\ \A coin \in G : g[coin] = BillSum(b, coin, kind)
  BY DEF KindTotal
<1> HIDE DEF g
<1>4. Total(g, G) = Changes(b, L) /\ \A coin \in G : g[coin] \in Int
  BY <1>2, <1>3, KindByCoin
<1>5. SumOf(g) = Total(g, G)
  BY <1>2, <1>3, <1>4, SumOfTerms
<1> QED BY <1>1, <1>3, <1>4, <1>5, ChangesTotal

\* The net over any coins that include all billed ones is the total.
LEMMA NetByCoin ==
    ASSUME NEW b \in Seq(BillRows), NEW G, IsFiniteSet(G),
           CoinsIn(b, Counted(b)) \subseteq G,
           NEW g, \A coin \in G : g[coin] = NetOf(b, coin)
    PROVE  /\ Total(g, G) = KindTotal(b, "realized") + KindTotal(b, "fee") + KindTotal(b, "funding")
           /\ \A coin \in G : g[coin] \in Int
<1> DEFINE Of(kind) == [coin \in G |-> BillSum(b, coin, kind)]
           r == Of("realized")
           f == Of("fee")
           u == Of("funding")
           rf == [coin \in G |-> r[coin] + f[coin]]
<1>1. ASSUME NEW kind \in {"realized", "fee", "funding"}
      PROVE  Total(Of(kind), G) = KindTotal(b, kind) /\ \A coin \in G : Of(kind)[coin] \in Int
  <2>1. CoinsIn(b, BillLines(b, kind)) \subseteq G
    BY DEF CoinsIn, Counted
  <2>2. \A coin \in G : Of(kind)[coin] = BillSum(b, coin, kind)
    OBVIOUS
  <2> HIDE DEF Of
  <2> QED BY <2>1, <2>2, KindByCoin, KindTotalIsWhole
<1>2. /\ Total(r, G) = KindTotal(b, "realized") /\ \A coin \in G : r[coin] \in Int
      /\ Total(f, G) = KindTotal(b, "fee") /\ \A coin \in G : f[coin] \in Int
      /\ Total(u, G) = KindTotal(b, "funding") /\ \A coin \in G : u[coin] \in Int
  BY <1>1
<1>3. \A coin \in G : rf[coin] = r[coin] + f[coin] /\ g[coin] = rf[coin] + u[coin]
  BY DEF NetOf
<1> HIDE DEF r, f, u, rf
<1>4. Total(rf, G) = Total(r, G) + Total(f, G) /\ \A coin \in G : rf[coin] \in Int
  BY <1>2, <1>3, TotalPlus
<1>5. Total(g, G) = Total(rf, G) + Total(u, G)
  BY <1>2, <1>3, <1>4, TotalPlus
<1> QED BY <1>2, <1>3, <1>4, <1>5

\* Every counted bill is of one kind.
LEMMA KindsAreCounted ==
    ASSUME NEW b \in Seq(BillRows)
    PROVE  Changes(b, Counted(b)) =
              KindTotal(b, "realized") + KindTotal(b, "fee") + KindTotal(b, "funding")
<1> DEFINE R == BillLines(b, "realized")
           F == BillLines(b, "fee")
           U == BillLines(b, "funding")
<1>1. /\ R \in SUBSET DOMAIN b /\ F \in SUBSET DOMAIN b /\ U \in SUBSET DOMAIN b
      /\ R \cap F = {} /\ (R \cup F) \cap U = {} /\ Counted(b) = (R \cup F) \cup U
  BY DEF BillLines, Counted
<1>2. /\ KindTotal(b, "realized") = Changes(b, R) /\ KindTotal(b, "fee") = Changes(b, F)
      /\ KindTotal(b, "funding") = Changes(b, U)
  BY KindTotalIsWhole
<1> HIDE DEF R, F, U
<1>4. Changes(b, R \cup F) = Changes(b, R) + Changes(b, F)
  BY <1>1, ChangesJoin
<1>5. Changes(b, (R \cup F) \cup U) = Changes(b, R \cup F) + Changes(b, U)
  <2>1. R \cup F \in SUBSET DOMAIN b
    BY <1>1
  <2> QED BY <1>1, <2>1, ChangesJoin
<1> QED BY <1>1, <1>2, <1>4, <1>5

\* The months hold the bills with a date.
LEMMA MonthsAddUp ==
    ASSUME NEW b \in Seq(BillRows)
    PROVE  /\ IsFiniteSet(DOMAIN Monthly(b)) /\ \A m \in DOMAIN Monthly(b) : Monthly(b)[m] \in Int
           /\ SumOf(Monthly(b)) = Changes(b, Dated(b))
<1> DEFINE D == Dated(b)
           month == [i \in D |-> b[i].month]
           g == Monthly(b)
<1>1. D \in SUBSET DOMAIN b
  BY DEF Dated
<1>2. /\ DOMAIN g = {month[i] : i \in D}
      /\ \A m \in DOMAIN g : g[m] = Changes(b, {i \in D : b[i].month = m})
  BY DEF Monthly
<1>3. \A m : {i \in D : b[i].month = m} = Group(D, month, m) /\ Group(D, month, m) \in SUBSET DOMAIN b
  BY <1>1 DEF Group
<1>4. IsFiniteSet(D) /\ \A i \in D : Change(b)[i] \in Int
  BY <1>1, ChangesTotal
<1> HIDE DEF D, month, g
<1>5. \A m \in DOMAIN g : g[m] = Total(Change(b), Group(D, month, m)) /\ g[m] \in Int
  <2> SUFFICES ASSUME NEW m \in DOMAIN g
               PROVE  g[m] = Total(Change(b), Group(D, month, m)) /\ g[m] \in Int
    OBVIOUS
  <2>1. g[m] = Changes(b, Group(D, month, m)) /\ Group(D, month, m) \in SUBSET DOMAIN b
    BY <1>2, <1>3
  <2> QED BY <2>1, ChangesTotal
<1>6. SumOf(g) = Total(Change(b), D)
  BY <1>2, <1>4, <1>5, GroupsAddUp
<1>7. Changes(b, D) = Total(Change(b), D)
  BY <1>1, ChangesTotal
<1>8. IsFiniteSet(DOMAIN g)
  BY <1>2, <1>4, FiniteImage
<1> QED BY <1>5, <1>6, <1>7, <1>8 DEF D, g

\* The bills in one set of lines and not in another make the difference.
LEMMA ChangesApart ==
    ASSUME NEW b \in Seq(BillRows), NEW I \in SUBSET DOMAIN b, NEW J \in SUBSET DOMAIN b
    PROVE  Changes(b, I) = Changes(b, J) + (Changes(b, I \ J) - Changes(b, J \ I))
<1>1. /\ I \cap J \in SUBSET DOMAIN b /\ I \ J \in SUBSET DOMAIN b /\ J \ I \in SUBSET DOMAIN b
      /\ (I \cap J) \cap (I \ J) = {} /\ (I \cap J) \cap (J \ I) = {}
  OBVIOUS
<1>2. Changes(b, (I \cap J) \cup (I \ J)) = Changes(b, I \cap J) + Changes(b, I \ J)
  BY <1>1, ChangesJoin
<1>3. Changes(b, (I \cap J) \cup (J \ I)) = Changes(b, I \cap J) + Changes(b, J \ I)
  BY <1>1, ChangesJoin
<1>4. (I \cap J) \cup (I \ J) = I /\ (I \cap J) \cup (J \ I) = J
  OBVIOUS
<1>5. Changes(b, I \cap J) \in Int /\ Changes(b, I \ J) \in Int /\ Changes(b, J \ I) \in Int
  BY <1>1, ChangesTotal
<1>6. /\ Changes(b, I) = Changes(b, I \cap J) + Changes(b, I \ J)
      /\ Changes(b, J) = Changes(b, I \cap J) + Changes(b, J \ I)
  BY <1>2, <1>3, <1>4, Zenon
<1> DEFINE p == Changes(b, I \cap J)
           q == Changes(b, I \ J)
           r == Changes(b, J \ I)
<1> HIDE DEF p, q, r
<1>7. p + q = (p + r) + (q - r)
  BY <1>5 DEF p, q, r
<1> QED BY <1>6, <1>7 DEF p, q, r

-----------------------------------------------------------------------------
(* The trades of one client *)

Cost(t) == [i \in DOMAIN t |-> t[i].cost]

LEMMA VolumeTotal ==
    ASSUME NEW t \in Seq(TradeRows), NEW I \in SUBSET DOMAIN t
    PROVE  /\ IsFiniteSet(I) /\ \A i \in I : Cost(t)[i] \in Int
           /\ Volume(t, I) = Total(Cost(t), I) /\ Volume(t, I) \in Int
<1>1. DOMAIN t = 1 .. Len(t) /\ Len(t) \in Nat /\ \A i \in DOMAIN t : t[i] \in TradeRows
  OBVIOUS
<1>2. IsFiniteSet(I)
  <2>1. IsFiniteSet(1 .. Len(t))
    BY <1>1, FS_Interval
  <2> QED BY <1>1, <2>1, FS_Subset
<1>3. \A i \in I : Cost(t)[i] = t[i].cost /\ Cost(t)[i] \in Int
  BY <1>1, TradeAssumption DEF Cost
<1> DEFINE f == [i \in I |-> t[i].cost]
<1>4. Volume(t, I) = SumOf(f) /\ DOMAIN f = I /\ \A i \in I : f[i] = t[i].cost
  BY DEF Volume
<1> HIDE DEF f
<1>5. \A i \in I : f[i] \in Int /\ f[i] = Cost(t)[i]
  BY <1>3, <1>4
<1>6. SumOf(f) = Total(Cost(t), I)
  BY <1>2, <1>4, <1>5, SumOfTerms
<1> QED BY <1>2, <1>3, <1>4, <1>6, TotalType

\* The volume over any coins that include all traded ones is the whole.
LEMMA VolumeByCoin ==
    ASSUME NEW t \in Seq(TradeRows), NEW G, IsFiniteSet(G), CoinsIn(t, DOMAIN t) \subseteq G,
           NEW g, \A coin \in G : g[coin] = Volume(t, CoinTrades(t, coin))
    PROVE  Total(g, G) = Volume(t, DOMAIN t) /\ \A coin \in G : g[coin] \in Int
<1> DEFINE L == DOMAIN t
           coinOf == [i \in L |-> t[i].coin]
<1>1. \A i \in L : coinOf[i] \in G
  BY DEF CoinsIn
<1>2. \A coin \in G : /\ Group(L, coinOf, coin) = CoinTrades(t, coin)
                      /\ Group(L, coinOf, coin) \in SUBSET L
  BY DEF Group, CoinTrades
<1>3. \A coin \in G : g[coin] = Total(Cost(t), Group(L, coinOf, coin)) /\ g[coin] \in Int
  <2> SUFFICES ASSUME NEW coin \in G
               PROVE  g[coin] = Total(Cost(t), Group(L, coinOf, coin)) /\ g[coin] \in Int
    OBVIOUS
  <2>1. g[coin] = Volume(t, Group(L, coinOf, coin))
    BY <1>2
  <2> QED BY <1>2, <2>1, VolumeTotal
<1>4. /\ IsFiniteSet(L) /\ \A i \in L : Cost(t)[i] \in Int
      /\ Volume(t, L) = Total(Cost(t), L)
  BY VolumeTotal
<1> HIDE DEF L, coinOf
<1>5. Total(g, G) = Total(Cost(t), L)
  BY <1>1, <1>3, <1>4, TotalByGroup
<1> QED BY <1>3, <1>4, <1>5 DEF L

LEMMA DaysAddUp ==
    ASSUME NEW t \in Seq(TradeRows)
    PROVE  /\ IsFiniteSet(DOMAIN DailyVolume(t))
           /\ \A d \in DOMAIN DailyVolume(t) : DailyVolume(t)[d] \in Int
           /\ SumOf(DailyVolume(t)) \in Int /\ Volume(t, Undated(t)) \in Int
           /\ Volume(t, DOMAIN t) = SumOf(DailyVolume(t)) + Volume(t, Undated(t))
<1> DEFINE L == DayTrades(t)
           U == Undated(t)
           day == [i \in L |-> t[i].day]
           g == DailyVolume(t)
<1>1. /\ DOMAIN g = {t[i].day : i \in L}
      /\ \A d \in DOMAIN g : g[d] = Volume(t, {i \in L : t[i].day = d})
      /\ \A i \in L : day[i] = t[i].day
  BY DEF DailyVolume
<1>2. /\ L \in SUBSET DOMAIN t /\ U \in SUBSET DOMAIN t
      /\ L \cap U = {} /\ DOMAIN t = L \cup U
  BY DEF DayTrades, Undated
<1> HIDE DEF L, U, day, g
<1>3. DOMAIN g = {day[i] : i \in L}
  BY <1>1
<1>4. \A d : {i \in L : t[i].day = d} = Group(L, day, d) /\ Group(L, day, d) \in SUBSET DOMAIN t
  BY <1>1, <1>2 DEF Group
<1>5. /\ IsFiniteSet(L) /\ \A i \in L : Cost(t)[i] \in Int
      /\ IsFiniteSet(U) /\ \A i \in U : Cost(t)[i] \in Int
      /\ Volume(t, U) = Total(Cost(t), U) /\ Volume(t, U) \in Int
      /\ Volume(t, L) = Total(Cost(t), L) /\ Volume(t, L) \in Int
  BY <1>2, VolumeTotal
<1>6. Volume(t, L \cup U) = Total(Cost(t), L \cup U)
  BY <1>2, VolumeTotal
<1>7. Total(Cost(t), L \cup U) = Total(Cost(t), L) + Total(Cost(t), U)
  BY <1>2, <1>5, TotalUnion
<1>8. \A d \in DOMAIN g : g[d] = Total(Cost(t), Group(L, day, d)) /\ g[d] \in Int
  <2> SUFFICES ASSUME NEW d \in DOMAIN g
               PROVE  g[d] = Total(Cost(t), Group(L, day, d)) /\ g[d] \in Int
    OBVIOUS
  <2>1. g[d] = Volume(t, Group(L, day, d)) /\ Group(L, day, d) \in SUBSET DOMAIN t
    BY <1>1, <1>4
  <2> QED BY <2>1, VolumeTotal
<1>9. SumOf(g) = Total(Cost(t), L)
  BY <1>3, <1>5, <1>8, GroupsAddUp
<1>10. IsFiniteSet(DOMAIN g)
  BY <1>3, <1>5, FiniteImage
<1>11. Volume(t, DOMAIN t) = SumOf(g) + Volume(t, U) /\ SumOf(g) \in Int
  BY <1>2, <1>5, <1>6, <1>7, <1>9
<1> QED BY <1>5, <1>8, <1>10, <1>11 DEF U, g

-----------------------------------------------------------------------------
(* One client and all *)

\* The figures a client's files give, as sums of functions of the coins.
Netted(b, t) == [k \in DOMAIN CoinTable(b, t) |-> CoinTable(b, t)[k].net]
Traded(b, t) == [k \in DOMAIN CoinTable(b, t) |-> CoinTable(b, t)[k].volume]

Left(b, t) == CoinsIn(b, Counted(b)) \ DOMAIN CoinTable(b, t)

LEMMA ClientAddsUp ==
    ASSUME NEW b \in Seq(BillRows), NEW t \in Seq(TradeRows)
    PROVE  /\ IsFiniteSet(DOMAIN CoinTable(b, t))
           /\ \A k \in DOMAIN CoinTable(b, t) : Netted(b, t)[k] \in Int /\ Traded(b, t)[k] \in Int
           /\ SumOf(Netted(b, t)) \in Int
           /\ SumOf([k \in Left(b, t) |-> NetOf(b, k)]) \in Int
           /\ TradeTotals(b, t).net = SumOf(Netted(b, t)) + SumOf([k \in Left(b, t) |-> NetOf(b, k)])
           /\ TradeTotals(b, t).volume = SumOf(Traded(b, t))
           /\ TradeTotals(b, t).volume = Volume(t, DOMAIN t)
           /\ TradeTotals(b, t).net = Changes(b, Counted(b))
<1> DEFINE D == DOMAIN CoinTable(b, t)
           O == Left(b, t)
           C == CoinsIn(t, DOMAIN t)
           netD == Netted(b, t)
           volD == Traded(b, t)
           netO == [k \in O |-> NetOf(b, k)]
           all == [k \in D \cup O |-> NetOf(b, k)]
           volC == [k \in C |-> Volume(t, CoinTrades(t, k))]
<1>1. D = CoinsIn(b, BillLines(b, "realized")) \cup C
  BY DEF CoinTable
<1>2. IsFiniteSet(D) /\ IsFiniteSet(O) /\ IsFiniteSet(C) /\ IsFiniteSet(D \cup O)
  <2>1. BillLines(b, "realized") \in SUBSET DOMAIN b /\ Counted(b) \in SUBSET DOMAIN b
    BY DEF BillLines, Counted
  <2>2. IsFiniteSet(BillLines(b, "realized")) /\ IsFiniteSet(Counted(b))
    BY <2>1, ChangesTotal
  <2>3. IsFiniteSet(DOMAIN t)
    BY VolumeTotal
  <2>4. /\ IsFiniteSet(CoinsIn(b, BillLines(b, "realized"))) /\ IsFiniteSet(CoinsIn(b, Counted(b)))
        /\ IsFiniteSet(C)
    BY <2>2, <2>3, CoinsAreFinite
  <2>5. IsFiniteSet(D)
    BY <1>1, <2>4, FS_Union
  <2>6. IsFiniteSet(O)
    BY <2>4, FS_Subset DEF Left
  <2> QED BY <2>4, <2>5, <2>6, FS_Union
<1>3. /\ DOMAIN netD = D /\ \A k \in D : netD[k] = NetOf(b, k)
      /\ DOMAIN volD = D /\ \A k \in D : volD[k] = Volume(t, CoinTrades(t, k))
  BY DEF Netted, Traded, CoinTable
<1>4. /\ DOMAIN netO = O /\ \A k \in O : netO[k] = NetOf(b, k)
      /\ \A k \in D \cup O : all[k] = NetOf(b, k)
      /\ DOMAIN volC = C /\ \A k \in C : volC[k] = Volume(t, CoinTrades(t, k))
  OBVIOUS
<1>5. /\ TradeTotals(b, t).net = KindTotal(b, "realized") + KindTotal(b, "fee") + KindTotal(b, "funding")
      /\ TradeTotals(b, t).volume = SumOf(volC)
  BY DEF TradeTotals
<1>6. /\ CoinsIn(b, Counted(b)) \subseteq D \cup O /\ D \cap O = {}
      /\ C \subseteq D
  BY <1>1 DEF Left
<1>7. SumOf([k \in Left(b, t) |-> NetOf(b, k)]) = SumOf(netO)
  OBVIOUS
<1> HIDE DEF D, O, C, netD, volD, netO, all, volC
<1>8. Total(all, D \cup O) = TradeTotals(b, t).net /\ \A k \in D \cup O : all[k] \in Int
  BY <1>2, <1>4, <1>5, <1>6, NetByCoin
<1>9. Total(all, D \cup O) = Total(all, D) + Total(all, O)
  BY <1>2, <1>6, <1>8, TotalUnion
<1>10. /\ \A k \in D : netD[k] \in Int /\ netD[k] = all[k]
       /\ \A k \in O : netO[k] \in Int /\ netO[k] = all[k]
  BY <1>3, <1>4, <1>8
<1>11. SumOf(netD) = Total(all, D) /\ SumOf(netO) = Total(all, O)
  BY <1>2, <1>3, <1>4, <1>10, SumOfTerms
<1>12. Total(all, D) \in Int /\ Total(all, O) \in Int
  BY <1>2, <1>8, TotalType
<1>13. Total(volD, D) = Volume(t, DOMAIN t) /\ \A k \in D : volD[k] \in Int
  <2>1. C \subseteq D /\ C = CoinsIn(t, DOMAIN t)
    BY <1>6 DEF C
  <2> QED BY <1>2, <1>3, <2>1, VolumeByCoin
<1>14. Total(volC, C) = Volume(t, DOMAIN t) /\ \A k \in C : volC[k] \in Int
  <2>1. C = CoinsIn(t, DOMAIN t)
    BY DEF C
  <2> QED BY <1>2, <1>4, <2>1, VolumeByCoin
<1>15. SumOf(volD) = Total(volD, D) /\ SumOf(volC) = Total(volC, C)
  BY <1>2, <1>3, <1>4, <1>13, <1>14, SumOfTerms
<1>16. TradeTotals(b, t).net = Changes(b, Counted(b))
  BY <1>5, KindsAreCounted
<1>17. /\ TradeTotals(b, t).net = SumOf(netD) + SumOf(netO)
       /\ SumOf(netD) \in Int /\ SumOf(netO) \in Int
       /\ TradeTotals(b, t).volume = SumOf(volD)
       /\ TradeTotals(b, t).volume = Volume(t, DOMAIN t)
  BY <1>5, <1>8, <1>9, <1>11, <1>12, <1>13, <1>14, <1>15
<1>18. \A k \in D : netD[k] \in Int /\ volD[k] \in Int
  BY <1>10, <1>13
<1> HIDE DEF Left, NetOf, TradeTotals
<1> QED BY <1>2, <1>7, <1>16, <1>17, <1>18 DEF D, netD, volD

\* Each client's part is a table of numbers, whole its sum.
SumsOfParts(parts, whole) ==
    \A c \in Traders : /\ IsFiniteSet(DOMAIN parts[c])
                       /\ \A k \in DOMAIN parts[c] : parts[c][k] \in Int
                       /\ whole[c] = SumOf(parts[c])

\* What is summed by key over the clients adds up to the sum of the clients.
LEMMA MergeAddsUp ==
    ASSUME NEW parts, NEW whole, SumsOfParts(parts, whole)
    PROVE  SumOf(Merged(parts)) = Total(whole, Traders) /\ \A c \in Traders : whole[c] \in Int
<1> DEFINE dom == [c \in Traders |-> DOMAIN parts[c]]
           K == UNION {dom[c] : c \in Traders}
           f == [c \in Traders |-> [k \in K |-> IF k \in DOMAIN parts[c] THEN parts[c][k] ELSE 0]]
           column == [k \in K |-> [c \in Traders |-> f[c][k]]]
           m == Merged(parts)
<1>0. IsFiniteSet(Traders)
  BY TradeAssumption
<1>1. IsFiniteSet(K)
  <2>1. IsFiniteSet({dom[c] : c \in Traders})
    BY <1>0, FiniteImage
  <2>2. \A T \in {dom[c] : c \in Traders} : IsFiniteSet(T)
    BY DEF SumsOfParts
  <2> QED BY <2>1, <2>2, FS_UNION
<1>2. /\ DOMAIN m = K
      /\ \A k \in K : m[k] = SumOf([c \in WithKey(k, parts) |-> parts[c][k]])
  BY DEF Merged
<1>3. \A c \in Traders : DOMAIN parts[c] \subseteq K
  OBVIOUS
<1>4. \A c \in Traders : \A k \in K :
         /\ f[c][k] = IF k \in DOMAIN parts[c] THEN parts[c][k] ELSE 0
         /\ f[c][k] \in Int /\ column[k][c] = f[c][k]
  BY DEF SumsOfParts
<1> HIDE DEF dom, K, f, column, m
<1>5. \A c \in Traders : whole[c] = Total(f[c], K) /\ whole[c] \in Int
  <2> SUFFICES ASSUME NEW c \in Traders PROVE whole[c] = Total(f[c], K) /\ whole[c] \in Int
    OBVIOUS
  <2> DEFINE own == f[c]
             P == DOMAIN parts[c]
             p == parts[c]
  <2>1. /\ \A k \in K : own[k] \in Int
        /\ \A k \in K \ P : own[k] = 0
        /\ \A k \in P : p[k] = own[k] /\ p[k] \in Int
        /\ IsFiniteSet(P) /\ P \in SUBSET K /\ DOMAIN p = P
    BY <1>3, <1>4 DEF SumsOfParts
  <2>2. whole[c] = SumOf(p)
    BY DEF SumsOfParts
  <2> HIDE DEF own, P, p
  <2>3. Total(own, K) = Total(own, P)
    BY <1>1, <2>1, TotalWithout
  <2>4. SumOf(p) = Total(own, P)
    BY <2>1, SumOfTerms
  <2>5. Total(own, K) \in Int
    BY <1>1, <2>1, TotalType
  <2> QED BY <2>2, <2>3, <2>4, <2>5 DEF own
<1>6. \A k \in K : m[k] = Total(column[k], Traders) /\ m[k] \in Int
  <2> SUFFICES ASSUME NEW k \in K PROVE m[k] = Total(column[k], Traders) /\ m[k] \in Int
    OBVIOUS
  <2> DEFINE W == WithKey(k, parts)
             own == column[k]
             p == [c \in W |-> parts[c][k]]
  <2>1. W \in SUBSET Traders /\ \A c \in Traders : c \in W <=> k \in DOMAIN parts[c]
    BY DEF WithKey
  <2>2. /\ \A c \in Traders : own[c] \in Int
        /\ \A c \in Traders \ W : own[c] = 0
        /\ \A c \in W : p[c] = own[c] /\ p[c] \in Int
        /\ DOMAIN p = W
    BY <1>4, <2>1
  <2>3. m[k] = SumOf(p)
    BY <1>2
  <2> HIDE DEF W, own, p
  <2>4. Total(own, Traders) = Total(own, W)
    BY <1>0, <2>1, <2>2, TotalWithout
  <2>5. SumOf(p) = Total(own, W)
    <3>1. IsFiniteSet(W)
      BY <1>0, <2>1, FS_Subset
    <3> QED BY <2>2, <3>1, SumOfTerms
  <2>6. Total(own, Traders) \in Int
    BY <1>0, <2>2, TotalType
  <2> QED BY <2>3, <2>4, <2>5, <2>6 DEF own
<1>7. Total(whole, Traders) = Total(m, K)
  <2>1. \A c \in Traders : \A k \in K : f[c][k] \in Int
    BY <1>4
  <2>2. RowSums(whole, f, Traders, K) /\ RowSums(m, column, K, Traders)
    BY <1>5, <1>6 DEF RowSums
  <2>3. Transposed(f, column, Traders, K)
    BY <1>4 DEF Transposed
  <2> QED BY <1>0, <1>1, <2>1, <2>2, <2>3, TotalSwap
<1>8. SumOf(m) = Total(m, K)
  BY <1>1, <1>2, <1>6, SumOfTerms
<1> QED BY <1>5, <1>7, <1>8 DEF m

\* What each client's results give to the aggregate.
Kept(c) == TradesOf(bills[c], trades[c])
Reported(c) == TradeTotals(bills[c], Kept(c))

LEMMA FilesOfClient ==
    ASSUME TradeTyped, NEW c \in Traders
    PROVE  /\ bills[c] \in Seq(BillRows) /\ Kept(c) \in Seq(TradeRows)
           /\ Analytics(bills[c], trades[c]).coins = CoinTable(bills[c], Kept(c))
           /\ Analytics(bills[c], trades[c]).totals = Reported(c)
           /\ Analytics(bills[c], trades[c]).daily = DailyVolume(Kept(c))
           /\ Analytics(bills[c], trades[c]).monthly = Monthly(bills[c])
           /\ Orphaned(c) = SumOf([k \in Left(bills[c], Kept(c)) |-> NetOf(bills[c], k)])
<1>1. bills[c] \in Seq(BillRows) /\ Kept(c) \in Seq(TradeRows)
  BY DEF TradeTyped, Kept, TradesOf
<1>2. Analytics(bills[c], trades[c]) =
         [coins |-> CoinTable(bills[c], Kept(c)), totals |-> Reported(c),
          daily |-> DailyVolume(Kept(c)), monthly |-> Monthly(bills[c])]
  BY DEF Analytics, Kept, Reported
<1>3. Orphans(c) = Left(bills[c], Kept(c))
  BY <1>2 DEF Orphans, Left
<1> QED BY <1>1, <1>2, <1>3 DEF Orphaned

LEMMA AggregateParts ==
    ASSUME TradeTyped
    PROVE  /\ Aggregate.net = Merged([c \in Traders |-> Netted(bills[c], Kept(c))])
           /\ Aggregate.volume = Merged([c \in Traders |-> Traded(bills[c], Kept(c))])
           /\ Aggregate.daily = Merged([c \in Traders |-> DailyVolume(Kept(c))])
           /\ Aggregate.monthly = Merged([c \in Traders |-> Monthly(bills[c])])
           /\ Aggregate.totals.net = SumOf([c \in Traders |-> Reported(c).net])
           /\ Aggregate.totals.volume = SumOf([c \in Traders |-> Reported(c).volume])
<1> DEFINE a == [c \in Traders |-> Analytics(bills[c], trades[c])]
           net == [c \in Traders |-> [k \in DOMAIN a[c].coins |-> a[c].coins[k].net]]
           volume == [c \in Traders |-> [k \in DOMAIN a[c].coins |-> a[c].coins[k].volume]]
           daily == [c \in Traders |-> a[c].daily]
           monthly == [c \in Traders |-> a[c].monthly]
           nets == [c \in Traders |-> a[c].totals.net]
           volumes == [c \in Traders |-> a[c].totals.volume]
<1>1. /\ Aggregate.net = Merged(net) /\ Aggregate.volume = Merged(volume)
      /\ Aggregate.daily = Merged(daily) /\ Aggregate.monthly = Merged(monthly)
      /\ Aggregate.totals.net = SumOf(nets) /\ Aggregate.totals.volume = SumOf(volumes)
  BY DEF Aggregate, AggregateOf
<1>2. \A c \in Traders : /\ a[c].coins = CoinTable(bills[c], Kept(c)) /\ a[c].totals = Reported(c)
                         /\ a[c].daily = DailyVolume(Kept(c)) /\ a[c].monthly = Monthly(bills[c])
  BY FilesOfClient
<1> HIDE DEF a
<1>3. net = [c \in Traders |-> Netted(bills[c], Kept(c))]
  BY <1>2 DEF Netted
<1>4. volume = [c \in Traders |-> Traded(bills[c], Kept(c))]
  BY <1>2 DEF Traded
<1>5. daily = [c \in Traders |-> DailyVolume(Kept(c))] /\ monthly = [c \in Traders |-> Monthly(bills[c])]
  BY <1>2
<1>6. nets = [c \in Traders |-> Reported(c).net] /\ volumes = [c \in Traders |-> Reported(c).volume]
  BY <1>2
<1> HIDE DEF net, volume, daily, monthly, nets, volumes
<1> QED BY <1>1, <1>3, <1>4, <1>5, <1>6

LEMMA AggregateIsExplained == ASSUME TradeTyped PROVE CoinsExplainTotals
<1> DEFINE net == [c \in Traders |-> Netted(bills[c], Kept(c))]
           volume == [c \in Traders |-> Traded(bills[c], Kept(c))]
           daily == [c \in Traders |-> DailyVolume(Kept(c))]
           monthly == [c \in Traders |-> Monthly(bills[c])]
           nets == [c \in Traders |-> Reported(c).net]
           volumes == [c \in Traders |-> Reported(c).volume]
           ofCoins == [c \in Traders |-> SumOf(net[c])]
           ofVolume == [c \in Traders |-> SumOf(volume[c])]
           ofDays == [c \in Traders |-> SumOf(daily[c])]
           ofMonths == [c \in Traders |-> SumOf(monthly[c])]
           undated == [c \in Traders |-> UndatedVolume(c)]
           left == [c \in Traders |-> Orphaned(c)]
           excess == [c \in Traders |-> Excess(c)]
<1>0. IsFiniteSet(Traders)
  BY TradeAssumption
<1>1. \A c \in Traders :
         /\ IsFiniteSet(DOMAIN net[c]) /\ \A k \in DOMAIN net[c] : net[c][k] \in Int
         /\ IsFiniteSet(DOMAIN volume[c]) /\ \A k \in DOMAIN volume[c] : volume[c][k] \in Int
         /\ nets[c] = ofCoins[c] + left[c] /\ ofCoins[c] \in Int /\ left[c] \in Int
         /\ volumes[c] = ofVolume[c] /\ volumes[c] = Volume(Kept(c), DOMAIN Kept(c))
         /\ nets[c] = Changes(bills[c], Counted(bills[c]))
  <2> SUFFICES ASSUME NEW c \in Traders
      PROVE /\ IsFiniteSet(DOMAIN net[c]) /\ \A k \in DOMAIN net[c] : net[c][k] \in Int
            /\ IsFiniteSet(DOMAIN volume[c]) /\ \A k \in DOMAIN volume[c] : volume[c][k] \in Int
            /\ nets[c] = ofCoins[c] + left[c] /\ ofCoins[c] \in Int /\ left[c] \in Int
            /\ volumes[c] = ofVolume[c] /\ volumes[c] = Volume(Kept(c), DOMAIN Kept(c))
            /\ nets[c] = Changes(bills[c], Counted(bills[c]))
    OBVIOUS
  <2> DEFINE b == bills[c]
             t == Kept(c)
  <2>1. b \in Seq(BillRows) /\ t \in Seq(TradeRows)
        /\ Orphaned(c) = SumOf([k \in Left(b, t) |-> NetOf(b, k)])
    BY FilesOfClient
  <2>2. /\ net[c] = Netted(b, t) /\ volume[c] = Traded(b, t)
        /\ nets[c] = TradeTotals(b, t).net /\ volumes[c] = TradeTotals(b, t).volume
        /\ ofCoins[c] = SumOf(Netted(b, t)) /\ ofVolume[c] = SumOf(Traded(b, t))
        /\ left[c] = Orphaned(c)
    BY DEF Reported
  <2>3. /\ DOMAIN Netted(b, t) = DOMAIN CoinTable(b, t)
        /\ DOMAIN Traded(b, t) = DOMAIN CoinTable(b, t)
    BY DEF Netted, Traded
  <2> HIDE DEF b, t, net, volume, nets, volumes, ofCoins, ofVolume, left
  <2>4. /\ IsFiniteSet(DOMAIN CoinTable(b, t))
        /\ \A k \in DOMAIN CoinTable(b, t) : Netted(b, t)[k] \in Int /\ Traded(b, t)[k] \in Int
        /\ SumOf(Netted(b, t)) \in Int /\ Orphaned(c) \in Int
        /\ TradeTotals(b, t).net = SumOf(Netted(b, t)) + Orphaned(c)
        /\ TradeTotals(b, t).volume = SumOf(Traded(b, t))
        /\ TradeTotals(b, t).volume = Volume(t, DOMAIN t)
        /\ TradeTotals(b, t).net = Changes(b, Counted(b))
    BY <2>1, ClientAddsUp
  <2>5. Volume(t, DOMAIN t) = Volume(Kept(c), DOMAIN Kept(c))
        /\ Changes(b, Counted(b)) = Changes(bills[c], Counted(bills[c]))
    BY DEF b, t
  <2> QED BY <2>2, <2>3, <2>4, <2>5
<1>2. \A c \in Traders :
         /\ IsFiniteSet(DOMAIN daily[c]) /\ \A k \in DOMAIN daily[c] : daily[c][k] \in Int
         /\ Volume(Kept(c), DOMAIN Kept(c)) = ofDays[c] + undated[c]
         /\ ofDays[c] \in Int /\ undated[c] \in Int
         /\ IsFiniteSet(DOMAIN monthly[c]) /\ \A k \in DOMAIN monthly[c] : monthly[c][k] \in Int
         /\ ofMonths[c] = Changes(bills[c], Dated(bills[c]))
         /\ ofMonths[c] = Changes(bills[c], Counted(bills[c])) + excess[c]
         /\ excess[c] \in Int
  <2> SUFFICES ASSUME NEW c \in Traders
      PROVE /\ IsFiniteSet(DOMAIN daily[c]) /\ \A k \in DOMAIN daily[c] : daily[c][k] \in Int
            /\ Volume(Kept(c), DOMAIN Kept(c)) = ofDays[c] + undated[c]
            /\ ofDays[c] \in Int /\ undated[c] \in Int
            /\ IsFiniteSet(DOMAIN monthly[c]) /\ \A k \in DOMAIN monthly[c] : monthly[c][k] \in Int
            /\ ofMonths[c] = Changes(bills[c], Dated(bills[c]))
            /\ ofMonths[c] = Changes(bills[c], Counted(bills[c])) + excess[c]
            /\ excess[c] \in Int
    OBVIOUS
  <2>1. bills[c] \in Seq(BillRows) /\ Kept(c) \in Seq(TradeRows)
    BY FilesOfClient
  <2>2. /\ daily[c] = DailyVolume(Kept(c)) /\ ofDays[c] = SumOf(DailyVolume(Kept(c)))
        /\ monthly[c] = Monthly(bills[c]) /\ ofMonths[c] = SumOf(Monthly(bills[c]))
        /\ excess[c] = Excess(c) /\ undated[c] = Volume(Kept(c), Undated(Kept(c)))
    BY DEF UndatedVolume, Kept
  <2> HIDE DEF daily, ofDays, monthly, ofMonths, excess, undated
  <2>3. /\ IsFiniteSet(DOMAIN daily[c]) /\ \A k \in DOMAIN daily[c] : daily[c][k] \in Int
        /\ Volume(Kept(c), DOMAIN Kept(c)) = ofDays[c] + undated[c]
        /\ ofDays[c] \in Int /\ undated[c] \in Int
    BY <2>1, <2>2, DaysAddUp
  <2>4. /\ IsFiniteSet(DOMAIN monthly[c]) /\ \A k \in DOMAIN monthly[c] : monthly[c][k] \in Int
        /\ ofMonths[c] = Changes(bills[c], Dated(bills[c]))
    BY <2>1, <2>2, MonthsAddUp
  <2> DEFINE I == Dated(bills[c])
             J == Counted(bills[c])
  <2>5. I \in SUBSET DOMAIN bills[c] /\ J \in SUBSET DOMAIN bills[c]
    BY DEF Dated, Counted, BillLines
  <2>6. Excess(c) = Changes(bills[c], I \ J) - Changes(bills[c], J \ I)
    BY DEF Excess
  <2> HIDE DEF I, J
  <2>7. Changes(bills[c], I \ J) \in Int /\ Changes(bills[c], J \ I) \in Int
    <3>1. I \ J \in SUBSET DOMAIN bills[c] /\ J \ I \in SUBSET DOMAIN bills[c]
      BY <2>5
    <3> QED BY <2>1, <3>1, ChangesTotal
  <2>8. Changes(bills[c], I) = Changes(bills[c], J) + Excess(c)
    BY <2>1, <2>5, <2>6, ChangesApart
  <2>9. Excess(c) \in Int
    BY <2>6, <2>7
  <2> QED BY <2>2, <2>3, <2>4, <2>8, <2>9 DEF I, J
<1>3. /\ DOMAIN nets = Traders /\ DOMAIN volumes = Traders /\ DOMAIN undated = Traders
      /\ DOMAIN left = Traders /\ DOMAIN excess = Traders
      /\ \A c \in Traders : /\ ofCoins[c] = SumOf(net[c]) /\ ofVolume[c] = SumOf(volume[c])
                            /\ ofDays[c] = SumOf(daily[c]) /\ ofMonths[c] = SumOf(monthly[c])
  OBVIOUS
<1>4. /\ Aggregate.net = Merged(net) /\ Aggregate.volume = Merged(volume)
      /\ Aggregate.daily = Merged(daily) /\ Aggregate.monthly = Merged(monthly)
      /\ Aggregate.totals.net = SumOf(nets) /\ Aggregate.totals.volume = SumOf(volumes)
  BY AggregateParts
<1>5. /\ SumOf([c \in Traders |-> Orphaned(c)]) = SumOf(left)
      /\ SumOf([c \in Traders |-> Excess(c)]) = SumOf(excess)
      /\ SumOf([c \in Traders |-> UndatedVolume(c)]) = SumOf(undated)
  OBVIOUS
<1> HIDE DEF net, volume, daily, monthly, nets, volumes, ofCoins, ofVolume, ofDays, ofMonths, left, excess, undated
<1>6. /\ SumOf(Merged(net)) = Total(ofCoins, Traders)
      /\ SumOf(Merged(volume)) = Total(ofVolume, Traders)
      /\ SumOf(Merged(daily)) = Total(ofDays, Traders)
      /\ SumOf(Merged(monthly)) = Total(ofMonths, Traders)
  <2>1. /\ SumsOfParts(net, ofCoins) /\ SumsOfParts(volume, ofVolume)
        /\ SumsOfParts(daily, ofDays) /\ SumsOfParts(monthly, ofMonths)
    BY <1>1, <1>2, <1>3 DEF SumsOfParts
  <2> QED BY <2>1, MergeAddsUp
<1>7. \A c \in Traders : nets[c] \in Int
  BY <1>1
<1>8. SumOf(nets) = Total(nets, Traders) /\ SumOf(left) = Total(left, Traders)
      /\ SumOf(excess) = Total(excess, Traders) /\ SumOf(undated) = Total(undated, Traders)
  BY <1>0, <1>1, <1>2, <1>3, <1>7, SumOfTerms
<1>9. Total(nets, Traders) = Total(ofCoins, Traders) + Total(left, Traders)
  BY <1>0, <1>1, TotalPlus
<1>10. Total(ofMonths, Traders) = Total(nets, Traders) + Total(excess, Traders)
  <2>1. \A c \in Traders : ofMonths[c] = nets[c] + excess[c] /\ excess[c] \in Int
    BY <1>1, <1>2
  <2> QED BY <1>0, <1>7, <2>1, TotalPlus
<1>11. /\ SumOf(volumes) = Total(ofVolume, Traders)
       /\ SumOf(volumes) = Total(ofDays, Traders) + Total(undated, Traders)
  <2>1. \A c \in Traders : /\ volumes[c] = ofVolume[c] /\ volumes[c] = ofDays[c] + undated[c]
                           /\ ofDays[c] \in Int /\ undated[c] \in Int
    BY <1>1, <1>2
  <2>2. \A c \in Traders : volumes[c] \in Int
    BY <2>1
  <2>3. SumOf(volumes) = Total(ofVolume, Traders) /\ SumOf(volumes) = Total(volumes, Traders)
    BY <1>0, <1>3, <2>1, <2>2, SumOfTerms
  <2>4. Total(volumes, Traders) = Total(ofDays, Traders) + Total(undated, Traders)
    BY <1>0, <2>1, TotalPlus
  <2> QED BY <2>3, <2>4
<1>12. /\ Aggregate.totals.net = SumOf(Aggregate.net) + SumOf([c \in Traders |-> Orphaned(c)])
       /\ Aggregate.totals.volume = SumOf(Aggregate.volume)
       /\ Aggregate.totals.volume =
             SumOf(Aggregate.daily) + SumOf([c \in Traders |-> UndatedVolume(c)])
       /\ SumOf(Aggregate.monthly) = Aggregate.totals.net + SumOf([c \in Traders |-> Excess(c)])
  BY <1>4, <1>5, <1>6, <1>8, <1>9, <1>10, <1>11
<1> QED BY <1>12 DEF CoinsExplainTotals, ExplainedBy

\* The coin table, the days and the months of any clients account for the
\* totals (CoinsExplainTotals).
THEOREM CoinsAreWhole == TradeSpec => []CoinsExplainTotals
BY FilesStayTyped, AggregateIsExplained, PTL

-----------------------------------------------------------------------------
(***************************************************************************)
(* HoldingIsStockTime for any files of any length, any ties in time and    *)
(* any sells beyond the stock.                                             *)
(*                                                                         *)
(* While the trades of a coin are walked, the queue is the lots last       *)
(* bought, as many as are held, and the hours so far together with the     *)
(* ages of these lots at LastTick are what the trades so far contribute,   *)
(* each its change of the stock times the ticks that remain (Accounted).   *)
(* At the end the contributions are summed by tick instead of by trade     *)
(* (StockAddsUp).                                                          *)
(***************************************************************************)

\* s lists the lines of I by time.
Listing(s, rows, I) ==
    /\ s \in [1 .. Cardinality(I) -> I]
    /\ \A k, m \in 1 .. Cardinality(I) : k < m => Earlier(rows, s[k], s[m])

\* Two lines compare as their times do, scaled by the length of the file.
LEMMA KeysCompare ==
    ASSUME NEW L \in Nat, NEW i \in 1 .. L, NEW j \in 1 .. L, NEW a \in Int, NEW b \in Int,
           a * L + i <= b * L + j
    PROVE  a < b \/ (a = b /\ i <= j)
<1>1. CASE a < b
  BY <1>1
<1>2. CASE a = b
  BY <1>2
<1>3. CASE b < a
  <2>1. a - b - 1 \in Nat /\ a = b + 1 + (a - b - 1)
    BY <1>3
  <2>2. PICK d \in Nat : a = b + 1 + d
    BY <2>1
  <2>3. a * L = b * L + L + d * L
    BY <2>2
  <2>4. PICK x \in Int, y \in Nat : x = b * L /\ y = d * L
    <3>1. b * L \in Int /\ d * L \in Nat
      OBVIOUS
    <3> QED BY <3>1
  <2>5. (x + L + y) + i <= x + j
    BY <2>3, <2>4
  <2> QED BY <2>4, <2>5
<1> QED BY <1>1, <1>2, <1>3

\* As many keys as lines.
LEMMA OneKeyEach ==
    ASSUME NEW S, IsFiniteSet(S), NEW e, \A x, y \in S : e[x] = e[y] => x = y
    PROVE  Cardinality({e[x] : x \in S}) = Cardinality(S) /\ IsFiniteSet({e[x] : x \in S})
<1> DEFINE T == {e[x] : x \in S}
           f == [x \in S |-> e[x]]
<1>1. f \in Bijection(S, T)
  <2>1. f \in [S -> T] /\ IsInjective(f)
    BY DEF IsInjective
  <2>2. \A t \in T : \E x \in S : f[x] = t
    OBVIOUS
  <2> QED BY <2>1, <2>2 DEF Bijection, Injection, Surjection
<1>2. IsFiniteSet(T)
  BY FiniteImage
<1> HIDE DEF f, T
<1>3. ExistsBijection(S, T)
  BY <1>1 DEF ExistsBijection
<1>4. Cardinality(S) = Cardinality(T)
  BY <1>3, FS_Bijection
<1> QED BY <1>2, <1>4 DEF T

\* Lines can be put in the order of their times and places.
LEMMA ListingExists ==
    ASSUME NEW rows \in Seq(TradeRows), NEW I \in SUBSET DOMAIN rows
    PROVE  IsFiniteSet(I) /\ \E s : Listing(s, rows, I)
<1> DEFINE L == Len(rows)
           key == [i \in I |-> rows[i].at * L + i]
           K == {key[i] : i \in I}
           n == Cardinality(I)
<1>1. L \in Nat /\ DOMAIN rows = 1 .. L
  OBVIOUS
<1>2. IsFiniteSet(I)
  <2>1. IsFiniteSet(1 .. L) /\ I \subseteq 1 .. L
    BY <1>1, FS_Interval
  <2> QED BY <2>1, FS_Subset
<1>3. \A i \in I : i \in 1 .. L /\ rows[i].at \in Int
  BY <1>1, TradeAssumption
<1>4. \A i \in I : key[i] \in Int /\ key[i] = rows[i].at * L + i
  BY <1>1, <1>3
<1>5. \A i, j \in I : key[i] <= key[j] =>
         rows[i].at < rows[j].at \/ (rows[i].at = rows[j].at /\ i <= j)
  <2> SUFFICES ASSUME NEW i \in I, NEW j \in I, key[i] <= key[j]
               PROVE  rows[i].at < rows[j].at \/ (rows[i].at = rows[j].at /\ i <= j)
    OBVIOUS
  <2> PICK a \in Int, b \in Int : a = rows[i].at /\ b = rows[j].at
    BY <1>3
  <2>1. a * L + i <= b * L + j
    BY <1>4
  <2>2. i \in 1 .. L /\ j \in 1 .. L
    BY <1>3
  <2> HIDE DEF L, key
  <2> QED BY <1>1, <2>1, <2>2, KeysCompare
<1>6. \A i, j \in I : key[i] = key[j] => i = j
  <2> SUFFICES ASSUME NEW i \in I, NEW j \in I, key[i] = key[j] PROVE i = j
    OBVIOUS
  <2>1. key[i] <= key[j] /\ key[j] <= key[i]
    BY <1>4
  <2> HIDE DEF L, key
  <2> QED BY <1>3, <1>5, <2>1
<1> HIDE DEF key, L
<1>7. K \subseteq Int /\ Cardinality(K) = n /\ IsFiniteSet(K)
  BY <1>2, <1>4, <1>6, OneKeyEach
<1>8. PICK t \in [1 .. n -> K] : Rising(t, n)
  <2> HIDE DEF K, n
  <2>1. \E t \in [1 .. Cardinality(K) -> K] : Rising(t, Cardinality(K))
    BY <1>7, RisingExists
  <2> QED BY <1>7, <2>1
<1> DEFINE s == [k \in 1 .. n |-> CHOOSE i \in I : key[i] = t[k]]
<1>9. \A k \in 1 .. n : s[k] \in I /\ key[s[k]] = t[k]
  <2> SUFFICES ASSUME NEW k \in 1 .. n PROVE \E i \in I : key[i] = t[k]
    OBVIOUS
  <2>1. t[k] \in K
    OBVIOUS
  <2> QED BY <2>1
<1>10. s \in [1 .. n -> I]
  BY <1>9
<1> HIDE DEF s
<1>11. \A k, m \in 1 .. n : k < m => Earlier(rows, s[k], s[m])
  <2> SUFFICES ASSUME NEW k \in 1 .. n, NEW m \in 1 .. n, k < m PROVE Earlier(rows, s[k], s[m])
    OBVIOUS
  <2>1. key[s[k]] < key[s[m]] /\ s[k] \in I /\ s[m] \in I
    BY <1>8, <1>9 DEF Rising
  <2>2. key[s[k]] <= key[s[m]] /\ s[k] # s[m]
    BY <1>4, <2>1
  <2> QED BY <1>3, <1>5, <2>1, <2>2 DEF Earlier
<1> QED BY <1>2, <1>10, <1>11 DEF Listing

\* The trades of a coin, all of size one, by time.
UnitTape(q) ==
    /\ q \in Seq(TradeRows)
    /\ \A k \in 1 .. Len(q) : q[k].amount = 1 /\ q[k].at \in 1 .. LastTick
    /\ \A k, m \in 1 .. Len(q) : k <= m => q[k].at <= q[m].at

\* The sort of a coin's trades gives such a tape.
LEMMA ByTimeIsTape ==
    ASSUME NEW rows \in Seq(TradeRows), NEW I \in SUBSET DOMAIN rows, UnitLots(rows, I)
    PROVE  UnitTape(ByTime(rows, I))
<1> DEFINE o == CHOOSE o \in [1 .. Cardinality(I) -> I] :
                    \A k, m \in 1 .. Cardinality(I) : k < m => Earlier(rows, o[k], o[m])
           q == ByTime(rows, I)
<1>1. PICK n \in Nat : n = Cardinality(I)
  BY ListingExists, FS_CardinalityType
<1>2. \E s \in [1 .. n -> I] : \A k, m \in 1 .. n : k < m => Earlier(rows, s[k], s[m])
  BY <1>1, ListingExists DEF Listing
<1>3. o \in [1 .. n -> I] /\ \A k, m \in 1 .. n : k < m => Earlier(rows, o[k], o[m])
  BY <1>1, <1>2
<1>4. q = [k \in 1 .. n |-> rows[o[k]]]
  BY <1>1, Zenon DEF ByTime
<1> HIDE DEF o, q
<1>5. \A k \in 1 .. n : o[k] \in I /\ rows[o[k]] \in TradeRows
  BY <1>3
<1>6. q \in Seq(TradeRows) /\ Len(q) = n /\ \A k \in 1 .. n : q[k] = rows[o[k]]
  BY <1>4, <1>5
<1>7. \A k \in 1 .. n : q[k].amount = 1 /\ q[k].at \in 1 .. LastTick
  BY <1>5, <1>6, TradeAssumption DEF UnitLots
<1>8. \A k, m \in 1 .. n : k < m => q[k].at <= q[m].at
  <2> SUFFICES ASSUME NEW k \in 1 .. n, NEW m \in 1 .. n, k < m PROVE q[k].at <= q[m].at
    OBVIOUS
  <2>1. Earlier(rows, o[k], o[m])
    BY <1>3
  <2>2. q[k].at \in Int /\ q[m].at \in Int /\ q[k] = rows[o[k]] /\ q[m] = rows[o[m]]
    BY <1>6, <1>7, TradeAssumption
  <2> QED BY <2>1, <2>2 DEF Earlier
<1>9. \A k, m \in 1 .. n : k <= m => q[k].at <= q[m].at
  <2> SUFFICES ASSUME NEW k \in 1 .. n, NEW m \in 1 .. n, k <= m, ~(k < m) PROVE q[k].at <= q[m].at
    BY <1>8
  <2>1. k = m /\ q[k].at \in Int
    BY <1>7, TradeAssumption
  <2> QED BY <2>1
<1> QED BY <1>6, <1>7, <1>9 DEF UnitTape, q

\* The lots of lots of size one and what else the walk keeps.
UnitLot == [at : Int, amount : {1}]

Stand == [queue : Seq(UnitLot), hours : Int, trips : Int, left : {0, 1}]

\* A lots without its first lot.
LEMMA FirstRemoved ==
    ASSUME NEW X, NEW s \in Seq(X), s # <<>>
    PROVE  /\ RemoveAt(s, 1) \in Seq(X) /\ Len(s) \in Nat \ {0} /\ s[1] \in X
           /\ Len(RemoveAt(s, 1)) = Len(s) - 1
           /\ \A i \in 1 .. Len(s) - 1 : RemoveAt(s, 1)[i] = s[i + 1]
<1>1. RemoveAt(s, 1) = SubSeq(s, 1, 0) \o SubSeq(s, 2, Len(s))
  BY DEF RemoveAt
<1>2. Len(s) \in Nat \ {0} /\ s[1] \in X
  OBVIOUS
<1>3. SubSeq(s, 1, 0) = <<>>
  OBVIOUS
<1>4. SubSeq(s, 2, Len(s)) \in Seq(X) /\ Len(SubSeq(s, 2, Len(s))) = Len(s) - 1
  <2>1. PICK n \in Nat : n = Len(s) /\ n >= 1
    BY <1>2
  <2>2. SubSeq(s, 2, n) = [i \in 1 .. (n - 1) |-> s[i + 1]]
    BY <2>1
  <2>3. \A i \in 1 .. (n - 1) : s[i + 1] \in X
    BY <2>1
  <2> QED BY <2>1, <2>2, <2>3
<1>5. \A i \in 1 .. Len(s) - 1 : SubSeq(s, 2, Len(s))[i] = s[i + 1]
  BY <1>2
<1>6. RemoveAt(s, 1) = SubSeq(s, 2, Len(s))
  <2>1. PICK t \in Seq(X) : t = SubSeq(s, 2, Len(s))
    BY <1>4
  <2>2. <<>> \o t = t
    OBVIOUS
  <2> QED BY <1>1, <1>3, <2>1, <2>2
<1> QED BY <1>2, <1>4, <1>5, <1>6

\* A sell of size one takes the first lot.
Sold(s, sell) ==
    [queue |-> RemoveAt(s.queue, 1),
     hours |-> IF sell.at - s.queue[1].at > 0 THEN s.hours + (sell.at - s.queue[1].at) ELSE s.hours,
     trips |-> IF sell.at - s.queue[1].at > 0 THEN s.trips + 1 ELSE s.trips,
     left |-> 0]

LEMMA OneMatch ==
    ASSUME NEW s \in Stand, NEW sell, sell.at \in Int
    PROVE  /\ MatchLot(s, sell) \in Stand
           /\ s.left = 0 \/ s.queue = <<>> => MatchLot(s, sell) = s
           /\ s.left = 1 /\ s.queue # <<>> => MatchLot(s, sell) = Sold(s, sell)
<1>1. s.queue \in Seq(UnitLot) /\ s.hours \in Int /\ s.trips \in Int /\ s.left \in {0, 1}
  BY DEF Stand
<1>2. CASE s.left = 0 \/ s.queue = <<>>
  <2>1. MatchLot(s, sell) = s
    BY <1>2, Zenon DEF MatchLot
  <2> QED BY <1>2, <2>1
<1>3. CASE s.left = 1 /\ s.queue # <<>>
  <2>1. s.queue[1].at \in Int /\ s.queue[1].amount = 1 /\ RemoveAt(s.queue, 1) \in Seq(UnitLot)
    <3>1. PICK u \in Seq(UnitLot) : u = s.queue
      BY <1>1
    <3>2. u[1] \in UnitLot /\ RemoveAt(u, 1) \in Seq(UnitLot)
      BY <1>3, <3>1, FirstRemoved
    <3>3. u[1].at \in Int /\ u[1].amount = 1
      BY <3>2 DEF UnitLot
    <3> QED BY <3>1, <3>2, <3>3
  <2>2. Lesser(s.left, s.queue[1].amount) = 1
    BY <1>3, <2>1 DEF Lesser
  <2>3. 1 >= s.queue[1].amount /\ s.left - 1 = 0 /\ ~(s.left = 0 \/ s.queue = <<>>)
    BY <1>3, <2>1
  <2>4. MatchLot(s, sell) = Sold(s, sell)
    BY <2>2, <2>3, Zenon DEF MatchLot, Sold, NextLot
  <2>5. Sold(s, sell) \in Stand
    BY <1>1, <2>1 DEF Sold, Stand
  <2> QED BY <1>3, <2>4, <2>5
<1> QED BY <1>1, <1>2, <1>3

\* The state after each match of a sell.
SellRun(h, s, sell, N) ==
    h = [m \in 0 .. N |-> IF m = 0 THEN [s EXCEPT !.left = sell.amount] ELSE MatchLot(h[m - 1], sell)]

LEMMA MatchesExist ==
    ASSUME NEW s \in Stand, NEW sell, sell.at \in Int, sell.amount = 1, NEW N \in Nat
    PROVE  \E h : SellRun(h, s, sell, N)
<1> DEFINE g == [n \in 1 .. N |-> [x \in Stand |-> MatchLot(x, sell)]]
           a == [s EXCEPT !.left = sell.amount]
<1>1. a \in Stand
  BY DEF Stand
<1>2. g \in [1 .. N -> [Stand -> Stand]]
  BY OneMatch
<1>3. \A n \in 1 .. N : \A x \in Stand : g[n][x] = MatchLot(x, sell)
  OBVIOUS
<1> HIDE DEF g, a
<1>4. PICK h \in [0 .. N -> Stand] : Iterates(h, g, a, N)
  BY <1>1, <1>2, IterationExists
<1>5. h = [n \in 0 .. N |-> IF n = 0 THEN a ELSE g[n][h[n - 1]]]
  BY <1>4 DEF Iterates
<1>6. \A n \in 0 .. N : n # 0 => n \in 1 .. N /\ n - 1 \in 0 .. N
  OBVIOUS
<1>7. \A n \in 0 .. N : n # 0 => g[n][h[n - 1]] = MatchLot(h[n - 1], sell)
  BY <1>3, <1>6
<1>8. h = [n \in 0 .. N |-> IF n = 0 THEN a ELSE MatchLot(h[n - 1], sell)]
  BY <1>5, <1>7
<1> QED BY <1>8 DEF SellRun, a

\* A sell of size one is done after one match, or finds no lot.
LEMMA SellIsOneMatch ==
    ASSUME NEW s \in Stand, NEW sell, sell.at \in Int, sell.amount = 1
    PROVE  /\ MatchSell(s, sell) \in Stand
           /\ s.queue = <<>> => MatchSell(s, sell).queue = <<>> /\ MatchSell(s, sell).hours = s.hours
           /\ s.queue # <<>> => MatchSell(s, sell) = Sold(s, sell)
<1> DEFINE N == Len(s.queue)
           a == [s EXCEPT !.left = sell.amount]
           h == CHOOSE h : SellRun(h, s, sell, N)
<1>1. N \in Nat /\ s.queue \in Seq(UnitLot) /\ (N = 0 <=> s.queue = <<>>)
  BY DEF Stand
<1>2. a \in Stand /\ a.left = 1 /\ a.queue = s.queue /\ a.hours = s.hours /\ a.trips = s.trips
  BY DEF Stand
<1>3. MatchSell(s, sell) = h[N]
  BY DEF MatchSell, SellRun
<1>4. SellRun(h, s, sell, N)
  <2> HIDE DEF N
  <2> QED BY <1>1, MatchesExist
<1> HIDE DEF h
<1>5. h = [m \in 0 .. N |-> IF m = 0 THEN a ELSE MatchLot(h[m - 1], sell)]
  BY <1>4 DEF SellRun
<1> HIDE DEF a, N
<1>6. CASE s.queue = <<>>
  <2>1. h[N] = a
    BY <1>1, <1>5, <1>6
  <2> QED BY <1>2, <1>3, <1>6, <2>1
<1>7. CASE s.queue # <<>>
  <2> DEFINE K == {m \in Nat : m + 1 <= N => h[m + 1] = Sold(s, sell)}
  <2>1. MatchLot(a, sell) = Sold(s, sell) /\ Sold(s, sell) \in Stand /\ Sold(s, sell).left = 0
    <3>1. MatchLot(a, sell) = Sold(a, sell) /\ MatchLot(a, sell) \in Stand
      BY <1>2, <1>7, OneMatch
    <3>2. Sold(a, sell) = Sold(s, sell)
      BY <1>2, Zenon DEF Sold
    <3> QED BY <3>1, <3>2 DEF Sold
  <2>2. MatchLot(Sold(s, sell), sell) = Sold(s, sell)
    BY <2>1, OneMatch
  <2>3. 0 \in K
    <3>1. N >= 1 => 1 \in 0 .. N /\ h[1] = MatchLot(h[1 - 1], sell) /\ h[0] = a
      BY <1>1, <1>5
    <3> QED BY <1>1, <2>1, <3>1
  <2>4. \A m \in Nat : m \in K => m + 1 \in K
    <3> SUFFICES ASSUME NEW m \in Nat, m \in K, (m + 1) + 1 <= N
                 PROVE  h[(m + 1) + 1] = Sold(s, sell)
      OBVIOUS
    <3>1. h[m + 1] = Sold(s, sell)
      BY <1>1
    <3>2. (m + 1) + 1 \in 0 .. N /\ (m + 1) + 1 # 0 /\ ((m + 1) + 1) - 1 = m + 1
      BY <1>1
    <3>3. h[(m + 1) + 1] = MatchLot(h[((m + 1) + 1) - 1], sell)
      BY <1>5, <3>2
    <3> QED BY <2>2, <3>1, <3>2, <3>3
  <2> HIDE DEF K
  <2>5. \A m \in Nat : m \in K
    BY <2>3, <2>4, NatSetInduction
  <2>6. N - 1 \in Nat /\ (N - 1) + 1 = N
    BY <1>1, <1>7
  <2>7. h[N] = Sold(s, sell)
    BY <1>1, <2>5, <2>6 DEF K
  <2> QED BY <1>3, <1>7, <2>1, <2>7
<1> QED BY <1>6, <1>7

Walked(s, t) == IF t.side = "buy" THEN Bought(s, t) ELSE MatchSell(s, t)

LEMMA WalkedTyped ==
    ASSUME NEW s \in Stand, NEW t, t.at \in Int, t.amount = 1
    PROVE  Walked(s, t) \in Stand
<1>1. CASE t.side = "buy"
  <2>1. [at |-> t.at, amount |-> t.amount] \in UnitLot /\ s.queue \in Seq(UnitLot)
    BY DEF UnitLot, Stand
  <2>2. Append(s.queue, [at |-> t.at, amount |-> t.amount]) \in Seq(UnitLot)
    BY <2>1
  <2>3. Bought(s, t) \in Stand
    BY <2>2 DEF Bought, Stand
  <2> QED BY <1>1, <2>3 DEF Walked
<1>2. CASE t.side # "buy"
  BY <1>2, SellIsOneMatch DEF Walked
<1> QED BY <1>1, <1>2

Walks(h, q) ==
    h = [k \in 0 .. Len(q) |->
            IF k = 0 THEN NothingBought
            ELSE IF q[k].side = "buy" THEN Bought(h[k - 1], q[k])
            ELSE MatchSell(h[k - 1], q[k])]

LEMMA WalksExist == ASSUME NEW q, UnitTape(q) PROVE \E h : Walks(h, q)
<1> DEFINE N == Len(q)
           g == [n \in 1 .. N |-> [x \in Stand |-> Walked(x, q[n])]]
<1>1. N \in Nat /\ \A n \in 1 .. N : q[n].at \in Int /\ q[n].amount = 1
  BY TradeAssumption DEF UnitTape
<1>2. NothingBought \in Stand
  BY DEF Stand, NothingBought
<1>3. g \in [1 .. N -> [Stand -> Stand]]
  BY <1>1, WalkedTyped
<1>4. \A n \in 1 .. N : \A x \in Stand : g[n][x] = Walked(x, q[n])
  OBVIOUS
<1> HIDE DEF g, N
<1>5. PICK h \in [0 .. N -> Stand] : Iterates(h, g, NothingBought, N)
  BY <1>1, <1>2, <1>3, IterationExists
<1>6. h = [n \in 0 .. N |-> IF n = 0 THEN NothingBought ELSE g[n][h[n - 1]]]
  BY <1>5 DEF Iterates
<1>7. \A n \in 0 .. N : n # 0 => n \in 1 .. N /\ n - 1 \in 0 .. N
  BY <1>1
<1>8. \A n \in 0 .. N : n # 0 => g[n][h[n - 1]] = Walked(h[n - 1], q[n])
  BY <1>4, <1>7
<1>9. h = [n \in 0 .. N |-> IF n = 0 THEN NothingBought ELSE Walked(h[n - 1], q[n])]
  BY <1>6, <1>8
<1> QED BY <1>9, Zenon DEF Walks, Walked, N

\* What the walk over a tape does, step by step.
LEMMA WalkIs ==
    ASSUME NEW q, UnitTape(q)
    PROVE  /\ \A k \in 0 .. Len(q) : Walk(q)[k] \in Stand
           /\ Walk(q)[0] = NothingBought
           /\ \A k \in 1 .. Len(q) : Walk(q)[k] = Walked(Walk(q)[k - 1], q[k])
<1> DEFINE N == Len(q)
           h == CHOOSE h : Walks(h, q)
<1>1. N \in Nat /\ \A n \in 1 .. N : q[n].at \in Int /\ q[n].amount = 1
  BY TradeAssumption DEF UnitTape
<1>2. Walk(q) = h
  BY DEF Walk, Walks
<1>3. Walks(h, q)
  BY WalksExist
<1> HIDE DEF h
<1>4. h = [k \in 0 .. N |-> IF k = 0 THEN NothingBought ELSE Walked(h[k - 1], q[k])]
  BY <1>3, Zenon DEF Walks, Walked
<1> HIDE DEF N
<1>5. h[0] = NothingBought
  BY <1>1, <1>4
<1>6. \A k \in 1 .. N : h[k] = Walked(h[k - 1], q[k])
  <2> SUFFICES ASSUME NEW k \in 1 .. N PROVE h[k] = Walked(h[k - 1], q[k])
    OBVIOUS
  <2>1. k \in 0 .. N /\ k # 0
    BY <1>1
  <2> QED BY <1>4, <2>1
<1> DEFINE K == {k \in Nat : k <= N => h[k] \in Stand}
<1>7. 0 \in K
  <2>1. NothingBought \in Stand
    BY DEF Stand, NothingBought
  <2> QED BY <1>5, <2>1
<1>8. \A k \in Nat : k \in K => k + 1 \in K
  <2> SUFFICES ASSUME NEW k \in Nat, k \in K, k + 1 <= N PROVE h[k + 1] \in Stand
    OBVIOUS
  <2>1. h[k] \in Stand /\ k + 1 \in 1 .. N /\ (k + 1) - 1 = k
    BY <1>1
  <2>2. h[k + 1] = Walked(h[(k + 1) - 1], q[k + 1])
    BY <1>6, <2>1
  <2> QED BY <1>1, <2>1, <2>2, WalkedTyped
<1> HIDE DEF K
<1>9. \A k \in Nat : k \in K
  BY <1>7, <1>8, NatSetInduction
<1>10. \A k \in 0 .. N : h[k] \in Stand
  BY <1>1, <1>9 DEF K
<1> QED BY <1>2, <1>5, <1>6, <1>10 DEF N

HeldNext(x, t) == IF t.side = "buy" THEN x + 1 ELSE IF x = 0 THEN 0 ELSE x - 1

Holds(h, q) ==
    h = [k \in 0 .. Len(q) |->
            IF k = 0 THEN 0
            ELSE IF q[k].side = "buy" THEN h[k - 1] + 1
            ELSE IF h[k - 1] = 0 THEN 0 ELSE h[k - 1] - 1]

\* What is held after each trade.
LEMMA HeldIs ==
    ASSUME NEW q, UnitTape(q)
    PROVE  /\ \A k \in 0 .. Len(q) : HeldAfter(q)[k] \in Nat
           /\ HeldAfter(q)[0] = 0
           /\ \A k \in 1 .. Len(q) : HeldAfter(q)[k] = HeldNext(HeldAfter(q)[k - 1], q[k])
<1> DEFINE N == Len(q)
           h == CHOOSE h : Holds(h, q)
           g == [n \in 1 .. N |-> [x \in Nat |-> HeldNext(x, q[n])]]
<1>1. N \in Nat
  BY DEF UnitTape
<1>2. HeldAfter(q) = h
  BY DEF HeldAfter, Holds
<1>3. g \in [1 .. N -> [Nat -> Nat]]
  BY DEF HeldNext
<1>4. \A n \in 1 .. N : \A x \in Nat : g[n][x] = HeldNext(x, q[n])
  OBVIOUS
<1> HIDE DEF h, g, N
<1>5. PICK e \in [0 .. N -> Nat] : Iterates(e, g, 0, N)
  BY <1>1, <1>3, IterationExists
<1>6. e = [n \in 0 .. N |-> IF n = 0 THEN 0 ELSE g[n][e[n - 1]]]
  BY <1>5 DEF Iterates
<1>7. \A n \in 0 .. N : n # 0 => n \in 1 .. N /\ n - 1 \in 0 .. N
  BY <1>1
<1>8. \A n \in 0 .. N : n # 0 => g[n][e[n - 1]] = HeldNext(e[n - 1], q[n])
  BY <1>4, <1>7
<1>9. e = [n \in 0 .. N |-> IF n = 0 THEN 0 ELSE HeldNext(e[n - 1], q[n])]
  BY <1>6, <1>8
<1>10. Holds(e, q)
  BY <1>9, Zenon DEF Holds, HeldNext, N
<1>11. Holds(h, q)
  BY <1>10 DEF h
<1>12. h = [k \in 0 .. N |-> IF k = 0 THEN 0 ELSE HeldNext(h[k - 1], q[k])]
  BY <1>11, Zenon DEF Holds, HeldNext, N
<1>13. h[0] = 0
  BY <1>1, <1>12
<1>14. \A k \in 1 .. N : h[k] = HeldNext(h[k - 1], q[k])
  <2> SUFFICES ASSUME NEW k \in 1 .. N PROVE h[k] = HeldNext(h[k - 1], q[k])
    OBVIOUS
  <2>1. k \in 0 .. N /\ k # 0
    BY <1>1
  <2> QED BY <1>12, <2>1
<1> DEFINE K == {k \in Nat : k <= N => h[k] \in Nat}
<1>15. 0 \in K
  BY <1>13
<1>16. \A k \in Nat : k \in K => k + 1 \in K
  <2> SUFFICES ASSUME NEW k \in Nat, k \in K, k + 1 <= N PROVE h[k + 1] \in Nat
    OBVIOUS
  <2>1. h[k] \in Nat /\ k + 1 \in 1 .. N /\ (k + 1) - 1 = k
    BY <1>1
  <2>2. h[k + 1] = HeldNext(h[(k + 1) - 1], q[k + 1])
    BY <1>14, <2>1
  <2> QED BY <2>1, <2>2 DEF HeldNext
<1> HIDE DEF K
<1>17. \A k \in Nat : k \in K
  BY <1>15, <1>16, NatSetInduction
<1>18. \A k \in 0 .. N : h[k] \in Nat
  BY <1>1, <1>17 DEF K
<1> QED BY <1>2, <1>13, <1>14, <1>18 DEF N

Places(pos, m) == {pos[i] : i \in 1 .. m}

\* The m lots of the lots are the buys at pos, and no buy after one of them
\* is missing.
Lots(q, lots, m, k, pos) ==
    /\ pos \in [1 .. m -> 1 .. k]
    /\ Rising(pos, m)
    /\ \A i \in 1 .. m : q[pos[i]].side = "buy" /\ lots[i].at = q[pos[i]].at
    /\ \A j \in 1 .. k : \A i \in 1 .. m :
          q[j].side = "buy" /\ pos[i] <= j => j \in Places(pos, m)

Prolongs(longer, lots, m) == \A i \in 1 .. m : longer[i] = lots[i]

\* A buy adds the newest lot.
LEMMA LotAdded ==
    ASSUME NEW q, NEW lots, NEW m \in Nat, NEW k \in Nat, NEW longer,
           longer[m + 1].at = q[k + 1].at, Prolongs(longer, lots, m),
           NEW pos, Lots(q, lots, m, k, pos), q[k + 1].side = "buy"
    PROVE  \E e : /\ Lots(q, longer, m + 1, k + 1, e)
                  /\ Places(e, m + 1) = Places(pos, m) \cup {k + 1}
                  /\ k + 1 \notin Places(pos, m)
<1> DEFINE e == [i \in 1 .. (m + 1) |-> IF i = m + 1 THEN k + 1 ELSE pos[i]]
<1>1. /\ pos \in [1 .. m -> 1 .. k]
      /\ \A i, j \in 1 .. m : i < j => pos[i] < pos[j]
      /\ \A i \in 1 .. m : q[pos[i]].side = "buy" /\ lots[i].at = q[pos[i]].at
      /\ \A j \in 1 .. k : \A i \in 1 .. m :
            q[j].side = "buy" /\ pos[i] <= j => j \in Places(pos, m)
  BY DEF Lots, Rising
<1>2. longer[m + 1].at = q[k + 1].at /\ \A i \in 1 .. m : longer[i] = lots[i]
  BY DEF Prolongs
<1>3. \A i \in 1 .. m : pos[i] \in 1 .. k /\ pos[i] \in Int /\ pos[i] <= k
  BY <1>1
<1>4. e[m + 1] = k + 1 /\ \A i \in 1 .. m : e[i] = pos[i] /\ i \in 1 .. (m + 1)
  OBVIOUS
<1>5. e \in [1 .. (m + 1) -> 1 .. (k + 1)]
  <2> SUFFICES ASSUME NEW i \in 1 .. (m + 1), i # m + 1 PROVE pos[i] \in 1 .. (k + 1)
    OBVIOUS
  <2>1. i \in 1 .. m
    OBVIOUS
  <2> QED BY <1>3, <2>1
<1> HIDE DEF e
<1>6. \A i \in 1 .. (m + 1) : i \in 1 .. m \/ i = m + 1
  OBVIOUS
<1>7. \A i, j \in 1 .. (m + 1) : i < j => e[i] < e[j]
  <2> SUFFICES ASSUME NEW i \in 1 .. (m + 1), NEW j \in 1 .. (m + 1), i < j PROVE e[i] < e[j]
    OBVIOUS
  <2>1. i \in 1 .. m
    OBVIOUS
  <2>2. CASE j \in 1 .. m
    BY <1>1, <1>4, <2>1, <2>2
  <2>3. CASE j = m + 1
    <3>1. e[i] = pos[i] /\ e[j] = k + 1 /\ pos[i] \in Int /\ pos[i] <= k
      BY <1>3, <1>4, <2>1, <2>3
    <3> QED BY <3>1
  <2> QED BY <1>6, <2>2, <2>3
<1>8. \A i \in 1 .. (m + 1) : q[e[i]].side = "buy" /\ longer[i].at = q[e[i]].at
  <2> SUFFICES ASSUME NEW i \in 1 .. (m + 1)
               PROVE  q[e[i]].side = "buy" /\ longer[i].at = q[e[i]].at
    OBVIOUS
  <2>1. CASE i \in 1 .. m
    BY <1>1, <1>2, <1>4, <2>1
  <2>2. CASE i = m + 1
    BY <1>2, <1>4, <2>2
  <2> QED BY <1>6, <2>1, <2>2
<1>9. \A x : x \in Places(e, m + 1) <=> x \in Places(pos, m) \/ x = k + 1
  <2>1. \A x : x \in Places(e, m + 1) <=> \E i \in 1 .. (m + 1) : e[i] = x
    BY DEF Places
  <2>2. \A x : x \in Places(pos, m) <=> \E i \in 1 .. m : pos[i] = x
    BY DEF Places
  <2>3. m + 1 \in 1 .. (m + 1)
    OBVIOUS
  <2> QED BY <1>4, <1>6, <2>1, <2>2, <2>3
<1>10. k + 1 \notin Places(pos, m)
  BY <1>3 DEF Places
<1>11. \A j \in 1 .. (k + 1) : \A i \in 1 .. (m + 1) :
          q[j].side = "buy" /\ e[i] <= j => j \in Places(e, m + 1)
  <2> SUFFICES ASSUME NEW j \in 1 .. (k + 1), NEW i \in 1 .. (m + 1),
                      q[j].side = "buy", e[i] <= j, j # k + 1
               PROVE  j \in Places(e, m + 1)
    BY <1>9
  <2>1. j \in 1 .. k
    OBVIOUS
  <2>2. CASE i \in 1 .. m
    BY <1>1, <1>4, <1>9, <2>1, <2>2
  <2>3. CASE i = m + 1
    BY <1>4, <2>1, <2>3
  <2> QED BY <1>6, <2>2, <2>3
<1>12. Lots(q, longer, m + 1, k + 1, e)
  BY <1>5, <1>7, <1>8, <1>11 DEF Lots, Rising
<1>13. Places(e, m + 1) = Places(pos, m) \cup {k + 1}
  BY <1>9
<1> QED BY <1>10, <1>12, <1>13

\* A sell takes the oldest lot.
LEMMA LotGone ==
    ASSUME NEW q, NEW lots, NEW m \in Nat, NEW k \in Nat, NEW less,
           \A i \in 1 .. m : less[i] = lots[i + 1],
           NEW pos, Lots(q, lots, m + 1, k, pos), q[k + 1].side # "buy"
    PROVE  \E e : /\ Lots(q, less, m, k + 1, e)
                  /\ Places(pos, m + 1) = Places(e, m) \cup {pos[1]}
                  /\ pos[1] \notin Places(e, m)
<1> DEFINE e == [i \in 1 .. m |-> pos[i + 1]]
<1>1. /\ pos \in [1 .. (m + 1) -> 1 .. k]
      /\ \A i, j \in 1 .. (m + 1) : i < j => pos[i] < pos[j]
      /\ \A i \in 1 .. (m + 1) : q[pos[i]].side = "buy" /\ lots[i].at = q[pos[i]].at
      /\ \A j \in 1 .. k : \A i \in 1 .. (m + 1) :
            q[j].side = "buy" /\ pos[i] <= j => j \in Places(pos, m + 1)
  BY DEF Lots, Rising
<1>2. \A i \in 1 .. m : i + 1 \in 1 .. (m + 1) /\ 1 < i + 1
  OBVIOUS
<1>3. \A i \in 1 .. m : e[i] = pos[i + 1]
  OBVIOUS
<1>4. 1 \in 1 .. (m + 1) /\ \A i \in 1 .. (m + 1) : pos[i] \in 1 .. k /\ pos[i] \in Int
  BY <1>1
<1>5. e \in [1 .. m -> 1 .. (k + 1)]
  <2> SUFFICES ASSUME NEW i \in 1 .. m PROVE pos[i + 1] \in 1 .. (k + 1)
    OBVIOUS
  <2>1. pos[i + 1] \in 1 .. k
    BY <1>2, <1>4
  <2> QED BY <2>1
<1> HIDE DEF e
<1>6. \A i, j \in 1 .. m : i < j => e[i] < e[j]
  <2> SUFFICES ASSUME NEW i \in 1 .. m, NEW j \in 1 .. m, i < j PROVE e[i] < e[j]
    OBVIOUS
  <2>1. i + 1 \in 1 .. (m + 1) /\ j + 1 \in 1 .. (m + 1) /\ i + 1 < j + 1
    OBVIOUS
  <2> QED BY <1>1, <1>3, <2>1
<1>7. \A i \in 1 .. m : q[e[i]].side = "buy" /\ less[i].at = q[e[i]].at
  BY <1>1, <1>2, <1>3
<1>8. \A x : x \in Places(pos, m + 1) <=> x \in Places(e, m) \/ x = pos[1]
  <2>1. \A x : x \in Places(pos, m + 1) <=> \E i \in 1 .. (m + 1) : pos[i] = x
    BY DEF Places
  <2>2. \A x : x \in Places(e, m) <=> \E i \in 1 .. m : e[i] = x
    BY DEF Places
  <2>3. ASSUME NEW i \in 1 .. (m + 1) PROVE i = 1 \/ \E j \in 1 .. m : pos[i] = e[j]
    <3> SUFFICES ASSUME i # 1 PROVE \E j \in 1 .. m : pos[i] = e[j]
      OBVIOUS
    <3>1. i - 1 \in 1 .. m /\ (i - 1) + 1 = i
      OBVIOUS
    <3>2. e[i - 1] = pos[(i - 1) + 1]
      BY <1>3, <3>1
    <3> QED BY <3>1, <3>2
  <2> QED BY <1>2, <1>3, <1>4, <2>1, <2>2, <2>3
<1>9. pos[1] \notin Places(e, m)
  <2> SUFFICES ASSUME NEW i \in 1 .. m PROVE e[i] # pos[1]
    BY DEF Places
  <2>1. pos[1] < pos[i + 1] /\ pos[1] \in Int /\ pos[i + 1] \in Int
    BY <1>1, <1>2, <1>4
  <2> QED BY <1>3, <2>1
<1>10. \A j \in 1 .. (k + 1) : \A i \in 1 .. m :
          q[j].side = "buy" /\ e[i] <= j => j \in Places(e, m)
  <2> SUFFICES ASSUME NEW j \in 1 .. (k + 1), NEW i \in 1 .. m,
                      q[j].side = "buy", e[i] <= j
               PROVE  j \in Places(e, m)
    OBVIOUS
  <2>1. j # k + 1 /\ j \in 1 .. k
    OBVIOUS
  <2>2. i + 1 \in 1 .. (m + 1) /\ pos[i + 1] <= j
    BY <1>2, <1>3
  <2>3. j \in Places(pos, m + 1)
    BY <1>1, <2>1, <2>2
  <2>4. pos[1] < pos[i + 1] /\ pos[1] \in Int /\ pos[i + 1] \in Int
    BY <1>1, <1>2, <1>4
  <2>5. j # pos[1]
    BY <2>2, <2>4
  <2> QED BY <1>8, <2>3, <2>5
<1>11. Lots(q, less, m, k + 1, e)
  BY <1>5, <1>6, <1>7, <1>10 DEF Lots, Rising
<1>12. Places(pos, m + 1) = Places(e, m) \cup {pos[1]}
  BY <1>8
<1> QED BY <1>9, <1>11, <1>12

\* How long a trade is ago at LastTick, and the change of the stock it made
\* times that.
Age(q) == [j \in 1 .. Len(q) |-> LastTick - q[j].at]

StockWorth(q) == [j \in 1 .. Len(q) |-> (HeldAfter(q)[j] - HeldAfter(q)[j - 1]) * (LastTick - q[j].at)]

\* The lots in the lots after k trades: as many as held, and with them the
\* hours add up.
Accounted(q, k, pos) ==
    LET s == Walk(q)[k]
        m == Len(s.queue)
    IN  /\ Lots(q, s.queue, m, k, pos)
        /\ m = HeldAfter(q)[k]
        /\ Cardinality(Places(pos, m)) = m
        /\ s.hours + Total(Age(q), Places(pos, m)) = Total(StockWorth(q), 1 .. k)

LEMMA PlacesFinite ==
    ASSUME NEW m \in Nat, NEW k \in Nat, NEW pos \in [1 .. m -> 1 .. k]
    PROVE  IsFiniteSet(Places(pos, m)) /\ Places(pos, m) \subseteq 1 .. k
<1>1. Places(pos, m) \subseteq 1 .. k
  BY DEF Places
<1>2. IsFiniteSet(1 .. k)
  BY FS_Interval
<1> QED BY <1>1, <1>2, FS_Subset

LEMMA TapeTyped ==
    ASSUME NEW q, UnitTape(q)
    PROVE  /\ Len(q) \in Nat /\ LastTick \in Nat
           /\ \A j \in 1 .. Len(q) : q[j].at \in Int /\ q[j].amount = 1
           /\ \A j \in 1 .. Len(q) : Age(q)[j] \in Int /\ Age(q)[j] = LastTick - q[j].at
           /\ \A j \in 1 .. Len(q) :
                 /\ q[j].side = "buy" => StockWorth(q)[j] = Age(q)[j]
                 /\ q[j].side # "buy" /\ HeldAfter(q)[j - 1] = 0 => StockWorth(q)[j] = 0
                 /\ q[j].side # "buy" /\ HeldAfter(q)[j - 1] # 0 => StockWorth(q)[j] = -Age(q)[j]
                 /\ StockWorth(q)[j] \in Int
<1>1. /\ Len(q) \in Nat /\ LastTick \in Nat
      /\ \A j \in 1 .. Len(q) : q[j].at \in Int /\ q[j].amount = 1
  BY TradeAssumption DEF UnitTape
<1>2. \A j \in 1 .. Len(q) : Age(q)[j] \in Int /\ Age(q)[j] = LastTick - q[j].at
  BY <1>1 DEF Age
<1>3. ASSUME NEW j \in 1 .. Len(q)
      PROVE  /\ q[j].side = "buy" => StockWorth(q)[j] = Age(q)[j]
             /\ q[j].side # "buy" /\ HeldAfter(q)[j - 1] = 0 => StockWorth(q)[j] = 0
             /\ q[j].side # "buy" /\ HeldAfter(q)[j - 1] # 0 => StockWorth(q)[j] = -Age(q)[j]
             /\ StockWorth(q)[j] \in Int
  <2>1. j - 1 \in 0 .. Len(q)
    BY <1>1
  <2>2. PICK x \in Nat, y \in Nat, a \in Int :
           x = HeldAfter(q)[j - 1] /\ y = HeldAfter(q)[j] /\ a = LastTick - q[j].at
    <3>1. j \in 0 .. Len(q)
      BY <1>1
    <3> QED BY <1>1, <2>1, <3>1, HeldIs
  <2>3. y = HeldNext(x, q[j])
    BY <2>2, HeldIs
  <2>4. StockWorth(q)[j] = (y - x) * a
    BY <2>2 DEF StockWorth
  <2>5. Age(q)[j] = a
    BY <1>2, <2>2
  <2>6. CASE q[j].side = "buy"
    <3>1. y - x = 1
      BY <2>3, <2>6 DEF HeldNext
    <3> QED BY <2>4, <2>5, <2>6, <3>1
  <2>7. CASE q[j].side # "buy" /\ x = 0
    <3>1. y - x = 0
      BY <2>3, <2>7 DEF HeldNext
    <3>2. 0 * a = 0
      OBVIOUS
    <3>3. StockWorth(q)[j] = 0
      BY <2>4, <3>1, <3>2
    <3> QED BY <2>2, <2>7, <3>3
  <2>8. CASE q[j].side # "buy" /\ x # 0
    <3>1. y - x = -1
      BY <2>3, <2>8 DEF HeldNext
    <3> QED BY <2>2, <2>4, <2>5, <2>8, <3>1
  <2> QED BY <2>6, <2>7, <2>8
<1> QED BY <1>1, <1>2, <1>3

\* The account holds before the first trade, and a buy, a sell of a lot and a
\* sell of nothing keep it.
LEMMA AccountOpens ==
    ASSUME NEW q, UnitTape(q)
    PROVE  \E pos : Accounted(q, 0, pos)
<1> DEFINE pos == [i \in 1 .. 0 |-> i]
<1>1. Walk(q)[0] = NothingBought /\ HeldAfter(q)[0] = 0
  BY WalkIs, HeldIs
<1>2. NothingBought.queue = <<>> /\ NothingBought.hours = 0 /\ Len(<<>>) = 0
  BY DEF NothingBought
<1>3. Lots(q, <<>>, 0, 0, pos)
  <2>1. pos \in [1 .. 0 -> 1 .. 0]
    OBVIOUS
  <2> QED BY <2>1 DEF Lots, Rising
<1>4. Places(pos, 0) = {} /\ 1 .. 0 = {}
  BY DEF Places
<1>5. Cardinality({}) = 0 /\ Total(Age(q), {}) = 0 /\ Total(StockWorth(q), {}) = 0
  BY FS_EmptySet, TotalEmpty
<1> HIDE DEF pos
<1>6. Walk(q)[0].queue = <<>> /\ Walk(q)[0].hours = 0
  BY <1>1, <1>2, Zenon
<1>7. 0 + Total(Age(q), Places(pos, 0)) = Total(StockWorth(q), 1 .. 0)
  BY <1>4, <1>5
<1>8. Cardinality(Places(pos, 0)) = 0
  BY <1>4, <1>5
<1>9. Accounted(q, 0, pos)
  BY <1>1, <1>2, <1>3, <1>6, <1>7, <1>8, Zenon DEF Accounted
<1> QED BY <1>9

\* The sum over the trades so far, with one more.
LEMMA WorthOfNext ==
    ASSUME NEW q, UnitTape(q), NEW k \in Nat, k + 1 <= Len(q)
    PROVE  /\ Total(StockWorth(q), 1 .. (k + 1)) = StockWorth(q)[k + 1] + Total(StockWorth(q), 1 .. k)
           /\ Total(StockWorth(q), 1 .. k) \in Int
<1>1. \A j \in 1 .. k : StockWorth(q)[j] \in Int
  BY TapeTyped
<1>2. StockWorth(q)[k + 1] \in Int
  <2>1. k + 1 \in 1 .. Len(q)
    BY TapeTyped
  <2> QED BY <2>1, TapeTyped
<1>3. IsFiniteSet(1 .. k) /\ k + 1 \notin 1 .. k /\ 1 .. (k + 1) = (1 .. k) \cup {k + 1}
  <2>1. IsFiniteSet(1 .. k)
    BY FS_Interval
  <2> QED BY <2>1
<1> QED BY <1>1, <1>2, <1>3, TotalAdd, TotalType

LEMMA AccountBuys ==
    ASSUME NEW q, UnitTape(q), NEW k \in Nat, k + 1 <= Len(q), NEW pos, Accounted(q, k, pos),
           q[k + 1].side = "buy"
    PROVE  \E e : Accounted(q, k + 1, e)
<1>1. k \in 0 .. Len(q) /\ k + 1 \in 1 .. Len(q) /\ k + 1 \in 0 .. Len(q) /\ (k + 1) - 1 = k
  BY TapeTyped
<1>2. PICK s \in Stand : s = Walk(q)[k]
  BY <1>1, WalkIs
<1>3. PICK lots \in Seq(UnitLot), hours \in Int : lots = s.queue /\ hours = s.hours
  BY DEF Stand
<1>4. PICK m \in Nat : m = Len(lots)
  OBVIOUS
<1> DEFINE lot == [at |-> q[k + 1].at, amount |-> q[k + 1].amount]
           P == Places(pos, m)
<1>5. lot \in UnitLot /\ lot.at = q[k + 1].at
  BY <1>1, TapeTyped DEF UnitLot
<1>6. /\ Lots(q, lots, m, k, pos) /\ m = HeldAfter(q)[k] /\ Cardinality(P) = m
      /\ hours + Total(Age(q), P) = Total(StockWorth(q), 1 .. k)
  BY <1>2, <1>3, <1>4 DEF Accounted
<1>7. Walk(q)[k + 1].queue = Append(lots, lot) /\ Walk(q)[k + 1].hours = hours
  <2>1. Walk(q)[k + 1] = Walked(s, q[k + 1])
    BY <1>1, <1>2, WalkIs
  <2>2. Walk(q)[k + 1] = Bought(s, q[k + 1])
    BY <2>1 DEF Walked
  <2> QED BY <1>2, <1>3, <2>2 DEF Bought, Stand
<1>8. HeldAfter(q)[k + 1] = m + 1
  BY <1>1, <1>6, HeldIs DEF HeldNext
<1> HIDE DEF lot
<1>9. PICK e : /\ Lots(q, Append(lots, lot), m + 1, k + 1, e)
               /\ Places(e, m + 1) = P \cup {k + 1} /\ k + 1 \notin P
  <2>1. \E e : /\ Lots(q, Append(lots, lot), m + 1, k + 1, e)
               /\ Places(e, m + 1) = Places(pos, m) \cup {k + 1}
               /\ k + 1 \notin Places(pos, m)
    <3>1. PICK longer : longer = Append(lots, lot)
      OBVIOUS
    <3>2. longer[m + 1].at = q[k + 1].at /\ Prolongs(longer, lots, m)
      BY <1>4, <1>5, <3>1 DEF Prolongs
    <3>3. \E e : /\ Lots(q, longer, m + 1, k + 1, e)
                 /\ Places(e, m + 1) = Places(pos, m) \cup {k + 1}
                 /\ k + 1 \notin Places(pos, m)
      <4>1. Lots(q, lots, m, k, pos) /\ q[k + 1].side = "buy"
        BY <1>6
      <4> HIDE DEF P
      <4> QED BY <3>2, <4>1, LotAdded
    <3> QED BY <3>1, <3>3
  <2> QED BY <2>1
<1>10. IsFiniteSet(P) /\ P \subseteq 1 .. k
  BY <1>6, PlacesFinite DEF Lots
<1>11. Cardinality(P \cup {k + 1}) = m + 1
  <2> HIDE DEF P
  <2> QED BY <1>6, <1>9, <1>10, FS_AddElement
<1>12. Total(Age(q), P \cup {k + 1}) = Age(q)[k + 1] + Total(Age(q), P) /\ Total(Age(q), P) \in Int
  <2>1. (\A j \in P : Age(q)[j] \in Int) /\ Age(q)[k + 1] \in Int
    BY <1>1, <1>10, TapeTyped
  <2> HIDE DEF P
  <2> QED BY <1>9, <1>10, <2>1, TotalAdd, TotalType
<1>13. StockWorth(q)[k + 1] = Age(q)[k + 1] /\ Age(q)[k + 1] \in Int
  BY <1>1, TapeTyped
<1>14. hours + Total(Age(q), P \cup {k + 1}) = Total(StockWorth(q), 1 .. (k + 1))
  BY <1>6, <1>12, <1>13, WorthOfNext
<1>15. Len(Append(lots, lot)) = m + 1
  BY <1>4, <1>5
<1> HIDE DEF P
<1>16. Accounted(q, k + 1, e)
  BY <1>7, <1>8, <1>9, <1>11, <1>14, <1>15, Zenon DEF Accounted
<1> QED BY <1>16

LEMMA AccountSells ==
    ASSUME NEW q, UnitTape(q), NEW k \in Nat, k + 1 <= Len(q), NEW pos, Accounted(q, k, pos),
           q[k + 1].side # "buy", Walk(q)[k].queue # <<>>
    PROVE  \E e : Accounted(q, k + 1, e)
<1>1. k \in 0 .. Len(q) /\ k + 1 \in 1 .. Len(q) /\ k + 1 \in 0 .. Len(q) /\ (k + 1) - 1 = k
  BY TapeTyped
<1>2. PICK s \in Stand : s = Walk(q)[k]
  BY <1>1, WalkIs
<1>3. PICK lots \in Seq(UnitLot), hours \in Int : lots = s.queue /\ hours = s.hours
  BY DEF Stand
<1> DEFINE less == RemoveAt(lots, 1)
<1>4. PICK m \in Nat : Len(lots) = m + 1 /\ Len(less) = m /\ \A i \in 1 .. m : less[i] = lots[i + 1]
  <2>1. lots # <<>>
    BY <1>2, <1>3
  <2>2. /\ Len(lots) \in Nat \ {0} /\ Len(RemoveAt(lots, 1)) = Len(lots) - 1
        /\ \A i \in 1 .. Len(lots) - 1 : RemoveAt(lots, 1)[i] = lots[i + 1]
    BY <2>1, FirstRemoved
  <2>3. PICK m \in Nat : m = Len(lots) - 1
    BY <2>2
  <2>4. Len(lots) = m + 1
    BY <2>2, <2>3
  <2> QED BY <2>2, <2>3, <2>4
<1> DEFINE P == Places(pos, m + 1)
<1>5. /\ Lots(q, lots, m + 1, k, pos) /\ m + 1 = HeldAfter(q)[k] /\ Cardinality(P) = m + 1
      /\ hours + Total(Age(q), P) = Total(StockWorth(q), 1 .. k)
  BY <1>2, <1>3, <1>4 DEF Accounted
<1>6. PICK j \in 1 .. k : j = pos[1] /\ lots[1].at = q[j].at
  <2>1. 1 \in 1 .. (m + 1)
    OBVIOUS
  <2>2. pos[1] \in 1 .. k /\ lots[1].at = q[pos[1]].at
    BY <1>5, <2>1 DEF Lots
  <2> QED BY <2>2
<1>7. PICK then \in Int, now \in Int : then = q[j].at /\ now = q[k + 1].at /\ then <= now
  <2>1. j \in 1 .. Len(q) /\ j <= k + 1
    BY <1>1, <1>6, TapeTyped
  <2>2. q[j].at \in Int /\ q[k + 1].at \in Int
    BY <1>1, <2>1, TapeTyped
  <2>3. q[j].at <= q[k + 1].at
    BY <1>1, <2>1 DEF UnitTape
  <2> QED BY <2>2, <2>3
<1>8. Walk(q)[k + 1].queue = less /\ Walk(q)[k + 1].hours = hours + (now - then)
  <2>1. Walk(q)[k + 1] = Walked(s, q[k + 1])
    BY <1>1, <1>2, WalkIs
  <2>2. q[k + 1].at \in Int /\ q[k + 1].amount = 1 /\ s.queue # <<>>
    BY <1>1, <1>2, TapeTyped
  <2>3. Walk(q)[k + 1] = Sold(s, q[k + 1])
    BY <2>1, <2>2, SellIsOneMatch DEF Walked
  <2>4. /\ Walk(q)[k + 1].queue = RemoveAt(s.queue, 1)
        /\ Walk(q)[k + 1].hours
             = IF q[k + 1].at - s.queue[1].at > 0 THEN s.hours + (q[k + 1].at - s.queue[1].at)
               ELSE s.hours
    BY <2>3 DEF Sold
  <2>5. s.queue[1].at = then /\ q[k + 1].at = now
    BY <1>3, <1>6, <1>7
  <2>6. Walk(q)[k + 1].hours = IF now - then > 0 THEN hours + (now - then) ELSE hours
    BY <1>3, <2>4, <2>5
  <2>7. hours + (now - then) = IF now - then > 0 THEN hours + (now - then) ELSE hours
    BY <1>7
  <2> QED BY <1>3, <2>4, <2>6, <2>7
<1>9. HeldAfter(q)[k + 1] = m
  <2>1. HeldAfter(q)[k + 1] = HeldNext(m + 1, q[k + 1])
    BY <1>1, <1>5, HeldIs
  <2> QED BY <2>1 DEF HeldNext
<1> HIDE DEF less
<1>10. PICK e : /\ Lots(q, less, m, k + 1, e)
                /\ P = Places(e, m) \cup {pos[1]} /\ pos[1] \notin Places(e, m)
  BY <1>4, <1>5, LotGone
<1> DEFINE R == Places(e, m)
<1>11. IsFiniteSet(R) /\ R \subseteq 1 .. (k + 1) /\ P = R \cup {j} /\ j \notin R
  <2>1. R \subseteq 1 .. (k + 1) /\ IsFiniteSet(R)
    <3>1. e \in [1 .. m -> 1 .. (k + 1)] /\ k + 1 \in Nat
      BY <1>10 DEF Lots
    <3> QED BY <3>1, PlacesFinite
  <2> QED BY <1>6, <1>10, <2>1
<1> HIDE DEF P, R
<1>12. Cardinality(R) = m
  <2>1. Cardinality(R) \in Nat /\ Cardinality(R \cup {j}) = Cardinality(R) + 1
    BY <1>11, FS_AddElement, FS_CardinalityType
  <2> QED BY <1>5, <1>11, <2>1
<1>13. Total(Age(q), P) = Age(q)[j] + Total(Age(q), R) /\ Total(Age(q), R) \in Int
  <2>1. (\A i \in R : Age(q)[i] \in Int) /\ Age(q)[j] \in Int
    BY <1>1, <1>6, <1>11, TapeTyped
  <2> QED BY <1>11, <2>1, TotalAdd, TotalType
<1>14. Age(q)[j] = LastTick - then /\ StockWorth(q)[k + 1] = -(LastTick - now)
  <2>1. j \in 1 .. Len(q)
    BY <1>1, <1>6, TapeTyped
  <2>2. HeldAfter(q)[(k + 1) - 1] # 0
    BY <1>1, <1>5
  <2>3. Age(q)[j] = LastTick - then /\ Age(q)[k + 1] = LastTick - now
    BY <1>1, <1>7, <2>1, TapeTyped
  <2> QED BY <1>1, <2>2, <2>3, TapeTyped
<1>15. (hours + (now - then)) + Total(Age(q), R) = Total(StockWorth(q), 1 .. (k + 1))
  <2>1. LastTick \in Int
    BY TapeTyped
  <2>2. PICK a \in Int, b \in Int, c \in Int : 
          a = Total(Age(q), R) /\ b = Total(StockWorth(q), 1 .. k) /\ c = Total(StockWorth(q), 1 .. (k + 1))
    <3>1. StockWorth(q)[k + 1] \in Int
      BY <1>7, <1>14, <2>1
    <3> QED BY <1>13, <3>1, WorthOfNext
  <2>3. c = -(LastTick - now) + b
    BY <1>14, <2>2, WorthOfNext
  <2>4. hours + ((LastTick - then) + a) = b
    BY <1>5, <1>13, <1>14, <2>2
  <2> QED BY <2>1, <2>2, <2>3, <2>4
<1>16. Accounted(q, k + 1, e)
  BY <1>4, <1>8, <1>9, <1>10, <1>12, <1>15, Zenon DEF Accounted, R
<1> QED BY <1>16

LEMMA AccountIdles ==
    ASSUME NEW q, UnitTape(q), NEW k \in Nat, k + 1 <= Len(q), NEW pos, Accounted(q, k, pos),
           q[k + 1].side # "buy", Walk(q)[k].queue = <<>>
    PROVE  \E e : Accounted(q, k + 1, e)
<1>1. k \in 0 .. Len(q) /\ k + 1 \in 1 .. Len(q) /\ (k + 1) - 1 = k
  BY TapeTyped
<1>2. PICK s \in Stand : s = Walk(q)[k]
  BY <1>1, WalkIs
<1>3. PICK hours \in Int : hours = s.hours
  BY DEF Stand
<1> DEFINE e == [i \in 1 .. 0 |-> i]
<1>4. 0 = HeldAfter(q)[k] /\ Len(<<>>) = 0 /\ hours + Total(Age(q), {}) = Total(StockWorth(q), 1 .. k)
  <2>1. Len(<<>>) = 0 /\ Places(pos, 0) = {}
    BY DEF Places
  <2> QED BY <1>2, <1>3, <2>1 DEF Accounted
<1>5. Walk(q)[k + 1].queue = <<>> /\ Walk(q)[k + 1].hours = hours
  <2>1. Walk(q)[k + 1] = Walked(s, q[k + 1])
    BY <1>1, <1>2, WalkIs
  <2>2. q[k + 1].at \in Int /\ q[k + 1].amount = 1 /\ s.queue = <<>>
    BY <1>1, <1>2, TapeTyped
  <2> QED BY <1>3, <2>1, <2>2, SellIsOneMatch DEF Walked
<1>6. HeldAfter(q)[k + 1] = 0 /\ StockWorth(q)[k + 1] = 0
  <2>1. HeldAfter(q)[k + 1] = HeldNext(0, q[k + 1])
    BY <1>1, <1>4, HeldIs
  <2> QED BY <1>1, <1>4, <2>1, TapeTyped DEF HeldNext
<1>7. Lots(q, <<>>, 0, k + 1, e)
  <2>1. e \in [1 .. 0 -> 1 .. (k + 1)]
    OBVIOUS
  <2> QED BY <2>1 DEF Lots, Rising
<1>8. Places(e, 0) = {} /\ Cardinality({}) = 0
  BY FS_EmptySet DEF Places
<1> HIDE DEF e
<1>9. hours + Total(Age(q), {}) = Total(StockWorth(q), 1 .. (k + 1))
  <2>1. Total(StockWorth(q), 1 .. (k + 1)) = 0 + Total(StockWorth(q), 1 .. k) /\ Total(StockWorth(q), 1 .. k) \in Int
    BY <1>6, WorthOfNext
  <2> QED BY <1>4, <2>1
<1>10. Accounted(q, k + 1, e)
  BY <1>4, <1>5, <1>6, <1>7, <1>8, <1>9 DEF Accounted
<1> QED BY <1>10

LEMMA HoursAccounted ==
    ASSUME NEW q, UnitTape(q)
    PROVE  \E pos : Accounted(q, Len(q), pos)
<1> DEFINE K == {k \in Nat : k <= Len(q) => \E pos : Accounted(q, k, pos)}
<1>1. 0 \in K
  BY AccountOpens
<1>2. \A k \in Nat : k \in K => k + 1 \in K
  <2> SUFFICES ASSUME NEW k \in Nat, k \in K, k + 1 <= Len(q)
               PROVE  \E e : Accounted(q, k + 1, e)
    OBVIOUS
  <2>1. k <= Len(q)
    BY TapeTyped
  <2>2. PICK pos : Accounted(q, k, pos)
    BY <2>1
  <2> QED BY <2>2, AccountBuys, AccountSells, AccountIdles
<1> HIDE DEF K
<1>3. \A k \in Nat : k \in K
  BY <1>1, <1>2, NatSetInduction
<1>4. Len(q) \in Nat /\ Len(q) <= Len(q)
  BY TapeTyped
<1> QED BY <1>3, <1>4 DEF K

\* A set of numbers from 1 on without a gap is as long as it is large.
LEMMA NoGap ==
    ASSUME NEW n \in Nat, NEW S \in SUBSET (1 .. n), \A i \in S : \A j \in 1 .. i : j \in S
    PROVE  S = 1 .. Cardinality(S) /\ Cardinality(S) \in 0 .. n
<1>1. IsFiniteSet(S)
  <2>1. IsFiniteSet(1 .. n)
    BY FS_Interval
  <2> QED BY <2>1, FS_Subset
<1>2. CASE S = {}
  <2>1. Cardinality(S) = 0
    BY <1>2, FS_EmptySet
  <2> QED BY <1>2, <2>1
<1>3. CASE S # {}
  <2>1. PICK M \in S : \A y \in S : y <= M
    <3>1. S \subseteq Int
      OBVIOUS
    <3> QED BY <1>1, <1>3, <3>1, GreatestElement
  <2>2. S = 1 .. M /\ M \in 1 .. n
    <3>1. M \in 1 .. n /\ \A j \in 1 .. M : j \in S
      BY <2>1
    <3>2. \A j \in S : j \in 1 .. M
      BY <2>1, <3>1
    <3> QED BY <3>1, <3>2
  <2>3. Cardinality(1 .. M) = M
    BY <2>2, FS_Interval
  <2> QED BY <2>2, <2>3
<1> QED BY <1>2, <1>3

\* What a trade adds to the stock, and what it has added by a tick.
StockChange(q) == [j \in 1 .. Len(q) |-> HeldAfter(q)[j] - HeldAfter(q)[j - 1]]

ChangeBy(q, tick) == [j \in 1 .. Len(q) |-> IF q[j].at <= tick THEN StockChange(q)[j] ELSE 0]

LEMMA MovedTyped ==
    ASSUME NEW q, UnitTape(q)
    PROVE  /\ \A j \in 1 .. Len(q) : /\ StockChange(q)[j] \in Int
                                     /\ StockChange(q)[j] = HeldAfter(q)[j] - HeldAfter(q)[j - 1]
                                     /\ StockWorth(q)[j] = StockChange(q)[j] * (LastTick - q[j].at)
           /\ \A tick, j : j \in 1 .. Len(q) => ChangeBy(q, tick)[j] \in Int
<1>1. ASSUME NEW j \in 1 .. Len(q) PROVE HeldAfter(q)[j] \in Nat /\ HeldAfter(q)[j - 1] \in Nat
  <2>1. j \in 0 .. Len(q) /\ j - 1 \in 0 .. Len(q)
    BY TapeTyped
  <2> QED BY <2>1, HeldIs
<1>2. \A j \in 1 .. Len(q) : StockChange(q)[j] \in Int /\ StockChange(q)[j] = HeldAfter(q)[j] - HeldAfter(q)[j - 1]
  BY <1>1 DEF StockChange
<1>3. \A j \in 1 .. Len(q) : StockWorth(q)[j] = StockChange(q)[j] * (LastTick - q[j].at)
  BY <1>2 DEF StockWorth
<1>4. ASSUME NEW tick, NEW j \in 1 .. Len(q) PROVE ChangeBy(q, tick)[j] \in Int
  BY <1>2 DEF ChangeBy
<1> QED BY <1>2, <1>3, <1>4

LEMMA HeldIsMoved ==
    ASSUME NEW q, UnitTape(q)
    PROVE  \A k \in 0 .. Len(q) : HeldAfter(q)[k] = Total(StockChange(q), 1 .. k)
<1> DEFINE K == {k \in Nat : k <= Len(q) => HeldAfter(q)[k] = Total(StockChange(q), 1 .. k)}
<1>1. 0 \in K
  <2>1. 1 .. 0 = {}
    OBVIOUS
  <2> QED BY <2>1, TotalEmpty, HeldIs
<1>2. \A k \in Nat : k \in K => k + 1 \in K
  <2> SUFFICES ASSUME NEW k \in Nat, k \in K, k + 1 <= Len(q)
               PROVE  HeldAfter(q)[k + 1] = Total(StockChange(q), 1 .. (k + 1))
    OBVIOUS
  <2>1. k \in 0 .. Len(q) /\ k + 1 \in 1 .. Len(q) /\ (k + 1) - 1 = k /\ k + 1 \in 0 .. Len(q)
    BY TapeTyped
  <2>2. IsFiniteSet(1 .. k)
    BY FS_Interval
  <2>3. k + 1 \notin 1 .. k /\ 1 .. (k + 1) = (1 .. k) \cup {k + 1}
    OBVIOUS
  <2>4. (\A j \in 1 .. k : StockChange(q)[j] \in Int) /\ StockChange(q)[k + 1] \in Int
    BY <2>1, MovedTyped
  <2>5. Total(StockChange(q), 1 .. (k + 1)) = StockChange(q)[k + 1] + Total(StockChange(q), 1 .. k)
    BY <2>2, <2>3, <2>4, TotalAdd
  <2>6. StockChange(q)[k + 1] = HeldAfter(q)[k + 1] - HeldAfter(q)[k]
    BY <2>1, MovedTyped
  <2>7. HeldAfter(q)[k + 1] \in Int /\ HeldAfter(q)[k] \in Int
    BY <2>1, HeldIs
  <2>8. HeldAfter(q)[k] = Total(StockChange(q), 1 .. k)
    BY <2>1
  <2> QED BY <2>5, <2>6, <2>7, <2>8
<1> HIDE DEF K
<1>3. \A k \in Nat : k \in K
  BY <1>1, <1>2, NatSetInduction
<1> QED BY <1>3, TapeTyped DEF K

\* The stock at a tick is the sum of the changes up to it.
LEMMA StockIsMoved ==
    ASSUME NEW q, UnitTape(q), NEW tick \in Int
    PROVE  /\ Stock(q, tick) = Total(ChangeBy(q, tick), 1 .. Len(q))
           /\ Stock(q, tick) \in Int
<1> DEFINE S == {k \in 1 .. Len(q) : q[k].at <= tick}
<1>1. PICK n \in Nat : n = Len(q)
  BY TapeTyped
<1>2. PICK c \in 0 .. n : c = Cardinality(S) /\ S = 1 .. c
  <2>1. \A i \in S : \A j \in 1 .. i : j \in S
    <3> SUFFICES ASSUME NEW i \in S, NEW j \in 1 .. i PROVE j \in S
      OBVIOUS
    <3>1. i \in 1 .. n /\ j \in 1 .. n /\ j <= i
      BY <1>1
    <3>2. q[j].at <= q[i].at
      BY <1>1, <3>1 DEF UnitTape
    <3>3. q[j].at \in Int /\ q[i].at \in Int /\ q[i].at <= tick
      BY <1>1, <3>1, TapeTyped
    <3>4. q[j].at <= tick
      BY <3>2, <3>3
    <3> QED BY <1>1, <3>1, <3>4
  <2>2. S \in SUBSET (1 .. n)
    BY <1>1
  <2> HIDE DEF S
  <2> QED BY <2>1, <2>2, NoGap
<1>3. Stock(q, tick) = HeldAfter(q)[c]
  BY <1>2 DEF Stock
<1>4. \A j \in 1 .. n : j \in 1 .. c <=> q[j].at <= tick
  BY <1>1, <1>2
<1> HIDE DEF S
<1>5. HeldAfter(q)[c] = Total(StockChange(q), 1 .. c) /\ HeldAfter(q)[c] \in Int
  BY <1>1, HeldIsMoved, HeldIs
<1>6. 1 .. c \subseteq 1 .. n /\ IsFiniteSet(1 .. n) /\ IsFiniteSet(1 .. c)
  <2>1. IsFiniteSet(1 .. n) /\ IsFiniteSet(1 .. c)
    BY FS_Interval
  <2> QED BY <2>1
<1>7. /\ \A j \in 1 .. c : ChangeBy(q, tick)[j] = StockChange(q)[j] /\ StockChange(q)[j] \in Int
      /\ \A j \in (1 .. n) \ (1 .. c) : ChangeBy(q, tick)[j] = 0
      /\ \A j \in 1 .. n : ChangeBy(q, tick)[j] \in Int
  <2>1. \A j \in 1 .. n : ChangeBy(q, tick)[j] = IF q[j].at <= tick THEN StockChange(q)[j] ELSE 0
    BY <1>1 DEF ChangeBy
  <2>2. \A j \in 1 .. n : StockChange(q)[j] \in Int /\ ChangeBy(q, tick)[j] \in Int
    BY <1>1, MovedTyped
  <2> QED BY <1>4, <1>6, <2>1, <2>2
<1>8. Total(StockChange(q), 1 .. c) = Total(ChangeBy(q, tick), 1 .. c)
  BY <1>6, <1>7, TotalEqual
<1>9. Total(ChangeBy(q, tick), 1 .. n) = Total(ChangeBy(q, tick), 1 .. c)
  BY <1>6, <1>7, TotalWithout
<1> QED BY <1>1, <1>3, <1>5, <1>8, <1>9

\* Over all ticks, a trade counts from its own tick on.
LEMMA StockAddsUp ==
    ASSUME NEW q, UnitTape(q)
    PROVE  SumOf([tick \in 1 .. LastTick - 1 |-> Stock(q, tick)]) = Total(StockWorth(q), 1 .. Len(q))
<1> DEFINE T == 1 .. LastTick - 1
           stock == [tick \in T |-> Stock(q, tick)]
           f == [tick \in T |-> ChangeBy(q, tick)]
           column == [j \in 1 .. Len(q) |-> [tick \in T |-> ChangeBy(q, tick)[j]]]
<1>1. PICK n \in Nat : n = Len(q)
  BY TapeTyped
<1>2. IsFiniteSet(T) /\ IsFiniteSet(1 .. n) /\ T \subseteq Int
  <2>1. LastTick - 1 \in Int
    BY TapeTyped
  <2> QED BY <2>1, FS_Interval
<1>3. SumOf(stock) = Total(stock, T)
  BY DEF SumOf, Total
<1>4. RowSums(stock, f, T, 1 .. n)
  BY <1>1, <1>2, StockIsMoved DEF RowSums
<1>5. Transposed(f, column, T, 1 .. n)
  BY <1>1 DEF Transposed
<1>6. \A tick \in T : \A j \in 1 .. n : f[tick][j] \in Int
  BY <1>1, MovedTyped
<1>7. RowSums(StockWorth(q), column, 1 .. n, T)
  <2> SUFFICES ASSUME NEW j \in 1 .. n PROVE StockWorth(q)[j] = Total(column[j], T)
    BY DEF RowSums
  <2>1. PICK a \in Nat, L \in Nat, d \in Int :
          /\ a = q[j].at /\ L = LastTick /\ d = StockChange(q)[j] /\ 1 <= a /\ a <= L
          /\ StockWorth(q)[j] = d * (L - a)
    <3>1. q[j].at \in 1 .. LastTick /\ LastTick \in Nat
      BY <1>1, TapeTyped DEF UnitTape
    <3>2. StockChange(q)[j] \in Int /\ StockWorth(q)[j] = StockChange(q)[j] * (LastTick - q[j].at)
      BY <1>1, MovedTyped
    <3>3. q[j].at \in Nat /\ 1 <= q[j].at /\ q[j].at <= LastTick
      BY <3>1
    <3> QED BY <3>1, <3>2, <3>3
  <2> DEFINE c == column[j]
  <2>2. \A tick \in T : c[tick] = IF a <= tick THEN d ELSE 0
    BY <1>1, <2>1 DEF ChangeBy
  <2>3. T = 1 .. (L - 1) /\ a .. (L - 1) \subseteq T
    BY <2>1
  <2> HIDE DEF c, T
  <2>4. Total(c, T) = Total(c, a .. (L - 1))
    <3>1. \A tick \in T : c[tick] \in Int
      BY <2>2
    <3>2. \A tick \in T \ (a .. (L - 1)) : c[tick] = 0
      BY <2>2, <2>3
    <3> QED BY <1>2, <2>3, <3>1, <3>2, TotalWithout
  <2>5. Total(c, a .. (L - 1)) = d * Cardinality(a .. (L - 1))
    <3>1. \A tick \in a .. (L - 1) : c[tick] = d
      BY <2>2, <2>3
    <3>2. IsFiniteSet(a .. (L - 1))
      BY FS_Interval
    <3> QED BY <3>1, <3>2, TotalConstant
  <2>6. Cardinality(a .. (L - 1)) = L - a
    <3>1. Cardinality(a .. (L - 1)) = IF a > L - 1 THEN 0 ELSE (L - 1) - a + 1
      BY FS_Interval
    <3> QED BY <2>1, <3>1
  <2> QED BY <2>1, <2>4, <2>5, <2>6 DEF c
<1> HIDE DEF T, stock, f, column
<1>8. Total(stock, T) = Total(StockWorth(q), 1 .. n)
  <2>1. PICK N, worth : N = 1 .. n /\ worth = StockWorth(q)
    OBVIOUS
  <2>2. IsFiniteSet(N) /\ RowSums(stock, f, T, N) /\ Transposed(f, column, T, N)
    BY <2>1, <1>2, <1>4, <1>5
  <2>3. (\A tick \in T : \A j \in N : f[tick][j] \in Int) /\ RowSums(worth, column, N, T)
    BY <2>1, <1>6, <1>7
  <2>4. IsFiniteSet(T)
    BY <1>2
  <2>5. Total(stock, T) = Total(worth, N)
    BY <2>2, <2>3, <2>4, TotalSwap
  <2> QED BY <2>1, <2>5
<1> QED BY <1>1, <1>3, <1>8 DEF stock, T

\* The lots in the lots at the end are the last ones bought.
LEMMA QueueIsUnsold ==
    ASSUME NEW q, UnitTape(q), NEW pos, Accounted(q, Len(q), pos)
    PROVE  Unsold(q) = Places(pos, HeldAfter(q)[Len(q)])
<1>1. PICK n \in Nat : n = Len(q)
  BY TapeTyped
<1>2. PICK m \in Nat : m = HeldAfter(q)[n]
  BY <1>1, HeldIs
<1> DEFINE P == Places(pos, m)
           lots == Walk(q)[n].queue
<1>3. Lots(q, lots, m, n, pos) /\ Cardinality(P) = m
  BY <1>1, <1>2 DEF Accounted
<1>4. IsFiniteSet(P) /\ P \subseteq 1 .. n
  BY <1>3, PlacesFinite DEF Lots
<1>5. Stock(q, LastTick) = m
  <2> DEFINE S == {k \in 1 .. n : q[k].at <= LastTick}
  <2>1. S = 1 .. n
    BY <1>1 DEF UnitTape
  <2>2. Cardinality(1 .. n) = n
    BY FS_Interval
  <2> QED BY <1>1, <1>2, <2>1, <2>2 DEF Stock
<1>6. \A j \in P : q[j].side = "buy" /\ j \in 1 .. n
  BY <1>3, <1>4 DEF Lots, Places
<1>7. \A i \in P : \A j \in 1 .. n : q[j].side = "buy" /\ i <= j => j \in P
  BY <1>3 DEF Lots, Places
<1>8. \A k : \A j : j \in BuysFrom(q, k) <=> j \in k .. n /\ q[j].side = "buy"
  BY <1>1 DEF BuysFrom
<1> HIDE DEF P
<1>9. ASSUME NEW k \in 1 .. n
      PROVE  IsFiniteSet(BuysFrom(q, k)) /\ BuysFrom(q, k) \subseteq 1 .. n
  <2>1. BuysFrom(q, k) \subseteq 1 .. n
    BY <1>8
  <2>2. IsFiniteSet(1 .. n)
    BY FS_Interval
  <2> QED BY <2>1, <2>2, FS_Subset
<1>10. ASSUME NEW k \in P PROVE Cardinality(BuysFrom(q, k)) <= m
  <2>1. BuysFrom(q, k) \subseteq P
    BY <1>6, <1>7, <1>8
  <2> QED BY <1>3, <1>4, <2>1, FS_Subset
<1>11. ASSUME NEW k \in 1 .. n, q[k].side = "buy", k \notin P
       PROVE  ~(Cardinality(BuysFrom(q, k)) <= m)
  <2>1. P \cup {k} \subseteq BuysFrom(q, k)
    <3>1. \A i \in P : k <= i
      BY <1>6, <1>7, <1>11
    <3> QED BY <1>6, <1>8, <1>11, <3>1
  <2>2. Cardinality(P \cup {k}) = m + 1
    BY <1>3, <1>4, <1>11, FS_AddElement
  <2>3. Cardinality(P \cup {k}) <= Cardinality(BuysFrom(q, k))
    BY <1>9, <2>1, FS_Subset
  <2>4. Cardinality(BuysFrom(q, k)) \in Nat
    BY <1>9, FS_CardinalityType
  <2> QED BY <2>2, <2>3, <2>4
<1>12. \A k : k \in BuysFrom(q, 1) <=> k \in 1 .. n /\ q[k].side = "buy"
  BY <1>8
<1>13. Unsold(q) = P
  BY <1>5, <1>6, <1>10, <1>11, <1>12 DEF Unsold
<1> QED BY <1>1, <1>2, <1>13 DEF P

\* The account of the whole tape, its contributions summed by tick.
LEMMA HoursAreStockTime ==
    ASSUME NEW q, UnitTape(q)
    PROVE  Walk(q)[Len(q)].hours
             = SumOf([tick \in 1 .. LastTick - 1 |-> Stock(q, tick)])
                 - SumOf([k \in Unsold(q) |-> LastTick - q[k].at])
<1>1. PICK n \in Nat : n = Len(q)
  BY TapeTyped
<1>2. PICK pos : Accounted(q, n, pos)
  BY <1>1, HoursAccounted
<1>3. PICK m \in Nat : m = HeldAfter(q)[n]
  BY <1>1, HeldIs
<1> DEFINE P == Places(pos, m)
           ages == [k \in P |-> LastTick - q[k].at]
<1>4. Walk(q)[n].hours + Total(Age(q), P) = Total(StockWorth(q), 1 .. n)
  BY <1>2, <1>3 DEF Accounted
<1>5. Lots(q, Walk(q)[n].queue, m, n, pos)
  BY <1>2, <1>3 DEF Accounted
<1>6. IsFiniteSet(P) /\ P \subseteq 1 .. n
  BY <1>5, PlacesFinite DEF Lots
<1>7. Unsold(q) = P
  BY <1>1, <1>2, <1>3, QueueIsUnsold
<1>8. SumOf(ages) = Total(ages, P)
  BY DEF SumOf, Total
<1>9. \A k \in P : Age(q)[k] \in Int /\ Age(q)[k] = ages[k]
  BY <1>1, <1>6, TapeTyped
<1> HIDE DEF P
<1>10. [k \in Unsold(q) |-> LastTick - q[k].at] = ages
  BY <1>7
<1> HIDE DEF ages
<1>11. Total(Age(q), P) = Total(ages, P) /\ Total(Age(q), P) \in Int
  BY <1>6, <1>9, TotalEqual, TotalType
<1>12. Walk(q)[n].hours \in Int
  <2>1. Walk(q)[n] \in Stand
    BY <1>1, WalkIs
  <2> QED BY <2>1 DEF Stand
<1>13. PICK x \in Int, y \in Int : x = Walk(q)[n].hours /\ y = SumOf(ages)
  BY <1>8, <1>11, <1>12
<1>14. SumOf([tick \in 1 .. LastTick - 1 |-> Stock(q, tick)]) = x + y
  BY <1>1, <1>4, <1>8, <1>11, <1>13, StockAddsUp
<1>15. x = (x + y) - y
  BY <1>13
<1> QED BY <1>1, <1>10, <1>13, <1>14, <1>15

LEMMA HoldingFollows == ASSUME TradeTyped PROVE HoldingIsStockTime
<1> SUFFICES ASSUME NEW c \in Traders, NEW coin,
                    UnitLots(trades[c], CoinTrades(trades[c], coin))
             PROVE  LET sorted == ByTime(trades[c], CoinTrades(trades[c], coin))
                    IN  Holding(trades[c], coin).hours
                          = SumOf([tick \in 1 .. LastTick - 1 |-> Stock(sorted, tick)])
                              - SumOf([k \in Unsold(sorted) |-> LastTick - sorted[k].at])
  BY DEF HoldingIsStockTime
<1>1. PICK file \in Seq(TradeRows) : file = trades[c]
  BY DEF TradeTyped
<1>2. PICK own \in SUBSET DOMAIN file : own = CoinTrades(file, coin)
  BY DEF CoinTrades
<1>3. PICK q : q = ByTime(file, own)
  OBVIOUS
<1>4. UnitTape(q)
  BY <1>1, <1>2, <1>3, ByTimeIsTape
<1>5. Holding(file, coin).hours = Walk(q)[Len(q)].hours
  BY <1>2, <1>3 DEF Holding
<1> QED BY <1>1, <1>2, <1>3, <1>4, <1>5, HoursAreStockTime

\* The holding hours of lots of one size are the time something was held,
\* less the age of what still is (HoldingIsStockTime).
THEOREM HoursAreHeld == TradeSpec => []HoldingIsStockTime
BY FilesStayTyped, HoldingFollows, PTL

-----------------------------------------------------------------------------
(***************************************************************************)
(* The curve and the transfers: TransferViewsAgree and                     *)
(* PerformanceIgnoresCash for curves of any length, any amounts, prices    *)
(* and threshold.                                                          *)
(*                                                                         *)
(* What both rest on is that every point follows from the one before by    *)
(* the day's trading and its two flows (Follows), and that a source says   *)
(* of a day at most one amount in each currency.                           *)
(***************************************************************************)

CurvePoint ==
    [equity : Nat, usdt : Int, price : Nat \ {0}, coins : Int, cash : Int, gain : Int,
     flagged : BOOLEAN]

UsdStep(p, q) ==
    q.usdt = 0 /\ q.price = 1 /\ q.coins = 0 /\ q.equity = p.equity + q.gain + q.cash

BtcStep(p, q) ==
    /\ q.equity = p.equity + q.coins
    /\ \E sent \in Int : q.cash = sent * q.price /\ q.usdt = p.usdt + (q.gain + sent) * q.price

Follows(kind, p, q) == IF kind = "usd" THEN UsdStep(p, q) ELSE BtcStep(p, q)

OpensCurve(kind, p) ==
    /\ p.usdt = 0 /\ p.gain = 0
    /\ kind = "usd" => p.price = 1 /\ p.coins = 0 /\ p.cash = IF p.flagged THEN p.equity ELSE 0
    /\ kind = "btc" => p.cash = 0 /\ p.coins = IF p.flagged THEN p.equity ELSE 0

CurveInv ==
    /\ account \in {"usd", "btc"}
    /\ curve \in Seq(CurvePoint) /\ curve # <<>>
    /\ OpensCurve(account, curve[1])
    /\ \A i \in 2 .. Len(curve) : Follows(account, curve[i - 1], curve[i])

\* What the curve says of a day.
Own(i) == IF i = 1 THEN DayOneDeposits ELSE CurveTransfers(i)

\* The records of the first n days: each is one its source has for the day; no
\* day has records of both sources; a day without one of the exchange has all
\* the curve's, which tells of nothing before its second point.
RowsRight(rows, n) ==
    /\ \A r \in rows : r.day \in 1 .. n /\ r.id \in {"tx", "eq"} /\ (r.id = "eq" => r.ok)
    /\ \A r \in rows : r.ok => r \in IF r.id = "tx" THEN AtExchange(r.day) ELSE Own(r.day)
    /\ \A r, s \in rows : r.day = s.day => r.id = s.id
    /\ n >= 2 => \A i \in 1 .. n : Own(i) \subseteq rows \/ \E r \in rows : r.id = "tx" /\ r.day = i

CcxtInv ==
    \A r \in ccxt : r.day \in 1 .. Len(curve) /\ r.id = "tx" /\ (r.ok => r \in AtExchange(r.day))

CacheInv ==
    cache # NotRead => cache.days \in 1 .. Len(curve) /\ RowsRight(cache.rows, cache.days)

TransferInv == CurveInv /\ CcxtInv /\ CacheInv

-----------------------------------------------------------------------------
\* Moving whole units of the price moves the quotient by as many.
LEMMA QuotientMoves ==
    ASSUME NEW a \in Int, NEW k \in Int, NEW p \in Nat \ {0}
    PROVE  (a + k * p) \div p = a \div p + k
<1>1. PICK z \in Int : a \div p = z
  OBVIOUS
<1>2. p * z <= a /\ a < p * z + p
  BY <1>1
<1>3. PICK y \in Int : y = z + k
  OBVIOUS
<1>4. PICK x \in Int : x = a + k * p
  OBVIOUS
<1>5. p * y = p * z + k * p
  BY <1>3
<1>6. p * y <= x /\ x < p * y + p
  BY <1>2, <1>4, <1>5
<1>7. x \div p = y
  BY <1>6
<1> QED BY <1>1, <1>3, <1>4, <1>7

LEMMA PointsTyped ==
    ASSUME CurveInv
    PROVE  /\ Len(curve) \in Nat \ {0} /\ Days = 1 .. Len(curve) /\ IsFiniteSet(Days) /\ 1 \in Days
           /\ \A i \in Days : curve[i] \in CurvePoint
           /\ \A i \in Days : i # 1 => i - 1 \in Days /\ Follows(account, curve[i - 1], curve[i])
           /\ Latest \in CurvePoint /\ Noise \in Nat
<1>1. curve \in Seq(CurvePoint) /\ curve # <<>>
  BY DEF CurveInv
<1>2. Len(curve) \in Nat \ {0} /\ \A i \in 1 .. Len(curve) : curve[i] \in CurvePoint
  BY <1>1
<1>3. Latest \in CurvePoint
  BY <1>2 DEF Latest
<1>4. Days = 1 .. Len(curve) /\ 1 \in Days
  BY <1>2 DEF Days
<1>5. ASSUME NEW i \in Days, i # 1 PROVE i - 1 \in Days /\ Follows(account, curve[i - 1], curve[i])
  <2>1. i \in 2 .. Len(curve) /\ i - 1 \in 1 .. Len(curve)
    BY <1>2, <1>4, <1>5
  <2> QED BY <1>4, <2>1 DEF CurveInv
<1> QED BY <1>2, <1>3, <1>4, <1>5, FS_Interval, PerfAssumption

LEMMA FlowTimesPrice ==
    ASSUME NEW k \in Int, NEW p \in Nat \ {0}
    PROVE  k * p \in Int /\ (k * p) \div p = k /\ (k # 0 => k * p # 0) /\ 0 \div p = 0
<1>1. PICK x \in Int : x = k * p
  OBVIOUS
<1>2. (0 + k * p) \div p = 0 \div p + k
  BY QuotientMoves
<1>3. 0 \div p = 0
  OBVIOUS
<1>4. x \div p = k
  BY <1>1, <1>2, <1>3
<1> QED BY <1>1, <1>3, <1>4

\* A point by its fields.
LEMMA PointFields ==
    ASSUME CurveInv, NEW i \in Days
    PROVE  /\ curve[i].equity \in Nat /\ curve[i].usdt \in Int /\ curve[i].price \in Nat \ {0}
           /\ curve[i].coins \in Int /\ curve[i].cash \in Int /\ curve[i].gain \in Int
           /\ curve[i].flagged \in BOOLEAN
BY PointsTyped DEF CurvePoint

\* What trading and a transfer of USDT made of a day of a BTC account.
LEMMA BtcStepIs ==
    ASSUME CurveInv, NEW i \in Days, i # 1, account = "btc"
    PROVE  /\ i - 1 \in Days /\ curve[i].equity = curve[i - 1].equity + curve[i].coins
           /\ \E sent \in Int, earned \in Int :
                 /\ curve[i].cash = sent * curve[i].price /\ sent = curve[i].cash \div curve[i].price
                 /\ earned = curve[i].gain * curve[i].price
                 /\ curve[i].usdt - curve[i - 1].usdt = earned + curve[i].cash
                 /\ curve[i].usdt - curve[i - 1].usdt = (curve[i].gain + sent) * curve[i].price
                 /\ curve[i].usdt = curve[i - 1].usdt + (curve[i].gain + sent) * curve[i].price
<1>1. i - 1 \in Days /\ BtcStep(curve[i - 1], curve[i])
  BY PointsTyped DEF Follows
<1>2. PICK price \in Nat \ {0}, gain \in Int, now \in Int, was \in Int, cash \in Int :
        /\ price = curve[i].price /\ gain = curve[i].gain /\ cash = curve[i].cash
        /\ now = curve[i].usdt /\ was = curve[i - 1].usdt
  BY <1>1, PointFields
<1>3. PICK sent \in Int : cash = sent * price /\ now = was + (gain + sent) * price
  BY <1>1, <1>2 DEF BtcStep
<1>4. sent = cash \div price
  BY <1>3, FlowTimesPrice
<1>5. PICK earned \in Int, both \in Int : earned = gain * price /\ both = (gain + sent) * price
  OBVIOUS
<1>6. both = earned + cash
  BY <1>3, <1>5
<1>7. now - was = both
  BY <1>3, <1>5
<1>8. curve[i].equity = curve[i - 1].equity + curve[i].coins
  BY <1>1 DEF BtcStep
<1> QED BY <1>1, <1>2, <1>3, <1>4, <1>5, <1>6, <1>7, <1>8

-----------------------------------------------------------------------------
\* The amounts of the curve's records of a day.
OwnCoins(i) ==
    IF account = "usd" \/ ~curve[i].flagged THEN 0
    ELSE IF i = 1 THEN curve[1].equity ELSE curve[i].equity - curve[i - 1].equity

OwnCash(i) ==
    LET change == curve[i].usdt - curve[i - 1].usdt
    IN  IF account = "usd" THEN curve[i].cash
        ELSE IF i = 1 \/ ~curve[i].flagged \/ ~(Size(change) > Noise) THEN 0
        ELSE change

\* What the curve tells of a day is its flow at its price.
LEMMA OwnAmounts ==
    ASSUME CurveInv, NEW i \in Days
    PROVE  /\ OwnCoins(i) \in Int /\ OwnCash(i) \in Int
           /\ OwnCash(i) = (OwnCash(i) \div curve[i].price) * curve[i].price
           /\ DayFlow(i) = OwnCoins(i) + OwnCash(i) \div curve[i].price
           /\ Own(i) = NonZero({OfCurve(i, "BTC", OwnCoins(i)), OfCurve(i, "USDT", OwnCash(i))})
<1>1. /\ curve[i].equity \in Nat /\ curve[i].usdt \in Int /\ curve[i].price \in Nat \ {0}
      /\ curve[i].coins \in Int /\ curve[i].cash \in Int /\ curve[i].flagged \in BOOLEAN
      /\ account \in {"usd", "btc"} /\ Noise \in Nat
  BY PointFields, PointsTyped DEF CurveInv
<1>2. 0 \div curve[i].price = 0 /\ 0 * curve[i].price = 0
  BY <1>1
<1>3. CASE account = "usd"
  <2>1. curve[i].price = 1
    <3>1. CASE i = 1
      BY <1>3, <3>1 DEF CurveInv, OpensCurve
    <3>2. CASE i # 1
      BY <1>3, <3>2, PointsTyped DEF Follows, UsdStep
    <3> QED BY <3>1, <3>2
  <2>2. OwnCoins(i) = 0 /\ OwnCash(i) = curve[i].cash
    BY <1>3 DEF OwnCoins, OwnCash
  <2>3. curve[i].cash \div 1 = curve[i].cash /\ curve[i].cash * 1 = curve[i].cash
    BY <1>1
  <2>4. CASE i = 1
    <3>1. curve[1].coins = 0 /\ curve[1].cash = (IF curve[1].flagged THEN curve[1].equity ELSE 0)
      BY <1>3 DEF CurveInv, OpensCurve
    <3>2. DayFlow(i) = curve[i].cash
      BY <1>1, <2>4, <3>1 DEF DayFlow
    <3>3. Own(i) = NonZero({OfCurve(i, "BTC", 0), OfCurve(i, "USDT", curve[i].cash)})
      BY <1>3, <2>4, <3>1 DEF Own, DayOneDeposits, NonZero, OfCurve, Record
    <3> QED BY <1>1, <2>1, <2>2, <2>3, <3>2, <3>3
  <2>5. CASE i # 1
    <3>1. DayFlow(i) = curve[i].cash
      BY <1>3, <2>5 DEF DayFlow, Transfer
    <3>2. Own(i) = NonZero({OfCurve(i, "BTC", 0), OfCurve(i, "USDT", curve[i].cash)})
      BY <1>3, <2>5 DEF Own, CurveTransfers, NonZero, OfCurve, Record
    <3> QED BY <1>1, <2>1, <2>2, <2>3, <3>1, <3>2
  <2> QED BY <2>4, <2>5
<1>4. CASE account = "btc" /\ i = 1
  <2>1. /\ curve[1].cash = 0 /\ curve[1].usdt = 0
        /\ curve[1].coins = IF curve[1].flagged THEN curve[1].equity ELSE 0
    BY <1>4 DEF CurveInv, OpensCurve
  <2>2. OwnCoins(i) = curve[1].coins /\ OwnCash(i) = 0
    BY <1>4, <2>1 DEF OwnCoins, OwnCash
  <2>3. DayFlow(i) = curve[1].coins
    BY <1>1, <1>4, <2>1 DEF DayFlow
  <2>4. Own(i) = NonZero({OfCurve(i, "BTC", OwnCoins(i)), OfCurve(i, "USDT", OwnCash(i))})
    BY <1>4, <2>1, <2>2 DEF Own, DayOneDeposits, NonZero, OfCurve, Record
  <2>5. OwnCash(i) \div curve[i].price = 0 /\ OwnCash(i) = 0 * curve[i].price
    BY <1>2, <2>2
  <2>6. DayFlow(i) = OwnCoins(i) + 0 /\ OwnCoins(i) \in Int
    BY <1>1, <1>4, <2>2, <2>3
  <2> QED BY <2>2, <2>4, <2>5, <2>6
<1>5. CASE account = "btc" /\ i # 1
  <2>1. PICK change \in Int, moved \in Int :
          /\ change = curve[i].usdt - curve[i - 1].usdt
          /\ change = moved * curve[i].price /\ moved = change \div curve[i].price
    <3>1. PICK sent \in Int :
            curve[i].usdt - curve[i - 1].usdt = (curve[i].gain + sent) * curve[i].price
      BY <1>5, BtcStepIs
    <3>2. PICK moved \in Int : moved = curve[i].gain + sent
      BY PointFields
    <3>3. moved * curve[i].price \in Int /\ (moved * curve[i].price) \div curve[i].price = moved
      BY <1>1, FlowTimesPrice
    <3> QED BY <3>1, <3>2, <3>3
  <2>2. i - 1 \in Days /\ curve[i - 1].equity \in Nat
    BY <1>5, PointsTyped, PointFields
  <2>3. CASE ~curve[i].flagged
    <3>1. OwnCoins(i) = 0 /\ OwnCash(i) = 0 /\ DayFlow(i) = 0
      BY <1>5, <2>3 DEF OwnCoins, OwnCash, DayFlow, Transfer
    <3>2. Own(i) = NonZero({OfCurve(i, "BTC", 0), OfCurve(i, "USDT", 0)})
      BY <1>5, <2>3 DEF Own, CurveTransfers, NonZero, OfCurve, Record
    <3> QED BY <1>1, <1>2, <3>1, <3>2
  <2>4. CASE curve[i].flagged /\ Size(change) > Noise
    <3>1. OwnCoins(i) = curve[i].equity - curve[i - 1].equity /\ OwnCash(i) = change
      BY <1>5, <2>1, <2>4 DEF OwnCoins, OwnCash
    <3>2. DayFlow(i) = curve[i].equity - curve[i - 1].equity + change \div curve[i].price
      BY <1>5, <2>1, <2>4 DEF DayFlow, Transfer
    <3>3. Own(i) = NonZero({OfCurve(i, "BTC", OwnCoins(i)), OfCurve(i, "USDT", OwnCash(i))})
      BY <1>5, <2>1, <2>4, <3>1 DEF Own, CurveTransfers
    <3> QED BY <1>1, <2>1, <2>2, <3>1, <3>2, <3>3
  <2>5. CASE curve[i].flagged /\ ~(Size(change) > Noise)
    <3>1. OwnCoins(i) = curve[i].equity - curve[i - 1].equity /\ OwnCash(i) = 0
      BY <1>5, <2>1, <2>5 DEF OwnCoins, OwnCash
    <3>2. DayFlow(i) = curve[i].equity - curve[i - 1].equity
      BY <1>1, <1>5, <2>1, <2>2, <2>5 DEF DayFlow, Transfer
    <3>3. Own(i) = NonZero({OfCurve(i, "BTC", OwnCoins(i)), OfCurve(i, "USDT", OwnCash(i))})
      BY <1>5, <2>1, <2>5, <3>1 DEF Own, CurveTransfers
    <3> QED BY <1>1, <1>2, <2>1, <2>2, <3>1, <3>2, <3>3
  <2> QED BY <1>1, <2>3, <2>4, <2>5
<1> QED BY <1>1, <1>3, <1>4, <1>5

\* So is what happened, where the curve tells it.
LEMMA ToldAmounts ==
    ASSUME CurveInv, NEW i \in Days
    PROVE  /\ curve[i].cash = (curve[i].cash \div curve[i].price) * curve[i].price
           /\ Told(i) => DayFlow(i) = curve[i].coins + curve[i].cash \div curve[i].price
<1>1. /\ curve[i].equity \in Nat /\ curve[i].usdt \in Int /\ curve[i].price \in Nat \ {0}
      /\ curve[i].coins \in Int /\ curve[i].cash \in Int /\ curve[i].flagged \in BOOLEAN
      /\ account \in {"usd", "btc"} /\ Noise \in Nat
  BY PointFields, PointsTyped DEF CurveInv
<1>2. 0 \div curve[i].price = 0 /\ 0 * curve[i].price = 0
  BY <1>1
<1>3. CASE account = "usd"
  <2>1. curve[i].price = 1 /\ curve[i].coins = 0
    <3>1. CASE i = 1
      BY <1>3, <3>1 DEF CurveInv, OpensCurve
    <3>2. CASE i # 1
      BY <1>3, <3>2, PointsTyped DEF Follows, UsdStep
    <3> QED BY <3>1, <3>2
  <2>2. curve[i].cash \div 1 = curve[i].cash /\ curve[i].cash * 1 = curve[i].cash
    BY <1>1
  <2>3. DayFlow(i) = curve[i].cash
    <3>1. CASE i = 1
      BY <1>1, <2>1, <3>1 DEF DayFlow
    <3>2. CASE i # 1
      BY <1>3, <3>2 DEF DayFlow, Transfer
    <3> QED BY <3>1, <3>2
  <2> QED BY <1>1, <2>1, <2>2, <2>3
<1>4. CASE account = "btc" /\ i = 1
  <2>1. curve[i].cash = 0
    BY <1>4 DEF CurveInv, OpensCurve
  <2>2. DayFlow(i) = curve[i].coins
    BY <1>1, <1>4, <2>1 DEF DayFlow
  <2> QED BY <1>1, <1>2, <2>1, <2>2
<1>5. CASE account = "btc" /\ i # 1
  <2>1. PICK sent \in Int, earned \in Int, change \in Int :
          /\ curve[i].cash = sent * curve[i].price /\ sent = curve[i].cash \div curve[i].price
          /\ earned = curve[i].gain * curve[i].price
          /\ change = curve[i].usdt - curve[i - 1].usdt /\ change = earned + curve[i].cash
    <3>1. PICK sent \in Int, earned \in Int :
            /\ curve[i].cash = sent * curve[i].price /\ sent = curve[i].cash \div curve[i].price
            /\ earned = curve[i].gain * curve[i].price
            /\ curve[i].usdt - curve[i - 1].usdt = earned + curve[i].cash
      BY <1>5, BtcStepIs
    <3>2. PICK change : change = earned + curve[i].cash
      OBVIOUS
    <3> QED BY <1>1, <3>1, <3>2
  <2>2. i - 1 \in Days /\ curve[i - 1].equity \in Nat /\ curve[i].equity - curve[i - 1].equity = curve[i].coins
    BY <1>1, <1>5, BtcStepIs, PointFields
  <2>3. ASSUME Told(i) PROVE DayFlow(i) = curve[i].coins + sent
    <3>1. /\ curve[i].coins # 0 \/ curve[i].cash # 0 => curve[i].flagged
          /\ curve[i].cash # 0 => curve[i].gain = 0 /\ Size(curve[i].cash) > Noise
          /\ curve[i].flagged /\ curve[i].cash = 0 => Size(earned) <= Noise
      BY <1>5, <2>1, <2>3 DEF Told
    <3>2. DayFlow(i) = IF ~curve[i].flagged THEN 0
                       ELSE curve[i].coins
                                + (IF Size(change) > Noise THEN change \div curve[i].price ELSE 0)
      BY <1>5, <2>1, <2>2 DEF DayFlow, Transfer
    <3>3. CASE ~curve[i].flagged
      <4>1. sent = 0
        BY <1>2, <2>1, <3>1, <3>3
      <4> QED BY <3>1, <3>2, <3>3, <4>1
    <3>4. CASE curve[i].flagged /\ curve[i].cash # 0
      <4>1. earned = 0
        BY <1>2, <2>1, <3>1, <3>4
      <4>2. change = curve[i].cash
        BY <1>1, <2>1, <4>1
      <4> QED BY <2>1, <3>1, <3>2, <3>4, <4>2
    <3>5. CASE curve[i].flagged /\ curve[i].cash = 0
      <4>1. change = earned /\ sent = 0
        BY <1>2, <2>1, <3>5
      <4>2. Size(change) \in Int
        BY DEF Size
      <4>3. ~(Size(change) > Noise)
        BY <1>1, <3>1, <3>5, <4>1, <4>2
      <4> QED BY <3>2, <3>5, <4>1, <4>3
    <3> QED BY <1>1, <3>3, <3>4, <3>5
  <2> QED BY <2>1, <2>3
<1> QED BY <1>1, <1>3, <1>4, <1>5

-----------------------------------------------------------------------------
\* Another day leaves the days there are as they were.
LEMMA CurveGrows ==
    ASSUME CurveInv, NEW q \in CurvePoint, Follows(account, Latest, q),
           curve' = Append(curve, q), account' = account
    PROVE  /\ CurveInv' /\ Len(curve') = Len(curve) + 1
           /\ \A i \in Days : curve'[i] = curve[i]
<1>1. curve \in Seq(CurvePoint) /\ Len(curve) \in Nat \ {0}
  BY PointsTyped DEF CurveInv
<1>2. /\ curve' \in Seq(CurvePoint) /\ Len(curve') = Len(curve) + 1 /\ curve' # <<>>
      /\ \A i \in 1 .. Len(curve) : curve'[i] = curve[i]
      /\ curve'[Len(curve) + 1] = q
  BY <1>1
<1>3. curve'[1] = curve[1]
  BY <1>1, <1>2
<1>4. OpensCurve(account, curve'[1])
  BY <1>3 DEF CurveInv, OpensCurve
<1>5. \A i \in 2 .. Len(curve') : Follows(account, curve'[i - 1], curve'[i])
  <2> SUFFICES ASSUME NEW i \in 2 .. Len(curve') PROVE Follows(account, curve'[i - 1], curve'[i])
    OBVIOUS
  <2>1. CASE i \in 2 .. Len(curve)
    <3>1. i - 1 \in 1 .. Len(curve) /\ i \in 1 .. Len(curve)
      BY <1>1, <2>1
    <3>2. curve'[i - 1] = curve[i - 1] /\ curve'[i] = curve[i]
      BY <1>2, <3>1
    <3>3. Follows(account, curve[i - 1], curve[i])
      BY <2>1 DEF CurveInv
    <3> QED BY <3>2, <3>3
  <2>2. CASE i = Len(curve) + 1
    <3>1. curve'[i] = q /\ curve'[i - 1] = Latest
      BY <1>1, <1>2, <2>2 DEF Latest
    <3> QED BY <3>1
  <2> QED BY <1>1, <1>2, <2>1, <2>2
<1> QED BY <1>2, <1>4, <1>5, PointsTyped DEF CurveInv

LEMMA UsdDayFollows ==
    ASSUME CurveInv, UsdDay
    PROVE  \E q \in CurvePoint : curve' = Append(curve, q) /\ Follows(account, Latest, q)
<1>1. PICK gain \in Gains, cash \in Flows :
        /\ Latest.equity + gain + cash \in 0 .. MaxBalance
        /\ curve' = Append(curve, DayPoint(Latest.equity + gain + cash, 0, 1, 0, cash, gain, cash # 0))
  BY DEF UsdDay
<1> DEFINE q == DayPoint(Latest.equity + gain + cash, 0, 1, 0, cash, gain, cash # 0)
<1>2. gain \in Int /\ cash \in Int
  BY PerfAssumption
<1>3. q \in CurvePoint
  BY <1>1, <1>2 DEF DayPoint, CurvePoint
<1>4. Follows(account, Latest, q)
  BY DEF UsdDay, Follows, UsdStep, DayPoint
<1> HIDE DEF q
<1> QED BY <1>1, <1>3, <1>4 DEF q

LEMMA BtcDayFollows ==
    ASSUME CurveInv, BtcDay
    PROVE  \E q \in CurvePoint : curve' = Append(curve, q) /\ Follows(account, Latest, q)
<1>0. account = "btc"
  BY DEF BtcDay
<1>1. PICK gain \in Gains, price \in Prices, coins \in Flows, sent \in Flows, flagged \in BOOLEAN :
        LET equity == Latest.equity + coins
            usdt == Latest.usdt + gain * price + sent * price
        IN  /\ equity \in 0 .. MaxBalance
            /\ curve' = Append(curve, DayPoint(equity, usdt, price, coins, sent * price, gain, flagged))
  BY DEF BtcDay
<1>2. gain \in Int /\ coins \in Int /\ sent \in Int /\ price \in Nat \ {0}
  BY PerfAssumption
<1>3. Latest.usdt \in Int /\ Latest.equity \in Nat
  BY PointsTyped DEF CurvePoint
<1>4. PICK equity \in Nat, earned \in Int, cash \in Int, usdt \in Int :
        /\ equity = Latest.equity + coins /\ earned = gain * price /\ cash = sent * price
        /\ usdt = Latest.usdt + earned + cash
        /\ curve' = Append(curve, DayPoint(equity, usdt, price, coins, cash, gain, flagged))
  BY <1>1, <1>2, <1>3
<1> DEFINE q == DayPoint(equity, usdt, price, coins, cash, gain, flagged)
<1>5. /\ q.equity = equity /\ q.usdt = usdt /\ q.price = price /\ q.coins = coins /\ q.cash = cash
      /\ q.gain = gain /\ q.flagged = flagged
  BY DEF DayPoint
<1>6. q \in CurvePoint
  BY <1>2, <1>4 DEF DayPoint, CurvePoint
<1> HIDE DEF q
<1>7. (gain + sent) * price = earned + cash
  BY <1>2, <1>4
<1>8. BtcStep(Latest, q)
  <2>1. q.cash = sent * q.price /\ q.usdt = Latest.usdt + (q.gain + sent) * q.price
    BY <1>2, <1>3, <1>4, <1>5, <1>7
  <2> QED BY <1>2, <1>4, <1>5, <2>1 DEF BtcStep
<1> QED BY <1>0, <1>4, <1>6, <1>8 DEF Follows, q

\* A point that follows is added by every day of the account.
LEMMA DayFollows ==
    ASSUME CurveInv, PerfNext
    PROVE  /\ \E q \in CurvePoint : curve' = Append(curve, q) /\ Follows(account, Latest, q)
           /\ account' = account
BY UsdDayFollows, BtcDayFollows DEF PerfNext, UsdDay, BtcDay

\* Records of days there were stay right.
LEMMA RecordsKept ==
    ASSUME CurveInv, account' = account,
           Len(curve') \in Nat, Len(curve') >= Len(curve),
           \A i \in Days : curve'[i] = curve[i]
    PROVE  /\ \A i \in Days : AtExchange(i)' = AtExchange(i) /\ Own(i)' = Own(i)
           /\ \A rows : \A n \in Days : RowsRight(rows, n) => RowsRight(rows, n)'
<1>1. \A i \in Days : i # 1 => i - 1 \in Days
  BY PointsTyped
<1>2. 1 \in Days /\ Len(curve) \in Nat
  BY PointsTyped
<1>3. ASSUME NEW i \in Days PROVE AtExchange(i)' = AtExchange(i) /\ Own(i)' = Own(i)
  <2>1. curve'[i] = curve[i] /\ curve'[1] = curve[1]
    BY <1>2
  <2>2. AtExchange(i)' = AtExchange(i)
    BY <2>1 DEF AtExchange, NonZero, Raw, Record
  <2>3. CASE i = 1
    <3>1. Own(i)' = Own(i)
      BY <2>1, <2>3 DEF Own, DayOneDeposits, NonZero, OfCurve, Record
    <3> QED BY <2>2, <3>1
  <2>4. CASE i # 1
    <3>1. curve'[i - 1] = curve[i - 1]
      BY <1>1, <2>4
    <3>2. Own(i)' = Own(i)
      BY <2>1, <2>4, <3>1 DEF Own, CurveTransfers, NonZero, OfCurve, Record
    <3> QED BY <2>2, <3>2
  <2> QED BY <2>3, <2>4
<1>4. ASSUME NEW rows, NEW n \in Days, RowsRight(rows, n) PROVE RowsRight(rows, n)'
  <2>1. \A i \in 1 .. n : i \in Days
    BY PointsTyped
  <2>2. \A i \in 1 .. n : AtExchange(i)' = AtExchange(i) /\ Own(i)' = Own(i)
    BY <1>3, <2>1
  <2> QED BY <1>4, <2>2 DEF RowsRight
<1> QED BY <1>3, <1>4

\* A record of a day says so.
LEMMA RecordsOfDay ==
    ASSUME CurveInv, NEW i \in Days
    PROVE  /\ \A r \in Own(i) : r.day = i /\ r.id = "eq" /\ r.ok
           /\ \A r \in AtExchange(i) : r.day = i /\ r.id = "tx" /\ r.ok
BY OwnAmounts DEF AtExchange, NonZero, Raw, OfCurve, Record

\* The collection of both sources is right for all days.
LEMMA CollectedRight ==
    ASSUME CurveInv, CcxtInv
    PROVE  RowsRight(Collected, Len(curve))
<1> DEFINE dates == {r.day : r \in ccxt}
<1>1. Days = 1 .. Len(curve) /\ 1 \in Days
  BY PointsTyped
<1>2. \A r \in FromCurve : r.day \in Days /\ r.ok /\ r.id = "eq" /\ r \in Own(r.day)
  <2>1. \A i \in Days : \A r \in Own(i) : r.day = i /\ r.id = "eq" /\ r.ok
    BY RecordsOfDay
  <2>2. \A r \in FromCurve : \E i \in Days : r \in Own(i)
    BY <1>1 DEF FromCurve, Own
  <2> QED BY <2>1, <2>2
<1>3. ASSUME Len(curve) >= 2 PROVE \A i \in Days : Own(i) \subseteq FromCurve
  <2> SUFFICES ASSUME NEW i \in Days PROVE Own(i) \subseteq FromCurve
    OBVIOUS
  <2>1. CASE i = 1
    BY <1>3, <2>1 DEF FromCurve, Own
  <2>2. CASE i # 1
    <3>1. i \in 2 .. Len(curve)
      BY <1>1, <2>2
    <3> QED BY <1>3, <2>2, <3>1 DEF FromCurve, Own
  <2> QED BY <2>1, <2>2
<1>4. \A r \in Collected : \/ r \in ccxt /\ r.day \in dates
                           \/ r \in FromCurve /\ r.day \notin dates
  BY DEF Collected, Uncovered
<1>5. \A r \in ccxt : r.day \in Days /\ r.id = "tx" /\ r.day \in dates /\ (r.ok => r \in AtExchange(r.day))
  BY <1>1 DEF CcxtInv
<1>6. ASSUME Len(curve) >= 2, NEW i \in Days
      PROVE  Own(i) \subseteq Collected \/ \E r \in Collected : r.id = "tx" /\ r.day = i
  <2>1. CASE i \in dates
    BY <1>5, <2>1 DEF Collected
  <2>2. CASE i \notin dates
    <3>1. \A r \in Own(i) : r \in FromCurve /\ r.day \notin dates
      BY <1>3, <1>6, <2>2, RecordsOfDay
    <3> QED BY <3>1 DEF Collected, Uncovered
  <2> QED BY <2>1, <2>2
<1> HIDE DEF dates
<1>7. \A r, s \in Collected : r.day = s.day => r.id = s.id
  BY <1>2, <1>4, <1>5
<1>8. \A r \in Collected : r.day \in 1 .. Len(curve) /\ r.id \in {"tx", "eq"} /\ (r.id = "eq" => r.ok)
  BY <1>1, <1>2, <1>4, <1>5
<1>9. \A r \in Collected : r.ok => r \in IF r.id = "tx" THEN AtExchange(r.day) ELSE Own(r.day)
  BY <1>2, <1>4, <1>5
<1>10. Len(curve) >= 2 => \A i \in 1 .. Len(curve) :
          Own(i) \subseteq Collected \/ \E r \in Collected : r.id = "tx" /\ r.day = i
  BY <1>1, <1>6
<1> QED BY <1>7, <1>8, <1>9, <1>10 DEF RowsRight

LEMMA FetchedRight == ASSUME TransferInv, Fetch PROVE CcxtInv'
<1>1. PICK from \in Days, failed \in {{}} \cup {{f} : f \in Failures},
           given \in SUBSET {"deposits", "withdrawals"} :
        ccxt' = failed \cup {r \in UNION {AtExchange(i) : i \in from .. Len(curve)} :
                               (IF r.amount > 0 THEN "deposits" ELSE "withdrawals") \in given}
  BY DEF Fetch
<1>2. account' = account /\ curve' = curve
  BY DEF Fetch
<1>3. \A i \in Days : AtExchange(i)' = AtExchange(i)
  BY <1>2 DEF AtExchange
<1>4. Days = 1 .. Len(curve) /\ Len(curve)' = Len(curve) /\ Len(curve) \in Nat
  BY <1>2, PointsTyped DEF TransferInv
<1>5. \A r \in failed : r.day \in Days /\ r.id = "tx" /\ ~r.ok
  <2>1. ASSUME NEW day \in Days, NEW amount \in Failed, NEW r, r = [Raw(day, "USDT", amount) EXCEPT !.ok = FALSE]
        PROVE  r.day = day /\ r.id = "tx" /\ ~r.ok
    BY <2>1 DEF Raw, Record
  <2>2. \A r \in Failures : r.day \in Days /\ r.id = "tx" /\ ~r.ok
    BY <2>1 DEF Failures
  <2> QED BY <2>2
<1>6. \A i \in Days : \A r \in AtExchange(i) : r.day = i /\ r.id = "tx"
  BY RecordsOfDay DEF TransferInv
<1>7. \A i \in from .. Len(curve) : i \in Days
  BY <1>4
<1>8. ASSUME NEW r \in ccxt'
      PROVE  r.day \in Days /\ r.id = "tx" /\ (r.ok => r \in AtExchange(r.day))
  <2>1. CASE r \in failed
    BY <1>5, <2>1
  <2>2. CASE r \notin failed
    <3>1. r \in UNION {AtExchange(i) : i \in from .. Len(curve)}
      BY <1>1, <2>2
    <3>2. PICK i \in Days : r \in AtExchange(i)
      BY <1>7, <3>1
    <3>3. r.day = i /\ r.id = "tx"
      BY <1>6, <3>2
    <3> QED BY <3>2, <3>3
  <2> QED BY <2>1, <2>2
<1>9. \A r \in ccxt' : r.day \in 1 .. Len(curve)' /\ r.id = "tx" /\ (r.ok => r \in AtExchange(r.day)')
  BY <1>3, <1>4, <1>8
<1> QED BY <1>9 DEF CcxtInv

LEMMA InitTransferInv == TransferInit => TransferInv
<1> SUFFICES ASSUME TransferInit PROVE TransferInv
  OBVIOUS
<1>1. PICK e \in Openings, price \in Prices, funding \in BOOLEAN :
        LET deposit == IF funding THEN e ELSE 0
        IN  curve = IF account = "btc" THEN <<DayPoint(e, 0, price, deposit, 0, 0, funding)>>
                    ELSE <<DayPoint(e, 0, 1, 0, deposit, 0, funding)>>
  BY DEF TransferInit, PerfInit
<1>2. e \in Nat /\ price \in Nat \ {0} /\ account \in {"usd", "btc"}
  BY PerfAssumption DEF TransferInit, PerfInit
<1>3. PICK deposit \in Nat : deposit = IF funding THEN e ELSE 0
  BY <1>2
<1>4. PICK p : /\ curve = <<p>>
               /\ p = IF account = "btc" THEN DayPoint(e, 0, price, deposit, 0, 0, funding)
                      ELSE DayPoint(e, 0, 1, 0, deposit, 0, funding)
  BY <1>1, <1>3
<1>5. p \in CurvePoint
  BY <1>2, <1>4 DEF DayPoint, CurvePoint
<1>6. OpensCurve(account, p)
  <2>1. p.usdt = 0 /\ p.gain = 0 /\ p.equity = e /\ p.flagged = funding
    BY <1>4 DEF DayPoint
  <2>2. account = "usd" => p.price = 1 /\ p.coins = 0 /\ p.cash = deposit
    BY <1>4 DEF DayPoint
  <2>3. account = "btc" => p.cash = 0 /\ p.coins = deposit
    BY <1>4 DEF DayPoint
  <2> QED BY <1>3, <2>1, <2>2, <2>3 DEF OpensCurve
<1>7. curve[1] = p /\ Len(curve) = 1 /\ curve \in Seq(CurvePoint) /\ curve # <<>>
  BY <1>4, <1>5
<1>8. CurveInv
  BY <1>2, <1>6, <1>7 DEF CurveInv
<1> QED BY <1>8 DEF TransferInv, CcxtInv, CacheInv, TransferInit

LEMMA StepTransferInv == TransferInv /\ [TransferNext]_transferVars => TransferInv'
<1> SUFFICES ASSUME TransferInv, [TransferNext]_transferVars PROVE TransferInv'
  OBVIOUS
<1>1. CASE PerfNext /\ UNCHANGED <<ccxt, cache>>
  <2>1. CurveInv
    BY DEF TransferInv
  <2>2. PICK q \in CurvePoint : curve' = Append(curve, q) /\ Follows(account, Latest, q)
    BY <1>1, <2>1, DayFollows
  <2>3. account' = account
    BY <1>1, <2>1, DayFollows
  <2>4. /\ CurveInv' /\ Len(curve') = Len(curve) + 1 /\ Len(curve) \in Nat
        /\ \A i \in Days : curve'[i] = curve[i]
    BY <2>1, <2>2, <2>3, CurveGrows, PointsTyped
  <2>5. /\ \A i \in Days : AtExchange(i)' = AtExchange(i)
        /\ \A rows : \A n \in Days : RowsRight(rows, n) => RowsRight(rows, n)'
    BY <2>1, <2>3, <2>4, RecordsKept
  <2>6. Days = 1 .. Len(curve) /\ ccxt' = ccxt /\ cache' = cache
    BY <1>1, <2>1, PointsTyped
  <2>7. CcxtInv'
    BY <2>4, <2>5, <2>6 DEF TransferInv, CcxtInv
  <2>8. CacheInv'
    <3> SUFFICES ASSUME cache # NotRead
                 PROVE  cache.days \in 1 .. Len(curve') /\ RowsRight(cache.rows, cache.days)'
      BY <2>6 DEF CacheInv, NotRead
    <3>1. cache.days \in Days /\ RowsRight(cache.rows, cache.days)
      BY <2>6 DEF TransferInv, CacheInv
    <3>2. PICK rows : rows = cache.rows
      OBVIOUS
    <3>3. PICK n \in Days : n = cache.days
      BY <3>1
    <3>4. RowsRight(rows, n)'
      BY <2>5, <3>1, <3>2, <3>3
    <3>5. RowsRight(cache.rows, cache.days)'
      BY <2>6, <3>2, <3>3, <3>4
    <3> QED BY <2>4, <2>6, <3>1, <3>5
  <2> QED BY <2>4, <2>7, <2>8 DEF TransferInv
<1>2. CASE Fetch
  <2>1. account' = account /\ curve' = curve /\ cache' = cache
    BY <1>2 DEF Fetch
  <2>2. CurveInv'
    BY <2>1 DEF TransferInv, CurveInv
  <2>3. CacheInv'
    BY <2>1 DEF TransferInv, CacheInv, NotRead, RowsRight, AtExchange, Own, DayOneDeposits,
                CurveTransfers, OfCurve
  <2> QED BY <1>2, <2>2, <2>3, FetchedRight DEF TransferInv
<1>3. CASE GetTransfers
  <2>1. account' = account /\ curve' = curve /\ ccxt' = ccxt
    BY <1>3 DEF GetTransfers
  <2>2. CurveInv'
    BY <2>1 DEF TransferInv, CurveInv
  <2>3. CcxtInv'
    BY <2>1 DEF TransferInv, CcxtInv, AtExchange
  <2>4. \A rows, n : RowsRight(rows, n)' = RowsRight(rows, n)
    BY <2>1 DEF RowsRight, AtExchange, Own, DayOneDeposits, CurveTransfers, OfCurve
  <2>5. cache' = (IF cache = NotRead THEN [rows |-> Collected, days |-> Len(curve)] ELSE cache)
    BY <1>3 DEF GetTransfers
  <2>6. CacheInv'
    <3>1. CASE cache = NotRead
      <4>1. cache'.rows = Collected /\ cache'.days = Len(curve)
        BY <2>5, <3>1
      <4>2. RowsRight(Collected, Len(curve)) /\ Len(curve) \in 1 .. Len(curve)
        BY <1>3, CollectedRight, PointsTyped DEF TransferInv
      <4>3. RowsRight(cache'.rows, cache'.days)
        BY <4>1, <4>2
      <4> QED BY <2>1, <2>4, <4>1, <4>2, <4>3 DEF CacheInv
    <3>2. CASE cache # NotRead
      <4>1. cache' = cache
        BY <2>5, <3>2
      <4>2. cache.days \in 1 .. Len(curve) /\ RowsRight(cache.rows, cache.days)
        BY <3>2 DEF TransferInv, CacheInv
      <4> QED BY <2>1, <2>4, <4>1, <4>2 DEF CacheInv
    <3> QED BY <3>1, <3>2
  <2> QED BY <2>2, <2>3, <2>6 DEF TransferInv
<1>4. CASE ClearCache
  <2>1. account' = account /\ curve' = curve /\ ccxt' = ccxt /\ cache' = NotRead
    BY <1>4 DEF ClearCache
  <2>2. CurveInv' /\ CcxtInv'
    BY <2>1 DEF TransferInv, CurveInv, CcxtInv, AtExchange
  <2> QED BY <2>1, <2>2 DEF TransferInv, CacheInv, NotRead
<1>5. CASE UNCHANGED transferVars
  BY <1>5 DEF transferVars, TransferInv, CurveInv, CcxtInv, CacheInv, RowsRight, AtExchange, Own,
              NotRead, DayOneDeposits, CurveTransfers, OfCurve
<1> QED BY <1>1, <1>2, <1>3, <1>4, <1>5 DEF TransferNext

-----------------------------------------------------------------------------
\* A term that is 0 may be left out of a sum of two.
LEMMA PairTotal ==
    ASSUME NEW a, NEW b, a # b, NEW S \in SUBSET {a, b},
           NEW f, \A x \in S : f[x] \in Int, NEW va \in Int, NEW vb \in Int,
           a \in S => f[a] = va, a \notin S => va = 0,
           b \in S => f[b] = vb, b \notin S => vb = 0
    PROVE  Total(f, S) = va + vb /\ IsFiniteSet(S)
<1> DEFINE g == [x \in {a, b} |-> IF x = a THEN va ELSE vb]
<1>1. g[a] = va /\ g[b] = vb /\ \A x \in {a, b} : g[x] \in Int
  OBVIOUS
<1>2. IsFiniteSet({a}) /\ IsFiniteSet({a, b}) /\ {a, b} = {a} \cup {b}
  <2>1. {a, b} = {a} \cup {b}
    OBVIOUS
  <2>2. IsFiniteSet({a}) /\ IsFiniteSet({b})
    BY FS_Singleton
  <2>3. IsFiniteSet({a} \cup {b})
    BY <2>2, FS_Union
  <2> QED BY <2>1, <2>2, <2>3
<1>3. \A x \in S : g[x] = f[x]
  <2> SUFFICES ASSUME NEW x \in S PROVE g[x] = f[x]
    OBVIOUS
  <2>1. x = a \/ x = b
    OBVIOUS
  <2> QED BY <1>1, <2>1
<1>4. \A x \in {a, b} \ S : g[x] = 0
  BY <1>1
<1> HIDE DEF g
<1>5. IsFiniteSet(S)
  BY <1>2, FS_Subset
<1>6. Total(f, S) = Total(g, S)
  BY <1>3, <1>5, TotalEqual
<1>7. Total(g, {a, b}) = Total(g, S)
  BY <1>1, <1>2, <1>4, TotalWithout
<1>8. Total(g, {a} \cup {b}) = g[b] + Total(g, {a})
  BY <1>1, <1>2, TotalAdd
<1>9. Total(g, {a}) = g[a]
  <2>1. Total(g, {a}) = g[a] + Total(g, {a} \ {a})
    BY <1>1, <1>2, TotalRemove
  <2>2. {a} \ {a} = {}
    OBVIOUS
  <2>3. Total(g, {a} \ {a}) = 0
    BY <2>2, TotalEmpty
  <2> QED BY <1>1, <2>1, <2>3
<1>10. Total(g, {a} \cup {b}) = va + vb
  <2>1. g[a] = va /\ g[b] = vb
    BY <1>1
  <2>2. PICK both, one : both = Total(g, {a} \cup {b}) /\ one = Total(g, {a})
    OBVIOUS
  <2>3. both = g[b] + one /\ one = g[a]
    BY <1>8, <1>9, <2>2
  <2>4. both = va + vb
    BY <2>1, <2>3
  <2> QED BY <2>2, <2>4
<1>11. Total(g, {a, b}) = Total(g, {a} \cup {b})
  BY <1>2
<1>12. Total(f, S) = va + vb
  <2>1. Total(f, S) = Total(g, {a} \cup {b})
    BY <1>6, <1>7, <1>11, Zenon
  <2> QED BY <2>1, <1>10
<1> QED BY <1>5, <1>12

\* The confirmed records of a day.
OfDay(rows, i) == {r \in Confirmed(rows) : r.day = i}

\* They are one in BTC and one in USDT, unless it is 0, and add up to the flow.
DayIs(rows, i, b, u) ==
    /\ OfDay(rows, i) = NonZero({b, u})
    /\ b.day = i /\ b.currency = "BTC" /\ b.amount \in Int /\ b.usd \in Int
    /\ u.day = i /\ u.currency = "USDT" /\ u.amount \in Int /\ u.usd = u.amount
    /\ b.amount = 0 => b.usd = 0
    /\ b.id = "eq" => b.usd = b.amount * curve[i].price
    /\ b.id \in {"eq", "tx"}
    /\ u.amount = (u.amount \div curve[i].price) * curve[i].price
    /\ DayFlow(i) = b.amount + u.amount \div curve[i].price

LEMMA SettledDay ==
    ASSUME CurveInv, cache.days \in Days, cache.days >= 2, RowsRight(cache.rows, cache.days),
           NEW i \in 1 .. cache.days, Settled(i)
    PROVE  \E b, u : DayIs(cache.rows, i, b, u)
<1> DEFINE rows == cache.rows
           listed == \E r \in rows : r.id = "tx" /\ r.day = i
<1>1. i \in Days
  BY PointsTyped
<1>2. curve[i].price \in Nat \ {0} /\ curve[i].coins \in Int /\ curve[i].cash \in Int
  BY <1>1, PointFields
<1>3. /\ \A r \in rows : r.ok => r \in IF r.id = "tx" THEN AtExchange(r.day) ELSE Own(r.day)
      /\ \A r, s \in rows : r.day = s.day => r.id = s.id
      /\ \A r \in rows : r.id \in {"tx", "eq"}
      /\ Own(i) \subseteq rows \/ listed
  BY DEF RowsRight
<1>4. /\ \A r \in Own(i) : r.day = i /\ r.id = "eq" /\ r.ok
      /\ \A r \in AtExchange(i) : r.day = i /\ r.id = "tx" /\ r.ok
  BY <1>1, RecordsOfDay
<1>5. CASE listed
  <2> DEFINE b == Raw(i, "BTC", curve[i].coins)
             u == Raw(i, "USDT", curve[i].cash)
  <2>1. Told(i) /\ AtExchange(i) \subseteq rows
    BY <1>5 DEF Settled
  <2>2. OfDay(rows, i) = AtExchange(i)
    <3>1. \A r \in AtExchange(i) : r \in OfDay(rows, i)
      BY <1>4, <2>1 DEF OfDay, Confirmed
    <3>2. \A r \in OfDay(rows, i) : r.id = "tx" /\ r \in rows /\ r.ok /\ r.day = i
      BY <1>3, <1>5 DEF OfDay, Confirmed
    <3>3. \A r \in OfDay(rows, i) : r \in AtExchange(i)
      BY <1>3, <3>2
    <3> QED BY <3>1, <3>3
  <2>3. OfDay(rows, i) = NonZero({b, u})
    BY <2>2 DEF AtExchange
  <2>4. /\ b.day = i /\ b.currency = "BTC" /\ b.amount = curve[i].coins /\ b.usd = 0 /\ b.id = "tx"
        /\ u.day = i /\ u.currency = "USDT" /\ u.amount = curve[i].cash /\ u.usd = curve[i].cash
    BY DEF Raw, Record
  <2>5. /\ curve[i].cash = (curve[i].cash \div curve[i].price) * curve[i].price
        /\ DayFlow(i) = curve[i].coins + curve[i].cash \div curve[i].price
    BY <1>1, <2>1, ToldAmounts
  <2> HIDE DEF b, u
  <2>6. DayIs(rows, i, b, u)
    BY <1>2, <2>3, <2>4, <2>5 DEF DayIs
  <2> QED BY <2>6
<1>6. CASE ~listed
  <2> DEFINE b == OfCurve(i, "BTC", OwnCoins(i))
             u == OfCurve(i, "USDT", OwnCash(i))
  <2>1. Own(i) \subseteq rows
    BY <1>3, <1>6
  <2>2. OfDay(rows, i) = Own(i)
    <3>1. \A r \in Own(i) : r \in OfDay(rows, i)
      BY <1>4, <2>1 DEF OfDay, Confirmed
    <3>2. \A r \in OfDay(rows, i) : r.id # "tx" /\ r \in rows /\ r.ok /\ r.day = i
      BY <1>6 DEF OfDay, Confirmed
    <3>3. \A r \in OfDay(rows, i) : r \in Own(i)
      BY <1>3, <3>2
    <3> QED BY <3>1, <3>3
  <2>3. /\ OwnCoins(i) \in Int /\ OwnCash(i) \in Int
        /\ OwnCash(i) = (OwnCash(i) \div curve[i].price) * curve[i].price
        /\ DayFlow(i) = OwnCoins(i) + OwnCash(i) \div curve[i].price
        /\ Own(i) = NonZero({b, u})
    BY <1>1, OwnAmounts
  <2>4. /\ b.day = i /\ b.currency = "BTC" /\ b.amount = OwnCoins(i) /\ b.id = "eq"
        /\ b.usd = OwnCoins(i) * curve[i].price
        /\ u.day = i /\ u.currency = "USDT" /\ u.amount = OwnCash(i) /\ u.usd = OwnCash(i)
    BY DEF OfCurve, Record
  <2>5. b.usd \in Int /\ (OwnCoins(i) = 0 => b.usd = 0)
    BY <1>2, <2>3, <2>4, FlowTimesPrice
  <2>6. OfDay(rows, i) = NonZero({b, u})
    BY <2>2, <2>3, Zenon
  <2> HIDE DEF b, u
  <2>7. DayIs(rows, i, b, u)
    BY <1>2, <2>3, <2>4, <2>5, <2>6 DEF DayIs
  <2> QED BY <2>7
<1> QED BY <1>5, <1>6

\* The days as the store answers them.
LEMMA DayAgrees ==
    ASSUME NEW i, NEW b, NEW u, DayIs(cache.rows, i, b, u)
    PROVE  DayMoved(i) = DayFlow(i)
<1> DEFINE Of(currency) == {s \in Confirmed(cache.rows) : s.day = i /\ s.currency = currency}
<1>1. /\ b.currency = "BTC" /\ b.amount \in Int /\ u.currency = "USDT" /\ u.amount \in Int
      /\ DayFlow(i) = b.amount + u.amount \div curve[i].price
      /\ OfDay(cache.rows, i) = NonZero({b, u})
  BY DEF DayIs
<1>2. Of("BTC") = (IF b.amount = 0 THEN {} ELSE {b}) /\ Of("USDT") = (IF u.amount = 0 THEN {} ELSE {u})
  <2>1. \A currency : \A r : r \in Of(currency) <=> r \in NonZero({b, u}) /\ r.currency = currency
    BY <1>1 DEF OfDay
  <2>2. Of("BTC") = (IF b.amount = 0 THEN {} ELSE {b})
    BY <1>1, <2>1 DEF NonZero
  <2>3. Of("USDT") = (IF u.amount = 0 THEN {} ELSE {u})
    BY <1>1, <2>1 DEF NonZero
  <2> QED BY <2>2, <2>3
<1>3. Daily(cache.rows, i, "BTC") = b.amount
  <2> DEFINE f == [r \in Of("BTC") |-> r.amount]
  <2>1. Daily(cache.rows, i, "BTC") = Total(f, Of("BTC"))
    BY DEF Daily, SumOf, Total
  <2>2. /\ \A x \in Of("BTC") : f[x] \in Int
        /\ b \in Of("BTC") => f[b] = b.amount
        /\ b \notin Of("BTC") => b.amount = 0
        /\ 0 \in Int /\ u \notin Of("BTC") /\ Of("BTC") \in SUBSET {b, u} /\ b # u
    BY <1>1, <1>2
  <2> HIDE DEF Of, f
  <2>3. Total(f, Of("BTC")) = b.amount + 0
    BY <1>1, <2>2, PairTotal
  <2> QED BY <1>1, <2>1, <2>3
<1>4. Daily(cache.rows, i, "USDT") = u.amount
  <2> DEFINE f == [r \in Of("USDT") |-> r.amount]
  <2>1. Daily(cache.rows, i, "USDT") = Total(f, Of("USDT"))
    BY DEF Daily, SumOf, Total
  <2>2. /\ \A x \in Of("USDT") : f[x] \in Int
        /\ u \in Of("USDT") => f[u] = u.amount
        /\ u \notin Of("USDT") => u.amount = 0
        /\ 0 \in Int /\ b \notin Of("USDT") /\ Of("USDT") \in SUBSET {b, u} /\ b # u
    BY <1>1, <1>2
  <2> HIDE DEF Of, f
  <2>3. Total(f, Of("USDT")) = 0 + u.amount
    BY <1>1, <2>2, PairTotal
  <2> QED BY <1>1, <2>1, <2>3
<1> QED BY <1>1, <1>3, <1>4 DEF DayMoved

\* What the records of a day are worth, if the exchange gave none in BTC.
LEMMA DayIsWorth ==
    ASSUME NEW rows, NEW i, NEW b, NEW u, DayIs(rows, i, b, u), curve[i].price \in Nat \ {0},
           ~\E r \in rows : r.id = "tx" /\ r.currency = "BTC",
           NEW f, \A r \in OfDay(rows, i) : f[r] = r.usd
    PROVE  /\ Total(f, OfDay(rows, i)) = DayFlow(i) * curve[i].price
           /\ IsFiniteSet(OfDay(rows, i)) /\ \A r \in OfDay(rows, i) : f[r] \in Int
           /\ DayFlow(i) * curve[i].price \in Int
<1>1. /\ b.currency = "BTC" /\ b.amount \in Int /\ b.usd \in Int /\ b.id \in {"eq", "tx"}
      /\ u.currency = "USDT" /\ u.amount \in Int /\ u.usd = u.amount
      /\ b.amount = 0 => b.usd = 0
      /\ b.id = "eq" => b.usd = b.amount * curve[i].price
      /\ u.amount = (u.amount \div curve[i].price) * curve[i].price
      /\ DayFlow(i) = b.amount + u.amount \div curve[i].price
      /\ OfDay(rows, i) = NonZero({b, u})
  BY DEF DayIs
<1> DEFINE S == OfDay(rows, i)
<1>2. /\ S \in SUBSET {b, u} /\ b # u /\ (b \in S <=> b.amount # 0) /\ (u \in S <=> u.amount # 0)
  BY <1>1 DEF NonZero
<1>3. /\ \A x \in S : f[x] \in Int
      /\ b \in S => f[b] = b.usd
      /\ b \notin S => b.usd = 0
      /\ u \in S => f[u] = u.usd
      /\ u \notin S => u.usd = 0
  BY <1>1, <1>2
<1>4. b.usd = b.amount * curve[i].price
  <2>1. CASE b.amount = 0
    BY <1>1, <2>1, FlowTimesPrice
  <2>2. CASE b.amount # 0
    <3>1. b \in rows
      BY <1>2, <2>2 DEF OfDay, Confirmed
    <3>2. b.id # "tx"
      BY <1>1, <3>1
    <3> QED BY <1>1, <3>2
  <2> QED BY <2>1, <2>2
<1> HIDE DEF S
<1>5. Total(f, S) = b.usd + u.usd /\ IsFiniteSet(S)
  <2>1. PICK vb \in Int, vu \in Int : vb = b.usd /\ vu = u.usd
    BY <1>1
  <2>2. /\ \A x \in S : f[x] \in Int
        /\ b \in S => f[b] = vb
        /\ b \notin S => vb = 0
        /\ u \in S => f[u] = vu
        /\ u \notin S => vu = 0
    BY <1>3, <2>1
  <2>3. S \in SUBSET {b, u} /\ b # u
    BY <1>2
  <2>4. Total(f, S) = vb + vu /\ IsFiniteSet(S)
    BY <2>2, <2>3, PairTotal
  <2> QED BY <2>1, <2>4
<1>6. PICK p \in Nat \ {0}, k \in Int, c \in Int, flow \in Int :
        /\ p = curve[i].price /\ k = u.amount \div p /\ c = b.amount /\ flow = c + k
  BY <1>1
<1>7. flow * p = c * p + k * p
  BY <1>6
<1>8. Total(f, S) = flow * p /\ flow = DayFlow(i) /\ flow * p \in Int
  BY <1>1, <1>4, <1>5, <1>6, <1>7
<1> QED BY <1>3, <1>5, <1>6, <1>8 DEF S

\* The total is that of the days.
LEMMA TotalAgrees ==
    ASSUME CurveInv, cache.days \in Days, cache.days >= 2, RowsRight(cache.rows, cache.days),
           \A i \in 1 .. cache.days : Settled(i),
           ~\E r \in cache.rows : r.id = "tx" /\ r.currency = "BTC"
    PROVE  NetDeposits(cache.rows) = SumOf([i \in 1 .. cache.days |-> DayFlow(i) * curve[i].price])
<1> DEFINE rows == cache.rows
           n == cache.days
           S == Confirmed(rows)
           f == [r \in S |-> r.usd]
           g == [i \in 1 .. n |-> DayFlow(i) * curve[i].price]
           day == [r \in S |-> r.day]
<1>1. n \in Nat /\ \A i \in 1 .. n : i \in Days
  BY PointsTyped
<1>2. ASSUME NEW i \in 1 .. n
      PROVE  /\ Total(f, OfDay(rows, i)) = DayFlow(i) * curve[i].price
             /\ IsFiniteSet(OfDay(rows, i)) /\ \A r \in OfDay(rows, i) : f[r] \in Int
             /\ DayFlow(i) * curve[i].price \in Int
  <2>1. PICK b, u : DayIs(rows, i, b, u)
    BY SettledDay
  <2>2. curve[i].price \in Nat \ {0}
    BY <1>1, PointFields
  <2>3. \A r \in OfDay(rows, i) : f[r] = r.usd
    BY DEF OfDay
  <2>4. ~\E r \in rows : r.id = "tx" /\ r.currency = "BTC"
    OBVIOUS
  <2> HIDE DEF rows, f
  <2> QED BY <2>1, <2>2, <2>3, <2>4, DayIsWorth
<1>3. \A r \in S : r.day \in 1 .. n /\ r \in OfDay(rows, r.day) /\ day[r] = r.day
  BY DEF RowsRight, Confirmed, OfDay
<1>4. \A r \in S : f[r] \in Int
  BY <1>2, <1>3
<1>5. IsFiniteSet(1 .. n)
  BY <1>1, FS_Interval
<1>6. IsFiniteSet(S)
  <2> DEFINE T == {OfDay(rows, i) : i \in 1 .. n}
  <2>1. IsFiniteSet(T)
    <3> DEFINE e == [i \in 1 .. n |-> OfDay(rows, i)]
    <3>1. T = {e[i] : i \in 1 .. n}
      OBVIOUS
    <3> HIDE DEF e, T
    <3>2. IsFiniteSet({e[i] : i \in 1 .. n})
      BY <1>5, FiniteImage
    <3> QED BY <3>1, <3>2
  <2>2. \A U \in T : IsFiniteSet(U)
    BY <1>2
  <2>3. S \subseteq UNION T
    BY <1>3
  <2> HIDE DEF T, S
  <2>4. IsFiniteSet(UNION T)
    BY <2>1, <2>2, FS_UNION
  <2> QED BY <2>3, <2>4, FS_Subset
<1>7. \A i \in 1 .. n : g[i] = Total(f, Group(S, day, i))
  <2> SUFFICES ASSUME NEW i \in 1 .. n PROVE g[i] = Total(f, Group(S, day, i))
    OBVIOUS
  <2>1. Group(S, day, i) = OfDay(rows, i)
    BY DEF Group, OfDay
  <2>2. g[i] = DayFlow(i) * curve[i].price
    OBVIOUS
  <2>3. Total(f, OfDay(rows, i)) = DayFlow(i) * curve[i].price
    BY <1>2
  <2> HIDE DEF g, f, S, day, rows
  <2> QED BY <2>1, <2>2, <2>3
<1>8. NetDeposits(rows) = Total(f, S) /\ SumOf(g) = Total(g, 1 .. n)
  BY DEF NetDeposits, SumOf, Total
<1>9. \A r \in S : day[r] \in 1 .. n
  BY <1>3
<1> HIDE DEF f, g, S, day, n, rows
<1>10. PICK G : G = 1 .. n
  OBVIOUS
<1>11. Total(g, G) = Total(f, S)
  <2>1. IsFiniteSet(G) /\ (\A r \in S : day[r] \in G) /\ \A i \in G : g[i] = Total(f, Group(S, day, i))
    BY <1>5, <1>7, <1>9, <1>10
  <2> QED BY <1>4, <1>6, <2>1, TotalByGroup
<1>12. NetDeposits(rows) = SumOf(g)
  BY <1>8, <1>10, <1>11
<1> QED BY <1>12 DEF rows, g, n

LEMMA StoreIsRight == ASSUME TransferInv PROVE TransferViewsAgree
<1> SUFFICES ASSUME cache # NotRead, cache.days >= 2
             PROVE  /\ \A i \in 1 .. cache.days : Settled(i) => DayMoved(i) = DayFlow(i)
                    /\ /\ \A i \in 1 .. cache.days : Settled(i)
                       /\ ~\E r \in cache.rows : r.id = "tx" /\ r.currency = "BTC"
                       => NetDeposits(cache.rows)
                              = SumOf([i \in 1 .. cache.days |-> DayFlow(i) * curve[i].price])
  BY DEF TransferViewsAgree
<1>1. CurveInv /\ cache.days \in Days /\ RowsRight(cache.rows, cache.days)
  BY PointsTyped DEF TransferInv, CacheInv
<1>2. ASSUME NEW i \in 1 .. cache.days, Settled(i) PROVE DayMoved(i) = DayFlow(i)
  BY <1>1, <1>2, SettledDay, DayAgrees
<1> QED BY <1>1, <1>2, TotalAgrees

\* On the days the curve or the exchange alone speaks for, with the whole of
\* it, the store's deposits are those performance is corrected for; so is the
\* total, unless the exchange gave a record in BTC (transfer_collector.py:311,
\* transfer_store.py:43, backfill_store.py:81).
THEOREM TransfersAreCounted == TransferSpec => []TransferViewsAgree
<1>1. TransferInv => TransferViewsAgree
  BY StoreIsRight
<1> QED BY <1>1, InitTransferInv, StepTransferInv, PTL DEF TransferSpec

-----------------------------------------------------------------------------
(* What a day adds to the figures *)

LEMMA EquityTyped == ASSUME CurveInv, NEW i \in Days PROVE Equity(curve[i]) \in Int
<1>1. curve[i].equity \in Int /\ curve[i].usdt \in Int /\ curve[i].price \in Nat \ {0}
  BY PointsTyped DEF CurvePoint
<1>2. curve[i].usdt \div curve[i].price \in Int
  BY <1>1
<1> QED BY <1>1, <1>2 DEF Equity

LEMMA FirstDayEarns ==
    ASSUME CurveInv
    PROVE  1 \in Days /\ Transfer(1) = 0 /\ Repriced(1) = 0 /\ curve[1].gain = 0 /\ curve[1].usdt = 0
BY PointsTyped DEF CurveInv, OpensCurve, Transfer, Repriced

LEMMA DayTyped ==
    ASSUME CurveInv, NEW i \in Days
    PROVE  Transfer(i) \in Int /\ Repriced(i) \in Int /\ curve[i].gain \in Int /\ curve[i].usdt \in Int
<1>1. curve[i].gain \in Int /\ curve[i].usdt \in Int /\ curve[i].price \in Nat \ {0}
  BY PointFields
<1>2. CASE i = 1
  BY <1>1, <1>2, FirstDayEarns
<1>3. CASE i # 1
  <2>1. Transfer(i) = OwnCoins(i) + OwnCash(i) \div curve[i].price /\ OwnCoins(i) \in Int /\ OwnCash(i) \in Int
    BY <1>3, OwnAmounts DEF DayFlow
  <2>2. i - 1 \in Days
    BY <1>3, PointsTyped
  <2>3. PICK was \in Int, p \in Nat \ {0}, q \in Nat \ {0} :
          was = curve[i - 1].usdt /\ p = curve[i].price /\ q = curve[i - 1].price
    BY <1>1, <2>2, PointFields
  <2>4. was \div p \in Int /\ was \div q \in Int /\ OwnCash(i) \div p \in Int
    BY <2>1, <2>3
  <2>5. Repriced(i) \in Int
    BY <2>3, <2>4 DEF Repriced
  <2> QED BY <1>1, <2>1, <2>3, <2>4, <2>5
<1> QED BY <1>2, <1>3

\* A day the curve tells right: the equity grows by what was moved, what was
\* earned and the price; the USDT that is not taken for moved is earned.
LEMMA DayEarns ==
    ASSUME CurveInv, NEW i \in Days, i # 1, Told(i)
    PROVE  /\ i - 1 \in Days /\ Transfer(i) \in Int /\ Repriced(i) \in Int
           /\ Equity(curve[i]) = Equity(curve[i - 1]) + Transfer(i) + curve[i].gain + Repriced(i)
           /\ account = "btc" =>
                 /\ UsdtMoved(i) \in Int
                 /\ curve[i].usdt - curve[i - 1].usdt - UsdtMoved(i) = curve[i].gain * curve[i].price
<1>1. /\ curve[i].equity \in Nat /\ curve[i].usdt \in Int /\ curve[i].price \in Nat \ {0}
      /\ curve[i].coins \in Int /\ curve[i].cash \in Int /\ curve[i].gain \in Int
      /\ curve[i].flagged \in BOOLEAN /\ account \in {"usd", "btc"} /\ Noise \in Nat
  BY PointFields, PointsTyped DEF CurveInv
<1>2. i - 1 \in Days /\ Transfer(i) \in Int /\ Repriced(i) \in Int /\ Follows(account, curve[i - 1], curve[i])
  BY DayTyped, PointsTyped
<1>3. /\ curve[i - 1].equity \in Nat /\ curve[i - 1].usdt \in Int /\ curve[i - 1].price \in Nat \ {0}
  BY <1>2, PointFields
<1>4. Transfer(i) = curve[i].coins + curve[i].cash \div curve[i].price
  BY ToldAmounts DEF DayFlow
<1>5. CASE account = "usd"
  <2>1. /\ curve[i].equity = curve[i - 1].equity + curve[i].gain + curve[i].cash
        /\ Transfer(i) = curve[i].cash /\ Repriced(i) = 0
        /\ Equity(curve[i]) = curve[i].equity /\ Equity(curve[i - 1]) = curve[i - 1].equity
    BY <1>2, <1>5 DEF Follows, UsdStep, Transfer, Repriced, Equity
  <2> QED BY <1>1, <1>2, <1>3, <1>5, <2>1
<1>6. CASE account = "btc"
  <2>1. PICK sent \in Int, earned \in Int :
          /\ curve[i].cash = sent * curve[i].price /\ sent = curve[i].cash \div curve[i].price
          /\ earned = curve[i].gain * curve[i].price
          /\ curve[i].usdt - curve[i - 1].usdt = earned + curve[i].cash
          /\ curve[i].usdt = curve[i - 1].usdt + (curve[i].gain + sent) * curve[i].price
          /\ curve[i].equity = curve[i - 1].equity + curve[i].coins
    BY <1>6, BtcStepIs
  <2>2. PICK p \in Nat \ {0}, q \in Nat \ {0}, u \in Int, k \in Int, was \in Int, before \in Int :
          /\ p = curve[i].price /\ q = curve[i - 1].price /\ u = curve[i - 1].usdt
          /\ k = curve[i].gain + sent /\ was = u \div p /\ before = u \div q
    <3>1. PICK p \in Nat \ {0}, q \in Nat \ {0}, u \in Int, k \in Int :
            /\ p = curve[i].price /\ q = curve[i - 1].price /\ u = curve[i - 1].usdt
            /\ k = curve[i].gain + sent
      BY <1>1, <1>3
    <3>2. u \div p \in Int /\ u \div q \in Int
      OBVIOUS
    <3> QED BY <3>1, <3>2
  <2>3. curve[i].usdt \div p = was + k
    <3>1. (u + k * p) \div p = u \div p + k
      BY QuotientMoves
    <3>2. curve[i].usdt = u + k * p
      BY <2>1, <2>2
    <3> QED BY <2>2, <3>1, <3>2
  <2>4. /\ Equity(curve[i]) = curve[i].equity + (was + k)
        /\ Equity(curve[i - 1]) = curve[i - 1].equity + before
        /\ Repriced(i) = was - before
    BY <1>6, <2>2, <2>3 DEF Equity, Repriced
  <2>5. Equity(curve[i]) = Equity(curve[i - 1]) + Transfer(i) + curve[i].gain + Repriced(i)
    BY <1>1, <1>3, <1>4, <2>1, <2>2, <2>4
  <2>6. PICK change \in Int : /\ change = curve[i].usdt - curve[i - 1].usdt
                              /\ change = earned + curve[i].cash
    BY <1>1, <1>3, <2>1
  <2>7. UsdtMoved(i) = IF curve[i].flagged /\ Size(change) > Noise THEN change ELSE 0
    BY <2>6 DEF UsdtMoved
  <2>8. UsdtMoved(i) = curve[i].cash
    <3>1. /\ curve[i].coins # 0 \/ curve[i].cash # 0 => curve[i].flagged
          /\ curve[i].cash # 0 => curve[i].gain = 0 /\ Size(curve[i].cash) > Noise
          /\ curve[i].flagged /\ curve[i].cash = 0 => Size(earned) <= Noise
      BY <1>6, <2>1 DEF Told
    <3>2. CASE ~curve[i].flagged
      BY <2>7, <3>1, <3>2
    <3>3. CASE curve[i].flagged /\ curve[i].cash # 0
      <4>1. earned = 0
        BY <1>1, <2>1, <3>1, <3>3
      <4>2. change = curve[i].cash
        BY <1>1, <2>6, <4>1
      <4> QED BY <2>7, <3>1, <3>3, <4>2
    <3>4. CASE curve[i].flagged /\ curve[i].cash = 0
      <4>1. change = earned
        BY <2>6, <3>4
      <4>2. Size(change) \in Int
        BY DEF Size
      <4>3. ~(Size(change) > Noise)
        BY <1>1, <3>1, <3>4, <4>1, <4>2
      <4> QED BY <2>7, <3>4, <4>3
    <3> QED BY <1>1, <3>2, <3>3, <3>4
  <2>9. curve[i].usdt - curve[i - 1].usdt - UsdtMoved(i) = curve[i].gain * curve[i].price
    BY <1>1, <2>1, <2>6, <2>8
  <2> QED BY <1>1, <1>2, <2>5, <2>8, <2>9
<1> QED BY <1>1, <1>5, <1>6

\* The steps of a walk add up to the way it went.
LEMMA StepsAddUp ==
    ASSUME NEW n \in Nat, NEW s \in 1 .. n, NEW v, \A i \in 1 .. n : v[i] \in Int,
           NEW g, \A i \in (s + 1) .. n : g[i] = v[i] - v[i - 1]
    PROVE  Total(g, (s + 1) .. n) = v[n] - v[s]
<1> DEFINE K == {k \in Nat : s <= k /\ k <= n => Total(g, (s + 1) .. k) = v[k] - v[s]}
<1>0. s \in Nat /\ s >= 1 /\ s <= n /\ v[s] \in Int
  OBVIOUS
<1>1. \A k \in Nat : k = s => k \in K
  <2>1. (s + 1) .. s = {}
    BY <1>0
  <2>2. Total(g, (s + 1) .. s) = 0
    BY <2>1, TotalEmpty
  <2> QED BY <1>0, <2>2
<1>2. 0 \in K
  BY <1>0
<1>3. \A k \in Nat : k \in K => k + 1 \in K
  <2> SUFFICES ASSUME NEW k \in Nat, k \in K, s <= k + 1, k + 1 <= n
               PROVE  k + 1 \in K
    OBVIOUS
  <2>1. CASE k + 1 = s
    BY <1>1, <2>1
  <2>2. CASE k + 1 # s
    <3>1. s <= k /\ k <= n /\ k \in 1 .. n /\ k + 1 \in 1 .. n /\ k + 1 \in (s + 1) .. n
      BY <1>0, <2>2
    <3>2. Total(g, (s + 1) .. k) = v[k] - v[s]
      BY <3>1
    <3> DEFINE S == (s + 1) .. k
    <3>3. (s + 1) .. (k + 1) = S \cup {k + 1} /\ k + 1 \notin S
      BY <1>0, <3>1
    <3>4. IsFiniteSet(S)
      BY <1>0, FS_Interval
    <3>5. \A i \in S : g[i] \in Int
      <4> SUFFICES ASSUME NEW i \in S PROVE g[i] \in Int
        OBVIOUS
      <4>1. i \in (s + 1) .. n /\ i \in 1 .. n /\ i - 1 \in 1 .. n
        BY <1>0, <3>1
      <4> QED BY <4>1
    <3>6. g[k + 1] = v[k + 1] - v[k] /\ v[k + 1] \in Int /\ v[k] \in Int
      <4>1. (k + 1) - 1 = k
        OBVIOUS
      <4> QED BY <3>1, <4>1
    <3> HIDE DEF S
    <3>7. Total(g, S \cup {k + 1}) = g[k + 1] + Total(g, S)
      BY <3>3, <3>4, <3>5, <3>6, TotalAdd
    <3>8. Total(g, (s + 1) .. (k + 1)) = Total(g, S \cup {k + 1})
      BY <3>3, Zenon
    <3>9. Total(g, S) = v[k] - v[s]
      BY <3>2 DEF S
    <3> QED BY <1>0, <3>6, <3>7, <3>8, <3>9
  <2> QED BY <2>1, <2>2
<1> HIDE DEF K
<1>4. n \in K
  BY <1>2, <1>3, NatSetInduction
<1> QED BY <1>0, <1>4 DEF K

\* In and out are all that moved.
LEMMA CapitalAddsUp == ASSUME CurveInv PROVE CapitalIn + CapitalOut = SumTransfers
<1> DEFINE t == [i \in Days |-> Transfer(i)]
           p == [i \in Days |-> IF Transfer(i) > 0 THEN Transfer(i) ELSE 0]
           q == [i \in Days |-> IF Transfer(i) < 0 THEN Transfer(i) ELSE 0]
<1>1. SumTransfers = Total(t, Days) /\ CapitalIn = Total(p, Days) /\ CapitalOut = Total(q, Days)
  BY DEF SumTransfers, CapitalIn, CapitalOut, SumOf, Total
<1>2. \A i \in Days : p[i] \in Int /\ q[i] \in Int /\ t[i] = p[i] + q[i]
  BY DayTyped
<1>3. IsFiniteSet(Days)
  BY PointsTyped
<1> HIDE DEF t, p, q
<1>4. Total(t, Days) = Total(p, Days) + Total(q, Days)
  BY <1>2, <1>3, TotalPlus
<1>5. Total(p, Days) \in Int /\ Total(q, Days) \in Int
  BY <1>2, <1>3, TotalType
<1> QED BY <1>1, <1>4, <1>5

LEMMA UsdtPnlIs == ASSUME CurveInv, CashIsTold PROVE UsdtPnlIsEarned
<1> SUFFICES ASSUME account = "btc", NEW start \in Days
             PROVE  UsdtPnl(start) = SumOf([i \in (start + 1) .. Len(curve) |->
                                                 curve[i].gain * curve[i].price])
  BY DEF UsdtPnlIsEarned
<1> DEFINE n == Len(curve)
           S == (start + 1) .. n
           v == [i \in 1 .. n |-> curve[i].usdt]
           m == [i \in S |-> UsdtMoved(i)]
           e == [i \in S |-> curve[i].gain * curve[i].price]
           g == [i \in S |-> v[i] - v[i - 1]]
<1>1. n \in Nat \ {0} /\ Days = 1 .. n /\ start \in Nat
  BY PointsTyped
<1>2. \A i \in S : i \in Days /\ i # 1 /\ i \in 1 .. n /\ i - 1 \in 1 .. n
  BY <1>1
<1>3. \A i \in 1 .. n : v[i] \in Int /\ v[i] = curve[i].usdt
  BY <1>1, DayTyped
<1>4. ASSUME NEW i \in S PROVE m[i] \in Int /\ e[i] \in Int /\ g[i] = e[i] + m[i]
  <2>1. i \in Days /\ i # 1 /\ i \in 1 .. n /\ i - 1 \in 1 .. n
    BY <1>2
  <2>2. PICK moved \in Int, earned, now \in Int, was \in Int :
          /\ moved = UsdtMoved(i) /\ earned = curve[i].gain * curve[i].price
          /\ now = curve[i].usdt /\ was = curve[i - 1].usdt
          /\ now - was - moved = earned
    <3>1. curve[i].usdt \in Int /\ curve[i - 1].usdt \in Int
      BY <1>1, <2>1, DayTyped
    <3>2. Told(i)
      BY <2>1 DEF CashIsTold
    <3>3. UsdtMoved(i) \in Int /\ curve[i].usdt - curve[i - 1].usdt - UsdtMoved(i) = curve[i].gain * curve[i].price
      BY <2>1, <3>2, DayEarns
    <3> HIDE DEF n
    <3> QED BY <3>1, <3>3
  <2>3. m[i] = moved /\ e[i] = earned /\ g[i] = now - was
    BY <1>3, <2>1, <2>2
  <2> QED BY <2>2, <2>3
<1>5. IsFiniteSet(S)
  BY <1>1, FS_Interval
<1>6. UsdtPnl(start) = curve[n].usdt - curve[start].usdt - Total(m, S)
  BY DEF UsdtPnl, SumOf, Total
<1>7. SumOf(e) = Total(e, S)
  BY DEF SumOf, Total
<1>8. \A i \in (start + 1) .. n : g[i] = v[i] - v[i - 1]
  OBVIOUS
<1> HIDE DEF m, e, g, v, n
<1>9. Total(g, (start + 1) .. n) = v[n] - v[start]
  BY <1>1, <1>3, <1>8, StepsAddUp
<1>10. Total(g, S) = v[n] - v[start]
  BY <1>9, Zenon
<1> HIDE DEF S
<1>11. Total(g, S) = Total(e, S) + Total(m, S) /\ Total(e, S) \in Int /\ Total(m, S) \in Int
  BY <1>4, <1>5, TotalPlus, TotalType
<1>12. v[n] = curve[n].usdt /\ v[start] = curve[start].usdt /\ v[n] \in Int /\ v[start] \in Int
  BY <1>1, <1>3
<1>13. UsdtPnl(start) = SumOf(e)
  BY <1>6, <1>7, <1>10, <1>11, <1>12
<1> QED BY <1>13 DEF e, S, n

\* What was earned and moved since is the equity there is more.
LEMMA EquityGrew ==
    ASSUME CurveInv, CashIsTold
    PROVE  /\ SumTransfers \in Int /\ TrueGains \in Int
           /\ Equity(curve[Len(curve)]) = Equity(curve[1]) + SumTransfers + TrueGains
<1> DEFINE n == Len(curve)
           S == 2 .. n
           t == [i \in Days |-> Transfer(i)]
           e == [i \in Days |-> curve[i].gain + Repriced(i)]
           h == [i \in Days |-> t[i] + e[i]]
           v == [i \in 1 .. n |-> Equity(curve[i])]
<1>1. n \in Nat \ {0} /\ Days = 1 .. n /\ IsFiniteSet(Days) /\ 1 \in Days
  BY PointsTyped
<1>2. SumTransfers = Total(t, Days) /\ TrueGains = Total(e, Days)
  BY DEF SumTransfers, TrueGains, SumOf, Total
<1>3. \A i \in Days : t[i] \in Int /\ e[i] \in Int /\ h[i] = t[i] + e[i] /\ h[i] \in Int
  BY DayTyped
<1>4. h[1] = 0
  <2>1. t[1] = 0 /\ e[1] = 0
    BY <1>1, FirstDayEarns
  <2> QED BY <1>1, <2>1
<1>5. \A i \in 1 .. n : v[i] \in Int
  BY <1>1, EquityTyped
<1>6. ASSUME NEW i \in 2 .. n PROVE h[i] = v[i] - v[i - 1]
  <2>1. i \in Days /\ i # 1 /\ i \in 1 .. n /\ i - 1 \in 1 .. n
    BY <1>1
  <2>2. PICK x \in Int, y \in Int, z \in Int, now \in Int, was \in Int :
          /\ x = Transfer(i) /\ y = curve[i].gain /\ z = Repriced(i)
          /\ now = Equity(curve[i]) /\ was = Equity(curve[i - 1]) /\ now = was + x + y + z
    <3>1. Equity(curve[i]) \in Int /\ Equity(curve[i - 1]) \in Int
      BY <1>1, <2>1, EquityTyped
    <3>2. Transfer(i) \in Int /\ Repriced(i) \in Int /\ curve[i].gain \in Int
      BY <2>1, DayTyped
    <3> HIDE DEF n
    <3> QED BY <2>1, <3>1, <3>2, DayEarns DEF CashIsTold
  <2>3. t[i] = x /\ e[i] = y + z /\ v[i] = now /\ v[i - 1] = was
    BY <2>1, <2>2
  <2> HIDE DEF t, e, v
  <2>4. h[i] = t[i] + e[i]
    BY <2>1
  <2> HIDE DEF h
  <2>5. h[i] = x + (y + z)
    BY <2>3, <2>4
  <2>6. v[i] - v[i - 1] = now - was
    BY <2>3
  <2>7. now = was + x + y + z
    BY <2>2, Zenon
  <2>8. now - was = x + (y + z)
    BY <2>7
  <2> QED BY <2>5, <2>6, <2>8
<1>7. v[n] = Equity(curve[n]) /\ v[1] = Equity(curve[1])
  BY <1>1
<1> HIDE DEF t, e, h, v, n
<1>8. Total(h, Days) = Total(t, Days) + Total(e, Days) /\ Total(t, Days) \in Int /\ Total(e, Days) \in Int
  BY <1>1, <1>3, TotalPlus, TotalType
<1>9. Total(h, Days) = Total(h, S)
  <2>1. S \in SUBSET Days /\ \A i \in Days \ S : i = 1
    BY <1>1
  <2>2. \A i \in Days \ S : h[i] = 0
    BY <1>4, <2>1
  <2> HIDE DEF S
  <2> QED BY <1>1, <1>3, <2>1, <2>2, TotalWithout
<1>10. Total(h, S) = v[n] - v[1]
  <2>1. 1 \in 1 .. n /\ \A i \in (1 + 1) .. n : h[i] = v[i] - v[i - 1]
    BY <1>1, <1>6
  <2>2. Total(h, (1 + 1) .. n) = v[n] - v[1]
    BY <1>1, <1>5, <2>1, StepsAddUp
  <2>3. (1 + 1) .. n = S
    OBVIOUS
  <2> QED BY <2>2, <2>3, Zenon
<1>11. v[n] \in Int /\ v[1] \in Int
  BY <1>1, <1>5
<1>12. Equity(curve[n]) = Equity(curve[1]) + SumTransfers + TrueGains
  BY <1>2, <1>7, <1>8, <1>9, <1>10, <1>11
<1> QED BY <1>2, <1>8, <1>12 DEF n

LEMMA RecoveryIs == ASSUME CurveInv, CashIsTold PROVE RecoveryIsEarned
<1> SUFFICES ASSUME AlwaysFunded, NEW seed \in HwmSeeds
             PROVE  LET opening == IF seed > 0 THEN seed ELSE Starting
                        short == opening - Starting - TrueGains
                    IN  NotionalRecovery(seed) = IF short > 0 THEN short ELSE 0
  BY DEF RecoveryIsEarned
<1>1. Funded = Days /\ Days = 1 .. Len(curve) /\ Len(curve) \in Nat \ {0} /\ IsFiniteSet(Days)
  BY PointsTyped DEF Funded, AlwaysFunded
<1>2. Min(Days) = 1 /\ Max(Days) = Len(curve)
  <2>1. Days \subseteq Int /\ Days # {}
    BY <1>1
  <2>2. /\ Min(Days) \in Days /\ \A i \in Days : Min(Days) <= i
        /\ Max(Days) \in Days /\ \A i \in Days : i <= Max(Days)
    BY <1>1, <2>1, LeastElement, GreatestElement
  <2>3. PICK a \in Days, b \in Days : a = Min(Days) /\ b = Max(Days)
    BY <2>2
  <2>4. a = 1 /\ b = Len(curve)
    <3>1. \A i \in Days : a <= i /\ i <= b
      BY <2>2, <2>3
    <3> QED BY <1>1, <3>1
  <2> QED BY <2>3, <2>4
<1>3. Starting = Equity(curve[1]) /\ Current = Equity(curve[Len(curve)])
  BY <1>1, <1>2 DEF Starting, Current
<1>4. PICK a \in Int, b \in Int, t \in Int, e \in Int :
        /\ a = Starting /\ b = Current /\ t = SumTransfers /\ e = TrueGains /\ b = a + t + e
  <2>1. 1 \in Days /\ Len(curve) \in Days
    BY <1>1
  <2>2. Equity(curve[1]) \in Int /\ Equity(curve[Len(curve)]) \in Int
    BY <2>1, EquityTyped
  <2> QED BY <1>3, <2>2, EquityGrew
<1>5. seed \in Nat
  BY PerfAssumption
<1>6. PICK o \in Int : o = IF seed > 0 THEN seed ELSE a
  BY <1>5
<1>7. NotionalHwm(seed) = o + t
  BY <1>4, <1>6 DEF NotionalHwm
<1>8. NotionalRecovery(seed) = IF o + t > b THEN o + t - b ELSE 0
  BY <1>4, <1>7 DEF NotionalRecovery
<1>9. NotionalRecovery(seed) = IF o - a - e > 0 THEN o - a - e ELSE 0
  BY <1>4, <1>8
<1> QED BY <1>4, <1>6, <1>9

-----------------------------------------------------------------------------
(* The compounded returns *)

Pairs == Int \X Int

\* h multiplies the factors up one by one.
Chain(h, factor, N) == h = [n \in 0 .. N |-> IF n = 0 THEN One ELSE Times(h[n - 1], factor[n])]

LEMMA TimesTyped ==
    /\ One \in Pairs
    /\ \A x, y \in Pairs : Times(x, y) \in Pairs
    /\ \A x \in Pairs : Times(x, One) = x /\ Times(One, x) = x
<1>1. One \in Pairs
  BY DEF One, Ratio, Pairs
<1>2. ASSUME NEW x \in Pairs, NEW y \in Pairs PROVE Times(x, y) \in Pairs
  <2>1. x[1] * y[1] \in Int /\ x[2] * y[2] \in Int
    BY DEF Pairs
  <2> QED BY <2>1 DEF Times, Ratio, Pairs
<1>3. ASSUME NEW x \in Pairs PROVE Times(x, One) = x /\ Times(One, x) = x
  BY DEF Pairs, Times, One, Ratio
<1> QED BY <1>1, <1>2, <1>3

\* Factors may change places.
LEMMA TimesSwaps ==
    ASSUME NEW x \in Pairs, NEW y \in Pairs, NEW z \in Pairs
    PROVE  Times(Times(x, y), z) = Times(Times(x, z), y) /\ Times(x, Times(y, z)) = Times(Times(x, y), z)
<1>1. PICK a \in Int, b \in Int, c \in Int, d \in Int, e \in Int, f \in Int :
        x = <<a, b>> /\ y = <<c, d>> /\ z = <<e, f>>
  BY DEF Pairs
<1>2. (a * c) * e = (a * e) * c /\ (b * d) * f = (b * f) * d
  OBVIOUS
<1>3. a * (c * e) = (a * c) * e /\ b * (d * f) = (b * d) * f
  OBVIOUS
<1> QED BY <1>1, <1>2, <1>3 DEF Times, Ratio

LEMMA ChainExists ==
    ASSUME NEW N \in Nat, NEW factor, \A n \in 1 .. N : factor[n] \in Pairs
    PROVE  \E h \in [0 .. N -> Pairs] : Chain(h, factor, N)
<1> DEFINE g == [n \in 1 .. N |-> [x \in Pairs |-> Times(x, factor[n])]]
<1>1. g \in [1 .. N -> [Pairs -> Pairs]]
  BY TimesTyped
<1>2. \A n \in 1 .. N : \A x \in Pairs : g[n][x] = Times(x, factor[n])
  OBVIOUS
<1> HIDE DEF g
<1>3. PICK h \in [0 .. N -> Pairs] : Iterates(h, g, One, N)
  BY <1>1, TimesTyped, IterationExists
<1>4. h = [n \in 0 .. N |-> IF n = 0 THEN One ELSE g[n][h[n - 1]]]
  BY <1>3 DEF Iterates
<1>5. \A n \in 0 .. N : n # 0 => n \in 1 .. N /\ n - 1 \in 0 .. N
  OBVIOUS
<1>6. \A n \in 0 .. N : n # 0 => g[n][h[n - 1]] = Times(h[n - 1], factor[n])
  BY <1>2, <1>5
<1>7. h = [n \in 0 .. N |-> IF n = 0 THEN One ELSE Times(h[n - 1], factor[n])]
  BY <1>4, <1>6
<1> QED BY <1>7 DEF Chain

LEMMA ChainSteps ==
    ASSUME NEW N \in Nat, NEW factor, NEW h, Chain(h, factor, N)
    PROVE  /\ DOMAIN h = 0 .. N /\ h[0] = One
           /\ \A n \in Nat : n + 1 <= N => h[n + 1] = Times(h[n], factor[n + 1])
<1>1. h = [n \in 0 .. N |-> IF n = 0 THEN One ELSE Times(h[n - 1], factor[n])]
  BY DEF Chain
<1>2. ASSUME NEW n \in Nat, n + 1 <= N PROVE h[n + 1] = Times(h[n], factor[n + 1])
  <2>1. n + 1 \in 0 .. N /\ n + 1 # 0 /\ (n + 1) - 1 = n
    BY <1>2
  <2>2. h[n + 1] = Times(h[(n + 1) - 1], factor[n + 1])
    BY <1>1, <2>1
  <2> QED BY <2>1, <2>2
<1>3. h[0] = One
  BY <1>1
<1> QED BY <1>1, <1>2, <1>3

LEMMA ChainTyped ==
    ASSUME NEW N \in Nat, NEW factor, \A n \in 1 .. N : factor[n] \in Pairs,
           NEW h, Chain(h, factor, N)
    PROVE  h \in [0 .. N -> Pairs]
<1>1. PICK k \in [0 .. N -> Pairs] : Chain(k, factor, N)
  BY ChainExists
<1> DEFINE K == {n \in Nat : n <= N => h[n] = k[n]}
<1>2. 0 \in K
  BY <1>1, ChainSteps
<1>3. \A n \in Nat : n \in K => n + 1 \in K
  <2> SUFFICES ASSUME NEW n \in Nat, n \in K, n + 1 <= N PROVE h[n + 1] = k[n + 1]
    OBVIOUS
  <2>1. h[n] = k[n]
    OBVIOUS
  <2>2. h[n + 1] = Times(h[n], factor[n + 1]) /\ k[n + 1] = Times(k[n], factor[n + 1])
    BY <1>1, ChainSteps
  <2> QED BY <2>1, <2>2
<1> HIDE DEF K
<1>4. \A n \in Nat : n \in K
  BY <1>2, <1>3, NatSetInduction
<1>5. \A n \in 0 .. N : h[n] \in Pairs
  BY <1>1, <1>4 DEF K
<1>6. h = [n \in 0 .. N |-> IF n = 0 THEN One ELSE Times(h[n - 1], factor[n])]
  BY DEF Chain
<1> QED BY <1>5, <1>6

LEMMA CompoundIs ==
    ASSUME CurveInv, NEW factor, \A n \in Days : factor[n] \in Pairs
    PROVE  Chain(Compound(factor), factor, Len(curve)) /\ Compound(factor) \in [0 .. Len(curve) -> Pairs]
<1> DEFINE N == Len(curve)
           c == CHOOSE h : Chain(h, factor, N)
<1>1. N \in Nat /\ Days = 1 .. N
  BY PointsTyped
<1>2. \E h : Chain(h, factor, N)
  <2> HIDE DEF N
  <2> QED BY <1>1, ChainExists
<1>3. Chain(c, factor, N)
  BY <1>2
<1>4. Compound(factor) = c
  BY DEF Compound, Chain
<1> HIDE DEF c, N
<1>5. c \in [0 .. N -> Pairs]
  BY <1>1, <1>3, ChainTyped
<1> QED BY <1>3, <1>4, <1>5 DEF N

\* Factors of 1.0 multiply to 1.0.
LEMMA OnesCompound ==
    ASSUME NEW N \in Nat, NEW factor, \A n \in 1 .. N : factor[n] = One,
           NEW h, Chain(h, factor, N)
    PROVE  \A n \in 0 .. N : h[n] = One
<1> DEFINE K == {n \in Nat : n <= N => h[n] = One}
<1>1. 0 \in K
  BY ChainSteps
<1>2. \A n \in Nat : n \in K => n + 1 \in K
  <2> SUFFICES ASSUME NEW n \in Nat, n \in K, n + 1 <= N PROVE h[n + 1] = One
    OBVIOUS
  <2>1. h[n] = One /\ factor[n + 1] = One
    OBVIOUS
  <2>2. h[n + 1] = Times(h[n], factor[n + 1])
    BY ChainSteps
  <2> QED BY <2>1, <2>2, TimesTyped
<1> HIDE DEF K
<1>3. \A n \in Nat : n \in K
  BY <1>1, <1>2, NatSetInduction
<1> QED BY <1>3 DEF K

\* f is e with a factor more at the place m0.
MoreAt(f, e, m0, x, M) ==
    \A m \in 1 .. M : e[m] \in Pairs /\ f[m] = IF m = m0 THEN Times(e[m], x) ELSE e[m]

\* It multiplies the product.
LEMMA OneFactorMore ==
    ASSUME NEW M \in Nat, NEW m0 \in 1 .. M, NEW x \in Pairs,
           NEW e, NEW f, MoreAt(f, e, m0, x, M),
           NEW h, Chain(h, e, M), NEW k, Chain(k, f, M)
    PROVE  k[M] = Times(h[M], x)
<1> USE DEF MoreAt
<1> DEFINE K == {m \in Nat : m <= M => k[m] = IF m < m0 THEN h[m] ELSE Times(h[m], x)}
<1>1. h \in [0 .. M -> Pairs]
  BY ChainTyped
<1>2. 0 \in K
  BY ChainSteps
<1>3. \A m \in Nat : m \in K => m + 1 \in K
  <2> SUFFICES ASSUME NEW m \in Nat, m \in K, m + 1 <= M
               PROVE  k[m + 1] = IF m + 1 < m0 THEN h[m + 1] ELSE Times(h[m + 1], x)
    OBVIOUS
  <2>1. k[m] = IF m < m0 THEN h[m] ELSE Times(h[m], x)
    OBVIOUS
  <2>2. /\ h[m + 1] = Times(h[m], e[m + 1])
        /\ k[m + 1] = Times(k[m], f[m + 1])
    BY ChainSteps
  <2>3. h[m] \in Pairs /\ e[m + 1] \in Pairs
    BY <1>1
  <2>4. f[m + 1] = IF m + 1 = m0 THEN Times(e[m + 1], x) ELSE e[m + 1]
    OBVIOUS
  <2>5. CASE m + 1 < m0
    <3>1. m < m0 /\ m + 1 # m0
      BY <2>5
    <3> QED BY <2>1, <2>2, <2>4, <2>5, <3>1
  <2>6. CASE m + 1 = m0
    <3>1. m < m0 /\ ~(m + 1 < m0)
      BY <2>6
    <3>2. k[m] = h[m] /\ f[m + 1] = Times(e[m + 1], x)
      BY <2>1, <2>4, <2>6, <3>1
    <3>3. k[m + 1] = Times(h[m], Times(e[m + 1], x))
      BY <2>2, <3>2
    <3>4. k[m + 1] = Times(Times(h[m], e[m + 1]), x)
      BY <2>3, <3>3, TimesSwaps
    <3> QED BY <2>2, <3>1, <3>4
  <2>7. CASE m + 1 > m0
    <3>1. ~(m < m0) /\ ~(m + 1 < m0) /\ m + 1 # m0
      BY <2>7
    <3>2. k[m] = Times(h[m], x) /\ f[m + 1] = e[m + 1]
      BY <2>1, <2>4, <3>1
    <3>3. k[m + 1] = Times(Times(h[m], x), e[m + 1])
      BY <2>2, <3>2
    <3>4. k[m + 1] = Times(Times(h[m], e[m + 1]), x)
      BY <2>3, <3>3, TimesSwaps
    <3> QED BY <2>2, <3>1, <3>4
  <2> QED BY <2>5, <2>6, <2>7
<1> HIDE DEF K
<1>4. \A m \in Nat : m \in K
  BY <1>2, <1>3, NatSetInduction
<1>5. M \in K
  BY <1>4
<1> QED BY <1>5 DEF K

\* g is the products of the months, part[m] the factors of the days of m.
ByMonth(d, month, part, g, N, M) ==
    /\ month \in [1 .. N -> 1 .. M]
    /\ \A i \in 1 .. N : d[i] \in Pairs
    /\ \A m \in 1 .. M :
          /\ Chain(g[m], part[m], N)
          /\ \A i \in 1 .. N : part[m][i] = IF month[i] = m THEN d[i] ELSE One

\* Compounding the days month by month, each month as a product of its own,
\* and the months after that is compounding the days.
LEMMA MonthsCompound ==
    ASSUME NEW N \in Nat, NEW M \in Nat, NEW d, NEW month, NEW part, NEW g,
           ByMonth(d, month, part, g, N, M), NEW h, Chain(h, d, N)
    PROVE  \A k : Chain(k, [m \in 1 .. M |-> g[m][N]], M) => k[M] = h[N]
<1> /\ month \in [1 .. N -> 1 .. M]
    /\ \A i \in 1 .. N : d[i] \in Pairs
    /\ \A m \in 1 .. M :
          /\ Chain(g[m], part[m], N)
          /\ \A i \in 1 .. N : part[m][i] = IF month[i] = m THEN d[i] ELSE One
  BY DEF ByMonth
<1> DEFINE e(n) == [m \in 1 .. M |-> g[m][n]]
           K == {n \in Nat : n <= N => \A k : Chain(k, e(n), M) => k[M] = h[n]}
<1>1. \A m \in 1 .. M : \A i \in 1 .. N : part[m][i] \in Pairs
  BY TimesTyped
<1>2. \A m \in 1 .. M : g[m] \in [0 .. N -> Pairs]
  <2> TAKE m \in 1 .. M
  <2>1. \A i \in 1 .. N : part[m][i] \in Pairs
    BY <1>1
  <2>2. Chain(g[m], part[m], N)
    OBVIOUS
  <2> QED BY <2>1, <2>2, ChainTyped
<1>3. h \in [0 .. N -> Pairs]
  BY ChainTyped
<1> HIDE DEF e
<1>10. \A n \in Nat : n \in K <=> (n <= N => \A k : Chain(k, e(n), M) => k[M] = h[n])
  OBVIOUS
<1> HIDE DEF K
<1>4. 0 \in K
  <2> SUFFICES ASSUME NEW k, Chain(k, e(0), M) PROVE k[M] = h[0]
    BY <1>10
  <2>1. ASSUME NEW m \in 1 .. M PROVE e(0)[m] = One
    <3>1. Chain(g[m], part[m], N)
      OBVIOUS
    <3>2. g[m][0] = One
      BY <3>1, ChainSteps
    <3> QED BY <3>2 DEF e
  <2>2. k[M] = One
    BY <2>1, OnesCompound
  <2> QED BY <2>2, ChainSteps
<1>5. \A n \in Nat : n \in K => n + 1 \in K
  <2> SUFFICES ASSUME NEW n \in Nat, n \in K, n + 1 <= N, NEW k, Chain(k, e(n + 1), M)
               PROVE  k[M] = h[n + 1]
    BY <1>10
  <2>1. \A j : Chain(j, e(n), M) => j[M] = h[n]
    BY <1>10
  <2>2. n \in 0 .. N /\ n + 1 \in 1 .. N /\ n + 1 \in 0 .. N
    OBVIOUS
  <2>3. \A m \in 1 .. M : e(n)[m] \in Pairs
    BY <1>2, <2>2 DEF e
  <2>4. PICK m0 \in 1 .. M : m0 = month[n + 1]
    BY <2>2
  <2>5. PICK x \in Pairs : x = d[n + 1]
    BY <2>2
  <2>6. ASSUME NEW m \in 1 .. M
        PROVE  e(n + 1)[m] = IF m = m0 THEN Times(e(n)[m], x) ELSE e(n)[m]
    <3>1. Chain(g[m], part[m], N)
      OBVIOUS
    <3>2. g[m][n + 1] = Times(g[m][n], part[m][n + 1])
      BY <3>1, ChainSteps
    <3>3. part[m][n + 1] = IF m = m0 THEN x ELSE One
      BY <2>2, <2>4, <2>5
    <3>4. g[m][n] \in Pairs
      BY <1>2, <2>2
    <3>5. e(n + 1)[m] = g[m][n + 1] /\ e(n)[m] = g[m][n]
      BY DEF e
    <3> QED BY <3>2, <3>3, <3>4, <3>5, TimesTyped
  <2>7. h[n + 1] = Times(h[n], x)
    BY <2>5, ChainSteps
  <2>8. PICK j : Chain(j, e(n), M)
    BY <2>3, ChainExists
  <2>9. k[M] = Times(j[M], x)
    <3>1. PICK a, b : a = e(n) /\ b = e(n + 1)
      OBVIOUS
    <3>2. Chain(j, a, M) /\ Chain(k, b, M)
      BY <2>8, <3>1
    <3>3. MoreAt(b, a, m0, x, M)
      BY <2>3, <2>6, <3>1 DEF MoreAt
    <3> QED BY <3>2, <3>3, OneFactorMore
  <2>10. j[M] = h[n]
    BY <2>1, <2>8
  <2> QED BY <2>7, <2>9, <2>10
<1>6. \A n \in Nat : n \in K
  BY <1>4, <1>5, NatSetInduction
<1> QED BY <1>6, <1>10 DEF e

LEMMA MonthsInOrder ==
    ASSUME CurveInv
    PROVE  /\ Month(Len(curve)) \in Nat
           /\ \A i \in Days : Month(i) \in 1 .. Month(Len(curve))
<1>1. PICK p \in Nat \ {0}, n \in Nat \ {0} : p = DaysPerMonth /\ n = Len(curve) /\ Days = 1 .. n
  BY PointsTyped, PerfAssumption
<1>2. ASSUME NEW i \in 1 .. n PROVE Month(i) \in 1 .. Month(n)
  <2>1. PICK x \in Int, y \in Int : x = (i - 1) \div p /\ y = (n - 1) \div p
    OBVIOUS
  <2>2. p * y > (n - 1) - p
    BY <2>1
  <2>3. p * x <= i - 1
    BY <2>1
  <2>4. x >= 0
    BY <2>1
  <2>5. p * x < p * y + p
    BY <2>2, <2>3
  <2>6. p * x < p * (y + 1)
    BY <2>5
  <2>7. x < y + 1
    BY <2>6
  <2> QED BY <1>1, <2>1, <2>4, <2>7 DEF Month
<1>3. Month(n) \in Nat
  <2>1. n \in 1 .. n
    OBVIOUS
  <2>2. Month(n) \in Int
    BY <1>1 DEF Month
  <2>3. Month(n) \in 1 .. Month(n)
    BY <1>2, <2>1
  <2> QED BY <2>2, <2>3
<1> QED BY <1>1, <1>2, <1>3

LEMMA ReturnsTyped ==
    ASSUME CurveInv, NEW i \in Days
    PROVE  /\ i \in CountedDays => DayReturn(i) \in Pairs
           /\ DailyReturns[i] \in Pairs
           /\ \A m : ReturnsOf(m)[i] = IF Month(i) = m THEN DailyReturns[i] ELSE One
<1>1. ASSUME i \in CountedDays PROVE DayReturn(i) \in Pairs
  <2>1. i > 1 /\ i \in Nat /\ i - 1 \in Days
    BY <1>1, PointsTyped DEF CountedDays, Counts
  <2>2. Equity(curve[i]) \in Int /\ Equity(curve[i - 1]) \in Int
    BY <2>1, EquityTyped
  <2>3. Transfer(i) \in Int
    BY DayTyped
  <2> QED BY <2>2, <2>3 DEF DayReturn, Ratio, Pairs
<1>2. DailyReturns[i] \in Pairs
  BY <1>1, TimesTyped DEF DailyReturns
<1>3. i \in CountedDays <=> Counts(i)
  BY DEF CountedDays
<1>4. \A m : ReturnsOf(m)[i] = IF Month(i) = m THEN DailyReturns[i] ELSE One
  BY <1>3 DEF ReturnsOf, DailyReturns
<1> QED BY <1>1, <1>2, <1>4

\* The product of a month is the product of all its days, and 1.0 when none
\* of them counts.
LEMMA MonthIs ==
    ASSUME CurveInv, NEW m
    PROVE  /\ Chain(Compound(ReturnsOf(m)), ReturnsOf(m), Len(curve))
           /\ Compound(ReturnsOf(m))[Len(curve)] \in Pairs
           /\ m \notin {Month(i) : i \in CountedDays} => Compound(ReturnsOf(m))[Len(curve)] = One
<1> DEFINE f == ReturnsOf(m)
           n == Len(curve)
<1>1. n \in Nat /\ Days = 1 .. n
  BY PointsTyped
<1>2. \A i \in Days : f[i] \in Pairs
  BY ReturnsTyped, TimesTyped
<1> HIDE DEF f
<1>3. Chain(Compound(f), f, n) /\ Compound(f) \in [0 .. n -> Pairs]
  BY <1>2, CompoundIs
<1>4. Compound(f)[n] \in Pairs
  <2>1. n \in 0 .. n
    BY <1>1
  <2> HIDE DEF n
  <2> QED BY <1>3, <2>1
<1>5. ASSUME m \notin {Month(i) : i \in CountedDays} PROVE Compound(f)[n] = One
  <2>1. \A i \in Days : f[i] = One
    <3> TAKE i \in Days
    <3>1. f[i] = IF Month(i) = m THEN DailyReturns[i] ELSE One
      BY ReturnsTyped DEF f
    <3>2. Month(i) = m => i \notin CountedDays
      BY <1>5
    <3> QED BY <3>1, <3>2 DEF DailyReturns
  <2>2. n \in 0 .. n
    BY <1>1
  <2>3. \A i \in 1 .. n : f[i] = One
    BY <1>1, <2>1
  <2>4. PICK h : h = Compound(f)
    OBVIOUS
  <2> HIDE DEF n
  <2>5. Chain(h, f, n)
    BY <1>3, <2>4
  <2>6. h[n] = One
    BY <1>1, <2>2, <2>3, <2>5, OnesCompound
  <2> QED BY <2>4, <2>6
<1> QED BY <1>3, <1>4, <1>5 DEF f

LEMMA MonthsAre ==
    ASSUME CurveInv, NEW M, M = Month(Len(curve)),
           NEW e, \A m \in 1 .. M : e[m] = Compound(ReturnsOf(m))[Len(curve)],
           NEW k, Chain(k, e, M)
    PROVE  MonthsTogether = k[M]
<1> DEFINE R == MonthlyReturns
           Step(t, m) == IF m \in DOMAIN R THEN Times(t[m - 1], R[m]) ELSE t[m - 1]
           Total0(t) == t = [m \in 0 .. M |-> IF m = 0 THEN One ELSE Step(t, m)]
           c == CHOOSE t : Total0(t)
<1>1. M \in Nat
  BY MonthsInOrder
<1>2. \A m \in 1 .. M : e[m] \in Pairs
  BY MonthIs
<1>3. k \in [0 .. M -> Pairs]
  BY <1>1, <1>2, ChainTyped
<1>4. \A m \in 1 .. M : IF m \in DOMAIN R THEN R[m] = e[m] ELSE e[m] = One
  <2>1. DOMAIN R = {Month(i) : i \in CountedDays} /\ \A m \in DOMAIN R : R[m] = Compound(ReturnsOf(m))[Len(curve)]
    BY DEF MonthlyReturns
  <2> QED BY <2>1, MonthIs
<1> HIDE DEF R
<1>5. \A m \in 1 .. M : Step(k, m) = Times(k[m - 1], e[m])
  <2> TAKE m \in 1 .. M
  <2>1. k[m - 1] \in Pairs
    BY <1>1, <1>3
  <2> QED BY <1>4, <2>1, TimesTyped
<1>6. Total0(k)
  <2>1. k = [m \in 0 .. M |-> IF m = 0 THEN One ELSE Times(k[m - 1], e[m])]
    BY DEF Chain
  <2>2. \A m \in 0 .. M : m # 0 => m \in 1 .. M
    BY <1>1
  <2> HIDE DEF Step
  <2> QED BY <1>5, <2>1, <2>2
<1>7. MonthsTogether = c[M]
  BY DEF MonthsTogether, R
<1>8. Total0(c)
  <2> HIDE DEF Total0
  <2> QED BY <1>6
<1>13. \A m \in 0 .. M : /\ c[m] = IF m = 0 THEN One ELSE Step(c, m)
                        /\ k[m] = IF m = 0 THEN One ELSE Step(k, m)
  BY <1>6, <1>8
<1> HIDE DEF c, Step, Total0
<1> DEFINE K == {m \in Nat : m <= M => c[m] = k[m]}
<1>9. 0 \in K
  BY <1>1, <1>13
<1>10. \A m \in Nat : m \in K => m + 1 \in K
  <2> SUFFICES ASSUME NEW m \in Nat, m \in K, m + 1 <= M PROVE c[m + 1] = k[m + 1]
    BY <1>1
  <2>1. c[m] = k[m]
    BY <1>1
  <2>2. m + 1 \in 0 .. M /\ m + 1 # 0 /\ (m + 1) - 1 = m
    BY <1>1
  <2>3. c[m + 1] = Step(c, m + 1) /\ k[m + 1] = Step(k, m + 1)
    BY <1>13, <2>2
  <2> QED BY <2>1, <2>2, <2>3 DEF Step
<1> HIDE DEF K
<1>11. M \in K
  BY <1>1, <1>9, <1>10, NatSetInduction
<1>12. c[M] = k[M]
  BY <1>1, <1>11 DEF K
<1> QED BY <1>7, <1>12

LEMMA ReturnsMultiply == ASSUME CurveInv PROVE ReturnsCompound
<1> DEFINE n == Len(curve)
           d == DailyReturns
<1>1. n \in Nat /\ Days = 1 .. n /\ n \in 0 .. n
  BY PointsTyped
<1>2. PICK M \in Nat : M = Month(n) /\ \A i \in Days : Month(i) \in 1 .. M
  BY MonthsInOrder
<1>3. PICK month \in [1 .. n -> 1 .. M] : \A i \in 1 .. n : month[i] = Month(i)
  <2>1. [i \in 1 .. n |-> Month(i)] \in [1 .. n -> 1 .. M]
    BY <1>1, <1>2
  <2> QED BY <2>1
<1>4. PICK part : \A m \in 1 .. M : part[m] = ReturnsOf(m)
  <2>1. \A m \in 1 .. M : [j \in 1 .. M |-> ReturnsOf(j)][m] = ReturnsOf(m)
    OBVIOUS
  <2> QED BY <2>1
<1>5. PICK g : \A m \in 1 .. M : g[m] = Compound(ReturnsOf(m))
  <2>1. \A m \in 1 .. M : [j \in 1 .. M |-> Compound(ReturnsOf(j))][m] = Compound(ReturnsOf(m))
    OBVIOUS
  <2> QED BY <2>1
<1>6. PICK h : h = Compound(d)
  OBVIOUS
<1>7. \A i \in Days : d[i] \in Pairs
  BY ReturnsTyped
<1>8. Chain(h, d, n) /\ h \in [0 .. n -> Pairs]
  <2> HIDE DEF d
  <2> QED BY <1>6, <1>7, CompoundIs
<1>9. TotalReturn = h[n] /\ h[n] \in Pairs
  <2>1. TotalReturn = h[n]
    BY <1>6 DEF TotalReturn
  <2> HIDE DEF n
  <2> QED BY <1>1, <1>8, <2>1
<1>10. MonthsTogether = TotalReturn
  <2> DEFINE e == [m \in 1 .. M |-> g[m][n]]
  <2>1. \A m \in 1 .. M : e[m] = Compound(ReturnsOf(m))[n]
    BY <1>5
  <2>2. \A m \in 1 .. M : e[m] \in Pairs
    BY <2>1, MonthIs
  <2>3. \A m \in 1 .. M : Chain(g[m], part[m], n)
    BY <1>4, <1>5, MonthIs
  <2>4. \A m \in 1 .. M : \A i \in 1 .. n : part[m][i] = IF month[i] = m THEN d[i] ELSE One
    BY <1>1, <1>3, <1>4, ReturnsTyped
  <2>5. \A i \in 1 .. n : d[i] \in Pairs
    BY <1>1, <1>7
  <2> HIDE DEF d
  <2>6. \E k : Chain(k, e, M)
    <3> HIDE DEF e
    <3> QED BY <2>2, ChainExists
  <2>7. PICK k : Chain(k, e, M)
    BY <2>6
  <2>8. MonthsTogether = k[M]
    <3> HIDE DEF e
    <3> QED BY <1>2, <2>1, <2>7, MonthsAre
  <2>9. k[M] = h[n]
    <3>1. ByMonth(d, month, part, g, n, M)
      BY <2>3, <2>4, <2>5 DEF ByMonth
    <3> HIDE DEF n
    <3> QED BY <1>1, <1>8, <2>7, <3>1, MonthsCompound
  <2> QED BY <1>9, <2>8, <2>9
<1>11. ExportedTwr = TotalReturn
  <2> DEFINE x == [i \in Days |-> IF i > 1 /\ Counts(i) THEN DayReturn(i) ELSE One]
  <2>1. \A i \in Days : i > 1 /\ Counts(i) <=> i \in CountedDays
    BY <1>1 DEF CountedDays, Counts
  <2>2. x = DailyReturns
    BY <2>1 DEF DailyReturns
  <2>3. ExportedTwr = Compound(x)[n]
    BY DEF ExportedTwr
  <2> HIDE DEF x
  <2> QED BY <2>2, <2>3 DEF TotalReturn
<1> HIDE DEF n, d
<1>12. PICK a \in Int, b \in Int : TotalReturn = <<a, b>>
  BY <1>9 DEF Pairs
<1> QED BY <1>10, <1>11, <1>12 DEF ReturnsCompound, Same

\* A ratio of nothing gained and nothing lost.
NoChange == {<<a, a>> : a \in Nat \ {0}}

LEMMA NoChangeRatios ==
    /\ One \in NoChange /\ NoChange \subseteq Pairs
    /\ \A x \in NoChange : Same(x, One) /\ \A y \in NoChange : Times(x, y) \in NoChange /\ ~Below(x, y)
<1>1. One \in NoChange /\ NoChange \subseteq Pairs
  BY DEF One, Ratio, NoChange, Pairs
<1>2. ASSUME NEW x \in NoChange PROVE Same(x, One)
  BY DEF NoChange, Same, One, Ratio
<1>3. ASSUME NEW x \in NoChange, NEW y \in NoChange PROVE Times(x, y) \in NoChange /\ ~Below(x, y)
  <2>1. PICK a \in Nat \ {0}, b \in Nat \ {0} : x = <<a, a>> /\ y = <<b, b>>
    BY DEF NoChange
  <2>2. PICK c \in Nat \ {0} : c = a * b
    OBVIOUS
  <2>3. Times(x, y) = <<c, c>>
    BY <2>1, <2>2 DEF Times, Ratio
  <2>4. x[1] * y[2] = c /\ y[1] * x[2] = c
    BY <2>1, <2>2
  <2> QED BY <2>3, <2>4 DEF NoChange, Below
<1> QED BY <1>1, <1>2, <1>3

LEMMA NoChangeCompounds ==
    ASSUME NEW N \in Nat, NEW factor, \A n \in 1 .. N : factor[n] \in NoChange,
           NEW h, Chain(h, factor, N)
    PROVE  \A n \in 0 .. N : h[n] \in NoChange
<1> DEFINE K == {n \in Nat : n <= N => h[n] \in NoChange}
<1>1. 0 \in K
  BY ChainSteps, NoChangeRatios
<1>2. \A n \in Nat : n \in K => n + 1 \in K
  <2> SUFFICES ASSUME NEW n \in Nat, n \in K, n + 1 <= N PROVE h[n + 1] \in NoChange
    OBVIOUS
  <2>1. h[n] \in NoChange /\ factor[n + 1] \in NoChange
    OBVIOUS
  <2>2. h[n + 1] = Times(h[n], factor[n + 1])
    BY ChainSteps
  <2> QED BY <2>1, <2>2, NoChangeRatios
<1> HIDE DEF K
<1>3. \A n \in Nat : n \in K
  BY <1>1, <1>2, NatSetInduction
<1> QED BY <1>3 DEF K

\* A day without gain leaves the equity it began with, corrected for the flow.
LEMMA QuietDay ==
    ASSUME CurveInv, CashIsTold, OnlyCash, account = "usd" \/ \A j \in Days : curve[j].usdt = 0,
           NEW i \in CountedDays
    PROVE  DayReturn(i) \in NoChange
<1>1. i \in Days /\ i \in Nat /\ i > 1 /\ i - 1 \in Days /\ i # 1
  BY PointsTyped DEF CountedDays, Counts
<1>2. curve[i].gain = 0
  BY <1>1 DEF OnlyCash
<1>3. Repriced(i) = 0
  <2>1. CASE account = "usd"
    BY <2>1 DEF Repriced
  <2>2. CASE \A j \in Days : curve[j].usdt = 0
    <3>1. curve[i] \in CurvePoint /\ curve[i - 1] \in CurvePoint
      BY <1>1, PointsTyped
    <3>2. PICK p \in Nat \ {0}, q \in Nat \ {0} : p = curve[i].price /\ q = curve[i - 1].price
      BY <3>1 DEF CurvePoint
    <3>3. curve[i - 1].usdt = 0
      BY <1>1, <2>2
    <3>4. 0 \div p = 0 /\ 0 \div q = 0
      OBVIOUS
    <3> QED BY <3>2, <3>3, <3>4 DEF Repriced
  <2> QED BY <2>1, <2>2
<1>4. PICK t \in Int, now \in Int, was \in Int :
        t = Transfer(i) /\ now = Equity(curve[i]) /\ was = Equity(curve[i - 1])
  <2>1. Equity(curve[i]) \in Int /\ Equity(curve[i - 1]) \in Int
    BY <1>1, EquityTyped
  <2>2. Transfer(i) \in Int
    BY <1>1, DayTyped
  <2> QED BY <2>1, <2>2
<1>5. now - t = was
  <2>1. Equity(curve[i]) = Equity(curve[i - 1]) + Transfer(i) + curve[i].gain + Repriced(i)
    BY <1>1, DayEarns DEF CashIsTold
  <2>2. now = was + t + 0 + 0
    BY <1>2, <1>3, <1>4, <2>1, Zenon
  <2> QED BY <2>2
<1>6. was > 0
  BY <1>4 DEF CountedDays, Counts
<1>7. DayReturn(i) = <<now - t, was>>
  BY <1>4 DEF DayReturn, Ratio
<1> QED BY <1>5, <1>6, <1>7 DEF NoChange

LEMMA CashAlone == ASSUME CurveInv, CashIsTold PROVE CashIsNoReturn
<1> SUFFICES ASSUME OnlyCash, account = "usd" \/ \A i \in Days : curve[i].usdt = 0
             PROVE  /\ \A i \in DOMAIN TwrEquity : Same(TwrEquity[i], One)
                    /\ FlaggedDays = {} /\ Same(TwrRecovery(0), One)
  BY DEF CashIsNoReturn
<1> DEFINE n == Len(curve)
           index == Compound(DailyReturns)
<1>1. n \in Nat \ {0} /\ Days = 1 .. n
  BY PointsTyped
<1>2. \A i \in CountedDays : DayReturn(i) \in NoChange
  BY QuietDay
<1>3. \A i \in 0 .. n : index[i] \in NoChange
  <2>1. PICK d : d = DailyReturns
    OBVIOUS
  <2>2. \A i \in Days : d[i] \in NoChange
    BY <1>2, <2>1, NoChangeRatios DEF DailyReturns
  <2>3. \A i \in Days : d[i] \in Pairs
    BY <2>2, NoChangeRatios
  <2>4. PICK h : h = index
    OBVIOUS
  <2>5. Chain(h, d, n)
    BY <2>1, <2>3, <2>4, CompoundIs
  <2>6. \A i \in 1 .. n : d[i] \in NoChange
    BY <1>1, <2>2
  <2> HIDE DEF n, index
  <2>7. \A i \in 0 .. n : h[i] \in NoChange
    BY <1>1, <2>5, <2>6, NoChangeCompounds
  <2> QED BY <2>4, <2>7
<1>4. DOMAIN TwrEquity = {1} \cup CountedDays /\ \A i \in DOMAIN TwrEquity : TwrEquity[i] \in NoChange
  <2>1. \A i \in {1} \cup CountedDays : i \in 0 .. n
    BY <1>1 DEF CountedDays
  <2>2. TwrEquity = [i \in {1} \cup CountedDays |-> index[i]]
    BY DEF TwrEquity
  <2> HIDE DEF index, n
  <2> QED BY <1>3, <2>1, <2>2
<1>5. FlaggedDays = {}
  <2> SUFFICES ASSUME NEW i \in CountedDays
               PROVE  ~(4 * Size(DayReturn(i)[1] - DayReturn(i)[2]) > DayReturn(i)[2])
    BY DEF FlaggedDays
  <2>1. PICK a \in Nat \ {0} : DayReturn(i) = <<a, a>>
    BY <1>2 DEF NoChange
  <2>2. DayReturn(i)[1] - DayReturn(i)[2] = 0 /\ DayReturn(i)[2] = a
    BY <2>1
  <2>3. 4 * Size(0) = 0
    BY DEF Size
  <2> QED BY <2>2, <2>3
<1>6. TwrRecovery(0) = One
  <2> DEFINE S == {TwrEquity[i] : i \in DOMAIN TwrEquity}
  <2>1. HwmTwr(0) = Highest(S)
    BY DEF HwmTwr
  <2>2. S \subseteq NoChange /\ TwrEquity[1] \in S
    BY <1>4
  <2> HIDE DEF S
  <2>3. \A x \in S : \A y \in S : ~Below(x, y)
    BY <2>2, NoChangeRatios
  <2>4. Highest(S) \in S
    BY <2>2, <2>3 DEF Highest
  <2>5. TotalReturn \in NoChange
    <3>1. n \in 0 .. n
      BY <1>1
    <3>2. index[n] \in NoChange
      BY <1>3, <3>1
    <3> QED BY <3>2 DEF TotalReturn
  <2>6. ~Below(TotalReturn, HwmTwr(0))
    BY <2>1, <2>2, <2>4, <2>5, NoChangeRatios
  <2> QED BY <2>6 DEF TwrRecovery
<1>7. Same(One, One)
  BY NoChangeRatios
<1> QED BY <1>4, <1>5, <1>6, <1>7, NoChangeRatios

LEMMA StatsIgnoreCash == ASSUME CurveInv PROVE PerformanceIgnoresCash
<1> QED BY CashAlone, ReturnsMultiply, RecoveryIs, CapitalAddsUp, UsdtPnlIs DEF PerformanceIgnoresCash

\* The returns compound by day, by month and in the exported rows, and the
\* flows add up; and where the curve tells what happened, money that is moved is
\* no performance: not in the returns, not in the recovery, not in the USDT P&L
\* (backfill_store.py:81, 221, 273).
THEOREM CashIsNoPerformance == TransferSpec => []PerformanceIgnoresCash
<1>1. TransferInv => PerformanceIgnoresCash
  BY StatsIgnoreCash DEF TransferInv
<1> QED BY <1>1, InitTransferInv, StepTransferInv, PTL DEF TransferSpec
=============================================================================
