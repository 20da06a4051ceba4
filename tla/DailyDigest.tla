----------------------------- MODULE DailyDigest -----------------------------
(***************************************************************************)
(* The daily ledger digest (cli/daily_digest_command.py and                *)
(* core/daily_ledger_digest.py): a job reads the tape of each active       *)
(* client in turn and posts a digest of it to the alerting service.  Which  *)
(* run's tape that is, each read resolves anew.  The engine keeps writing  *)
(* runs meanwhile, the storage and the service may fail, and the job may   *)
(* be executed again.                                                      *)
(***************************************************************************)
EXTENDS Integers, Sequences, FiniteSets, SequencesExt

CONSTANTS
    ClientList,       \* the managed clients, a sequence in registry order
    MaxRuns,          \* bound: runs of a client, numbered in the order of their ids
    MaxTapeRows,      \* bound: rows of a tape
    MaxExecutions     \* bound

ASSUME BoundsAssumption == MaxRuns \in Nat /\ MaxTapeRows \in Nat /\ MaxExecutions \in Nat

\* The registry is a mapping: it names a client once.
ASSUME RegistryAssumption ==
    /\ ClientList \in Seq(ToSet(ClientList))
    /\ \A i, j \in 1 .. Len(ClientList) : ClientList[i] = ClientList[j] => i = j

VARIABLES
    tapes,            \* [clients -> [runs -> rows of the tape in the bucket, or NoTape]]
    execution,        \* number of the execution
    live,             \* neither --dry-run nor an unset alerting_service_url
    queue,            \* clients the loop has still to do
    read,             \* [run, rows] in hand for the head of the queue, or Unread
    exit,             \* "none" while running or before the first execution
    alerts,           \* digests the alerting service received, in order
    atStart,          \* history: [newest, scope] when the execution began
    faulty            \* history: clients whose read failed in this execution

digestVars == <<tapes, execution, live, queue, read, exit, alerts, atStart, faulty>>

NoTape == -1

Unread == [run |-> -1, rows |-> 0]

Everyone == ToSet(ClientList)

Running == queue # <<>>

Written(c) == {r \in 1 .. MaxRuns : tapes[c][r] # NoTape}

\* resolve_canonical_run: the run with the last id among those that have a
\* tape and are not after the day digested; 0 for none.
Canonical(c) == Max(Written(c) \cup {0})

-----------------------------------------------------------------------------
\* The engine writes the tape of a run, in whatever order its runs end; a run
\* may have fewer fills than an earlier one, or none.
WriteTape(c) ==
    /\ \E r \in (1 .. MaxRuns) \ Written(c), n \in 0 .. MaxTapeRows :
          tapes' = [tapes EXCEPT ![c][r] = n]
    /\ UNCHANGED <<execution, live, queue, read, exit, alerts, atStart, faulty>>

\* cmd_daily_ledger_digest for all active clients or the one named.
Begin ==
    /\ ~Running /\ execution < MaxExecutions
    /\ \E scope \in {ClientList} \cup {<<c>> : c \in Everyone} :
          /\ queue' = scope
          /\ atStart' = [newest |-> [c \in Everyone |-> Canonical(c)], scope |-> ToSet(scope)]
    /\ live' \in BOOLEAN
    /\ execution' = execution + 1
    /\ read' = Unread /\ exit' = "none" /\ faulty' = {}
    /\ UNCHANGED <<tapes, alerts>>

\* --client names nobody who is active.
NobodyActive ==
    /\ ~Running /\ execution < MaxExecutions
    /\ execution' = execution + 1
    /\ live' \in BOOLEAN
    /\ atStart' = [newest |-> [c \in Everyone |-> Canonical(c)], scope |-> {}]
    /\ exit' = "error" /\ faulty' = {}
    /\ UNCHANGED <<tapes, queue, read, alerts>>

\* The loop goes on to the next client, and after the last one returns 0:
\* _digest_client has no way to answer False.
NextClient ==
    /\ queue' = Tail(queue)
    /\ read' = Unread
    /\ exit' = IF Len(queue) = 1 THEN "ok" ELSE "none"

\* read_ledger_rows: the run is resolved, then its tape is read.  A storage
\* error leaves no run if it hits the listing, and the rows read so far after it.
ReadTape ==
    /\ Running /\ read = Unread
    /\ LET c == Head(queue)
           r == Canonical(c)
       IN  \/ /\ read' = [run |-> r, rows |-> IF r = 0 THEN 0 ELSE tapes[c][r]]
              /\ UNCHANGED faulty
           \/ /\ \E n \in 0 .. MaxTapeRows :
                    /\ n > 0 => r # 0 /\ n <= tapes[c][r]
                    /\ read' = [run |-> r, rows |-> n]
              /\ faulty' = faulty \cup {c}
    /\ UNCHANGED <<tapes, execution, live, queue, exit, alerts, atStart>>

\* Nothing to digest, a dry run, or no service to post to.
NothingToPost ==
    /\ Running /\ read # Unread /\ (read.rows = 0 \/ ~live)
    /\ NextClient
    /\ UNCHANGED <<tapes, execution, live, alerts, atStart, faulty>>

\* build_daily_ledger_digest_event; of what it says, the tape it says it of.
Digest(c, t) == [client |-> c, tape |-> t, execution |-> execution]

Received == alerts' = Append(alerts, Digest(Head(queue), read))

\* post_daily_ledger_digest
Post ==
    /\ Running /\ read.rows > 0 /\ live
    /\ Received
    /\ NextClient
    /\ UNCHANGED <<tapes, execution, live, atStart, faulty>>

SwallowedError ==
    /\ queue' = Tail(queue)
    /\ read' = Unread
    /\ exit' = IF Len(queue) = 1 THEN "ok" ELSE "none"

\* An exception leaves the loop and ends the job with a traceback.
Raised ==
    /\ queue' = <<>>
    /\ read' = Unread
    /\ exit' = "raised"

\* The post is refused, or times out before or after the service has it.
PostFails ==
    /\ Running /\ read.rows > 0 /\ live
    /\ Received \/ UNCHANGED alerts
    /\ Raised
    /\ UNCHANGED <<tapes, execution, live, atStart, faulty>>

DigestInit ==
    /\ tapes = [c \in Everyone |-> [r \in 1 .. MaxRuns |-> NoTape]]
    /\ execution = 0 /\ live = FALSE /\ queue = <<>> /\ read = Unread /\ exit = "none"
    /\ alerts = <<>> /\ faulty = {}
    /\ atStart = [newest |-> [c \in Everyone |-> 0], scope |-> {}]

DigestNext ==
    \/ \E c \in Everyone : WriteTape(c)
    \/ Begin \/ NobodyActive \/ ReadTape \/ NothingToPost \/ Post \/ PostFails

DigestSpec == DigestInit /\ [][DigestNext]_digestVars

-----------------------------------------------------------------------------
\* The digests of a client that this execution delivered.
Delivered(c) ==
    {i \in DOMAIN alerts : alerts[i].client = c /\ alerts[i].execution = execution}

\* t is the whole tape of a run as new as the newest when the execution began.
OfWholeTape(c, t) ==
    /\ t.run >= atStart.newest[c] /\ t.run \in Written(c)
    /\ t.rows = tapes[c][t.run]

\* The execution found no run of the client, or one without fills.
NoFills(c) ==
    \/ atStart.newest[c] = 0
    \/ \E r \in Written(c) : r >= atStart.newest[c] /\ tapes[c][r] = 0

\* An execution that ends with 0 and was to post has delivered one digest of
\* every client in its scope that had a run when it began, of the whole tape of
\* that run or of a later one that has fills; only of a client whose read
\* failed, or whose run at the read is without fills, there may be none.  An
\* execution delivers nothing twice, nothing of clients outside its scope, and
\* a part of a tape only when the storage failed (cmd_daily_ledger_digest,
\* _digest_client, read_ledger_rows).  Another execution delivers all again.
ZeroExitMeansDelivered ==
    /\ \A c \in Everyone :
          /\ Delivered(c) # {} => live /\ c \in atStart.scope
          /\ \A i, j \in Delivered(c) : i = j
          /\ c \notin faulty => \A i \in Delivered(c) : OfWholeTape(c, alerts[i].tape)
    /\ exit = "ok" /\ live =>
          \A c \in atStart.scope \ faulty :
              Delivered(c) # {} \/ NoFills(c)
=============================================================================
