----------------------------- MODULE LedgerRuns -----------------------------
(***************************************************************************)
(* The run ledger of one client in the bucket, written by the paper engine *)
(* and its batch reruns while the API reads it (core/ledger_views.py,      *)
(* core/recon_view.py, api/routes/attribution.py, api/routes/trades.py).   *)
(*                                                                         *)
(* A run is a number: run ids sort by launch time, and runs may finish in  *)
(* any order.  A run's objects appear one at a time and are never changed  *)
(* or deleted.  Every endpoint resolves the newest run that has a tape and *)
(* reads the run's objects one storage call after another; some of them    *)
(* resolve the run a second time while they read the tape.                 *)
(***************************************************************************)
EXTENDS Integers, FiniteSets

CONSTANTS
    MaxRun,     \* bound: runs are 1 .. MaxRun
    DatedRuns,  \* runs whose id carries a date; the date of run r is r
    AsOfs,      \* bounds a request can ask for; MaxRun is "no bound"
    Endpoints,  \* the endpoints that are called
    Callers,    \* threads of the API
    MaxFails,   \* bound: storage calls that raise
    MaxWrites   \* bound: objects written

ASSUME RunAssumption ==
    /\ MaxRun \in Nat /\ MaxFails \in Nat /\ MaxWrites \in Nat
    /\ DatedRuns \subseteq 1 .. MaxRun
    /\ AsOfs \subseteq 0 .. MaxRun /\ AsOfs # {} /\ Endpoints # {}
    /\ Endpoints \subseteq {"positions", "net_views", "instructions", "trades", "transfers",
                      "backtest"}

VARIABLES
    objects,  \* the kinds of object each run has in the bucket
    writes,   \* objects written so far
    fails,    \* storage calls that raised so far
    req,      \* the request each caller is serving
    answered  \* history: newest run answered so far, for each bound

vars == <<objects, writes, fails, req, answered>>

Runs == 1 .. MaxRun

\* No run; also no rows and no marks.
None == 0

Kinds == {"instruction", "pricing", "transfer", "batch"}

Requests == [
    pc       : {"idle", "resolve", "rows", "marks", "batch", "recon", "done"},
    endpoint : Endpoints,
    asOf     : AsOfs,
    run      : 0 .. MaxRun,  \* run_id, reported in the reply
    rows     : 0 .. MaxRun,  \* the run the tape was read from
    marks    : 0 .. MaxRun,  \* the run the pricing or transfer rows are from
    batch    : 0 .. MaxRun,  \* the run whose batch rerun was totalled
    matched  : 0 .. MaxRun,  \* the run matched_trades is about
    calm     : BOOLEAN,      \* history: no tape appeared and no call raised
    floor    : 0 .. MaxRun ] \* history: answered when the request came in

-----------------------------------------------------------------------------
(* The engine (external).                                                  *)

\* A batch rerun repeats a run that has its tape.
WriteObject(r, kind) ==
    /\ writes < MaxWrites /\ writes' = writes + 1
    /\ kind \notin objects[r]
    /\ kind = "batch" => "instruction" \in objects[r]
    /\ objects' = [objects EXCEPT ![r] = @ \cup {kind}]
    /\ req' = IF kind = "instruction"
              THEN [c \in Callers |-> [req[c] EXCEPT !.calm = FALSE]]
              ELSE req
    /\ UNCHANGED <<fails, answered>>

-----------------------------------------------------------------------------
(* Resolving the run.                                                      *)

\* An undated run is within every bound.
Within(r, asOf) == r \in DatedRuns => r <= asOf

CandidateAnyObject(r, asOf) == objects[r] # {} /\ Within(r, asOf)

\* _candidate_paper_run_id: a run whose own tape is there; batch copies and
\* other object kinds do not make a run.
Candidate(r, asOf) == "instruction" \in objects[r] /\ Within(r, asOf)

OldestFirst(r, asOf) ==
    IF r = None THEN \A q \in Runs : ~Candidate(q, asOf)
    ELSE Candidate(r, asOf) /\ \A q \in Runs : Candidate(q, asOf) => r <= q

\* resolve_canonical_run: the newest candidate, or None.
IsCanonical(r, asOf) ==
    IF r = None THEN \A q \in Runs : ~Candidate(q, asOf)
    ELSE Candidate(r, asOf) /\ \A q \in Runs : Candidate(q, asOf) => q <= r

-----------------------------------------------------------------------------
(* One request.                                                            *)

NoRequest ==
    [ pc |-> "idle",
      endpoint |-> CHOOSE e \in Endpoints : TRUE, asOf |-> CHOOSE a \in AsOfs : TRUE,
      run |-> None, rows |-> None, marks |-> None, batch |-> None, matched |-> None,
      calm |-> FALSE, floor |-> None ]

Call(c, endpoint, asOf) ==
    /\ req[c].pc = "idle"
    /\ endpoint \in {"instructions", "trades", "transfers"} => asOf = MaxRun
    /\ req' = [req EXCEPT ![c] =
          [ NoRequest EXCEPT !.pc = "resolve", !.endpoint = endpoint, !.asOf = asOf,
                                !.calm = TRUE, !.floor = answered[asOf] ]]
    /\ UNCHANGED <<objects, writes, fails, answered>>

\* The step that follows the first resolve.
AfterResolve(endpoint, run) ==
    CASE endpoint = "transfers" -> IF run = None THEN "done" ELSE "marks"
      [] endpoint \in {"trades", "net_views", "backtest"} -> IF run = None THEN "done" ELSE "rows"
      [] OTHER -> "rows"

AfterRows(endpoint) ==
    IF endpoint \in {"positions", "net_views", "backtest"} THEN "marks" ELSE "done"

AfterMarks(endpoint) == IF endpoint = "backtest" THEN "batch" ELSE "done"

Resolve(c) ==
    /\ req[c].pc = "resolve"
    /\ \E r \in Runs \cup {None} :
        /\ IsCanonical(r, req[c].asOf)
        /\ req' = [req EXCEPT ![c].run = r, ![c].pc = AfterResolve(req[c].endpoint, r)]
    /\ UNCHANGED <<objects, writes, fails, answered>>

\* read_ledger_rows resolves again; /trades (read_canonical_run_fills) keeps
\* the run it resolved.
ReadRows(c) ==
    /\ req[c].pc = "rows"
    /\ \E r \in Runs \cup {None} :
        /\ IF req[c].endpoint = "trades" THEN r = req[c].run
           ELSE IsCanonical(r, req[c].asOf)
        /\ req' = [req EXCEPT ![c].rows = r, ![c].pc = AfterRows(req[c].endpoint)]
    /\ UNCHANGED <<objects, writes, fails, answered>>

FoundOffByOne(r, kind) == IF r # None /\ kind \in objects[r] THEN r + 1 ELSE None

FoundInAnyRun(r, kind) ==
    IF \E q \in Runs : kind \in objects[q]
    THEN CHOOSE q \in Runs : kind \in objects[q] ELSE None

Found(r, kind) == IF r # None /\ kind \in objects[r] THEN r ELSE None

\* read_marks, or read_transfer_rows for /transfers, of the run first resolved.
ReadMarks(c) ==
    /\ req[c].pc = "marks"
    /\ LET kind == IF req[c].endpoint = "transfers" THEN "transfer" ELSE "pricing"
       IN  req' = [req EXCEPT ![c].marks = Found(req[c].run, kind),
                              ![c].pc = AfterMarks(req[c].endpoint)]
    /\ UNCHANGED <<objects, writes, fails, answered>>

\* read_batch_total_pnl, of the run first resolved.
ReadBatch(c) ==
    /\ req[c].pc = "batch"
    /\ req' = [req EXCEPT ![c].batch = Found(req[c].run, "batch"), ![c].pc = "recon"]
    /\ UNCHANGED <<objects, writes, fails, answered>>

\* latest_recon_verdict: the newest run of all, if its batch rerun is there.
Verdict(r) == Found(r, "batch")

\* /backtest takes matched_trades only from the verdict on its own run.
Matched(verdict, run) == IF verdict = run THEN verdict ELSE None

ReadRecon(c) ==
    /\ req[c].pc = "recon"
    /\ \E r \in Runs \cup {None} :
        /\ IsCanonical(r, MaxRun)
        /\ req' = [req EXCEPT ![c].matched = Matched(Verdict(r), req[c].run), ![c].pc = "done"]
    /\ UNCHANGED <<objects, writes, fails, answered>>

\* A storage call raises: the reader returns what an empty bucket would give
\* and the handler goes on.
CallRaises(c) ==
    /\ req[c].pc \in {"resolve", "rows", "marks", "batch", "recon"}
    /\ fails < MaxFails /\ fails' = fails + 1
    /\ req' = [req EXCEPT
          ![c].calm = FALSE,
          ![c].pc = CASE req[c].pc = "resolve" -> AfterResolve(req[c].endpoint, None)
                      [] req[c].pc = "rows"    -> AfterRows(req[c].endpoint)
                      [] req[c].pc = "marks"   -> AfterMarks(req[c].endpoint)
                      [] req[c].pc = "batch"   -> "recon"
                      [] OTHER                 -> "done"]
    /\ UNCHANGED <<objects, writes, answered>>

\* The fills of a verdict are loaded outside the try block: the request fails.
VerdictRaises(c) ==
    /\ req[c].pc = "recon"
    /\ \E r \in Runs : IsCanonical(r, MaxRun) /\ Verdict(r) = r
    /\ fails < MaxFails /\ fails' = fails + 1
    /\ req' = [req EXCEPT ![c] = NoRequest]
    /\ UNCHANGED <<objects, writes, answered>>

Reply(c) ==
    /\ req[c].pc = "done"
    /\ answered' = [answered EXCEPT ![req[c].asOf] = IF req[c].run > @ THEN req[c].run ELSE @]
    /\ req' = [req EXCEPT ![c] = NoRequest]
    /\ UNCHANGED <<objects, writes, fails>>

-----------------------------------------------------------------------------
Init ==
    /\ objects = [r \in Runs |-> {}]
    /\ writes = 0 /\ fails = 0
    /\ req = [c \in Callers |-> NoRequest]
    /\ answered = [a \in AsOfs |-> None]

Next ==
    \/ \E r \in Runs, kind \in Kinds : WriteObject(r, kind)
    \/ \E c \in Callers :
        \/ \E e \in Endpoints, a \in AsOfs : Call(c, e, a)
        \/ Resolve(c)
        \/ ReadRows(c)
        \/ ReadMarks(c)
        \/ ReadBatch(c)
        \/ ReadRecon(c)
        \/ CallRaises(c)
        \/ VerdictRaises(c)
        \/ Reply(c)

Spec == Init /\ [][Next]_vars

-----------------------------------------------------------------------------
(* Properties.                                                             *)

TypeOK ==
    /\ objects \in [Runs -> SUBSET Kinds]
    /\ writes \in 0 .. MaxWrites /\ fails \in 0 .. MaxFails
    /\ req \in [Callers -> Requests]
    /\ answered \in [AsOfs -> 0 .. MaxRun]

\* The run a reply names, and the run its rows are from, have a tape of their
\* own: a run of which only marks, transfers or a batch copy have been written
\* is not shown (_candidate_paper_run_id).
OnlyRunsWithTape ==
    \A c \in Callers : \A r \in {req[c].run, req[c].rows} :
        r # None => "instruction" \in objects[r]

\* Once a request has been answered with a run, no request that comes in later
\* with the same bound names an older run, although runs finish out of order:
\* the newest run is resolved from a bucket that only grows.
NeverGoesBack ==
    \A c \in Callers : req[c].run # None => req[c].run >= req[c].floor

\* Rows may be of a newer run than the reply names, and the marks joined to
\* them, but never of an older one: the tape is resolved after the run.
RowsNeverBehind ==
    \A c \in Callers :
        req[c].rows # None /\ req[c].run # None => req[c].rows >= req[c].run

\* When no tape appears and no storage call raises while a request is served,
\* everything in its reply is of the run it names, the matched trades too,
\* which are resolved without the request's bound; a batch total comes with the
\* matched trades of the same rerun if no bound was asked for.
CalmReplyIsCoherent ==
    \A c \in Callers : req[c].pc = "done" /\ req[c].calm =>
        /\ req[c].endpoint # "transfers" => req[c].rows = req[c].run
        /\ {req[c].marks, req[c].batch, req[c].matched} \subseteq {None, req[c].run}
        /\ req[c].batch # None /\ req[c].asOf = MaxRun => req[c].matched = req[c].run

\* "every endpoint (...) keys off the SAME run, so they cannot diverge"
\* (core/ledger_views.py:207-209): the rows of a reply are of the run it names.
\* Broken by a tape that appears between the two resolutions.
OneRunPerReply ==
    \A c \in Callers :
        req[c].pc = "done" /\ req[c].rows # None /\ req[c].run # None =>
            req[c].rows = req[c].run
=============================================================================
