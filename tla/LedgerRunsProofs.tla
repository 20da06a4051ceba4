-------------------------- MODULE LedgerRunsProofs --------------------------
(***************************************************************************)
(* Theorems about LedgerRuns, for any number of runs, callers, writes and  *)
(* failing calls.                                                          *)
(*                                                                         *)
(* The order properties are not inductive by themselves: they hold because *)
(* whatever was once resolved stays a candidate of the same bound, in a    *)
(* bucket that only grows (SeenInv).                                       *)
(***************************************************************************)
EXTENDS LedgerRuns, TLAPS

\* A run that was resolved or answered is still a candidate.
Seen(r, asOf) == r # None => r \in Runs /\ Candidate(r, asOf)

SeenInv ==
    /\ \A c \in Callers : /\ Seen(req[c].run, req[c].asOf)
                          /\ Seen(req[c].rows, req[c].asOf)
                          /\ Seen(req[c].floor, req[c].asOf)
    /\ \A a \in AsOfs : Seen(answered[a], a)

\* A request that is not served any more, or not yet resolved, names no run.
FreshInv ==
    \A c \in Callers : req[c].pc \in {"idle", "resolve"} =>
        req[c].run = None /\ req[c].rows = None

IInv == TypeOK /\ SeenInv /\ FreshInv /\ NeverGoesBack /\ RowsNeverBehind

-----------------------------------------------------------------------------
LEMMA NoRequestTyped ==
    /\ NoRequest \in Requests
    /\ NoRequest.pc = "idle" /\ NoRequest.run = None /\ NoRequest.rows = None
    /\ NoRequest.floor = None
<1>1. (CHOOSE e \in Endpoints : TRUE) \in Endpoints
  BY RunAssumption
<1>2. (CHOOSE a \in AsOfs : TRUE) \in AsOfs
  BY RunAssumption
<1>3. 0 \in 0 .. MaxRun
  BY RunAssumption
<1>4. QED
  BY <1>1, <1>2, <1>3 DEF NoRequest, Requests, None

LEMMA InitIInv == Init => IInv
<1> SUFFICES ASSUME Init PROVE IInv
  OBVIOUS
<1>1. TypeOK
  BY NoRequestTyped, RunAssumption DEF Init, TypeOK, None
<1>2. \A c \in Callers : req[c] = NoRequest
  BY DEF Init
<1>3. SeenInv /\ FreshInv /\ NeverGoesBack /\ RowsNeverBehind
  BY <1>2, NoRequestTyped DEF Init, SeenInv, Seen, FreshInv, NeverGoesBack, RowsNeverBehind
<1>4. QED
  BY <1>1, <1>3 DEF IInv

\* A step that only touches one request, and leaves it in order, keeps IInv.
LEMMA OneRequestChanges ==
    ASSUME IInv, NEW c \in Callers, NEW q \in Requests,
           req' = [req EXCEPT ![c] = q], UNCHANGED <<objects, writes>>,
           fails' \in 0 .. MaxFails,
           answered' \in [AsOfs -> 0 .. MaxRun],
           \A a \in AsOfs : Seen(answered'[a], a),
           Seen(q.run, q.asOf), Seen(q.rows, q.asOf), Seen(q.floor, q.asOf),
           q.pc \in {"idle", "resolve"} => q.run = None /\ q.rows = None,
           q.run # None => q.run >= q.floor,
           q.rows # None /\ q.run # None => q.rows >= q.run
    PROVE  IInv'
<1>1. TypeOK'
  BY DEF IInv, TypeOK
<1>2. \A d \in Callers : req'[d] = IF d = c THEN q ELSE req[d]
  BY DEF IInv, TypeOK
<1>3. SeenInv'
  BY <1>2 DEF IInv, SeenInv, Seen, Candidate, Within
<1>4. FreshInv' /\ NeverGoesBack' /\ RowsNeverBehind'
  BY <1>2 DEF IInv, FreshInv, NeverGoesBack, RowsNeverBehind
<1>5. QED
  BY <1>1, <1>3, <1>4 DEF IInv

\* Writing an object takes no run away from the candidates.
LEMMA WriteKeepsIInv ==
    ASSUME IInv, NEW r \in Runs, NEW kind \in Kinds, WriteObject(r, kind)
    PROVE  IInv'
<1>1. /\ objects' = [objects EXCEPT ![r] = @ \cup {kind}]
      /\ UNCHANGED <<fails, answered>> /\ writes' \in 0 .. MaxWrites
  BY RunAssumption DEF WriteObject, IInv, TypeOK
<1>2. \A c \in Callers : req'[c] \in {req[c], [req[c] EXCEPT !.calm = FALSE]}
  BY DEF WriteObject
<1>3. req' \in [Callers -> Requests]
  <2>1. \A c \in Callers : [req[c] EXCEPT !.calm = FALSE] \in Requests
    BY DEF IInv, TypeOK, Requests
  <2>2. QED
    BY <2>1 DEF WriteObject, IInv, TypeOK
<1>4. \A c \in Callers :
         /\ req'[c].pc = req[c].pc /\ req'[c].asOf = req[c].asOf
         /\ req'[c].run = req[c].run /\ req'[c].rows = req[c].rows
         /\ req'[c].floor = req[c].floor
  <2>1. \A c \in Callers : req[c] \in Requests
    BY DEF IInv, TypeOK
  <2>2. QED
    BY <1>2, <2>1 DEF Requests
<1>5. TypeOK'
  <2>1. objects' \in [Runs -> SUBSET Kinds]
    BY <1>1 DEF IInv, TypeOK
  <2>2. QED
    BY <1>1, <1>3, <2>1 DEF IInv, TypeOK
<1>6. \A q, a : Seen(q, a) => Seen(q, a)'
  BY <1>1 DEF IInv, TypeOK, Seen, Candidate, Within
<1>7. SeenInv'
  BY <1>1, <1>4, <1>6 DEF IInv, SeenInv, Seen, Candidate, Within
<1>8. FreshInv' /\ NeverGoesBack' /\ RowsNeverBehind'
  BY <1>4 DEF IInv, FreshInv, NeverGoesBack, RowsNeverBehind
<1>9. QED
  BY <1>5, <1>7, <1>8 DEF IInv

\* What is canonical is a candidate at least as new as every candidate.
LEMMA CanonicalIsNewest ==
    ASSUME NEW r \in Runs \cup {None}, NEW a, IsCanonical(r, a)
    PROVE  /\ Seen(r, a) /\ r \in 0 .. MaxRun
           /\ \A q : Seen(q, a) /\ q # None /\ r # None => r >= q
           /\ \A q : Seen(q, a) /\ r = None => q = None
<1>1. r \in 0 .. MaxRun
  BY RunAssumption DEF Runs, None
<1>2. QED
  BY <1>1, RunAssumption DEF IsCanonical, Seen, Runs, None

\* Every step keeps the inductive invariant.
LEMMA StepIInv == IInv /\ [Next]_vars => IInv'
<1> SUFFICES ASSUME IInv, [Next]_vars PROVE IInv'
  OBVIOUS
<1>0. /\ \A c \in Callers : req[c] \in Requests
      /\ \A c \in Callers : Seen(req[c].run, req[c].asOf)
      /\ \A c \in Callers : Seen(req[c].rows, req[c].asOf)
      /\ \A c \in Callers : Seen(req[c].floor, req[c].asOf)
      /\ \A a \in AsOfs : Seen(answered[a], a)
      /\ \A c \in Callers : req[c].run # None => req[c].run >= req[c].floor
      /\ \A c \in Callers :
            req[c].rows # None /\ req[c].run # None => req[c].rows >= req[c].run
      /\ fails \in 0 .. MaxFails /\ answered \in [AsOfs -> 0 .. MaxRun]
  BY DEF IInv, TypeOK, SeenInv, NeverGoesBack, RowsNeverBehind
<1>1. ASSUME NEW r \in Runs, NEW kind \in Kinds, WriteObject(r, kind) PROVE IInv'
  BY <1>1, WriteKeepsIInv
<1>2. ASSUME NEW c \in Callers, NEW e \in Endpoints, NEW a \in AsOfs, Call(c, e, a)
      PROVE  IInv'
  <2> DEFINE q == [ NoRequest EXCEPT !.pc = "resolve", !.endpoint = e, !.asOf = a,
                                     !.calm = TRUE, !.floor = answered[a] ]
  <2>1. req' = [req EXCEPT ![c] = q] /\ UNCHANGED <<objects, writes, fails, answered>>
    BY <1>2 DEF Call
  <2>2. q \in Requests /\ q.asOf = a /\ q.floor = answered[a] /\ q.run = None
        /\ q.rows = None
    BY NoRequestTyped, <1>0 DEF Requests
  <2>3. Seen(q.run, q.asOf) /\ Seen(q.rows, q.asOf) /\ Seen(q.floor, q.asOf)
    BY <1>0, <2>2 DEF Seen
  <2> HIDE DEF q
  <2>4. QED
    BY <1>0, <2>1, <2>2, <2>3, OneRequestChanges
<1>3. ASSUME NEW c \in Callers, Resolve(c) PROVE IInv'
  <2>1. PICK r \in Runs \cup {None} :
          /\ IsCanonical(r, req[c].asOf)
          /\ req' = [req EXCEPT ![c].run = r, ![c].pc = AfterResolve(req[c].endpoint, r)]
    BY <1>3 DEF Resolve
  <2> DEFINE q == [req[c] EXCEPT !.run = r, !.pc = AfterResolve(req[c].endpoint, r)]
  <2>2. req' = [req EXCEPT ![c] = q] /\ UNCHANGED <<objects, writes, fails, answered>>
    BY <1>3, <2>1 DEF Resolve, IInv, TypeOK
  <2>3. r \in 0 .. MaxRun /\ Seen(r, req[c].asOf)
        /\ (r # None /\ req[c].floor # None => r >= req[c].floor)
    BY <1>0, <2>1, CanonicalIsNewest
  <2>4. AfterResolve(req[c].endpoint, r) \in {"rows", "marks", "done"}
    BY DEF AfterResolve
  <2>5. /\ q \in Requests /\ q.run = r /\ q.asOf = req[c].asOf /\ q.floor = req[c].floor
        /\ q.rows = req[c].rows /\ q.pc \notin {"idle", "resolve"}
    BY <1>0, <2>3, <2>4 DEF Requests
  <2>6. req[c].rows = None
    BY <1>3 DEF IInv, FreshInv, Resolve
  <2>7. r # None => r >= req[c].floor
    <3>1. req[c].floor \in 0 .. MaxRun
      BY <1>0 DEF Requests
    <3>2. QED
      BY <2>3, <3>1, RunAssumption DEF None
  <2> HIDE DEF q
  <2>8. QED
    BY <1>0, <2>2, <2>3, <2>5, <2>6, <2>7, OneRequestChanges
<1>4. ASSUME NEW c \in Callers, ReadRows(c) PROVE IInv'
  <2>1. PICK r \in Runs \cup {None} :
          /\ IF req[c].endpoint = "trades" THEN r = req[c].run
             ELSE IsCanonical(r, req[c].asOf)
          /\ req' = [req EXCEPT ![c].rows = r, ![c].pc = AfterRows(req[c].endpoint)]
    BY <1>4 DEF ReadRows
  <2> DEFINE q == [req[c] EXCEPT !.rows = r, !.pc = AfterRows(req[c].endpoint)]
  <2>2. req' = [req EXCEPT ![c] = q] /\ UNCHANGED <<objects, writes, fails, answered>>
    BY <1>4, <2>1 DEF ReadRows, IInv, TypeOK
  <2>3. req[c].run \in 0 .. MaxRun
    BY <1>0 DEF Requests
  <2>4. r \in 0 .. MaxRun /\ Seen(r, req[c].asOf)
        /\ (r # None /\ req[c].run # None => r >= req[c].run)
    <3>1. CASE req[c].endpoint = "trades"
      BY <1>0, <2>1, <2>3, <3>1, RunAssumption
    <3>2. CASE req[c].endpoint # "trades"
      BY <1>0, <2>1, <3>2, CanonicalIsNewest
    <3>3. QED
      BY <3>1, <3>2
  <2>5. AfterRows(req[c].endpoint) \in {"marks", "done"}
    BY DEF AfterRows
  <2>6. /\ q \in Requests /\ q.rows = r /\ q.asOf = req[c].asOf /\ q.floor = req[c].floor
        /\ q.run = req[c].run /\ q.pc \notin {"idle", "resolve"}
    BY <1>0, <2>4, <2>5 DEF Requests
  <2> HIDE DEF q
  <2>7. QED
    BY <1>0, <2>2, <2>4, <2>6, OneRequestChanges
<1>5. ASSUME NEW c \in Callers, NEW q \in Requests, req' = [req EXCEPT ![c] = q],
             UNCHANGED <<objects, writes, answered>>, fails' \in 0 .. MaxFails,
             q.asOf = req[c].asOf, q.run = req[c].run, q.rows = req[c].rows,
             q.floor = req[c].floor, q.pc \notin {"idle", "resolve"}
      PROVE  IInv'
  BY <1>0, <1>5, OneRequestChanges
<1>6. ASSUME NEW c \in Callers, ReadMarks(c) PROVE IInv'
  <2> DEFINE kind == IF req[c].endpoint = "transfers" THEN "transfer" ELSE "pricing"
             q == [req[c] EXCEPT !.marks = Found(req[c].run, kind),
                                 !.pc = AfterMarks(req[c].endpoint)]
  <2>1. req' = [req EXCEPT ![c] = q] /\ UNCHANGED <<objects, writes, fails, answered>>
    BY <1>6 DEF ReadMarks, IInv, TypeOK
  <2>2. Found(req[c].run, kind) \in 0 .. MaxRun
    BY <1>0, RunAssumption DEF Found, None, Requests
  <2>3. AfterMarks(req[c].endpoint) \in {"batch", "done"}
    BY DEF AfterMarks
  <2>4. /\ q \in Requests /\ q.asOf = req[c].asOf /\ q.run = req[c].run
        /\ q.rows = req[c].rows /\ q.floor = req[c].floor /\ q.pc \notin {"idle", "resolve"}
    BY <1>0, <2>2, <2>3 DEF Requests
  <2> HIDE DEF q
  <2>5. QED
    BY <1>0, <1>5, <2>1, <2>4
<1>7. ASSUME NEW c \in Callers, ReadRecon(c) PROVE IInv'
  <2>1. PICK r \in Runs \cup {None} :
          req' = [req EXCEPT ![c].matched = Matched(Verdict(r), req[c].run), ![c].pc = "done"]
    BY <1>7 DEF ReadRecon
  <2> DEFINE m == Matched(Verdict(r), req[c].run)
             q == [req[c] EXCEPT !.matched = m, !.pc = "done"]
  <2>2. req' = [req EXCEPT ![c] = q] /\ UNCHANGED <<objects, writes, fails, answered>>
    BY <1>7, <2>1 DEF ReadRecon, IInv, TypeOK
  <2>3. m \in 0 .. MaxRun
    BY RunAssumption DEF Matched, Verdict, Found, None, Runs
  <2> HIDE DEF m
  <2>4. /\ q \in Requests /\ q.asOf = req[c].asOf /\ q.run = req[c].run
        /\ q.rows = req[c].rows /\ q.floor = req[c].floor /\ q.pc \notin {"idle", "resolve"}
    BY <1>0, <2>3 DEF Requests
  <2> HIDE DEF q
  <2>5. QED
    BY <1>0, <1>5, <2>2, <2>4
<1>8. ASSUME NEW c \in Callers, CallRaises(c) PROVE IInv'
  <2> DEFINE next == CASE req[c].pc = "resolve" -> AfterResolve(req[c].endpoint, None)
                       [] req[c].pc = "rows"    -> AfterRows(req[c].endpoint)
                       [] req[c].pc = "marks"   -> AfterMarks(req[c].endpoint)
                       [] req[c].pc = "batch"   -> "recon"
                       [] OTHER                 -> "done"
             q == [req[c] EXCEPT !.calm = FALSE, !.pc = next]
  <2>1. req' = [req EXCEPT ![c].calm = FALSE, ![c].pc = next]
    BY <1>8 DEF CallRaises
  <2>2. UNCHANGED <<objects, writes, answered>> /\ fails' \in 0 .. MaxFails
    <3>1. UNCHANGED <<objects, writes, answered>> /\ fails < MaxFails /\ fails' = fails + 1
      BY <1>8 DEF CallRaises
    <3>2. QED
      BY <1>0, <3>1, RunAssumption
  <2>3. next \in {"rows", "marks", "batch", "recon", "done"}
    BY DEF AfterResolve, AfterRows, AfterMarks
  <2> HIDE DEF next
  <2>4. req' = [req EXCEPT ![c] = q]
    BY <1>0, <2>1
  <2>5. /\ q \in Requests /\ q.asOf = req[c].asOf /\ q.run = req[c].run
        /\ q.rows = req[c].rows /\ q.floor = req[c].floor /\ q.pc \notin {"idle", "resolve"}
    BY <1>0, <2>3 DEF Requests
  <2> HIDE DEF q
  <2>6. QED
    BY <1>5, <2>2, <2>4, <2>5
<1>9. ASSUME NEW c \in Callers, ReadBatch(c) PROVE IInv'
  <2> DEFINE b == Found(req[c].run, "batch")
             q == [req[c] EXCEPT !.batch = b, !.pc = "recon"]
  <2>1. req' = [req EXCEPT ![c] = q] /\ UNCHANGED <<objects, writes, fails, answered>>
    BY <1>9 DEF ReadBatch, IInv, TypeOK
  <2>2. b \in 0 .. MaxRun
    BY <1>0, RunAssumption DEF Found, None, Requests
  <2> HIDE DEF b
  <2>3. /\ q \in Requests /\ q.asOf = req[c].asOf /\ q.run = req[c].run
        /\ q.rows = req[c].rows /\ q.floor = req[c].floor /\ q.pc \notin {"idle", "resolve"}
    BY <1>0, <2>2 DEF Requests
  <2> HIDE DEF q
  <2>4. QED
    BY <1>0, <1>5, <2>1, <2>3
<1>10. ASSUME NEW c \in Callers, VerdictRaises(c) PROVE IInv'
  <2>1. /\ req' = [req EXCEPT ![c] = NoRequest] /\ UNCHANGED <<objects, writes, answered>>
        /\ fails < MaxFails /\ fails' = fails + 1
    BY <1>10 DEF VerdictRaises
  <2>2. fails' \in 0 .. MaxFails
    BY <1>0, <2>1, RunAssumption
  <2>3. QED
    BY <1>0, <2>1, <2>2, NoRequestTyped, OneRequestChanges DEF Seen
<1>11. ASSUME NEW c \in Callers, Reply(c) PROVE IInv'
  <2> DEFINE a == req[c].asOf
             best == IF req[c].run > answered[a] THEN req[c].run ELSE answered[a]
  <2>1. /\ req' = [req EXCEPT ![c] = NoRequest] /\ UNCHANGED <<objects, writes, fails>>
        /\ answered' = [answered EXCEPT ![a] = best]
    BY <1>11 DEF Reply
  <2>2. a \in AsOfs /\ req[c].run \in 0 .. MaxRun /\ answered[a] \in 0 .. MaxRun
    BY <1>0 DEF Requests
  <2>3. best \in 0 .. MaxRun /\ Seen(best, a)
    BY <1>0, <2>2
  <2> HIDE DEF best, a
  <2>4. answered' \in [AsOfs -> 0 .. MaxRun] /\ \A b \in AsOfs : Seen(answered'[b], b)
    BY <1>0, <2>1, <2>2, <2>3
  <2>5. QED
    BY <1>0, <2>1, <2>4, NoRequestTyped, OneRequestChanges DEF Seen
<1>12. CASE UNCHANGED vars
  <2>1. TypeOK'
    BY <1>12 DEF vars, IInv, TypeOK
  <2>2. SeenInv'
    BY <1>12 DEF vars, IInv, SeenInv, Seen, Candidate, Within
  <2>3. FreshInv' /\ NeverGoesBack' /\ RowsNeverBehind'
    BY <1>12 DEF vars, IInv, FreshInv, NeverGoesBack, RowsNeverBehind
  <2>4. QED
    BY <2>1, <2>2, <2>3 DEF IInv
<1>13. QED
  BY <1>1, <1>2, <1>3, <1>4, <1>6, <1>7, <1>8, <1>9, <1>10, <1>11, <1>12 DEF Next

\* The inductive invariant holds in every reachable state.
THEOREM Inductive == Spec => []IInv
<1>1. Init => IInv
  BY InitIInv
<1>2. IInv /\ [Next]_vars => IInv'
  BY StepIInv
<1>3. QED
  BY <1>1, <1>2, PTL DEF Spec

\* Every variable has its type in every reachable state (TypeOK).
THEOREM TypeCorrect == Spec => []TypeOK
<1>1. IInv => TypeOK
  BY DEF IInv
<1>2. QED
  BY <1>1, Inductive, PTL

\* Later requests never name an older run (NeverGoesBack), for any number of
\* runs finishing in any order (resolve_canonical_run).
THEOREM RunsAdvance == Spec => []NeverGoesBack
<1>1. IInv => NeverGoesBack
  BY DEF IInv
<1>2. QED
  BY <1>1, Inductive, PTL

\* The rows of a reply are never of an older run than the reply names
\* (RowsNeverBehind), so marks are never newer than the rows they are joined to.
THEOREM RowsAreNewer == Spec => []RowsNeverBehind
<1>1. IInv => RowsNeverBehind
  BY DEF IInv
<1>2. QED
  BY <1>1, Inductive, PTL

\* Only runs with a tape of their own are shown (OnlyRunsWithTape).
THEOREM ShownRunsHaveTape == Spec => []OnlyRunsWithTape
<1>1. IInv => OnlyRunsWithTape
  BY DEF IInv, SeenInv, Seen, Candidate, OnlyRunsWithTape
<1>2. QED
  BY <1>1, Inductive, PTL

-----------------------------------------------------------------------------
(* One reply: what its parts have to do with each other.                   *)

\* matched_trades is read last, and only from the verdict on the own run.
OwnMatch(q) ==
    /\ q.pc # "done" => q.matched = None
    /\ q.matched # None => q.matched = q.run

\* What holds of a request as long as no tape appears and no call raises: its
\* run is still the canonical one, so whatever is resolved again is that run.
Coherent(q) ==
    /\ q.pc \notin {"idle", "resolve"} => IsCanonical(q.run, q.asOf)
    /\ q.pc \in {"marks", "batch", "recon", "done"} /\ q.endpoint # "transfers" =>
          q.rows = q.run
    /\ q.pc = "resolve" => q.marks = None
    /\ q.pc \notin {"recon", "done"} => q.batch = None
    /\ q.marks \in {None, q.run} /\ q.batch \in {None, q.run}
    /\ q.batch # None => "batch" \in objects[q.run]
    /\ q.pc = "done" /\ q.batch # None /\ q.asOf = MaxRun => q.matched = q.run

ReplyInv ==
    \A c \in Callers : OwnMatch(req[c]) /\ (req[c].calm = TRUE => Coherent(req[c]))

\* Two resolutions of one bucket with one bound agree.
LEMMA CanonicalIsUnique ==
    ASSUME NEW r \in Runs \cup {None}, NEW q \in Runs \cup {None}, NEW a,
           IsCanonical(r, a), IsCanonical(q, a)
    PROVE  r = q
<1>1. Runs \subseteq Nat /\ None \notin Runs
  BY RunAssumption DEF Runs, None
<1>2. QED
  BY <1>1 DEF IsCanonical

LEMMA InitReplyInv == Init => ReplyInv
<1>1. NoRequest.pc = "idle" /\ NoRequest.matched = None /\ NoRequest.calm = FALSE
  BY DEF NoRequest
<1>2. QED
  BY <1>1 DEF Init, ReplyInv, OwnMatch

LEMMA OneReplyChanges ==
    ASSUME IInv, ReplyInv, NEW c \in Callers, NEW q \in Requests,
           req' = [req EXCEPT ![c] = q], UNCHANGED objects,
           OwnMatch(q), q.calm = TRUE => Coherent(q)
    PROVE  ReplyInv'
<1>1. \A d \in Callers : req'[d] = IF d = c THEN q ELSE req[d]
  BY DEF IInv, TypeOK
<1>2. \A d \in Callers : OwnMatch(req'[d])
  BY <1>1 DEF ReplyInv
<1>3. \A d \in Callers : req'[d].calm = TRUE => Coherent(req'[d])
  BY <1>1 DEF ReplyInv
<1>4. QED
  BY <1>2, <1>3 DEF ReplyInv, OwnMatch, Coherent, IsCanonical, Candidate, Within

\* A tape ends the calm of every request; any other object changes no
\* candidate and takes nothing away.
LEMMA WriteKeepsReplies ==
    ASSUME IInv, ReplyInv, NEW r \in Runs, NEW kind \in Kinds, WriteObject(r, kind)
    PROVE  ReplyInv'
<1>1. objects' = [objects EXCEPT ![r] = @ \cup {kind}] /\ objects \in [Runs -> SUBSET Kinds]
  BY DEF WriteObject, IInv, TypeOK
<1>2. \A c \in Callers : req[c] \in Requests
  BY DEF IInv, TypeOK
<1>3. CASE kind = "instruction"
  <2>1. \A c \in Callers : req'[c] = [req[c] EXCEPT !.calm = FALSE]
    BY <1>3 DEF WriteObject
  <2>2. \A c \in Callers : /\ req'[c].pc = req[c].pc /\ req'[c].matched = req[c].matched
                            /\ req'[c].run = req[c].run /\ req'[c].calm = FALSE
    BY <1>2, <2>1 DEF Requests
  <2>3. \A c \in Callers : OwnMatch(req'[c])
    BY <2>2 DEF ReplyInv, OwnMatch
  <2>4. QED
    BY <2>2, <2>3 DEF ReplyInv, OwnMatch
<1>4. CASE kind # "instruction"
  <2>1. req' = req
    BY <1>4 DEF WriteObject
  <2>2. \A q \in Runs : objects[q] \subseteq objects'[q]
    BY <1>1
  <2>3. \A q \in Runs : "instruction" \in objects'[q] <=> "instruction" \in objects[q]
    BY <1>1, <1>4
  <2>4. ASSUME NEW c \in Callers, Coherent(req[c]) PROVE Coherent(req[c])'
    <3>1. req[c].run \in Runs \cup {None} /\ req[c].batch \in Runs \cup {None}
      BY <1>2, RunAssumption DEF Requests, Runs, None
    <3>2. IsCanonical(req[c].run, req[c].asOf) => IsCanonical(req[c].run, req[c].asOf)'
      BY <2>1, <2>3, <3>1 DEF IsCanonical, Candidate, Within
    <3>3. req[c].batch # None => "batch" \in objects'[req[c].run]
      BY <2>2, <2>4, <3>1 DEF Coherent
    <3>4. QED
      BY <2>1, <2>4, <3>2, <3>3 DEF Coherent
  <2>5. QED
    BY <2>1, <2>4 DEF ReplyInv, OwnMatch
<1>5. QED
  BY <1>3, <1>4

\* Every step keeps what is known of the replies.
LEMMA StepReplyInv == IInv /\ ReplyInv /\ [Next]_vars => ReplyInv'
<1> SUFFICES ASSUME IInv, ReplyInv, [Next]_vars PROVE ReplyInv'
  OBVIOUS
<1>0. /\ \A c \in Callers : req[c] \in Requests
      /\ \A c \in Callers : OwnMatch(req[c])
      /\ \A c \in Callers : req[c].calm = TRUE => Coherent(req[c])
      /\ \A c \in Callers : req[c].pc \in {"idle", "resolve"} =>
            req[c].run = None /\ req[c].rows = None
  BY DEF IInv, TypeOK, ReplyInv, FreshInv
<1>1. ASSUME NEW r \in Runs, NEW kind \in Kinds, WriteObject(r, kind) PROVE ReplyInv'
  BY <1>1, WriteKeepsReplies
<1>2. ASSUME NEW c \in Callers, NEW e \in Endpoints, NEW a \in AsOfs, Call(c, e, a)
      PROVE  ReplyInv'
  <2> DEFINE q == [ NoRequest EXCEPT !.pc = "resolve", !.endpoint = e, !.asOf = a,
                                     !.calm = TRUE, !.floor = answered[a] ]
  <2>1. req' = [req EXCEPT ![c] = q] /\ UNCHANGED objects
    BY <1>2 DEF Call
  <2>2. /\ q \in Requests /\ q.pc = "resolve" /\ q.run = None /\ q.marks = None
        /\ q.batch = None /\ q.matched = None
    BY NoRequestTyped DEF Requests, NoRequest, IInv, TypeOK
  <2> HIDE DEF q
  <2>3. OwnMatch(q) /\ Coherent(q)
    BY <2>2 DEF OwnMatch, Coherent
  <2>4. QED
    BY <2>1, <2>2, <2>3, OneReplyChanges
<1>3. ASSUME NEW c \in Callers, Resolve(c) PROVE ReplyInv'
  <2>1. PICK r \in Runs \cup {None} :
          /\ IsCanonical(r, req[c].asOf)
          /\ req' = [req EXCEPT ![c].run = r, ![c].pc = AfterResolve(req[c].endpoint, r)]
    BY <1>3 DEF Resolve
  <2> DEFINE q == [req[c] EXCEPT !.run = r, !.pc = AfterResolve(req[c].endpoint, r)]
  <2>2. req' = [req EXCEPT ![c] = q] /\ UNCHANGED objects
    BY <1>3, <2>1 DEF Resolve, IInv, TypeOK
  <2>3. /\ AfterResolve(req[c].endpoint, r) \in {"rows", "marks", "done"}
        /\ AfterResolve(req[c].endpoint, r) = "done" => r = None
        /\ AfterResolve(req[c].endpoint, r) = "marks" => req[c].endpoint = "transfers"
    BY DEF AfterResolve
  <2>4. r \in 0 .. MaxRun
    BY RunAssumption DEF Runs, None
  <2>5. /\ q \in Requests /\ q.run = r /\ q.pc = AfterResolve(req[c].endpoint, r)
        /\ q.asOf = req[c].asOf /\ q.endpoint = req[c].endpoint /\ q.rows = req[c].rows
        /\ q.marks = req[c].marks /\ q.batch = req[c].batch /\ q.matched = req[c].matched
        /\ q.calm = req[c].calm
    BY <1>0, <2>3, <2>4 DEF Requests
  <2> HIDE DEF q
  <2>6. req[c].pc = "resolve" /\ req[c].rows = None /\ req[c].matched = None
    BY <1>0, <1>3 DEF Resolve, OwnMatch
  <2>7. OwnMatch(q)
    BY <2>5, <2>6 DEF OwnMatch
  <2>8. q.calm = TRUE => Coherent(q)
    BY <1>0, <2>1, <2>3, <2>5, <2>6 DEF Coherent
  <2>9. QED
    BY <2>2, <2>5, <2>7, <2>8, OneReplyChanges
<1>4. ASSUME NEW c \in Callers, ReadRows(c) PROVE ReplyInv'
  <2>1. PICK r \in Runs \cup {None} :
          /\ IF req[c].endpoint = "trades" THEN r = req[c].run
             ELSE IsCanonical(r, req[c].asOf)
          /\ req' = [req EXCEPT ![c].rows = r, ![c].pc = AfterRows(req[c].endpoint)]
    BY <1>4 DEF ReadRows
  <2> DEFINE q == [req[c] EXCEPT !.rows = r, !.pc = AfterRows(req[c].endpoint)]
  <2>2. req' = [req EXCEPT ![c] = q] /\ UNCHANGED objects
    BY <1>4, <2>1 DEF ReadRows, IInv, TypeOK
  <2>3. AfterRows(req[c].endpoint) \in {"marks", "done"}
    BY DEF AfterRows
  <2>4. r \in 0 .. MaxRun
    BY RunAssumption DEF Runs, None
  <2>5. /\ q \in Requests /\ q.run = req[c].run /\ q.pc = AfterRows(req[c].endpoint)
        /\ q.asOf = req[c].asOf /\ q.endpoint = req[c].endpoint /\ q.rows = r
        /\ q.marks = req[c].marks /\ q.batch = req[c].batch /\ q.matched = req[c].matched
        /\ q.calm = req[c].calm
    BY <1>0, <2>3, <2>4 DEF Requests
  <2> HIDE DEF q
  <2>6. req[c].pc = "rows" /\ req[c].matched = None
    BY <1>0, <1>4 DEF ReadRows, OwnMatch
  <2>7. OwnMatch(q)
    BY <2>5, <2>6 DEF OwnMatch
  <2>8. ASSUME q.calm = TRUE PROVE Coherent(q)
    <3>1. Coherent(req[c])
      BY <1>0, <2>5, <2>8
    <3>2. req[c].run \in Runs \cup {None}
      BY <1>0, RunAssumption DEF Requests, Runs, None
    <3>3. IsCanonical(req[c].run, req[c].asOf) /\ req[c].batch = None
      BY <2>6, <3>1 DEF Coherent
    <3>4. r = req[c].run
      BY <2>1, <3>2, <3>3, CanonicalIsUnique
    <3>5. QED
      BY <2>3, <2>5, <3>1, <3>3, <3>4 DEF Coherent
  <2>9. QED
    BY <2>2, <2>5, <2>7, <2>8, OneReplyChanges
<1>5. ASSUME NEW c \in Callers, ReadMarks(c) PROVE ReplyInv'
  <2> DEFINE kind == IF req[c].endpoint = "transfers" THEN "transfer" ELSE "pricing"
             m == Found(req[c].run, kind)
             q == [req[c] EXCEPT !.marks = m, !.pc = AfterMarks(req[c].endpoint)]
  <2>1. req' = [req EXCEPT ![c] = q] /\ UNCHANGED objects
    BY <1>5 DEF ReadMarks, IInv, TypeOK
  <2>2. m \in {None, req[c].run} /\ m \in 0 .. MaxRun
    BY <1>0, RunAssumption DEF Found, None, Requests
  <2>3. AfterMarks(req[c].endpoint) \in {"batch", "done"}
    BY DEF AfterMarks
  <2> HIDE DEF m
  <2>4. /\ q \in Requests /\ q.run = req[c].run /\ q.pc = AfterMarks(req[c].endpoint)
        /\ q.asOf = req[c].asOf /\ q.endpoint = req[c].endpoint /\ q.rows = req[c].rows
        /\ q.marks = m /\ q.batch = req[c].batch /\ q.matched = req[c].matched
        /\ q.calm = req[c].calm
    BY <1>0, <2>2, <2>3 DEF Requests
  <2> HIDE DEF q
  <2>5. req[c].pc = "marks" /\ req[c].matched = None
    BY <1>0, <1>5 DEF ReadMarks, OwnMatch
  <2>6. OwnMatch(q)
    BY <2>4, <2>5 DEF OwnMatch
  <2>7. q.calm = TRUE => Coherent(q)
    BY <1>0, <2>2, <2>3, <2>4, <2>5 DEF Coherent
  <2>8. QED
    BY <2>1, <2>4, <2>6, <2>7, OneReplyChanges
<1>6. ASSUME NEW c \in Callers, ReadBatch(c) PROVE ReplyInv'
  <2> DEFINE b == Found(req[c].run, "batch")
             q == [req[c] EXCEPT !.batch = b, !.pc = "recon"]
  <2>1. req' = [req EXCEPT ![c] = q] /\ UNCHANGED objects
    BY <1>6 DEF ReadBatch, IInv, TypeOK
  <2>2. /\ b \in {None, req[c].run} /\ b \in 0 .. MaxRun
        /\ b # None => "batch" \in objects[req[c].run]
    BY <1>0, RunAssumption DEF Found, None, Requests
  <2> HIDE DEF b
  <2>3. /\ q \in Requests /\ q.run = req[c].run /\ q.pc = "recon"
        /\ q.asOf = req[c].asOf /\ q.endpoint = req[c].endpoint /\ q.rows = req[c].rows
        /\ q.marks = req[c].marks /\ q.batch = b /\ q.matched = req[c].matched
        /\ q.calm = req[c].calm
    BY <1>0, <2>2 DEF Requests
  <2> HIDE DEF q
  <2>4. req[c].pc = "batch" /\ req[c].matched = None
    BY <1>0, <1>6 DEF ReadBatch, OwnMatch
  <2>5. OwnMatch(q)
    BY <2>3, <2>4 DEF OwnMatch
  <2>6. q.calm = TRUE => Coherent(q)
    BY <1>0, <2>2, <2>3, <2>4 DEF Coherent
  <2>7. QED
    BY <2>1, <2>3, <2>5, <2>6, OneReplyChanges
<1>7. ASSUME NEW c \in Callers, ReadRecon(c) PROVE ReplyInv'
  <2>1. PICK r \in Runs \cup {None} :
          /\ IsCanonical(r, MaxRun)
          /\ req' = [req EXCEPT ![c].matched = Matched(Verdict(r), req[c].run), ![c].pc = "done"]
    BY <1>7 DEF ReadRecon
  <2> DEFINE m == Matched(Verdict(r), req[c].run)
             q == [req[c] EXCEPT !.matched = m, !.pc = "done"]
  <2>2. req' = [req EXCEPT ![c] = q] /\ UNCHANGED objects
    BY <1>7, <2>1 DEF ReadRecon, IInv, TypeOK
  <2>3. m \in 0 .. MaxRun /\ m \in {None, req[c].run}
    BY RunAssumption DEF Matched, Verdict, Found, None, Runs
  <2>4. r = req[c].run /\ r # None /\ "batch" \in objects[r] => m = r
    BY DEF Matched, Verdict, Found
  <2> HIDE DEF m
  <2>5. /\ q \in Requests /\ q.run = req[c].run /\ q.pc = "done"
        /\ q.asOf = req[c].asOf /\ q.endpoint = req[c].endpoint /\ q.rows = req[c].rows
        /\ q.marks = req[c].marks /\ q.batch = req[c].batch /\ q.matched = m
        /\ q.calm = req[c].calm
    BY <1>0, <2>3 DEF Requests
  <2> HIDE DEF q
  <2>6. req[c].pc = "recon"
    BY <1>7 DEF ReadRecon
  <2>7. OwnMatch(q)
    BY <2>3, <2>5 DEF OwnMatch
  <2>8. ASSUME q.calm = TRUE PROVE Coherent(q)
    <3>1. Coherent(req[c])
      BY <1>0, <2>5, <2>8
    <3>2. req[c].run \in Runs \cup {None}
      BY <1>0, RunAssumption DEF Requests, Runs, None
    <3>3. IsCanonical(req[c].run, req[c].asOf)
      BY <2>6, <3>1 DEF Coherent
    <3>4. q.asOf = MaxRun => r = req[c].run
      BY <2>1, <2>5, <3>2, <3>3, CanonicalIsUnique
    <3>5. q.batch # None => req[c].run # None /\ "batch" \in objects[req[c].run]
      BY <2>5, <3>1 DEF Coherent
    <3>6. QED
      BY <2>4, <2>5, <2>6, <3>1, <3>3, <3>4, <3>5 DEF Coherent
  <2>9. QED
    BY <2>2, <2>5, <2>7, <2>8, OneReplyChanges
<1>8. ASSUME NEW c \in Callers, CallRaises(c) PROVE ReplyInv'
  <2> DEFINE next == CASE req[c].pc = "resolve" -> AfterResolve(req[c].endpoint, None)
                       [] req[c].pc = "rows"    -> AfterRows(req[c].endpoint)
                       [] req[c].pc = "marks"   -> AfterMarks(req[c].endpoint)
                       [] req[c].pc = "batch"   -> "recon"
                       [] OTHER                 -> "done"
             q == [req[c] EXCEPT !.calm = FALSE, !.pc = next]
  <2>1. req' = [req EXCEPT ![c].calm = FALSE, ![c].pc = next] /\ UNCHANGED objects
    BY <1>8 DEF CallRaises
  <2>2. next \in {"rows", "marks", "batch", "recon", "done"}
    BY DEF AfterResolve, AfterRows, AfterMarks
  <2> HIDE DEF next
  <2>3. req' = [req EXCEPT ![c] = q]
    BY <1>0, <2>1
  <2>4. /\ q \in Requests /\ q.run = req[c].run /\ q.matched = req[c].matched
        /\ q.calm = FALSE
    BY <1>0, <2>2 DEF Requests
  <2> HIDE DEF q
  <2>5. req[c].matched = None
    BY <1>0, <1>8 DEF CallRaises, OwnMatch
  <2>6. OwnMatch(q)
    BY <2>4, <2>5 DEF OwnMatch
  <2>7. QED
    BY <2>1, <2>3, <2>4, <2>6, OneReplyChanges
<1>9. ASSUME NEW c \in Callers, VerdictRaises(c) \/ Reply(c) PROVE ReplyInv'
  <2>1. req' = [req EXCEPT ![c] = NoRequest] /\ UNCHANGED objects
    BY <1>9 DEF VerdictRaises, Reply
  <2>2. NoRequest.matched = None /\ NoRequest.calm = FALSE
    BY DEF NoRequest
  <2>3. QED
    BY <2>1, <2>2, NoRequestTyped, OneReplyChanges DEF OwnMatch
<1>10. CASE UNCHANGED vars
  BY <1>10 DEF vars, ReplyInv, OwnMatch, Coherent, IsCanonical, Candidate, Within
<1>11. QED
  BY <1>1, <1>2, <1>3, <1>4, <1>5, <1>6, <1>7, <1>8, <1>9, <1>10 DEF Next

\* The parts of every reply fit together as ReplyInv says.
THEOREM RepliesFit == Spec => []ReplyInv
<1>1. Init => ReplyInv
  BY InitReplyInv
<1>2. IInv /\ ReplyInv /\ [Next]_vars => ReplyInv'
  BY StepReplyInv
<1>3. QED
  BY <1>1, <1>2, Inductive, PTL DEF Spec

\* Without a new tape and without a failing call all parts of a reply are of
\* one run (CalmReplyIsCoherent), for any number of callers and objects.
THEOREM CalmRepliesCohere == Spec => []CalmReplyIsCoherent
<1>1. ReplyInv => CalmReplyIsCoherent
  <2> SUFFICES ASSUME ReplyInv, NEW c \in Callers, req[c].pc = "done", req[c].calm
               PROVE  /\ req[c].endpoint # "transfers" => req[c].rows = req[c].run
                      /\ {req[c].marks, req[c].batch, req[c].matched} \subseteq {None, req[c].run}
                      /\ req[c].batch # None /\ req[c].asOf = MaxRun =>
                            req[c].matched = req[c].run
    BY DEF CalmReplyIsCoherent
  <2>1. Coherent(req[c])
    BY DEF ReplyInv
  <2>2. req[c].matched \in {None, req[c].run}
    BY DEF ReplyInv, OwnMatch
  <2>3. QED
    BY <2>1, <2>2 DEF Coherent
<1>2. QED
  BY <1>1, RepliesFit, PTL
=============================================================================
