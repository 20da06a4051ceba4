----------------------------- MODULE MCReaders ------------------------------
(***************************************************************************)
(* The two readers of the runs the engine writes: the endpoints of the     *)
(* API (LedgerRuns) and the daily digest (DailyDigest).  Each has its own   *)
(* picture of the bucket, so a behaviour is of one of them.                *)
(***************************************************************************)
EXTENDS MCLedgerRuns, DailyDigest

VARIABLE reader   \* whose behaviour it is

\* The clients of the digest.
DigestClients == <<"PR", "ET">>

ReaderInit == reader \in {"api", "digest"} /\ Init /\ DigestInit

\* The bounds of the digest are used up.
DigestIsOver ==
    /\ ~Running /\ execution = MaxExecutions
    /\ \A c \in Everyone : Written(c) = 1 .. MaxRuns

ReaderNext ==
    \/ reader = "api" /\ Next /\ UNCHANGED <<reader, digestVars>>
    \/ reader = "digest" /\ DigestNext /\ UNCHANGED <<reader, vars>>
    \/ reader = "digest" /\ DigestIsOver /\ UNCHANGED <<reader, vars, digestVars>>

ReaderSpec == ReaderInit /\ [][ReaderNext]_<<reader, vars, digestVars>>

=============================================================================
