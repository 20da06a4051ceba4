----------------------------- MODULE MCRequests -----------------------------
(***************************************************************************)
(* The two kinds of request that work on an account at an exchange: the    *)
(* fees of a client (FeePosition) and the closing of its positions         *)
(* (EmergencyClose).  They share no state, so a behaviour is of one kind;   *)
(* the callers are the same and interchangeable.                           *)
(***************************************************************************)
EXTENDS MCFeePosition, EmergencyClose

VARIABLE request   \* the kind of the behaviour

RequestInit ==
    /\ Init /\ CloseInit
    /\ \/ request = "fees" /\ access = "mock" /\ position = NothingListed
       \/ request = "close" /\ class = CHOOSE c \in Classes : TRUE

RequestNext ==
    \/ request = "fees" /\ Next /\ UNCHANGED <<request, closeVars>>
    \/ request = "close" /\ CloseNext /\ UNCHANGED <<request, vars>>

RequestSpec == RequestInit /\ [][RequestNext]_<<request, vars, closeVars>>

=============================================================================
