---------------------------- MODULE InvoiceRecords ----------------------------
(***************************************************************************)
(* The records of mock mode: invoices and their state machine              *)
(* (api/routes/invoices/), documents (api/routes/documents.py) and         *)
(* signature envelopes (api/routes/docusign.py), kept by get_store().      *)
(* Handlers of invoices run in a thread pool: each reads a record, checks  *)
(* it and stores a whole new one, in separate calls of the store.  The     *)
(* webhook of the signature service runs on the event loop in one piece.   *)
(* In live mode these handlers store nothing.                              *)
(***************************************************************************)
EXTENDS Integers, Sequences, FiniteSets

CONSTANTS
    Seeded,          \* [ids of MOCK_INVOICES -> their status]
    Generated,       \* ids generate_invoice can draw
    Threads,         \* concurrent requests
    Documents,       \* ids of documents, stored or not
    MaxEnvelopes,    \* bound
    MaxRestarts      \* bound

VARIABLES
    invoices,        \* [ids -> [status, txid]], status "none" if not stored
    requests,        \* [Threads -> request], Idle when there is none
    documents,       \* [Documents -> status]
    envelopes,       \* [document, status, signed, completed], as listed
    restarts,
    closedSince        \* history: per thread, ids paid or voided while its request was at work

recordVars == <<invoices, requests, documents, envelopes, restarts, closedSince>>

Ids == DOMAIN Seeded \cup Generated

Invoice(status, txid) == [status |-> status, txid |-> txid]

Absent == Invoice("none", FALSE)

Idle == [id |-> "none", target |-> "none", inv |-> Absent]

\* _ACTION_TO_STATUS, the actions named by the status they lead to.
Targets == {"issued", "accepted", "disputed", "paid", "voided"}

DisputePaid(status) ==
    CASE status = "draft"    -> {"issued", "voided"}
      [] status = "issued"   -> {"accepted", "disputed", "voided"}
      [] status = "accepted" -> {"paid", "voided"}
      [] status = "disputed" -> {"issued", "voided"}
      [] status = "paid"     -> {"disputed"}
      [] OTHER               -> {}

\* VALID_TRANSITIONS
Allowed(status) ==
    CASE status = "draft"    -> {"issued", "voided"}
      [] status = "issued"   -> {"accepted", "disputed", "voided"}
      [] status = "accepted" -> {"paid", "voided"}
      [] status = "disputed" -> {"issued", "voided"}
      [] OTHER               -> {}

\* Statuses whose invoice is closed.
Closed == {"paid", "voided"}

-----------------------------------------------------------------------------
\* generate_invoice
Generate(id) ==
    /\ invoices[id] = Absent
    /\ invoices' = [invoices EXCEPT ![id] = Invoice("draft", FALSE)]
    /\ UNCHANGED <<requests, documents, envelopes, restarts, closedSince>>

\* transition_invoice reads the record; one that is not there is a 404.
ReadInvoice(t, id) ==
    /\ requests[t] = Idle /\ invoices[id] # Absent
    /\ \E target \in Targets :
          requests' = [requests EXCEPT ![t] = [id |-> id, target |-> target, inv |-> invoices[id]]]
    /\ closedSince' = [closedSince EXCEPT ![t] = {}]
    /\ UNCHANGED <<invoices, documents, envelopes, restarts>>

\* A transition the status does not allow is a 409.
Conflict(t) ==
    /\ requests[t] # Idle /\ requests[t].target \notin Allowed(requests[t].inv.status)
    /\ requests' = [requests EXCEPT ![t] = Idle]
    /\ UNCHANGED <<invoices, documents, envelopes, restarts, closedSince>>

\* The record that was read is stored with its new status and, for a payment,
\* the transaction if the request names one.
StoreInvoice(t) ==
    LET r == requests[t]
    IN  /\ r # Idle /\ r.target \in Allowed(r.inv.status)
        /\ \E txid \in IF r.target = "paid" THEN {TRUE, r.inv.txid} ELSE {r.inv.txid} :
              invoices' = [invoices EXCEPT ![r.id] = Invoice(r.target, txid)]
        /\ requests' = [requests EXCEPT ![t] = Idle]
        /\ closedSince' = [u \in Threads |->
                            IF r.target \in Closed THEN closedSince[u] \cup {r.id} ELSE closedSince[u]]
        /\ UNCHANGED <<documents, envelopes, restarts>>

\* The process starts anew: the store has kept its records, and the seeded
\* invoices get the seed's status again (_seed_mock_invoices).
Restart ==
    /\ restarts < MaxRestarts
    /\ restarts' = restarts + 1
    /\ invoices' = [id \in Ids |->
                        IF id \in DOMAIN Seeded THEN Invoice(Seeded[id], FALSE)
                        ELSE invoices[id]]
    /\ requests' = [t \in Threads |-> Idle]
    /\ UNCHANGED <<documents, envelopes, closedSince>>

-----------------------------------------------------------------------------
\* create_upload_url allocates a document that nothing has been uploaded to,
\* and nothing records that it has been.
CreateUploadUrl(d) ==
    /\ documents[d] = "none"
    /\ documents' = [documents EXCEPT ![d] = "pending_upload"]
    /\ UNCHANGED <<invoices, requests, envelopes, restarts, closedSince>>

\* delete_document
DeleteDocument(d) ==
    /\ documents[d] # "none"
    /\ documents' = [documents EXCEPT ![d] = "deleted"]
    /\ UNCHANGED <<invoices, requests, envelopes, restarts, closedSince>>

\* send_for_signature asks neither whether the document is there nor whether
\* it is out for signature already.
SendForSignature(d) ==
    /\ Len(envelopes) < MaxEnvelopes
    /\ envelopes' = Append(envelopes,
            [document |-> d, status |-> "sent", signed |-> FALSE, completed |-> FALSE])
    /\ UNCHANGED <<invoices, requests, documents, restarts, closedSince>>

EventStatuses == {"signed", "completed", "declined", "voided"}

StampsOwn(e, status) ==
    [e EXCEPT !.status = status, !.signed = status = "signed", !.completed = status = "completed"]

\* An event's status is taken over whatever the status was; a completed
\* envelope is a signed one.
Stamped(e, status) ==
    [document  |-> e.document,
     status    |-> status,
     signed    |-> e.signed \/ status \in {"signed", "completed"},
     completed |-> e.completed \/ status = "completed"]

\* docusign_webhook; an event it does not know keeps the status.
Webhook(i) ==
    /\ i \in DOMAIN envelopes
    /\ \E status \in EventStatuses \cup {envelopes[i].status} :
          envelopes' = [envelopes EXCEPT ![i] = Stamped(@, status)]
    /\ UNCHANGED <<invoices, requests, documents, restarts, closedSince>>

\* get_signature_status: the envelope sent last for a document.
SignatureStatus(d) ==
    LET of == {i \in DOMAIN envelopes : envelopes[i].document = d}
    IN  IF of = {} THEN "none"
        ELSE envelopes[CHOOSE i \in of : \A j \in of : j <= i].status

-----------------------------------------------------------------------------
RecordInit ==
    /\ invoices = [id \in Ids |-> IF id \in DOMAIN Seeded THEN Invoice(Seeded[id], FALSE) ELSE Absent]
    /\ requests = [t \in Threads |-> Idle]
    /\ documents \in [Documents -> {"none", "active"}]
    /\ envelopes = <<>> /\ restarts = 0
    /\ closedSince = [t \in Threads |-> {}]

InvoiceStep ==
    \/ \E id \in Generated : Generate(id)
    \/ \E t \in Threads, id \in Ids : ReadInvoice(t, id)
    \/ \E t \in Threads : Conflict(t) \/ StoreInvoice(t)
    \/ Restart

DocumentStep ==
    \/ \E d \in Documents : CreateUploadUrl(d) \/ DeleteDocument(d) \/ SendForSignature(d)
    \/ \E i \in 1 .. MaxEnvelopes : Webhook(i)

RecordNext == InvoiceStep \/ DocumentStep

RecordSpec == RecordInit /\ [][RecordNext]_recordVars

-----------------------------------------------------------------------------
\* A closed invoice is not opened again: one that is paid keeps its status and
\* its transaction or is voided, one that is voided stays so.  A request that
\* had read the invoice before it was closed may still undo that, and the seed
\* at a restart: two requests that pass the check on the same reading are the
\* only way past the state machine (transition_invoice).
ClosedStaysClosed ==
    \A id \in Ids :
        invoices[id].status \in Closed =>
            \/ /\ invoices'[id].status \in {invoices[id].status, "voided"}
               /\ invoices'[id].txid = invoices[id].txid
            \/ restarts' # restarts
            \/ \E t \in Threads :
                  requests[t].id = id /\ requests'[t] = Idle /\ id \in closedSince[t]

\* However the events of an envelope are ordered, doubled or delayed, a
\* completed envelope has both its times, and no time is taken back
\* (docusign_webhook).  Its status may be: a late event moves a completed
\* envelope back.
EnvelopesKeepTimes ==
    \A i \in DOMAIN envelopes :
        /\ envelopes'[i].status = "completed" => envelopes'[i].signed /\ envelopes'[i].completed
        /\ envelopes[i].signed => envelopes'[i].signed
        /\ envelopes[i].completed => envelopes'[i].completed

RecordsStep == ClosedStaysClosed /\ EnvelopesKeepTimes

\* Both, of every step: closed invoices stay closed and envelopes keep their
\* times (transition_invoice, docusign_webhook).
RecordsHold == [][RecordsStep]_recordVars
=============================================================================
