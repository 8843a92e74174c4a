---------------------------- MODULE InvoiceIssue ----------------------------
(***************************************************************************)
(* Issuing the tax invoices of one settlement: the office                  *)
(* (apps/api/src/service.ts), the worker's handlers for issue, webhook and *)
(* reconciliation events (apps/worker/src/worker.ts) and the provider's    *)
(* adapter (packages/integrations/src/popbill.ts).                         *)
(*                                                                         *)
(* Every commit of a handler is a compare-and-set on the invoice version   *)
(* it read, so a handler keeps what it read in view[p].  The outbox is     *)
(* modelled by what it promises (Outbox): an event may be tried by any     *)
(* handler, also while another one still works on it, up to MaxAttempts    *)
(* times.  Storing the original document is a lookup that may fail; the    *)
(* stored documents, amounts, and the persons who prepare, review and      *)
(* approve are left out.                                                   *)
(***************************************************************************)
EXTENDS Naturals

CONSTANTS
    Parts,          \* the parts of the settlement's invoice group
    Modified,       \* modified invoices that may be drafted
    Handlers,       \* event handlers that run concurrently
    None,           \* no invoice, event, receipt
    MaxAttempts,    \* OUTBOX_MAX_ATTEMPTS
    MaxRetries,     \* bound: retries of one invoice
    MaxFaults       \* bound: failures of provider, storage, database, worker

ASSUME PartsAssumption == Parts \cap Modified = {}
ASSUME BoundsAssumption == MaxAttempts \in Nat \ {0} /\ MaxRetries \in Nat /\ MaxFaults \in Nat

Invoices == Parts \cup Modified
Keys == 0..MaxRetries

ASSUME NoneAssumption == None \notin Invoices /\ None \notin Keys

VARIABLES
    invoice,        \* invoice[i]: the row tax_invoice
    settlement,     \* status of the settlement
    issueType,      \* issue type of its invoices, once drafted
    document,       \* document[i][k]: the provider's document under key k
    late,           \* registrations whose caller gave up waiting
    left,           \* left[e]: attempts the outbox still makes for event e
    step,           \* step[p]: where handler p is
    view,           \* view[p]: what it works on
    faults          \* number of failures so far

vars == <<invoice, settlement, issueType, document, late, left, step, view, faults>>
provider == <<document, late>>
books == <<settlement, issueType>>

InvoiceStatuses == {"absent", "draft", "reviewed", "approved", "queued", "issued",
                    "nts_pending", "nts_success", "failed", "cancelled"}
DocumentStatuses == {"none", "pending", "success", "failed", "cancelled"}
Live == {"pending", "success"}
Final == {"success", "failed", "cancelled"}

Rows == [status : InvoiceStatuses, key : Keys, receipt : Keys \cup {None},
         retries : Keys, version : Nat]

(* An event is the first issue of an invoice or its retry number k, or the   *)
(* webhook for its document under key k, which waits for the document to be  *)
(* final.  No attempts are left for an event that was completed or given up. *)
Events == {"issue", "webhook"} \X Invoices \X Keys

Steps == {"idle", "asking", "registering", "recovering", "confirming", "checking",
          "saving", "pending", "settling", "locking", "stating", "caught", "listed"}

(* todo: invoices listed for reconciliation and not dealt with; guarded: the *)
(* handler is inside the try block of issueTaxInvoice.                       *)
Views == [event : Events \cup {None}, id : Invoices \cup {None}, row : Rows,
          result : DocumentStatuses, guarded : BOOLEAN, todo : SUBSET (Invoices \X Rows)]

Row(s, k, r, n, v) == [status |-> s, key |-> k, receipt |-> r, retries |-> n, version |-> v]
Blank == Row("absent", 0, None, 0, 0)

View(e, i, r, d, g, t) ==
    [event |-> e, id |-> i, row |-> r, result |-> d, guarded |-> g, todo |-> t]
Nothing == View(None, None, Blank, "none", FALSE, {})

Init ==
    /\ invoice = [i \in Invoices |-> Blank]
    /\ settlement = "approved"
    /\ issueType = None
    /\ document = [i \in Invoices |-> [k \in Keys |-> "none"]]
    /\ late = {}
    /\ left = [e \in Events |-> IF e[1] = "webhook" THEN MaxAttempts ELSE 0]
    /\ step = [p \in Handlers |-> "idle"]
    /\ view = [p \in Handlers |-> Nothing]
    /\ faults = 0

-----------------------------------------------------------------------------
(* Writing an invoice row.                                                   *)

Moved(r, s) == Row(s, r.key, r.receipt, r.retries, r.version + 1)
(* providerReceiptId names the document of the key in use.                   *)
Receipted(r, s) == Row(s, r.key, r.key, r.retries, r.version + 1)

Store(i, r) == invoice' = [invoice EXCEPT ![i] = r]

(* A slip of Current: the version is not checked.                            *)
AnyVersion(p) == invoice[view[p].id].version >= 1

(* commit(): nobody wrote the row since handler p read it.                   *)
Current(p) == invoice[view[p].id].version = view[p].row.version

-----------------------------------------------------------------------------
(* The office.                                                               *)

OfficeOnly == UNCHANGED <<settlement, provider, step, view, faults>>

Request(e) == left' = [left EXCEPT ![e] = MaxAttempts]

IssueTypes == {"normal", "internal_statement"}
Internal == issueType = "internal_statement"

(* All parts in one commit, of the type the business numbers of store and    *)
(* head office make them; the claim invoice.settlement_generation excludes a   *)
(* second draft.                                                             *)
CreateInvoiceDraft ==
    /\ settlement = "approved"
    /\ \A i \in Parts : invoice[i].status = "absent"
    /\ invoice' = [i \in Invoices |-> IF i \in Parts THEN Row("draft", 0, None, 0, 1)
                                      ELSE invoice[i]]
    /\ issueType' \in IssueTypes
    /\ UNCHANGED left
    /\ OfficeOnly

(* A full reversal of an invoice the tax office has; original rows that      *)
(* succeeded never change, so which one it reverses is not kept.             *)
CreateModifiedInvoice(m) ==
    /\ ~Internal
    /\ invoice[m].status = "absent"
    /\ \E i \in Parts : invoice[i].status = "nts_success"
    /\ Store(m, Row("draft", 0, None, 0, 1))
    /\ UNCHANGED <<left, issueType>>
    /\ OfficeOnly

ReviewInvoice(i) ==
    /\ invoice[i].status = "draft"
    /\ Store(i, Moved(invoice[i], "reviewed"))
    /\ UNCHANGED <<left, issueType>>
    /\ OfficeOnly

ApproveInvoice(i) ==
    /\ invoice[i].status = "reviewed"
    /\ Store(i, Moved(invoice[i], "approved"))
    /\ Request(<<"issue", i, 0>>)
    /\ UNCHANGED issueType
    /\ OfficeOnly

(* A new management key, and no trace of the failed document.                *)
Retried(r) == Row("queued", r.retries + 1, None, r.retries + 1, r.version + 1)

RetryInvoice(i) ==
    /\ invoice[i].status = "failed"
    /\ invoice[i].retries < MaxRetries
    /\ Store(i, Retried(invoice[i]))
    /\ Request(<<"issue", i, invoice[i].retries + 1>>)
    /\ UNCHANGED issueType
    /\ OfficeOnly

-----------------------------------------------------------------------------
(* The provider and the tax office behind it.                                *)

SetDocument(i, k, d) == document' = [document EXCEPT ![i][k] = d]

TaxOfficeDecides(i, k) ==
    /\ document[i][k] = "pending"
    /\ \E d \in Final : SetDocument(i, k, d)
    /\ UNCHANGED <<invoice, books, late, left, step, view, faults>>

(* A registration still under way arrives; a key is used only once.          *)
LateRegistration(i, k) ==
    /\ <<i, k>> \in late
    /\ late' = late \ {<<i, k>>}
    /\ SetDocument(i, k, IF document[i][k] = "none" THEN "pending" ELSE document[i][k])
    /\ UNCHANGED <<invoice, books, left, step, view, faults>>

-----------------------------------------------------------------------------
(* How a handler moves on and ends.                                          *)

Goto(p, s, v) == /\ step' = [step EXCEPT ![p] = s]
                 /\ view' = [view EXCEPT ![p] = v]

Stop(p) == Goto(p, "idle", Nothing)

With(v, r, d) == View(v.event, v.id, r, d, v.guarded, v.todo)
(* What was read does not matter any more.                                   *)
Forget(v) == With(v, Blank, "none")

(* The handler throws: issueTaxInvoice catches what its try block throws.    *)
Throw(p) == IF view[p].guarded THEN Goto(p, "caught", Forget(view[p])) ELSE Stop(p)

(* The event is completed, unless the lease was lost meanwhile.              *)
Complete(e) == e \in Events /\ left' = [left EXCEPT ![e] = 0]

(* The handler returns: the next listed invoice, or the end of the event.    *)
Return(p) ==
    IF view[p].todo # {}
    THEN /\ Goto(p, "listed", View(None, None, Blank, "none", FALSE, view[p].todo))
         /\ UNCHANGED left
    ELSE Stop(p) /\ (Complete(view[p].event) \/ UNCHANGED left)

Fault == faults < MaxFaults /\ faults' = faults + 1

Document(p) == document[view[p].id][view[p].row.key]

(* An attempt for event e.                                                   *)
Ready(p, e) == step[p] = "idle" /\ left[e] > 0
Try(e) == left' = [left EXCEPT ![e] = left[e] - 1]

-----------------------------------------------------------------------------
(* issueTaxInvoice.                                                          *)

Queued(r) == Moved(r, "queued")

(* The automatic retry counts but keeps the key.                             *)
Requeued(r) == Row("queued", r.key, r.receipt, r.retries + 1, r.version + 1)

(* Where reconciliation and webhooks resume, by the status of the invoice.   *)
Resume(r) == CASE r.status = "queued"      -> "saving"
               [] r.status = "issued"      -> "pending"
               [] r.status = "nts_pending" -> "settling"

(* Reads the invoice and, with its own commit, queues it when needed.        *)
IssueTaxInvoice(p, i, k) ==
    LET e == <<"issue", i, k>>
        r == invoice[i]
        Begin(s, w, g) == Goto(p, s, View(e, i, w, "none", g, {}))
    IN /\ ~Internal
       /\ Ready(p, e) /\ Try(e)
       /\ \/ r.status = "nts_success" /\ Begin("locking", Blank, FALSE) /\ UNCHANGED invoice
          \/ r.status \in {"issued", "nts_pending"} /\ Begin("checking", r, FALSE) /\ UNCHANGED invoice
          \/ r.status = "queued" /\ Begin("asking", r, TRUE) /\ UNCHANGED invoice
          \/ /\ r.status = "approved"
             /\ Store(i, Queued(r))
             /\ Begin("asking", Queued(r), TRUE)
          \/ /\ r.status = "failed"
             /\ r.retries < MaxRetries
             /\ Store(i, Requeued(r))
             /\ Begin("asking", Requeued(r), TRUE)
          \/ r.status = "cancelled" /\ Stop(p) /\ UNCHANGED invoice
       /\ UNCHANGED <<books, provider, faults>>

(* The adapter first asks for a document under the key.                      *)
Asked(p) ==
    /\ step[p] = "asking"
    /\ \/ Document(p) = "none" /\ Goto(p, "registering", view[p])
       \/ Document(p) \in Live /\ Goto(p, "saving", With(view[p], view[p].row, Document(p)))
       \/ Document(p) \in {"failed", "cancelled"} /\ Throw(p)
    /\ UNCHANGED <<invoice, books, provider, left, faults>>

(* A key that is in use is refused; that and every other error of the call   *)
(* makes the adapter ask again.                                              *)
Registered(p) ==
    /\ step[p] = "registering"
    /\ IF Document(p) = "none"
       THEN SetDocument(view[p].id, view[p].row.key, "pending") /\ Goto(p, "confirming", view[p])
       ELSE Goto(p, "recovering", view[p]) /\ UNCHANGED document
    /\ UNCHANGED <<invoice, books, late, left, faults>>

RegistrationRejected(p) ==
    /\ step[p] = "registering"
    /\ Document(p) = "none"
    /\ Throw(p)
    /\ UNCHANGED <<invoice, books, provider, left, faults>>

(* The call fails, and its effect is there, comes later or never.            *)
RegistrationUncertain(p) ==
    LET k == view[p].row.key
    IN /\ step[p] = "registering"
       /\ Fault
       /\ \/ Document(p) = "none" /\ SetDocument(view[p].id, k, "pending") /\ UNCHANGED late
          \/ late' = late \cup {<<view[p].id, k>>} /\ UNCHANGED document
          \/ UNCHANGED provider
       /\ Goto(p, "recovering", view[p])
       /\ UNCHANGED <<invoice, books, left>>

(* A slip of Recovered: what was sent is taken for issued.                   *)
RecoveredAsIssued(p) ==
    /\ step[p] = "recovering"
    /\ Goto(p, "saving", With(view[p], view[p].row, "pending"))
    /\ UNCHANGED <<invoice, books, provider, left, faults>>

(* After an error any document counts; without one the outcome is unknown,   *)
(* and the invoice stays queued.                                             *)
Recovered(p) ==
    /\ step[p] = "recovering"
    /\ IF Document(p) = "none" THEN Stop(p)
       ELSE Goto(p, "saving", With(view[p], view[p].row, Document(p)))
    /\ UNCHANGED <<invoice, books, provider, left, faults>>

Confirmed(p) ==
    /\ step[p] = "confirming"
    /\ IF Document(p) \in Live THEN Goto(p, "saving", With(view[p], view[p].row, Document(p)))
       ELSE Throw(p)
    /\ UNCHANGED <<invoice, books, provider, left, faults>>

(* The provider does not answer, or not in time: the outcome is unknown and  *)
(* the invoice stays queued, while the call may still go on.                 *)
OutcomeUnknown(p) ==
    /\ step[p] \in {"asking", "registering", "recovering", "confirming"}
    /\ Fault
    /\ \/ /\ step[p] \in {"asking", "registering"}
          /\ late' = late \cup {<<view[p].id, view[p].row.key>>}
       \/ UNCHANGED late
    /\ Stop(p)
    /\ UNCHANGED <<invoice, books, document, left>>

(* The catch block: an invoice not known to the tax office yet is failed.    *)
Caught(p) ==
    LET i == view[p].id
    IN /\ step[p] = "caught"
       /\ IF invoice[i].status \in {"queued", "issued"}
          THEN Store(i, Moved(invoice[i], "failed"))
          ELSE UNCHANGED invoice
       /\ Stop(p)
       /\ UNCHANGED <<books, provider, left, faults>>

-----------------------------------------------------------------------------
(* What the provider knows is written to the invoice, commit by commit.      *)

(* updateInvoice with the row the handler read, and on to step s.            *)
Update(p, r, s) ==
    IF Current(p)
    THEN /\ Store(view[p].id, r)
         /\ Goto(p, s, IF s = "locking" THEN Forget(view[p])
                       ELSE With(view[p], r, view[p].result))
    ELSE Throw(p) /\ UNCHANGED invoice

SaveIssued(p) ==
    /\ step[p] = "saving"
    /\ Update(p, Receipted(view[p].row, "issued"), "pending")
    /\ UNCHANGED <<books, provider, left, faults>>

SavePending(p) ==
    /\ step[p] = "pending"
    /\ Update(p, Moved(view[p].row, "nts_pending"), "settling")
    /\ UNCHANGED <<books, provider, left, faults>>

(* applyProviderTerminalStatus, with the tax office's decision in result.    *)
SettleSuccess(p) ==
    /\ step[p] = "settling"
    /\ view[p].result = "success"
    /\ Update(p, Receipted(view[p].row, "nts_success"), "locking")
    /\ UNCHANGED <<books, provider, left, faults>>

SettleRefused(p) ==
    /\ step[p] = "settling"
    /\ view[p].result \in {"failed", "cancelled"}
    /\ IF Current(p)
       THEN Store(view[p].id, Receipted(view[p].row, view[p].result)) /\ Return(p)
       ELSE Throw(p) /\ UNCHANGED <<invoice, left>>
    /\ UNCHANGED <<books, provider, faults>>

SettleLater(p) ==
    /\ step[p] = "settling"
    /\ view[p].result = "pending"
    /\ Return(p)
    /\ UNCHANGED <<invoice, books, provider, faults>>

-----------------------------------------------------------------------------
(* lockSettlementIfInvoiceGroupComplete.                                     *)

Group(i) == IF i \in Parts THEN Parts ELSE {i}
FinalStatus == IF Internal THEN "issued" ELSE "nts_success"

(* A slip of GroupComplete: only the invoice at hand is looked at.           *)
TriggerComplete(i) == invoice[i].status = FinalStatus

GroupComplete(i) == \A j \in Group(i) : invoice[j].status = FinalStatus

LockSettlement(p) ==
    /\ step[p] = "locking"
    /\ settlement' = IF GroupComplete(view[p].id) THEN "locked" ELSE settlement
    /\ Return(p)
    /\ UNCHANGED <<invoice, issueType, provider, faults>>

-----------------------------------------------------------------------------
(* issueInternalStatement.                                                   *)

IssueInternalStatement(p, i) ==
    LET e == <<"issue", i, 0>>
        r == invoice[i]
        Begin(s, w) == Goto(p, s, View(e, i, w, "none", FALSE, {}))
    IN /\ Internal
       /\ Ready(p, e) /\ Try(e)
       /\ \/ r.status = "issued" /\ Begin("locking", Blank) /\ UNCHANGED invoice
          \/ r.status = "approved" /\ Store(i, Queued(r)) /\ Begin("stating", Queued(r))
          \/ r.status = "queued" /\ Begin("stating", r) /\ UNCHANGED invoice
       /\ UNCHANGED <<books, provider, faults>>

SaveStatement(p) ==
    /\ step[p] = "stating"
    /\ Update(p, Moved(view[p].row, "issued"), "locking")
    /\ UNCHANGED <<books, provider, left, faults>>

-----------------------------------------------------------------------------
(* applyPopbillWebhook.                                                      *)

Names(i, k) == invoice[i].receipt = k \/ invoice[i].key = k

ApplyWebhook(p, i, k) ==
    LET e == <<"webhook", i, k>>
        r == invoice[i]
        Begin(s, w) == Goto(p, s, View(e, i, w, document[i][k], FALSE, {}))
        InFlight == r.status \in {"queued", "issued", "nts_pending"}
    IN /\ Ready(p, e)
       /\ document[i][k] \in Final
       /\ \/ /\ ~Names(i, k) \/ ~(InFlight \/ r.status \in {"nts_success", "failed"})
             /\ Stop(p)
             /\ Try(e) \/ Complete(e)
             /\ UNCHANGED invoice
          \/ /\ Names(i, k) /\ r.status = "nts_success"
             /\ Begin("locking", Blank)
             /\ Try(e) /\ UNCHANGED invoice
          \/ /\ Names(i, k) /\ r.status = "failed"
             /\ Store(i, Receipted(r, "queued"))
             /\ Begin("saving", Receipted(r, "queued"))
             /\ Try(e)
          \/ /\ Names(i, k) /\ InFlight
             /\ Begin(Resume(r), r)
             /\ Try(e) /\ UNCHANGED invoice
       /\ UNCHANGED <<books, provider, faults>>

-----------------------------------------------------------------------------
(* reconcilePendingInvoices, requested by the schedule every five minutes.   *)

(* A slip of Reconciled: what has an unknown outcome is not asked for.       *)
ReconciledSent == {"issued", "nts_pending", "nts_success"}
(* A slip of Reconciled: reported invoices need nothing more.                *)
ReconciledInFlight == {"queued", "issued", "nts_pending"}

Reconciled == {"queued", "issued", "nts_pending", "nts_success"}

ReconcilePendingInvoices(p) ==
    LET listed == {i \in Invoices : invoice[i].status \in Reconciled}
    IN /\ ~Internal
       /\ step[p] = "idle"
       /\ listed # {}
       /\ Goto(p, "listed", View(None, None, Blank, "none", FALSE,
                                 {<<i, invoice[i]>> : i \in listed}))
       /\ UNCHANGED <<invoice, books, provider, left, faults>>

(* reconcileInvoice works on the row as it was listed.                       *)
ReconcileInvoice(p, i, r) ==
    /\ step[p] = "listed"
    /\ <<i, r>> \in view[p].todo
    /\ Goto(p, IF r.status = "nts_success" THEN "locking" ELSE "checking",
            View(None, i, r, "none", FALSE, view[p].todo \ {<<i, r>>}))
    /\ UNCHANGED <<invoice, books, provider, left, faults>>

StatusChecked(p) ==
    /\ step[p] = "checking"
    /\ IF Document(p) = "none" THEN Return(p)
       ELSE /\ Goto(p, Resume(view[p].row), With(view[p], view[p].row, Document(p)))
            /\ UNCHANGED left
    /\ UNCHANGED <<invoice, books, provider, faults>>

-----------------------------------------------------------------------------
(* Failures.                                                                 *)

(* A query, a commit, a lookup or the storage of the original fails.         *)
Fails(p) ==
    /\ step[p] \in {"checking", "saving", "pending", "settling", "locking", "stating"}
    /\ Fault
    /\ Throw(p)
    /\ UNCHANGED <<invoice, books, provider, left>>

Crash(p) ==
    /\ step[p] # "idle"
    /\ Fault
    /\ Stop(p)
    /\ UNCHANGED <<invoice, books, provider, left>>

-----------------------------------------------------------------------------

OfficeStep ==
    \/ CreateInvoiceDraft
    \/ \E i \in Modified : CreateModifiedInvoice(i)
    \/ \E i \in Invoices : ReviewInvoice(i) \/ ApproveInvoice(i) \/ RetryInvoice(i)

ProviderStep == \E i \in Invoices, k \in Keys :
    TaxOfficeDecides(i, k) \/ LateRegistration(i, k)

HandlerStarts(p) == \E i \in Invoices :
    \/ IssueInternalStatement(p, i)
    \/ \E k \in Keys : IssueTaxInvoice(p, i, k) \/ ApplyWebhook(p, i, k)

HandlerStep(p) ==
    \/ Asked(p) \/ Registered(p) \/ Recovered(p) \/ Confirmed(p) \/ Caught(p)
    \/ SaveIssued(p) \/ SavePending(p) \/ SettleSuccess(p) \/ SettleRefused(p)
    \/ SettleLater(p) \/ LockSettlement(p) \/ SaveStatement(p) \/ StatusChecked(p)
    \/ \E todo \in view[p].todo : ReconcileInvoice(p, todo[1], todo[2])

HandlerFails(p) == \/ RegistrationRejected(p) \/ RegistrationUncertain(p)
                   \/ OutcomeUnknown(p) \/ Fails(p) \/ Crash(p)

Next == \/ OfficeStep
        \/ ProviderStep
        \/ \E p \in Handlers : \/ HandlerStarts(p) \/ ReconcilePendingInvoices(p)
                               \/ HandlerStep(p) \/ HandlerFails(p)

Spec == Init /\ [][Next]_vars

(* Workers keep running (their handlers end, as every provider call has a    *)
(* timeout), the schedule keeps asking for reconciliation, and the tax       *)
(* office decides.                                                           *)
Fairness ==
    /\ \A p \in Handlers : WF_vars(HandlerStep(p)) /\ WF_vars(ReconcilePendingInvoices(p))
    /\ \A i \in Invoices, k \in Keys : WF_vars(TaxOfficeDecides(i, k))

FairSpec == Spec /\ Fairness

-----------------------------------------------------------------------------
(* Every variable has its type.                                              *)
TypeOK ==
    /\ invoice \in [Invoices -> Rows]
    /\ settlement \in {"approved", "locked"}
    /\ issueType \in IssueTypes \cup {None}
    /\ document \in [Invoices -> [Keys -> DocumentStatuses]]
    /\ late \subseteq Invoices \X Keys
    /\ left \in [Events -> 0..MaxAttempts]
    /\ step \in [Handlers -> Steps]
    /\ view \in [Handlers -> Views]
    /\ faults \in 0..MaxFaults

(* What an invoice says of its document is so at the provider, for the key   *)
(* it has now: no answer, webhook or listed row that has become stale gets   *)
(* through.                                                                  *)
OutcomeIsTheProviders == ~Internal => \A i \in Invoices :
    LET d == document[i][invoice[i].key]
    IN /\ invoice[i].status \in {"issued", "nts_pending"} => d # "none"
       /\ invoice[i].status = "nts_success" => d = "success"
       /\ invoice[i].status = "cancelled" => d = "cancelled"

(* Once reported, an invoice never changes, whatever still arrives for it.   *)
SuccessIsFinal ==
    [][\A i \in Invoices : invoice[i].status = "nts_success" => invoice'[i] = invoice[i]]_vars

(* A settlement is locked only by a group all of whose documents are final.  *)
LockedByWholeGroup ==
    settlement = "locked" =>
        \E i \in Invoices : \A j \in Group(i) : invoice[j].status = FinalStatus

(* The receipt of an invoice always names the document under its key, which  *)
(* exists: webhooks, which are matched by either, never reach a document of  *)
(* an earlier attempt.                                                       *)
ReceiptNamesDocument == \A i \in Invoices : invoice[i].receipt # None =>
    /\ invoice[i].receipt = invoice[i].key
    /\ document[i][invoice[i].key] # "none"

(* An invoice with a document at the provider does not stay in flight,       *)
(* though webhooks may never come and events run out of attempts.            *)
InFlightSettles == \A i \in Invoices :
    (/\ invoice[i].status \in {"queued", "issued", "nts_pending"}
     /\ document[i][invoice[i].key] # "none")
    ~> invoice[i].status \in {"nts_success", "failed", "cancelled"}

(* A group that is final locks its settlement, even when the handler that    *)
(* finished it died before it did.                                           *)
CompleteGroupLocks == (Parts # {} /\ \A i \in Parts : invoice[i].status = "nts_success")
    ~> settlement = "locked"

(* spec.md: no duplicate external issuance.                                  *)
OneLiveDocument == \A i \in Invoices : \A k, l \in Keys :
    document[i][k] \in Live /\ document[i][l] \in Live => k = l

=============================================================================
