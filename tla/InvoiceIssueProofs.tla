------------------------- MODULE InvoiceIssueProofs -------------------------
(* Theorems about InvoiceIssue for all parts, handlers, keys and bounds.     *)
EXTENDS InvoiceIssue, TLAPS

USE BoundsAssumption, NoneAssumption

-----------------------------------------------------------------------------
(* Type correctness.                                                         *)

LEMMA RowType ==
    ASSUME NEW s \in InvoiceStatuses, NEW k \in Keys, NEW r \in Keys \cup {None},
           NEW n \in Keys, NEW v \in Nat
    PROVE  /\ Row(s, k, r, n, v) \in Rows
           /\ Row(s, k, r, n, v).status = s
           /\ Row(s, k, r, n, v).key = k
           /\ Row(s, k, r, n, v).receipt = r
           /\ Row(s, k, r, n, v).version = v
  BY DEF Row, Rows

LEMMA ViewType ==
    ASSUME NEW e \in Events \cup {None}, NEW i \in Invoices \cup {None}, NEW r \in Rows,
           NEW d \in DocumentStatuses, NEW g \in BOOLEAN, NEW t \in SUBSET (Invoices \X Rows)
    PROVE  View(e, i, r, d, g, t) \in Views
  BY DEF View, Views

LEMMA BlankType == Blank \in Rows /\ Nothing \in Views
<1>1. 0 \in Keys /\ "absent" \in InvoiceStatuses
  BY DEF Keys, InvoiceStatuses
<1>2. Blank \in Rows
  BY <1>1, RowType DEF Blank
<1>3. Nothing \in Views
  BY <1>2, ViewType DEF Nothing, DocumentStatuses
<1>. QED  BY <1>2, <1>3

(* The rows that are written.                                                *)
LEMMA WrittenType ==
    ASSUME NEW r \in Rows, NEW s \in InvoiceStatuses
    PROVE  /\ Moved(r, s) \in Rows /\ Receipted(r, s) \in Rows /\ Queued(r) \in Rows
           /\ Moved(r, s).version = r.version + 1 /\ Receipted(r, s).version = r.version + 1
           /\ Moved(r, s).status = s /\ Receipted(r, s).status = s
           /\ Moved(r, s).key = r.key /\ Receipted(r, s).key = r.key
           /\ Moved(r, s).receipt = r.receipt /\ Receipted(r, s).receipt = r.key
           /\ r.version \in Nat /\ r.key \in Keys /\ r.status \in InvoiceStatuses
           /\ r.retries \in Keys /\ r.receipt \in Keys \cup {None}
<1>1. /\ r.version \in Nat /\ r.key \in Keys /\ r.status \in InvoiceStatuses
      /\ r.retries \in Keys /\ r.receipt \in Keys \cup {None}
  BY DEF Rows
<1>2. "queued" \in InvoiceStatuses /\ r.version + 1 \in Nat
  BY <1>1 DEF InvoiceStatuses
<1>3. Moved(r, s) \in Rows /\ Receipted(r, s) \in Rows /\ Queued(r) \in Rows
  BY <1>1, <1>2, RowType DEF Moved, Receipted, Queued
<1>. QED  BY <1>1, <1>3 DEF Moved, Receipted, Row

LEMMA RetriedType ==
    ASSUME NEW r \in Rows, r.retries < MaxRetries
    PROVE  /\ Retried(r) \in Rows /\ Requeued(r) \in Rows
           /\ Retried(r).version = r.version + 1 /\ Requeued(r).version = r.version + 1
           /\ Retried(r).status = "queued" /\ Requeued(r).status = "queued"
           /\ Retried(r).receipt = None
           /\ Requeued(r).key = r.key /\ Requeued(r).receipt = r.receipt
           /\ r.retries + 1 \in Keys
<1>1. r.version \in Nat /\ r.key \in Keys /\ r.retries \in Keys /\ r.receipt \in Keys \cup {None}
  BY DEF Rows
<1>2. r.retries + 1 \in Keys /\ "queued" \in InvoiceStatuses /\ r.version + 1 \in Nat
  BY <1>1 DEF Keys, InvoiceStatuses
<1>3. Retried(r) \in Rows /\ Requeued(r) \in Rows
  BY <1>1, <1>2, RowType DEF Retried, Requeued
<1>. QED  BY <1>2, <1>3 DEF Retried, Requeued, Row

(* What handler p has in hand.                                               *)
LEMMA HeldType ==
    ASSUME TypeOK, NEW p \in Handlers
    PROVE  /\ view[p] \in Views
           /\ view[p].event \in Events \cup {None}
           /\ view[p].id \in Invoices \cup {None}
           /\ view[p].row \in Rows
           /\ view[p].result \in DocumentStatuses
           /\ view[p].guarded \in BOOLEAN
           /\ view[p].todo \in SUBSET (Invoices \X Rows)
           /\ Forget(view[p]) \in Views
           /\ \A r \in Rows, d \in DocumentStatuses : With(view[p], r, d) \in Views
<1>1. view[p] \in Views
  BY DEF TypeOK
<1>2. /\ view[p].event \in Events \cup {None}
      /\ view[p].id \in Invoices \cup {None}
      /\ view[p].row \in Rows
      /\ view[p].result \in DocumentStatuses
      /\ view[p].guarded \in BOOLEAN
      /\ view[p].todo \in SUBSET (Invoices \X Rows)
  BY <1>1 DEF Views
<1>3. \A r \in Rows, d \in DocumentStatuses : With(view[p], r, d) \in Views
  BY <1>2, ViewType DEF With
<1>4. Forget(view[p]) \in Views
  BY <1>3, BlankType DEF Forget, DocumentStatuses
<1>. QED  BY <1>1, <1>2, <1>3, <1>4

LEMMA GotoType ==
    ASSUME TypeOK, NEW p \in Handlers, NEW s \in Steps, NEW v \in Views, Goto(p, s, v)
    PROVE  /\ step' \in [Handlers -> Steps]
           /\ view' \in [Handlers -> Views]
  BY DEF TypeOK, Goto

LEMMA StopType ==
    ASSUME TypeOK, NEW p \in Handlers, Stop(p)
    PROVE  step' \in [Handlers -> Steps] /\ view' \in [Handlers -> Views]
  BY BlankType, GotoType DEF Stop, Steps

LEMMA ThrowType ==
    ASSUME TypeOK, NEW p \in Handlers, Throw(p)
    PROVE  step' \in [Handlers -> Steps] /\ view' \in [Handlers -> Views]
<1>1. CASE view[p].guarded
  BY <1>1, HeldType, GotoType DEF Throw, Steps
<1>2. CASE ~view[p].guarded
  BY <1>2, StopType DEF Throw
<1>. QED  BY <1>1, <1>2

LEMMA LeftType ==
    ASSUME TypeOK, NEW e \in Events
    PROVE  /\ Request(e) => left' \in [Events -> 0..MaxAttempts]
           /\ Try(e) /\ left[e] > 0 => left' \in [Events -> 0..MaxAttempts]
           /\ Complete(e) => left' \in [Events -> 0..MaxAttempts]
  BY DEF TypeOK, Request, Try, Complete

LEMMA ReturnType ==
    ASSUME TypeOK, NEW p \in Handlers, Return(p)
    PROVE  /\ step' \in [Handlers -> Steps] /\ view' \in [Handlers -> Views]
           /\ left' \in [Events -> 0..MaxAttempts]
<1>0. left \in [Events -> 0..MaxAttempts]
  BY DEF TypeOK
<1>1. CASE view[p].todo # {}
  <2>1. View(None, None, Blank, "none", FALSE, view[p].todo) \in Views
    BY HeldType, BlankType, ViewType DEF DocumentStatuses
  <2>2. Goto(p, "listed", View(None, None, Blank, "none", FALSE, view[p].todo)) /\ UNCHANGED left
    BY <1>1 DEF Return
  <2>. QED  BY <1>0, <2>1, <2>2, GotoType DEF Steps
<1>2. CASE view[p].todo = {}
  <2>1. Stop(p) /\ (Complete(view[p].event) \/ UNCHANGED left)
    BY <1>2 DEF Return
  <2>2. left' \in [Events -> 0..MaxAttempts]
    BY <1>0, <2>1, LeftType DEF Complete
  <2>. QED  BY <2>1, <2>2, StopType
<1>. QED  BY <1>1, <1>2

LEMMA StoreType ==
    ASSUME TypeOK, NEW i \in Invoices, NEW r \in Rows, Store(i, r)
    PROVE  invoice' \in [Invoices -> Rows]
  BY DEF TypeOK, Store

LEMMA DocumentType ==
    ASSUME TypeOK, NEW i \in Invoices, NEW k \in Keys, NEW d \in DocumentStatuses,
           SetDocument(i, k, d)
    PROVE  document' \in [Invoices -> [Keys -> DocumentStatuses]]
  BY DEF TypeOK, SetDocument

-----------------------------------------------------------------------------
(* The inductive invariant.  What a handler and a row rely on is stated of   *)
(* the invoices inv and documents doc of one state.                          *)

(* Row r of invoice i was read: it is the current one or an older version.   *)
Fresh(i, r, inv) ==
    /\ i \in Invoices
    /\ r.version <= inv[i].version
    /\ r.version = inv[i].version => r = inv[i]

Working == {"asking", "registering", "recovering", "confirming", "saving", "stating"}
Writing == {"saving", "pending", "settling"}
InFlight == {"queued", "issued", "nts_pending"}

(* A handler that works on a row was sent there by the row's status.         *)
Fits(s, r) ==
    /\ s \in Working => r.status = "queued"
    /\ s = "pending" => r.status = "issued"
    /\ s = "settling" => r.status = "nts_pending"
    /\ s = "checking" => r.status \in InFlight

(* A handler about to write has seen the document, and the outcome it holds  *)
(* is the provider's.                                                        *)
Backed(v, doc) ==
    /\ doc[v.id][v.row.key] # "none"
    /\ v.result \in Final => doc[v.id][v.row.key] = v.result

ListFresh(todo, inv) == \A t \in todo : Fresh(t[1], t[2], inv) /\ t[2].status \in Reconciled

Sound(s, v, inv, doc) ==
    /\ s \in Working \cup Writing \cup {"checking"} => Fresh(v.id, v.row, inv) /\ Fits(s, v.row)
    /\ s \in Writing => Backed(v, doc)
    /\ s \in {"locking", "caught"} => v.id \in Invoices
    /\ ListFresh(v.todo, inv)

(* Row r of an invoice whose documents are d.                                *)
Honest(r, d) ==
    /\ r.status = "absent" => r.version = 0
    /\ r.receipt # None => r.receipt = r.key /\ d[r.key] # "none"

Reported(r, d) ==
    /\ r.status \in {"issued", "nts_pending"} => d[r.key] # "none"
    /\ r.status = "nts_success" => d[r.key] = "success"
    /\ r.status = "cancelled" => d[r.key] = "cancelled"

NoDocuments == late = {} /\ \A i \in Invoices, k \in Keys : document[i][k] = "none"

(* Nothing happens before the drafts.                                        *)
Untouched ==
    (\A i \in Parts : invoice[i].status = "absent") =>
        /\ NoDocuments
        /\ \A i \in Invoices : invoice[i].status = "absent"
        /\ \A p \in Handlers : step[p] = "idle" /\ view[p] = Nothing

(* Internal statements never meet the provider, and nothing else is stated.  *)
Apart ==
    /\ Internal =>
        /\ NoDocuments
        /\ \A p \in Handlers : /\ step[p] \in {"idle", "stating", "locking"}
                               /\ view[p].guarded = FALSE
                               /\ view[p].todo = {}
    /\ ~Internal => \A p \in Handlers : step[p] # "stating"

HandlersSound == \A p \in Handlers : Sound(step[p], view[p], invoice, document)
RowsHonest == \A i \in Invoices : Honest(invoice[i], document[i])
RowsReported == ~Internal => \A i \in Invoices : Reported(invoice[i], document[i])

IInv ==
    /\ TypeOK
    /\ HandlersSound
    /\ RowsHonest
    /\ RowsReported
    /\ Untouched
    /\ Apart
    /\ LockedByWholeGroup

-----------------------------------------------------------------------------
(* Type correctness of every step.                                           *)

(* A handler at work has an invoice and a row of it in hand.                 *)
LEMMA AtWork ==
    ASSUME TypeOK, HandlersSound, NEW p \in Handlers,
           step[p] \in Working \cup Writing \cup {"checking"}
    PROVE  /\ view[p].id \in Invoices
           /\ view[p].row \in Rows
           /\ view[p].row.key \in Keys
           /\ Fresh(view[p].id, view[p].row, invoice)
           /\ Fits(step[p], view[p].row)
           /\ Document(p) \in DocumentStatuses
           /\ Document(p) = document[view[p].id][view[p].row.key]
<1>1. Fresh(view[p].id, view[p].row, invoice) /\ Fits(step[p], view[p].row)
  BY DEF HandlersSound, Sound
<1>2. view[p].id \in Invoices /\ view[p].row \in Rows /\ view[p].row.key \in Keys
  BY <1>1, HeldType, WrittenType DEF Fresh, InvoiceStatuses
<1>. QED  BY <1>1, <1>2 DEF TypeOK, Document

LEMMA FaultType ==
    ASSUME TypeOK, Fault
    PROVE  faults' \in 0..MaxFaults
  BY DEF TypeOK, Fault

LEMMA UpdateType ==
    ASSUME TypeOK, NEW p \in Handlers, NEW r \in Rows, NEW s \in Steps,
           view[p].id \in Invoices, Update(p, r, s)
    PROVE  /\ invoice' \in [Invoices -> Rows]
           /\ step' \in [Handlers -> Steps] /\ view' \in [Handlers -> Views]
<1>1. CASE Current(p)
  <2>1. Store(view[p].id, r)
    BY <1>1 DEF Update
  <2>2. Goto(p, s, Forget(view[p])) \/ Goto(p, s, With(view[p], r, view[p].result))
    BY <1>1 DEF Update
  <2>. QED  BY <2>1, <2>2, StoreType, GotoType, HeldType
<1>2. CASE ~Current(p)
  BY <1>2, ThrowType DEF Update, TypeOK
<1>. QED  BY <1>1, <1>2

LEMMA OfficeType ==
    ASSUME TypeOK, OfficeStep
    PROVE  TypeOK'
<1>0. /\ invoice \in [Invoices -> Rows] /\ left \in [Events -> 0..MaxAttempts]
      /\ issueType \in IssueTypes \cup {None}
      /\ 0 \in Keys
      /\ {"draft", "reviewed", "approved"} \subseteq InvoiceStatuses
  BY DEF TypeOK, Keys, InvoiceStatuses
<1>1. OfficeOnly => /\ settlement' \in {"approved", "locked"}
                    /\ document' \in [Invoices -> [Keys -> DocumentStatuses]]
                    /\ late' \subseteq Invoices \X Keys
                    /\ step' \in [Handlers -> Steps] /\ view' \in [Handlers -> Views]
                    /\ faults' \in 0..MaxFaults
  BY DEF OfficeOnly, TypeOK, provider
<1>2. Row("draft", 0, None, 0, 1) \in Rows
  BY <1>0, RowType
<1>3. CASE CreateInvoiceDraft
  <2>1. invoice' \in [Invoices -> Rows]
    BY <1>0, <1>2, <1>3 DEF CreateInvoiceDraft
  <2>. QED  BY <1>0, <1>1, <1>3, <2>1 DEF CreateInvoiceDraft, TypeOK
<1>4. ASSUME NEW m \in Modified, CreateModifiedInvoice(m)
      PROVE  TypeOK'
  <2>1. m \in Invoices
    BY DEF Invoices
  <2>2. Store(m, Row("draft", 0, None, 0, 1)) /\ UNCHANGED <<left, issueType>> /\ OfficeOnly
    BY <1>4 DEF CreateModifiedInvoice
  <2>. QED  BY <1>0, <1>1, <1>2, <2>1, <2>2, StoreType DEF TypeOK
<1>5. ASSUME NEW i \in Invoices, ReviewInvoice(i)
      PROVE  TypeOK'
  <2>1. Moved(invoice[i], "reviewed") \in Rows
    BY <1>0, WrittenType
  <2>2. /\ Store(i, Moved(invoice[i], "reviewed"))
        /\ UNCHANGED <<left, issueType>> /\ OfficeOnly
    BY <1>5 DEF ReviewInvoice
  <2>. QED  BY <1>0, <1>1, <2>1, <2>2, StoreType DEF TypeOK
<1>6. ASSUME NEW i \in Invoices, ApproveInvoice(i)
      PROVE  TypeOK'
  <2>1. Moved(invoice[i], "approved") \in Rows
    BY <1>0, WrittenType
  <2>2. /\ Store(i, Moved(invoice[i], "approved"))
        /\ Request(<<"issue", i, 0>>) /\ UNCHANGED issueType /\ OfficeOnly
    BY <1>6 DEF ApproveInvoice
  <2>3. left' \in [Events -> 0..MaxAttempts]
    BY <1>0, <2>2, LeftType DEF Events
  <2>. QED  BY <1>0, <1>1, <2>1, <2>2, <2>3, StoreType DEF TypeOK
<1>7. ASSUME NEW i \in Invoices, RetryInvoice(i)
      PROVE  TypeOK'
  <2>1. Retried(invoice[i]) \in Rows /\ invoice[i].retries + 1 \in Keys
    BY <1>0, <1>7, RetriedType DEF RetryInvoice
  <2>2. /\ Store(i, Retried(invoice[i]))
        /\ Request(<<"issue", i, invoice[i].retries + 1>>) /\ UNCHANGED issueType /\ OfficeOnly
    BY <1>7 DEF RetryInvoice
  <2>3. left' \in [Events -> 0..MaxAttempts]
    BY <1>0, <2>1, <2>2, LeftType DEF Events
  <2>. QED  BY <1>0, <1>1, <2>1, <2>2, <2>3, StoreType DEF TypeOK
<1>. QED  BY <1>3, <1>4, <1>5, <1>6, <1>7 DEF OfficeStep

LEMMA ProviderType ==
    ASSUME TypeOK, ProviderStep
    PROVE  TypeOK'
<1>1. ASSUME NEW i \in Invoices, NEW k \in Keys, TaxOfficeDecides(i, k)
      PROVE  TypeOK'
  <2>1. PICK d \in Final : SetDocument(i, k, d)
    BY <1>1 DEF TaxOfficeDecides
  <2>2. document' \in [Invoices -> [Keys -> DocumentStatuses]]
    BY <2>1, DocumentType DEF Final, DocumentStatuses
  <2>. QED  BY <1>1, <2>2 DEF TaxOfficeDecides, TypeOK, books
<1>2. ASSUME NEW i \in Invoices, NEW k \in Keys, LateRegistration(i, k)
      PROVE  TypeOK'
  <2>1. /\ late' \subseteq Invoices \X Keys
        /\ SetDocument(i, k, IF document[i][k] = "none" THEN "pending" ELSE document[i][k])
    BY <1>2 DEF LateRegistration, TypeOK
  <2>2. (IF document[i][k] = "none" THEN "pending" ELSE document[i][k]) \in DocumentStatuses
    BY DEF TypeOK, DocumentStatuses
  <2>3. document' \in [Invoices -> [Keys -> DocumentStatuses]]
    BY <2>1, <2>2, DocumentType
  <2>. QED  BY <1>2, <2>1, <2>3 DEF LateRegistration, TypeOK, books
<1>. QED  BY <1>1, <1>2 DEF ProviderStep

LEMMA StartType ==
    ASSUME TypeOK, NEW p \in Handlers, HandlerStarts(p) \/ ReconcilePendingInvoices(p)
    PROVE  TypeOK'
<1>0. /\ invoice \in [Invoices -> Rows] /\ left \in [Events -> 0..MaxAttempts]
      /\ document \in [Invoices -> [Keys -> DocumentStatuses]]
      /\ 0 \in Keys /\ "none" \in DocumentStatuses /\ "queued" \in InvoiceStatuses
      /\ Blank \in Rows
  BY BlankType DEF TypeOK, Keys, InvoiceStatuses, DocumentStatuses
<1>1. ASSUME NEW i \in Invoices, NEW k \in Keys, IssueTaxInvoice(p, i, k)
      PROVE  TypeOK'
  <2>1. <<"issue", i, k>> \in Events
    BY DEF Events
  <2>2. left' \in [Events -> 0..MaxAttempts] /\ UNCHANGED <<books, provider, faults>>
    BY <1>1, <2>1, LeftType DEF IssueTaxInvoice, Ready
  <2>3. \A w \in Rows, g \in BOOLEAN, s \in Steps :
            Goto(p, s, View(<<"issue", i, k>>, i, w, "none", g, {})) =>
                step' \in [Handlers -> Steps] /\ view' \in [Handlers -> Views]
    BY <1>0, <2>1, ViewType, GotoType
  <2>4. Queued(invoice[i]) \in Rows
    BY <1>0, WrittenType
  <2>5. CASE invoice[i].status = "approved"
    <3>1. /\ Store(i, Queued(invoice[i]))
          /\ Goto(p, "asking", View(<<"issue", i, k>>, i, Queued(invoice[i]), "none", TRUE, {}))
      BY <1>1, <2>5 DEF IssueTaxInvoice
    <3>2. step' \in [Handlers -> Steps] /\ view' \in [Handlers -> Views]
      BY <2>3, <2>4, <3>1 DEF Steps
    <3>. QED  BY <1>0, <2>2, <2>4, <3>1, <3>2, StoreType DEF TypeOK, books, provider
  <2>6. CASE invoice[i].status = "failed"
    <3>1. /\ Store(i, Requeued(invoice[i])) /\ invoice[i].retries < MaxRetries
          /\ Goto(p, "asking", View(<<"issue", i, k>>, i, Requeued(invoice[i]), "none", TRUE, {}))
      BY <1>1, <2>6 DEF IssueTaxInvoice
    <3>2. Requeued(invoice[i]) \in Rows
      BY <1>0, <3>1, RetriedType
    <3>3. step' \in [Handlers -> Steps] /\ view' \in [Handlers -> Views]
      BY <2>3, <3>1, <3>2 DEF Steps
    <3>. QED  BY <1>0, <2>2, <3>1, <3>2, <3>3, StoreType DEF TypeOK, books, provider
  <2>7. CASE invoice[i].status \notin {"approved", "failed"}
    <3>1. UNCHANGED invoice
      BY <1>1, <2>7 DEF IssueTaxInvoice
    <3>2. \/ Goto(p, "locking", View(<<"issue", i, k>>, i, Blank, "none", FALSE, {}))
          \/ Goto(p, "checking", View(<<"issue", i, k>>, i, invoice[i], "none", FALSE, {}))
          \/ Goto(p, "asking", View(<<"issue", i, k>>, i, invoice[i], "none", TRUE, {}))
          \/ Stop(p)
      BY <1>1, <2>7 DEF IssueTaxInvoice
    <3>3. step' \in [Handlers -> Steps] /\ view' \in [Handlers -> Views]
      BY <1>0, <2>3, <3>2, StopType DEF Steps
    <3>. QED  BY <2>2, <3>1, <3>3 DEF TypeOK, books, provider
  <2>. QED  BY <2>5, <2>6, <2>7
<1>2. ASSUME NEW i \in Invoices, NEW k \in Keys, ApplyWebhook(p, i, k)
      PROVE  TypeOK'
  <2>1. <<"webhook", i, k>> \in Events /\ document[i][k] \in DocumentStatuses
    BY <1>0 DEF Events
  <2>2. left' \in [Events -> 0..MaxAttempts] /\ UNCHANGED <<books, provider, faults>>
    <3>1. left[<<"webhook", i, k>>] > 0 /\ (Try(<<"webhook", i, k>>) \/ Complete(<<"webhook", i, k>>))
      BY <1>2 DEF ApplyWebhook, Ready
    <3>. QED  BY <1>2, <2>1, <3>1, LeftType DEF ApplyWebhook
  <2>3. \A w \in Rows, s \in Steps :
            Goto(p, s, View(<<"webhook", i, k>>, i, w, document[i][k], FALSE, {})) =>
                step' \in [Handlers -> Steps] /\ view' \in [Handlers -> Views]
    BY <2>1, ViewType, GotoType
  <2>4. Receipted(invoice[i], "queued") \in Rows
    BY <1>0, WrittenType
  <2>5. CASE Stop(p) /\ UNCHANGED invoice
    BY <2>2, <2>5, StopType DEF TypeOK, books, provider
  <2>6. CASE /\ UNCHANGED invoice
             /\ Goto(p, "locking", View(<<"webhook", i, k>>, i, Blank, document[i][k], FALSE, {}))
    <3>1. step' \in [Handlers -> Steps] /\ view' \in [Handlers -> Views]
      BY <1>0, <2>3, <2>6 DEF Steps
    <3>. QED  BY <2>2, <2>6, <3>1 DEF TypeOK, books, provider
  <2>7. CASE /\ Store(i, Receipted(invoice[i], "queued"))
             /\ Goto(p, "saving", View(<<"webhook", i, k>>, i, Receipted(invoice[i], "queued"),
                                       document[i][k], FALSE, {}))
    <3>1. step' \in [Handlers -> Steps] /\ view' \in [Handlers -> Views]
      BY <2>3, <2>4, <2>7 DEF Steps
    <3>. QED  BY <2>2, <2>4, <2>7, <3>1, StoreType DEF TypeOK, books, provider
  <2>8. CASE /\ UNCHANGED invoice
             /\ invoice[i].status \in InFlight
             /\ Goto(p, Resume(invoice[i]), View(<<"webhook", i, k>>, i, invoice[i],
                                                 document[i][k], FALSE, {}))
    <3>1. Resume(invoice[i]) \in Steps
      BY <2>8 DEF Resume, Steps, InFlight
    <3>2. step' \in [Handlers -> Steps] /\ view' \in [Handlers -> Views]
      BY <1>0, <2>3, <2>8, <3>1
    <3>. QED  BY <2>2, <2>8, <3>2 DEF TypeOK, books, provider
  <2>. QED  BY <1>2, <2>5, <2>6, <2>7, <2>8 DEF ApplyWebhook, InFlight
<1>3. ASSUME NEW i \in Invoices, IssueInternalStatement(p, i)
      PROVE  TypeOK'
  <2>1. <<"issue", i, 0>> \in Events
    BY <1>0 DEF Events
  <2>2. left' \in [Events -> 0..MaxAttempts] /\ UNCHANGED <<books, provider, faults>>
    BY <1>3, <2>1, LeftType DEF IssueInternalStatement, Ready
  <2>3. \A w \in Rows, s \in Steps :
            Goto(p, s, View(<<"issue", i, 0>>, i, w, "none", FALSE, {})) =>
                step' \in [Handlers -> Steps] /\ view' \in [Handlers -> Views]
    BY <1>0, <2>1, ViewType, GotoType
  <2>4. Queued(invoice[i]) \in Rows
    BY <1>0, WrittenType
  <2>5. CASE invoice[i].status = "approved"
    <3>1. /\ Store(i, Queued(invoice[i]))
          /\ Goto(p, "stating", View(<<"issue", i, 0>>, i, Queued(invoice[i]), "none", FALSE, {}))
      BY <1>3, <2>5 DEF IssueInternalStatement
    <3>2. step' \in [Handlers -> Steps] /\ view' \in [Handlers -> Views]
      BY <2>3, <2>4, <3>1 DEF Steps
    <3>. QED  BY <2>2, <2>4, <3>1, <3>2, StoreType DEF TypeOK, books, provider
  <2>6. CASE invoice[i].status # "approved"
    <3>1. /\ UNCHANGED invoice
          /\ \/ Goto(p, "locking", View(<<"issue", i, 0>>, i, Blank, "none", FALSE, {}))
             \/ Goto(p, "stating", View(<<"issue", i, 0>>, i, invoice[i], "none", FALSE, {}))
      BY <1>3, <2>6 DEF IssueInternalStatement
    <3>2. step' \in [Handlers -> Steps] /\ view' \in [Handlers -> Views]
      BY <1>0, <2>3, <3>1 DEF Steps
    <3>. QED  BY <2>2, <3>1, <3>2 DEF TypeOK, books, provider
  <2>. QED  BY <2>5, <2>6
<1>4. CASE ReconcilePendingInvoices(p)
  <2>. DEFINE listed == {i \in Invoices : invoice[i].status \in Reconciled}
  <2>1. {<<i, invoice[i]>> : i \in listed} \in SUBSET (Invoices \X Rows)
    BY <1>0
  <2>2. View(None, None, Blank, "none", FALSE, {<<i, invoice[i]>> : i \in listed}) \in Views
    BY <1>0, <2>1, ViewType
  <2>3. /\ Goto(p, "listed", View(None, None, Blank, "none", FALSE, {<<i, invoice[i]>> : i \in listed}))
        /\ UNCHANGED <<invoice, books, provider, left, faults>>
    BY <1>4 DEF ReconcilePendingInvoices
  <2>4. step' \in [Handlers -> Steps] /\ view' \in [Handlers -> Views]
    BY <2>2, <2>3, GotoType DEF Steps
  <2>. QED  BY <2>3, <2>4 DEF TypeOK, books, provider
<1>. QED  BY <1>1, <1>2, <1>3, <1>4 DEF HandlerStarts

(* A step that moves handler p and writes at most its invoice.               *)
LEMMA MoveType ==
    ASSUME TypeOK, NEW p \in Handlers,
           invoice' \in [Invoices -> Rows],
           document' \in [Invoices -> [Keys -> DocumentStatuses]],
           left' \in [Events -> 0..MaxAttempts],
           step' \in [Handlers -> Steps], view' \in [Handlers -> Views],
           late' \subseteq Invoices \X Keys,
           faults' \in 0..MaxFaults,
           UNCHANGED books
    PROVE  TypeOK'
  BY DEF TypeOK, books

LEMMA CallType ==
    ASSUME TypeOK, HandlersSound, NEW p \in Handlers,
           \/ Asked(p) \/ Registered(p) \/ Recovered(p) \/ Confirmed(p) \/ Caught(p)
           \/ StatusChecked(p)
    PROVE  TypeOK'
<1>0. /\ invoice \in [Invoices -> Rows] /\ left \in [Events -> 0..MaxAttempts]
      /\ document \in [Invoices -> [Keys -> DocumentStatuses]]
      /\ late \subseteq Invoices \X Keys /\ faults \in 0..MaxFaults
  BY DEF TypeOK
<1>1. CASE Asked(p)
  <2>1. Document(p) \in DocumentStatuses
    BY <1>1, AtWork DEF Asked, Working
  <2>2. step' \in [Handlers -> Steps] /\ view' \in [Handlers -> Views]
    BY <1>1, <2>1, HeldType, GotoType, ThrowType DEF Asked, Steps
  <2>. QED  BY <1>0, <1>1, <2>2, MoveType DEF Asked, provider
<1>2. CASE Registered(p)
  <2>1. view[p].id \in Invoices /\ view[p].row.key \in Keys
    BY <1>2, AtWork DEF Registered, Working
  <2>2. step' \in [Handlers -> Steps] /\ view' \in [Handlers -> Views]
    BY <1>2, HeldType, GotoType DEF Registered, Steps
  <2>3. document' \in [Invoices -> [Keys -> DocumentStatuses]]
    BY <1>0, <1>2, <2>1, DocumentType DEF Registered, DocumentStatuses
  <2>. QED  BY <1>0, <1>2, <2>2, <2>3, MoveType DEF Registered
<1>3. CASE Recovered(p)
  <2>1. Document(p) \in DocumentStatuses
    BY <1>3, AtWork DEF Recovered, Working
  <2>2. step' \in [Handlers -> Steps] /\ view' \in [Handlers -> Views]
    BY <1>3, <2>1, HeldType, GotoType, StopType DEF Recovered, Steps
  <2>. QED  BY <1>0, <1>3, <2>2, MoveType DEF Recovered, provider
<1>4. CASE Confirmed(p)
  <2>1. Document(p) \in DocumentStatuses
    BY <1>4, AtWork DEF Confirmed, Working
  <2>2. step' \in [Handlers -> Steps] /\ view' \in [Handlers -> Views]
    BY <1>4, <2>1, HeldType, GotoType, ThrowType DEF Confirmed, Steps
  <2>. QED  BY <1>0, <1>4, <2>2, MoveType DEF Confirmed, provider
<1>5. CASE Caught(p)
  <2>1. view[p].id \in Invoices
    BY <1>5 DEF Caught, HandlersSound, Sound
  <2>2. Moved(invoice[view[p].id], "failed") \in Rows
    BY <1>0, <2>1, WrittenType DEF InvoiceStatuses
  <2>3. invoice' \in [Invoices -> Rows]
    BY <1>0, <1>5, <2>1, <2>2, StoreType DEF Caught
  <2>4. step' \in [Handlers -> Steps] /\ view' \in [Handlers -> Views]
    BY <1>5, StopType DEF Caught
  <2>. QED  BY <1>0, <1>5, <2>3, <2>4, MoveType DEF Caught, provider
<1>6. CASE StatusChecked(p)
  <2>1. /\ Document(p) \in DocumentStatuses /\ view[p].row \in Rows
        /\ view[p].row.status \in InFlight
    BY <1>6, AtWork DEF StatusChecked, Fits
  <2>2. Resume(view[p].row) \in Steps
    BY <2>1 DEF Resume, Steps, InFlight
  <2>3. With(view[p], view[p].row, Document(p)) \in Views
    BY <2>1, HeldType
  <2>4. \/ Return(p)
        \/ /\ Goto(p, Resume(view[p].row), With(view[p], view[p].row, Document(p)))
           /\ UNCHANGED left
    BY <1>6 DEF StatusChecked
  <2>5. /\ step' \in [Handlers -> Steps] /\ view' \in [Handlers -> Views]
        /\ left' \in [Events -> 0..MaxAttempts]
    BY <1>0, <2>2, <2>3, <2>4, GotoType, ReturnType
  <2>. QED  BY <1>0, <1>6, <2>5, MoveType DEF StatusChecked, provider
<1>. QED  BY <1>1, <1>2, <1>3, <1>4, <1>5, <1>6

LEMMA WriteType ==
    ASSUME TypeOK, HandlersSound, NEW p \in Handlers,
           \/ SaveIssued(p) \/ SavePending(p) \/ SettleSuccess(p) \/ SettleRefused(p)
           \/ SaveStatement(p)
    PROVE  TypeOK'
<1>0. /\ invoice \in [Invoices -> Rows] /\ left \in [Events -> 0..MaxAttempts]
      /\ document \in [Invoices -> [Keys -> DocumentStatuses]]
      /\ late \subseteq Invoices \X Keys /\ faults \in 0..MaxFaults
  BY DEF TypeOK
<1>1. view[p].id \in Invoices /\ view[p].row \in Rows
  BY AtWork DEF SaveIssued, SavePending, SettleSuccess, SettleRefused, SaveStatement,
                Working, Writing
<1>2. \A s \in InvoiceStatuses : Moved(view[p].row, s) \in Rows /\ Receipted(view[p].row, s) \in Rows
  BY <1>1, WrittenType
<1>3. {"issued", "nts_pending", "nts_success", "failed", "cancelled"} \subseteq InvoiceStatuses
  BY DEF InvoiceStatuses
<1>4. CASE SettleRefused(p)
  <2>1. view[p].result \in InvoiceStatuses
    BY <1>3, <1>4 DEF SettleRefused
  <2>2. \/ Store(view[p].id, Receipted(view[p].row, view[p].result)) /\ Return(p)
        \/ Throw(p) /\ UNCHANGED <<invoice, left>>
    BY <1>4 DEF SettleRefused
  <2>3. /\ invoice' \in [Invoices -> Rows] /\ left' \in [Events -> 0..MaxAttempts]
        /\ step' \in [Handlers -> Steps] /\ view' \in [Handlers -> Views]
    BY <1>0, <1>1, <1>2, <2>1, <2>2, StoreType, ReturnType, ThrowType
  <2>. QED  BY <1>0, <1>4, <2>3, MoveType DEF SettleRefused, provider
<1>5. CASE SaveIssued(p)
  <2>1. /\ invoice' \in [Invoices -> Rows]
        /\ step' \in [Handlers -> Steps] /\ view' \in [Handlers -> Views]
    BY <1>1, <1>2, <1>3, <1>5, UpdateType DEF SaveIssued, Steps
  <2>. QED  BY <1>0, <1>5, <2>1, MoveType DEF SaveIssued, provider
<1>6. CASE SavePending(p)
  <2>1. /\ invoice' \in [Invoices -> Rows]
        /\ step' \in [Handlers -> Steps] /\ view' \in [Handlers -> Views]
    BY <1>1, <1>2, <1>3, <1>6, UpdateType DEF SavePending, Steps
  <2>. QED  BY <1>0, <1>6, <2>1, MoveType DEF SavePending, provider
<1>7. CASE SettleSuccess(p)
  <2>1. /\ invoice' \in [Invoices -> Rows]
        /\ step' \in [Handlers -> Steps] /\ view' \in [Handlers -> Views]
    BY <1>1, <1>2, <1>3, <1>7, UpdateType DEF SettleSuccess, Steps
  <2>. QED  BY <1>0, <1>7, <2>1, MoveType DEF SettleSuccess, provider
<1>8. CASE SaveStatement(p)
  <2>1. /\ invoice' \in [Invoices -> Rows]
        /\ step' \in [Handlers -> Steps] /\ view' \in [Handlers -> Views]
    BY <1>1, <1>2, <1>3, <1>8, UpdateType DEF SaveStatement, Steps
  <2>. QED  BY <1>0, <1>8, <2>1, MoveType DEF SaveStatement, provider
<1>. QED  BY <1>4, <1>5, <1>6, <1>7, <1>8

LEMMA EndType ==
    ASSUME TypeOK, HandlersSound, NEW p \in Handlers,
           \/ SettleLater(p) \/ LockSettlement(p)
           \/ \E todo \in view[p].todo : ReconcileInvoice(p, todo[1], todo[2])
    PROVE  TypeOK'
<1>1. CASE SettleLater(p)
  BY <1>1, ReturnType DEF SettleLater, TypeOK, books, provider
<1>2. CASE LockSettlement(p)
  BY <1>2, ReturnType DEF LockSettlement, TypeOK, provider
<1>3. ASSUME NEW t \in view[p].todo, ReconcileInvoice(p, t[1], t[2])
      PROVE  TypeOK'
  <2>1. t[1] \in Invoices /\ t[2] \in Rows
        /\ view[p].todo \ {<<t[1], t[2]>>} \in SUBSET (Invoices \X Rows)
    BY HeldType
  <2>2. View(None, t[1], t[2], "none", FALSE, view[p].todo \ {<<t[1], t[2]>>}) \in Views
    BY <2>1, ViewType DEF DocumentStatuses
  <2>3. /\ \/ Goto(p, "locking", View(None, t[1], t[2], "none", FALSE, view[p].todo \ {<<t[1], t[2]>>}))
           \/ Goto(p, "checking", View(None, t[1], t[2], "none", FALSE, view[p].todo \ {<<t[1], t[2]>>}))
        /\ UNCHANGED <<invoice, books, provider, left, faults>>
    BY <1>3 DEF ReconcileInvoice
  <2>4. step' \in [Handlers -> Steps] /\ view' \in [Handlers -> Views]
    BY <2>2, <2>3, GotoType DEF Steps
  <2>. QED  BY <2>3, <2>4 DEF TypeOK, books, provider
<1>. QED  BY <1>1, <1>2, <1>3

LEMMA FailType ==
    ASSUME TypeOK, HandlersSound, NEW p \in Handlers, HandlerFails(p)
    PROVE  TypeOK'
<1>0. /\ invoice \in [Invoices -> Rows] /\ left \in [Events -> 0..MaxAttempts]
      /\ document \in [Invoices -> [Keys -> DocumentStatuses]]
      /\ late \subseteq Invoices \X Keys /\ faults \in 0..MaxFaults
  BY DEF TypeOK
<1>1. CASE RegistrationRejected(p)
  BY <1>1, ThrowType DEF RegistrationRejected, TypeOK, books, provider
<1>2. CASE RegistrationUncertain(p)
  <2>1. view[p].id \in Invoices /\ view[p].row.key \in Keys
    BY <1>2, AtWork DEF RegistrationUncertain, Working
  <2>2. step' \in [Handlers -> Steps] /\ view' \in [Handlers -> Views]
    BY <1>2, HeldType, GotoType DEF RegistrationUncertain, Steps
  <2>3. \/ SetDocument(view[p].id, view[p].row.key, "pending") /\ UNCHANGED late
        \/ late' = late \cup {<<view[p].id, view[p].row.key>>} /\ UNCHANGED document
        \/ UNCHANGED provider
    BY <1>2 DEF RegistrationUncertain
  <2>4. document' \in [Invoices -> [Keys -> DocumentStatuses]] /\ late' \subseteq Invoices \X Keys
    BY <1>0, <2>1, <2>3, DocumentType DEF provider, DocumentStatuses
  <2>. QED  BY <1>0, <1>2, <2>2, <2>4, MoveType, FaultType DEF RegistrationUncertain
<1>3. CASE OutcomeUnknown(p)
  <2>1. view[p].id \in Invoices /\ view[p].row.key \in Keys
    BY <1>3, AtWork DEF OutcomeUnknown, Working
  <2>2. step' \in [Handlers -> Steps] /\ view' \in [Handlers -> Views]
    BY <1>3, StopType DEF OutcomeUnknown
  <2>3. late' \subseteq Invoices \X Keys
    BY <1>0, <1>3, <2>1 DEF OutcomeUnknown
  <2>. QED  BY <1>0, <1>3, <2>2, <2>3, MoveType, FaultType DEF OutcomeUnknown
<1>4. CASE Fails(p)
  BY <1>4, ThrowType, FaultType DEF Fails, TypeOK, books, provider
<1>5. CASE Crash(p)
  BY <1>5, StopType, FaultType DEF Crash, TypeOK, books, provider
<1>. QED  BY <1>1, <1>2, <1>3, <1>4, <1>5 DEF HandlerFails

LEMMA StepType ==
    ASSUME TypeOK, HandlersSound, Next
    PROVE  TypeOK'
  BY OfficeType, ProviderType, StartType, CallType, WriteType, EndType, FailType
  DEF Next, HandlerStep

-----------------------------------------------------------------------------
(* What a step may do to what others rely on: a row that is written gets a   *)
(* greater version, documents stay, and final ones do not change.            *)

Grows(inv, inv2) == \A i \in Invoices :
    inv2[i] = inv[i] \/ inv2[i].version > inv[i].version

Stays(doc, doc2) == \A i \in Invoices, k \in Keys :
    /\ doc[i][k] # "none" => doc2[i][k] # "none"
    /\ doc[i][k] \in Final => doc2[i][k] = doc[i][k]

Kept ==
    /\ Grows(invoice, invoice')
    /\ Stays(document, document')
    /\ HandlersSound'
    /\ RowsHonest'
    /\ RowsReported'

(* Rows read earlier remain usable as versions grow.                         *)
LEMMA FreshGrows ==
    ASSUME NEW inv \in [Invoices -> Rows], NEW inv2 \in [Invoices -> Rows],
           Grows(inv, inv2), NEW i, NEW r \in Rows, Fresh(i, r, inv)
    PROVE  Fresh(i, r, inv2)
<1>1. i \in Invoices /\ inv[i] \in Rows /\ inv2[i] \in Rows
  BY DEF Fresh
<1>2. r.version \in Nat /\ inv[i].version \in Nat /\ inv2[i].version \in Nat
  BY <1>1 DEF Rows
<1>3. CASE inv2[i] = inv[i]
  BY <1>3 DEF Fresh
<1>4. CASE inv2[i].version > inv[i].version
  BY <1>1, <1>2, <1>4 DEF Fresh
<1>. QED  BY <1>1, <1>3, <1>4 DEF Grows

LEMMA SoundGrows ==
    ASSUME NEW inv \in [Invoices -> Rows], NEW inv2 \in [Invoices -> Rows],
           NEW doc, NEW doc2, Grows(inv, inv2), Stays(doc, doc2),
           NEW s, NEW v \in Views, Sound(s, v, inv, doc)
    PROVE  Sound(s, v, inv2, doc2)
<1>1. v.row \in Rows /\ v.row.key \in Keys /\ v.todo \in SUBSET (Invoices \X Rows)
  BY DEF Views, Rows
<1>2. s \in Working \cup Writing \cup {"checking"} => Fresh(v.id, v.row, inv2) /\ Fits(s, v.row)
  BY <1>1, FreshGrows DEF Sound
<1>3. s \in Writing => Backed(v, doc2)
  BY <1>1 DEF Sound, Backed, Stays, Fresh
<1>4. ListFresh(v.todo, inv2)
  <2>1. \A t \in v.todo : t[2] \in Rows
    BY <1>1
  <2>. QED  BY <2>1, FreshGrows DEF Sound, ListFresh
<1>. QED  BY <1>2, <1>3, <1>4 DEF Sound

LEMMA RowGrows ==
    ASSUME NEW r \in Rows, NEW d, NEW d2,
           \A k \in Keys : /\ d[k] # "none" => d2[k] # "none"
                           /\ d[k] \in Final => d2[k] = d[k]
    PROVE  /\ Honest(r, d) => Honest(r, d2)
           /\ Reported(r, d) => Reported(r, d2)
<1>1. r.key \in Keys
  BY DEF Rows
<1>. QED  BY <1>1 DEF Honest, Reported, Final

(* Unchanged rows and documents.                                             *)
LEMMA Same ==
    ASSUME TypeOK
    PROVE  /\ UNCHANGED invoice => Grows(invoice, invoice')
           /\ UNCHANGED document => Stays(document, document')
  BY DEF Grows, Stays

LEMMA StoreGrows ==
    ASSUME TypeOK, NEW i \in Invoices, NEW r \in Rows, Store(i, r),
           r.version > invoice[i].version
    PROVE  Grows(invoice, invoice')
  BY DEF TypeOK, Store, Grows

LEMMA DocumentStays ==
    ASSUME TypeOK, NEW i \in Invoices, NEW k \in Keys, NEW d \in DocumentStatuses,
           SetDocument(i, k, d), document[i][k] \notin Final, d # "none"
    PROVE  Stays(document, document')
  BY DEF TypeOK, SetDocument, Stays

(* Handlers that do not move rely on nothing that a step can change.         *)
LEMMA OthersSound ==
    ASSUME TypeOK, TypeOK', HandlersSound, Grows(invoice, invoice'), Stays(document, document'),
           NEW q \in Handlers, step'[q] = step[q], view'[q] = view[q]
    PROVE  Sound(step'[q], view'[q], invoice', document')
<1>1. /\ invoice \in [Invoices -> Rows] /\ invoice' \in [Invoices -> Rows]
      /\ view[q] \in Views
  BY DEF TypeOK
<1>2. Sound(step[q], view[q], invoice, document)
  BY DEF HandlersSound
<1>3. Sound(step[q], view[q], invoice', document')
  BY <1>1, <1>2, SoundGrows
<1>. QED  BY <1>3

LEMMA GoSound ==
    ASSUME TypeOK, TypeOK', HandlersSound, Grows(invoice, invoice'), Stays(document, document'),
           NEW p \in Handlers, NEW s, NEW v, Goto(p, s, v),
           Sound(s, v, invoice', document')
    PROVE  HandlersSound'
<1>1. step'[p] = s /\ view'[p] = v
  BY DEF TypeOK, Goto
<1>2. ASSUME NEW q \in Handlers, q # p
      PROVE  step'[q] = step[q] /\ view'[q] = view[q]
  BY <1>2 DEF TypeOK, Goto
<1>3. ASSUME NEW q \in Handlers
      PROVE  Sound(step'[q], view'[q], invoice', document')
  BY <1>1, <1>2, OthersSound
<1>. QED  BY <1>3 DEF HandlersSound

LEMMA StopSound ==
    ASSUME TypeOK, TypeOK', HandlersSound, Grows(invoice, invoice'), Stays(document, document'),
           NEW p \in Handlers, Stop(p)
    PROVE  HandlersSound'
<1>1. Sound("idle", Nothing, invoice', document')
  BY DEF Sound, Nothing, View, Working, Writing, ListFresh
<1>. QED  BY <1>1, GoSound DEF Stop

(* What handler p may still have listed.                                     *)
LEMMA TodoSound ==
    ASSUME TypeOK, TypeOK', HandlersSound, Grows(invoice, invoice'), NEW p \in Handlers
    PROVE  ListFresh(view[p].todo, invoice) /\ ListFresh(view[p].todo, invoice')
<1>1. ListFresh(view[p].todo, invoice)
  BY DEF HandlersSound, Sound
<1>2. /\ invoice \in [Invoices -> Rows] /\ invoice' \in [Invoices -> Rows]
      /\ \A t \in view[p].todo : t[2] \in Rows
  BY HeldType DEF TypeOK
<1>. QED  BY <1>1, <1>2, FreshGrows DEF ListFresh

LEMMA ThrowSound ==
    ASSUME TypeOK, TypeOK', HandlersSound, Grows(invoice, invoice'), Stays(document, document'),
           NEW p \in Handlers, view[p].id \in Invoices, Throw(p)
    PROVE  HandlersSound'
<1>1. Sound("caught", Forget(view[p]), invoice', document')
  BY TodoSound DEF Sound, Forget, With, View, Working, Writing
<1>. QED  BY <1>1, GoSound, StopSound DEF Throw

LEMMA ReturnSound ==
    ASSUME TypeOK, TypeOK', HandlersSound, Grows(invoice, invoice'), Stays(document, document'),
           NEW p \in Handlers, Return(p)
    PROVE  HandlersSound'
<1>1. Sound("listed", View(None, None, Blank, "none", FALSE, view[p].todo), invoice', document')
  BY TodoSound DEF Sound, View, Working, Writing
<1>. QED  BY <1>1, GoSound, StopSound DEF Return

(* Rows that are not written stay honest.                                    *)
LEMMA RowsKept ==
    ASSUME TypeOK, RowsHonest, RowsReported, Stays(document, document'),
           UNCHANGED <<invoice, issueType>>
    PROVE  RowsHonest' /\ RowsReported'
<1>1. ASSUME NEW i \in Invoices
      PROVE  /\ Honest(invoice[i], document[i]) => Honest(invoice'[i], document'[i])
             /\ Reported(invoice[i], document[i]) => Reported(invoice'[i], document'[i])
  BY RowGrows DEF TypeOK, Stays
<1>. QED  BY <1>1 DEF RowsHonest, RowsReported, Internal

LEMMA StoreKept ==
    ASSUME TypeOK, RowsHonest, RowsReported, UNCHANGED <<document, issueType>>,
           NEW i \in Invoices, NEW r \in Rows, Store(i, r),
           Honest(r, document[i]), ~Internal => Reported(r, document[i])
    PROVE  RowsHonest' /\ RowsReported'
<1>1. \A j \in Invoices : invoice'[j] = IF j = i THEN r ELSE invoice[j]
  BY DEF TypeOK, Store
<1>. QED  BY <1>1 DEF RowsHonest, RowsReported, Internal

-----------------------------------------------------------------------------
(* Every step keeps what handlers and rows rely on.                          *)

LEMMA QuietSound ==
    ASSUME TypeOK, TypeOK', HandlersSound, Grows(invoice, invoice'), Stays(document, document'),
           UNCHANGED <<step, view>>
    PROVE  HandlersSound'
  BY OthersSound DEF HandlersSound

(* The office writes the invoice as it is, with the next version.            *)
LEMMA OfficeStoreKept ==
    ASSUME IInv, TypeOK', NEW i \in Invoices, NEW r \in Rows, Store(i, r),
           r.version > invoice[i].version, UNCHANGED issueType, OfficeOnly,
           Honest(r, document[i]), Reported(r, document[i])
    PROVE  Kept
<1>1. Grows(invoice, invoice') /\ Stays(document, document')
  BY StoreGrows, Same DEF IInv, OfficeOnly, provider
<1>2. HandlersSound'
  BY <1>1, QuietSound DEF IInv, OfficeOnly
<1>3. RowsHonest' /\ RowsReported'
  BY StoreKept DEF IInv, OfficeOnly, provider
<1>. QED  BY <1>1, <1>2, <1>3 DEF Kept

LEMMA OfficeKept ==
    ASSUME IInv, TypeOK', OfficeStep
    PROVE  Kept
<1>0. /\ TypeOK /\ \A i \in Invoices : invoice[i] \in Rows /\ Honest(invoice[i], document[i])
      /\ 0 \in Keys /\ {"draft", "reviewed", "approved"} \subseteq InvoiceStatuses
  BY DEF IInv, TypeOK, RowsHonest, Keys, InvoiceStatuses
<1>1. /\ Row("draft", 0, None, 0, 1) \in Rows
      /\ Row("draft", 0, None, 0, 1).version = 1
      /\ \A d : /\ Honest(Row("draft", 0, None, 0, 1), d)
                /\ Reported(Row("draft", 0, None, 0, 1), d)
  BY <1>0, RowType DEF Row, Honest, Reported
<1>2. CASE CreateInvoiceDraft
  <2>1. \A i \in Invoices : invoice[i].status = "absent"
    BY <1>2 DEF CreateInvoiceDraft, IInv, Untouched
  <2>2. /\ \A i \in Invoices : invoice'[i] = Row("draft", 0, None, 0, 1) \/ invoice'[i] = invoice[i]
        /\ UNCHANGED <<document, step, view>>
    BY <1>2 DEF CreateInvoiceDraft, OfficeOnly, provider
  <2>3. \A i \in Invoices : invoice[i].version = 0
    BY <1>0, <2>1 DEF Honest
  <2>4. Grows(invoice, invoice') /\ Stays(document, document')
    BY <1>0, <1>1, <2>2, <2>3, Same DEF Grows
  <2>5. RowsHonest'
    BY <1>0, <1>1, <2>2 DEF RowsHonest
  <2>6. RowsReported'
    BY <1>1, <2>1, <2>2 DEF RowsReported, Reported
  <2>. QED  BY <1>0, <2>2, <2>4, <2>5, <2>6, QuietSound DEF Kept, IInv
<1>3. ASSUME NEW m \in Modified, CreateModifiedInvoice(m)
      PROVE  Kept
  <2>1. m \in Invoices /\ invoice[m].version = 0
    BY <1>0, <1>3 DEF Invoices, CreateModifiedInvoice, Honest
  <2>. QED  BY <1>1, <1>3, <2>1, OfficeStoreKept DEF CreateModifiedInvoice
<1>4. ASSUME NEW i \in Invoices, ReviewInvoice(i)
      PROVE  Kept
  <2>. DEFINE r == Moved(invoice[i], "reviewed")
  <2>0. invoice[i] \in Rows /\ "reviewed" \in InvoiceStatuses
    BY <1>0
  <2>1. /\ r \in Rows /\ r.version = invoice[i].version + 1 /\ invoice[i].version \in Nat
        /\ r.status = "reviewed" /\ r.key = invoice[i].key /\ r.receipt = invoice[i].receipt
    BY ONLY <2>0, WrittenType, BoundsAssumption, NoneAssumption
  <2>2. Honest(r, document[i]) /\ Reported(r, document[i])
    BY <1>0, <2>1 DEF Honest, Reported
  <2>3. r.version > invoice[i].version
    BY <2>1
  <2>. QED  BY <1>4, <2>1, <2>2, <2>3, OfficeStoreKept DEF ReviewInvoice
<1>5. ASSUME NEW i \in Invoices, ApproveInvoice(i)
      PROVE  Kept
  <2>. DEFINE r == Moved(invoice[i], "approved")
  <2>0. invoice[i] \in Rows /\ "approved" \in InvoiceStatuses
    BY <1>0
  <2>1. /\ r \in Rows /\ r.version = invoice[i].version + 1 /\ invoice[i].version \in Nat
        /\ r.status = "approved" /\ r.key = invoice[i].key /\ r.receipt = invoice[i].receipt
    BY ONLY <2>0, WrittenType, BoundsAssumption, NoneAssumption
  <2>2. Honest(r, document[i]) /\ Reported(r, document[i])
    BY <1>0, <2>1 DEF Honest, Reported
  <2>3. r.version > invoice[i].version
    BY <2>1
  <2>. QED  BY <1>5, <2>1, <2>2, <2>3, OfficeStoreKept DEF ApproveInvoice
<1>6. ASSUME NEW i \in Invoices, RetryInvoice(i)
      PROVE  Kept
  <2>. DEFINE r == Retried(invoice[i])
  <2>1. r \in Rows /\ r.version > invoice[i].version
    <3>1. invoice[i] \in Rows /\ invoice[i].retries < MaxRetries
      BY <1>0, <1>6 DEF RetryInvoice
    <3>2. r \in Rows /\ r.version = invoice[i].version + 1
      BY <3>1, RetriedType
    <3>. QED  BY <3>1, <3>2 DEF Rows
  <2>2. Honest(r, document[i]) /\ Reported(r, document[i])
    BY <1>0, <1>6, RetriedType DEF Honest, Reported, RetryInvoice
  <2>. QED  BY <1>6, <2>1, <2>2, OfficeStoreKept DEF RetryInvoice
<1>. QED  BY <1>2, <1>3, <1>4, <1>5, <1>6 DEF OfficeStep

LEMMA ProviderKept ==
    ASSUME IInv, TypeOK', ProviderStep
    PROVE  Kept
<1>1. PICK i \in Invoices, k \in Keys : TaxOfficeDecides(i, k) \/ LateRegistration(i, k)
  BY DEF ProviderStep
<1>2. UNCHANGED <<invoice, issueType, step, view>>
  BY <1>1 DEF TaxOfficeDecides, LateRegistration, books
<1>3. Stays(document, document')
  <2>1. CASE TaxOfficeDecides(i, k)
    <3>1. PICK d \in Final : SetDocument(i, k, d)
      BY <2>1 DEF TaxOfficeDecides
    <3>. QED  BY <2>1, <3>1, DocumentStays DEF IInv, TaxOfficeDecides, Final, DocumentStatuses
  <2>2. CASE LateRegistration(i, k)
    <3>1. CASE document[i][k] = "none"
      BY <2>2, <3>1, DocumentStays DEF IInv, LateRegistration, Final, DocumentStatuses
    <3>2. CASE document[i][k] # "none"
      BY <2>2, <3>2 DEF LateRegistration, SetDocument, IInv, TypeOK, Stays
    <3>. QED  BY <3>1, <3>2
  <2>. QED  BY <1>1, <2>1, <2>2
<1>4. Grows(invoice, invoice')
  BY <1>2, Same DEF IInv
<1>5. HandlersSound'
  BY <1>2, <1>3, <1>4, QuietSound DEF IInv
<1>6. RowsHonest' /\ RowsReported'
  BY <1>2, <1>3, RowsKept DEF IInv
<1>. QED  BY <1>3, <1>4, <1>5, <1>6 DEF Kept

(* A handler that writes no invoice.                                         *)
LEMMA HandKept ==
    ASSUME IInv, TypeOK', UNCHANGED <<invoice, issueType>>, Stays(document, document'),
           NEW p \in Handlers,
           \/ Stop(p)
           \/ Return(p)
           \/ view[p].id \in Invoices /\ Throw(p)
           \/ \E s \in Steps, v \in Views : Goto(p, s, v) /\ Sound(s, v, invoice, document')
    PROVE  Kept
<1>1. Grows(invoice, invoice') /\ TypeOK /\ HandlersSound
  BY Same DEF IInv
<1>2. HandlersSound'
  <2>1. ASSUME NEW s \in Steps, NEW v \in Views, Goto(p, s, v), Sound(s, v, invoice, document')
        PROVE  HandlersSound'
    BY <1>1, <2>1, GoSound
  <2>. QED  BY <1>1, <2>1, StopSound, ReturnSound, ThrowSound
<1>3. RowsHonest' /\ RowsReported'
  BY RowsKept DEF IInv
<1>. QED  BY <1>1, <1>2, <1>3 DEF Kept

(* A handler that writes an invoice.                                         *)
LEMMA WriterKept ==
    ASSUME IInv, TypeOK', UNCHANGED <<document, issueType>>, NEW p \in Handlers,
           NEW i \in Invoices, NEW r \in Rows, Store(i, r), r.version = invoice[i].version + 1,
           Honest(r, document[i]), ~Internal => Reported(r, document[i]),
           \/ Stop(p)
           \/ Return(p)
           \/ \E s \in Steps, v \in Views : Goto(p, s, v) /\ Sound(s, v, invoice', document)
    PROVE  Kept
<1>0. invoice[i] \in Rows
  BY DEF IInv, TypeOK
<1>1. TypeOK /\ HandlersSound /\ r.version > invoice[i].version
  BY <1>0 DEF IInv, Rows
<1>2. Grows(invoice, invoice') /\ Stays(document, document')
  BY <1>1, Same, StoreGrows
<1>3. HandlersSound'
  <2>1. ASSUME NEW s \in Steps, NEW v \in Views, Goto(p, s, v), Sound(s, v, invoice', document)
        PROVE  HandlersSound'
    BY <1>1, <1>2, <2>1, GoSound
  <2>. QED  BY <1>1, <1>2, <2>1, StopSound, ReturnSound
<1>4. RowsHonest' /\ RowsReported'
  BY StoreKept DEF IInv
<1>. QED  BY <1>2, <1>3, <1>4 DEF Kept

(* Handlers that begin to work on a row they just read or wrote.             *)
LEMMA BeginSound ==
    ASSUME NEW inv \in [Invoices -> Rows], NEW doc, NEW e, NEW i \in Invoices,
           NEW d, NEW g, NEW w \in Rows
    PROVE  /\ Sound("locking", View(e, i, w, d, g, {}), inv, doc)
           /\ w = inv[i] /\ w.status = "queued" => Sound("asking", View(e, i, w, d, g, {}), inv, doc)
           /\ w = inv[i] /\ w.status = "queued" => Sound("stating", View(e, i, w, d, g, {}), inv, doc)
           /\ w = inv[i] /\ w.status \in InFlight => Sound("checking", View(e, i, w, d, g, {}), inv, doc)
           /\ w = inv[i] /\ w.status \in InFlight /\ doc[i][w.key] # "none" /\ doc[i][w.key] = d
                 => Sound(Resume(w), View(e, i, w, d, g, {}), inv, doc)
<1>1. w.version \in Nat
  BY DEF Rows
<1>2. w = inv[i] => Fresh(i, w, inv)
  BY <1>1 DEF Fresh
<1>. DEFINE v == View(e, i, w, d, g, {})
<1>3. v.id = i /\ v.row = w /\ v.result = d /\ v.todo = {}
  BY DEF View
<1>4. ListFresh(v.todo, inv)
  BY <1>3 DEF ListFresh
<1>. HIDE DEF v
<1>5. Sound("locking", v, inv, doc)
  BY <1>3, <1>4 DEF Sound, Working, Writing
<1>6. /\ w = inv[i] /\ w.status = "queued" => Sound("asking", v, inv, doc)
      /\ w = inv[i] /\ w.status = "queued" => Sound("stating", v, inv, doc)
  BY <1>2, <1>3, <1>4 DEF Sound, Working, Writing, Fits
<1>7. w = inv[i] /\ w.status \in InFlight => Sound("checking", v, inv, doc)
  BY <1>2, <1>3, <1>4 DEF Sound, Working, Writing, Fits
<1>8. ASSUME w = inv[i], w.status \in InFlight, doc[i][w.key] # "none", doc[i][w.key] = d
      PROVE  Sound(Resume(w), v, inv, doc)
  <2>1. Fits(Resume(w), w) /\ Resume(w) \in Writing
    BY <1>8 DEF Fits, Resume, InFlight, Working, Writing
  <2>2. Backed(v, doc)
    BY <1>3, <1>8 DEF Backed
  <2>. QED  BY <1>2, <1>3, <1>4, <1>8, <2>1, <2>2 DEF Sound, Writing
<1>. QED  BY <1>5, <1>6, <1>7, <1>8 DEF v

LEMMA StartKept ==
    ASSUME IInv, TypeOK', NEW p \in Handlers, HandlerStarts(p) \/ ReconcilePendingInvoices(p)
    PROVE  Kept
<1>0. /\ TypeOK /\ invoice \in [Invoices -> Rows] /\ invoice' \in [Invoices -> Rows]
      /\ 0 \in Keys /\ "none" \in DocumentStatuses /\ "queued" \in InvoiceStatuses
      /\ \A i \in Invoices : invoice[i] \in Rows /\ Honest(invoice[i], document[i])
      /\ Blank \in Rows
      /\ \A i \in Invoices, k \in Keys : document[i][k] \in DocumentStatuses
  BY BlankType DEF IInv, TypeOK, Keys, InvoiceStatuses, DocumentStatuses, RowsHonest
<1>a. UNCHANGED document => Stays(document, document')
  BY <1>0, Same
<1>b. \A i \in Invoices : \A r : Store(i, r) => invoice'[i] = r
  BY <1>0 DEF Store
<1>1. ASSUME NEW i \in Invoices, NEW k \in Keys, IssueTaxInvoice(p, i, k)
      PROVE  Kept
  <2>. DEFINE e == <<"issue", i, k>>
              Begin(s, w, g) == Goto(p, s, View(e, i, w, "none", g, {}))
  <2>1. e \in Events
    BY DEF Events
  <2>2. UNCHANGED <<document, issueType>>
    BY <1>1 DEF IssueTaxInvoice, books, provider
  <2>3. \A w \in Rows, g \in BOOLEAN : View(e, i, w, "none", g, {}) \in Views
    BY <1>0, <2>1, ViewType
  <2>. HIDE DEF e
  <2>5. CASE invoice[i].status = "approved"
    <3>. DEFINE r == Queued(invoice[i])
    <3>1. Store(i, r) /\ Begin("asking", r, TRUE)
      BY <1>1, <2>5 DEF IssueTaxInvoice, e
    <3>2. /\ r \in Rows /\ r.version = invoice[i].version + 1 /\ r.status = "queued"
          /\ r.key = invoice[i].key /\ r.receipt = invoice[i].receipt
      BY <1>0, WrittenType DEF Queued
    <3>3. Honest(r, document[i]) /\ Reported(r, document[i])
      BY <1>0, <3>2 DEF Honest, Reported
    <3>4. invoice'[i] = r
      BY <1>b, <3>1
    <3>. HIDE DEF r
    <3>5. Sound("asking", View(e, i, r, "none", TRUE, {}), invoice', document)
      BY <1>0, <3>2, <3>4, BeginSound
    <3>6. \E s \in Steps, v \in Views : Goto(p, s, v) /\ Sound(s, v, invoice', document)
      BY <2>3, <3>1, <3>2, <3>5 DEF Steps
    <3>. QED  BY <2>2, <3>1, <3>2, <3>3, <3>6, WriterKept
  <2>6. CASE invoice[i].status = "failed"
    <3>. DEFINE r == Requeued(invoice[i])
    <3>1. Store(i, r) /\ invoice[i].retries < MaxRetries /\ Begin("asking", r, TRUE)
      BY <1>1, <2>6 DEF IssueTaxInvoice, e
    <3>2. /\ r \in Rows /\ r.version = invoice[i].version + 1 /\ r.status = "queued"
          /\ r.key = invoice[i].key /\ r.receipt = invoice[i].receipt
      BY <1>0, <3>1, RetriedType
    <3>3. Honest(r, document[i]) /\ Reported(r, document[i])
      BY <1>0, <3>2 DEF Honest, Reported
    <3>4. invoice'[i] = r
      BY <1>b, <3>1
    <3>. HIDE DEF r
    <3>5. Sound("asking", View(e, i, r, "none", TRUE, {}), invoice', document)
      BY <1>0, <3>2, <3>4, BeginSound
    <3>6. \E s \in Steps, v \in Views : Goto(p, s, v) /\ Sound(s, v, invoice', document)
      BY <2>3, <3>1, <3>2, <3>5 DEF Steps
    <3>. QED  BY <2>2, <3>1, <3>2, <3>3, <3>6, WriterKept
  <2>7. CASE invoice[i].status \notin {"approved", "failed"}
    <3>1. UNCHANGED invoice
      BY <1>1, <2>7 DEF IssueTaxInvoice
    <3>2. \/ Begin("locking", Blank, FALSE)
          \/ Begin("checking", invoice[i], FALSE) /\ invoice[i].status \in InFlight
          \/ Begin("asking", invoice[i], TRUE) /\ invoice[i].status = "queued"
          \/ Stop(p)
      BY <1>1, <2>7 DEF IssueTaxInvoice, e, InFlight
    <3>3. Stop(p) \/ \E s \in Steps, v \in Views : Goto(p, s, v) /\ Sound(s, v, invoice, document)
      BY <1>0, <2>3, <3>2, BeginSound DEF Steps
    <3>. QED  BY <1>a, <2>2, <3>1, <3>3, HandKept
  <2>. QED  BY <2>5, <2>6, <2>7
<1>2. ASSUME NEW i \in Invoices, NEW k \in Keys, ApplyWebhook(p, i, k)
      PROVE  Kept
  <2>. DEFINE e == <<"webhook", i, k>>
              d == document[i][k]
              Begin(s, w) == Goto(p, s, View(e, i, w, d, FALSE, {}))
  <2>1. e \in Events /\ d \in DocumentStatuses
    BY <1>0 DEF Events
  <2>2. UNCHANGED <<document, issueType>> /\ d # "none"
    BY <1>2 DEF ApplyWebhook, books, provider, Final
  <2>3. \A w \in Rows : View(e, i, w, d, FALSE, {}) \in Views
    BY <2>1, ViewType
  <2>4. Names(i, k) => invoice[i].key = k
    BY <1>0, NoneAssumption DEF Names, Honest
  <2>5. \/ Stop(p) /\ UNCHANGED invoice
        \/ Begin("locking", Blank) /\ UNCHANGED invoice
        \/ /\ Names(i, k) /\ invoice[i].status = "failed"
           /\ Store(i, Receipted(invoice[i], "queued"))
           /\ Begin("saving", Receipted(invoice[i], "queued"))
        \/ /\ Names(i, k) /\ invoice[i].status \in InFlight
           /\ Begin(Resume(invoice[i]), invoice[i]) /\ UNCHANGED invoice
    BY <1>2 DEF ApplyWebhook, InFlight
  <2>6. CASE Stop(p) /\ UNCHANGED invoice
    BY <1>a, <2>2, <2>6, HandKept
  <2>. HIDE DEF e
  <2>7. CASE Begin("locking", Blank) /\ UNCHANGED invoice
    <3>1. Sound("locking", View(e, i, Blank, d, FALSE, {}), invoice, document)
      BY <1>0, BeginSound
    <3>2. \E s \in Steps, v \in Views : Goto(p, s, v) /\ Sound(s, v, invoice, document)
      BY <1>0, <2>3, <2>7, <3>1 DEF Steps
    <3>. QED  BY <1>a, <2>2, <2>7, <3>2, HandKept
  <2>8. CASE /\ Names(i, k) /\ invoice[i].status = "failed"
             /\ Store(i, Receipted(invoice[i], "queued"))
             /\ Begin("saving", Receipted(invoice[i], "queued"))
    <3>. DEFINE r == Receipted(invoice[i], "queued")
    <3>1. /\ r \in Rows /\ r.version = invoice[i].version + 1 /\ r.status = "queued"
          /\ r.key = invoice[i].key /\ r.receipt = invoice[i].key
      BY <1>0, WrittenType
    <3>2. Honest(r, document[i]) /\ Reported(r, document[i])
      BY <1>0, <2>2, <2>4, <2>8, <3>1 DEF Honest, Reported
    <3>3. invoice'[i] = r
      BY <1>b, <2>8
    <3>4. document[i][r.key] = d
      BY <2>4, <2>8, <3>1
    <3>. HIDE DEF r, d
    <3>5. Sound(Resume(r), View(e, i, r, d, FALSE, {}), invoice', document)
      BY <1>0, <2>2, <3>1, <3>3, <3>4, BeginSound DEF InFlight
    <3>6. Resume(r) = "saving"
      BY <3>1 DEF Resume
    <3>7. \E s \in Steps, v \in Views : Goto(p, s, v) /\ Sound(s, v, invoice', document)
      BY <2>3, <2>8, <3>1, <3>5, <3>6 DEF Steps, r
    <3>. QED  BY <2>2, <2>8, <3>1, <3>2, <3>7, WriterKept DEF r
  <2>9. CASE /\ Names(i, k) /\ invoice[i].status \in InFlight
             /\ Begin(Resume(invoice[i]), invoice[i]) /\ UNCHANGED invoice
    <3>1. document[i][invoice[i].key] = d
      BY <2>4, <2>9
    <3>. HIDE DEF d
    <3>2. Sound(Resume(invoice[i]), View(e, i, invoice[i], d, FALSE, {}), invoice, document)
      BY <1>0, <2>2, <2>9, <3>1, BeginSound
    <3>3. Resume(invoice[i]) \in Steps
      BY <2>9 DEF Resume, Steps, InFlight
    <3>4. \E s \in Steps, v \in Views : Goto(p, s, v) /\ Sound(s, v, invoice, document)
      BY <1>0, <2>3, <2>9, <3>2, <3>3
    <3>. QED  BY <1>a, <2>2, <2>9, <3>4, HandKept
  <2>. QED  BY <2>5, <2>6, <2>7, <2>8, <2>9
<1>3. ASSUME NEW i \in Invoices, IssueInternalStatement(p, i)
      PROVE  Kept
  <2>. DEFINE e == <<"issue", i, 0>>
              Begin(s, w) == Goto(p, s, View(e, i, w, "none", FALSE, {}))
  <2>1. e \in Events
    BY <1>0 DEF Events
  <2>2. UNCHANGED <<document, issueType>>
    BY <1>3 DEF IssueInternalStatement, books, provider
  <2>3. \A w \in Rows : View(e, i, w, "none", FALSE, {}) \in Views
    BY <1>0, <2>1, ViewType
  <2>. HIDE DEF e
  <2>4. CASE invoice[i].status = "approved"
    <3>. DEFINE r == Queued(invoice[i])
    <3>1. Store(i, r) /\ Begin("stating", r)
      BY <1>3, <2>4 DEF IssueInternalStatement, e
    <3>2. /\ r \in Rows /\ r.version = invoice[i].version + 1 /\ r.status = "queued"
          /\ r.key = invoice[i].key /\ r.receipt = invoice[i].receipt
      BY <1>0, WrittenType DEF Queued
    <3>3. Honest(r, document[i]) /\ Reported(r, document[i])
      BY <1>0, <3>2 DEF Honest, Reported
    <3>4. invoice'[i] = r
      BY <1>b, <3>1
    <3>. HIDE DEF r
    <3>5. Sound("stating", View(e, i, r, "none", FALSE, {}), invoice', document)
      BY <1>0, <3>2, <3>4, BeginSound
    <3>6. \E s \in Steps, v \in Views : Goto(p, s, v) /\ Sound(s, v, invoice', document)
      BY <2>3, <3>1, <3>2, <3>5 DEF Steps
    <3>. QED  BY <2>2, <3>1, <3>2, <3>3, <3>6, WriterKept
  <2>5. CASE invoice[i].status # "approved"
    <3>1. /\ UNCHANGED invoice
          /\ \/ Begin("locking", Blank)
             \/ Begin("stating", invoice[i]) /\ invoice[i].status = "queued"
      BY <1>3, <2>5 DEF IssueInternalStatement, e
    <3>2. \E s \in Steps, v \in Views : Goto(p, s, v) /\ Sound(s, v, invoice, document)
      BY <1>0, <2>3, <3>1, BeginSound DEF Steps
    <3>. QED  BY <1>a, <2>2, <3>1, <3>2, HandKept
  <2>. QED  BY <2>4, <2>5
<1>4. CASE ReconcilePendingInvoices(p)
  <2>. DEFINE todo == {<<i, invoice[i]>> : i \in {i \in Invoices : invoice[i].status \in Reconciled}}
              v == View(None, None, Blank, "none", FALSE, todo)
  <2>1. todo \in SUBSET (Invoices \X Rows)
    BY <1>0
  <2>2. v \in Views
    BY <1>0, <2>1, ViewType
  <2>3. Goto(p, "listed", v) /\ UNCHANGED <<invoice, document, issueType>>
    BY <1>4 DEF ReconcilePendingInvoices, books, provider
  <2>4. ListFresh(todo, invoice)
    BY <1>0 DEF ListFresh, Fresh, Rows
  <2>5. Sound("listed", v, invoice, document)
    BY <2>4 DEF Sound, View, Working, Writing
  <2>6. \E s \in Steps, w \in Views : Goto(p, s, w) /\ Sound(s, w, invoice, document)
    BY <2>2, <2>3, <2>5 DEF Steps
  <2>. QED  BY <1>a, <2>3, <2>6, HandKept
<1>. QED  BY <1>1, <1>2, <1>3, <1>4 DEF HandlerStarts

(* A handler at work that keeps the row it has and learns d of the document. *)
LEMMA WithSound ==
    ASSUME TypeOK, HandlersSound, NEW p \in Handlers, NEW d \in DocumentStatuses, NEW doc,
           step[p] \in Working \cup Writing \cup {"checking"}
    PROVE  /\ With(view[p], view[p].row, d) \in Views
           /\ \A s : /\ Fits(s, view[p].row) /\ s \notin Writing
                     => Sound(s, With(view[p], view[p].row, d), invoice, doc)
           /\ \A s : /\ Fits(s, view[p].row) /\ d # "none"
                     /\ doc[view[p].id][view[p].row.key] = d
                     => Sound(s, With(view[p], view[p].row, d), invoice, doc)
<1>. DEFINE v == With(view[p], view[p].row, d)
<1>1. v \in Views
  BY HeldType
<1>2. v.id = view[p].id /\ v.row = view[p].row /\ v.todo = view[p].todo /\ v.result = d
  BY DEF With, View
<1>3. Fresh(v.id, v.row, invoice) /\ ListFresh(v.todo, invoice) /\ v.id \in Invoices
  BY <1>2, AtWork DEF HandlersSound, Sound
<1>. HIDE DEF v
<1>4. \A s : Fits(s, view[p].row) /\ s \notin Writing => Sound(s, v, invoice, doc)
  BY <1>2, <1>3 DEF Sound
<1>5. \A s : /\ Fits(s, view[p].row) /\ d # "none" /\ doc[view[p].id][view[p].row.key] = d
             => Sound(s, v, invoice, doc)
  BY <1>2, <1>3 DEF Sound, Backed
<1>. QED  BY <1>1, <1>4, <1>5 DEF v

(* The same, without learning anything.                                      *)
LEMMA OnSound ==
    ASSUME TypeOK, HandlersSound, NEW p \in Handlers, step[p] \in Working, NEW s \in Working \ Writing,
           NEW doc
    PROVE  view[p] \in Views /\ Sound(s, view[p], invoice, doc)
<1>1. Fresh(view[p].id, view[p].row, invoice) /\ view[p].row.status = "queued"
  BY AtWork DEF Fits
<1>2. Fits(s, view[p].row)
  BY <1>1 DEF Fits, Working
<1>. QED  BY <1>1, <1>2, HeldType DEF HandlersSound, Sound, Working

LEMMA CallKept ==
    ASSUME IInv, TypeOK', NEW p \in Handlers,
           Asked(p) \/ Registered(p) \/ Recovered(p) \/ Confirmed(p) \/ StatusChecked(p)
    PROVE  Kept
<1>0. /\ TypeOK /\ HandlersSound /\ UNCHANGED <<invoice, issueType>>
      /\ (UNCHANGED document => Stays(document, document'))
  BY Same DEF IInv, Asked, Registered, Recovered, Confirmed, StatusChecked, books
<1>1. /\ step[p] \in Working \cup Writing \cup {"checking"}
      /\ StatusChecked(p) \/ step[p] \in Working
  BY DEF Asked, Registered, Recovered, Confirmed, StatusChecked, Working
<1>2. /\ view[p].id \in Invoices /\ view[p].row \in Rows /\ view[p].row.key \in Keys
      /\ Fits(step[p], view[p].row)
      /\ Document(p) \in DocumentStatuses
      /\ Document(p) = document[view[p].id][view[p].row.key]
  BY <1>0, <1>1, AtWork
<1>3. CASE Registered(p)
  <2>1. step[p] \in Working
    BY <1>3 DEF Registered, Working
  <2>2. Stays(document, document')
    BY <1>0, <1>2, <1>3, DocumentStays DEF Registered, DocumentStatuses, Final
  <2>3. {"confirming", "recovering"} \subseteq Steps /\ {"confirming", "recovering"} \subseteq Working \ Writing
    BY DEF Steps, Working, Writing
  <2>4. \E s \in {"confirming", "recovering"} : Goto(p, s, view[p])
    BY <1>3 DEF Registered
  <2>5. \E s \in Steps, v \in Views : Goto(p, s, v) /\ Sound(s, v, invoice, document')
    BY <1>0, <2>1, <2>3, <2>4, OnSound
  <2>. QED  BY <1>0, <2>2, <2>5, HandKept
<1>4. CASE Asked(p) \/ Recovered(p) \/ Confirmed(p)
  <2>1. UNCHANGED document /\ step[p] \in Working
    BY <1>4 DEF Asked, Recovered, Confirmed, provider, Working
  <2>2. \/ Goto(p, "registering", view[p])
        \/ Document(p) # "none" /\ Goto(p, "saving", With(view[p], view[p].row, Document(p)))
        \/ Stop(p)
        \/ Throw(p)
    BY <1>4 DEF Asked, Recovered, Confirmed, Live
  <2>3. CASE Goto(p, "registering", view[p])
    <3>1. "registering" \in Steps /\ "registering" \in Working \ Writing
      BY DEF Steps, Working, Writing
    <3>2. \E s \in Steps, v \in Views : Goto(p, s, v) /\ Sound(s, v, invoice, document')
      BY <1>0, <2>1, <2>3, <3>1, OnSound
    <3>. QED  BY <1>0, <2>1, <3>2, HandKept
  <2>4. CASE Document(p) # "none" /\ Goto(p, "saving", With(view[p], view[p].row, Document(p)))
    <3>1. "saving" \in Steps /\ Fits("saving", view[p].row)
      BY <1>2, <2>1 DEF Steps, Fits, Working
    <3>2. \E s \in Steps, v \in Views : Goto(p, s, v) /\ Sound(s, v, invoice, document)
      BY <1>0, <1>1, <1>2, <2>4, <3>1, WithSound
    <3>. QED  BY <1>0, <2>1, <3>2, HandKept
  <2>. QED  BY <1>0, <1>2, <2>1, <2>2, <2>3, <2>4, HandKept
<1>5. CASE StatusChecked(p)
  <2>1. UNCHANGED document /\ view[p].row.status \in InFlight
    BY <1>2, <1>5 DEF StatusChecked, provider, Fits
  <2>2. \/ Return(p)
        \/ /\ Document(p) # "none"
           /\ Goto(p, Resume(view[p].row), With(view[p], view[p].row, Document(p)))
    BY <1>5 DEF StatusChecked
  <2>3. Fits(Resume(view[p].row), view[p].row) /\ Resume(view[p].row) \in Steps
    BY <2>1 DEF Fits, Resume, InFlight, Working, Steps
  <2>4. CASE /\ Document(p) # "none"
             /\ Goto(p, Resume(view[p].row), With(view[p], view[p].row, Document(p)))
    <3>1. \E s \in Steps, v \in Views : Goto(p, s, v) /\ Sound(s, v, invoice, document)
      BY <1>0, <1>1, <1>2, <2>3, <2>4, WithSound
    <3>. QED  BY <1>0, <2>1, <3>1, HandKept
  <2>. QED  BY <1>0, <2>1, <2>2, <2>4, HandKept
<1>. QED  BY <1>3, <1>4, <1>5

LEMMA EndKept ==
    ASSUME IInv, TypeOK', NEW p \in Handlers,
           \/ SettleLater(p) \/ LockSettlement(p)
           \/ \E todo \in view[p].todo : ReconcileInvoice(p, todo[1], todo[2])
    PROVE  Kept
<1>0. /\ TypeOK /\ UNCHANGED <<invoice, issueType, document>> /\ Stays(document, document')
  BY Same DEF IInv, SettleLater, LockSettlement, ReconcileInvoice, books, provider
<1>1. CASE SettleLater(p) \/ LockSettlement(p)
  BY <1>0, <1>1, HandKept DEF SettleLater, LockSettlement
<1>2. ASSUME NEW t \in view[p].todo, ReconcileInvoice(p, t[1], t[2])
      PROVE  Kept
  <2>. DEFINE rest == view[p].todo \ {<<t[1], t[2]>>}
              v == View(None, t[1], t[2], "none", FALSE, rest)
  <2>1. t[1] \in Invoices /\ t[2] \in Rows /\ rest \in SUBSET (Invoices \X Rows)
    BY <1>0, HeldType
  <2>2. v \in Views
    BY <2>1, ViewType DEF DocumentStatuses
  <2>3. ListFresh(view[p].todo, invoice)
    BY DEF IInv, HandlersSound, Sound
  <2>4. Fresh(t[1], t[2], invoice) /\ t[2].status \in Reconciled /\ ListFresh(rest, invoice)
    BY <2>3 DEF ListFresh
  <2>5. v.id = t[1] /\ v.row = t[2] /\ v.todo = rest
    BY DEF View
  <2>6. \/ Goto(p, "locking", v)
        \/ Goto(p, "checking", v) /\ t[2].status # "nts_success"
    BY <1>2 DEF ReconcileInvoice
  <2>. HIDE DEF v, rest
  <2>7. Sound("locking", v, invoice, document)
    BY <2>1, <2>4, <2>5 DEF Sound, Working, Writing
  <2>8. t[2].status # "nts_success" => Sound("checking", v, invoice, document)
    BY <2>4, <2>5 DEF Sound, Working, Writing, Fits, Reconciled, InFlight
  <2>9. \E s \in Steps, w \in Views : Goto(p, s, w) /\ Sound(s, w, invoice, document)
    BY <2>2, <2>6, <2>7, <2>8 DEF Steps
  <2>. QED  BY <1>0, <2>9, HandKept
<1>. QED  BY <1>1, <1>2

(* A commit that goes through finds the row the handler read.                *)
LEMMA CurrentRow ==
    ASSUME TypeOK, HandlersSound, NEW p \in Handlers,
           step[p] \in Working \cup Writing \cup {"checking"}, Current(p)
    PROVE  invoice[view[p].id] = view[p].row
  BY AtWork DEF Current, Fresh

LEMMA UpdateKept ==
    ASSUME IInv, TypeOK', UNCHANGED <<document, issueType>>, NEW p \in Handlers,
           step[p] \in Working \cup Writing, NEW r \in Rows, NEW s \in Steps, Update(p, r, s),
           r.version = view[p].row.version + 1, r.key = view[p].row.key,
           Honest(view[p].row, document[view[p].id]) => Honest(r, document[view[p].id]),
           ~Internal => Reported(r, document[view[p].id]),
           \/ s = "locking"
           \/ s \in Writing /\ Fits(s, r) /\ Backed(view[p], document)
    PROVE  Kept
<1>. DEFINE i == view[p].id
<1>0. /\ TypeOK /\ HandlersSound /\ i \in Invoices /\ r.version \in Nat
      /\ Stays(document, document')
      /\ (UNCHANGED invoice => Grows(invoice, invoice'))
  BY AtWork, Same DEF IInv, Rows
<1>1. CASE ~Current(p)
  <2>1. Throw(p) /\ UNCHANGED invoice
    BY <1>1 DEF Update
  <2>. QED  BY <1>0, <2>1, HandKept
<1>2. CASE Current(p)
  <2>1. Store(i, r) /\ invoice[i] = view[p].row
    BY <1>0, <1>2, CurrentRow DEF Update
  <2>2. /\ r.version = invoice[i].version + 1 /\ Honest(r, document[i])
        /\ invoice'[i] = r
    BY <1>0, <2>1 DEF IInv, RowsHonest, Store, TypeOK
  <2>3. Grows(invoice, invoice')
    BY <1>0, <2>1, <2>2, StoreGrows, WrittenType DEF TypeOK, Rows
  <2>4. ListFresh(view[p].todo, invoice')
    BY <1>0, <2>3, TodoSound
  <2>5. \E t \in Steps, v \in Views : Goto(p, t, v) /\ Sound(t, v, invoice', document)
    <3>1. CASE s = "locking"
      <4>1. Goto(p, "locking", Forget(view[p])) /\ Forget(view[p]) \in Views
        BY <1>0, <1>2, <3>1, HeldType DEF Update
      <4>2. Sound("locking", Forget(view[p]), invoice', document)
        BY <1>0, <2>4 DEF Sound, Forget, With, View, Working, Writing
      <4>. QED  BY <4>1, <4>2, <3>1
    <3>2. CASE s # "locking"
      <4>. DEFINE v == With(view[p], r, view[p].result)
      <4>1. Goto(p, s, v)
        BY <1>2, <3>2 DEF Update
      <4>2. v.id = i /\ v.row = r /\ v.todo = view[p].todo /\ v.result = view[p].result /\ v \in Views
        BY <1>0, HeldType DEF With, View
      <4>3. Fresh(i, r, invoice') /\ Fits(s, r) /\ Backed(view[p], document)
        BY <1>0, <2>2, <3>2 DEF Fresh
      <4>. HIDE DEF v
      <4>4. Backed(v, document)
        BY <4>2, <4>3 DEF Backed
      <4>5. Sound(s, v, invoice', document)
        BY <2>4, <3>2, <4>2, <4>3, <4>4, <1>0 DEF Sound
      <4>. QED  BY <4>1, <4>2, <4>5
    <3>. QED  BY <3>1, <3>2
  <2>. QED  BY <1>0, <2>1, <2>2, <2>5, WriterKept
<1>. QED  BY <1>1, <1>2

LEMMA WriteKept ==
    ASSUME IInv, TypeOK', NEW p \in Handlers,
           \/ SaveIssued(p) \/ SavePending(p) \/ SettleSuccess(p) \/ SettleRefused(p)
           \/ SaveStatement(p) \/ Caught(p)
    PROVE  Kept
<1>0. /\ TypeOK /\ HandlersSound /\ UNCHANGED <<document, issueType>>
      /\ Stays(document, document')
  BY Same DEF IInv, SaveIssued, SavePending, SettleSuccess, SettleRefused, SaveStatement, Caught,
              books, provider
<1>1. CASE Caught(p)
  <2>. DEFINE i == view[p].id
              r == Moved(invoice[i], "failed")
  <2>1. i \in Invoices
    BY <1>1 DEF Caught, IInv, HandlersSound, Sound
  <2>2. invoice[i] \in Rows /\ Honest(invoice[i], document[i]) /\ "failed" \in InvoiceStatuses
    BY <2>1 DEF IInv, TypeOK, RowsHonest, InvoiceStatuses
  <2>3. /\ r \in Rows /\ r.version = invoice[i].version + 1 /\ r.status = "failed"
        /\ r.key = invoice[i].key /\ r.receipt = invoice[i].receipt
    BY <2>2, WrittenType
  <2>4. Honest(r, document[i]) /\ Reported(r, document[i])
    BY <2>2, <2>3 DEF Honest, Reported
  <2>5. Stop(p) /\ (Store(i, r) \/ UNCHANGED invoice)
    BY <1>1 DEF Caught
  <2>. HIDE DEF r
  <2>. QED  BY <1>0, <2>1, <2>3, <2>4, <2>5, HandKept, WriterKept
<1>2. CASE SaveIssued(p) \/ SavePending(p) \/ SettleSuccess(p) \/ SettleRefused(p) \/ SaveStatement(p)
  <2>. DEFINE i == view[p].id
              w == view[p].row
              d == document[i]
  <2>1. step[p] \in Working \cup Writing /\ (SaveStatement(p) \/ step[p] \in Writing)
    BY <1>2 DEF SaveIssued, SavePending, SettleSuccess, SettleRefused, SaveStatement, Working, Writing
  <2>2. i \in Invoices /\ w \in Rows /\ Fits(step[p], w)
    BY <1>0, <2>1, AtWork
  <2>3. step[p] \in Writing => Backed(view[p], document)
    BY DEF IInv, HandlersSound, Sound
  <2>4. \A s \in InvoiceStatuses :
            /\ Moved(w, s) \in Rows /\ Moved(w, s).version = w.version + 1
            /\ Moved(w, s).status = s /\ Moved(w, s).key = w.key
            /\ Moved(w, s).receipt = w.receipt
            /\ Receipted(w, s) \in Rows /\ Receipted(w, s).version = w.version + 1
            /\ Receipted(w, s).status = s /\ Receipted(w, s).key = w.key
            /\ Receipted(w, s).receipt = w.key
    BY <2>2, WrittenType
  <2>5. {"issued", "nts_pending", "nts_success", "failed", "cancelled"} \subseteq InvoiceStatuses
    BY DEF InvoiceStatuses
  <2>6. CASE SaveIssued(p)
    <3>. DEFINE r == Receipted(w, "issued")
    <3>1. r \in Rows /\ r.version = w.version + 1 /\ r.key = w.key /\ r.status = "issued" /\ r.receipt = w.key
      BY <2>4, <2>5
    <3>2. /\ step[p] = "saving" /\ Update(p, r, "pending")
          /\ "pending" \in Steps /\ "pending" \in Writing /\ Backed(view[p], document)
      BY <2>3, <2>6 DEF SaveIssued, Steps, Writing
    <3>. HIDE DEF r
    <3>3. Honest(r, d) /\ Reported(r, d) /\ Fits("pending", r)
      BY <3>1, <3>2 DEF Honest, Reported, Backed, Fits, Working
    <3>. QED  BY <1>0, <2>1, <3>1, <3>2, <3>3, UpdateKept
  <2>7. CASE SavePending(p)
    <3>. DEFINE r == Moved(w, "nts_pending")
    <3>1. r \in Rows /\ r.version = w.version + 1 /\ r.key = w.key /\ r.status = "nts_pending" /\ r.receipt = w.receipt
      BY <2>4, <2>5
    <3>2. /\ step[p] = "pending" /\ Update(p, r, "settling")
          /\ "settling" \in Steps /\ "settling" \in Writing /\ step[p] \in Writing
          /\ Backed(view[p], document)
      BY <2>3, <2>7 DEF SavePending, Steps, Writing
    <3>. HIDE DEF r
    <3>3. (Honest(w, d) => Honest(r, d)) /\ Reported(r, d) /\ Fits("settling", r)
      BY <3>1, <3>2 DEF Honest, Reported, Backed, Fits, Working
    <3>. QED  BY <1>0, <2>1, <3>1, <3>2, <3>3, UpdateKept
  <2>8. CASE SettleSuccess(p)
    <3>. DEFINE r == Receipted(w, "nts_success")
    <3>1. r \in Rows /\ r.version = w.version + 1 /\ r.key = w.key /\ r.status = "nts_success" /\ r.receipt = w.key
      BY <2>4, <2>5
    <3>2. /\ step[p] = "settling" /\ Update(p, r, "locking") /\ view[p].result = "success"
          /\ "locking" \in Steps /\ Backed(view[p], document)
      BY <2>3, <2>8 DEF SettleSuccess, Steps, Writing
    <3>. HIDE DEF r
    <3>3. Honest(r, d) /\ Reported(r, d)
      BY <3>1, <3>2 DEF Honest, Reported, Backed, Final
    <3>. QED  BY <1>0, <2>1, <3>1, <3>2, <3>3, UpdateKept
  <2>9. CASE SaveStatement(p)
    <3>. DEFINE r == Moved(w, "issued")
    <3>1. r \in Rows /\ r.version = w.version + 1 /\ r.key = w.key /\ r.status = "issued" /\ r.receipt = w.receipt
      BY <2>4, <2>5
    <3>2. step[p] = "stating" /\ Update(p, r, "locking") /\ "locking" \in Steps
      BY <2>9 DEF SaveStatement, Steps
    <3>3. Internal
      BY <3>2 DEF IInv, Apart
    <3>. HIDE DEF r
    <3>4. Honest(w, d) => Honest(r, d)
      BY <3>1 DEF Honest
    <3>. QED  BY <1>0, <2>1, <3>1, <3>2, <3>3, <3>4, UpdateKept
  <2>10. CASE SettleRefused(p)
    <3>1. CASE ~Current(p)
      BY <1>0, <2>2, <2>10, <3>1, HandKept DEF SettleRefused
    <3>2. CASE Current(p)
      <4>. DEFINE r == Receipted(w, view[p].result)
      <4>1. /\ step[p] = "settling" /\ Store(i, r) /\ Return(p)
            /\ view[p].result \in {"failed", "cancelled"} /\ Backed(view[p], document)
        BY <2>3, <2>10, <3>2 DEF SettleRefused, Writing
      <4>2. r \in Rows /\ r.version = w.version + 1 /\ r.key = w.key /\ r.status = view[p].result /\ r.receipt = w.key
        BY <2>4, <2>5, <4>1
      <4>3. invoice[i] = w
        BY <1>0, <2>1, <3>2, CurrentRow
      <4>. HIDE DEF r
      <4>4. Honest(r, d) /\ Reported(r, d)
        BY <4>1, <4>2 DEF Honest, Reported, Backed, Final
      <4>. QED  BY <1>0, <2>2, <4>1, <4>2, <4>3, <4>4, WriterKept
    <3>. QED  BY <3>1, <3>2
  <2>. QED  BY <1>2, <2>6, <2>7, <2>8, <2>9, <2>10
<1>. QED  BY <1>1, <1>2

LEMMA FailKept ==
    ASSUME IInv, TypeOK', NEW p \in Handlers, HandlerFails(p)
    PROVE  Kept
<1>0. /\ TypeOK /\ HandlersSound /\ UNCHANGED <<invoice, issueType>>
      /\ (UNCHANGED document => Stays(document, document'))
  BY Same DEF IInv, HandlerFails, RegistrationRejected, RegistrationUncertain, OutcomeUnknown,
              Fails, Crash, books
<1>1. step[p] \in Working \cup Writing \cup {"checking", "locking"} => view[p].id \in Invoices
  BY AtWork DEF IInv, HandlersSound, Sound, Fresh
<1>2. CASE RegistrationUncertain(p)
  <2>1. /\ step[p] = "registering" /\ step[p] \in Working
        /\ "recovering" \in Steps /\ "recovering" \in Working \ Writing
    BY <1>2 DEF RegistrationUncertain, Working, Writing, Steps
  <2>2. view[p].id \in Invoices /\ view[p].row.key \in Keys
        /\ Document(p) = document[view[p].id][view[p].row.key]
    BY <1>0, <2>1, AtWork
  <2>3. Stays(document, document')
    <3>1. CASE Document(p) = "none" /\ SetDocument(view[p].id, view[p].row.key, "pending")
      BY <1>0, <2>2, <3>1, DocumentStays DEF DocumentStatuses, Final
    <3>. QED  BY <1>0, <1>2, <3>1 DEF RegistrationUncertain, provider
  <2>4. Goto(p, "recovering", view[p])
    BY <1>2 DEF RegistrationUncertain
  <2>5. \E s \in Steps, v \in Views : Goto(p, s, v) /\ Sound(s, v, invoice, document')
    BY <1>0, <2>1, <2>4, OnSound
  <2>. QED  BY <1>0, <2>3, <2>5, HandKept
<1>3. CASE RegistrationRejected(p)
  <2>1. Throw(p) /\ view[p].id \in Invoices /\ UNCHANGED document
    BY <1>1, <1>3 DEF RegistrationRejected, Working, provider
  <2>. QED  BY <1>0, <2>1, HandKept
<1>4. CASE OutcomeUnknown(p)
  BY <1>0, <1>4, HandKept DEF OutcomeUnknown
<1>5. CASE Fails(p)
  <2>1. Throw(p) /\ view[p].id \in Invoices /\ UNCHANGED document
    BY <1>1, <1>5 DEF Fails, Working, Writing, provider
  <2>. QED  BY <1>0, <2>1, HandKept
<1>6. CASE Crash(p)
  BY <1>0, <1>6, HandKept DEF Crash, provider
<1>. QED  BY <1>2, <1>3, <1>4, <1>5, <1>6 DEF HandlerFails

LEMMA StepKept ==
    ASSUME IInv, TypeOK', Next
    PROVE  Kept
  BY OfficeKept, ProviderKept, StartKept, CallKept, WriteKept, EndKept, FailKept
  DEF Next, HandlerStep

-----------------------------------------------------------------------------
(* Before the drafts nothing happens but the drafts.                         *)

NoDrafts == \A i \in Parts : invoice[i].status = "absent"

LEMMA OnlyDrafts ==
    ASSUME IInv, NoDrafts, Next
    PROVE  CreateInvoiceDraft
<1>1. /\ NoDocuments
      /\ \A i \in Invoices : invoice[i].status = "absent"
      /\ \A p \in Handlers : step[p] = "idle" /\ view[p] = Nothing
  BY DEF IInv, Untouched, NoDrafts
<1>2. ~ProviderStep
  BY <1>1 DEF ProviderStep, TaxOfficeDecides, LateRegistration, NoDocuments
<1>3. OfficeStep => CreateInvoiceDraft
  BY <1>1 DEF OfficeStep, CreateModifiedInvoice, ReviewInvoice, ApproveInvoice, RetryInvoice, Invoices
<1>4. ASSUME NEW p \in Handlers
      PROVE  ~(HandlerStarts(p) \/ ReconcilePendingInvoices(p))
  <2>1. ASSUME NEW i \in Invoices PROVE ~IssueInternalStatement(p, i)
    BY <1>1 DEF IssueInternalStatement
  <2>2. ASSUME NEW i \in Invoices, NEW k \in Keys
        PROVE  ~IssueTaxInvoice(p, i, k) /\ ~ApplyWebhook(p, i, k)
    BY <1>1 DEF IssueTaxInvoice, ApplyWebhook, NoDocuments, Final
  <2>3. ~HandlerStarts(p)
    BY <2>1, <2>2 DEF HandlerStarts
  <2>4. ~ReconcilePendingInvoices(p)
    BY <1>1 DEF ReconcilePendingInvoices, Reconciled
  <2>. QED  BY <2>3, <2>4
<1>5. ASSUME NEW p \in Handlers
      PROVE  ~(HandlerStep(p) \/ HandlerFails(p))
  <2>1. step[p] = "idle"
    BY <1>1
  <2>. QED  BY <2>1 DEF HandlerStep, HandlerFails, Asked, Registered, Recovered, Confirmed, Caught,
              SaveIssued, SavePending, SettleSuccess, SettleRefused, SettleLater, LockSettlement,
              SaveStatement, StatusChecked, ReconcileInvoice, RegistrationRejected,
              RegistrationUncertain, OutcomeUnknown, Fails, Crash
<1>. QED  BY <1>2, <1>3, <1>4, <1>5 DEF Next

(* A draft is never forgotten.                                               *)
LEMMA DraftsStay ==
    ASSUME IInv, TypeOK', Kept, NEW i \in Invoices, invoice[i].status # "absent"
    PROVE  invoice'[i].status # "absent"
<1>1. invoice[i].version \in Nat /\ invoice'[i].version \in Nat
  BY DEF IInv, TypeOK, Rows
<1>2. invoice'[i] = invoice[i] \/ invoice'[i].version > invoice[i].version
  BY DEF Kept, Grows
<1>3. invoice'[i].status = "absent" => invoice'[i].version = 0
  BY DEF Kept, RowsHonest, Honest
<1>. QED  BY <1>1, <1>2, <1>3

LEMMA UntouchedStep ==
    ASSUME IInv, TypeOK', Kept, Next
    PROVE  Untouched'
<1>1. CASE NoDrafts
  <2>1. CreateInvoiceDraft
    BY <1>1, OnlyDrafts
  <2>2. UNCHANGED <<document, late, step, view>>
    BY <2>1 DEF CreateInvoiceDraft, OfficeOnly, provider
  <2>3. \A i \in Parts : invoice'[i].status = "draft"
    BY <2>1 DEF CreateInvoiceDraft, Row, Invoices
  <2>4. \A i \in Invoices \ Parts : invoice'[i] = invoice[i]
    BY <2>1 DEF CreateInvoiceDraft
  <2>5. (\A i \in Parts : invoice'[i].status = "absent") => Parts = {}
    BY <2>3
  <2>6. /\ NoDocuments
        /\ \A i \in Invoices : invoice[i].status = "absent"
        /\ \A p \in Handlers : step[p] = "idle" /\ view[p] = Nothing
    BY <1>1 DEF IInv, Untouched, NoDrafts
  <2>. QED  BY <2>2, <2>4, <2>5, <2>6 DEF Untouched, NoDocuments
<1>2. CASE ~NoDrafts
  <2>1. PICK i \in Parts : invoice[i].status # "absent"
    BY <1>2 DEF NoDrafts
  <2>2. invoice'[i].status # "absent"
    BY <2>1, DraftsStay DEF Invoices
  <2>. QED  BY <2>2 DEF Untouched
<1>. QED  BY <1>1, <1>2

-----------------------------------------------------------------------------
(* Internal statements stay apart from the provider.                         *)

Quiet(s, v) == s \in {"idle", "stating", "locking"} /\ v.guarded = FALSE /\ v.todo = {}

LEMMA QuietGoes ==
    ASSUME TypeOK, NEW p \in Handlers, NEW s, NEW v, Goto(p, s, v), Quiet(s, v),
           \A q \in Handlers : Quiet(step[q], view[q])
    PROVE  \A q \in Handlers : Quiet(step'[q], view'[q])
<1>1. /\ step'[p] = s /\ view'[p] = v
      /\ \A q \in Handlers : q # p => step'[q] = step[q] /\ view'[q] = view[q]
  BY DEF TypeOK, Goto
<1>. QED  BY <1>1

LEMMA QuietStops ==
    ASSUME TypeOK, NEW p \in Handlers, Stop(p),
           \A q \in Handlers : Quiet(step[q], view[q])
    PROVE  \A q \in Handlers : Quiet(step'[q], view'[q])
<1>1. Quiet("idle", Nothing)
  BY DEF Quiet, Nothing, View
<1>. QED  BY <1>1, QuietGoes DEF Stop

LEMMA InternalStep ==
    ASSUME IInv, Internal, Next, ~NoDrafts
    PROVE  /\ UNCHANGED issueType
           /\ NoDocuments'
           /\ \A p \in Handlers : Quiet(step'[p], view'[p])
<1>0. /\ TypeOK /\ NoDocuments /\ \A p \in Handlers : Quiet(step[p], view[p])
      /\ (UNCHANGED <<document, late>> => NoDocuments')
  BY DEF IInv, Apart, Quiet, NoDocuments
<1>1. CASE OfficeStep
  <2>1. UNCHANGED issueType /\ OfficeOnly
    BY <1>1 DEF OfficeStep, CreateInvoiceDraft, NoDrafts, CreateModifiedInvoice, ReviewInvoice,
                ApproveInvoice, RetryInvoice
  <2>. QED  BY <1>0, <2>1 DEF OfficeOnly, provider
<1>2. ~ProviderStep
  BY <1>0 DEF ProviderStep, TaxOfficeDecides, LateRegistration, NoDocuments
<1>3. ASSUME NEW p \in Handlers, HandlerStarts(p) \/ ReconcilePendingInvoices(p)
      PROVE  UNCHANGED <<issueType, document, late>> /\ \A q \in Handlers : Quiet(step'[q], view'[q])
  <2>1. PICK i \in Invoices : IssueInternalStatement(p, i)
    BY <1>0, <1>3 DEF HandlerStarts, ReconcilePendingInvoices, IssueTaxInvoice, ApplyWebhook,
                      NoDocuments, Final
  <2>2. UNCHANGED <<issueType, document, late>>
    BY <2>1 DEF IssueInternalStatement, books, provider
  <2>3. \E s \in {"locking", "stating"}, w \in {Blank, Queued(invoice[i]), invoice[i]} :
            Goto(p, s, View(<<"issue", i, 0>>, i, w, "none", FALSE, {}))
    BY <2>1 DEF IssueInternalStatement
  <2>4. \A s \in {"locking", "stating"} : \A w : Quiet(s, View(<<"issue", i, 0>>, i, w, "none", FALSE, {}))
    BY DEF Quiet, View
  <2>. QED  BY <1>0, <2>2, <2>3, <2>4, QuietGoes
<1>4. ASSUME NEW p \in Handlers, HandlerStep(p) \/ HandlerFails(p)
      PROVE  UNCHANGED <<issueType, document, late>> /\ \A q \in Handlers : Quiet(step'[q], view'[q])
  <2>0. Quiet(step[p], view[p])
    BY <1>0
  <2>1. SaveStatement(p) \/ LockSettlement(p) \/ Fails(p) \/ Crash(p)
    BY <1>4, <2>0 DEF Quiet, HandlerStep, HandlerFails, Asked, Registered, Recovered, Confirmed,
              Caught, SaveIssued, SavePending, SettleSuccess, SettleRefused, SettleLater,
              StatusChecked, ReconcileInvoice, RegistrationRejected,
              RegistrationUncertain, OutcomeUnknown
  <2>2. UNCHANGED <<issueType, document, late>>
    BY <2>1 DEF SaveStatement, LockSettlement, Fails, Crash, books, provider
  <2>3. Stop(p) \/ Goto(p, "locking", Forget(view[p]))
    BY <2>0, <2>1 DEF SaveStatement, LockSettlement, Fails, Crash, Update, Throw, Return, Quiet
  <2>4. Quiet("locking", Forget(view[p]))
    BY <2>0 DEF Quiet, Forget, With, View
  <2>. QED  BY <1>0, <2>2, <2>3, <2>4, QuietGoes, QuietStops
<1>. QED  BY <1>0, <1>1, <1>2, <1>3, <1>4 DEF Next

LEMMA ElsewhereGoes ==
    ASSUME TypeOK, NEW p \in Handlers, NEW s \in Steps \ {"stating"}, NEW v, Goto(p, s, v),
           \A q \in Handlers : step[q] # "stating"
    PROVE  \A q \in Handlers : step'[q] # "stating"
  BY DEF TypeOK, Goto

LEMMA ExternalStep ==
    ASSUME IInv, ~Internal, Next, ~NoDrafts
    PROVE  UNCHANGED issueType /\ \A p \in Handlers : step'[p] # "stating"
<1>0. TypeOK /\ HandlersSound /\ \A p \in Handlers : step[p] # "stating"
  BY DEF IInv, Apart
<1>1. CASE OfficeStep
  <2>1. UNCHANGED issueType /\ OfficeOnly
    BY <1>1 DEF OfficeStep, CreateInvoiceDraft, NoDrafts, CreateModifiedInvoice, ReviewInvoice,
                ApproveInvoice, RetryInvoice
  <2>. QED  BY <1>0, <2>1 DEF OfficeOnly
<1>2. CASE ProviderStep
  <2>1. UNCHANGED <<issueType, step>>
    BY <1>2 DEF ProviderStep, TaxOfficeDecides, LateRegistration, books
  <2>. QED  BY <1>0, <2>1
<1>. DEFINE Elsewhere(p) == \E s \in Steps \ {"stating"} : \E v : Goto(p, s, v)
<1>3. \A p \in Handlers : Stop(p) => Elsewhere(p)
  BY DEF Stop, Steps
<1>4. \A p \in Handlers : Throw(p) \/ Return(p) => Elsewhere(p)
  BY <1>3 DEF Throw, Return, Steps
<1>5. \A r : r.status \in InFlight => Resume(r) \in Steps \ {"stating"}
  BY DEF Resume, InFlight, Steps
<1>6. ASSUME NEW p \in Handlers, HandlerStarts(p) \/ ReconcilePendingInvoices(p)
      PROVE  UNCHANGED issueType /\ Elsewhere(p)
  <2>1. CASE ReconcilePendingInvoices(p)
    BY <2>1 DEF ReconcilePendingInvoices, Steps, books
  <2>2. ASSUME NEW i \in Invoices, NEW k \in Keys, IssueTaxInvoice(p, i, k)
        PROVE  UNCHANGED issueType /\ Elsewhere(p)
    <3>1. \/ Stop(p)
          \/ \E s \in {"locking", "checking", "asking"} : \E v : Goto(p, s, v)
      BY <2>2 DEF IssueTaxInvoice
    <3>. QED  BY <1>3, <2>2, <3>1 DEF IssueTaxInvoice, Steps, books
  <2>3. ASSUME NEW i \in Invoices, NEW k \in Keys, ApplyWebhook(p, i, k)
        PROVE  UNCHANGED issueType /\ Elsewhere(p)
    <3>1. \/ Stop(p)
          \/ \E s \in {"locking", "saving"} : \E v : Goto(p, s, v)
          \/ invoice[i].status \in InFlight /\ \E v : Goto(p, Resume(invoice[i]), v)
      BY <2>3 DEF ApplyWebhook, InFlight
    <3>. QED  BY <1>3, <1>5, <2>3, <3>1 DEF ApplyWebhook, Steps, books
  <2>. QED  BY <1>6, <2>1, <2>2, <2>3 DEF HandlerStarts, IssueInternalStatement
<1>7. ASSUME NEW p \in Handlers, HandlerStep(p)
      PROVE  UNCHANGED issueType /\ Elsewhere(p)
  <2>1. CASE Asked(p) \/ Registered(p) \/ Recovered(p) \/ Confirmed(p) \/ Caught(p)
    BY <1>3, <1>4, <2>1 DEF Asked, Registered, Recovered, Confirmed, Caught, Steps, books
  <2>2. CASE SaveIssued(p) \/ SavePending(p) \/ SettleSuccess(p) \/ SaveStatement(p)
    BY <1>4, <2>2 DEF SaveIssued, SavePending, SettleSuccess, SaveStatement, Update, Steps, books
  <2>3. CASE SettleRefused(p) \/ SettleLater(p) \/ LockSettlement(p)
    BY <1>4, <2>3 DEF SettleRefused, SettleLater, LockSettlement, books
  <2>4. CASE StatusChecked(p)
    <3>1. view[p].row.status \in InFlight
      BY <1>0, <2>4, AtWork DEF StatusChecked, Fits
    <3>. QED  BY <1>4, <1>5, <2>4, <3>1 DEF StatusChecked, books
  <2>5. CASE \E todo \in view[p].todo : ReconcileInvoice(p, todo[1], todo[2])
    BY <2>5 DEF ReconcileInvoice, Steps, books
  <2>. QED  BY <1>7, <2>1, <2>2, <2>3, <2>4, <2>5 DEF HandlerStep
<1>8. ASSUME NEW p \in Handlers, HandlerFails(p)
      PROVE  UNCHANGED issueType /\ Elsewhere(p)
  BY <1>3, <1>4, <1>8 DEF HandlerFails, RegistrationRejected, RegistrationUncertain,
              OutcomeUnknown, Fails, Crash, Steps, books
<1>. QED  BY <1>0, <1>1, <1>2, <1>6, <1>7, <1>8, ElsewhereGoes DEF Next

LEMMA ApartStep ==
    ASSUME IInv, Next
    PROVE  Apart'
<1>1. CASE NoDrafts
  <2>1. CreateInvoiceDraft
    BY <1>1, OnlyDrafts
  <2>2. UNCHANGED <<document, late, step, view>>
    BY <2>1 DEF CreateInvoiceDraft, OfficeOnly, provider
  <2>3. NoDocuments /\ \A p \in Handlers : step[p] = "idle" /\ view[p] = Nothing
    BY <1>1 DEF IInv, Untouched, NoDrafts
  <2>4. Nothing.guarded = FALSE /\ Nothing.todo = {}
    BY DEF Nothing, View
  <2>. QED  BY <2>2, <2>3, <2>4 DEF Apart, NoDocuments
<1>2. CASE ~NoDrafts /\ Internal
  BY <1>2, InternalStep DEF Apart, Internal, Quiet
<1>3. CASE ~NoDrafts /\ ~Internal
  BY <1>3, ExternalStep DEF Apart, Internal
<1>. QED  BY <1>1, <1>2, <1>3

-----------------------------------------------------------------------------
(* Final invoices do not change.                                             *)

Finished(i) == \/ invoice[i].status = "nts_success"
               \/ Internal /\ invoice[i].status = "issued"

LEMMA StoreElsewhere ==
    ASSUME TypeOK, NEW i \in Invoices, NEW r, Store(i, r), NEW j \in Invoices, j # i
    PROVE  invoice'[j] = invoice[j]
  BY DEF TypeOK, Store

LEMMA UpdateElsewhere ==
    ASSUME IInv, NEW p \in Handlers, NEW r, NEW s, Update(p, r, s),
           step[p] \in Working \cup Writing, ~Internal \/ step[p] = "stating",
           NEW j \in Invoices, Finished(j)
    PROVE  invoice'[j] = invoice[j]
<1>1. view[p].id \in Invoices /\ Fits(step[p], view[p].row)
  BY AtWork DEF IInv
<1>2. CASE Current(p)
  <2>1. invoice[view[p].id] = view[p].row
    BY <1>2, CurrentRow DEF IInv
  <2>2. j # view[p].id
    BY <1>1, <2>1 DEF Finished, Fits, Working, Writing
  <2>. QED  BY <1>1, <1>2, <2>2, StoreElsewhere DEF Update, IInv
<1>3. CASE ~Current(p)
  BY <1>3 DEF Update
<1>. QED  BY <1>2, <1>3

LEMMA FinishedStays ==
    ASSUME IInv, Next, NEW j \in Invoices, Finished(j)
    PROVE  invoice'[j] = invoice[j]
<1>0. TypeOK /\ HandlersSound
  BY DEF IInv
<1>1. CASE OfficeStep
  <2>1. CASE CreateInvoiceDraft
    BY <2>1 DEF CreateInvoiceDraft, Finished
  <2>2. ASSUME NEW i \in Invoices, NEW r, Store(i, r),
               invoice[i].status \in {"absent", "draft", "reviewed", "failed"}
        PROVE  invoice'[j] = invoice[j]
    BY <1>0, <2>2, StoreElsewhere DEF Finished
  <2>3. \A m \in Modified : CreateModifiedInvoice(m) => invoice'[j] = invoice[j]
    BY <2>2 DEF CreateModifiedInvoice, Invoices
  <2>4. \A i \in Invoices : ReviewInvoice(i) \/ ApproveInvoice(i) \/ RetryInvoice(i)
                            => invoice'[j] = invoice[j]
    BY <2>2 DEF ReviewInvoice, ApproveInvoice, RetryInvoice
  <2>. QED  BY <1>1, <2>1, <2>3, <2>4 DEF OfficeStep
<1>2. CASE ProviderStep
  BY <1>2 DEF ProviderStep, TaxOfficeDecides, LateRegistration
<1>3. ASSUME NEW p \in Handlers, HandlerStarts(p) \/ ReconcilePendingInvoices(p)
      PROVE  invoice'[j] = invoice[j]
  <2>1. CASE ReconcilePendingInvoices(p)
    BY <2>1 DEF ReconcilePendingInvoices
  <2>2. ASSUME NEW i \in Invoices, NEW k \in Keys, IssueTaxInvoice(p, i, k)
        PROVE  invoice'[j] = invoice[j]
    <3>1. \/ UNCHANGED invoice
          \/ invoice[i].status \in {"approved", "failed"} /\ \E r : Store(i, r)
      BY <2>2 DEF IssueTaxInvoice
    <3>. QED  BY <1>0, <3>1, StoreElsewhere DEF Finished
  <2>3. ASSUME NEW i \in Invoices, NEW k \in Keys, ApplyWebhook(p, i, k)
        PROVE  invoice'[j] = invoice[j]
    <3>1. \/ UNCHANGED invoice
          \/ invoice[i].status = "failed" /\ \E r : Store(i, r)
      BY <2>3 DEF ApplyWebhook
    <3>. QED  BY <1>0, <3>1, StoreElsewhere DEF Finished
  <2>4. ASSUME NEW i \in Invoices, IssueInternalStatement(p, i)
        PROVE  invoice'[j] = invoice[j]
    <3>1. \/ UNCHANGED invoice
          \/ invoice[i].status = "approved" /\ \E r : Store(i, r)
      BY <2>4 DEF IssueInternalStatement
    <3>. QED  BY <1>0, <3>1, StoreElsewhere DEF Finished
  <2>. QED  BY <1>3, <2>1, <2>2, <2>3, <2>4 DEF HandlerStarts
<1>4. ASSUME NEW p \in Handlers, HandlerStep(p) \/ HandlerFails(p)
      PROVE  invoice'[j] = invoice[j]
  <2>0. /\ Internal => step[p] \in {"idle", "stating", "locking"}
        /\ \A r, s : Update(p, r, s) /\ step[p] \in Working \cup Writing
                     /\ (~Internal \/ step[p] = "stating") => invoice'[j] = invoice[j]
    BY UpdateElsewhere DEF IInv, Apart
  <2>1. CASE SaveIssued(p) \/ SavePending(p) \/ SettleSuccess(p) \/ SaveStatement(p)
    BY <2>0, <2>1 DEF SaveIssued, SavePending, SettleSuccess, SaveStatement, Working, Writing
  <2>2. CASE SettleRefused(p)
    <3>1. step[p] = "settling" /\ step[p] \in Writing
      BY <2>2 DEF SettleRefused, Writing
    <3>2. view[p].id \in Invoices /\ view[p].row.status = "nts_pending"
      BY <1>0, <3>1, AtWork DEF Fits
    <3>3. CASE Current(p)
      <4>1. invoice[view[p].id] = view[p].row
        BY <1>0, <3>1, <3>3, CurrentRow
      <4>. QED  BY <1>0, <2>2, <3>2, <3>3, <4>1, StoreElsewhere DEF SettleRefused, Finished
    <3>. QED  BY <2>2, <3>3 DEF SettleRefused
  <2>3. CASE Caught(p)
    <3>1. view[p].id \in Invoices /\ ~Internal
      BY <2>0, <2>3 DEF Caught, IInv, HandlersSound, Sound
    <3>2. \/ UNCHANGED invoice
          \/ invoice[view[p].id].status \in {"queued", "issued"} /\ \E r : Store(view[p].id, r)
      BY <2>3 DEF Caught
    <3>. QED  BY <1>0, <3>1, <3>2, StoreElsewhere DEF Finished
  <2>4. CASE \/ Asked(p) \/ Registered(p) \/ Recovered(p) \/ Confirmed(p) \/ SettleLater(p)
             \/ LockSettlement(p) \/ StatusChecked(p)
             \/ \E todo \in view[p].todo : ReconcileInvoice(p, todo[1], todo[2])
    BY <2>4 DEF Asked, Registered, Recovered, Confirmed, SettleLater, LockSettlement,
                StatusChecked, ReconcileInvoice
  <2>5. CASE HandlerFails(p)
    BY <2>5 DEF HandlerFails, RegistrationRejected, RegistrationUncertain, OutcomeUnknown, Fails, Crash
  <2>. QED  BY <1>4, <2>1, <2>2, <2>3, <2>4, <2>5 DEF HandlerStep
<1>. QED  BY <1>1, <1>2, <1>3, <1>4 DEF Next

-----------------------------------------------------------------------------
(* Locking the settlement.                                                   *)

LEMMA OnlyLockSettlement ==
    ASSUME Next
    PROVE  UNCHANGED settlement \/ \E p \in Handlers : LockSettlement(p)
<1>1. OfficeStep \/ ProviderStep => UNCHANGED settlement
  BY DEF OfficeStep, ProviderStep, CreateInvoiceDraft, CreateModifiedInvoice, ReviewInvoice,
         ApproveInvoice, RetryInvoice, OfficeOnly, TaxOfficeDecides, LateRegistration, books
<1>2. ASSUME NEW p \in Handlers, HandlerStarts(p) \/ ReconcilePendingInvoices(p)
      PROVE  UNCHANGED settlement
  BY <1>2 DEF HandlerStarts, ReconcilePendingInvoices, IssueTaxInvoice, ApplyWebhook,
              IssueInternalStatement, books
<1>3. ASSUME NEW p \in Handlers, HandlerStep(p) \/ HandlerFails(p)
      PROVE  UNCHANGED settlement \/ LockSettlement(p)
  BY <1>3 DEF HandlerStep, HandlerFails, Asked, Registered, Recovered, Confirmed, Caught,
              SaveIssued, SavePending, SettleSuccess, SettleRefused, SettleLater,
              SaveStatement, StatusChecked, ReconcileInvoice, RegistrationRejected,
              RegistrationUncertain, OutcomeUnknown, Fails, Crash, books
<1>. QED  BY <1>1, <1>2, <1>3 DEF Next

LEMMA LockedStep ==
    ASSUME IInv, Next
    PROVE  LockedByWholeGroup'
<1>1. CASE CreateInvoiceDraft
  BY <1>1 DEF CreateInvoiceDraft, OfficeOnly, LockedByWholeGroup
<1>2. ASSUME ~CreateInvoiceDraft, settlement' = "locked"
      PROVE  \E i \in Invoices : \A j \in Group(i) : invoice'[j].status = FinalStatus'
  <2>1. ~NoDrafts
    BY <1>2, OnlyDrafts
  <2>2. UNCHANGED issueType
    BY <2>1, InternalStep, ExternalStep
  <2>3. PICK i \in Invoices : \A j \in Group(i) : invoice[j].status = FinalStatus
    <3>1. CASE settlement = "locked"
      BY <3>1 DEF IInv, LockedByWholeGroup
    <3>2. CASE settlement # "locked"
      <4>1. PICK p \in Handlers : LockSettlement(p)
        BY <1>2, <3>2, OnlyLockSettlement
      <4>2. view[p].id \in Invoices /\ GroupComplete(view[p].id)
        BY <1>2, <3>2, <4>1 DEF LockSettlement, IInv, HandlersSound, Sound
      <4>. QED  BY <4>2 DEF GroupComplete
    <3>. QED  BY <3>1, <3>2
  <2>4. \A j \in Group(i) : j \in Invoices /\ Finished(j)
    BY <2>3 DEF Group, Invoices, Finished, FinalStatus
  <2>5. \A j \in Group(i) : invoice'[j] = invoice[j]
    BY <2>4, FinishedStays
  <2>6. FinalStatus' = FinalStatus
    BY <2>2 DEF FinalStatus, Internal
  <2>. QED  BY <2>3, <2>5, <2>6
<1>. QED  BY <1>1, <1>2 DEF LockedByWholeGroup, Group

-----------------------------------------------------------------------------
(* The theorems.                                                             *)

LEMMA InitIInv == Init => IInv
<1>. SUFFICES ASSUME Init PROVE IInv
  OBVIOUS
<1>1. TypeOK
  <2>1. document \in [Invoices -> [Keys -> DocumentStatuses]]
    BY DEF Init, DocumentStatuses
  <2>2. left \in [Events -> 0..MaxAttempts] /\ faults \in 0..MaxFaults
    BY DEF Init
  <2>. QED  BY <2>1, <2>2, BlankType DEF Init, TypeOK, Steps
<1>2. Blank.status = "absent" /\ Blank.version = 0 /\ Blank.receipt = None
  BY DEF Blank, Row
<1>3. HandlersSound
  <2>1. Sound("idle", Nothing, invoice, document)
    BY DEF Sound, Nothing, View, Working, Writing, ListFresh
  <2>. QED  BY <2>1 DEF Init, HandlersSound
<1>4. RowsHonest /\ RowsReported
  BY <1>2 DEF Init, RowsHonest, RowsReported, Honest, Reported
<1>5. NoDocuments
  BY DEF Init, NoDocuments
<1>6. Untouched
  BY <1>2, <1>5 DEF Init, Untouched
<1>7. Apart
  BY <1>5 DEF Init, Apart, Internal, Nothing, View
<1>8. LockedByWholeGroup
  BY DEF Init, LockedByWholeGroup
<1>. QED  BY <1>1, <1>3, <1>4, <1>6, <1>7, <1>8 DEF IInv

LEMMA NextIInv == IInv /\ [Next]_vars => IInv'
<1>. SUFFICES ASSUME IInv, [Next]_vars PROVE IInv'
  OBVIOUS
<1>1. CASE Next
  <2>1. TypeOK'
    BY <1>1, StepType DEF IInv
  <2>2. Kept
    BY <1>1, <2>1, StepKept
  <2>3. Untouched' /\ Apart' /\ LockedByWholeGroup'
    BY <1>1, <2>1, <2>2, UntouchedStep, ApartStep, LockedStep
  <2>. QED  BY <2>1, <2>2, <2>3 DEF IInv, Kept
<1>2. CASE UNCHANGED vars
  BY <1>2 DEF vars, IInv, TypeOK, HandlersSound, RowsHonest, RowsReported, Untouched, Apart,
              NoDocuments, LockedByWholeGroup, Group, FinalStatus, Internal
<1>. QED  BY <1>1, <1>2

THEOREM Inductive == Spec => []IInv
  BY InitIInv, NextIInv, PTL DEF Spec

(* TypeOK, for all parts, handlers and bounds.                               *)
THEOREM TypeCorrect == Spec => []TypeOK
<1>1. IInv => TypeOK
  BY DEF IInv
<1>. QED  BY <1>1, Inductive, PTL

(* No stale answer of the provider (worker.ts) gets into an invoice: issued  *)
(* rows have a document, and reported or cancelled rows one that is.         *)
THEOREM Outcomes == Spec => []OutcomeIsTheProviders
<1>1. IInv => OutcomeIsTheProviders
  BY DEF IInv, RowsReported, Reported, OutcomeIsTheProviders
<1>. QED  BY <1>1, Inductive, PTL

(* Webhooks, matched by receipt or key (applyPopbillWebhook), only reach the *)
(* document of the attempt the invoice is on.                                *)
THEOREM Receipts == Spec => []ReceiptNamesDocument
<1>1. IInv => ReceiptNamesDocument
  BY DEF IInv, RowsHonest, Honest, ReceiptNamesDocument
<1>. QED  BY <1>1, Inductive, PTL

(* lockSettlementIfInvoiceGroupComplete locks for a whole group only, and    *)
(* the group stays final.                                                    *)
THEOREM Locked == Spec => []LockedByWholeGroup
<1>1. IInv => LockedByWholeGroup
  BY DEF IInv
<1>. QED  BY <1>1, Inductive, PTL

(* Whatever handlers, webhooks and listed rows still arrive, a reported      *)
(* invoice is not written again.                                             *)
THEOREM Success == Spec => SuccessIsFinal
<1>1. IInv /\ [Next]_vars =>
        [\A i \in Invoices : invoice[i].status = "nts_success" => invoice'[i] = invoice[i]]_vars
  BY FinishedStays DEF Finished
<1>. QED  BY <1>1, Inductive, PTL DEF Spec, SuccessIsFinal
=============================================================================
