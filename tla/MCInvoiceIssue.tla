--------------------------- MODULE MCInvoiceIssue ---------------------------
(* Small instances of InvoiceIssue; handlers, parts and modified invoices    *)
(* are interchangeable.                                                      *)
EXTENDS InvoiceIssue, TLC

Symmetry == Permutations(Parts) \cup Permutations(Handlers)
=============================================================================
