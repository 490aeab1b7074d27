----------------------------- MODULE MCInvoices -----------------------------
(* InvoiceService alone.                                                   *)
EXTENDS InvoiceService

Price == <<"runs">>
=============================================================================
