--------------------------- MODULE InvoiceService ---------------------------
(***************************************************************************)
(* Billing and Metering: the invoice of one tenant for one period, which   *)
(* calls generate from metered usage, any number of times while it is a    *)
(* draft, and finalize (core/invoice_service.py, core/metering_service.py).*)
(*                                                                         *)
(* Nothing locks the invoice: a call reads it, meters resource by resource *)
(* and saves its copy, which is a SELECT of the row and an UPDATE of the   *)
(* columns in which the copy differs from what was selected.  A unique     *)
(* constraint keeps the period to one invoice, and usage records are       *)
(* upserted.                                                               *)
(*                                                                         *)
(* Abstracted: every unit price is 1; the plan does not change; lines are  *)
(* told apart by the call that wrote them; metrics.                        *)
(***************************************************************************)
EXTENDS Naturals, Sequences, FiniteSetsExt

CONSTANTS
    UnitPrices,     \* the resources the plan has a price for, in order
    BillingCalls,   \* generate and finalize calls
    MaxUsage        \* bound: usage of one resource in the period

VARIABLES
    usage,          \* what the sources would answer now, by resource
    usageRecords,   \* the metering ledger: recorded quantity by resource
    invoice,        \* the invoices row
    lines,          \* the invoice_lines rows
    billing,        \* the calls
    savesCrossed    \* history: a row was selected while another save was under way

invoiceVars == <<usage, usageRecords, invoice, lines, billing, savesCrossed>>

Resources == {UnitPrices[i] : i \in DOMAIN UnitPrices}

ASSUME PricesAssumption == UnitPrices \in Seq(Resources)

NoInvoice == [status |-> "absent", total |-> 0, complete |-> TRUE]
BillingOver == {"idle", "done", "returned", "refused", "died"}

(* A call: its copy of the invoice and the row it has selected to save it, *)
(* the number of resources it has metered, the records and the             *)
(* completeness it has found, the lines its DELETE saw.                    *)
(* "alone" is history: no other call has run, or begun, since it began.    *)
InvoiceInit ==
    /\ usage = [x \in Resources |-> 0]
    /\ usageRecords = [x \in Resources |-> 0]
    /\ invoice = NoInvoice
    /\ lines = {}
    /\ billing = [c \in BillingCalls |->
         [at |-> "idle", copy |-> NoInvoice, selected |-> NoInvoice, metered |-> 0,
          records |-> {}, complete |-> TRUE, deleted |-> {}, alone |-> FALSE]]
    /\ savesCrossed = FALSE

Total(records) == MapThenSumSet(LAMBDA x : x.quantity, records)

(* Call c begins: a new row of billing, and no call is alone any more      *)
(* unless all the others are over.                                         *)
BillingBegins(c, at) ==
    LET alone == \A d \in BillingCalls \ {c} : billing[d].at \in BillingOver IN
    /\ billing[c].at = "idle"
    /\ billing' = [d \in BillingCalls |->
         IF d = c THEN [billing[c] EXCEPT !.at = at, !.copy = invoice, !.alone = alone]
         ELSE [billing[d] EXCEPT !.alone = FALSE]]

UseMore(x) ==
    /\ usage[x] < MaxUsage
    /\ usage' = [usage EXCEPT ![x] = @ + 1]
    /\ UNCHANGED <<usageRecords, invoice, lines, billing, savesCrossed>>

(* generate_invoice: a finalized invoice is returned as it is. *)
ReadForInvoice(c) ==
    /\ BillingBegins(c, IF invoice.status = "finalized" THEN "returned" ELSE "meter")
    /\ UNCHANGED <<usage, usageRecords, invoice, lines, savesCrossed>>

Metering(c) == billing[c].at = "meter" /\ billing[c].metered < Len(UnitPrices)

(* meter_tenant, one resource: its quantity is recorded, ... *)
MeterResource(c) ==
    /\ Metering(c)
    /\ LET x == UnitPrices[billing[c].metered + 1] IN
       /\ usageRecords' = [usageRecords EXCEPT ![x] = usage[x]]
       /\ billing' = [billing EXCEPT ![c].metered = @ + 1,
                        ![c].records = @ \cup {[of |-> c, resource |-> x, quantity |-> usage[x]]}]
    /\ UNCHANGED <<usage, invoice, lines, savesCrossed>>

(* or its source cannot be reached, which makes the invoice incomplete, or *)
(* the tenant is not entitled to it, which does not.                       *)
SkipResource(c, unreachable) ==
    /\ Metering(c)
    /\ billing' = [billing EXCEPT ![c].metered = @ + 1,
                                  ![c].complete = @ /\ ~unreachable]
    /\ UNCHANGED <<usage, usageRecords, invoice, lines, savesCrossed>>

(* What a call has saved, or can save no more, it forgets. *)
Forget(call, at) ==
    [call EXCEPT !.at = at, !.copy = NoInvoice, !.selected = NoInvoice, !.deleted = {}]

Metered(c) == billing[c].at = "meter" /\ billing[c].metered = Len(UnitPrices)

(* A new invoice is created, unless another call has created one, which is *)
(* then taken as it is.                                                    *)
CreateInvoice(c) ==
    /\ Metered(c) /\ billing[c].copy.status = "absent"
    /\ invoice' = IF invoice.status = "absent"
                  THEN [status |-> "draft", total |-> Total(billing[c].records),
                        complete |-> billing[c].complete]
                  ELSE invoice
    /\ billing' = [billing EXCEPT ![c] = Forget(@, "delete")]
    /\ UNCHANGED <<usage, usageRecords, lines, savesCrossed>>

Saving(c) == billing[c].at \in {"regenerate", "close"}

(* update_invoice: the row is selected, to save a copy of it. *)
Select(c, from, to, copy) ==
    /\ billing[c].at = from
    /\ billing' = [billing EXCEPT ![c].at = to, ![c].copy = copy, ![c].selected = invoice]
    /\ savesCrossed' = (savesCrossed \/ \E d \in BillingCalls : Saving(d))
    /\ UNCHANGED <<usage, usageRecords, invoice, lines>>

(* The copy with the new total and completeness, its status as it was. *)
SelectForDraft(c) ==
    /\ Metered(c) /\ billing[c].copy.status # "absent"
    /\ Select(c, "meter", "regenerate",
              [billing[c].copy EXCEPT !.total = Total(billing[c].records),
                                      !.complete = billing[c].complete])

(* A column is written if the copy differs in it from the row selected. *)
Column(copy, selected, now) == IF copy = selected THEN now ELSE copy

(* Bug: whether the metering was complete is not written. *)
UpdateInvoiceTotal(c, from, to) ==
    /\ billing[c].at = from
    /\ LET copy == billing[c].copy
           selected == billing[c].selected
       IN  invoice' = [status |-> Column(copy.status, selected.status, invoice.status),
                       total |-> Column(copy.total, selected.total, invoice.total),
                       complete |-> invoice.complete]
    /\ billing' = [billing EXCEPT ![c] = Forget(@, to)]
    /\ UNCHANGED <<usage, usageRecords, lines, savesCrossed>>

(* ... and those columns are updated, whatever the row says by now. *)
UpdateInvoice(c, from, to) ==
    /\ billing[c].at = from
    /\ LET copy == billing[c].copy
           selected == billing[c].selected
       IN  invoice' = [status |-> Column(copy.status, selected.status, invoice.status),
                       total |-> Column(copy.total, selected.total, invoice.total),
                       complete |-> Column(copy.complete, selected.complete, invoice.complete)]
    /\ billing' = [billing EXCEPT ![c] = Forget(@, to)]
    /\ UNCHANGED <<usage, usageRecords, lines, savesCrossed>>

(* replace_invoice_lines: one transaction, in which the DELETE sees the    *)
(* lines of earlier ones ...                                               *)
DeleteLines(c) ==
    /\ billing[c].at = "delete"
    /\ billing' = [billing EXCEPT ![c].at = "insert", ![c].deleted = lines]
    /\ UNCHANGED <<usage, usageRecords, invoice, lines, savesCrossed>>

(* Bug: only lines of the same call are deleted. *)
InsertLinesOnly(c) ==
    /\ billing[c].at = "insert"
    /\ lines' = lines \cup billing[c].records
    /\ billing' = [billing EXCEPT ![c] = Forget(@, "done")]
    /\ UNCHANGED <<usage, usageRecords, invoice, savesCrossed>>

(* ... and which commits with the new ones inserted. *)
InsertLines(c) ==
    /\ billing[c].at = "insert"
    /\ lines' = (lines \ billing[c].deleted) \cup billing[c].records
    /\ billing' = [billing EXCEPT ![c] = Forget(@, "done")]
    /\ UNCHANGED <<usage, usageRecords, invoice, savesCrossed>>

(* finalize: the transition is checked on a copy, which is then saved. *)
ReadForFinalize(c) ==
    /\ invoice.status # "absent"
    /\ BillingBegins(c, IF invoice.status = "draft" THEN "finalize" ELSE "refused")
    /\ UNCHANGED <<usage, usageRecords, invoice, lines, savesCrossed>>

SelectForFinalize(c) ==
    Select(c, "finalize", "close", [billing[c].copy EXCEPT !.status = "finalized"])

BillingDies(c) ==
    /\ billing[c].at \notin BillingOver
    /\ billing' = [billing EXCEPT ![c] = Forget(@, "died")]
    /\ UNCHANGED <<usage, usageRecords, invoice, lines, savesCrossed>>

InvoiceNext ==
    \/ \E x \in Resources : UseMore(x)
    \/ \E c \in BillingCalls :
         \/ ReadForInvoice(c) \/ MeterResource(c)
         \/ \E unreachable \in BOOLEAN : SkipResource(c, unreachable)
         \/ CreateInvoice(c) \/ SelectForDraft(c) \/ UpdateInvoice(c, "regenerate", "delete")
         \/ DeleteLines(c) \/ InsertLines(c)
         \/ ReadForFinalize(c) \/ SelectForFinalize(c) \/ UpdateInvoice(c, "close", "returned")
         \/ BillingDies(c)

InvoiceSpec == InvoiceInit /\ [][InvoiceNext]_invoiceVars

-----------------------------------------------------------------------------
(* Properties.                                                             *)

(* Whatever calls race or die, the total on an invoice and its "complete"  *)
(* flag are each what some call has metered to the end, and what one call  *)
(* has: "metering accuracy is a real flag on every invoice" (the module's  *)
(* README.md:49-52).  Only two saves that cross, each selecting the row    *)
(* before the other updates it, mix one call's total with another's flag.  *)
InvoiceIsOneMetering ==
    invoice.status # "absent" =>
      \E c, d \in BillingCalls :
        /\ billing[c].metered = Len(UnitPrices) /\ invoice.total = Total(billing[c].records)
        /\ billing[d].metered = Len(UnitPrices) /\ invoice.complete = billing[d].complete
        /\ c = d \/ savesCrossed

(* A generation that ends and that no other call has run beside leaves an  *)
(* invoice whose lines are its own and add up to the total, and whose flag *)
(* says whether they are complete, whatever an earlier call that died, or  *)
(* calls that raced, had left (core/invoice_service.py:8-13).              *)
LinesAddUp ==
    \A c \in BillingCalls : billing[c].at = "done" /\ billing[c].alone =>
      /\ lines = billing[c].records
      /\ invoice.total = Total(lines)
      /\ invoice.complete = billing[c].complete

(* core/invoice_service.py:50: "Invoicing is one-way"; core/domain.py:28:  *)
(* "any transition not a value here is illegal".  A finalized invoice is   *)
(* never a draft again.                                                    *)
FinalizedIsFinal ==
    [][invoice.status = "finalized" => invoice'.status = "finalized"]_invoiceVars

=============================================================================
