----------------------------- MODULE MCServices -----------------------------
(***************************************************************************)
(* The services that keep state of their own and share none, each model-   *)
(* checked alone: a behaviour is one of the service that its first state   *)
(* has chosen, and all the others stay as they start.                      *)
(***************************************************************************)
EXTENDS TenantHierarchy, QuotaCounter, ResourceAllocation, InvoiceService,
        EvidenceQueue, AuditChain, CircuitBreaker, SecretLifecycle,
        ConversationSession, RolloutService

VARIABLE service    \* the service that runs

Prices == <<"runs">>

ServicesInit ==
    /\ service \in {"tenants", "quotas", "allocations", "invoices", "evidence", "audit",
                    "breaker", "secrets", "conversations", "rollouts"}
    /\ HierarchyInit /\ QuotaInit /\ AllocationInit /\ InvoiceInit /\ EvidenceInit
    /\ ChainInit /\ BreakerInit /\ SecretInit /\ RolloutInit
    /\ IF service = "conversations" THEN ChatInit ELSE ChatInit /\ ~routed

Runs(name) == service = name /\ UNCHANGED service

(* Calls are numbered in the order in which they begin: they are alike, so *)
(* that any behaviour is one of these but for their names.                 *)
InTurn(call) ==
    \A c, d \in DOMAIN call : c < d /\ call[c].at = "idle" => call[d].at = "idle"

(* Requests about the tenancy are numbered in the order of what they ask,  *)
(* for the same reason.                                                    *)
Asks(request) ==
    Len(request.on) * 3
      + CASE request.to = "active" -> 0 [] request.to = "suspended" -> 1 [] OTHER -> 2

InOrder(request) ==
    \A q, r \in DOMAIN request :
      q < r /\ request[q].at # "idle" /\ request[r].at # "idle" =>
        Asks(request[q]) <= Asks(request[r])

ServicesNext ==
    \/ /\ Runs("tenants") /\ HierarchyNext /\ InOrder(hreq')
       /\ UNCHANGED <<quotaVars, allocationVars, invoiceVars, evidenceVars, chainVars,
                      breakerVars, secretVars, chatVars, rolloutVars>>
    \/ /\ Runs("quotas") /\ QuotaNext /\ InTurn(quotaCall')
       /\ UNCHANGED <<hierarchyVars, allocationVars, invoiceVars, evidenceVars, chainVars,
                      breakerVars, secretVars, chatVars, rolloutVars>>
    \/ /\ Runs("allocations") /\ AllocationNext
       /\ UNCHANGED <<hierarchyVars, quotaVars, invoiceVars, evidenceVars, chainVars,
                      breakerVars, secretVars, chatVars, rolloutVars>>
    \/ /\ Runs("invoices") /\ InvoiceNext /\ InTurn(billing')
       /\ UNCHANGED <<hierarchyVars, quotaVars, allocationVars, evidenceVars, chainVars,
                      breakerVars, secretVars, chatVars, rolloutVars>>
    \/ /\ Runs("evidence") /\ EvidenceNext
       /\ UNCHANGED <<hierarchyVars, quotaVars, allocationVars, invoiceVars, chainVars,
                      breakerVars, secretVars, chatVars, rolloutVars>>
    \/ /\ Runs("audit") /\ ChainNext
       /\ UNCHANGED <<hierarchyVars, quotaVars, allocationVars, invoiceVars, evidenceVars,
                      breakerVars, secretVars, chatVars, rolloutVars>>
    \/ /\ Runs("breaker") /\ BreakerNext
       /\ UNCHANGED <<hierarchyVars, quotaVars, allocationVars, invoiceVars, evidenceVars,
                      chainVars, secretVars, chatVars, rolloutVars>>
    \/ /\ Runs("secrets") /\ SecretNext
       /\ UNCHANGED <<hierarchyVars, quotaVars, allocationVars, invoiceVars, evidenceVars,
                      chainVars, breakerVars, chatVars, rolloutVars>>
    \/ /\ Runs("conversations") /\ ChatNext
       /\ UNCHANGED <<hierarchyVars, quotaVars, allocationVars, invoiceVars, evidenceVars,
                      chainVars, breakerVars, secretVars, rolloutVars>>
    \/ /\ Runs("rollouts") /\ RolloutNext
       /\ UNCHANGED <<hierarchyVars, quotaVars, allocationVars, invoiceVars, evidenceVars,
                      chainVars, breakerVars, secretVars, chatVars>>

(* The fairness of the service that runs. *)
ServicesFairness ==
    /\ \A w \in PackWorkers : WF_evidenceVars(service = "evidence" /\ PackWorkerStep(w))
    /\ \A p \in Packs : WF_evidenceVars(service = "evidence" /\ PackLeaseEnds(p))
    /\ \A c \in Callers : WF_breakerVars(service = "breaker" /\ CallerStep(c))
    /\ WF_breakerVars(service = "breaker" /\ WindowEnds)

ServicesVars == <<service, hierarchyVars, quotaVars, allocationVars, invoiceVars,
                  evidenceVars, chainVars, breakerVars, secretVars, chatVars, rolloutVars>>

ServicesSpec == ServicesInit /\ [][ServicesNext]_ServicesVars /\ ServicesFairness

=============================================================================
