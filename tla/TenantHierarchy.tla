-------------------------- MODULE TenantHierarchy --------------------------
(***************************************************************************)
(* Multi-tenancy: a tenant, its workspaces and their environments, and the *)
(* requests that register, suspend, reactivate and delete them             *)
(* (tenant_registry_service.py, workspace_service.py,                      *)
(* environment_service.py).                                                *)
(*                                                                         *)
(* Suspending or deleting a node cascades to what is under it, in the same *)
(* request but in a commit per node: pages are listed, and each row listed *)
(* is moved with a compare-and-swap on the version it was listed with.     *)
(* The tenant itself has no version and is written unconditionally.        *)
(*                                                                         *)
(* A node is named by its path: <<>> is the tenant, <<w>> a workspace and  *)
(* <<w, e>> an environment, numbered in the order of creation.             *)
(*                                                                         *)
(* Abstracted: names, owners, labels, regions and residency, audit events, *)
(* organisations (nothing cascades from them), the tenant's event outbox.  *)
(***************************************************************************)
EXTENDS Naturals, SequencesExt

CONSTANTS
    MaxWorkspaces,      \* bound: workspaces of the tenant
    MaxEnvironments,    \* bound: environments of a workspace
    HierarchyRequests,  \* the suspend, reactivate and delete requests made
    PageSize            \* _CASCADE_PAGE_SIZE

ASSUME HierarchyAssumption ==
    MaxWorkspaces \in Nat /\ MaxEnvironments \in Nat /\ PageSize \in Nat \ {0}

VARIABLES
    tenantStatus,       \* the tenant's row
    node,               \* the rows of workspaces and environments
    hreq                \* the requests: what they are about, and what is left to do

hierarchyVars == <<tenantStatus, node, hreq>>

Tenant == <<>>
Workspaces == {<<w>> : w \in 1..MaxWorkspaces}
Environments == {<<w, e>> : w \in 1..MaxWorkspaces, e \in 1..MaxEnvironments}
Nodes == Workspaces \cup Environments

IsLegal(from, to) == <<from, to>> \in
    {<<"active", "suspended">>, <<"active", "deleted">>,
     <<"suspended", "active">>, <<"suspended", "deleted">>}

Exists(n) == IF n = Tenant THEN TRUE ELSE node[n].status # "absent"

(* The children of p that exist, newest first. *)
Listed(p) ==
    LET size == Cardinality({n \in Nodes : Exists(n) /\ Front(n) = p}) IN
    [i \in 1..size |-> Append(p, size + 1 - i)]

(* One thing a request has still to do: "read" and "save" the tenant,      *)
(* "get" and "swap" a node expected to be at a version, and "count" the    *)
(* rows under a node and list a page of these "rows" from an offset on.    *)
Todo(do, n, number) == [do |-> do, on |-> n, number |-> number, total |-> 0]

HierarchyInit ==
    /\ tenantStatus = "active"
    /\ node = [n \in Nodes |-> [status |-> "absent", version |-> 0]]
    /\ hreq = [r \in HierarchyRequests |->
                 [at |-> "idle", on |-> Tenant, to |-> "active", todo |-> <<>>, covers |-> {}]]

(* register: the parent has to exist, whatever its status. *)
RegisterNode(n) ==
    /\ ~Exists(n) /\ Exists(Front(n))
    /\ \A i \in 1..(Last(n) - 1) : Exists(Append(Front(n), i))
    /\ node' = [node EXCEPT ![n] = [status |-> "active", version |-> 1]]
    /\ UNCHANGED <<tenantStatus, hreq>>

(* A client asks for a transition; of a node, with the version it has seen. *)
AskTransition(r, n, to) ==
    /\ hreq[r].at = "idle" /\ Exists(n)
    /\ hreq' = [hreq EXCEPT ![r] =
         [at |-> "busy", on |-> n, to |-> to, covers |-> {},
          todo |-> << IF n = Tenant THEN Todo("read", n, 0)
                      ELSE Todo("get", n, node[n].version) >>]]
    /\ UNCHANGED <<tenantStatus, node>>

Next1(r) == Head(hreq[r].todo)

Does(r, do) == hreq[r].at = "busy" /\ Next1(r).do = do

(* The first thing to do is replaced by others. *)
Continue(r, others) ==
    LET left == others \o Tail(hreq[r].todo) IN
    hreq' = [hreq EXCEPT ![r].todo = left, ![r].at = IF left = <<>> THEN "done" ELSE "busy"]

End(r, how) == hreq' = [hreq EXCEPT ![r].at = how, ![r].todo = <<>>]

(* TenantRegistryService._transition, in two steps. *)
ReadTenant(r) ==
    /\ Does(r, "read")
    /\ IF IsLegal(tenantStatus, hreq[r].to)
       THEN Continue(r, <<Todo("save", Tenant, 0)>>)
       ELSE End(r, "refused")
    /\ UNCHANGED <<tenantStatus, node>>

(* Suspending and deleting go on with the cascade; reactivating does not. *)
Cascade(r, n) ==
    IF hreq[r].to = "active" \/ n \in Environments THEN <<>> ELSE <<Todo("count", n, 0)>>

(* What the request covers: all that exists when its own node is written. *)
Covers(r, n) ==
    IF n = hreq[r].on THEN {m \in Nodes : Exists(m)} ELSE hreq[r].covers

SaveTenant(r) ==
    /\ Does(r, "save")
    /\ tenantStatus' = hreq[r].to
    /\ LET left == Cascade(r, Tenant) IN
       hreq' = [hreq EXCEPT ![r].todo = left, ![r].covers = Covers(r, Tenant),
                            ![r].at = IF left = <<>> THEN "done" ELSE "busy"]
    /\ UNCHANGED node

(* _transition of a workspace or environment: the check, on a copy ... *)
GetNode(r) ==
    /\ Does(r, "get")
    /\ LET n == Next1(r).on IN
       IF IsLegal(node[n].status, hreq[r].to)
       THEN Continue(r, <<[Next1(r) EXCEPT !.do = "swap"]>>)
       ELSE End(r, IF n = hreq[r].on THEN "refused" ELSE "failed")
    /\ UNCHANGED <<tenantStatus, node>>

(* Bug: the update does not compare the version. *)
SwapNodeBlindly(r) ==
    /\ Does(r, "swap")
    /\ LET n == Next1(r).on IN
       /\ node' = [node EXCEPT ![n] = [status |-> hreq[r].to, version |-> @.version + 1]]
       /\ Continue(r, Cascade(r, n))
    /\ UNCHANGED tenantStatus

(* ... and the compare-and-swap.  One that fails ends the whole request.   *)
SwapNode(r) ==
    /\ Does(r, "swap")
    /\ LET n == Next1(r).on
           left == Cascade(r, n) \o Tail(hreq[r].todo)
       IN  IF node[n].version = Next1(r).number
           THEN /\ node' = [node EXCEPT ![n] = [status |-> hreq[r].to, version |-> @.version + 1]]
                /\ hreq' = [hreq EXCEPT ![r].todo = left, ![r].covers = Covers(r, n),
                                        ![r].at = IF left = <<>> THEN "done" ELSE "busy"]
           ELSE End(r, "failed") /\ UNCHANGED node
    /\ UNCHANGED tenantStatus

(* What the cascade does with a row: what is under a workspace first, and  *)
(* then the row itself, if it can make the transition by its listed status *)
Handle(r, n) ==
    Cascade(r, n) \o
    IF IsLegal(node[n].status, hreq[r].to) THEN <<Todo("get", n, node[n].version)>> ELSE <<>>

Page(p, offset) ==
    LET rows == Listed(p)
        end == IF offset + PageSize < Len(rows) THEN offset + PageSize ELSE Len(rows)
    IN  SubSeq(rows, offset + 1, end)

(* list_workspaces, list_environments are two queries: how many rows there *)
(* are, ...                                                                *)
CountRows(r) ==
    /\ Does(r, "count")
    /\ Continue(r, <<[Next1(r) EXCEPT !.do = "rows", !.total = Len(Listed(Next1(r).on))]>>)
    /\ UNCHANGED <<tenantStatus, node>>

(* What is left of a cascade after a page up to "seen": another page, if   *)
(* there were more rows when they were counted.                            *)
NextPage(r, page, seen) ==
    IF page # <<>> /\ seen < Next1(r).total THEN <<Todo("count", Next1(r).on, seen)>> ELSE <<>>

(* Bug: the next page leaves out a row. *)
ListRowsSkipping(r) ==
    /\ Does(r, "rows")
    /\ LET page == Page(Next1(r).on, Next1(r).number) IN
       Continue(r, FlattenSeq([i \in DOMAIN page |-> Handle(r, page[i])])
                   \o NextPage(r, page, Next1(r).number + Len(page) + 1))
    /\ UNCHANGED <<tenantStatus, node>>

(* ... and a page of them.                                                 *)
ListRows(r) ==
    /\ Does(r, "rows")
    /\ LET page == Page(Next1(r).on, Next1(r).number) IN
       Continue(r, FlattenSeq([i \in DOMAIN page |-> Handle(r, page[i])])
                   \o NextPage(r, page, Next1(r).number + Len(page)))
    /\ UNCHANGED <<tenantStatus, node>>

RequestDies(r) ==
    /\ hreq[r].at = "busy"
    /\ End(r, "failed")
    /\ UNCHANGED <<tenantStatus, node>>

HierarchyNext ==
    \/ \E n \in Nodes : RegisterNode(n)
    \/ \E r \in HierarchyRequests :
         \/ \E n \in Nodes \cup {Tenant}, to \in {"active", "suspended", "deleted"} :
              AskTransition(r, n, to)
         \/ ReadTenant(r) \/ SaveTenant(r) \/ GetNode(r) \/ SwapNode(r)
         \/ CountRows(r) \/ ListRows(r) \/ RequestDies(r)

HierarchySpec == HierarchyInit /\ [][HierarchyNext]_hierarchyVars

-----------------------------------------------------------------------------
(* Properties.                                                             *)

(* Whatever requests race, a workspace or environment that is deleted      *)
(* stays deleted (core/domain.py:54-58): the check is made on a copy and   *)
(* only the version says that the copy is still true.                      *)
DeletedStaysDeleted ==
    [][\A n \in Nodes : node[n].status = "deleted" => node'[n].status = "deleted"]_hierarchyVars

Under(n, p) == IsStrictPrefix(p, n)

(* A sibling of n, or of the workspace it is in, has come since r began its *)
(* cascade: between a count and its page it pushes a row off the last page. *)
PagesShifted(r, n) ==
    \E m \in Nodes \ hreq[r].covers :
      Exists(m) /\ Under(m, hreq[r].on) /\ Under(n, Front(m))

(* A deletion that has been answered with success has reached all that was *)
(* under its node when it was written (tenant_registry_service.py:126-135:  *)
(* "never leaves an orphaned, still-ACTIVE child"), page by page, beside   *)
(* any other request, unless a registration has shifted the pages.         *)
DeletionReachesAll ==
    \A r \in HierarchyRequests :
      hreq[r].at = "done" /\ hreq[r].to = "deleted" =>
        \A n \in hreq[r].covers :
          Under(n, hreq[r].on) => node[n].status = "deleted" \/ PagesShifted(r, n)

(* tenant_registry_service.py:137-141: the cascade is "safe to re-run ...  *)
(* re-invoking this after a partial failure (a crash mid-cascade, a retried *)
(* request) converges".  Once the repeated request is over, nothing that   *)
(* the first one was to reach is left active.                              *)
RetriedCascadeConverges ==
    \A q, r \in HierarchyRequests :
      hreq[q].at = "failed" /\ hreq[r].at \in {"refused", "done"}
      /\ hreq[q].on = hreq[r].on /\ hreq[q].to = hreq[r].to /\ hreq[r].to = tenantStatus =>
        \A n \in hreq[q].covers : Under(n, hreq[q].on) => node[n].status # "active"

=============================================================================
