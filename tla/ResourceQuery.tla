----------------------------- MODULE ResourceQuery -----------------------------
(***************************************************************************)
(* suite_api._query_resources(): the resources of one kind, read page by   *)
(* page with POST /api/resources/query, while VCF Operations discovers and *)
(* forgets resources of that kind.                                         *)
(*                                                                         *)
(* The server cuts its list, as it is when the request arrives, into pages *)
(* of PageSize.  A page is a position in that list, so what is inserted or *)
(* removed before it shifts every resource behind.                         *)
(***************************************************************************)
EXTENDS Integers, Sequences, SequencesExt

CONSTANTS
    Resource,       \* what can be found
    PageSize,       \* RESOURCE_QUERY_PAGE_SIZE
    Inventories,    \* bound: the lists to begin with
    MaxChanges      \* bound: how often the inventory changes in a behaviour

ASSUME QueryAssumption ==
    /\ Inventories \subseteq Seq(Resource) /\ \A list \in Inventories : IsInjective(list)
    /\ PageSize \in Nat \ {0} /\ MaxChanges \in Nat

VARIABLES
    inventory,      \* the server's list
    changes,        \* how often it has changed
    query,          \* "idle", "paging", "complete", or "failed": raised SuiteApiError
    page, pages,    \* page and pages
    resources,      \* resources
    stayed,         \* history: what has been in the inventory since the query began
    events          \* history: what happened since then: something was "added" or
                    \* "removed", or a reply was "uncounted"

progress == <<query, page, pages, resources>>
queryVars == <<inventory, changes, progress, stayed, events>>

--------------------------------------------------------------------------------
Least(a, b) == IF a <= b THEN a ELSE b

\* Mutants: one too few; no page for an empty list.
CeilDivOffByOne(n, d) == (n + d - 2) \div d
CeilDiv(n, d) == (n + d - 1) \div d
PagesWithoutMinimum(total) == CeilDiv(total, PageSize)

PageOf(list, p) == SubSeq(list, p * PageSize + 1, Least((p + 1) * PageSize, Len(list)))
PagesOf(total) == IF CeilDiv(total, PageSize) > 1 THEN CeilDiv(total, PageSize) ELSE 1

QueryInit ==
    /\ inventory \in Inventories
    /\ changes = 0
    /\ query = "idle" /\ page = 0 /\ pages = 1 /\ resources = <<>>
    /\ stayed = {} /\ events = {}

Change == /\ query = "paging"
          /\ changes < MaxChanges /\ changes' = changes + 1
          /\ UNCHANGED progress

Discover ==
    \E r \in Resource \ ToSet(inventory), i \in 1..(Len(inventory) + 1) :
        /\ Change
        /\ inventory' = InsertAt(inventory, i, r)
        /\ events' = events \cup {"added"}
        /\ UNCHANGED stayed

Forget ==
    \E i \in 1..Len(inventory) :
        /\ Change
        /\ inventory' = RemoveAt(inventory, i)
        /\ stayed' = stayed \ {inventory[i]}
        /\ events' = events \cup {"removed"}

StartQuery ==
    /\ query # "paging"
    /\ query' = "paging" /\ page' = 0 /\ pages' = 1 /\ resources' = <<>>
    /\ stayed' = ToSet(inventory) /\ events' = {}
    /\ UNCHANGED <<inventory, changes>>

\* Mutant: it starts over when the number of pages has changed, and keeps what it has.
ReplyStartingOver(total, lastPage) ==
    /\ query = "paging"
    /\ resources' = resources \o PageOf(inventory, page)
    /\ pages' = lastPage
    /\ page' = IF page > 0 /\ lastPage # pages THEN 0 ELSE page + 1
    /\ query' = IF page' < pages' THEN "paging" ELSE "complete"
    /\ UNCHANGED <<inventory, changes, stayed, events>>

Reply(total, lastPage) ==
    /\ query = "paging"
    /\ resources' = resources \o PageOf(inventory, page)
    /\ pages' = lastPage
    /\ page' = page + 1
    /\ query' = IF page' < pages' THEN "paging" ELSE "complete"
    /\ events' = IF total = Len(inventory) THEN events ELSE events \cup {"uncounted"}
    /\ UNCHANGED <<inventory, changes, stayed>>

\* Mutant: as many pages as the first reply said.
ReadPageCountingOnce ==
    \E total \in {Len(inventory), Len(resources \o PageOf(inventory, page))} :
        Reply(total, IF page = 0 THEN PagesOf(total) ELSE pages)

\* A reply without pageInfo counts what has been read.
ReadPage ==
    \E total \in {Len(inventory), Len(resources \o PageOf(inventory, page))} :
        Reply(total, PagesOf(total))

\* A page refused, or a request that raised.
FailPage ==
    /\ query = "paging"
    /\ query' = "failed"
    /\ UNCHANGED <<inventory, changes, page, pages, resources, stayed, events>>

--------------------------------------------------------------------------------
QueryTypeOK ==
    /\ inventory \in Seq(Resource) /\ changes \in 0..MaxChanges
    /\ query \in {"idle", "paging", "complete", "failed"}
    /\ page \in Nat /\ pages \in Nat \ {0} /\ resources \in Seq(Resource)
    /\ stayed \subseteq Resource /\ events \subseteq {"added", "removed", "uncounted"}

(* A query during which nothing changed lists the inventory: each resource  *)
(* of it, once.                                                             *)
QuietQueryIsExact == query = "complete" /\ events = {} => resources = inventory

(* New resources alone never hide an old one: what was there throughout is  *)
(* listed unless something was removed, and shifted it to a page already    *)
(* read, or a reply did not count the resources, and so ended the query.    *)
PresentIsListed ==
    query = "complete" /\ events \subseteq {"added"} => stayed \subseteq ToSet(resources)

(* Nothing is listed twice unless a resource was inserted and shifted it to *)
(* a page not read yet.                                                     *)
ListedOnce == "added" \notin events => IsInjective(resources)
================================================================================
