------------------------------ MODULE StatusList -------------------------------
(***************************************************************************)
(* StatusHandler.List and EmissionRepository.FindByAPIKeyID: GET           *)
(* /v1/nfse/status, page by page, while documents are inserted.  A page is *)
(* two calls to MongoDB, a count and then a sorted find.                   *)
(*                                                                         *)
(* The client that walks the pages is outside the repository: it asks for  *)
(* pages 1, 2, ... of one size and stops at a page that is shorter than    *)
(* the page_size the answer names.                                         *)
(***************************************************************************)
EXTENDS Integers, FiniteSets, SequencesExt

CONSTANTS
    ApiKeys,
    ListedKey,          \* the key whose requests are listed
    DefaultPageSize,
    MaxPageSize,
    PageSizeParams,     \* ?page_size: {}, which is nothing or not a number, or {n}
    Instants,           \* values of created_at
    MaxDocs             \* bound on the documents

ASSUME StatusListAssumption ==
    /\ ListedKey \in ApiKeys
    /\ MaxPageSize \in Nat
    /\ DefaultPageSize \in 1..MaxPageSize
    /\ \A param \in PageSizeParams : param = {} \/ \E n \in param : n \in Int /\ param = {n}
    /\ Instants \subseteq Nat
    /\ MaxDocs \in Nat

VARIABLES
    collection,     \* emission_requests
    walk

listVars == <<collection, walk>>

Document == [request_id : 1..MaxDocs, api_key_id : ApiKeys, created_at : Instants]

NoWalk == [step |-> "idle"]

ListInit ==
    /\ collection = {}
    /\ walk = NoWalk

Own == {d \in collection : d.api_key_id = ListedKey}

\* parseIntQuery
parseIntQuery(param, default) ==
    IF \E n \in param : n >= 1 THEN CHOOSE n \in param : TRUE ELSE default

\* Mutant: the page size is capped for the find, and reported as it was asked for.
ReportedSizeAsked(asked) == asked

\* PaginatedResult.PageSize, the size after FindByAPIKeyID has capped it.
ReportedSize(asked) == IF asked > MaxPageSize THEN MaxPageSize ELSE asked

PageSize(asked) == IF asked > MaxPageSize THEN MaxPageSize ELSE asked

\* Mutant: a page more than there is.
TotalPagesFloor(count, size) == count \div size + 1

TotalPages(count, size) == (count + size - 1) \div size

Skip(page, size) == (page - 1) * size

\* The orders in which a find may return the documents: those created at one instant come
\* in any.
NewestFirst(S) ==
    {s \in SetToSeqs(S) : \A i, j \in 1..Len(s) : i < j => s[i].created_at >= s[j].created_at}

\* What skip and limit leave of an order.
PageOf(order, page, size) ==
    LET end == Skip(page, size) + size
    IN SubSeq(order, Skip(page, size) + 1, IF end < Len(order) THEN end ELSE Len(order))

\* The client begins; base is what there is to list at that moment.
StartWalk ==
    /\ walk = NoWalk
    /\ \E param \in PageSizeParams :
          walk' = [step |-> "ask", size |-> parseIntQuery(param, DefaultPageSize), page |-> 1,
                   base |-> Own, seen |-> <<>>, total |-> 0, quiet |-> TRUE, exact |-> TRUE]
    /\ UNCHANGED collection

\* CountDocuments
Count ==
    /\ walk.step = "ask"
    /\ walk' = [walk EXCEPT !.step = "counted", !.total = Cardinality(Own)]
    /\ UNCHANGED collection

\* The find, the answer and what the client does with it: the next page or the end.
\* exact: the counts of all answers agreed with the pages they came with.
Find ==
    /\ walk.step = "counted"
    /\ \E order \in NewestFirst(Own) :
          LET size  == PageSize(walk.size)
              items == PageOf(order, walk.page, size)
              last  == Len(items) < ReportedSize(walk.size)
          IN walk' = [walk EXCEPT !.step = IF last THEN "done" ELSE "ask",
                                  !.page = @ + 1,
                                  !.seen = @ \o items,
                                  !.exact = @ /\ (items # <<>> <=> walk.page <= TotalPages(walk.total, size))]
    /\ UNCHANGED collection

\* One of the two calls fails: 500, and the client asks again for the page.
ListFails ==
    /\ walk.step \in {"ask", "counted"}
    /\ walk' = [walk EXCEPT !.step = "ask"]
    /\ UNCHANGED collection

\* Create of another request.  created_at is taken before the insert, perhaps by another
\* process, so a document may appear behind younger ones.  Bound: none is considered once the
\* walk is over.
Insert ==
    /\ walk.step # "done"
    /\ Cardinality(collection) < MaxDocs
    /\ \E key \in ApiKeys, at \in Instants :
          /\ collection' = collection \cup
                {[request_id |-> Cardinality(collection) + 1, api_key_id |-> key, created_at |-> at]}
          /\ walk' = IF walk.step \in {"ask", "counted"} /\ key = ListedKey
                     THEN [walk EXCEPT !.quiet = FALSE] ELSE walk

ListNext == StartWalk \/ Count \/ Find \/ ListFails \/ Insert

-------------------------------------------------------------------------------
Untied(d, S) == \A e \in S \ {d} : e.created_at # d.created_at

\* A walk shows every request of the key that was there when it began, whatever is inserted
\* before, behind and between its pages meanwhile: inserts push documents to later pages, never
\* to earlier ones.  For requests created in the same instant it is not claimed: their order
\* may differ from one find to the next.
EverythingListed ==
    walk.step = "done" => \A d \in walk.base : Untied(d, Own)
                                         => \E i \in DOMAIN walk.seen : walk.seen[i] = d

\* When nothing of the key's is inserted meanwhile, a walk shows just the key's requests, each
\* once and newest first, and the pages with something on them are those total_pages counts.
QuietWalkExact ==
    walk.step = "done" /\ walk.quiet /\ (\A d \in walk.base : Untied(d, walk.base))
    => /\ walk.seen \in NewestFirst(walk.base)
       /\ walk.exact
===============================================================================
