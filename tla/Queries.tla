------------------------------- MODULE Queries -------------------------------
(***************************************************************************)
(* GET /instances and GET /total/instances: a user lists instances page by *)
(* page, and counts them, while requests of others go on.  Each query is   *)
(* two calls: the ids the user may read, from the permissions service,     *)
(* then the documents with these ids, from MongoDB.  A query that fails    *)
(* leaves nothing behind and may be sent again.                            *)
(***************************************************************************)
EXTENDS UserInstances, Integers, SequencesExt

CONSTANTS
    InitialNames,   \* functions from Ids to Names
    Limits,         \* the page sizes users ask for
    MaxChanges      \* bound: what other requests change

\* Numbers stand for ids and names in their order.
ASSUME OrderAssumption == Ids \subseteq Nat /\ Names \subseteq Nat
ASSUME InitialNamesAssumption == InitialNames \subseteq [Ids -> Names]
\* -1 is for no limit at all.  The database takes 0 for the same, and what is below -1 for the
\* size of a single batch: nobody who wants pages asks for these.
ASSUME LimitsAssumption == Limits \subseteq {-1} \cup (Nat \ {0}) /\ MaxChanges \in Nat

VARIABLES
    name,           \* the names of the documents
    collection,     \* the ids of the documents
    issued,         \* the ids there have been: they are not issued again
    readable,       \* the ids the user may read, in the permissions service
    query,          \* the user's parameters
    lister,         \* the listing: "ask", "find", "done"
    listIds,        \* what the handler of the page got from the permissions service
    offset,
    listed,         \* the ids on the pages so far
    counter,        \* the query for the total: "ask", "count", "done"
    countIds,
    total,
    changes,
    \* history since the listing began, read by no action:
    steady,         \* what has been listable without a change
    seen,           \* what the user has been allowed to read at some time
    added, removed, \* whether something appeared, or vanished, for the user
    tied            \* whether a query met documents that it does not order

storeVars == <<name, collection, issued, readable>>
listVars == <<lister, listIds, offset, listed, tied>>
countVars == <<counter, countIds, total>>
historyVars == <<steady, seen, added, removed>>
queryVars == <<storeVars, query, listVars, countVars, changes, historyVars>>

Queries == [sort : {"id", "name"}, asc : BOOLEAN, limit : Limits,
            search : {Names} \cup {{n} : n \in Names}, includeGenerated : BOOLEAN]

-----------------------------------------------------------------------------

(***************************************************************************)
(* The two queries                                                         *)
(***************************************************************************)

\* Whether a document passes the filter but for its id: search is a pattern, here the set
\* of the names it matches; legacy documents without the flag are not generated.
Passes(i) == name[i] \in query.search /\ (query.includeGenerated \/ i \notin Generated)

\* A bug: the ids are asked for only together with the flag.
MatchingAny(ids) == {i \in collection : Passes(i) /\ (query.includeGenerated \/ i \in ids)}

Matching(ids) == {i \in collection \cap ids : Passes(i)}

KeyOf(i) == IF query.sort = "name" THEN name[i] ELSE i

Precedes(i, j) == IF query.asc THEN KeyOf(i) <= KeyOf(j) ELSE KeyOf(j) <= KeyOf(i)

\* The orders MongoDB may return documents in: those of equal keys in any.
Orders(ids) == {s \in SetToSeqs(ids) : \A j, k \in DOMAIN s : j < k => Precedes(s[j], s[k])}

\* A bug: the offset counts from one.
PageFromOne(s) ==
    SubSeq(s, offset + 2, IF query.limit = -1 THEN Len(s) ELSE Min({Len(s), offset + 1 + query.limit}))

\* A bug: the offset is not passed on.
PageUnskipped(s) == SubSeq(s, 1, IF query.limit = -1 THEN Len(s) ELSE Min({Len(s), query.limit}))

\* Skip and limit; -1 asks for everything.
Page(s) ==
    SubSeq(s, offset + 1, IF query.limit = -1 THEN Len(s) ELSE Min({Len(s), offset + query.limit}))

\* Mongo.ListInstances, the first call.
ListAccessible ==
    /\ lister = "ask"
    /\ lister' = "find"
    /\ listIds' = readable
    /\ UNCHANGED <<storeVars, query, offset, listed, tied, countVars, changes, historyVars>>

\* listInstances; then the user asks for the next page, or is done when one is not full.
Find ==
    /\ lister = "find"
    /\ \E s \in Orders(Matching(listIds)) :
        /\ listed' = listed \o Page(s)
        /\ \/ Len(Page(s)) = query.limit /\ lister' = "ask" /\ offset' = offset + query.limit
           \/ Len(Page(s)) # query.limit /\ lister' = "done" /\ UNCHANGED offset
    /\ tied' = (tied \/ \E i, j \in Matching(listIds) : i # j /\ KeyOf(i) = KeyOf(j))
    /\ UNCHANGED <<storeVars, query, listIds, countVars, changes, historyVars>>

CountAccessible ==
    /\ counter = "ask"
    /\ counter' = "count"
    /\ countIds' = readable
    /\ UNCHANGED <<storeVars, query, listVars, total, changes, historyVars>>

\* A bug: the clause about generated instances is missing.
CountEverything ==
    /\ counter = "count"
    /\ counter' = "done"
    /\ total' = Cardinality({i \in collection \cap countIds : name[i] \in query.search})
    /\ UNCHANGED <<storeVars, query, listVars, countIds, changes, historyVars>>

\* CountDocuments, with a filter of its own.
Count ==
    /\ counter = "count"
    /\ counter' = "done"
    /\ total' = Cardinality(
            IF query.includeGenerated
            THEN {i \in collection : i \in countIds /\ name[i] \in query.search}
            ELSE {i \in collection : i \in countIds /\ i \notin Generated /\ name[i] \in query.search})
    /\ UNCHANGED <<storeVars, query, listVars, countIds, changes, historyVars>>

-----------------------------------------------------------------------------

(***************************************************************************)
(* What other requests change meanwhile: the calls of InstanceStore        *)
(***************************************************************************)

\* History that goes with a change of the instance i.  What the user has been allowed to
\* read may still be listed, by a handler that has its ids from before.
Changed(i) ==
    LET kept == i \in collection' \cap readable' /\ name'[i] = name[i]
        old  == i \in collection \cap readable /\ name'[i] = name[i]
    IN  /\ changes < MaxChanges
        /\ changes' = changes + 1
        /\ seen' = seen \cup readable'
        /\ steady' = IF kept THEN steady ELSE steady \ {i}
        /\ removed' = (removed \/ (i \in collection \cap seen /\ ~kept))
        /\ added' = (added \/ (i \in collection' \cap seen' /\ ~old))
        /\ UNCHANGED <<query, listVars, countVars>>

Insert(i) ==
    /\ i \notin issued
    /\ collection' = collection \cup {i}
    /\ issued' = issued \cup {i}
    /\ UNCHANGED <<name, readable>>
    /\ Changed(i)

Grant(i) ==
    /\ i \in issued \ readable
    /\ readable' = readable \cup {i}
    /\ UNCHANGED <<name, collection, issued>>
    /\ Changed(i)

Withdraw(i) ==
    /\ i \in readable
    /\ readable' = readable \ {i}
    /\ UNCHANGED <<name, collection, issued>>
    /\ Changed(i)

Drop(i) ==
    /\ i \in collection
    /\ collection' = collection \ {i}
    /\ UNCHANGED <<name, issued, readable>>
    /\ Changed(i)

Rename(i) ==
    /\ i \in collection
    /\ \E n \in Names \ {name[i]} : name' = [name EXCEPT ![i] = n]
    /\ UNCHANGED <<collection, issued, readable>>
    /\ Changed(i)

QueriesInit ==
    /\ name \in InitialNames
    /\ issued \in SUBSET Ids
    /\ collection = issued
    /\ readable \in SUBSET issued
    /\ query \in Queries
    /\ lister = "ask" /\ listIds = {} /\ offset = 0 /\ listed = <<>> /\ tied = FALSE
    /\ counter = "ask" /\ countIds = {} /\ total = 0
    /\ changes = 0
    /\ steady = {i \in readable : Passes(i)}
    /\ seen = readable
    /\ added = FALSE /\ removed = FALSE

QueriesNext ==
    \/ ListAccessible \/ Find \/ CountAccessible \/ Count
    \/ \E i \in Ids : Insert(i) \/ Grant(i) \/ Withdraw(i) \/ Drop(i) \/ Rename(i)

QueriesSpec == QueriesInit /\ [][QueriesNext]_queryVars

-----------------------------------------------------------------------------

\* Instances that appear between two pages do not make a user miss others: what could be
\* listed all along is listed, in an order that is total, unless something before it
\* vanished (mongo/instances.go:148, 169: the offset counts in a list that is sorted anew).
NothingSkipped == lister = "done" /\ ~removed /\ ~tied => steady \subseteq ToSet(listed)

\* The other way round: instances that vanish between two pages, or between the two calls
\* of one, do not make any come up twice.
NothingTwice == lister = "done" /\ ~added /\ ~tied => IsInjective(listed)

\* Whoever may not read an instance at any time does not get to see it, although
\* the ids are asked for in another call than the documents (mongo/instances.go:136, 183).
ListedReadable == ToSet(listed) \subseteq seen

\* Two filters written in two ways select the same: when nothing changes, the total is
\* the number of instances on all pages (mongo/instances.go:170, 282).
TotalAgrees ==
    lister = "done" /\ counter = "done" /\ changes = 0 /\ ~tied => total = Len(listed)
=============================================================================
