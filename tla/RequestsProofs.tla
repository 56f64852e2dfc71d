---------------------------- MODULE RequestsProofs ----------------------------
(***************************************************************************)
(* What requests carry and what answers say: the client library, lists and *)
(* counts, and the values of configurations.  NoFalseAnswers holds by what *)
(* the router makes of each request of the client.  The properties of      *)
(* lists hold by where the documents stand in an order that is made anew   *)
(* for every page.  Those of values hold by what the loop of               *)
(* fillDefaultValues keeps, turn by turn.                                  *)
(***************************************************************************)
EXTENDS ClientRoutes, Queries, ConfigValues, FiniteSetTheorems, SequenceTheorems,
        WellFoundedInduction, TLAPS

(***************************************************************************)
(* The client library                                                      *)
(***************************************************************************)

\* An answer that the client takes for a success says what the service had.
Sound ==
    /\ response.code \in Nat
    /\ call.op = "List" /\ response.code <= 299 =>
          \/ response.body.kind = "null" /\ Wanted = {}
          \/ response.body.kind = "list" /\ response.body.names = [i \in Wanted |-> served[i]]
    /\ call.op = "Count" /\ response.code <= 299 =>
          \/ response.body.kind = "null" /\ Wanted = {}
          \/ response.body.kind = "list"
    /\ call.op \in {"Read", "Set", "Delete"} => response.code > 299
    /\ call.op = "Create" /\ response.code <= 299 =>
          /\ response.body.id \in DOMAIN served
          /\ served[response.body.id] = call.name

RoutesInv ==
    /\ stage \in {"idle", "sent", "answered", "returned"}
    /\ stage # "idle" => call \in Calls
    /\ stage = "sent" => request = RequestOf(call)
    /\ stage = "answered" => Sound
    /\ NoFalseAnswers /\ MissesShow

-----------------------------------------------------------------------------

\* What a request looks like to the router.
LEMMA RoutedRequests ==
    ASSUME NEW c \in Calls
    PROVE  /\ c.op \in {"Read", "Delete", "Set", "Create", "List", "Count"}
           /\ c.op = "Read" => /\ RequestOf(c).method = "GET" /\ Len(RequestOf(c).path) = 2
                               /\ RequestOf(c).path[2].forUser
           /\ c.op = "Delete" => /\ RequestOf(c).method = "DELETE"
                                 /\ RequestOf(c).path[2].forUser
           /\ c.op \in {"Set", "Create"} => RequestOf(c).method = "POST"
           /\ c.op = "Set" => RequestOf(c).body.id # NoId
           /\ c.op = "Create" => /\ RequestOf(c).body.id = NoId
                                 /\ RequestOf(c).body.name = c.name
           /\ c.op \in {"List", "Count"} =>
                /\ RequestOf(c).method = "GET" /\ Len(RequestOf(c).path) = 1
                /\ RequestOf(c).body.excludeGenerated = ~c.includeGenerated
<1>1. c.op \in {"Read", "Delete", "Set", "Create", "List", "Count"}
  BY DEF Calls
<1>2. CASE c.op = "Read"
  BY <1>2 DEF RequestOf, WithForUser
<1>3. CASE c.op = "Delete"
  BY <1>3 DEF RequestOf, WithForUser
<1>4. CASE c.op = "Set"
  <2>1. c.id \in Ids
    BY <1>4 DEF Calls
  <2> QED  BY <1>4, <2>1, NoIdAssumption DEF RequestOf, Body
<1>5. CASE c.op = "Create"
  BY <1>5 DEF RequestOf, Body
<1>6. CASE c.op \in {"List", "Count"}
  BY <1>6 DEF RequestOf, Query
<1> QED  BY <1>1, <1>2, <1>3, <1>4, <1>5, <1>6

\* Every handler answers soundly to the requests that reach it.
LEMMA HandlersSound ==
    ASSUME RoutesInv, Handle
    PROVE  RoutesInv'
<1>1. /\ stage = "sent" /\ call \in Calls /\ request = RequestOf(call)
      /\ stage' = "answered" /\ UNCHANGED <<call, request>> /\ served' = instances'
  BY DEF RoutesInv, Handle, HandleList, HandleRead, HandleDelete, RefuseId, HandleCreate,
     HandleError, Routed, Answer
<1>2. NoFalseAnswers' /\ MissesShow'
  BY <1>1 DEF NoFalseAnswers, MissesShow, Succeeded, Returned
<1>3. Sound'
  <2>1. CASE HandleList
    <3>1. request.method = "GET" /\ Len(request.path) = 1
      BY <2>1 DEF HandleList, Routed
    <3>2. call.op \in {"List", "Count"}
      BY <1>1, <3>1, RoutedRequests
    <3>3. Wanted' = Shown(request.body.excludeGenerated)
      BY <1>1, <2>1, <3>2, RoutedRequests DEF HandleList, Wanted, Shown
    <3>4. response' = [code |-> 200, body |->
                IF Wanted' = {} THEN [kind |-> "null"]
                ELSE [kind |-> "list", names |-> [i \in Wanted' |-> served'[i]]]]
      BY <1>1, <2>1, <3>3 DEF HandleList, Answer
    <3> QED  BY <1>1, <3>2, <3>4 DEF Sound
  <2>2. CASE HandleRead
    <3>1. call.op = "Read"
      BY <1>1, <2>2, RoutedRequests DEF HandleRead, Routed
    <3>2. ~Found
      BY <1>1, <3>1, RoutedRequests DEF Found
    <3>3. response' = [code |-> 404, body |-> Text]
      BY <2>2, <3>2 DEF HandleRead, Answer
    <3> QED  BY <1>1, <3>1, <3>3 DEF Sound
  <2>3. CASE HandleDelete
    <3>1. call.op = "Delete"
      BY <1>1, <2>3, RoutedRequests DEF HandleDelete, Routed
    <3>2. ~Found
      BY <1>1, <3>1, RoutedRequests DEF Found
    <3>3. response'.code = 404
      BY <2>3, <3>2 DEF HandleDelete, Answer
    <3> QED  BY <1>1, <3>1, <3>3 DEF Sound
  <2>4. CASE RefuseId \/ HandleError
    <3>1. response'.code \in {400, 500}
      BY <2>4 DEF RefuseId, HandleError, Answer
    <3> QED  BY <1>1, <3>1 DEF Sound
  <2>5. CASE HandleCreate
    <3>1. call.op = "Create"
      <4>1. request.method = "POST" /\ request.body.id = NoId
        BY <2>5 DEF HandleCreate, Routed
      <4> QED  BY <1>1, <4>1, RoutedRequests
    <3>2. PICK i \in Ids :
            /\ instances' = [j \in DOMAIN instances \cup {i} |->
                                IF j = i THEN request.body.name ELSE instances[j]]
            /\ response' = [code |-> 200, body |-> Body(i, request.body.name)]
      BY <2>5 DEF HandleCreate, Answer
    <3>3. i \in DOMAIN served' /\ served'[i] = request.body.name
      BY <1>1, <3>2
    <3>4. response'.code = 200 /\ response'.body.id = i
      BY <3>2 DEF Body
    <3> QED  BY <1>1, <3>1, <3>3, <3>4, RoutedRequests DEF Sound
  <2> QED  BY <2>1, <2>2, <2>3, <2>4, <2>5 DEF Handle
<1> QED  BY <1>1, <1>2, <1>3 DEF RoutesInv

\* What the client makes of a sound answer is no false one.
LEMMA ConclusionSound ==
    ASSUME RoutesInv, Conclude
    PROVE  RoutesInv'
<1>1. /\ stage = "answered" /\ call \in Calls /\ Sound
      /\ stage' = "returned" /\ result' = ResultOf(call.op) /\ UNCHANGED <<call, served, response>>
  BY DEF RoutesInv, Conclude
<1>2. Wanted' = Wanted
  BY <1>1 DEF Wanted
<1>3. ASSUME ~result'.failed, call.op \notin {"Set", "Delete"}
      PROVE  /\ response.code <= 299 /\ result'.value = response.body
             /\ response.body.kind \in {Target(call.op), "null"}
  BY <1>1, <1>3 DEF ResultOf, Do, Failure, Sound
<1>4. NoFalseAnswers'
  <2>1. ASSUME Succeeded("List")'
        PROVE  \/ result'.value.kind = "null" /\ Wanted' = {}
               \/ /\ result'.value.kind = "list"
                  /\ result'.value.names = [i \in Wanted' |-> served'[i]]
    BY <1>1, <1>2, <1>3, <2>1 DEF Succeeded, Returned, Sound
  <2>2. ASSUME Succeeded("Count")' PROVE result'.value.kind = "null" /\ Wanted' = {}
    BY <1>1, <1>2, <1>3, <2>2 DEF Succeeded, Returned, Sound, Target
  <2>3. ASSUME Succeeded("Create")'
        PROVE  result'.value.id \in DOMAIN served' /\ served'[result'.value.id] = call'.name
    BY <1>1, <1>3, <2>3 DEF Succeeded, Returned, Sound
  <2> QED  BY <2>1, <2>2, <2>3 DEF NoFalseAnswers
<1>5. MissesShow'
  <2>1. CASE call.op = "Read"
    <3>1. ~(response.code <= 299)
      BY <1>1, <2>1 DEF Sound
    <3> QED  BY <1>1, <1>3, <2>1, <3>1 DEF MissesShow
  <2>2. CASE call.op \in {"Set", "Delete"}
    BY <1>1, <2>2 DEF ResultOf, Sound, MissesShow
  <2>3. CASE call.op \notin {"Read", "Set", "Delete"}
    BY <1>1, <2>3 DEF MissesShow, Returned
  <2> QED  BY <2>1, <2>2, <2>3
<1> QED  BY <1>1, <1>4, <1>5 DEF RoutesInv

\* The other steps.
LEMMA OthersSound ==
    ASSUME RoutesInv,
           \/ Send \/ Unreachable \/ UNCHANGED routesVars
           \/ \E i \in Ids : OthersDelete(i) \/ \E n \in Names : OthersCreate(i, n)
    PROVE  RoutesInv'
<1>1. CASE Send
  BY <1>1 DEF Send, RoutesInv, NoFalseAnswers, MissesShow, Succeeded, Returned
<1>2. CASE Unreachable
  BY <1>2 DEF Unreachable, Failure, RoutesInv, NoFalseAnswers, MissesShow, Succeeded, Returned
<1>3. CASE UNCHANGED <<stage, call, request, response, result, served>>
  BY <1>3 DEF RoutesInv, Sound, Wanted, NoFalseAnswers, MissesShow, Succeeded, Returned
<1> QED  BY <1>1, <1>2, <1>3 DEF OthersDelete, OthersCreate, routesVars

\* RoutesInv holds however the requests of the client and of other programs mix.
THEOREM RoutesInvariant == RoutesSpec => []RoutesInv
<1>1. RoutesInit => RoutesInv
  BY DEF RoutesInit, RoutesInv, NoFalseAnswers, MissesShow, Succeeded, Returned
<1>2. RoutesInv /\ [RoutesNext]_routesVars => RoutesInv'
  BY HandlersSound, ConclusionSound, OthersSound DEF RoutesNext
<1> QED  BY <1>1, <1>2, PTL DEF RoutesSpec

\* Whatever the service has and other programs do, a method of lib/client that returns no
\* error returns what lib/api had at the moment it served the request.
THEOREM ClientTellsTheTruth == RoutesSpec => []NoFalseAnswers
<1>1. RoutesInv => NoFalseAnswers
  BY DEF RoutesInv
<1> QED  BY <1>1, RoutesInvariant, PTL

\* Nor does a method of lib/client whose request misses its handler return as if it had not.
THEOREM MissesAreTold == RoutesSpec => []MissesShow
<1>1. RoutesInv => MissesShow
  BY DEF RoutesInv
<1> QED  BY <1>1, RoutesInvariant, PTL

-----------------------------------------------------------------------------

(***************************************************************************)
(* Lists                                                                   *)
(***************************************************************************)

\* What a query would find that asked for the ids now, and what the handler of a page finds
\* with the ids it has; the next page is cut out of the one or the other.
Listable == Matching(readable)
Matched == Matching(listIds)
Current == IF lister = "find" THEN Matched ELSE Listable

\* What comes before x there, for sure.
Ahead(x) == {y \in Current : ~Precedes(x, y)}

\* The types of the variables, and that only what was issued has a document or rights.
ListsType ==
    /\ name \in [Ids -> Names]
    /\ collection \subseteq issued /\ issued \subseteq Ids /\ readable \subseteq issued
    /\ query \in Queries
    /\ lister \in {"ask", "find", "done"} /\ listIds \subseteq issued
    /\ offset \in Nat
    /\ listed \in Seq(Ids)
    /\ counter \in {"ask", "count", "done"}
    /\ changes \in Nat
    /\ tied \in BOOLEAN /\ added \in BOOLEAN /\ removed \in BOOLEAN

\* The ids a handler has are those of something the user has been allowed to read.
Seen ==
    /\ readable \subseteq seen /\ listIds \subseteq seen
    /\ ListedReadable

\* As long as nothing vanished, what could be listed all along is still ahead of the user,
\* or on a page.
Skipping ==
    ~removed =>
        /\ steady \subseteq Listable
        /\ lister = "find" => steady \subseteq listIds /\ collection \cap listIds \subseteq readable
        /\ lister # "done" /\ ~tied =>
              \A x \in steady : x \in ToSet(listed) \/ offset <= Cardinality(Ahead(x))
        /\ NothingSkipped

\* As long as nothing appeared, what is on a page is behind the user.
Repeating ==
    ~added =>
        /\ lister = "find" => collection \cap readable \subseteq listIds
        /\ ~tied => IsInjective(listed)
        /\ lister # "done" /\ ~tied =>
              \A x \in ToSet(listed) \cap Current : Cardinality(Ahead(x)) < offset

\* As long as nothing changed, everything is known.
Unchanged ==
    changes = 0 =>
        /\ ~added /\ ~removed
        /\ steady = Listable
        /\ lister = "find" => listIds = readable
        /\ ToSet(listed) \subseteq Listable
        /\ counter = "count" => countIds = readable
        /\ counter = "done" => total = Cardinality(Listable)

ListsInv == ListsType /\ Seen /\ Skipping /\ Repeating /\ Unchanged

-----------------------------------------------------------------------------

\* The order of the documents, whether by id or by name, is total and transitive.
LEMMA TotalOrder ==
    ASSUME name \in [Ids -> Names], query \in Queries
    PROVE  /\ \A i \in Ids : KeyOf(i) \in Nat
           /\ \A i, j \in Ids : Precedes(i, j) \/ Precedes(j, i)
           /\ \A i, j, k \in Ids : Precedes(i, j) /\ Precedes(j, k) => Precedes(i, k)
           /\ \A i, j \in Ids : Precedes(i, j) /\ Precedes(j, i) => KeyOf(i) = KeyOf(j)
<1>1. \A i \in Ids : KeyOf(i) \in Nat
  BY OrderAssumption DEF KeyOf
<1> QED  BY <1>1 DEF Precedes

\* An interval that begins with 1 determines its end.
LEMMA SameInterval ==
    ASSUME NEW m \in Nat, NEW n \in Nat, 1..m = 1..n
    PROVE  m = n
<1>1. \A k \in Nat : k \in 1..m <=> k \in 1..n
  OBVIOUS
<1>2. m <= n
  BY <1>1
<1>3. n <= m
  BY <1>1
<1> QED  BY <1>2, <1>3

\* A sequence in one of the orders of a set has its elements, each of them once.
LEMMA Ordered ==
    ASSUME NEW S \in SUBSET Ids, NEW s \in Orders(S)
    PROVE  /\ IsFiniteSet(S) /\ Cardinality(S) \in Nat
           /\ s \in Seq(Ids) /\ Len(s) = Cardinality(S) /\ DOMAIN s = 1..Len(s)
           /\ \A k \in 1..Len(s) : s[k] \in S
           /\ \A j, k \in 1..Len(s) : s[j] = s[k] => j = k
           /\ \A x \in S : \E k \in 1..Len(s) : s[k] = x
<1>1. IsFiniteSet(S) /\ Cardinality(S) \in Nat
  BY InstancesAssumption, FS_Subset, FS_CardinalityType
<1> DEFINE n == Cardinality(S)
<1>2. s \in [1..n -> S] /\ \A j, k \in 1..n : j # k => s[j] # s[k]
  BY DEF Orders, SetToSeqs
<1>3. s \in Seq(Ids) /\ Len(s) = n /\ DOMAIN s = 1..n
  <2>1. s \in [1..n -> Ids]
    BY <1>2
  <2> HIDE DEF n
  <2>2. s \in Seq(Ids)
    BY <1>1, <2>1, SeqDef DEF n
  <2>3. Len(s) \in Nat /\ DOMAIN s = 1..Len(s)
    BY <2>2, LenProperties
  <2>4. 1..Len(s) = 1..n /\ n \in Nat
    BY <2>1, <2>3, <1>1 DEF n
  <2>5. Len(s) = n
    BY <2>3, <2>4, SameInterval
  <2> QED  BY <2>2, <2>3, <2>5
<1>4. s \in Injection(1..n, S)
  BY <1>2 DEF Injection, IsInjective
<1>5. IsFiniteSet(1..n) /\ Cardinality(1..n) = n
  BY <1>1, FS_Interval
<1>6. s \in Surjection(1..n, S)
  BY <1>1, <1>4, <1>5, FS_Injection
<1> QED  BY <1>1, <1>2, <1>3, <1>6 DEF Surjection

\* Where no keys are equal, as many documents come before one as its place in the order says.
LEMMA Places ==
    ASSUME name \in [Ids -> Names], query \in Queries,
           NEW S \in SUBSET Ids, NEW s \in Orders(S), NEW k \in 1..Len(s),
           \A i, j \in S : i # j => KeyOf(i) # KeyOf(j)
    PROVE  Cardinality({y \in S : ~Precedes(s[k], y)}) = k - 1
<1> DEFINE B == {y \in S : ~Precedes(s[k], y)}
           f == [j \in 1..(k - 1) |-> s[j]]
<1>1. /\ Len(s) \in Nat /\ DOMAIN s = 1..Len(s)
      /\ \A j \in 1..Len(s) : s[j] \in S
      /\ \A i, j \in 1..Len(s) : s[i] = s[j] => i = j
      /\ \A x \in S : \E j \in 1..Len(s) : s[j] = x
  BY Ordered
<1>2. k \in Nat /\ k >= 1 /\ \A j \in 1..(k - 1) : j \in 1..Len(s) /\ j < k
  BY <1>1
<1>3. \A i, j \in 1..Len(s) : i < j => Precedes(s[i], s[j])
  BY <1>1 DEF Orders
<1>4. \A j \in 1..(k - 1) : s[j] \in B
  <2> SUFFICES ASSUME NEW j \in 1..(k - 1) PROVE ~Precedes(s[k], s[j])
    BY <1>1, <1>2
  <2>1. Precedes(s[j], s[k]) /\ s[j] # s[k] /\ s[j] \in S /\ s[k] \in S
    BY <1>1, <1>2, <1>3
  <2> QED  BY <2>1, TotalOrder
<1>5. \A y \in B : \E j \in 1..(k - 1) : s[j] = y
  <2> SUFFICES ASSUME NEW y \in B PROVE \E j \in 1..(k - 1) : s[j] = y
    OBVIOUS
  <2>1. PICK j \in 1..Len(s) : s[j] = y
    BY <1>1
  <2>2. ~(k < j)
    BY <1>3, <2>1
  <2>3. j # k
    <3>1. s[k] \in Ids
      BY <1>1
    <3> QED  BY <2>1, <3>1, TotalOrder
  <2>4. j \in 1..(k - 1)
    BY <1>1, <1>2, <2>2, <2>3
  <2> QED  BY <2>1, <2>4
<1>6. f \in Bijection(1..(k - 1), B)
  <2>1. f \in [1..(k - 1) -> B]
    BY <1>4
  <2>2. IsInjective(f)
    BY <1>1, <1>2 DEF IsInjective
  <2>3. \A y \in B : \E j \in 1..(k - 1) : f[j] = y
    BY <1>5
  <2> HIDE DEF f, B
  <2> QED  BY <2>1, <2>2, <2>3 DEF Bijection, Injection, Surjection
<1>7. IsFiniteSet(1..(k - 1)) /\ Cardinality(1..(k - 1)) = k - 1
  BY <1>2, FS_Interval
<1> HIDE DEF f, B
<1>8. Cardinality(B) = k - 1
  BY <1>6, <1>7, FS_Bijection DEF ExistsBijection
<1> QED  BY <1>8 DEF B

\* A page is what comes after the offset, up to a place that is the last one unless the
\* page is full.
LEMMA PageOf ==
    ASSUME NEW s \in Seq(Ids), offset \in Nat, query \in Queries
    PROVE  /\ Page(s) \in Seq(Ids)
           /\ \E e \in 0..Len(s) :
                 /\ Len(Page(s)) = query.limit => e = offset + query.limit /\ query.limit \in Nat
                 /\ Len(Page(s)) # query.limit => e = Len(s)
                 /\ Len(Page(s)) = IF offset < e THEN e - offset ELSE 0
                 /\ \A i \in 1..Len(Page(s)) : Page(s)[i] = s[offset + i] /\ offset + i <= e
<1>1. Len(s) \in Nat /\ \A k \in 1..Len(s) : s[k] \in Ids
  BY LenProperties, ElementOfSeq
<1>2. query.limit \in {-1} \cup (Nat \ {0})
  BY LimitsAssumption DEF Queries
<1> DEFINE e == IF query.limit = -1 \/ Len(s) < offset + query.limit
                THEN Len(s) ELSE offset + query.limit
<1>3. e \in 0..Len(s)
  BY <1>1, <1>2
<1>4. \A a, b \in Nat : Min({a, b}) = IF a < b THEN a ELSE b
  <2> SUFFICES ASSUME NEW a \in Nat, NEW b \in Nat
               PROVE  Min({a, b}) = IF a < b THEN a ELSE b
    OBVIOUS
  <2>1. \E x \in {a, b} : \A y \in {a, b} : x <= y
    OBVIOUS
  <2>2. Min({a, b}) \in {a, b} /\ \A y \in {a, b} : Min({a, b}) <= y
    BY <2>1 DEF Min
  <2> QED  BY <2>2
<1>5. Page(s) = SubSeq(s, offset + 1, e)
  <2>1. CASE query.limit = -1
    BY <2>1 DEF Page
  <2>2. CASE query.limit # -1
    <3>1. offset + query.limit \in Nat
      BY <1>2, <2>2
    <3>2. Min({Len(s), offset + query.limit}) = e
      BY <1>1, <1>4, <2>2, <3>1
    <3> QED  BY <2>2, <3>2 DEF Page
  <2> QED  BY <2>1, <2>2
<1> HIDE DEF e
<1>6. \A i \in (offset + 1)..e : s[i] \in Ids
  BY <1>1, <1>3
<1>7. /\ Page(s) \in Seq(Ids)
      /\ Len(Page(s)) = IF offset + 1 <= e THEN e - (offset + 1) + 1 ELSE 0
      /\ \A i \in 1..(e - (offset + 1) + 1) : Page(s)[i] = s[offset + 1 + i - 1]
  BY <1>1, <1>3, <1>5, <1>6, SubSeqProperties
<1>8. Len(Page(s)) = IF offset < e THEN e - offset ELSE 0
  BY <1>1, <1>3, <1>7
<1>9. \A i \in 1..Len(Page(s)) : Page(s)[i] = s[offset + i] /\ offset + i <= e
  BY <1>1, <1>3, <1>7, <1>8
<1>10. /\ Len(Page(s)) = query.limit => e = offset + query.limit /\ query.limit \in Nat
       /\ Len(Page(s)) # query.limit => e = Len(s)
  BY <1>1, <1>2, <1>3, <1>8 DEF e
<1> QED  BY <1>3, <1>7, <1>8, <1>9, <1>10

-----------------------------------------------------------------------------

\* Of fewer documents, no more come before one of them.
LEMMA FewerAhead ==
    ASSUME NEW S, NEW T, S \subseteq T, T \subseteq Ids
    PROVE  Cardinality(S) \in Nat /\ Cardinality(T) \in Nat /\ Cardinality(S) <= Cardinality(T)
BY InstancesAssumption, FS_Subset, FS_CardinalityType

\* At the beginning there is no page.
LEMMA InitLists == QueriesInit => ListsInv
<1> SUFFICES ASSUME QueriesInit PROVE ListsInv
  OBVIOUS
<1>1. name \in [Ids -> Names]
  BY InitialNamesAssumption DEF QueriesInit
<1>2. listed = <<>> /\ listed \in Seq(Ids) /\ ToSet(listed) = {} /\ IsInjective(listed)
  BY DEF QueriesInit, ToSet, IsInjective
<1>3. steady = Listable /\ Current = Listable /\ steady \subseteq Ids
  BY DEF QueriesInit, Listable, Current, Matching
<1>4. \A x : Cardinality(Ahead(x)) \in Nat
  BY <1>3, FewerAhead DEF Ahead
<1> USE DEF QueriesInit
<1>5. ListsType
  BY <1>1, <1>2 DEF ListsType
<1>6. Seen
  BY <1>2 DEF Seen, ListedReadable
<1>7. Skipping
  BY <1>3, <1>4 DEF Skipping, NothingSkipped
<1>8. Repeating
  BY <1>2 DEF Repeating
<1>9. Unchanged
  BY <1>2, <1>3 DEF Unchanged
<1> QED  BY <1>5, <1>6, <1>7, <1>8, <1>9 DEF ListsInv

\* The ids of a page are those of what can be listed at the moment.
LEMMA ListAccessibleLists ==
    ASSUME ListsInv, ListAccessible
    PROVE  ListsInv'
<1>1. UNCHANGED <<name, collection, issued, readable, query, offset, listed, tied, counter,
                  countIds, total, changes, steady, seen, added, removed>>
      /\ lister = "ask" /\ lister' = "find" /\ listIds' = readable
  BY DEF ListAccessible, storeVars, countVars, historyVars
<1>2. /\ Listable' = Listable /\ Matched' = Listable
      /\ Current = Listable /\ Current' = Current
      /\ \A x : Ahead(x)' = Ahead(x)
  BY <1>1 DEF Listable, Matched, Current, Matching, Passes, Ahead, Precedes, KeyOf
<1>3. ListsType'
  BY <1>1 DEF ListsInv, ListsType
<1>4. Seen'
  BY <1>1 DEF ListsInv, Seen, ListedReadable
<1>5. Skipping'
  <2>1. Listable \subseteq readable
    BY DEF Listable, Matching
  <2> QED  BY <1>1, <1>2, <2>1 DEF ListsInv, Skipping, NothingSkipped
<1>6. Repeating'
  BY <1>1, <1>2 DEF ListsInv, Repeating
<1>7. Unchanged'
  BY <1>1, <1>2 DEF ListsInv, Unchanged
<1> QED  BY <1>3, <1>4, <1>5, <1>6, <1>7 DEF ListsInv

\* Neither call of a count changes anything about the list.
LEMMA CountLists ==
    ASSUME ListsInv, CountAccessible \/ Count
    PROVE  ListsInv'
<1>1. UNCHANGED <<name, collection, issued, readable, query, lister, listIds, offset, listed,
                  tied, changes, steady, seen, added, removed>>
  BY DEF CountAccessible, Count, storeVars, listVars, historyVars
<1>2. /\ Listable' = Listable /\ Current' = Current
      /\ \A x : Ahead(x)' = Ahead(x)
  BY <1>1 DEF Listable, Matched, Current, Matching, Passes, Ahead, Precedes, KeyOf
<1>3. ListsType'
  BY <1>1 DEF ListsInv, ListsType, CountAccessible, Count
<1>4. Seen'
  BY <1>1 DEF ListsInv, Seen, ListedReadable
<1>5. Skipping'
  BY <1>1, <1>2 DEF ListsInv, Skipping, NothingSkipped
<1>6. Repeating'
  BY <1>1, <1>2 DEF ListsInv, Repeating
<1>7. Unchanged'
  <2>1. CASE CountAccessible
    BY <1>1, <1>2, <2>1 DEF ListsInv, Unchanged, CountAccessible
  <2>2. CASE Count
    <3> SUFFICES ASSUME changes = 0 PROVE total' = Cardinality(Listable)
      BY <1>1, <1>2, <2>2 DEF ListsInv, Unchanged, Count
    <3>1. countIds = readable
      BY <2>2 DEF ListsInv, Unchanged, Count
    <3>2. Listable = IF query.includeGenerated
            THEN {i \in collection : i \in countIds /\ name[i] \in query.search}
            ELSE {i \in collection : i \in countIds /\ i \notin Generated /\ name[i] \in query.search}
      BY <3>1 DEF Listable, Matching, Passes
    <3> QED  BY <2>2, <3>2 DEF Count
  <2> QED  BY <2>1, <2>2
<1> QED  BY <1>3, <1>4, <1>5, <1>6, <1>7 DEF ListsInv

\* The elements of two sequences, one after the other.
LEMMA ConcatSet ==
    ASSUME NEW s \in Seq(Ids), NEW t \in Seq(Ids)
    PROVE  /\ s \o t \in Seq(Ids)
           /\ ToSet(s \o t) = ToSet(s) \cup ToSet(t)
           /\ IsInjective(s) /\ IsInjective(t) /\ ToSet(s) \cap ToSet(t) = {} => IsInjective(s \o t)
<1> DEFINE u == s \o t
<1>1. /\ u \in Seq(Ids) /\ Len(u) = Len(s) + Len(t)
      /\ \A i \in 1..(Len(s) + Len(t)) : u[i] = IF i <= Len(s) THEN s[i] ELSE t[i - Len(s)]
  BY ConcatProperties
<1>2. /\ Len(s) \in Nat /\ DOMAIN s = 1..Len(s) /\ Len(t) \in Nat /\ DOMAIN t = 1..Len(t)
      /\ DOMAIN u = 1..Len(u)
  BY <1>1, LenProperties
<1> HIDE DEF u
<1>3. \A k \in DOMAIN u : \/ k \in DOMAIN s /\ u[k] = s[k]
                          \/ k - Len(s) \in DOMAIN t /\ u[k] = t[k - Len(s)]
  BY <1>1, <1>2
<1>4. \A k \in DOMAIN s : k \in DOMAIN u /\ u[k] = s[k]
  BY <1>1, <1>2
<1>5. \A k \in DOMAIN t : k + Len(s) \in DOMAIN u /\ u[k + Len(s)] = t[k]
  BY <1>1, <1>2
<1>6. ToSet(u) = ToSet(s) \cup ToSet(t)
  BY <1>3, <1>4, <1>5 DEF ToSet
<1>7. ASSUME IsInjective(s), IsInjective(t), ToSet(s) \cap ToSet(t) = {}
      PROVE  IsInjective(u)
  <2> SUFFICES ASSUME NEW j \in DOMAIN u, NEW k \in DOMAIN u, u[j] = u[k] PROVE j = k
    BY DEF IsInjective
  <2>1. \A a \in DOMAIN s, b \in DOMAIN t : s[a] # t[b]
    BY <1>7 DEF ToSet
  <2>2. CASE j \in DOMAIN s /\ u[j] = s[j] /\ k \in DOMAIN s /\ u[k] = s[k]
    BY <1>7, <2>2 DEF IsInjective
  <2>3. CASE /\ j - Len(s) \in DOMAIN t /\ u[j] = t[j - Len(s)]
             /\ k - Len(s) \in DOMAIN t /\ u[k] = t[k - Len(s)]
    <3>1. j - Len(s) = k - Len(s)
      BY <1>7, <2>3 DEF IsInjective
    <3> QED  BY <1>1, <1>2, <3>1
  <2> QED  BY <1>3, <2>1, <2>2, <2>3
<1> QED  BY <1>1, <1>6, <1>7 DEF u

\* A page takes up where the last one ended: by Places, the documents on it have at least
\* offset others before them, and those that come after it more than it has shown.
LEMMA FindLists ==
    ASSUME ListsInv, Find
    PROVE  ListsInv'
<1>1. PICK s \in Orders(Matched) :
        /\ listed' = listed \o Page(s)
        /\ \/ Len(Page(s)) = query.limit /\ lister' = "ask" /\ offset' = offset + query.limit
           \/ Len(Page(s)) # query.limit /\ lister' = "done" /\ offset' = offset
  BY DEF Find, Matched
<1>2. /\ lister = "find"
      /\ tied' = (tied \/ \E i, j \in Matched : i # j /\ KeyOf(i) = KeyOf(j))
      /\ UNCHANGED <<name, collection, issued, readable, query, listIds, counter, countIds, total,
                     changes, steady, seen, added, removed>>
  BY DEF Find, Matched, storeVars, countVars, historyVars
<1>3. ListsType
  BY DEF ListsInv
<1>4. /\ Matched \in SUBSET Ids /\ Matched \subseteq listIds /\ Matched \subseteq collection
      /\ Current = Matched /\ Listable' = Listable /\ Current' = Listable
      /\ Listable \subseteq Ids
  BY <1>1, <1>2, <1>3 DEF ListsType, Matched, Listable, Current, Matching, Passes
<1>5. /\ s \in Seq(Ids) /\ Len(s) \in Nat
      /\ \A k \in 1..Len(s) : s[k] \in Matched
      /\ \A j, k \in 1..Len(s) : s[j] = s[k] => j = k
      /\ \A x \in Matched : \E k \in 1..Len(s) : s[k] = x
  BY <1>4, Ordered
<1> DEFINE P == Page(s)
<1>6. PICK e \in 0..Len(s) :
        /\ P \in Seq(Ids)
        /\ Len(P) = query.limit => e = offset + query.limit /\ query.limit \in Nat
        /\ Len(P) # query.limit => e = Len(s)
        /\ Len(P) = IF offset < e THEN e - offset ELSE 0
        /\ \A i \in 1..Len(P) : P[i] = s[offset + i] /\ offset + i <= e
  BY <1>3, <1>5, PageOf DEF ListsType
<1>7. Len(P) \in Nat /\ DOMAIN P = 1..Len(P) /\ offset \in Nat /\ e \in Nat /\ e <= Len(s)
  BY <1>3, <1>5, <1>6, LenProperties DEF ListsType
<1>8. /\ lister' \in {"ask", "done"} /\ offset' \in Nat /\ offset <= offset'
      /\ lister' = "ask" => offset' = e
      /\ lister' = "done" => e = Len(s)
  BY <1>1, <1>6, <1>7
<1> HIDE DEF P
<1>9. /\ listed' \in Seq(Ids)
      /\ ToSet(listed') = ToSet(listed) \cup ToSet(P)
      /\ IsInjective(listed) /\ IsInjective(P) /\ ToSet(listed) \cap ToSet(P) = {} => IsInjective(listed')
  BY <1>1, <1>3, <1>6, ConcatSet DEF ListsType, P
<1>10. \A i \in 1..Len(P) : offset + i \in 1..Len(s) /\ P[i] = s[offset + i] /\ P[i] \in Matched
  BY <1>5, <1>6, <1>7
<1>11. \A x \in ToSet(P) : \E k \in 1..Len(s) : s[k] = x /\ offset < k /\ k <= e
  <2> SUFFICES ASSUME NEW i \in 1..Len(P)
               PROVE  \E k \in 1..Len(s) : s[k] = P[i] /\ offset < k /\ k <= e
    BY <1>7 DEF ToSet
  <2> QED  BY <1>6, <1>7, <1>10
<1>12. \A k \in 1..Len(s) : offset < k /\ k <= e => s[k] \in ToSet(P)
  <2> SUFFICES ASSUME NEW k \in 1..Len(s), offset < k, k <= e PROVE s[k] \in ToSet(P)
    OBVIOUS
  <2>1. k - offset \in 1..Len(P)
    BY <1>6, <1>7
  <2>2. P[k - offset] = s[k]
    BY <1>7, <1>10, <2>1
  <2> QED  BY <1>7, <2>1, <2>2 DEF ToSet
<1>13. ASSUME ~tied'
       PROVE  /\ ~tied
              /\ \A k \in 1..Len(s) : Cardinality(Ahead(s[k])) = k - 1
  <2>1. ~tied /\ \A i, j \in Matched : i # j => KeyOf(i) # KeyOf(j)
    BY <1>2, <1>3, <1>13 DEF ListsType
  <2>2. name \in [Ids -> Names] /\ query \in Queries
    BY <1>3 DEF ListsType
  <2>3. \A k \in 1..Len(s) : Cardinality({y \in Matched : ~Precedes(s[k], y)}) = k - 1
    BY <1>4, <2>1, <2>2, Places
  <2> QED  BY <1>4, <2>1, <2>3 DEF Ahead
<1>14. \A x : /\ Ahead(x) = {y \in Matched : ~Precedes(x, y)}
              /\ Ahead(x)' = {y \in Listable : ~Precedes(x, y)}
  BY <1>2, <1>4 DEF Ahead, Precedes, KeyOf
<1>15. ListsType'
  BY <1>2, <1>3, <1>8, <1>9 DEF ListsType
<1>16. Seen'
  BY <1>2, <1>4, <1>9, <1>11, <1>5 DEF ListsInv, Seen, ListedReadable
<1>17. Skipping'
  <2> SUFFICES ASSUME ~removed, ~tied', NEW x \in steady, x \notin ToSet(listed')
               PROVE  lister' = "ask" /\ offset' <= Cardinality(Ahead(x)')
    BY <1>2, <1>4, <1>8 DEF ListsInv, Skipping, NothingSkipped
  <2>1. ~tied /\ x \notin ToSet(listed) /\ x \notin ToSet(P)
    BY <1>9, <1>13
  <2>2. x \in Matched /\ Matched \subseteq Listable /\ offset <= Cardinality(Ahead(x))
    BY <1>2, <2>1 DEF ListsInv, Skipping, Matched, Listable, Matching
  <2>3. PICK k \in 1..Len(s) : s[k] = x
    BY <1>5, <2>2
  <2>4. Cardinality(Ahead(x)) = k - 1
    BY <1>13, <2>3
  <2>5. e < k
    BY <1>7, <1>12, <2>1, <2>2, <2>3, <2>4
  <2>6. lister' = "ask" /\ offset' = e
    BY <1>5, <1>7, <1>8, <2>5
  <2>7. /\ Ahead(x) \subseteq Ahead(x)' /\ Ahead(x)' \subseteq Ids
    BY <1>4, <1>14, <2>2
  <2>8. /\ Cardinality(Ahead(x)') \in Nat /\ Cardinality(Ahead(x)) <= Cardinality(Ahead(x)')
    BY <2>7, FewerAhead
  <2> QED  BY <1>5, <1>7, <2>4, <2>5, <2>6, <2>8
<1>18. Repeating'
  <2> SUFFICES ASSUME ~added, ~tied'
               PROVE  /\ IsInjective(listed')
                      /\ lister' = "ask" => \A x \in ToSet(listed') \cap Listable :
                                                Cardinality(Ahead(x)') < offset'
    BY <1>2, <1>4, <1>8 DEF Repeating
  <2>1. /\ ~tied /\ IsInjective(listed) /\ Listable \subseteq Matched
        /\ \A x \in ToSet(listed) \cap Matched : Cardinality(Ahead(x)) < offset
    BY <1>2, <1>4, <1>13 DEF ListsInv, Repeating, Matched, Listable, Matching
  <2>2. IsInjective(P)
    BY <1>5, <1>7, <1>10 DEF IsInjective
  <2>3. \A x \in ToSet(P) : /\ x \in Matched /\ offset <= Cardinality(Ahead(x))
                           /\ Cardinality(Ahead(x)) < e
    <3> SUFFICES ASSUME NEW x \in ToSet(P)
                 PROVE  x \in Matched /\ offset <= Cardinality(Ahead(x)) /\ Cardinality(Ahead(x)) < e
      OBVIOUS
    <3>1. PICK k \in 1..Len(s) : s[k] = x /\ offset < k /\ k <= e
      BY <1>11
    <3>2. Cardinality(Ahead(x)) = k - 1
      BY <1>13, <3>1
    <3> QED  BY <1>5, <1>7, <3>1, <3>2
  <2>4. \A x \in Matched : Cardinality(Ahead(x)) \in Nat
    BY <1>4, <1>14, FewerAhead
  <2>5. ToSet(listed) \cap ToSet(P) = {}
    BY <1>7, <2>1, <2>3, <2>4
  <2>6. IsInjective(listed')
    BY <1>9, <2>1, <2>2, <2>5
  <2>7. ASSUME lister' = "ask", NEW x \in ToSet(listed') \cap Listable
        PROVE  Cardinality(Ahead(x)') < offset'
    <3>1. x \in Matched /\ Cardinality(Ahead(x)) < offset'
      BY <1>7, <1>8, <1>9, <2>1, <2>3, <2>4, <2>7
    <3>2. Ahead(x)' \subseteq Ahead(x) /\ Ahead(x) \subseteq Ids
      BY <1>4, <1>14, <2>1
    <3>3. /\ Cardinality(Ahead(x)') \in Nat /\ Cardinality(Ahead(x)) \in Nat
          /\ Cardinality(Ahead(x)') <= Cardinality(Ahead(x))
      BY <3>2, FewerAhead
    <3> QED  BY <1>8, <3>1, <3>3
  <2> QED  BY <2>6, <2>7
<1>19. Unchanged'
  <2>1. ToSet(P) \subseteq Matched
    BY <1>5, <1>11
  <2> QED  BY <1>2, <1>4, <1>8, <1>9, <2>1 DEF ListsInv, Unchanged, Matched, Listable
<1> QED  BY <1>15, <1>16, <1>17, <1>18, <1>19 DEF ListsInv

\* What the changes have in common: they are about one instance, and an id that is issued
\* is not inserted again.
LEMMA OneChange ==
    ASSUME ListsType, NEW i \in Ids,
           Insert(i) \/ Grant(i) \/ Withdraw(i) \/ Drop(i) \/ Rename(i)
    PROVE  /\ name' \in [Ids -> Names]
           /\ collection' \subseteq issued' /\ issued' \subseteq Ids /\ readable' \subseteq issued'
           /\ issued \subseteq issued'
           /\ \A j \in Ids : j # i => /\ name'[j] = name[j]
                                      /\ (j \in collection' <=> j \in collection)
                                      /\ (j \in readable' <=> j \in readable)
           /\ (i \in collection' /\ i \notin collection) => i \notin issued
           /\ Changed(i)
<1>1. Changed(i)
  BY DEF Insert, Grant, Withdraw, Drop, Rename
<1>2. /\ name \in [Ids -> Names]
      /\ collection \subseteq issued /\ issued \subseteq Ids /\ readable \subseteq issued
  BY DEF ListsType
<1>3. CASE Insert(i)
  <2>1. /\ i \notin issued /\ collection' = collection \cup {i} /\ issued' = issued \cup {i}
        /\ UNCHANGED <<name, readable>>
    BY <1>3 DEF Insert
  <2> QED  BY <1>1, <1>2, <2>1
<1>4. CASE Grant(i)
  <2>1. i \in issued /\ readable' = readable \cup {i} /\ UNCHANGED <<name, collection, issued>>
    BY <1>4 DEF Grant
  <2> QED  BY <1>1, <1>2, <2>1
<1>5. CASE Withdraw(i)
  <2>1. readable' = readable \ {i} /\ UNCHANGED <<name, collection, issued>>
    BY <1>5 DEF Withdraw
  <2> QED  BY <1>1, <1>2, <2>1
<1>6. CASE Drop(i)
  <2>1. collection' = collection \ {i} /\ UNCHANGED <<name, issued, readable>>
    BY <1>6 DEF Drop
  <2> QED  BY <1>1, <1>2, <2>1
<1>7. CASE Rename(i)
  <2>1. /\ \E n \in Names : name' = [name EXCEPT ![i] = n]
        /\ UNCHANGED <<collection, issued, readable>>
    BY <1>7 DEF Rename
  <2> QED  BY <1>1, <1>2, <2>1
<1> QED  BY <1>3, <1>4, <1>5, <1>6, <1>7

\* A change by others.  While nothing vanishes, what was there before stays and so do those
\* ahead of it; while nothing appears, what is there now was there before.
LEMMA ChangeLists ==
    ASSUME ListsInv, NEW i \in Ids,
           Insert(i) \/ Grant(i) \/ Withdraw(i) \/ Drop(i) \/ Rename(i)
    PROVE  ListsInv'
<1>1. ListsType
  BY DEF ListsInv
<1>2. /\ name' \in [Ids -> Names]
      /\ collection' \subseteq issued' /\ issued' \subseteq Ids /\ readable' \subseteq issued'
      /\ issued \subseteq issued'
      /\ \A j \in Ids : j # i => /\ name'[j] = name[j]
                                 /\ (j \in collection' <=> j \in collection)
                                 /\ (j \in readable' <=> j \in readable)
      /\ (i \in collection' /\ i \notin collection) => i \notin issued
  BY <1>1, OneChange
<1> DEFINE kept == i \in collection' \cap readable' /\ name'[i] = name[i]
           old == i \in collection \cap readable /\ name'[i] = name[i]
<1>3. /\ UNCHANGED <<query, lister, listIds, offset, listed, tied, counter, countIds, total>>
      /\ changes' = changes + 1
      /\ seen' = seen \cup readable'
      /\ steady' = IF kept THEN steady ELSE steady \ {i}
      /\ removed' = (removed \/ (i \in collection \cap seen /\ ~kept))
      /\ added' = (added \/ (i \in collection' \cap seen' /\ ~old))
  <2>1. Changed(i)
    BY <1>1, OneChange
  <2> QED  BY <2>1 DEF Changed, listVars, countVars
<1>4. /\ collection \subseteq Ids /\ readable \subseteq Ids /\ listIds \subseteq issued
      /\ readable \subseteq seen /\ listIds \subseteq seen
  BY <1>1 DEF ListsInv, ListsType, Seen
<1>5. /\ \A j : j \in Listable <=> j \in collection \cap readable /\ Passes(j)
      /\ \A j : j \in Matched <=> j \in collection \cap listIds /\ Passes(j)
      /\ \A j : j \in Listable' <=> j \in collection' \cap readable' /\ Passes(j)'
      /\ \A j : j \in Matched' <=> j \in collection' \cap listIds' /\ Passes(j)'
  BY DEF Listable, Matched, Matching
<1>6. \A j \in Ids : name'[j] = name[j] => (Passes(j)' <=> Passes(j))
  BY <1>3 DEF Passes
<1>7. \A j, k \in Ids : name'[j] = name[j] /\ name'[k] = name[k] => (Precedes(j, k)' <=> Precedes(j, k))
  BY <1>3 DEF Precedes, KeyOf
<1>8. /\ Current \subseteq Ids /\ Current' \subseteq Ids
      /\ \A x : /\ Ahead(x) = {y \in Current : ~Precedes(x, y)}
                /\ Ahead(x)' = {y \in Current' : ~Precedes(x, y)'}
  BY <1>2, <1>4, <1>5 DEF Current, Ahead
<1> HIDE DEF kept, old
<1>9. ListsType'
  BY <1>1, <1>2, <1>3 DEF ListsType
<1>10. Seen'
  BY <1>3, <1>4 DEF ListsInv, Seen, ListedReadable
<1>11. Skipping'
  <2> SUFFICES ASSUME ~removed' PROVE Skipping'
    BY DEF Skipping
  <2>1. ~removed /\ (i \in collection \cap seen => kept)
    BY <1>3
  <2>2. steady' \subseteq steady /\ (i \in steady' => kept)
    BY <1>3
  <2>3. \A j \in Ids : j \in collection /\ j \in seen => j \in collection' /\ name'[j] = name[j]
    BY <1>2, <2>1 DEF kept
  <2>4. \A j \in collection \cap readable : j \in collection' \cap readable' /\ name'[j] = name[j]
    BY <1>2, <1>4, <2>1 DEF kept
  <2>5. steady \subseteq Listable /\ steady' \subseteq Listable'
    BY <1>4, <1>5, <1>6, <2>1, <2>2, <2>4 DEF ListsInv, Skipping
  <2>6. ASSUME lister' = "find"
        PROVE  steady' \subseteq listIds' /\ collection' \cap listIds' \subseteq readable'
    <3>1. steady \subseteq listIds /\ collection \cap listIds \subseteq readable
      BY <1>3, <2>1, <2>6 DEF ListsInv, Skipping
    <3>2. \A j \in collection' \cap listIds : j \in collection
      BY <1>1, <1>2, <1>4 DEF ListsType
    <3> QED  BY <1>3, <2>2, <2>4, <3>1, <3>2
  <2>7. \A y \in Current : y \in Current' /\ name'[y] = name[y]
    BY <1>3, <1>4, <1>5, <1>6, <2>3, <2>4 DEF Current
  <2>8. ASSUME lister' # "done", ~tied', NEW x \in steady', x \notin ToSet(listed')
        PROVE  offset' <= Cardinality(Ahead(x)')
    <3>1. offset <= Cardinality(Ahead(x))
      BY <1>3, <2>1, <2>2, <2>8 DEF ListsInv, Skipping
    <3>2. x \in Ids /\ name'[x] = name[x]
      BY <1>4, <1>5, <2>2, <2>4, <2>5
    <3>3. Ahead(x) \subseteq Ahead(x)' /\ Ahead(x)' \subseteq Ids
      BY <1>7, <1>8, <2>7, <3>2
    <3>4. /\ Cardinality(Ahead(x)) \in Nat /\ Cardinality(Ahead(x)') \in Nat
          /\ Cardinality(Ahead(x)) <= Cardinality(Ahead(x)')
      BY <3>3, FewerAhead
    <3> QED  BY <1>1, <1>3, <3>1, <3>4 DEF ListsType
  <2>9. NothingSkipped'
    BY <1>3, <2>1, <2>2 DEF ListsInv, Skipping, NothingSkipped
  <2> QED  BY <2>5, <2>6, <2>8, <2>9 DEF Skipping
<1>12. Repeating'
  <2> SUFFICES ASSUME ~added' PROVE Repeating'
    BY DEF Repeating
  <2>1. ~added /\ (i \in collection' \cap seen' => old)
    BY <1>3
  <2>2. \A j \in collection' \cap seen' :
            j \in collection /\ name'[j] = name[j] /\ (j \in readable' => j \in readable)
    BY <1>2, <2>1 DEF old
  <2>3. readable' \subseteq seen' /\ listIds \subseteq seen'
    BY <1>3, <1>4
  <2>4. lister' = "find" => collection' \cap readable' \subseteq listIds'
    BY <1>3, <2>1, <2>2, <2>3 DEF ListsInv, Repeating
  <2>5. \A y \in Current' : y \in Current /\ name'[y] = name[y]
    BY <1>2, <1>3, <1>5, <1>6, <2>2, <2>3 DEF Current
  <2>6. ASSUME lister' # "done", ~tied', NEW x \in ToSet(listed') \cap Current'
        PROVE  Cardinality(Ahead(x)') < offset'
    <3>1. Cardinality(Ahead(x)) < offset
      BY <1>3, <2>1, <2>5, <2>6 DEF ListsInv, Repeating
    <3>2. Ahead(x)' \subseteq Ahead(x) /\ Ahead(x) \subseteq Ids
      BY <1>7, <1>8, <2>5
    <3>3. /\ Cardinality(Ahead(x)) \in Nat /\ Cardinality(Ahead(x)') \in Nat
          /\ Cardinality(Ahead(x)') <= Cardinality(Ahead(x))
      BY <3>2, FewerAhead
    <3> QED  BY <1>1, <1>3, <3>1, <3>3 DEF ListsType
  <2>7. ~tied' => IsInjective(listed')
    BY <1>3, <2>1 DEF ListsInv, Repeating
  <2> QED  BY <2>4, <2>6, <2>7 DEF Repeating
<1>13. Unchanged'
  BY <1>1, <1>3 DEF ListsType, Unchanged
<1> QED  BY <1>9, <1>10, <1>11, <1>12, <1>13 DEF ListsInv

\* The four properties are parts of the invariant, or follow: what is known when nothing
\* changes makes of the pages an enumeration of what can be listed.
LEMMA ListsProperties ==
    ASSUME ListsInv
    PROVE  ListedReadable /\ NothingSkipped /\ NothingTwice /\ TotalAgrees
<1>1. ListedReadable /\ NothingSkipped /\ NothingTwice
  BY DEF ListsInv, Seen, Skipping, NothingSkipped, Repeating, NothingTwice
<1>2. TotalAgrees
  <2> SUFFICES ASSUME lister = "done", counter = "done", changes = 0, ~tied
               PROVE  total = Len(listed)
    BY DEF TotalAgrees
  <2>1. ToSet(listed) = Listable /\ IsInjective(listed) /\ total = Cardinality(Listable)
    BY <1>1 DEF ListsInv, Unchanged, NothingSkipped, Repeating
  <2>2. listed \in Seq(Ids) /\ Len(listed) \in Nat /\ DOMAIN listed = 1..Len(listed)
    BY LenProperties DEF ListsInv, ListsType
  <2>3. listed \in Bijection(1..Len(listed), Listable)
    <3>1. \A k \in 1..Len(listed) : listed[k] \in Listable
      BY <2>1, <2>2 DEF ToSet
    <3>2. \A x \in Listable : \E k \in 1..Len(listed) : listed[k] = x
      BY <2>1, <2>2 DEF ToSet
    <3>3. listed \in [1..Len(listed) -> Listable]
      <4>1. listed \in [1..Len(listed) -> Ids]
        BY <2>2, LenProperties
      <4> QED  BY <3>1, <4>1
    <3> QED  BY <2>1, <3>2, <3>3 DEF Bijection, Injection, Surjection
  <2>4. IsFiniteSet(1..Len(listed)) /\ Cardinality(1..Len(listed)) = Len(listed)
    BY <2>2, FS_Interval
  <2>5. Cardinality(Listable) = Len(listed)
    BY <2>3, <2>4, FS_Bijection DEF ExistsBijection
  <2> QED  BY <2>1, <2>5
<1> QED  BY <1>1, <1>2

\* Whatever ids, names, rights and limits there are, and whatever others do between any two
\* calls of a list or a count, ListsInv holds.
THEOREM ListsInvariant == QueriesSpec => []ListsInv
<1>1. ListsInv /\ [QueriesNext]_queryVars => ListsInv'
  <2> SUFFICES ASSUME ListsInv, [QueriesNext]_queryVars PROVE ListsInv'
    OBVIOUS
  <2>1. CASE UNCHANGED queryVars
    <3>1. UNCHANGED <<name, collection, issued, readable, query, lister, listIds, offset, listed,
                      tied, counter, countIds, total, changes, steady, seen, added, removed>>
      BY <2>1 DEF queryVars, storeVars, listVars, countVars, historyVars
    <3>2. /\ Listable' = Listable /\ Current' = Current
          /\ \A x : Ahead(x)' = Ahead(x)
      BY <3>1 DEF Listable, Matched, Current, Matching, Passes, Ahead, Precedes, KeyOf
    <3> QED  BY <3>1, <3>2 DEF ListsInv, ListsType, Seen, ListedReadable, Skipping, NothingSkipped,
                Repeating, Unchanged
  <2> QED  BY <2>1, ListAccessibleLists, FindLists, CountLists, ChangeLists DEF QueriesNext
<1> QED  BY <1>1, InitLists, PTL DEF QueriesSpec

\* No page of Mongo.ListInstances shows what its user was not allowed to read at any time.
THEOREM OnlyReadableListed == QueriesSpec => []ListedReadable
<1>1. ListsInv => ListedReadable
  BY ListsProperties
<1> QED  BY <1>1, ListsInvariant, PTL

\* The pages have all that could be listed all along, if nothing vanished meanwhile.
THEOREM NothingIsSkipped == QueriesSpec => []NothingSkipped
<1>1. ListsInv => NothingSkipped
  BY ListsProperties
<1> QED  BY <1>1, ListsInvariant, PTL

\* The pages have nothing twice, if nothing appeared meanwhile.
THEOREM NothingComesTwice == QueriesSpec => []NothingTwice
<1>1. ListsInv => NothingTwice
  BY ListsProperties
<1> QED  BY <1>1, ListsInvariant, PTL

\* Mongo.CountInstances counts what Mongo.ListInstances lists, though each has a filter and
\* a call for the ids of its own.
THEOREM CountAgreesWithPages == QueriesSpec => []TotalAgrees
<1>1. ListsInv => TotalAgrees
  BY ListsProperties
<1> QED  BY <1>1, ListsInvariant, PTL

-----------------------------------------------------------------------------

(***************************************************************************)
(* Values                                                                  *)
(***************************************************************************)

\* The configurations of a request, and those of the instance as everything but the
\* database has them.
Confs == [name : ConfigNames, value : Values]
Now == Read(document)

\* Whether a name occurs, whether all do that an import type asks for, and whether none does
\* twice.
Named(configs, n) == \E j \in DOMAIN configs : configs[j].name = n
HasAll(configs, typeConfs) == \A k \in DOMAIN typeConfs : Named(configs, typeConfs[k].name)
NoneTwice(configs) ==
    \A j, k \in DOMAIN configs : configs[j].name = configs[k].name => j = k

\* What is stored is what the last accepted request asked for, completed and checked against
\* the import type of that moment.  The container was configured with it, or with what JSON
\* makes of it after a way through the database; and the answer is the latter, of what was
\* stored when it was read.
ValuesInv ==
    /\ type \in ImportTypes /\ checked \in Seq(TypeConfs)
    /\ answer \in Seq(Confs)
    /\ document # NoDocument =>
          /\ Now \in Seq(Confs)
          /\ document = Write(Now) /\ accepted = Config(Now)
          /\ config \in {accepted, AsRead(accepted)}
          /\ HasAll(Now, checked)
          /\ \A k \in DOMAIN checked :
                ValidateConfig(checked[k], Now[IndexOf(Now, checked[k].name)].value)
          /\ distinct => NoneTwice(Now)
    /\ read # NoDocument =>
          /\ document # NoDocument
          /\ Config(answer) = AsRead(read.config) /\ HasAll(answer, read.type)

-----------------------------------------------------------------------------

\* The principle behind every proof about a loop here: what holds of some numbers, but
\* not of all, fails for a least one.
LEMMA LeastNumber ==
    ASSUME NEW T \in SUBSET Nat, T # {}
    PROVE  \E m \in T : \A n \in T : m <= n
<1> DEFINE R == OpToRel(<, Nat)
<1>1. IsWellFoundedOn(R, Nat)
  BY NatLessThanWellFounded, Zenon
<1>2. \A m, n \in Nat : n < m => <<n, m>> \in R
  BY DEF OpToRel
<1> HIDE DEF R
<1>3. PICK m \in T : \A n \in T : <<n, m>> \notin R
  BY <1>1, WFMin
<1>4. \A n \in T : ~(n < m)
  BY <1>2, <1>3
<1> QED  BY <1>4

\* Numbers with a bound have a greatest one among them.
LEMMA GreatestNumber ==
    ASSUME NEW T \in SUBSET Nat, T # {}, NEW b \in Nat, \A n \in T : n <= b
    PROVE  \E m \in T : \A n \in T : n <= m
<1> DEFINE D == {d \in Nat : b - d \in T}
<1>1. D # {}
  <2>1. PICK n \in T : n <= b
    OBVIOUS
  <2> QED  BY <2>1, b - n \in Nat, b - (b - n) = n
<1>2. PICK d \in D : \A c \in D : d <= c
  BY <1>1, LeastNumber
<1>3. \A n \in T : b - n \in D
  <2> SUFFICES ASSUME NEW n \in T PROVE b - n \in Nat /\ b - (b - n) = n
    OBVIOUS
  <2> QED  OBVIOUS
<1>4. \A n \in T : n <= b - d
  <2> SUFFICES ASSUME NEW n \in T PROVE n <= b - d
    OBVIOUS
  <2>1. d <= b - n /\ d \in Nat
    BY <1>2, <1>3
  <2> QED  BY <2>1
<1>5. b - d \in T
  BY <1>2
<1> DEFINE m == b - d
<1>6. m \in T /\ \A n \in T : n <= m
  BY <1>4, <1>5
<1> HIDE DEF m
<1> QED  BY <1>6

\* IndexOf and the choice of the last one.
LEMMA First ==
    ASSUME NEW configs \in Seq(Confs), NEW n, Named(configs, n)
    PROVE  /\ IndexOf(configs, n) \in DOMAIN configs /\ IndexOf(configs, n) # 0
           /\ configs[IndexOf(configs, n)].name = n
<1> DEFINE I == {j \in 1..Len(configs) : configs[j].name = n}
<1>1. I \in SUBSET Nat /\ I # {} /\ DOMAIN configs = 1..Len(configs)
  BY LenProperties DEF Named
<1>2. \E m \in I : \A j \in I : m <= j
  BY <1>1, LeastNumber
<1>3. Min(I) \in I
  BY <1>2 DEF Min
<1>4. IndexOf(configs, n) = Min(I)
  BY <1>1 DEF IndexOf, SelectInSeq
<1> QED  BY <1>1, <1>3, <1>4

\* What a list of configurations does not name has no index in it.
LEMMA Missing ==
    ASSUME NEW configs \in Seq(Confs), NEW n, ~Named(configs, n)
    PROVE  IndexOf(configs, n) = 0
<1>1. {j \in 1..Len(configs) : configs[j].name = n} = {}
  BY LenProperties DEF Named
<1> QED  BY <1>1 DEF IndexOf, SelectInSeq

\* The last configuration of a name is the one that counts.
LastOf(configs, n) == Max({j \in 1..Len(configs) : configs[j].name = n})

LEMMA LastCounts ==
    ASSUME NEW configs \in Seq(Confs), NEW n, Named(configs, n)
    PROVE  /\ LastOf(configs, n) \in DOMAIN configs
           /\ configs[LastOf(configs, n)].name = n
           /\ n \in DOMAIN Config(configs)
           /\ Config(configs)[n] = configs[LastOf(configs, n)].value
<1> DEFINE I == {j \in 1..Len(configs) : configs[j].name = n}
<1>1. DOMAIN configs = 1..Len(configs) /\ Len(configs) \in Nat
  BY LenProperties
<1>2. I \in SUBSET Nat /\ I # {} /\ \A j \in I : j <= Len(configs)
  BY <1>1 DEF Named
<1>3. \E m \in I : \A j \in I : j <= m
  BY <1>1, <1>2, GreatestNumber
<1>4. Max(I) \in I
  BY <1>2, <1>3 DEF Max
<1>5. SelectLastInSeq(configs, LAMBDA c : c.name = n) = Max(I)
  BY <1>2 DEF SelectLastInSeq
<1>6. n \in {configs[k].name : k \in DOMAIN configs}
  BY DEF Named
<1>7. n \in DOMAIN Config(configs)
  BY <1>6 DEF Config
<1>8. Config(configs)[n] = configs[SelectLastInSeq(configs, LAMBDA c : c.name = n)].value
  BY <1>6 DEF Config
<1> QED  BY <1>1, <1>4, <1>5, <1>7, <1>8 DEF LastOf

\* It is the first one where no name comes twice.
LEMMA ConfigOf ==
    ASSUME NEW configs \in Seq(Confs), NEW n, Named(configs, n)
    PROVE  /\ n \in DOMAIN Config(configs)
           /\ NoneTwice(configs) => Config(configs)[n] = configs[IndexOf(configs, n)].value
<1>1. NoneTwice(configs) => LastOf(configs, n) = IndexOf(configs, n)
  BY First, LastCounts DEF NoneTwice
<1> QED  BY <1>1, LastCounts

\* Objects in lists that become lists of keys and values, in all configurations, leave names
\* and their order alone: the CONFIG changes value by value.
LEMMA Pairs ==
    ASSUME NEW configs \in Seq(Confs), NEW m, m = Marshalled(configs)
    PROVE  /\ m \in Seq(Confs)
           /\ \A n : Named(m, n) <=> Named(configs, n)
           /\ Config(m) = AsRead(Config(configs))
<1>1. /\ Len(configs) \in Nat /\ DOMAIN configs = 1..Len(configs)
      /\ \A k \in 1..Len(configs) : configs[k] \in Confs
  <2>1. /\ Len(configs) \in Nat /\ DOMAIN configs = 1..Len(configs)
        /\ configs \in [1..Len(configs) -> Confs]
    BY LenProperties
  <2> QED  BY <2>1
<1>2. \A k \in DOMAIN configs :
        /\ m[k] \in Confs
        /\ m[k].name = configs[k].name /\ m[k].value = AsPairs[configs[k].value]
  BY <1>1, PairsAssumption DEF Marshalled, Confs
<1>3. DOMAIN m = DOMAIN configs /\ m = [k \in 1..Len(configs) |-> m[k]]
  BY <1>1 DEF Marshalled
<1>4. m \in Seq(Confs) /\ Len(m) = Len(configs)
  <2>1. m \in [1..Len(configs) -> Confs]
    BY <1>1, <1>2, <1>3
  <2>2. m \in Seq(Confs)
    BY <1>1, <2>1, SeqDef
  <2>3. DOMAIN m = 1..Len(m) /\ Len(m) \in Nat
    BY <2>2, LenProperties
  <2> QED  BY <1>1, <1>3, <2>2, <2>3
<1>5. \A n : Named(m, n) <=> Named(configs, n)
  BY <1>2, <1>3 DEF Named
<1>6. \A n : LastOf(m, n) = LastOf(configs, n)
  <2> SUFFICES ASSUME NEW n PROVE LastOf(m, n) = LastOf(configs, n)
    OBVIOUS
  <2>1. {j \in 1..Len(m) : m[j].name = n} = {j \in 1..Len(configs) : configs[j].name = n}
    BY <1>1, <1>2, <1>4
  <2> QED  BY <2>1 DEF LastOf
<1>7. DOMAIN Config(m) = DOMAIN Config(configs)
  <2>1. {m[k].name : k \in DOMAIN m} = {configs[k].name : k \in DOMAIN configs}
    BY <1>2, <1>3
  <2> QED  BY <2>1 DEF Config
<1>8. ASSUME NEW n \in DOMAIN Config(configs)
      PROVE  Config(m)[n] = AsPairs[Config(configs)[n]]
  <2>1. Named(configs, n)
    BY DEF Config, Named
  <2> QED  BY <1>2, <1>4, <1>5, <1>6, <2>1, LastCounts
<1>9. Config(m) = [n \in DOMAIN Config(m) |-> Config(m)[n]]
  BY DEF Config
<1> QED  BY <1>4, <1>5, <1>7, <1>8, <1>9 DEF AsRead

\* What a turn of fillDefaultValues does.
LEMMA OneTurn ==
    ASSUME NEW configs \in Seq(Confs), NEW t \in TypeConfs,
           NEW filled, filled = FillOne(configs, t)
    PROVE  /\ filled \in Seq(Confs)
           /\ \A n : Named(configs, n) => Named(filled, n)
           /\ \A k \in DOMAIN configs : k \in DOMAIN filled /\ filled[k] = configs[k]
           /\ Named(filled, t.name)
           /\ NoneTwice(configs) => NoneTwice(filled)
           /\ Named(configs, t.name) => filled = configs
<1>1. CASE Named(configs, t.name)
  <2>1. filled = configs
    BY <1>1, First DEF FillOne
  <2> QED  BY <1>1, <2>1
<1>2. CASE ~Named(configs, t.name)
  <2> DEFINE c == [name |-> t.name, value |-> t.default]
  <2>1. filled = Append(configs, c)
    BY <1>2, Missing DEF FillOne
  <2>2. c \in Confs /\ c.name = t.name
    BY DEF Confs, TypeConfs
  <2> HIDE DEF c
  <2>3. /\ filled \in Seq(Confs) /\ Len(filled) = Len(configs) + 1
        /\ \A k \in 1..Len(configs) : filled[k] = configs[k]
        /\ filled[Len(configs) + 1] = c
    BY <2>1, <2>2, AppendProperties
  <2>4. /\ DOMAIN configs = 1..Len(configs) /\ Len(configs) \in Nat
        /\ DOMAIN filled = 1..(Len(configs) + 1)
    BY <2>3, LenProperties
  <2>5. \A k \in DOMAIN filled : k \in DOMAIN configs \/ k = Len(configs) + 1
    BY <2>4
  <2>6. \A k \in DOMAIN configs : k \in DOMAIN filled /\ filled[k] = configs[k] /\ filled[k].name # t.name
    BY <1>2, <2>3, <2>4 DEF Named
  <2>7. Len(configs) + 1 \in DOMAIN filled /\ filled[Len(configs) + 1].name = t.name
    BY <2>2, <2>3, <2>4
  <2>8. NoneTwice(configs) => NoneTwice(filled)
    BY <2>5, <2>6, <2>7 DEF NoneTwice
  <2>9. Named(filled, t.name) /\ \A n : Named(configs, n) => Named(filled, n)
    BY <2>6, <2>7 DEF Named
  <2> QED  BY <1>2, <2>1, <2>3, <2>6, <2>8, <2>9
<1> QED  BY <1>1, <1>2

\* What the loop of fillDefaultValues makes of a request, turn by turn.
LEMMA Turns ==
    ASSUME NEW configs \in Seq(Confs), NEW typeConfs \in Seq(TypeConfs)
    PROVE  \E turn \in [0..Len(typeConfs) -> Seq(Confs)] :
              /\ turn[0] = configs
              /\ \A k \in 1..Len(typeConfs) : turn[k] = FillOne(turn[k - 1], typeConfs[k])
              /\ FillDefaultValues(configs, typeConfs) = turn[Len(typeConfs)]
<1> DEFINE N == Len(typeConfs)
           Good(f, n) == /\ f \in [0..n -> Seq(Confs)]
                         /\ f[0] = configs
                         /\ \A k \in 1..n : f[k] = FillOne(f[k - 1], typeConfs[k])
           Undone == {n \in Nat : n <= N /\ ~\E f : Good(f, n)}
<1>1. N \in Nat /\ \A k \in 1..N : typeConfs[k] \in TypeConfs
  BY LenProperties, ElementOfSeq
<1> HIDE DEF N
<1>2. Undone = {}
  <2> SUFFICES ASSUME Undone # {} PROVE FALSE
    OBVIOUS
  <2>1. PICK n \in Undone : \A m \in Undone : n <= m
    BY LeastNumber
  <2>2. n # 0
    <3>1. Good([k \in 0..0 |-> configs], 0)
      OBVIOUS
    <3> QED  BY <2>1, <3>1
  <2>3. n - 1 \in Nat /\ n - 1 <= N /\ n \in 1..N
    <3>1. n \in Nat /\ n <= N
      BY <2>1
    <3> QED  BY <1>1, <2>2, <3>1
  <2>4. PICK f : Good(f, n - 1)
    <3> HIDE DEF Undone, Good
    <3>1. n - 1 \notin Undone
      BY <2>1, <2>3
    <3> QED  BY <2>3, <3>1 DEF Undone
  <2> DEFINE g == [k \in 0..n |-> IF k = n THEN FillOne(f[n - 1], typeConfs[n]) ELSE f[k]]
  <2>5. f[n - 1] \in Seq(Confs)
    BY <2>3, <2>4
  <2>6. FillOne(f[n - 1], typeConfs[n]) \in Seq(Confs)
    BY <1>1, <2>3, <2>5, OneTurn
  <2>7. g \in [0..n -> Seq(Confs)]
    BY <2>3, <2>4, <2>6
  <2>8. g[0] = configs
    BY <2>2, <2>3, <2>4
  <2>9. \A k \in 1..n : g[k] = FillOne(g[k - 1], typeConfs[k])
    <3> SUFFICES ASSUME NEW k \in 1..n PROVE g[k] = FillOne(g[k - 1], typeConfs[k])
      OBVIOUS
    <3>1. k \in 0..n /\ k - 1 \in 0..n /\ k - 1 # n /\ g[k - 1] = f[k - 1]
      BY <2>3
    <3>2. CASE k = n
      BY <3>1, <3>2
    <3>3. CASE k # n
      <4>1. k \in 1..(n - 1)
        BY <2>3, <3>3
      <4> QED  BY <2>4, <3>1, <3>3, <4>1
    <3> QED  BY <3>2, <3>3
  <2> HIDE DEF g
  <2> QED  BY <2>1, <2>7, <2>8, <2>9
<1>3. PICK f : Good(f, N)
  <2> HIDE DEF Good, Undone
  <2>1. N \notin Undone
    BY <1>2
  <2> QED  BY <1>1, <2>1, N <= N DEF Undone
<1> DEFINE Loop(h) == [k \in 0..N |-> IF k = 0 THEN configs ELSE FillOne(h[k - 1], typeConfs[k])]
           turn == CHOOSE h : h = Loop(h)
<1>4. f = Loop(f)
  BY <1>1, <1>3
<1>5. turn = Loop(turn)
  BY <1>4
<1>6. FillDefaultValues(configs, typeConfs) = turn[N]
  BY DEF FillDefaultValues, N
<1> HIDE DEF turn
<1>7. turn[0] = configs /\ \A k \in 1..N : turn[k] = FillOne(turn[k - 1], typeConfs[k])
  BY <1>1, <1>5
<1>8. \A k \in 0..N : turn[k] = f[k]
  <2> DEFINE Other == {k \in Nat : k <= N /\ turn[k] # f[k]}
  <2> SUFFICES ASSUME Other # {} PROVE FALSE
    OBVIOUS
  <2>1. PICK k \in Other : \A m \in Other : k <= m
    BY LeastNumber
  <2>2. k # 0
    BY <1>3, <1>7, <2>1
  <2>3. k \in 1..N /\ k - 1 \in Nat /\ k - 1 <= N /\ k - 1 \notin Other
    BY <1>1, <2>1, <2>2
  <2>4. turn[k - 1] = f[k - 1]
    BY <2>3
  <2> QED  BY <1>3, <1>7, <2>1, <2>3, <2>4
<1>9. turn \in [0..N -> Seq(Confs)]
  <2>1. \A k \in 0..N : turn[k] \in Seq(Confs)
    BY <1>3, <1>8
  <2>2. turn = [k \in 0..N |-> turn[k]]
    BY <1>5
  <2> QED  BY <2>1, <2>2
<1> QED  BY <1>6, <1>7, <1>9 DEF N

\* What fillDefaultValues returns has all that the import type asks for, names nothing twice
\* if the request does not, and is the request if that had everything already.
LEMMA Filled ==
    ASSUME NEW configs \in Seq(Confs), NEW typeConfs \in Seq(TypeConfs)
    PROVE  LET filled == FillDefaultValues(configs, typeConfs)
           IN  /\ filled \in Seq(Confs)
               /\ HasAll(filled, typeConfs)
               /\ NoneTwice(configs) => NoneTwice(filled)
               /\ HasAll(configs, typeConfs) => filled = configs
<1> DEFINE N == Len(typeConfs)
<1>1. N \in Nat /\ DOMAIN typeConfs = 1..N /\ \A k \in 1..N : typeConfs[k] \in TypeConfs
  BY LenProperties, ElementOfSeq
<1>2. PICK turn \in [0..N -> Seq(Confs)] :
        /\ turn[0] = configs
        /\ \A k \in 1..N : turn[k] = FillOne(turn[k - 1], typeConfs[k])
        /\ FillDefaultValues(configs, typeConfs) = turn[N]
  BY Turns
<1> HIDE DEF N
<1> DEFINE Has(k, n) == \A j \in 1..n : Named(turn[k], typeConfs[j].name)
           Once(k) == NoneTwice(configs) => NoneTwice(turn[k])
           Same(k) == HasAll(configs, typeConfs) => turn[k] = configs
           Bad == {k \in Nat : k <= N /\ ~(Has(k, k) /\ Once(k) /\ Same(k))}
<1>3. Bad = {}
  <2> SUFFICES ASSUME Bad # {} PROVE FALSE
    OBVIOUS
  <2>1. PICK k \in Bad : \A m \in Bad : k <= m
    BY LeastNumber
  <2>2. k \in Nat /\ k <= N
    BY <2>1
  <2>3. k # 0
    BY <1>2, <2>1
  <2>4. k \in 1..N /\ k - 1 \in Nat /\ k - 1 <= N /\ k - 1 \in 0..N
    BY <1>1, <2>2, <2>3
  <2>5. k - 1 \notin Bad
    <3> HIDE DEF Bad
    <3> QED  BY <2>1, <2>4
  <2>6. Has(k - 1, k - 1) /\ Once(k - 1) /\ Same(k - 1)
    <3> HIDE DEF Has, Once, Same
    <3> QED  BY <2>4, <2>5
  <2> DEFINE c == turn[k - 1]
             d == turn[k]
             t == typeConfs[k]
  <2>7. c \in Seq(Confs) /\ t \in TypeConfs /\ d = FillOne(c, t)
    BY <1>1, <1>2, <2>4
  <2>8. /\ \A n : Named(c, n) => Named(d, n)
        /\ Named(d, t.name)
        /\ NoneTwice(c) => NoneTwice(d)
        /\ Named(c, t.name) => d = c
    <3> HIDE DEF c, d, t
    <3> QED  BY <2>7, OneTurn
  <2>9. Has(k, k)
    <3> SUFFICES ASSUME NEW j \in 1..k
                 PROVE  Named(d, typeConfs[j].name)
      OBVIOUS
    <3>1. CASE j = k
      BY <2>8, <3>1
    <3>2. CASE j # k
      <4>1. j \in 1..(k - 1)
        BY <2>4, <3>2
      <4> QED  BY <2>6, <2>8, <4>1
    <3> QED  BY <3>1, <3>2
  <2>10. Once(k)
    BY <2>6, <2>8
  <2>11. Same(k)
    <3> SUFFICES ASSUME HasAll(configs, typeConfs) PROVE d = configs
      OBVIOUS
    <3>1. c = configs /\ Named(configs, t.name)
      BY <1>1, <2>4, <2>6 DEF HasAll
    <3> QED  BY <2>8, <3>1
  <2> HIDE DEF Has, Once, Same
  <2> QED  BY <2>1, <2>9, <2>10, <2>11
<1>4. Has(N, N) /\ Once(N) /\ Same(N)
  <2> HIDE DEF Has, Once, Same
  <2>1. N \notin Bad
    <3> HIDE DEF Bad
    <3> QED  BY <1>3
  <2> QED  BY <1>1, <2>1, N <= N
<1>5. turn[N] \in Seq(Confs)
  BY <1>1, <1>2
<1>6. HasAll(turn[N], typeConfs)
  BY <1>1, <1>4 DEF HasAll
<1> QED  BY <1>2, <1>4, <1>5, <1>6

\* What is stored can be read again; a structure's string is not null.
LEMMA RoundTrip ==
    ASSUME NEW configs \in Seq(Confs)
    PROVE  /\ Read(Write(configs)) = configs
           /\ Write(configs) # NoDocument
           /\ Encoded(Write(configs)) \in Seq(Confs)
<1>1. /\ Len(configs) \in Nat /\ DOMAIN configs = 1..Len(configs)
      /\ \A k \in 1..Len(configs) : configs[k] \in Confs
      /\ configs = [k \in 1..Len(configs) |-> configs[k]]
  <2>1. /\ Len(configs) \in Nat /\ DOMAIN configs = 1..Len(configs)
        /\ configs \in [1..Len(configs) -> Confs]
    BY LenProperties
  <2> QED  BY <2>1
<1> DEFINE n == Len(configs)
           Stored == [name : ConfigNames, value : Values, valueString : Values]
<1>2. ASSUME NEW c \in Confs
      PROVE  /\ ConfigToRead(ConfigToWrite(c)) = c
             /\ ConfigToWrite(c) \in Stored
             /\ [name |-> ConfigToWrite(c).name, value |-> ConfigToWrite(c).value] \in Confs
  <2>1. /\ c.name \in ConfigNames /\ c.value \in Values
        /\ c = [name |-> c.name, value |-> c.value]
    BY DEF Confs
  <2>2. KindOf[c.value] = "structure" => c.value # Null
    BY <2>1, ValuesAssumption
  <2>3. CASE KindOf[c.value] = "structure"
    BY <2>1, <2>2, <2>3, ValuesAssumption DEF ConfigToWrite, ConfigToRead, Confs
  <2>4. CASE KindOf[c.value] # "structure"
    BY <2>1, <2>4, ValuesAssumption DEF ConfigToWrite, ConfigToRead, Confs
  <2> QED  BY <2>3, <2>4
<1> HIDE DEF n
<1>3. /\ DOMAIN Write(configs) = 1..n
      /\ \A k \in 1..n : Write(configs)[k] = ConfigToWrite(configs[k])
  BY <1>1 DEF Write, n
<1>4. Read(Write(configs)) = configs
  <2>1. Read(Write(configs)) = [k \in 1..n |-> ConfigToRead(ConfigToWrite(configs[k]))]
    BY <1>3 DEF Read
  <2>2. \A k \in 1..n : ConfigToRead(ConfigToWrite(configs[k])) = configs[k]
    BY <1>1, <1>2 DEF n
  <2>3. Read(Write(configs)) = [k \in 1..n |-> configs[k]]
    BY <2>1, <2>2
  <2> QED  BY <1>1, <2>3 DEF n
<1>5. Write(configs) \in Seq(Stored)
  <2>1. Write(configs) \in [1..n -> Stored]
    BY <1>1, <1>2 DEF Write, n
  <2> HIDE DEF Stored
  <2> QED  BY <1>1, <2>1, SeqDef DEF n
<1>6. Encoded(Write(configs)) \in Seq(Confs)
  <2>1. Encoded(Write(configs)) \in [1..n -> Confs]
    BY <1>1, <1>2, <1>3 DEF Encoded, n
  <2> QED  BY <1>1, <2>1, SeqDef DEF n
<1> QED  BY <1>4, <1>5, <1>6, NoDocumentAssumption

-----------------------------------------------------------------------------

\* What CreateInstance and SetInstance leave behind.
LEMMA StoreKnown ==
    ASSUME ValuesInv, NEW configs \in Seq(Confs), Store(configs)
    PROVE  /\ document' # NoDocument
           /\ Now' \in Seq(Confs)
           /\ document' = Write(Now') /\ config' = Config(Now') /\ accepted' = config'
           /\ HasAll(Now', checked')
           /\ \A k \in DOMAIN checked' :
                 ValidateConfig(checked'[k], Now'[IndexOf(Now', checked'[k].name)].value)
           /\ distinct' => NoneTwice(Now')
           /\ type' \in ImportTypes /\ checked' \in Seq(TypeConfs)
           /\ Encoded(document') \in Seq(Confs)
           /\ HasAll(configs, type) => Now' = configs
<1> DEFINE filled == FillDefaultValues(configs, type)
<1>1. type \in ImportTypes /\ type \in Seq(TypeConfs)
  BY TypesAssumption DEF ValuesInv
<1>2. /\ filled \in Seq(Confs)
      /\ HasAll(filled, type)
      /\ NoneTwice(configs) => NoneTwice(filled)
      /\ HasAll(configs, type) => filled = configs
  BY <1>1, Filled
<1>3. /\ config' = Config(filled) /\ accepted' = config'
      /\ document' = Write(filled) /\ checked' = type /\ type' = type
      /\ distinct' = NoneTwice(configs)
      /\ \A k \in DOMAIN type : ValidateConfig(type[k], filled[IndexOf(filled, type[k].name)].value)
  BY DEF Store, Accepted, NoneTwice
<1> HIDE DEF filled
<1>4. Now' = filled /\ document' # NoDocument /\ Encoded(document') \in Seq(Confs)
  BY <1>2, <1>3, RoundTrip DEF Now
<1> QED  BY <1>1, <1>2, <1>3, <1>4

\* The requests that are enumerated are lists of configurations.
LEMMA RequestsAreConfs == Requests \subseteq Seq(Confs)
<1> SUFFICES ASSUME NEW configs \in Requests PROVE configs \in Seq(Confs)
  OBVIOUS
<1>1. PICK n \in 0..MaxConfigs : configs \in [1..n -> Confs]
  BY DEF Requests, SeqOf, Confs
<1>2. n \in Nat
  BY <1>1, WritesAssumption
<1> QED  BY <1>1, <1>2, SeqDef

\* What is known of the instance goes with these variables.
LEMMA ValuesKept ==
    ASSUME ValuesInv, UNCHANGED <<document, distinct, checked, accepted>>,
           document # NoDocument => config' \in {accepted, AsRead(accepted)},
           type' \in ImportTypes, answer' \in Seq(Confs),
           read' # NoDocument =>
              /\ document' # NoDocument
              /\ Config(answer') = AsRead(read'.config) /\ HasAll(answer', read'.type)
    PROVE  ValuesInv'
<1>1. Now' = Now
  BY DEF Now
<1> QED  BY <1>1 DEF ValuesInv

\* What a restoration does.
LEMMA RestoredOnce ==
    ASSUME ValuesInv, RestoreConfigs
    PROVE  document' = document /\ config' = AsRead(accepted)
<1>1. /\ Now \in Seq(Confs) /\ document = Write(Now) /\ accepted = Config(Now)
      /\ document' = Write(Now) /\ config' = Config(Marshalled(Now))
  BY DEF ValuesInv, RestoreConfigs, Now
<1> QED  BY <1>1, Pairs

\* Whatever import types and values there are, and however often an import type is edited, the
\* instance is stored, read, sent back and restored, ValuesInv holds.
THEOREM ValuesInvariant == ValuesSpec => []ValuesInv
<1>1. ValuesInit => ValuesInv
  <2> SUFFICES ASSUME ValuesInit PROVE ValuesInv
    OBVIOUS
  <2>1. <<>> \in Seq(Confs) /\ <<>> \in Seq(TypeConfs)
    OBVIOUS
  <2> QED  BY <2>1 DEF ValuesInit, ValuesInv
<1>2. ValuesInv /\ [ValuesNext]_valueVars => ValuesInv'
  <2> SUFFICES ASSUME ValuesInv, [ValuesNext]_valueVars PROVE ValuesInv'
    OBVIOUS
  <2>1. CASE PostConfigs
    <3>1. PICK configs \in Seq(Confs) : Store(configs)
      BY <2>1, RequestsAreConfs DEF PostConfigs
    <3>2. answer' = Encoded(document') /\ read' = read /\ read = NoDocument
      BY <2>1 DEF PostConfigs, ValuesInv
    <3> QED  BY <3>1, <3>2, StoreKnown DEF ValuesInv
  <2>2. CASE PutConfigs
    <3>1. PICK configs \in Seq(Confs) : Store(configs)
      BY <2>2, RequestsAreConfs DEF PutConfigs
    <3>2. answer' = answer /\ read' = read
      BY <2>2 DEF PutConfigs
    <3> QED  BY <3>1, <3>2, StoreKnown DEF ValuesInv
  <2>3. CASE PutBack
    <3>1. Store(answer) /\ answer \in Seq(Confs) /\ answer' = answer /\ read' = read
      BY <2>3 DEF PutBack, ValuesInv
    <3> QED  BY <3>1, StoreKnown DEF ValuesInv
  <2>4. CASE GetConfigs
    <3>1. /\ answer' = Marshalled(Now) /\ read' = [config |-> accepted, type |-> checked]
          /\ document # NoDocument
          /\ UNCHANGED <<type, document, config, distinct, checked, accepted>>
      BY <2>4 DEF GetConfigs, Now
    <3>2. /\ Now \in Seq(Confs) /\ accepted = Config(Now) /\ HasAll(Now, checked)
          /\ config \in {accepted, AsRead(accepted)} /\ type \in ImportTypes
      BY <3>1 DEF ValuesInv
    <3>3. /\ answer' \in Seq(Confs) /\ Config(answer') = AsRead(accepted)
          /\ HasAll(answer', checked)
      BY <3>1, <3>2, Pairs DEF HasAll
    <3> QED  BY <3>1, <3>2, <3>3, ValuesKept
  <2>5. CASE RestoreConfigs
    <3>1. UNCHANGED <<type, answer, distinct, checked, accepted, read>> /\ document # NoDocument
      BY <2>5 DEF RestoreConfigs
    <3>2. document' = document /\ config' = AsRead(accepted)
      BY <2>5, RestoredOnce
    <3> QED  BY <3>1, <3>2, ValuesKept DEF ValuesInv
  <2>6. CASE EditType
    BY <2>6, ValuesKept DEF EditType, ValuesInv
  <2>7. CASE UNCHANGED valueVars
    BY <2>7, ValuesKept DEF valueVars, ValuesInv
  <2> QED  BY <2>1, <2>2, <2>3, <2>4, <2>5, <2>6, <2>7 DEF ValuesNext
<1> QED  BY <1>1, <1>2, PTL DEF ValuesSpec

\* The CONFIG of the container has what its import type asks for, of the type it asks for
\* (fillDefaultValues, validateConfig, getEnv).
THEOREM ConfigIsComplete == ValuesSpec => []ConfigComplete
<1>1. ValuesInv => ConfigComplete
  <2> SUFFICES ASSUME ValuesInv, document # NoDocument, distinct, NEW k \in DOMAIN checked
               PROVE  /\ checked[k].name \in DOMAIN config
                      /\ ValidateConfig(checked[k], config[checked[k].name])
    BY DEF ConfigComplete
  <2> DEFINE n == checked[k].name
             v == Now[IndexOf(Now, n)].value
  <2>1. /\ Now \in Seq(Confs) /\ accepted = Config(Now) /\ NoneTwice(Now) /\ Named(Now, n)
        /\ config \in {accepted, AsRead(accepted)} /\ ValidateConfig(checked[k], v)
    BY DEF ValuesInv, HasAll
  <2>2. n \in DOMAIN accepted /\ accepted[n] = v
    BY <2>1, ConfigOf
  <2>3. v \in Values
    <3>1. IndexOf(Now, n) \in DOMAIN Now
      BY <2>1, First
    <3>2. Now[IndexOf(Now, n)] \in Confs
      BY <2>1, <3>1, LenProperties, ElementOfSeq
    <3> QED  BY <3>2 DEF Confs
  <2>4. n \in DOMAIN config /\ config[n] \in {v, AsPairs[v]}
    BY <2>1, <2>2 DEF AsRead
  <2>5. KindOf[AsPairs[v]] = KindOf[v]
    BY <2>3, PairsAssumption
  <2> QED  BY <2>1, <2>4, <2>5 DEF ValidateConfig
<1> QED  BY <1>1, ValuesInvariant, PTL

\* Whatever the values are, all that a way through configToWrite, the database and configToRead
\* changes of what the last accepted request asked for are the objects in its lists: so every
\* restoration gives the container the same CONFIG, and leaves the document alone.
THEOREM RestorationKeepsValues == ValuesSpec => RestoredAsAccepted
<1>1. ValuesInv => (RestoreConfigs => config' = AsRead(accepted) /\ UNCHANGED document)
  BY RestoredOnce
<1> QED  BY <1>1, ValuesInvariant, PTL DEF RestoredAsAccepted

\* An instance that is sent back as it was read gets the CONFIG that the last accepted request
\* asked for when it was read, but for the objects in its lists.
THEOREM PutBackKeepsValues == ValuesSpec => PutBackKeeps
<1>1. ValuesInv => (PutBack /\ read # NoDocument /\ read.type = type => config' = AsRead(read.config))
  <2> SUFFICES ASSUME ValuesInv, PutBack, read # NoDocument, read.type = type
               PROVE  config' = AsRead(read.config)
    OBVIOUS
  <2>1. /\ Store(answer) /\ answer \in Seq(Confs) /\ HasAll(answer, type)
        /\ Config(answer) = AsRead(read.config)
    BY DEF PutBack, ValuesInv
  <2> QED  BY <2>1, StoreKnown
<1> QED  BY <1>1, ValuesInvariant, PTL DEF PutBackKeeps
=============================================================================
