----------------------------- MODULE ClientRoutes ----------------------------
(***************************************************************************)
(* lib/client against the router of lib/api: what request a method of the  *)
(* client sends, which handler gets it, what the handler answers, and what *)
(* the method makes of the answer.  The handlers' own steps are the matter *)
(* of Controller: here each is one step of a service that knows the names  *)
(* of a user's instances.  Other programs use the service at the same time.*)
(***************************************************************************)
EXTENDS UserInstances, Naturals, Sequences

CONSTANT NoId       \* the id of an instance that has none yet

ASSUME NoIdAssumption == NoId \notin Ids

VARIABLES
    instances,      \* the names of the user's instances, by id
    used,           \* the ids there have been
    stage,          \* "idle", "sent", "answered", "returned"
    call,           \* the method called, with its arguments
    request,        \* the request: method, path, and body or query
    response,       \* the answer: code, and body
    result,         \* what the client's method returns: failed (err # nil), code, value
    served          \* history: the instances when the request was served

routesVars == <<instances, used, stage, call, request, response, result, served>>

Nothing == [kind |-> "none"]

-----------------------------------------------------------------------------

(***************************************************************************)
(* The client: lib/client/instances.go                                     *)
(***************************************************************************)

Calls ==
    [op : {"Read", "Delete"}, id : Ids]
      \cup [op : {"Set"}, id : Ids, name : Names]
      \cup [op : {"Create"}, name : Names]
      \cup [op : {"List", "Count"}, includeGenerated : BOOLEAN]

\* "/instances/" + id + "&for_user=": what is meant as a parameter becomes part of the id.
WithForUser(id) == <<"instances", [id |-> id, forUser |-> TRUE]>>

\* A bug: the flag is passed on as it is.
QueryInverted(c) == [kind |-> "query", excludeGenerated |-> c.includeGenerated]

Query(c) == [kind |-> "query", excludeGenerated |-> ~c.includeGenerated]

Body(id, name) == [kind |-> "instance", id |-> id, name |-> name]

RequestOf(c) ==
    CASE c.op = "Read"   -> [method |-> "GET", path |-> WithForUser(c.id), body |-> Nothing]
      [] c.op = "Delete" -> [method |-> "DELETE", path |-> WithForUser(c.id), body |-> Nothing]
      [] c.op = "Set"    -> [method |-> "POST", path |-> <<"instances">>, body |-> Body(c.id, c.name)]
      [] c.op = "Create" -> [method |-> "POST", path |-> <<"instances">>, body |-> Body(NoId, c.name)]
      [] c.op \in {"List", "Count"}
                         -> [method |-> "GET", path |-> <<"instances">>, body |-> Query(c)]

\* What the answer's body is decoded into.
Target(op) ==
    CASE op = "List" -> "list" [] op = "Count" -> "number" [] OTHER -> "instance"

Failure(code) == [failed |-> TRUE, code |-> code, value |-> Nothing]

\* do[T]: null is decoded into anything, and the code is 0 when all went well.
Do(op) ==
    IF response.code > 299 THEN Failure(response.code)
    ELSE IF response.body.kind \in {Target(op), "null"}
         THEN [failed |-> FALSE, code |-> 0, value |-> response.body]
         ELSE Failure(500)

\* SetInstance and DeleteInstance leave it to the caller to look at the code.
ResultOf(op) ==
    IF op \in {"Set", "Delete"}
    THEN [failed |-> FALSE, code |-> response.code, value |-> Nothing]
    ELSE Do(op)

Send ==
    /\ stage \in {"idle", "returned"}
    /\ stage' = "sent"
    /\ call' \in Calls
    /\ request' = RequestOf(call')
    /\ response' = Nothing /\ result' = Nothing
    /\ UNCHANGED <<instances, used, served>>

Conclude ==
    /\ stage = "answered"
    /\ stage' = "returned"
    /\ result' = ResultOf(call.op)
    /\ UNCHANGED <<instances, used, call, request, response, served>>

\* No connection, or one that breaks.
Unreachable ==
    /\ stage = "sent"
    /\ stage' = "returned"
    /\ result' = Failure(500)
    /\ UNCHANGED <<instances, used, call, request, response, served>>

-----------------------------------------------------------------------------

(***************************************************************************)
(* The service: the routes of lib/api/instances.go                         *)
(***************************************************************************)

Answer(code, body) ==
    /\ stage' = "answered"
    /\ response' = [code |-> code, body |-> body]
    /\ served' = instances'
    /\ UNCHANGED <<call, request, result>>

Text == [kind |-> "text"]

\* The route of a method and a path; every path with one more segment has ":id" in it.
Routed(method, segments) ==
    /\ stage = "sent"
    /\ request.method = method
    /\ Len(request.path) = segments /\ request.path[1] = "instances"

\* Whether the user has the instance with the id in the path.
Found == ~request.path[2].forUser /\ request.path[2].id \in DOMAIN instances

\* What a list with these parameters shows.
Shown(excluded) == {i \in DOMAIN instances : excluded => i \notin Generated}

\* An empty list is a nil slice, which is encoded as null.
HandleList ==
    /\ Routed("GET", 1)
    /\ UNCHANGED <<instances, used>>
    /\ LET ids == Shown(request.body.excludeGenerated)
       IN  Answer(200, IF ids = {} THEN [kind |-> "null"]
                       ELSE [kind |-> "list", names |-> [i \in ids |-> instances[i]]])

HandleRead ==
    /\ Routed("GET", 2)
    /\ UNCHANGED <<instances, used>>
    /\ IF Found THEN Answer(200, Body(request.path[2].id, instances[request.path[2].id]))
       ELSE Answer(404, Text)

HandleDelete ==
    /\ Routed("DELETE", 2)
    /\ UNCHANGED used
    /\ instances' = [j \in {i \in DOMAIN instances : Found => i # request.path[2].id} |-> instances[j]]
    /\ Answer(IF Found THEN 204 ELSE 404, IF Found THEN Nothing ELSE Text)

\* "explicit setting of id not allowed"
RefuseId ==
    /\ Routed("POST", 1) /\ request.body.id # NoId
    /\ UNCHANGED <<instances, used>>
    /\ Answer(400, Text)

\* A bug: an id that the user has chosen is passed over.
HandleCreateAnyId ==
    /\ Routed("POST", 1)
    /\ \E i \in Ids \ used :
        /\ used' = used \cup {i}
        /\ instances' = [j \in DOMAIN instances \cup {i} |->
                            IF j = i THEN request.body.name ELSE instances[j]]
        /\ Answer(200, Body(i, request.body.name))

HandleCreate ==
    /\ Routed("POST", 1) /\ request.body.id = NoId
    /\ \E i \in Ids \ used :
        /\ used' = used \cup {i}
        /\ instances' = [j \in DOMAIN instances \cup {i} |->
                            IF j = i THEN request.body.name ELSE instances[j]]
        /\ Answer(200, Body(i, request.body.name))

\* Any handler may come upon an error of what it depends on.
HandleError == stage = "sent" /\ UNCHANGED <<instances, used>> /\ Answer(500, Text)

Handle ==
    HandleList \/ HandleRead \/ HandleDelete \/ RefuseId \/ HandleCreate \/ HandleError

-----------------------------------------------------------------------------

\* The requests of other programs.
OthersCreate(i, name) ==
    /\ i \notin used
    /\ used' = used \cup {i}
    /\ instances' = [j \in DOMAIN instances \cup {i} |-> IF j = i THEN name ELSE instances[j]]
    /\ UNCHANGED <<stage, call, request, response, result, served>>

OthersDelete(i) ==
    /\ i \in DOMAIN instances
    /\ instances' = [j \in DOMAIN instances \ {i} |-> instances[j]]
    /\ UNCHANGED <<used, stage, call, request, response, result, served>>

RoutesInit ==
    /\ instances = <<>>
    /\ used = {}
    /\ stage = "idle"
    /\ call = Nothing /\ request = Nothing /\ response = Nothing /\ result = Nothing
    /\ served = <<>>

RoutesNext ==
    \/ Send \/ Handle \/ Conclude \/ Unreachable
    \/ \E i \in Ids : OthersDelete(i) \/ \E n \in Names : OthersCreate(i, n)

RoutesSpec == RoutesInit /\ [][RoutesNext]_routesVars

-----------------------------------------------------------------------------

Returned(op) == stage = "returned" /\ call.op = op

Succeeded(op) == Returned(op) /\ ~result.failed

Wanted == {i \in DOMAIN served : call.includeGenerated \/ i \notin Generated}

\* What the client returns without an error is what the service has, though routes,
\* parameters and encodings are written twice, in lib/client and lib/api: a list has the
\* instances asked for, a count that comes without an error is 0 and right, and what was
\* created is there.
NoFalseAnswers ==
    /\ Succeeded("List") =>
          \/ result.value.kind = "null" /\ Wanted = {}
          \/ result.value.kind = "list" /\ result.value.names = [i \in Wanted |-> served[i]]
    /\ Succeeded("Count") => result.value.kind = "null" /\ Wanted = {}
    /\ Succeeded("Create") =>
          /\ result.value.id \in DOMAIN served
          /\ served[result.value.id] = call.name

\* ReadInstance, SetInstance of an instance that has an id, and DeleteInstance send what no
\* handler takes for what it was meant to be (lib/client/instances.go:51, 77, 90).  None
\* of them is taken for one that succeeded: the caller gets an error or the code of one.
MissesShow ==
    Returned("Read") \/ Returned("Set") \/ Returned("Delete") =>
        result.failed \/ result.code > 299
=============================================================================
