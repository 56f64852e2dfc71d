----------------------------- MODULE Controller ------------------------------
(***************************************************************************)
(* lib/controller: CreateInstance, SetInstance and DeleteInstance, each a  *)
(* sequence of calls to the permissions service, the backend, Kafka and    *)
(* the database.  Handlers run concurrently, one per HTTP request, and     *)
(* share nothing but what those services hold: a step is one such call,    *)
(* together with the local work up to the next one.                        *)
(***************************************************************************)
EXTENDS KafkaAdmin, InstanceStore, DeploymentClient

CONSTANTS
    Reqs,               \* the HTTP requests that change something; each is made at most once
    SkipKafkaAdmin,     \* config.SkipKafkaAdmin
    MaxFaults           \* bound: faulty outcomes and lost containers in a behaviour

ASSUME SkipAssumption == SkipKafkaAdmin \in BOOLEAN
ASSUME MaxFaultsAssumption == MaxFaults \in Nat

VARIABLES
    proc,       \* "down", "boot" (restoring) or "serving"
    issued,     \* the ids uuid.GenerateUUID has returned
    pc,         \* where the handler of a request is
    op,         \* its method
    user,       \* whose token it carries
    target,     \* the id it is about
    instance,   \* its local variable of that name
    existing,   \* the document it read
    faults      \* how many faults there were

handlerVars == <<pc, op, user, target, instance, existing>>
controllerVars == <<topics, storeVars, deployVars, deployMode, proc, issued, handlerVars, faults>>

Methods == {"none", "POST", "PUT", "DELETE"}

PostSteps   == {"topic", "create", "insert", "grant"}
PutSteps    == {"find", "update", "remove", "recreate", "mayWrite", "replace"}
DeleteSteps == {"find", "undeploy", "untopic", "mayDelete", "ungrant", "drop"}
Steps       == PostSteps \cup PutSteps \cup DeleteSteps
Answers     == {"ok", "failed"}

ControllerTypeOK ==
    /\ deployMode \in Backends
    /\ proc \in {"down", "boot", "serving"}
    /\ issued \subseteq Ids
    /\ pc       \in [Reqs -> {"idle", "killed"} \cup Answers \cup Steps]
    /\ op       \in [Reqs -> Methods]
    /\ user     \in [Reqs -> Users]
    /\ target   \in [Reqs -> Ids]
    /\ instance \in [Reqs -> Record \cup {NoRecord}]
    /\ existing \in [Reqs -> Record \cup {NoRecord}]
    /\ faults \in Nat

ControllerInit ==
    /\ KafkaInit /\ StoreInit /\ DeployInit
    /\ deployMode \in DeployModes
    /\ proc = "down"
    /\ issued = {}
    /\ pc = [r \in Reqs |-> "idle"]
    /\ op = [r \in Reqs |-> "none"]
    /\ user   = [r \in Reqs |-> CHOOSE u \in Users : TRUE]
    /\ target = [r \in Reqs |-> CHOOSE i \in Ids : TRUE]
    /\ instance = [r \in Reqs |-> NoRecord]
    /\ existing = [r \in Reqs |-> NoRecord]
    /\ faults = 0

InFlight(r) == pc[r] \in Steps

-----------------------------------------------------------------------------

\* A faulty outcome uses up one of the faults the environment may cause.
Spend(o) ==
    IF Faulty(o) THEN faults < MaxFaults /\ faults' = faults + 1 ELSE UNCHANGED faults

Goto(r, label) == pc' = [pc EXCEPT ![r] = label]

\* The handler returns and its local variables are gone.
Return(r, answer) ==
    /\ Goto(r, answer)
    /\ instance' = [instance EXCEPT ![r] = NoRecord]
    /\ existing' = [existing EXCEPT ![r] = NoRecord]

\* if err != nil { return } after a call with outcome o.
Proceed(r, o, label) ==
    IF Succeeded(o) /\ label \notin Answers
    THEN Goto(r, label) /\ UNCHANGED <<instance, existing>>
    ELSE Return(r, IF Succeeded(o) THEN label ELSE "failed")

\* As Proceed, when the call also returns the id of the container.
ProceedWithSid(r, o, sid, label) ==
    IF Succeeded(o)
    THEN /\ Goto(r, label)
         /\ instance' = [instance EXCEPT ![r].sid = sid]
         /\ UNCHANGED existing
    ELSE Return(r, "failed")

\* What a handler's step leaves alone.
HandlerFrame == UNCHANGED <<deployMode, proc, issued, op, user, target>>

\* A request arrives.
Receive(r, method, u, i) ==
    /\ proc = "serving"
    /\ pc[r] = "idle"
    /\ op'     = [op EXCEPT ![r] = method]
    /\ user'   = [user EXCEPT ![r] = u]
    /\ target' = [target EXCEPT ![r] = i]
    /\ UNCHANGED <<deployMode, proc, topics, storeVars, deployVars, faults>>

-----------------------------------------------------------------------------

\* fillDefaultValues, hasXAccess and getEnv ask the import repository and the rights on
\* the import type, and check the values of the configuration: any of it may fail.
TurnDown(r) == Return(r, "failed")

(***************************************************************************)
(* CreateInstance                                                          *)
(***************************************************************************)

\* The id is new, and so is everything named after it.
Post(r) ==
    \E i \in Ids \ issued, u \in Users :
        /\ Receive(r, "POST", u, i)
        /\ issued' = issued \cup {i}
        /\ \/ TurnDown(r)
           \/ \E t \in Types, restart \in BOOLEAN, c \in Confs :
                /\ instance' = [instance EXCEPT ![r] =
                        [itype |-> t, restart |-> restart, conf |-> c, owner |-> u, sid |-> NoSid]]
                /\ Goto(r, IF SkipKafkaAdmin THEN "create" ELSE "topic")
                /\ UNCHANGED existing

\* A bug: the error of CreateTopic is dropped.
PostTopicUnchecked(r) ==
    /\ pc[r] = "topic"
    /\ \E o \in Outcomes :
        /\ CreateTopic(target[r], o)
        /\ Spend(o)
        /\ Proceed(r, "ok", "create")
    /\ HandlerFrame
    /\ UNCHANGED <<storeVars, deployVars>>

PostTopic(r) ==
    /\ pc[r] = "topic"
    /\ \E o \in Outcomes :
        /\ CreateTopic(target[r], o)
        /\ Spend(o)
        /\ Proceed(r, o, "create")
    /\ HandlerFrame
    /\ UNCHANGED <<storeVars, deployVars>>

PostCreate(r) ==
    /\ pc[r] = "create"
    /\ \E o \in Outcomes :
        /\ CreateContainer(target[r], instance[r], o)
        /\ Spend(o)
        /\ ProceedWithSid(r, o, NewSid(target[r]), "insert")
    /\ HandlerFrame
    /\ UNCHANGED <<topics, storeVars>>

PostInsert(r) ==
    /\ pc[r] = "insert"
    /\ \E o \in Outcomes :
        /\ InsertOne(target[r], instance[r], o)
        /\ Spend(o)
        /\ Proceed(r, o, "grant")
    /\ HandlerFrame
    /\ UNCHANGED <<topics, deployVars>>

PostGrant(r) ==
    /\ pc[r] = "grant"
    /\ \E o \in Outcomes :
        /\ GrantOwner(target[r], instance[r].owner, o)
        /\ Spend(o)
        /\ Proceed(r, o, "ok")
    /\ HandlerFrame
    /\ UNCHANGED <<topics, deployVars>>

-----------------------------------------------------------------------------

(***************************************************************************)
(* SetInstance                                                             *)
(***************************************************************************)

\* The request, up to the check of the right to read that GetInstance begins with.
\* Owner and ServiceId are not part of the JSON document: they arrive empty.
Put(r) ==
    \E i \in Ids, u \in Users :
        /\ Receive(r, "PUT", u, i)
        /\ UNCHANGED issued
        /\ \/ ~Allowed(u, i, "r") /\ Return(r, "failed")
           \/ /\ Allowed(u, i, "r")
              /\ Goto(r, "find")
              /\ UNCHANGED existing
              /\ \E t \in Types, restart \in BOOLEAN, c \in Confs :
                    instance' = [instance EXCEPT ![r] =
                        [itype |-> t, restart |-> restart, conf |-> c,
                         owner |-> NoOwner, sid |-> NoSid]]

\* A bug: the import types are not compared.
PutFindAnyType(r) ==
    /\ op[r] = "PUT" /\ pc[r] = "find"
    /\ \/ Return(r, "failed")
       \/ /\ records[target[r]] # NoRecord
          /\ existing' = [existing EXCEPT ![r] = records[target[r]]]
          /\ Goto(r, "remove")
          /\ UNCHANGED instance
    /\ HandlerFrame
    /\ UNCHANGED <<topics, storeVars, deployVars, faults>>

\* FindOne, which may fail, and the comparison of the import types.
PutFind(r) ==
    LET i     == target[r]
        found == records[i]
    IN  /\ op[r] = "PUT" /\ pc[r] = "find"
        /\ \/ TurnDown(r)
           \/ /\ found # NoRecord
              /\ found.itype = instance[r].itype
              /\ existing' = [existing EXCEPT ![r] = found]
              /\ Goto(r, IF UpdatesInPlace(found, instance[r]) THEN "update" ELSE "remove")
              /\ UNCHANGED instance
        /\ HandlerFrame
        /\ UNCHANGED <<topics, storeVars, deployVars, faults>>

\* UpdateContainer, in place ...
PutUpdate(r) ==
    /\ pc[r] = "update"
    /\ \E o \in Outcomes :
        /\ KubernetesUpdate(target[r], instance[r], o)
        /\ Spend(o)
        /\ ProceedWithSid(r, o, NewSid(target[r]), "mayWrite")
    /\ HandlerFrame
    /\ UNCHANGED <<topics, storeVars>>

\* ... or as RemoveContainer of the service id read before and CreateContainer.
PutRemove(r) ==
    /\ pc[r] = "remove"
    /\ \E o \in Outcomes :
        /\ RemoveContainer(existing[r].sid, o)
        /\ Spend(o)
        /\ Proceed(r, o, "recreate")
    /\ HandlerFrame
    /\ UNCHANGED <<topics, storeVars>>

\* A bug: the id that the backend returned is dropped.
PutRecreateSidDropped(r) ==
    /\ pc[r] = "recreate"
    /\ \E o \in Outcomes :
        /\ RecreateContainer(target[r], instance[r], o)
        /\ Spend(o)
        /\ Proceed(r, o, "mayWrite")
    /\ HandlerFrame
    /\ UNCHANGED <<topics, storeVars>>

PutRecreate(r) ==
    /\ pc[r] = "recreate"
    /\ \E o \in Outcomes :
        /\ RecreateContainer(target[r], instance[r], o)
        /\ Spend(o)
        /\ ProceedWithSid(r, o, NewSid(target[r]), "mayWrite")
    /\ HandlerFrame
    /\ UNCHANGED <<topics, storeVars>>

\* A call to the permissions service that only answers: it may fail, and it refuses.
Check(r, right, label) ==
    /\ \E o \in {"ok", "refused", "fault"} :
        /\ o = "ok"      => Allowed(user[r], target[r], right)
        /\ o = "refused" => ~Allowed(user[r], target[r], right)
        /\ Spend(o)
        /\ Proceed(r, o, label)
    /\ HandlerFrame
    /\ UNCHANGED <<topics, storeVars, deployVars>>

\* Mongo.SetInstance looks at the right to write when the container is already changed.
PutMayWrite(r) == pc[r] = "mayWrite" /\ Check(r, "w", "replace")

\* A bug: SetInstance grants the default permissions again, as CreateInstance does.
PutReplaceAndGrant(r) ==
    /\ pc[r] = "replace"
    /\ records' = [records EXCEPT ![target[r]] = instance[r]]
    /\ perms' = [perms EXCEPT ![target[r]] = SetDefaultPermissions(user[r], NoUserPermissions)]
    /\ Proceed(r, "ok", "ok")
    /\ HandlerFrame
    /\ UNCHANGED <<topics, deployVars, faults>>

PutReplace(r) ==
    /\ pc[r] = "replace"
    /\ \E o \in Outcomes :
        /\ ReplaceOrInsert(target[r], instance[r], o)
        /\ Spend(o)
        /\ Proceed(r, o, "ok")
    /\ HandlerFrame
    /\ UNCHANGED <<topics, deployVars>>

-----------------------------------------------------------------------------

(***************************************************************************)
(* DeleteInstance                                                          *)
(***************************************************************************)

\* The request, up to the check of the right to read.
Delete(r) ==
    \E i \in Ids, u \in Users :
        /\ Receive(r, "DELETE", u, i)
        /\ Goto(r, IF Allowed(u, i, "r") THEN "find" ELSE "failed")
        /\ UNCHANGED <<issued, instance, existing>>

DeleteFind(r) ==
    LET found == records[target[r]]
    IN  /\ op[r] = "DELETE" /\ pc[r] = "find"
        /\ \E o \in {"ok", "refused", "fault"} :
            /\ o = "ok"      => found # NoRecord
            /\ o = "refused" => found = NoRecord
            /\ Spend(o)
            /\ IF Succeeded(o)
               THEN /\ existing' = [existing EXCEPT ![r] = found]
                    /\ Goto(r, "undeploy")
                    /\ UNCHANGED instance
               ELSE Return(r, "failed")
        /\ HandlerFrame
        /\ UNCHANGED <<topics, storeVars, deployVars>>

\* A bug: the error of RemoveContainer is dropped.
DeleteUndeployUnchecked(r) ==
    /\ pc[r] = "undeploy"
    /\ \E o \in Outcomes :
        /\ RemoveContainer(existing[r].sid, o)
        /\ Spend(o)
        /\ Proceed(r, "ok", IF SkipKafkaAdmin THEN "mayDelete" ELSE "untopic")
    /\ HandlerFrame
    /\ UNCHANGED <<topics, storeVars>>

DeleteUndeploy(r) ==
    /\ pc[r] = "undeploy"
    /\ \E o \in Outcomes :
        /\ RemoveContainer(existing[r].sid, o)
        /\ Spend(o)
        /\ Proceed(r, o, IF SkipKafkaAdmin THEN "mayDelete" ELSE "untopic")
    /\ HandlerFrame
    /\ UNCHANGED <<topics, storeVars>>

DeleteUntopic(r) ==
    /\ pc[r] = "untopic"
    /\ \E o \in Outcomes :
        /\ DeleteTopic(target[r], o)
        /\ Spend(o)
        /\ Proceed(r, o, "mayDelete")
    /\ HandlerFrame
    /\ UNCHANGED <<storeVars, deployVars>>

\* A bug: the document is deleted and the rights stay.
DeleteMayDeleteOnly(r) == pc[r] = "mayDelete" /\ Check(r, "a", "drop")

\* Mongo.RemoveInstance looks at the right to administrate when container and topic
\* are already gone.
DeleteMayDelete(r) == pc[r] = "mayDelete" /\ Check(r, "a", "ungrant")

\* A bug: the error of RemoveResource is dropped.
DeleteUngrantUnchecked(r) ==
    /\ pc[r] = "ungrant"
    /\ \E o \in Outcomes :
        /\ RemoveResource(target[r], o)
        /\ Spend(o)
        /\ Proceed(r, "ok", "drop")
    /\ HandlerFrame
    /\ UNCHANGED <<topics, deployVars>>

DeleteUngrant(r) ==
    /\ pc[r] = "ungrant"
    /\ \E o \in Outcomes :
        /\ RemoveResource(target[r], o)
        /\ Spend(o)
        /\ Proceed(r, o, "drop")
    /\ HandlerFrame
    /\ UNCHANGED <<topics, deployVars>>

DeleteDrop(r) ==
    /\ pc[r] = "drop"
    /\ \E o \in Outcomes :
        /\ DeleteOne(target[r], o)
        /\ Spend(o)
        /\ Proceed(r, o, "ok")
    /\ HandlerFrame
    /\ UNCHANGED <<topics, deployVars>>

-----------------------------------------------------------------------------

\* A handler goes on with its request.
Handle(r) ==
    \/ PostTopic(r) \/ PostCreate(r) \/ PostInsert(r) \/ PostGrant(r)
    \/ PutFind(r) \/ PutUpdate(r) \/ PutRemove(r) \/ PutRecreate(r)
    \/ PutMayWrite(r) \/ PutReplace(r)
    \/ DeleteFind(r) \/ DeleteUndeploy(r) \/ DeleteUntopic(r)
    \/ DeleteMayDelete(r) \/ DeleteUngrant(r) \/ DeleteDrop(r)

Request(r) == Post(r) \/ Put(r) \/ Delete(r)
=============================================================================
