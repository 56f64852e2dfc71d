------------------------- MODULE ImportDeployProofs --------------------------
(***************************************************************************)
(* Inv is an invariant of the specification, for all values of the         *)
(* constants; with it PermImpliesRecord and AnswersHold are.               *)
(***************************************************************************)
EXTENDS ImportDeployInvariant, FiniteSetTheorems, TLAPS

-----------------------------------------------------------------------------

(***************************************************************************)
(* The services keep their types                                           *)
(***************************************************************************)

\* Kafka's topics stay ids whatever a call does.
LEMMA KafkaType ==
    ASSUME KafkaTypeOK, NEW i \in Ids, NEW o, CreateTopic(i, o) \/ DeleteTopic(i, o)
    PROVE  KafkaTypeOK'
  BY DEF KafkaTypeOK, CreateTopic, DeleteTopic

\* What a container is made of has the right types.
LEMMA ContainerType ==
    ASSUME NEW i \in Ids, NEW sid \in ServiceIds, NEW rec \in Record
    PROVE  ContainerOf(i, sid, rec) \in Container
  BY DEF ContainerOf, Container, Record

\* A service id a backend returns is one.
LEMMA SidType ==
    ASSUME DeployTypeOK, NEW i \in Ids
    PROVE  /\ deployMode \in Backends => NewSid(i) \in ServiceIds
           /\ DockerSid(i) \in ServiceIds
           /\ KubernetesSid(i) \in ServiceIds
           /\ RancherSid(i) \in ServiceIds
           /\ Rancher2Sid(i) \in ServiceIds
<1>1. created[i] + 1 \in Nat
  BY DEF DeployTypeOK
<1>2. /\ DockerSid(i) \in ServiceIds /\ KubernetesSid(i) \in ServiceIds
      /\ RancherSid(i) \in ServiceIds /\ Rancher2Sid(i) \in ServiceIds
  BY <1>1 DEF DockerSid, KubernetesSid, RancherSid, Rancher2Sid, ServiceIds
<1> QED  BY <1>2 DEF Backends, NewSid

\* Services of rancher1 are containers too.
LEMMA RancherPostType ==
    ASSUME DeployTypeOK, NEW i \in Ids, NEW rec \in Record, NEW suffix \in BOOLEAN, NEW o,
           RancherPost(i, rec, suffix, o)
    PROVE  DeployTypeOK'
<1>1. ContainerOf(i, RancherSid(i), rec) \in Container
  BY SidType, ContainerType
<1>2. Service(i, rec, suffix) \in Container
  BY <1>1 DEF Service, Container, Owners
<1> QED  BY <1>2 DEF DeployTypeOK, RancherPost

\* The backend holds containers and autoscalers of instances, whichever it is.
LEMMA CreateContainerType ==
    ASSUME DeployTypeOK, NEW i \in Ids, NEW rec \in Record, NEW o, CreateContainer(i, rec, o)
    PROVE  DeployTypeOK'
<1>1. CASE DockerCreate(i, rec, o)
  <2>1. ContainerOf(i, DockerSid(i), rec) \in Container
    BY SidType, ContainerType
  <2>2. Unlabelled(i, rec) \in Container
    BY <2>1 DEF Unlabelled, Container, Owners
  <2> QED  BY <1>1, <2>2 DEF DeployTypeOK, DockerCreate
<1>2. CASE KubernetesCreate(i, rec, o)
  <2>1. ContainerOf(i, KubernetesSid(i), rec) \in Container
    BY SidType, ContainerType
  <2> QED  BY <1>2, <2>1 DEF DeployTypeOK, KubernetesCreate
<1>3. CASE RancherCreate(i, rec, o)
  BY <1>3, RancherPostType DEF RancherCreate
<1>4. CASE Rancher2Create(i, rec, o)
  <2>1. ContainerOf(i, Rancher2Sid(i), rec) \in Container
    BY SidType, ContainerType
  <2> QED  BY <1>4, <2>1 DEF DeployTypeOK, Rancher2Create
<1> QED  BY <1>1, <1>2, <1>3, <1>4 DEF CreateContainer

LEMMA RecreateContainerType ==
    ASSUME DeployTypeOK, NEW i \in Ids, NEW rec \in Record, NEW o, RecreateContainer(i, rec, o)
    PROVE  DeployTypeOK'
  BY CreateContainerType, RancherPostType DEF RecreateContainer, RancherRecreate

LEMMA UpdateContainerType ==
    ASSUME DeployTypeOK, NEW i \in Ids, NEW rec \in Record, NEW o, KubernetesUpdate(i, rec, o)
    PROVE  DeployTypeOK'
<1>1. ContainerOf(i, KubernetesSid(i), rec) \in Container
  BY SidType, ContainerType
<1> QED  BY <1>1 DEF DeployTypeOK, KubernetesUpdate

LEMMA RemoveContainerType ==
    ASSUME DeployTypeOK, NEW sid, NEW o, RemoveContainer(sid, o)
    PROVE  DeployTypeOK'
<1>1. CASE DockerRemove(sid, o)
  BY <1>1 DEF DeployTypeOK, DockerRemove
<1>2. CASE KubernetesRemove(sid[1], o)
  <2>1. containers' \subseteq containers
    BY <1>2 DEF KubernetesRemove, Named
  <2> QED  BY <1>2, <2>1 DEF DeployTypeOK, KubernetesRemove
<1>3. CASE RancherRemove(sid, o)
  BY <1>3 DEF DeployTypeOK, RancherRemove
<1>4. CASE Rancher2Remove(sid[1], o)
  BY <1>4 DEF DeployTypeOK, Rancher2Remove
<1> QED  BY <1>1, <1>2, <1>3, <1>4 DEF RemoveContainer

\* A document is replaced by a document, rights by rights.
LEMMA RecordsType ==
    ASSUME StoreTypeOK, NEW i \in Ids, NEW rec \in Record, NEW o,
           InsertOne(i, rec, o) \/ ReplaceOrInsert(i, rec, o)
    PROVE  StoreTypeOK'
  BY DEF StoreTypeOK, InsertOne, ReplaceOrInsert

LEMMA DeleteOneType ==
    ASSUME StoreTypeOK, NEW i \in Ids, NEW o, DeleteOne(i, o)
    PROVE  StoreTypeOK'
  BY DEF StoreTypeOK, DeleteOne

LEMMA GrantType ==
    ASSUME StoreTypeOK, NEW i \in Ids, NEW owner, NEW o, GrantOwner(i, owner, o)
    PROVE  StoreTypeOK' /\ \A j \in Ids : j # i => perms'[j] = perms[j]
<1>1. \A p \in Permissions : SetDefaultPermissions(owner, p) \in Permissions
  BY DEF Permissions, SetDefaultPermissions
<1>2. NoUserPermissions \in Permissions
  BY DEF Permissions, NoUserPermissions
<1> QED  BY <1>1, <1>2 DEF StoreTypeOK, GrantOwner

LEMMA RemoveResourceType ==
    ASSUME StoreTypeOK, NEW i \in Ids, NEW o, RemoveResource(i, o)
    PROVE  StoreTypeOK'
  BY DEF StoreTypeOK, RemoveResource

LEMMA ShareType ==
    ASSUME StoreTypeOK, NEW i \in Ids, NEW u \in Users, NEW rights \in SUBSET Rights,
           Share(i, u, rights)
    PROVE  /\ StoreTypeOK'
           /\ \A j \in Ids : perms'[j] = NoPerms <=> perms[j] = NoPerms
<1>1. perms[i] \in Permissions
  BY DEF StoreTypeOK, Share
<1>2. [perms[i] EXCEPT ![u] = rights] \in Permissions
  BY <1>1 DEF Permissions
<1>3. perms' = [perms EXCEPT ![i] = [perms[i] EXCEPT ![u] = rights]]
  BY DEF Share
<1> QED  BY <1>1, <1>2, <1>3, NoPermsAssumption DEF StoreTypeOK, Share

-----------------------------------------------------------------------------

(***************************************************************************)
(* What a handler's step does to the handlers                              *)
(***************************************************************************)

\* The handler of r goes to one of the labels, or gives up; the others stay.
MovesTo(r, labels) ==
    /\ pc' \in [Reqs -> {"idle", "killed"} \cup Answers \cup Steps]
    /\ instance' \in [Reqs -> Record \cup {NoRecord}]
    /\ existing' \in [Reqs -> Record \cup {NoRecord}]
    /\ pc'[r] \in labels \cup {"failed"}
    /\ \A s \in Reqs \ {r} :
        pc'[s] = pc[s] /\ instance'[s] = instance[s] /\ existing'[s] = existing[s]
    /\ faults' \in Nat
    /\ UNCHANGED <<deployMode, proc, issued, op, user, target>>

\* if err != nil { return } leads to the label or to the answer "failed".
LEMMA ProceedMoves ==
    ASSUME ControllerTypeOK, NEW r \in Reqs, NEW o, NEW label \in Steps \cup Answers,
           Spend(o), Proceed(r, o, label), HandlerFrame
    PROVE  /\ MovesTo(r, {label})
           /\ pc'[r] \in Steps => instance'[r] = instance[r] /\ existing'[r] = existing[r]
<1> USE DEF ControllerTypeOK, HandlerFrame
<1>1. faults' \in Nat
  BY DEF Spend
<1>2. CASE Succeeded(o) /\ label \notin Answers
  BY <1>1, <1>2 DEF Proceed, Goto, MovesTo
<1>3. CASE ~(Succeeded(o) /\ label \notin Answers)
  <2>1. PICK answer \in {label, "failed"} : Return(r, answer) /\ answer \in Answers
    BY <1>3 DEF Proceed, Answers
  <2>2. pc'[r] = answer /\ answer \notin Steps
    BY <2>1 DEF Return, Goto, Answers, Steps, PostSteps, PutSteps, DeleteSteps
  <2> QED  BY <1>1, <2>1, <2>2 DEF Return, Goto, MovesTo
<1> QED  BY <1>2, <1>3

\* As above, and the instance gets its service id.
LEMMA ProceedWithSidMoves ==
    ASSUME ControllerTypeOK, DeployTypeOK, NEW r \in Reqs, NEW o, NEW label \in Steps,
           instance[r] \in Record,
           Spend(o), ProceedWithSid(r, o, NewSid(target[r]), label), HandlerFrame
    PROVE  /\ MovesTo(r, {label})
           /\ pc'[r] \in Steps => instance'[r] \in Record /\ existing'[r] = existing[r]
           /\ pc'[r] \in Steps => /\ instance'[r].itype = instance[r].itype
                                  /\ instance'[r].owner = instance[r].owner
<1> USE DEF ControllerTypeOK, HandlerFrame
<1>1. faults' \in Nat
  BY DEF Spend
<1>2. CASE Succeeded(o)
  <2>1. NewSid(target[r]) \in ServiceIds
    BY SidType
  <2>2. [instance[r] EXCEPT !.sid = NewSid(target[r])] \in Record
    BY <2>1 DEF Record
  <2>3. instance' = [instance EXCEPT ![r] = [instance[r] EXCEPT !.sid = NewSid(target[r])]]
    BY <1>2 DEF ProceedWithSid
  <2>4. instance'[r].itype = instance[r].itype /\ instance'[r].owner = instance[r].owner
    BY <2>3 DEF Record
  <2> QED  BY <1>1, <1>2, <2>2, <2>3, <2>4 DEF ProceedWithSid, Goto, MovesTo
<1>3. CASE ~Succeeded(o)
  <2>1. Return(r, "failed")
    BY <1>3 DEF ProceedWithSid
  <2>2. "failed" \in Answers /\ "failed" \notin Steps
    BY DEF Answers, Steps, PostSteps, PutSteps, DeleteSteps
  <2> QED  BY <1>1, <2>1, <2>2 DEF Return, Goto, MovesTo
<1> QED  BY <1>2, <1>3

\* A check changes nothing but where the handler is.
LEMMA CheckMoves ==
    ASSUME ControllerTypeOK, NEW r \in Reqs, NEW right, NEW label \in Steps,
           Check(r, right, label)
    PROVE  /\ MovesTo(r, {label})
           /\ pc'[r] \in Steps => instance'[r] = instance[r] /\ existing'[r] = existing[r]
           /\ UNCHANGED <<topics, storeVars, deployVars>>
  BY ProceedMoves DEF Check

\* Where a handler goes after a call.
LEMMA Going ==
    ASSUME TypeInv, NEW r \in Reqs, NEW o, NEW label, HandlerFrame,
           Proceed(r, o, label) \/ \E sid : ProceedWithSid(r, o, sid, label)
    PROVE  /\ pc'[r] = "failed" \/ (pc'[r] = label /\ Succeeded(o))
           /\ \A s \in Reqs \ {r} : pc'[s] = pc[s]
           /\ target' = target
<1>1. pc \in [Reqs -> {"idle", "killed"} \cup Answers \cup Steps]
  BY DEF TypeInv, TypeOK, ControllerTypeOK
<1> QED  BY <1>1 DEF HandlerFrame, Proceed, ProceedWithSid, Return, Goto

-----------------------------------------------------------------------------

(***************************************************************************)
(* Type correctness                                                        *)
(***************************************************************************)

\* A handler's step keeps TypeInv if the services keep their types and its own local
\* variables fit the place it goes to.
LEMMA MovesKeepTypes ==
    ASSUME TypeInv, NEW r \in Reqs, NEW labels, MovesTo(r, labels), pc[r] \in Steps,
           KafkaTypeOK', StoreTypeOK', DeployTypeOK', Local(r)', UNCHANGED <<boot, crashes>>
    PROVE  TypeInv'
<1>1. proc = "serving" /\ proc' = "serving"
  BY DEF TypeInv, Locals, Local, MovesTo
<1>2. TypeOK'
  BY DEF TypeInv, TypeOK, MovesTo, ControllerTypeOK, StartupTypeOK
<1>3. Locals'
  <2>1. SUFFICES ASSUME NEW s \in Reqs \ {r} PROVE Local(s)'
    BY DEF Locals
  <2>2. Local(s)
    BY DEF TypeInv, Locals
  <2> QED  BY <1>1, <2>2 DEF Local, MovesTo
<1>4. BootKnows'
  BY <1>1 DEF TypeInv, BootKnows
<1> QED  BY <1>2, <1>3, <1>4 DEF TypeInv

\* Every step of every handler keeps TypeInv.
LEMMA HandleTypes ==
    ASSUME TypeInv, NEW r \in Reqs, Handle(r), UNCHANGED <<boot, crashes>>
    PROVE  TypeInv'
<1> USE DEF Steps, PostSteps, PutSteps, DeleteSteps
<1>1. /\ KafkaTypeOK /\ StoreTypeOK /\ DeployTypeOK /\ ControllerTypeOK
      /\ Local(r) /\ target[r] \in Ids
  BY DEF TypeInv, TypeOK, Locals, ControllerTypeOK
<1>2. UNCHANGED topics => KafkaTypeOK'
  BY <1>1 DEF KafkaTypeOK
<1>3. UNCHANGED storeVars => StoreTypeOK'
  BY <1>1 DEF StoreTypeOK, storeVars
<1>4. UNCHANGED deployVars => DeployTypeOK'
  BY <1>1 DEF DeployTypeOK, deployVars
<1>5. CASE PostTopic(r)
  <2>1. PICK o \in Outcomes : CreateTopic(target[r], o) /\ Spend(o) /\ Proceed(r, o, "create")
    BY <1>5 DEF PostTopic
  <2>2. MovesTo(r, {"create"}) /\ (pc'[r] \in Steps => instance'[r] = instance[r])
    BY <1>1, <1>5, <2>1, ProceedMoves DEF PostTopic
  <2>3. Local(r)'
    BY <1>1, <1>5, <2>2 DEF PostTopic, Local, MovesTo
  <2>4. KafkaTypeOK'
    BY <1>1, <2>1, KafkaType
  <2> QED  BY <1>3, <1>4, <1>5, <2>2, <2>3, <2>4, MovesKeepTypes DEF PostTopic
<1>6. CASE PostCreate(r)
  <2>1. PICK o \in Outcomes : /\ CreateContainer(target[r], instance[r], o) /\ Spend(o)
                              /\ ProceedWithSid(r, o, NewSid(target[r]), "insert")
    BY <1>6 DEF PostCreate
  <2>2. instance[r] \in Record
    BY <1>1, <1>6 DEF PostCreate, Local
  <2>3. MovesTo(r, {"insert"}) /\ (pc'[r] \in Steps => instance'[r] \in Record)
    BY <1>1, <1>6, <2>1, <2>2, ProceedWithSidMoves DEF PostCreate
  <2>4. Local(r)'
    BY <1>1, <1>6, <2>3 DEF PostCreate, Local, MovesTo
  <2>5. DeployTypeOK'
    BY <1>1, <2>1, <2>2, CreateContainerType
  <2> QED  BY <1>2, <1>3, <1>6, <2>3, <2>4, <2>5, MovesKeepTypes DEF PostCreate
<1>7. CASE PostInsert(r)
  <2>1. PICK o \in Outcomes : /\ InsertOne(target[r], instance[r], o) /\ Spend(o)
                              /\ Proceed(r, o, "grant")
    BY <1>7 DEF PostInsert
  <2>2. instance[r] \in Record
    BY <1>1, <1>7 DEF PostInsert, Local
  <2>3. MovesTo(r, {"grant"}) /\ (pc'[r] \in Steps => instance'[r] = instance[r])
    BY <1>1, <1>7, <2>1, ProceedMoves DEF PostInsert
  <2>4. Local(r)'
    BY <1>1, <1>7, <2>3 DEF PostInsert, Local, MovesTo
  <2>5. StoreTypeOK'
    BY <1>1, <2>1, <2>2, RecordsType
  <2> QED  BY <1>2, <1>4, <1>7, <2>3, <2>4, <2>5, MovesKeepTypes DEF PostInsert
<1>8. CASE PostGrant(r)
  <2>1. PICK o \in Outcomes : /\ GrantOwner(target[r], instance[r].owner, o) /\ Spend(o)
                              /\ Proceed(r, o, "ok")
    BY <1>8 DEF PostGrant
  <2>2. MovesTo(r, {"ok"})
    BY <1>1, <1>8, <2>1, ProceedMoves DEF PostGrant, Answers
  <2>3. Local(r)'
    BY <1>1, <1>8, <2>2 DEF PostGrant, Local, MovesTo
  <2>4. StoreTypeOK'
    BY <1>1, <2>1, GrantType
  <2> QED  BY <1>2, <1>4, <1>8, <2>2, <2>3, <2>4, MovesKeepTypes DEF PostGrant
<1>9. CASE PutFind(r)
  <2>1. CASE Return(r, "failed")
    <3>1. MovesTo(r, {"failed"})
      BY <1>1, <1>9, <2>1 DEF PutFind, Return, Goto, MovesTo, HandlerFrame, ControllerTypeOK, Answers
    <3>2. Local(r)'
      BY <1>1, <1>9, <3>1 DEF PutFind, Local, MovesTo
    <3> QED  BY <1>2, <1>3, <1>4, <1>9, <3>1, <3>2, MovesKeepTypes DEF PutFind
  <2>2. CASE ~Return(r, "failed")
    <3>1. PICK label \in {"update", "remove"} :
            /\ records[target[r]] # NoRecord
            /\ existing' = [existing EXCEPT ![r] = records[target[r]]]
            /\ Goto(r, label)
            /\ UNCHANGED instance
      BY <1>9, <2>2 DEF PutFind, TurnDown
    <3>2. records[target[r]] \in Record
      BY <1>1, <3>1 DEF StoreTypeOK
    <3>3. MovesTo(r, {label}) /\ instance'[r] = instance[r] /\ existing'[r] \in Record
      BY <1>1, <1>9, <3>1, <3>2 DEF PutFind, Goto, MovesTo, HandlerFrame, ControllerTypeOK
    <3>4. Local(r)'
      BY <1>1, <1>9, <3>3 DEF PutFind, Local, MovesTo
    <3> QED  BY <1>2, <1>3, <1>4, <1>9, <3>3, <3>4, MovesKeepTypes DEF PutFind
  <2> QED  BY <2>1, <2>2
<1>10. CASE PutUpdate(r)
  <2>1. PICK o \in Outcomes : /\ KubernetesUpdate(target[r], instance[r], o) /\ Spend(o)
                              /\ ProceedWithSid(r, o, NewSid(target[r]), "mayWrite")
    BY <1>10 DEF PutUpdate
  <2>2. instance[r] \in Record
    BY <1>1, <1>10 DEF PutUpdate, Local
  <2>3. /\ MovesTo(r, {"mayWrite"})
        /\ pc'[r] \in Steps => instance'[r] \in Record /\ existing'[r] = existing[r]
    BY <1>1, <1>10, <2>1, <2>2, ProceedWithSidMoves DEF PutUpdate
  <2>4. Local(r)'
    BY <1>1, <1>10, <2>3 DEF PutUpdate, Local, MovesTo
  <2>5. DeployTypeOK'
    BY <1>1, <2>1, <2>2, UpdateContainerType
  <2> QED  BY <1>2, <1>3, <1>10, <2>3, <2>4, <2>5, MovesKeepTypes DEF PutUpdate
<1>11. CASE PutRemove(r)
  <2>1. PICK o \in Outcomes : RemoveContainer(existing[r].sid, o) /\ Spend(o) /\ Proceed(r, o, "recreate")
    BY <1>11 DEF PutRemove
  <2>3. /\ MovesTo(r, {"recreate"})
        /\ pc'[r] \in Steps => instance'[r] = instance[r] /\ existing'[r] = existing[r]
    BY <1>1, <1>11, <2>1, ProceedMoves DEF PutRemove
  <2>4. Local(r)'
    BY <1>1, <1>11, <2>3 DEF PutRemove, Local, MovesTo
  <2>5. DeployTypeOK'
    BY <1>1, <2>1, RemoveContainerType
  <2> QED  BY <1>2, <1>3, <1>11, <2>3, <2>4, <2>5, MovesKeepTypes DEF PutRemove
<1>12. CASE PutRecreate(r)
  <2>1. PICK o \in Outcomes : /\ RecreateContainer(target[r], instance[r], o) /\ Spend(o)
                              /\ ProceedWithSid(r, o, NewSid(target[r]), "mayWrite")
    BY <1>12 DEF PutRecreate
  <2>2. instance[r] \in Record
    BY <1>1, <1>12 DEF PutRecreate, Local
  <2>3. /\ MovesTo(r, {"mayWrite"})
        /\ pc'[r] \in Steps => instance'[r] \in Record /\ existing'[r] = existing[r]
    BY <1>1, <1>12, <2>1, <2>2, ProceedWithSidMoves DEF PutRecreate
  <2>4. Local(r)'
    BY <1>1, <1>12, <2>3 DEF PutRecreate, Local, MovesTo
  <2>5. DeployTypeOK'
    BY <1>1, <2>1, <2>2, RecreateContainerType
  <2> QED  BY <1>2, <1>3, <1>12, <2>3, <2>4, <2>5, MovesKeepTypes DEF PutRecreate
<1>13. CASE PutMayWrite(r)
  <2>1. /\ MovesTo(r, {"replace"})
        /\ pc'[r] \in Steps => instance'[r] = instance[r] /\ existing'[r] = existing[r]
        /\ UNCHANGED <<topics, storeVars, deployVars>>
    BY <1>1, <1>13, CheckMoves DEF PutMayWrite
  <2>2. Local(r)'
    BY <1>1, <1>13, <2>1 DEF PutMayWrite, Local, MovesTo
  <2> QED  BY <1>2, <1>3, <1>4, <1>13, <2>1, <2>2, MovesKeepTypes DEF PutMayWrite
<1>14. CASE PutReplace(r)
  <2>1. PICK o \in Outcomes : ReplaceOrInsert(target[r], instance[r], o) /\ Spend(o) /\ Proceed(r, o, "ok")
    BY <1>14 DEF PutReplace
  <2>2. instance[r] \in Record
    BY <1>1, <1>14 DEF PutReplace, Local
  <2>3. /\ MovesTo(r, {"ok"})
        /\ pc'[r] \in Steps => instance'[r] = instance[r] /\ existing'[r] = existing[r]
    BY <1>1, <1>14, <2>1, ProceedMoves DEF PutReplace, Answers
  <2>4. Local(r)'
    BY <1>1, <1>14, <2>3 DEF PutReplace, Local, MovesTo
  <2>5. StoreTypeOK'
    BY <1>1, <2>1, <2>2, RecordsType
  <2> QED  BY <1>2, <1>4, <1>14, <2>3, <2>4, <2>5, MovesKeepTypes DEF PutReplace
<1>15. CASE DeleteFind(r)
  <2>1. CASE Return(r, "failed")
    <3>1. MovesTo(r, {"failed"})
      BY <1>1, <1>15, <2>1 DEF DeleteFind, Spend, Return, Goto, MovesTo, HandlerFrame,
                               ControllerTypeOK, Answers
    <3>2. Local(r)'
      BY <1>1, <1>15, <3>1 DEF DeleteFind, Local, MovesTo
    <3> QED  BY <1>2, <1>3, <1>4, <1>15, <3>1, <3>2, MovesKeepTypes DEF DeleteFind
  <2>2. CASE ~Return(r, "failed")
    <3>1. /\ records[target[r]] # NoRecord
          /\ existing' = [existing EXCEPT ![r] = records[target[r]]]
          /\ Goto(r, "undeploy")
          /\ UNCHANGED instance
      BY <1>15, <2>2 DEF DeleteFind, Succeeded
    <3>2. records[target[r]] \in Record
      BY <1>1, <3>1 DEF StoreTypeOK
    <3>3. MovesTo(r, {"undeploy"}) /\ existing'[r] \in Record
      BY <1>1, <1>15, <3>1, <3>2 DEF DeleteFind, Spend, Goto, MovesTo, HandlerFrame, ControllerTypeOK
    <3>4. Local(r)'
      BY <1>1, <1>15, <3>3 DEF DeleteFind, Local, MovesTo
    <3> QED  BY <1>2, <1>3, <1>4, <1>15, <3>3, <3>4, MovesKeepTypes DEF DeleteFind
  <2> QED  BY <2>1, <2>2
<1>16. CASE DeleteUndeploy(r)
  <2>1. PICK o \in Outcomes, label \in {"mayDelete", "untopic"} :
            RemoveContainer(existing[r].sid, o) /\ Spend(o) /\ Proceed(r, o, label)
    BY <1>16 DEF DeleteUndeploy
  <2>3. /\ MovesTo(r, {label})
        /\ pc'[r] \in Steps => instance'[r] = instance[r] /\ existing'[r] = existing[r]
    BY <1>1, <1>16, <2>1, ProceedMoves DEF DeleteUndeploy
  <2>4. Local(r)'
    BY <1>1, <1>16, <2>3 DEF DeleteUndeploy, Local, MovesTo
  <2>5. DeployTypeOK'
    BY <1>1, <2>1, RemoveContainerType
  <2> QED  BY <1>2, <1>3, <1>16, <2>3, <2>4, <2>5, MovesKeepTypes DEF DeleteUndeploy
<1>17. CASE DeleteUntopic(r)
  <2>1. PICK o \in Outcomes : DeleteTopic(target[r], o) /\ Spend(o) /\ Proceed(r, o, "mayDelete")
    BY <1>17 DEF DeleteUntopic
  <2>3. /\ MovesTo(r, {"mayDelete"})
        /\ pc'[r] \in Steps => instance'[r] = instance[r] /\ existing'[r] = existing[r]
    BY <1>1, <1>17, <2>1, ProceedMoves DEF DeleteUntopic
  <2>4. Local(r)'
    BY <1>1, <1>17, <2>3 DEF DeleteUntopic, Local, MovesTo
  <2>5. KafkaTypeOK'
    BY <1>1, <2>1, KafkaType
  <2> QED  BY <1>3, <1>4, <1>17, <2>3, <2>4, <2>5, MovesKeepTypes DEF DeleteUntopic
<1>18. CASE DeleteMayDelete(r)
  <2>1. /\ MovesTo(r, {"ungrant"})
        /\ pc'[r] \in Steps => instance'[r] = instance[r] /\ existing'[r] = existing[r]
        /\ UNCHANGED <<topics, storeVars, deployVars>>
    BY <1>1, <1>18, CheckMoves DEF DeleteMayDelete
  <2>2. Local(r)'
    BY <1>1, <1>18, <2>1 DEF DeleteMayDelete, Local, MovesTo
  <2> QED  BY <1>2, <1>3, <1>4, <1>18, <2>1, <2>2, MovesKeepTypes DEF DeleteMayDelete
<1>19. CASE DeleteUngrant(r)
  <2>1. PICK o \in Outcomes : RemoveResource(target[r], o) /\ Spend(o) /\ Proceed(r, o, "drop")
    BY <1>19 DEF DeleteUngrant
  <2>3. /\ MovesTo(r, {"drop"})
        /\ pc'[r] \in Steps => instance'[r] = instance[r] /\ existing'[r] = existing[r]
    BY <1>1, <1>19, <2>1, ProceedMoves DEF DeleteUngrant
  <2>4. Local(r)'
    BY <1>1, <1>19, <2>3 DEF DeleteUngrant, Local, MovesTo
  <2>5. StoreTypeOK'
    BY <1>1, <2>1, RemoveResourceType
  <2> QED  BY <1>2, <1>4, <1>19, <2>3, <2>4, <2>5, MovesKeepTypes DEF DeleteUngrant
<1>20. CASE DeleteDrop(r)
  <2>1. PICK o \in Outcomes : DeleteOne(target[r], o) /\ Spend(o) /\ Proceed(r, o, "ok")
    BY <1>20 DEF DeleteDrop
  <2>3. /\ MovesTo(r, {"ok"})
        /\ pc'[r] \in Steps => instance'[r] = instance[r] /\ existing'[r] = existing[r]
    BY <1>1, <1>20, <2>1, ProceedMoves DEF DeleteDrop, Answers
  <2>4. Local(r)'
    BY <1>1, <1>20, <2>3 DEF DeleteDrop, Local, MovesTo
  <2>5. StoreTypeOK'
    BY <1>1, <2>1, DeleteOneType
  <2> QED  BY <1>2, <1>4, <1>20, <2>3, <2>4, <2>5, MovesKeepTypes DEF DeleteDrop
<1> QED  BY <1>5, <1>6, <1>7, <1>8, <1>9, <1>10, <1>11, <1>12, <1>13, <1>14,
            <1>15, <1>16, <1>17, <1>18, <1>19, <1>20 DEF Handle

\* A request is received by a handler that was idle.
LEMMA RequestTypes ==
    ASSUME TypeInv, NEW r \in Reqs, Request(r), UNCHANGED <<boot, crashes>>
    PROVE  TypeInv'
<1> USE DEF Steps, PostSteps, PutSteps, DeleteSteps, Answers
<1>1. /\ KafkaTypeOK /\ StoreTypeOK /\ DeployTypeOK /\ ControllerTypeOK /\ StartupTypeOK
      /\ Locals
  BY DEF TypeInv, TypeOK
<1>2. \E i \in Ids, u \in Users, method \in {"POST", "PUT", "DELETE"} : Receive(r, method, u, i)
  BY DEF Request, Post, Put, Delete
<1>3. /\ proc = "serving" /\ proc' = "serving" /\ pc[r] = "idle"
      /\ op' \in [Reqs -> Methods] /\ user' \in [Reqs -> Users] /\ target' \in [Reqs -> Ids]
      /\ \A s \in Reqs \ {r} : op'[s] = op[s]
      /\ UNCHANGED <<deployMode, topics, storeVars, deployVars, faults>>
  BY <1>1, <1>2 DEF Receive, ControllerTypeOK, Methods
<1>4. /\ issued' \subseteq Ids
      /\ pc' \in [Reqs -> {"idle", "killed"} \cup Answers \cup Steps]
      /\ instance' \in [Reqs -> Record \cup {NoRecord}]
      /\ existing' \in [Reqs -> Record \cup {NoRecord}]
      /\ \A s \in Reqs \ {r} :
            pc'[s] = pc[s] /\ instance'[s] = instance[s] /\ existing'[s] = existing[s]
      /\ \/ pc'[r] = "failed"
         \/ op'[r] = "POST" /\ pc'[r] \in {"create", "topic"} /\ instance'[r] \in Record
         \/ op'[r] = "PUT" /\ pc'[r] = "find" /\ instance'[r] \in Record
         \/ op'[r] = "DELETE" /\ pc'[r] = "find"
  <2>1. \A t \in Types, restart \in BOOLEAN, c \in Confs, owner \in Owners :
            [itype |-> t, restart |-> restart, conf |-> c, owner |-> owner, sid |-> NoSid] \in Record
    BY DEF Record
  <2>2. CASE Post(r)
    <3>1. PICK i \in Ids \ issued, u \in Users :
            /\ Receive(r, "POST", u, i)
            /\ issued' = issued \cup {i}
            /\ \/ Return(r, "failed")
               \/ \E t \in Types, restart \in BOOLEAN, c \in Confs :
                    /\ instance' = [instance EXCEPT ![r] =
                        [itype |-> t, restart |-> restart, conf |-> c, owner |-> u, sid |-> NoSid]]
                    /\ Goto(r, IF SkipKafkaAdmin THEN "create" ELSE "topic")
                    /\ UNCHANGED existing
      BY <2>2 DEF Post, TurnDown
    <3>2. u \in Owners /\ op'[r] = "POST"
      BY <1>1, <3>1 DEF Owners, Receive, ControllerTypeOK
    <3> QED  BY <1>1, <2>1, <3>1, <3>2 DEF Return, Goto, ControllerTypeOK
  <2>3. CASE Put(r)
    <3>1. PICK i \in Ids, u \in Users :
            /\ Receive(r, "PUT", u, i)
            /\ UNCHANGED issued
            /\ \/ Return(r, "failed")
               \/ /\ Goto(r, "find")
                  /\ UNCHANGED existing
                  /\ \E t \in Types, restart \in BOOLEAN, c \in Confs :
                        instance' = [instance EXCEPT ![r] =
                            [itype |-> t, restart |-> restart, conf |-> c,
                             owner |-> NoOwner, sid |-> NoSid]]
      BY <2>3 DEF Put
    <3>2. NoOwner \in Owners /\ op'[r] = "PUT"
      BY <1>1, <3>1 DEF Owners, Receive, ControllerTypeOK
    <3> QED  BY <1>1, <2>1, <3>1, <3>2 DEF Return, Goto, ControllerTypeOK
  <2>4. CASE Delete(r)
    <3>1. PICK i \in Ids, u \in Users :
            /\ Receive(r, "DELETE", u, i)
            /\ Goto(r, "find") \/ Goto(r, "failed")
            /\ UNCHANGED <<issued, instance, existing>>
      BY <2>4 DEF Delete
    <3>2. op'[r] = "DELETE"
      BY <1>1, <3>1 DEF Receive, ControllerTypeOK
    <3> QED  BY <1>1, <3>1, <3>2 DEF Goto, ControllerTypeOK
  <2> QED  BY <2>2, <2>3, <2>4 DEF Request
<1>5. TypeOK'
  BY <1>1, <1>3, <1>4 DEF TypeOK, KafkaTypeOK, StoreTypeOK, storeVars, DeployTypeOK, deployVars,
                          ControllerTypeOK, StartupTypeOK
<1>6. Locals'
  <2>1. Local(r)'
    BY <1>3, <1>4 DEF Local
  <2>2. SUFFICES ASSUME NEW s \in Reqs \ {r} PROVE Local(s)'
    BY <2>1 DEF Locals
  <2>3. Local(s)
    BY <1>1 DEF Locals
  <2> QED  BY <1>3, <1>4, <2>3 DEF Local
<1>7. BootKnows'
  BY <1>3 DEF TypeInv, BootKnows
<1> QED  BY <1>5, <1>6, <1>7 DEF TypeInv

\* A page is a set of documents that the administrator sees.
LEMMA PageType ==
    ASSUME NEW visible \in SUBSET Ids, NEW offset \in Nat, NEW page \in Pages(visible, offset)
    PROVE  page \subseteq visible /\ Cardinality(page) \in Nat
<1>1. page \subseteq visible
  BY DEF Pages
<1>2. IsFiniteSet(page)
  BY <1>1, IdsAssumption, FS_Subset
<1> QED  BY <1>1, <1>2, FS_CardinalityType

\* When the process is not serving no handler has anything to lose.
LEMMA NoHandlers ==
    ASSUME TypeInv, proc # "serving", UNCHANGED handlerVars
    PROVE  Locals'
<1>1. SUFFICES ASSUME NEW r \in Reqs PROVE Local(r)'
  BY DEF Locals
<1>2. Local(r)
  BY DEF TypeInv, Locals
<1> QED  BY <1>2 DEF Local, handlerVars, Steps

\* The restoration keeps TypeInv.
LEMMA RestoreTypes ==
    ASSUME TypeInv, Restore
    PROVE  TypeInv'
<1>1. /\ KafkaTypeOK /\ StoreTypeOK /\ DeployTypeOK /\ ControllerTypeOK /\ boot \in Boot
      /\ crashes \in Nat /\ BootKnows /\ proc = "boot"
  BY DEF TypeInv, TypeOK, StartupTypeOK, Restore, ListPage, Probe, ReadFails, Recreate, StoreSid
<1>2. BootFrame /\ proc' \in {"down", "boot", "serving"} /\ faults' \in Nat
  <2>1. faults \in Nat /\ proc \in {"down", "boot", "serving"}
    BY <1>1 DEF ControllerTypeOK
  <2>2. \A o : Spend(o) => faults' \in Nat
    BY <2>1 DEF Spend
  <2>3. Exit => proc' = "down"
    BY DEF Exit
  <2>4. CASE ListPage
    BY <2>1, <2>4 DEF ListPage
  <2>5. CASE Probe
    BY <2>1, <2>5 DEF Probe
  <2>6. CASE ReadFails
    BY <2>1, <2>2, <2>3, <2>6 DEF ReadFails
  <2>7. CASE Recreate
    BY <2>1, <2>2, <2>3, <2>7 DEF Recreate
  <2>8. CASE StoreSid
    BY <2>1, <2>2, <2>3, <2>8 DEF StoreSid
  <2> QED  BY <2>4, <2>5, <2>6, <2>7, <2>8 DEF Restore
<1>3. Locals'
  BY <1>1, <1>2, NoHandlers DEF BootFrame
<1>4. KafkaTypeOK' /\ ControllerTypeOK' /\ crashes' \in Nat
  BY <1>1, <1>2 DEF BootFrame, KafkaTypeOK, ControllerTypeOK, handlerVars
<1>5. FirstPage \in Boot
  BY IdsAssumption DEF FirstPage, Boot
<1>6. UNCHANGED records => StoreTypeOK'
  BY <1>1, <1>2 DEF BootFrame, StoreTypeOK
<1>7. UNCHANGED deployVars => DeployTypeOK'
  BY <1>1 DEF DeployTypeOK, deployVars
<1>8. boot' \in Boot /\ BootKnows' /\ StoreTypeOK' /\ DeployTypeOK'
  <2>1. CASE ListPage
    <3>1. CASE proc' = "serving" /\ boot' = FirstPage
      BY <1>5, <1>6, <1>7, <2>1, <3>1 DEF ListPage, BootKnows
    <3>2. CASE \E page \in Pages(AdminVisible, boot.offset) :
                 boot' = [boot EXCEPT !.stage  = "probe",
                                      !.offset = @ + Cardinality(page),
                                      !.todo   = page]
      <4>1. PICK page \in Pages(AdminVisible, boot.offset) :
                 boot' = [boot EXCEPT !.stage  = "probe",
                                      !.offset = boot.offset + Cardinality(page),
                                      !.todo   = page]
        BY <3>2
      <4>2. AdminVisible \in SUBSET Ids /\ \A i \in AdminVisible : records[i] # NoRecord
        BY DEF AdminVisible
      <4>3. boot.offset \in Nat
        BY <1>1 DEF Boot
      <4>4. page \subseteq AdminVisible /\ Cardinality(page) \in Nat
        BY <4>1, <4>2, <4>3, PageType
      <4>5. boot' = [stage |-> "probe", offset |-> boot.offset + Cardinality(page),
                     todo |-> page, inst |-> boot.inst, sid |-> boot.sid]
        BY <1>1, <4>1 DEF Boot
      <4>6. boot.offset + Cardinality(page) \in Nat /\ page \in SUBSET Ids
        BY <4>2, <4>3, <4>4
      <4>7. boot' \in Boot /\ boot'.stage = "probe" /\ boot'.todo = page
        BY <1>1, <4>5, <4>6 DEF Boot
      <4> QED  BY <1>6, <1>7, <2>1, <4>2, <4>4, <4>7 DEF ListPage, BootKnows
    <3> QED  BY <2>1, <3>1, <3>2 DEF ListPage
  <2>2. CASE Probe
    <3>1. boot' \in Boot
      BY <1>1, <2>2 DEF Probe, Boot
    <3>2. BootKnows'
      <4>1. CASE boot.todo = {}
        BY <1>1, <2>2, <4>1 DEF Probe, BootKnows, Boot
      <4>2. CASE boot.todo # {}
        <5>1. PICK i \in boot.todo :
                \/ boot' = [boot EXCEPT !.todo = boot.todo \ {i}]
                \/ boot' = [boot EXCEPT !.stage = "create", !.todo = boot.todo \ {i}, !.inst = i]
          BY <2>2, <4>2 DEF Probe
        <5>2. records[i] # NoRecord /\ boot.stage = "probe"
          BY <1>1, <2>2 DEF Probe, BootKnows
        <5>3. boot'.todo = boot.todo \ {i}
          BY <1>1, <5>1 DEF Boot
        <5>4. boot'.stage \in {"create", "store"} => boot'.inst = i
          BY <1>1, <5>1, <5>2 DEF Boot
        <5> QED  BY <1>1, <2>2, <5>2, <5>3, <5>4 DEF Probe, BootKnows
      <4> QED  BY <4>1, <4>2
    <3> QED  BY <1>6, <1>7, <2>2, <3>1, <3>2 DEF Probe
  <2>3. CASE ReadFails
    BY <1>5, <1>6, <1>7, <2>3 DEF ReadFails, Exit, BootKnows
  <2>4. CASE Recreate
    <3>1. PICK o \in Outcomes :
            /\ CreateContainer(boot.inst, records[boot.inst], o)
            /\ \/ boot' = [boot EXCEPT !.stage = "store", !.sid = NewSid(boot.inst)] /\ UNCHANGED proc
               \/ Exit
      BY <2>4 DEF Recreate
    <3>2. boot.inst \in Ids /\ records[boot.inst] \in Record
      BY <1>1, <2>4 DEF Recreate, BootKnows, Boot, StoreTypeOK
    <3>3. DeployTypeOK' /\ NewSid(boot.inst) \in ServiceIds
      BY <1>1, <3>1, <3>2, CreateContainerType, SidType DEF ControllerTypeOK
    <3>4. boot' \in Boot
      BY <1>1, <1>5, <3>1, <3>3 DEF Exit, Boot
    <3>5. BootKnows'
      <4>1. CASE Exit
        BY <4>1 DEF Exit, BootKnows
      <4>2. CASE boot' = [boot EXCEPT !.stage = "store", !.sid = NewSid(boot.inst)] /\ UNCHANGED proc
        <5>1. boot'.todo = boot.todo /\ boot'.inst = boot.inst
          BY <1>1, <4>2 DEF Boot
        <5> QED  BY <1>1, <2>4, <4>2, <5>1 DEF Recreate, BootKnows
      <4> QED  BY <3>1, <4>1, <4>2
    <3> QED  BY <1>6, <2>4, <3>3, <3>4, <3>5 DEF Recreate
  <2>5. CASE StoreSid
    <3>1. PICK o \in Outcomes :
            /\ ReplaceOrInsert(boot.inst, [records[boot.inst] EXCEPT !.sid = boot.sid], o)
            /\ \/ boot' = [boot EXCEPT !.stage = "probe", !.sid = NoSid] /\ UNCHANGED proc
               \/ Exit
      BY <2>5 DEF StoreSid
    <3>2. boot.inst \in Ids /\ records[boot.inst] \in Record /\ boot.sid \in ServiceIds \cup {NoSid}
      BY <1>1, <2>5 DEF StoreSid, BootKnows, Boot, StoreTypeOK
    <3>3. [records[boot.inst] EXCEPT !.sid = boot.sid] \in Record
      BY <3>2 DEF Record
    <3>4. StoreTypeOK'
      BY <1>1, <3>1, <3>2, <3>3, RecordsType
    <3>5. \A i \in Ids : records[i] # NoRecord => records'[i] # NoRecord
      BY <1>1, <3>1, <3>2, <3>3, NoRecordAssumption DEF ReplaceOrInsert, StoreTypeOK
    <3>6. boot' \in Boot
      BY <1>1, <1>5, <3>1 DEF Exit, Boot
    <3>7. BootKnows'
      <4>1. CASE Exit
        BY <4>1 DEF Exit, BootKnows
      <4>2. CASE boot' = [boot EXCEPT !.stage = "probe", !.sid = NoSid] /\ UNCHANGED proc
        <5>1. boot'.todo = boot.todo /\ boot.todo \subseteq Ids /\ boot'.stage = "probe"
          BY <1>1, <4>2 DEF Boot
        <5> QED  BY <1>1, <3>5, <4>2, <5>1 DEF BootKnows
      <4> QED  BY <3>1, <4>1, <4>2
    <3> QED  BY <1>7, <2>5, <3>4, <3>6, <3>7 DEF StoreSid
  <2> QED  BY <2>1, <2>2, <2>3, <2>4, <2>5 DEF Restore
<1> QED  BY <1>2, <1>3, <1>4, <1>8 DEF TypeInv, TypeOK, StartupTypeOK

LEMMA InitTypes == Init => TypeInv
<1> SUFFICES ASSUME Init PROVE TypeInv
  OBVIOUS
<1> USE DEF Init, ControllerInit, StartupInit
<1>1. KafkaTypeOK /\ StoreTypeOK
  BY DEF KafkaInit, KafkaTypeOK, StoreInit, StoreTypeOK
<1>2. DeployTypeOK
  BY DEF DeployInit, DeployTypeOK
<1>3. ControllerTypeOK
  BY IdsAssumption, UsersAssumption, DeployModesAssumption DEF ControllerTypeOK, Methods
<1>4. StartupTypeOK
  BY IdsAssumption DEF StartupTypeOK, FirstPage, Boot
<1>5. Locals
  BY DEF Locals, Local, Steps, PostSteps, PutSteps, DeleteSteps
<1> QED  BY <1>1, <1>2, <1>3, <1>4, <1>5 DEF TypeInv, TypeOK, BootKnows

\* Steps that are about neither a request nor the restoration.
LEMMA OtherTypes ==
    ASSUME TypeInv, Start \/ Crash \/ ShareInstance \/ LoseContainer \/ UNCHANGED vars
    PROVE  TypeInv'
<1>1. /\ KafkaTypeOK /\ StoreTypeOK /\ DeployTypeOK /\ ControllerTypeOK /\ boot \in Boot
      /\ crashes \in Nat /\ BootKnows /\ Locals
  BY DEF TypeInv, TypeOK, StartupTypeOK
<1>2. FirstPage \in Boot /\ FirstPage.todo = {} /\ FirstPage.stage = "list"
  BY IdsAssumption DEF FirstPage, Boot
<1>3. UNCHANGED topics => KafkaTypeOK'
  BY <1>1 DEF KafkaTypeOK
<1>4. UNCHANGED storeVars => StoreTypeOK'
  BY <1>1 DEF StoreTypeOK, storeVars
<1>5. UNCHANGED deployVars => DeployTypeOK'
  BY <1>1 DEF DeployTypeOK, deployVars
<1>6. UNCHANGED <<proc, handlerVars>> => Locals'
  BY <1>1 DEF Locals, Local, handlerVars
<1>7. UNCHANGED <<proc, records, boot>> => BootKnows'
  BY <1>1 DEF BootKnows
<1>8. UNCHANGED <<deployMode, proc, issued, handlerVars>> /\ faults' \in Nat => ControllerTypeOK'
  BY <1>1 DEF ControllerTypeOK, handlerVars
<1>9. CASE Start
  <2>1. proc # "serving" /\ proc' \in {"boot", "serving"}
    BY <1>9 DEF Start
  <2>2. Locals'
    BY <1>9, <2>1, NoHandlers DEF Start
  <2>3. ControllerTypeOK'
    BY <1>1, <1>9, <2>1 DEF Start, ControllerTypeOK, handlerVars
  <2>4. BootKnows'
    BY <1>1, <1>2, <1>9 DEF Start, BootKnows
  <2> QED  BY <1>1, <1>3, <1>4, <1>5, <1>9, <2>2, <2>3, <2>4
           DEF Start, TypeInv, TypeOK, StartupTypeOK
<1>10. CASE Crash
  <2>1. proc' = "down" /\ boot' = FirstPage /\ crashes' \in Nat
    BY <1>1, <1>10 DEF Crash
  <2>2. \A r \in Reqs : pc'[r] \in {"idle", "killed"} \cup Answers
    BY <1>1, <1>10 DEF Crash, ControllerTypeOK, InFlight
  <2>3. ControllerTypeOK'
    BY <1>1, <1>10, <2>1 DEF Crash, ControllerTypeOK
  <2>4. Locals'
    BY <2>2 DEF Locals, Local, Answers, Steps, PostSteps, PutSteps, DeleteSteps
  <2>5. BootKnows'
    BY <2>1 DEF BootKnows
  <2> QED  BY <1>2, <1>3, <1>4, <1>5, <1>10, <2>1, <2>3, <2>4, <2>5
           DEF Crash, TypeInv, TypeOK, StartupTypeOK
<1>11. CASE ShareInstance
  <2>1. PICK i \in Ids, u \in Users, rights \in SUBSET Rights : Share(i, u, rights)
    BY <1>11, ShareAssumption DEF ShareInstance
  <2>2. StoreTypeOK' /\ UNCHANGED records
    BY <1>1, <2>1, ShareType DEF Share
  <2>3. faults' \in Nat
    BY <1>1, <1>11 DEF ShareInstance, ControllerTypeOK
  <2> QED  BY <1>1, <1>3, <1>5, <1>6, <1>7, <1>8, <1>11, <2>2, <2>3
           DEF ShareInstance, TypeInv, TypeOK, StartupTypeOK
<1>12. CASE LoseContainer
  <2>1. DeployTypeOK'
    BY <1>1, <1>12 DEF LoseContainer, Lose, DeployTypeOK
  <2>2. faults' \in Nat
    BY <1>1, <1>12 DEF LoseContainer, Spend, ControllerTypeOK
  <2> QED  BY <1>1, <1>3, <1>4, <1>6, <1>7, <1>8, <1>12, <2>1, <2>2
           DEF LoseContainer, TypeInv, TypeOK, StartupTypeOK, storeVars
<1>13. CASE UNCHANGED vars
  <2>1. faults' \in Nat
    BY <1>1, <1>13 DEF vars, controllerVars, ControllerTypeOK
  <2> QED  BY <1>1, <1>3, <1>4, <1>5, <1>6, <1>7, <1>8, <1>13, <2>1
           DEF vars, controllerVars, TypeInv, TypeOK, StartupTypeOK, storeVars
<1> QED  BY <1>9, <1>10, <1>11, <1>12, <1>13

LEMMA NextTypes == TypeInv /\ [Next]_vars => TypeInv'
<1> SUFFICES ASSUME TypeInv, [Next]_vars PROVE TypeInv'
  OBVIOUS
<1>1. CASE \E r \in Reqs : RequestStep(r)
  BY <1>1, HandleTypes, RequestTypes DEF RequestStep
<1>2. CASE Restore
  BY <1>2, RestoreTypes
<1>3. CASE Start \/ Crash \/ ShareInstance \/ LoseContainer \/ UNCHANGED vars
  BY <1>3, OtherTypes
<1> QED  BY <1>1, <1>2, <1>3 DEF Next

LEMMA TypeInvariant == Spec => []TypeInv
<1>1. Init => TypeInv
  BY InitTypes
<1>2. TypeInv /\ [Next]_vars => TypeInv'
  BY NextTypes
<1> QED  BY <1>1, <1>2, PTL DEF Spec

\* Every variable of the service, and what the permissions service, MongoDB, Kafka and
\* the backend hold for it, keeps its type: for one thing no handler of lib/controller
\* stores a document, or starts a container, from a variable that was never set.
THEOREM TypeCorrect == Spec => []TypeOK
<1>1. TypeInv => TypeOK
  BY DEF TypeInv
<1> QED  BY <1>1, TypeInvariant, PTL

-----------------------------------------------------------------------------

(***************************************************************************)
(* Safety                                                                  *)
(***************************************************************************)

LEMMA InitSafe == Init => SafeInv
  BY DEF Init, ControllerInit, StoreInit, SafeInv, PermImpliesRecord, IdsAreIssued,
         CreatingIsHidden, LateComers, DropIsHidden, AnswersHold, Steps, PostSteps,
         PutSteps, DeleteSteps

\* A handler's step that leaves the two stores alone, begins no later than the right to
\* administrate is checked and ends before an answer.
LEMMA QuietSafe ==
    ASSUME TypeInv, SafeInv, NEW r \in Reqs, NEW labels, MovesTo(r, labels),
           UNCHANGED storeVars,
           pc[r] \in Steps \ {"insert", "grant", "replace", "ungrant", "drop"},
           labels \subseteq (Steps \ {"grant", "drop"}) \cup {"failed"},
           pc[r] \notin PostSteps => labels \cap PostSteps = {}
    PROVE  SafeInv'
<1> USE DEF SafeInv, MovesTo, storeVars
<1>1. /\ "failed" \notin Steps /\ "ok" \notin Steps /\ PostSteps \subseteq Steps
      /\ "failed" \notin PostSteps /\ "ok" \notin PostSteps
  BY DEF Steps, PostSteps, PutSteps, DeleteSteps
<1>2. /\ pc'[r] \in PostSteps => pc[r] \in PostSteps
      /\ pc'[r] \notin {"grant", "drop", "ok"}
  BY <1>1
<1>3. PermImpliesRecord'
  BY DEF PermImpliesRecord
<1>4. IdsAreIssued'
  BY DEF IdsAreIssued
<1>5. CreatingIsHidden'
  BY <1>2 DEF CreatingIsHidden
<1>6. LateComers'
  BY <1>1, <1>2 DEF LateComers
<1>7. DropIsHidden'
  BY <1>2 DEF DropIsHidden
<1>8. AnswersHold'
  BY <1>2 DEF AnswersHold, Steps, PostSteps, PutSteps, DeleteSteps
<1> QED  BY <1>3, <1>4, <1>5, <1>6, <1>7, <1>8

\* A step that only writes a document, of an id that was issued, keeps the two stores
\* and the handlers in agreement.
LEMMA WriteSafe ==
    ASSUME TypeInv, SafeInv, NEW i \in issued, UNCHANGED perms,
           \A j \in Ids \ {i} : records'[j] = records[j],
           records[i] # NoRecord => records'[i] # NoRecord,
           UNCHANGED <<issued, op, target>>
    PROVE  PermImpliesRecord' /\ IdsAreIssued'
  BY DEF SafeInv, PermImpliesRecord, IdsAreIssued, TypeInv, TypeOK, ControllerTypeOK

\* The steps that write a document: InsertOne and ReplaceOne.
LEMMA StoreSafe ==
    ASSUME TypeInv, SafeInv, NEW r \in Reqs, PostInsert(r) \/ PutReplace(r)
    PROVE  SafeInv'
<1> USE DEF Steps, PostSteps, PutSteps, DeleteSteps
<1>1. /\ ControllerTypeOK /\ StoreTypeOK /\ Local(r) /\ target[r] \in Ids
  BY DEF TypeInv, TypeOK, Locals, ControllerTypeOK
<1>2. PICK label \in {"grant", "ok"}, o \in Outcomes :
        /\ InsertOne(target[r], instance[r], o) \/ ReplaceOrInsert(target[r], instance[r], o)
        /\ Spend(o) /\ Proceed(r, o, label) /\ HandlerFrame
        /\ label = "grant" => pc[r] = "insert" /\ InsertOne(target[r], instance[r], o)
        /\ label = "ok" => pc[r] = "replace"
  BY DEF PostInsert, PutReplace
<1>3. instance[r] \in Record /\ pc[r] \in {"insert", "replace"}
  BY <1>1, <1>2 DEF Local
<1>4. MovesTo(r, {label})
  BY <1>1, <1>2, ProceedMoves DEF Answers
<1>5. target[r] \in issued
  BY <1>1, <1>3 DEF SafeInv, IdsAreIssued, LateComers, Local
<1>6. /\ UNCHANGED perms
      /\ \A j \in Ids \ {target[r]} : records'[j] = records[j]
      /\ records[target[r]] # NoRecord => records'[target[r]] # NoRecord
  BY <1>1, <1>2, <1>3, NoRecordAssumption DEF InsertOne, ReplaceOrInsert, StoreTypeOK
<1>7. pc'[r] = "grant" => records'[target[r]] # NoRecord /\ pc[r] = "insert"
  <2>1. SUFFICES ASSUME pc'[r] = "grant" PROVE records'[target[r]] # NoRecord /\ pc[r] = "insert"
    OBVIOUS
  <2>2. label = "grant" /\ Succeeded(o)
    BY <1>1, <1>2, <2>1 DEF Proceed, Goto, Return, Answers, ControllerTypeOK
  <2> QED  BY <1>1, <1>2, <1>3, <2>2, NoRecordAssumption DEF InsertOne, Succeeded, StoreTypeOK
<1>8. PermImpliesRecord' /\ IdsAreIssued'
  BY <1>4, <1>5, <1>6, WriteSafe DEF MovesTo
<1>9. pc'[r] \in {"grant", "ok", "failed"} /\ (pc'[r] = "ok" => op[r] = "PUT")
  BY <1>1, <1>2, <1>4 DEF MovesTo, Local
<1>10. CreatingIsHidden'
  <2>1. \A s \in Reqs \ {r} : pc[s] = "grant" => records'[target[s]] # NoRecord
    BY <1>1, <1>6 DEF SafeInv, CreatingIsHidden, ControllerTypeOK
  <2> QED  BY <1>4, <1>6, <1>7, <1>9, <2>1 DEF SafeInv, CreatingIsHidden, MovesTo
<1>11. LateComers'
  BY <1>3, <1>4, <1>7, <1>9 DEF SafeInv, LateComers, MovesTo
<1>12. DropIsHidden'
  BY <1>4, <1>6, <1>9 DEF SafeInv, DropIsHidden, MovesTo
<1>13. AnswersHold'
  BY <1>4, <1>3, <1>6, <1>9 DEF SafeInv, AnswersHold, MovesTo
<1> QED  BY <1>8, <1>10, <1>11, <1>12, <1>13 DEF SafeInv

\* The owner gets the rights on an instance that is stored, and that no DELETE is about.
LEMMA GrantSafe ==
    ASSUME TypeInv, SafeInv, NEW r \in Reqs, PostGrant(r)
    PROVE  SafeInv'
<1> USE DEF Steps, PostSteps, PutSteps, DeleteSteps
<1>1. /\ ControllerTypeOK /\ StoreTypeOK /\ Local(r) /\ target[r] \in Ids /\ pc[r] = "grant"
      /\ op[r] = "POST" /\ target[r] \in issued /\ records[target[r]] # NoRecord
  BY DEF PostGrant, TypeInv, TypeOK, Locals, Local, ControllerTypeOK, SafeInv, IdsAreIssued,
         CreatingIsHidden
<1>2. PICK o \in Outcomes : /\ GrantOwner(target[r], instance[r].owner, o) /\ Spend(o)
                            /\ Proceed(r, o, "ok") /\ HandlerFrame
  BY DEF PostGrant
<1>3. MovesTo(r, {"ok"})
  BY <1>1, <1>2, ProceedMoves DEF Answers
<1>4. UNCHANGED records /\ \A j \in Ids \ {target[r]} : perms'[j] = perms[j]
  BY <1>1, <1>2, GrantType DEF GrantOwner
<1>5. pc'[r] = "ok" => perms'[target[r]] # NoPerms
  <2>1. \A p \in Permissions : SetDefaultPermissions(instance[r].owner, p) \in Permissions
    BY DEF Permissions, SetDefaultPermissions
  <2>2. NoUserPermissions \in Permissions
    BY DEF Permissions, NoUserPermissions
  <2>3. SUFFICES ASSUME pc'[r] = "ok" PROVE perms'[target[r]] # NoPerms
    OBVIOUS
  <2>4. o = "ok"
    BY <1>1, <1>2, <2>3 DEF Proceed, Return, Goto, Succeeded, Answers, ControllerTypeOK, GrantOwner
  <2> QED  BY <1>1, <1>2, <2>1, <2>2, <2>4, NoPermsAssumption DEF GrantOwner, StoreTypeOK
<1>6. PermImpliesRecord'
  BY <1>1, <1>4 DEF SafeInv, PermImpliesRecord
<1>7. IdsAreIssued'
  BY <1>1, <1>3, <1>4 DEF SafeInv, IdsAreIssued, MovesTo
<1>8. \A s \in Reqs \ {r} : pc[s] \in PostSteps => target[s] # target[r]
  BY <1>1 DEF TypeInv, Locals, Local, SafeInv, IdsAreIssued
<1>9. CreatingIsHidden'
  BY <1>1, <1>3, <1>4, <1>8 DEF SafeInv, CreatingIsHidden, MovesTo, ControllerTypeOK
<1>10. LateComers'
  BY <1>1, <1>3 DEF SafeInv, LateComers, MovesTo
<1>11. \A s \in Reqs \ {r} :
         pc[s] = "drop" \/ (op[s] = "DELETE" /\ pc[s] = "ok") => target[s] # target[r]
  BY <1>1 DEF TypeInv, Locals, Local, SafeInv, LateComers
<1>12. DropIsHidden'
  BY <1>1, <1>3, <1>4, <1>11 DEF SafeInv, DropIsHidden, MovesTo, ControllerTypeOK
<1>13. AnswersHold'
  <2>1. \A s \in Reqs \ {r} : pc[s] = "ok" /\ op[s] = "POST" => target[s] # target[r]
    BY <1>1 DEF SafeInv, IdsAreIssued
  <2> QED  BY <1>1, <1>3, <1>4, <1>5, <1>11, <2>1 DEF SafeInv, AnswersHold, MovesTo, ControllerTypeOK
<1> QED  BY <1>6, <1>7, <1>9, <1>10, <1>12, <1>13 DEF SafeInv

\* The rights are withdrawn, or the document of an instance nobody has rights on is
\* deleted.
LEMMA RemoveSafe ==
    ASSUME TypeInv, SafeInv, NEW r \in Reqs, DeleteUngrant(r) \/ DeleteDrop(r)
    PROVE  SafeInv'
<1> USE DEF Steps, PostSteps, PutSteps, DeleteSteps
<1>1. /\ ControllerTypeOK /\ StoreTypeOK /\ target[r] \in Ids /\ pc[r] \in {"ungrant", "drop"}
      /\ op[r] = "DELETE" /\ (pc[r] = "drop" => perms[target[r]] = NoPerms)
      /\ target[r] \in issued /\ \A s \in Reqs : pc[s] \in PostSteps => target[s] # target[r]
  BY DEF DeleteUngrant, DeleteDrop, TypeInv, TypeOK, Locals, Local, ControllerTypeOK, SafeInv,
         LateComers, DropIsHidden
<1>2. PICK label \in {"drop", "ok"}, o \in Outcomes :
        /\ \/ pc[r] = "ungrant" /\ label = "drop" /\ RemoveResource(target[r], o)
           \/ pc[r] = "drop" /\ label = "ok" /\ DeleteOne(target[r], o)
        /\ Spend(o) /\ Proceed(r, o, label) /\ HandlerFrame
  BY DEF DeleteUngrant, DeleteDrop
<1>3. MovesTo(r, {label})
  BY <1>1, <1>2, ProceedMoves DEF Answers
<1>4. /\ \A j \in Ids \ {target[r]} : records'[j] = records[j] /\ perms'[j] = perms[j]
      /\ perms'[target[r]] \in {perms[target[r]], NoPerms}
      /\ perms'[target[r]] # NoPerms => records'[target[r]] = records[target[r]]
      /\ records'[target[r]] # NoRecord => records[target[r]] # NoRecord
  BY <1>1, <1>2 DEF RemoveResource, DeleteOne, StoreTypeOK
<1>5. pc'[r] \in {"drop", "ok"} => perms'[target[r]] = NoPerms
  <2>1. SUFFICES ASSUME pc'[r] \in {"drop", "ok"} PROVE perms'[target[r]] = NoPerms
    OBVIOUS
  <2>2. Succeeded(o)
    BY <1>1, <1>2, <2>1 DEF Proceed, Return, Goto, Answers, ControllerTypeOK
  <2> QED  BY <1>1, <1>2, <2>2 DEF RemoveResource, DeleteOne, Succeeded, StoreTypeOK
<1>6. PermImpliesRecord'
  BY <1>1, <1>4 DEF SafeInv, PermImpliesRecord
<1>7. IdsAreIssued'
  BY <1>1, <1>3, <1>4 DEF SafeInv, IdsAreIssued, MovesTo
<1>8. pc'[r] \in {"drop", "ok", "failed"}
  BY <1>2, <1>3 DEF MovesTo
<1>9. CreatingIsHidden'
  BY <1>1, <1>3, <1>4, <1>8 DEF SafeInv, CreatingIsHidden, MovesTo, ControllerTypeOK
<1>10. LateComers'
  BY <1>1, <1>3, <1>8 DEF SafeInv, LateComers, MovesTo
<1>11. \A j \in Ids : perms[j] = NoPerms => perms'[j] = NoPerms
  BY <1>1, <1>4
<1>12. DropIsHidden'
  BY <1>3, <1>5, <1>11 DEF SafeInv, DropIsHidden, MovesTo, TypeInv, TypeOK, ControllerTypeOK
<1>13. AnswersHold'
  <2>1. ASSUME NEW s \in Reqs, pc'[s] = "ok", op[s] = "DELETE" PROVE perms'[target[s]] = NoPerms
    BY <1>1, <1>3, <1>5, <1>11, <2>1 DEF SafeInv, AnswersHold, MovesTo, ControllerTypeOK
  <2>2. ASSUME NEW s \in Reqs, pc'[s] = "ok", op[s] = "POST", perms'[target[s]] = NoPerms
        PROVE  \E d \in Reqs : /\ op[d] = "DELETE" /\ target[d] = target[s]
                               /\ pc'[d] \in {"drop", "ok", "failed", "killed"}
    <3>1. s # r /\ pc[s] = "ok"
      BY <1>1, <1>3, <2>2 DEF MovesTo
    <3>2. CASE target[s] = target[r]
      BY <1>1, <1>8, <3>2
    <3>3. CASE target[s] # target[r]
      <4>1. perms[target[s]] = NoPerms
        BY <1>1, <1>4, <2>2, <3>3 DEF ControllerTypeOK
      <4>2. PICK d \in Reqs : /\ op[d] = "DELETE" /\ target[d] = target[s]
                              /\ pc[d] \in {"drop", "ok", "failed", "killed"}
        BY <2>2, <3>1, <4>1 DEF SafeInv, AnswersHold
      <4>3. d # r
        BY <3>3, <4>2
      <4> QED  BY <1>3, <4>2, <4>3 DEF MovesTo
    <3> QED  BY <3>2, <3>3
  <2> QED  BY <1>3, <2>1, <2>2 DEF AnswersHold, MovesTo
<1> QED  BY <1>6, <1>7, <1>9, <1>10, <1>12, <1>13 DEF SafeInv

\* A request gets a handler: a POST with an id nobody used before, a PUT or DELETE only
\* if somebody has rights on the instance.
LEMMA RequestSafe ==
    ASSUME TypeInv, SafeInv, NEW r \in Reqs, Request(r)
    PROVE  SafeInv'
<1> USE DEF Steps, PostSteps, PutSteps, DeleteSteps
<1>1. ControllerTypeOK /\ StoreTypeOK
  BY DEF TypeInv, TypeOK
<1> DEFINE Arrived(i, u, method) ==
        /\ Receive(r, method, u, i)
        /\ method = "POST" => i \notin issued /\ issued' = issued \cup {i}
                              /\ pc'[r] \in {"topic", "create", "failed"}
        /\ method # "POST" => issued' = issued
                              /\ (pc'[r] = "failed" \/ (pc'[r] = "find" /\ perms[i] # NoPerms))
        /\ \A s \in Reqs \ {r} : pc'[s] = pc[s]
<1>2. PICK i \in Ids, u \in Users, method \in {"POST", "PUT", "DELETE"} : Arrived(i, u, method)
  <2>1. CASE Post(r)
    <3>1. PICK i \in Ids \ issued, u \in Users :
            /\ Receive(r, "POST", u, i)
            /\ issued' = issued \cup {i}
            /\ Goto(r, "failed") \/ Goto(r, IF SkipKafkaAdmin THEN "create" ELSE "topic")
      BY <2>1 DEF Post, TurnDown, Return
    <3>2. Arrived(i, u, "POST")
      BY <1>1, <3>1 DEF Goto, ControllerTypeOK
    <3> QED  BY <3>2
  <2>2. CASE Put(r)
    <3>1. PICK i \in Ids, u \in Users :
            /\ Receive(r, "PUT", u, i)
            /\ UNCHANGED issued
            /\ Goto(r, "failed") \/ (Allowed(u, i, "r") /\ Goto(r, "find"))
      BY <2>2 DEF Put, Return
    <3>2. /\ pc'[r] = "failed" \/ (pc'[r] = "find" /\ perms[i] # NoPerms)
          /\ \A s \in Reqs \ {r} : pc'[s] = pc[s]
      BY <1>1, <3>1 DEF Goto, ControllerTypeOK, Allowed
    <3>3. Arrived(i, u, "PUT")
      BY <3>1, <3>2
    <3> QED  BY <3>3
  <2>3. CASE Delete(r)
    <3>1. PICK i \in Ids, u \in Users :
            /\ Receive(r, "DELETE", u, i)
            /\ Goto(r, "failed") \/ (Allowed(u, i, "r") /\ Goto(r, "find"))
            /\ UNCHANGED <<issued, instance>>
      BY <2>3 DEF Delete
    <3>2. /\ pc'[r] = "failed" \/ (pc'[r] = "find" /\ perms[i] # NoPerms)
          /\ \A s \in Reqs \ {r} : pc'[s] = pc[s]
      BY <1>1, <3>1 DEF Goto, ControllerTypeOK, Allowed
    <3>3. Arrived(i, u, "DELETE")
      BY <3>1, <3>2
    <3> QED  BY <3>3
  <2> QED  BY <2>1, <2>2, <2>3 DEF Request
<1>3. /\ UNCHANGED <<records, perms>> /\ pc[r] = "idle"
      /\ op'[r] = method /\ target'[r] = i
      /\ \A s \in Reqs \ {r} : op'[s] = op[s] /\ target'[s] = target[s]
  BY <1>1, <1>2 DEF Receive, storeVars, ControllerTypeOK
<1>4. method = "POST" => perms[i] = NoPerms
  BY <1>2 DEF SafeInv, IdsAreIssued
<1>5. method # "POST" /\ pc'[r] = "find" =>
        i \in issued /\ \A s \in Reqs : pc[s] \in PostSteps => target[s] # i
  BY <1>2 DEF SafeInv, IdsAreIssued, CreatingIsHidden
<1>6. PermImpliesRecord'
  BY <1>3 DEF SafeInv, PermImpliesRecord
<1>7. IdsAreIssued'
  <2>1. issued \subseteq issued'
    BY <1>2
  <2>2. ASSUME NEW s \in Reqs, op'[s] = "POST" PROVE target'[s] \in issued'
    BY <1>2, <1>3, <2>1, <2>2 DEF SafeInv, IdsAreIssued
  <2>3. ASSUME NEW s \in Reqs, NEW t \in Reqs, s # t, op'[s] = "POST", op'[t] = "POST"
        PROVE  target'[s] # target'[t]
    BY <1>2, <1>3, <2>3 DEF SafeInv, IdsAreIssued
  <2> QED  BY <1>3, <2>1, <2>2, <2>3 DEF SafeInv, IdsAreIssued
<1>8. CreatingIsHidden'
  BY <1>2, <1>3, <1>4 DEF SafeInv, CreatingIsHidden
<1>9. LateComers'
  <2>1. SUFFICES ASSUME NEW q \in Reqs, op'[q] \in {"PUT", "DELETE"}, pc'[q] \in Steps \cup {"ok"}
                 PROVE  /\ target'[q] \in issued'
                        /\ \A s \in Reqs : pc'[s] \in PostSteps => target'[s] # target'[q]
    BY DEF LateComers
  <2>2. CASE q = r
    BY <1>2, <1>3, <1>5, <2>1, <2>2
  <2>3. CASE q # r
    <3>1. target[q] \in issued /\ \A s \in Reqs : pc[s] \in PostSteps => target[s] # target[q]
      BY <1>2, <1>3, <2>1, <2>3 DEF SafeInv, LateComers
    <3> QED  BY <1>2, <1>3, <2>3, <3>1
  <2> QED  BY <2>2, <2>3
<1>10. DropIsHidden'
  BY <1>2, <1>3 DEF SafeInv, DropIsHidden
<1>11. AnswersHold'
  <2>1. ASSUME NEW s \in Reqs, pc'[s] = "ok" PROVE s # r /\ pc[s] = "ok"
    BY <1>2, <2>1
  <2>2. ASSUME NEW d \in Reqs, pc[d] \in {"drop", "ok", "failed", "killed"} PROVE d # r
    BY <1>3, <2>2
  <2> QED  BY <1>2, <1>3, <2>1, <2>2 DEF SafeInv, AnswersHold
<1> QED  BY <1>6, <1>7, <1>8, <1>9, <1>10, <1>11 DEF SafeInv

\* Nothing SafeInv speaks of changes.
LEMMA StutterSafe ==
    ASSUME SafeInv, UNCHANGED <<records, perms, issued, pc, op, target>>
    PROVE  SafeInv'
  BY DEF SafeInv, PermImpliesRecord, IdsAreIssued, CreatingIsHidden, LateComers,
         DropIsHidden, AnswersHold

\* The restoration only replaces documents that are there.
LEMMA RestoreSafe ==
    ASSUME TypeInv, SafeInv, Restore
    PROVE  SafeInv'
<1>1. CASE UNCHANGED records
  BY <1>1, StutterSafe DEF Restore, ListPage, Probe, ReadFails, Recreate, StoreSid,
                           BootFrame, handlerVars
<1>2. CASE StoreSid
  <2>1. /\ boot.inst \in Ids /\ records[boot.inst] \in Record /\ StoreTypeOK /\ ControllerTypeOK
        /\ boot.sid \in ServiceIds \cup {NoSid}
        /\ records[boot.inst] # NoRecord
    BY <1>2 DEF StoreSid, TypeInv, TypeOK, BootKnows, StartupTypeOK, Boot, StoreTypeOK
  <2>2. PICK o \in Outcomes :
          ReplaceOrInsert(boot.inst, [records[boot.inst] EXCEPT !.sid = boot.sid], o)
    BY <1>2 DEF StoreSid
  <2>3. [records[boot.inst] EXCEPT !.sid = boot.sid] \in Record
    BY <2>1 DEF Record
  <2>4. /\ \A j \in Ids \ {boot.inst} : records'[j] = records[j]
        /\ records'[boot.inst] # NoRecord
        /\ UNCHANGED perms
    BY <2>1, <2>2, <2>3, NoRecordAssumption DEF ReplaceOrInsert, StoreTypeOK
  <2>5. boot.inst \in issued
    BY <2>1 DEF SafeInv, IdsAreIssued
  <2>6. UNCHANGED <<issued, pc, op, target>>
    BY <1>2 DEF StoreSid, BootFrame, handlerVars
  <2>7. PermImpliesRecord' /\ IdsAreIssued'
    BY <2>4, <2>5, <2>6, WriteSafe
  <2>8. CreatingIsHidden'
    BY <2>1, <2>4, <2>6 DEF SafeInv, CreatingIsHidden, ControllerTypeOK
  <2>9. LateComers' /\ DropIsHidden' /\ AnswersHold'
    BY <2>4, <2>6 DEF SafeInv, LateComers, DropIsHidden, AnswersHold
  <2> QED  BY <2>7, <2>8, <2>9 DEF SafeInv
<1> QED  BY <1>1, <1>2 DEF Restore, ListPage, Probe, ReadFails, Recreate

\* The environment.
LEMMA OtherSafe ==
    ASSUME TypeInv, SafeInv, Start \/ Crash \/ ShareInstance \/ LoseContainer \/ UNCHANGED vars
    PROVE  SafeInv'
<1>1. CASE Start \/ LoseContainer \/ UNCHANGED vars
  BY <1>1, StutterSafe DEF Start, LoseContainer, vars, controllerVars, storeVars, handlerVars
<1>2. CASE Crash
  <2>1. /\ UNCHANGED <<records, perms, issued, op, target>>
        /\ pc' = [q \in Reqs |-> IF InFlight(q) THEN "killed" ELSE pc[q]]
    BY <1>2 DEF Crash, storeVars
  <2>2. \A q \in Reqs : /\ pc'[q] \notin Steps
                        /\ pc'[q] = "ok" <=> pc[q] = "ok"
                        /\ pc[q] \in {"drop", "ok", "failed", "killed"} =>
                             pc'[q] \in {"drop", "ok", "failed", "killed"}
    BY <2>1 DEF InFlight, Steps, PostSteps, PutSteps, DeleteSteps
  <2>3. PermImpliesRecord' /\ IdsAreIssued'
    BY <2>1 DEF SafeInv, PermImpliesRecord, IdsAreIssued
  <2>4. CreatingIsHidden' /\ DropIsHidden'
    BY <2>2 DEF CreatingIsHidden, DropIsHidden, Steps, DeleteSteps
  <2>5. LateComers'
    BY <2>1, <2>2 DEF SafeInv, LateComers, Steps
  <2>6. AnswersHold'
    BY <2>1, <2>2 DEF SafeInv, AnswersHold
  <2> QED  BY <2>3, <2>4, <2>5, <2>6 DEF SafeInv
<1>3. CASE ShareInstance
  <2>1. PICK i \in Ids, u \in Users, rights \in SUBSET Rights : Share(i, u, rights)
    BY <1>3, ShareAssumption DEF ShareInstance
  <2>2. /\ \A j \in Ids : perms'[j] = NoPerms <=> perms[j] = NoPerms
        /\ UNCHANGED <<records, issued, pc, op, target>>
        /\ target \in [Reqs -> Ids]
    BY <1>3, <2>1, ShareType DEF TypeInv, TypeOK, ControllerTypeOK, ShareInstance, Share, handlerVars
  <2>3. \A q \in Reqs : perms'[target[q]] = NoPerms <=> perms[target[q]] = NoPerms
    BY <2>2
  <2>4. PermImpliesRecord' /\ IdsAreIssued'
    BY <2>2 DEF SafeInv, PermImpliesRecord, IdsAreIssued
  <2>5. CreatingIsHidden' /\ DropIsHidden' /\ LateComers' /\ AnswersHold'
    BY <2>2, <2>3 DEF SafeInv, CreatingIsHidden, DropIsHidden, LateComers, AnswersHold
  <2> QED  BY <2>4, <2>5 DEF SafeInv
<1> QED  BY <1>1, <1>2, <1>3

\* The steps of a handler that leave the two stores alone, begin no later than the right
\* to administrate is checked and end before an answer.
QuietStep(r) ==
    \/ PostTopic(r) \/ PostCreate(r)
    \/ PutFind(r) \/ PutUpdate(r) \/ PutRemove(r) \/ PutRecreate(r) \/ PutMayWrite(r)
    \/ DeleteFind(r) \/ DeleteUndeploy(r) \/ DeleteUntopic(r) \/ DeleteMayDelete(r)

LEMMA QuietMoves ==
    ASSUME TypeInv, NEW r \in Reqs, QuietStep(r)
    PROVE  \E labels \in SUBSET (Steps \ {"grant", "drop"}) :
            /\ MovesTo(r, labels)
            /\ UNCHANGED storeVars
            /\ pc[r] \in Steps \ {"insert", "grant", "replace", "ungrant", "drop"}
            /\ pc[r] \notin PostSteps => labels \cap PostSteps = {}
            /\ pc'[r] \in Steps => /\ instance'[r].itype = instance[r].itype
                                   /\ instance'[r].owner = instance[r].owner
<1> DEFINE Kept == pc'[r] \in Steps => /\ instance'[r].itype = instance[r].itype
                                       /\ instance'[r].owner = instance[r].owner
<1>1. DeployTypeOK /\ ControllerTypeOK /\ Local(r)
  BY DEF TypeInv, TypeOK, Locals
<1>2. \A o, label : label \in Steps /\ Spend(o) /\ Proceed(r, o, label) /\ HandlerFrame
                        => MovesTo(r, {label}) /\ Kept
  BY <1>1, ProceedMoves
<1>3. ASSUME NEW o, NEW label \in Steps, Spend(o), HandlerFrame, instance[r] \in Record,
             ProceedWithSid(r, o, NewSid(target[r]), label)
      PROVE  MovesTo(r, {label}) /\ Kept
  BY <1>1, <1>3, ProceedWithSidMoves
<1> USE DEF Steps, PostSteps, PutSteps, DeleteSteps
<1>4. CASE PostTopic(r)
  <2>1. MovesTo(r, {"create"}) /\ Kept
    BY <1>2, <1>4 DEF PostTopic
  <2> QED  BY <1>4, <2>1 DEF PostTopic
<1>5. CASE PostCreate(r)
  <2>1. MovesTo(r, {"insert"}) /\ Kept
    BY <1>1, <1>3, <1>5 DEF PostCreate, Local
  <2> QED  BY <1>5, <2>1 DEF PostCreate
<1>6. CASE PutFind(r)
  <2>1. MovesTo(r, {"update", "remove"}) /\ Kept
    <3>1. CASE Return(r, "failed")
      BY <1>1, <1>6, <3>1 DEF PutFind, Return, Goto, MovesTo, HandlerFrame, ControllerTypeOK, Answers
    <3>2. CASE ~Return(r, "failed")
      <4>1. PICK label \in {"update", "remove"} :
              /\ records[target[r]] # NoRecord
              /\ existing' = [existing EXCEPT ![r] = records[target[r]]]
              /\ Goto(r, label)
              /\ UNCHANGED instance
        BY <1>6, <3>2 DEF PutFind, TurnDown
      <4>2. records[target[r]] \in Record
        BY <1>1, <4>1 DEF TypeInv, TypeOK, StoreTypeOK, ControllerTypeOK
      <4> QED  BY <1>1, <1>6, <4>1, <4>2 DEF PutFind, Goto, MovesTo, HandlerFrame, ControllerTypeOK
    <3> QED  BY <3>1, <3>2
  <2> QED  BY <1>6, <2>1 DEF PutFind
<1>7. CASE PutUpdate(r)
  <2>1. MovesTo(r, {"mayWrite"}) /\ Kept
    BY <1>1, <1>3, <1>7 DEF PutUpdate, Local
  <2> QED  BY <1>7, <2>1 DEF PutUpdate
<1>8. CASE PutRemove(r)
  <2>1. MovesTo(r, {"recreate"}) /\ Kept
    BY <1>2, <1>8 DEF PutRemove
  <2> QED  BY <1>8, <2>1 DEF PutRemove
<1>9. CASE PutRecreate(r)
  <2>1. MovesTo(r, {"mayWrite"}) /\ Kept
    BY <1>1, <1>3, <1>9 DEF PutRecreate, Local
  <2> QED  BY <1>9, <2>1 DEF PutRecreate
<1>10. CASE PutMayWrite(r)
  <2>1. MovesTo(r, {"replace"}) /\ Kept /\ UNCHANGED storeVars
    BY <1>1, <1>10, CheckMoves DEF PutMayWrite
  <2> QED  BY <1>10, <2>1 DEF PutMayWrite
<1>11. CASE DeleteFind(r)
  <2>1. MovesTo(r, {"undeploy"}) /\ Kept
    <3>1. CASE Return(r, "failed")
      BY <1>1, <1>11, <3>1 DEF DeleteFind, Spend, Return, Goto, MovesTo, HandlerFrame,
                               ControllerTypeOK, Answers
    <3>2. CASE ~Return(r, "failed")
      <4>1. /\ records[target[r]] # NoRecord
            /\ existing' = [existing EXCEPT ![r] = records[target[r]]]
            /\ Goto(r, "undeploy")
            /\ UNCHANGED instance
        BY <1>11, <3>2 DEF DeleteFind, Succeeded
      <4>2. records[target[r]] \in Record
        BY <1>1, <4>1 DEF TypeInv, TypeOK, StoreTypeOK, ControllerTypeOK
      <4> QED  BY <1>1, <1>11, <4>1, <4>2 DEF DeleteFind, Spend, Goto, MovesTo, HandlerFrame, ControllerTypeOK
    <3> QED  BY <3>1, <3>2
  <2> QED  BY <1>11, <2>1 DEF DeleteFind
<1>12. CASE DeleteUndeploy(r)
  <2>1. MovesTo(r, {"untopic", "mayDelete"}) /\ Kept
    <3>1. PICK label \in {"untopic", "mayDelete"}, o \in Outcomes :
            Spend(o) /\ Proceed(r, o, label) /\ HandlerFrame
      BY <1>12 DEF DeleteUndeploy
    <3>2. MovesTo(r, {label}) /\ Kept
      BY <1>2, <3>1
    <3> QED  BY <3>1, <3>2 DEF MovesTo
  <2> QED  BY <1>12, <2>1 DEF DeleteUndeploy
<1>13. CASE DeleteUntopic(r)
  <2>1. MovesTo(r, {"mayDelete"}) /\ Kept
    BY <1>2, <1>13 DEF DeleteUntopic
  <2> QED  BY <1>13, <2>1 DEF DeleteUntopic
<1>14. CASE DeleteMayDelete(r)
  <2>1. MovesTo(r, {"ungrant"}) /\ Kept /\ UNCHANGED storeVars
    BY <1>1, <1>14, CheckMoves DEF DeleteMayDelete
  <2> QED  BY <1>14, <2>1 DEF DeleteMayDelete
<1> QED  BY <1>4, <1>5, <1>6, <1>7, <1>8, <1>9, <1>10, <1>11, <1>12, <1>13, <1>14 DEF QuietStep

\* Every step of every handler keeps SafeInv.
LEMMA HandleSafe ==
    ASSUME TypeInv, SafeInv, NEW r \in Reqs, Handle(r)
    PROVE  SafeInv'
<1>1. CASE QuietStep(r)
  <2>1. PICK labels \in SUBSET (Steps \ {"grant", "drop"}) :
            /\ MovesTo(r, labels)
            /\ UNCHANGED storeVars
            /\ pc[r] \in Steps \ {"insert", "grant", "replace", "ungrant", "drop"}
            /\ pc[r] \notin PostSteps => labels \cap PostSteps = {}
    BY <1>1, QuietMoves
  <2> QED  BY <2>1, QuietSafe
<1>2. CASE PostInsert(r) \/ PutReplace(r)
  BY <1>2, StoreSafe
<1>3. CASE PostGrant(r)
  BY <1>3, GrantSafe
<1>4. CASE DeleteUngrant(r) \/ DeleteDrop(r)
  BY <1>4, RemoveSafe
<1> QED  BY <1>1, <1>2, <1>3, <1>4 DEF Handle, QuietStep

LEMMA NextSafe == TypeInv /\ SafeInv /\ [Next]_vars => SafeInv'
<1> SUFFICES ASSUME TypeInv, SafeInv, [Next]_vars PROVE SafeInv'
  OBVIOUS
<1>1. CASE \E r \in Reqs : RequestStep(r)
  BY <1>1, HandleSafe, RequestSafe DEF RequestStep
<1>2. CASE Restore
  BY <1>2, RestoreSafe
<1>3. CASE Start \/ Crash \/ ShareInstance \/ LoseContainer \/ UNCHANGED vars
  BY <1>3, OtherSafe
<1> QED  BY <1>1, <1>2, <1>3 DEF Next

\* The inductive invariant holds: the handlers of one id never include a POST next to a
\* PUT or a DELETE, and the two stores are written in the order that hides a document
\* before it is complete and after its deletion began.
THEOREM Invariant == Spec => []Inv
<1>1. Init => Inv
  BY InitTypes, InitSafe DEF Inv
<1>2. Inv /\ [Next]_vars => Inv'
  BY NextTypes, NextSafe DEF Inv
<1> QED  BY <1>1, <1>2, PTL DEF Spec

\* Whatever fails, crashes or races, an instance that anybody has rights on has its
\* document: InsertOne precedes SetPermission in Mongo.CreateInstance, RemoveResource
\* precedes DeleteOne in Mongo.RemoveInstance, and no handler overtakes another.
THEOREM DocumentBehindRights == Spec => []PermImpliesRecord
<1>1. Inv => PermImpliesRecord
  BY DEF Inv, SafeInv
<1> QED  BY <1>1, Invariant, PTL

\* A DELETE answered with 204 and a POST answered with 200 stay true for ever: rights
\* are granted by the one POST of an id and withdrawn by DELETEs only.
THEOREM AnswersStayTrue == Spec => []AnswersHold
<1>1. Inv => AnswersHold
  BY DEF Inv, SafeInv
<1> QED  BY <1>1, Invariant, PTL
=============================================================================
