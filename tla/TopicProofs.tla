----------------------------- MODULE TopicProofs -----------------------------
(***************************************************************************)
(* TopicPresent is an invariant, for all values of the constants.  It is   *)
(* not inductive: a handler writes a document or starts a container on the *)
(* strength of a topic it created, or of a document it read, steps ago.    *)
(* Topics remembers that for every step that does.                         *)
(***************************************************************************)
EXTENDS ImportDeployHistory, ImportDeployProofs

\* The instances that have their topic or had it taken away.
Topical == topics \cup untopiced

\* The steps of a handler after which it relies on the topic.
Relying == {"create", "insert", "grant"} \cup (PutSteps \ {"find"})

Topics ==
    /\ \A i \in Ids : records[i] # NoRecord => i \in Topical
    /\ \A c \in containers : c.inst \in Topical
    /\ \A r \in Reqs : pc[r] \in Relying => target[r] \in Topical

TopicsInv == SkipKafkaAdmin \/ Topics

-----------------------------------------------------------------------------

\* What a step has to be like in order to keep Topics.
LEMMA KeepTopics ==
    ASSUME Topics, Topical \subseteq Topical',
           \A i \in Ids : records'[i] # NoRecord => records[i] # NoRecord \/ i \in Topical',
           \A c \in containers' : c \in containers \/ c.inst \in Topical',
           \A r \in Reqs : pc'[r] \in Relying =>
                \/ pc[r] \in Relying /\ target'[r] = target[r]
                \/ target'[r] \in Topical'
    PROVE  Topics'
  BY DEF Topics

\* What a backend creates for an instance has its name.
LEMMA CreatedNames ==
    ASSUME NEW i, NEW rec, NEW o,
           CreateContainer(i, rec, o) \/ RecreateContainer(i, rec, o) \/ KubernetesUpdate(i, rec, o)
    PROVE  \A c \in containers' : c \in containers \/ c.inst = i
<1> USE DEF ContainerOf
<1>1. CASE DockerCreate(i, rec, o)
  BY <1>1 DEF DockerCreate, Unlabelled
<1>2. CASE KubernetesCreate(i, rec, o)
  BY <1>2 DEF KubernetesCreate
<1>3. CASE RancherCreate(i, rec, o) \/ RancherRecreate(i, rec, o)
  BY <1>3 DEF RancherCreate, RancherRecreate, RancherPost, Service
<1>4. CASE Rancher2Create(i, rec, o)
  BY <1>4 DEF Rancher2Create
<1>5. CASE KubernetesUpdate(i, rec, o)
  <2> DEFINE new == ContainerOf(i, KubernetesSid(i), rec)
  <2>1. containers' \subseteq containers \cup {new}
    BY <1>5 DEF KubernetesUpdate
  <2>2. new.inst = i
    OBVIOUS
  <2> QED  BY <2>1, <2>2
<1> QED
  BY <1>1, <1>2, <1>3, <1>4, <1>5 DEF CreateContainer, RecreateContainer

\* RemoveContainer creates nothing.
LEMMA RemovedOnly ==
    ASSUME NEW sid, NEW o, RemoveContainer(sid, o)
    PROVE  containers' \subseteq containers
  BY DEF RemoveContainer, DockerRemove, KubernetesRemove, RancherRemove, Rancher2Remove, Named

-----------------------------------------------------------------------------

\* The steps of a handler keep Topics.
LEMMA HandleTopics ==
    ASSUME TypeInv, ~SkipKafkaAdmin, Topics, NEW r \in Reqs, Handle(r),
           untopiced' = untopiced \cup {target[q] : q \in {s \in Reqs :
                            pc[s] = "untopic" /\ pc'[s] # "untopic"}}
    PROVE  Topics'
<1> USE DEF Topical, Relying, PutSteps
<1>1. target[r] \in Ids /\ (pc[r] \in Relying => target[r] \in Topical)
  BY DEF TypeInv, TypeOK, ControllerTypeOK, Topics
<1>2. untopiced \subseteq untopiced'
  OBVIOUS
<1>3. ASSUME NEW o, NEW label, HandlerFrame,
             Proceed(r, o, label) \/ \E sid : ProceedWithSid(r, o, sid, label)
      PROVE  /\ pc'[r] = "failed" \/ (pc'[r] = label /\ Succeeded(o))
             /\ \A s \in Reqs \ {r} : pc'[s] = pc[s]
             /\ target' = target
  BY <1>3, Going
<1> DEFINE
        Stays == \A s \in Reqs \ {r} : pc'[s] = pc[s]
        Goes(label) == Stays /\ target' = target /\ pc'[r] \in {label, "failed"}
<1>4. CASE PostTopic(r)
  <2>1. PICK o \in Outcomes : /\ CreateTopic(target[r], o) /\ Proceed(r, o, "create")
                              /\ HandlerFrame /\ UNCHANGED <<storeVars, deployVars>>
    BY <1>4 DEF PostTopic
  <2>2. Goes("create") /\ (pc'[r] = "create" => Succeeded(o))
    BY <2>1, <1>3
  <2>3. topics \subseteq topics' /\ (Succeeded(o) => target[r] \in topics')
    BY <2>1 DEF CreateTopic, Succeeded
  <2> QED  BY <1>2, <2>1, <2>2, <2>3, KeepTopics DEF storeVars, deployVars
<1>5. CASE PostCreate(r) \/ PutUpdate(r) \/ PutRecreate(r)
  <2>1. PICK o \in Outcomes, label \in {"insert", "mayWrite"} :
            /\ \/ CreateContainer(target[r], instance[r], o)
               \/ RecreateContainer(target[r], instance[r], o)
               \/ KubernetesUpdate(target[r], instance[r], o)
            /\ ProceedWithSid(r, o, NewSid(target[r]), label)
            /\ HandlerFrame /\ UNCHANGED <<topics, storeVars>> /\ pc[r] \in Relying
    BY <1>5 DEF PostCreate, PutUpdate, PutRecreate
  <2>2. Goes(label)
    BY <2>1, <1>3
  <2>3. \A c \in containers' : c \in containers \/ c.inst = target[r]
    BY <2>1, CreatedNames
  <2> QED  BY <1>1, <1>2, <2>1, <2>2, <2>3, KeepTopics DEF storeVars
<1>6. CASE PostInsert(r) \/ PutReplace(r)
  <2>1. PICK o \in Outcomes, label \in {"grant", "ok"} :
            /\ InsertOne(target[r], instance[r], o) \/ ReplaceOrInsert(target[r], instance[r], o)
            /\ Proceed(r, o, label)
            /\ HandlerFrame /\ UNCHANGED <<topics, deployVars>> /\ pc[r] \in Relying
    BY <1>6 DEF PostInsert, PutReplace
  <2>2. Goes(label)
    BY <2>1, <1>3
  <2>3. \A i \in Ids : records'[i] # NoRecord => records[i] # NoRecord \/ i = target[r]
    BY <2>1 DEF InsertOne, ReplaceOrInsert, TypeInv, TypeOK, StoreTypeOK
  <2> QED  BY <1>1, <1>2, <2>1, <2>2, <2>3, KeepTopics DEF deployVars
<1>7. CASE PostGrant(r) \/ PutMayWrite(r)
  <2>1. PICK o \in Outcomes, label \in {"ok", "replace"} :
            /\ Proceed(r, o, label) /\ HandlerFrame
            /\ UNCHANGED <<topics, records, deployVars>> /\ pc[r] \in Relying
    BY <1>7 DEF PostGrant, PutMayWrite, Check, GrantOwner, storeVars, Outcomes
  <2>2. Goes(label)
    BY <2>1, <1>3
  <2> QED  BY <1>1, <1>2, <2>1, <2>2, KeepTopics DEF deployVars
<1>8. CASE PutFind(r)
  <2>1. /\ UNCHANGED <<topics, records, deployVars>> /\ HandlerFrame
        /\ \/ Return(r, "failed")
           \/ records[target[r]] # NoRecord /\ \E label \in {"update", "remove"} : Goto(r, label)
    BY <1>8 DEF PutFind, TurnDown, storeVars
  <2>2. Stays /\ target' = target /\ (pc'[r] = "failed" \/ records[target[r]] # NoRecord)
    BY <2>1 DEF Return, Goto, HandlerFrame, TypeInv, TypeOK, ControllerTypeOK
  <2>3. records[target[r]] # NoRecord => target[r] \in Topical
    BY <1>1 DEF Topics
  <2> QED  BY <1>2, <2>1, <2>2, <2>3, KeepTopics DEF deployVars
<1>9. CASE PutRemove(r) \/ DeleteUndeploy(r)
  <2>1. PICK o \in Outcomes, label \in {"recreate", "mayDelete", "untopic"} :
            /\ RemoveContainer(existing[r].sid, o) /\ Proceed(r, o, label) /\ HandlerFrame
            /\ UNCHANGED <<topics, storeVars>>
            /\ label = "recreate" => pc[r] \in Relying
    BY <1>9 DEF PutRemove, DeleteUndeploy
  <2>2. Goes(label)
    BY <2>1, <1>3
  <2>3. containers' \subseteq containers
    BY <2>1, RemovedOnly
  <2> QED  BY <1>1, <1>2, <2>1, <2>2, <2>3, KeepTopics DEF storeVars
<1>10. CASE DeleteFind(r)
  <2>1. /\ UNCHANGED <<topics, records, deployVars>> /\ HandlerFrame
        /\ Return(r, "failed") \/ Goto(r, "undeploy")
    BY <1>10 DEF DeleteFind, storeVars
  <2>2. Goes("undeploy")
    BY <2>1 DEF Return, Goto, HandlerFrame, TypeInv, TypeOK, ControllerTypeOK
  <2> QED  BY <1>2, <2>1, <2>2, KeepTopics DEF deployVars
<1>11. CASE DeleteUntopic(r)
  <2>1. PICK o \in Outcomes : /\ DeleteTopic(target[r], o) /\ Proceed(r, o, "mayDelete")
                              /\ HandlerFrame /\ UNCHANGED <<storeVars, deployVars>>
                              /\ pc[r] = "untopic"
    BY <1>11 DEF DeleteUntopic
  <2>2. Goes("mayDelete")
    BY <2>1, <1>3
  <2>3. topics \ {target[r]} \subseteq topics'
    BY <2>1 DEF DeleteTopic
  <2>4. target[r] \in untopiced'
    BY <2>1, <2>2
  <2> QED  BY <1>2, <2>1, <2>2, <2>3, <2>4, KeepTopics DEF storeVars, deployVars
<1>12. CASE DeleteMayDelete(r) \/ DeleteUngrant(r) \/ DeleteDrop(r)
  <2>1. PICK o \in Outcomes, label \in {"ungrant", "drop", "ok"} :
            /\ Proceed(r, o, label) /\ HandlerFrame /\ UNCHANGED <<topics, deployVars>>
            /\ records' \in {records, [records EXCEPT ![target[r]] = NoRecord]}
    BY <1>12 DEF DeleteMayDelete, DeleteUngrant, DeleteDrop, Check, RemoveResource, DeleteOne,
                 storeVars, Outcomes
  <2>2. Goes(label)
    BY <2>1, <1>3
  <2>3. \A i \in Ids : records'[i] # NoRecord => records[i] # NoRecord
    BY <2>1 DEF TypeInv, TypeOK, StoreTypeOK
  <2> QED  BY <1>2, <2>1, <2>2, <2>3, KeepTopics DEF deployVars
<1> QED  BY <1>4, <1>5, <1>6, <1>7, <1>8, <1>9, <1>10, <1>11, <1>12 DEF Handle

\* A request that arrives does not rely on a topic yet: a POST creates it, and the
\* others look for the document first.
LEMMA RequestTopics ==
    ASSUME TypeInv, ~SkipKafkaAdmin, Topics, NEW r \in Reqs, Request(r), untopiced \subseteq untopiced'
    PROVE  Topics'
<1>1. \E method, u, i : Receive(r, method, u, i)
  BY DEF Request, Post, Put, Delete
<1>2. \E label \in {"topic", "find", "failed"} : Goto(r, label)
  BY DEF Request, Post, Put, Delete, TurnDown, Return
<1>3. /\ pc'[r] \notin Relying
      /\ \A s \in Reqs \ {r} : pc'[s] = pc[s] /\ target'[s] = target[s]
  BY <1>1, <1>2 DEF Receive, Goto, Relying, PutSteps, TypeInv, TypeOK, ControllerTypeOK
<1> QED  BY <1>1, <1>3, KeepTopics DEF Receive, Topical, storeVars, deployVars

\* The restoration recreates the containers of documents that are there.
LEMMA RestoreTopics ==
    ASSUME TypeInv, Topics, Restore, untopiced \subseteq untopiced'
    PROVE  Topics'
<1>1. UNCHANGED <<topics, pc, target>>
  BY DEF Restore, ListPage, Probe, ReadFails, Recreate, StoreSid, BootFrame, handlerVars
<1>2. CASE UNCHANGED <<records, containers>>
  BY <1>1, <1>2, KeepTopics DEF Topical
<1>3. CASE Recreate
  <2>1. boot.inst \in Topical
    BY <1>3 DEF Recreate, TypeInv, TypeOK, BootKnows, StartupTypeOK, Boot, Topics
  <2>2. \A c \in containers' : c \in containers \/ c.inst = boot.inst
    BY <1>3, CreatedNames DEF Recreate
  <2> QED  BY <1>1, <1>3, <2>1, <2>2, KeepTopics DEF Recreate, Topical
<1>4. CASE StoreSid
  <2>1. boot.inst \in Topical
    BY <1>4 DEF StoreSid, TypeInv, TypeOK, BootKnows, StartupTypeOK, Boot, Topics
  <2>2. \A i \in Ids : records'[i] # NoRecord => records[i] # NoRecord \/ i = boot.inst
    BY <1>4 DEF StoreSid, ReplaceOrInsert, TypeInv, TypeOK, StoreTypeOK
  <2> QED  BY <1>1, <1>4, <2>1, <2>2, KeepTopics DEF StoreSid, Topical, deployVars
<1> QED  BY <1>2, <1>3, <1>4 DEF Restore, ListPage, Probe, ReadFails, deployVars

\* Nothing else creates a container or a document, or takes a topic.
LEMMA OtherTopics ==
    ASSUME TypeInv, Topics, untopiced \subseteq untopiced',
           Start \/ Crash \/ ShareInstance \/ LoseContainer \/ UNCHANGED vars
    PROVE  Topics'
<1>1. /\ UNCHANGED <<topics, records, target>> /\ containers' \subseteq containers
      /\ \A r \in Reqs : pc'[r] \in Relying => pc[r] \in Relying
  BY DEF Start, Crash, InFlight, Steps, Relying, PutSteps, ShareInstance, Share, LoseContainer,
         Lose, vars, controllerVars,
         storeVars, deployVars, handlerVars
<1> QED  BY <1>1, KeepTopics DEF Topical

LEMMA NextTopics == TypeInv /\ TopicsInv /\ [HistoryNext]_historyVars => TopicsInv'
<1> SUFFICES ASSUME TypeInv, TopicsInv, [HistoryNext]_historyVars PROVE TopicsInv'
  OBVIOUS
<1>1. CASE SkipKafkaAdmin
  BY <1>1 DEF TopicsInv
<1>2. CASE ~SkipKafkaAdmin
  <2>1. Topics
    BY <1>2 DEF TopicsInv
  <2>2. untopiced \subseteq untopiced'
    BY DEF HistoryNext, historyVars
  <2>3. CASE \E r \in Reqs : RequestStep(r)
    <3>1. HistoryNext \/ UNCHANGED historyVars
      OBVIOUS
    <3>2. CASE UNCHANGED historyVars
      BY <3>2, <2>1, <2>2, OtherTopics DEF historyVars, TopicsInv
    <3>3. CASE HistoryNext
      BY <1>2, <2>1, <2>2, <2>3, <3>3, HandleTopics, RequestTopics DEF RequestStep, HistoryNext, TopicsInv
    <3> QED  BY <3>1, <3>2, <3>3
  <2>4. CASE Restore
    BY <2>1, <2>2, <2>4, RestoreTopics DEF TopicsInv
  <2>5. CASE Start \/ Crash \/ ShareInstance \/ LoseContainer \/ UNCHANGED vars
    BY <2>1, <2>2, <2>5, OtherTopics DEF TopicsInv
  <2> QED  BY <2>3, <2>4, <2>5 DEF HistoryNext, Next, historyVars
<1> QED  BY <1>1, <1>2

-----------------------------------------------------------------------------

\* As long as no DELETE has reached Kafka for it, whatever has a document or a container
\* has its topic, with any backend and whatever fails, crashes or races: CreateInstance
\* returns when CreateTopic fails, and SetInstance and EnsureAllInstancesDeployed work on
\* what was created behind that topic.
THEOREM TopicIsPresent == HistorySpec => []TopicPresent
<1>1. HistoryInit => TypeInv /\ TopicsInv
  <2>1. HistoryInit => TypeInv
    BY InitTypes DEF HistoryInit
  <2>2. HistoryInit => Topics
    BY DEF HistoryInit, Init, ControllerInit, StoreInit, DeployInit, Topics, Relying, PutSteps
  <2> QED  BY <2>1, <2>2 DEF TopicsInv
<1>2. TypeInv /\ TopicsInv /\ [HistoryNext]_historyVars => (TypeInv /\ TopicsInv)'
  BY NextTypes, NextTopics DEF HistoryNext, historyVars
<1>3. TopicsInv => TopicPresent
  BY DEF TopicsInv, Topics, TopicPresent, Topical, Named
<1> QED  BY <1>1, <1>2, <1>3, PTL DEF HistorySpec
=============================================================================
