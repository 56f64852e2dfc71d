-------------------------- MODULE RestorationProofs ---------------------------
(***************************************************************************)
(* What the restoration reaches, for all values of the other constants.    *)
(* With rancher2 nothing that was left behind stops it: what it creates is *)
(* known not to be there, because a document names a workload of its own   *)
(* instance only, and stays away, because no other goroutine creates       *)
(* anything before the API is started.  With any backend it passes over    *)
(* every instance, if names differ: the pages continue one another.        *)
(***************************************************************************)
EXTENDS ImportDeployProofs, HistoryInvariant

-----------------------------------------------------------------------------

\* What a backend creates has a service id of the instance, and so has the caller.
LEMMA CreatedSids ==
    ASSUME DeployTypeOK, deployMode \in Backends, NEW i \in Ids, NEW rec, NEW o,
           \/ CreateContainer(i, rec, o)
           \/ RecreateContainer(i, rec, o)
           \/ deployMode = "kubernetes" /\ KubernetesUpdate(i, rec, o)
    PROVE  /\ \A j \in Ids : SidsOf(j, created[j]) \subseteq SidsOf(j, created'[j])
           /\ \A c \in containers' : c \in containers \/ (c.inst = i /\ c.sid \in SidsOf(i, created'[i]))
           /\ Succeeded(o) => NewSid(i) \in SidsOf(i, created'[i])
<1> USE DEF DeployTypeOK, SidsOf, ContainerOf, Succeeded
<1>1. CASE deployMode = "docker" /\ DockerCreate(i, rec, o)
  <2> DEFINE new == Unlabelled(i, rec)
  <2>1. \/ UNCHANGED <<containers, created>> /\ ~Succeeded(o)
        \/ containers' = containers \cup {new} /\ created' = [created EXCEPT ![i] = @ + 1]
    BY <1>1 DEF DockerCreate
  <2>2. new.inst = i /\ new.sid = <<i, created[i] + 1>> /\ NewSid(i) = <<i, created[i] + 1>>
    BY <1>1 DEF Unlabelled, DockerSid, NewSid
  <2> HIDE DEF new
  <2>3. CASE UNCHANGED <<containers, created>> /\ ~Succeeded(o)
    BY <2>3
  <2>4. CASE containers' = containers \cup {new} /\ created' = [created EXCEPT ![i] = @ + 1]
    <3>1. /\ <<i, created[i] + 1>> \in SidsOf(i, created'[i])
          /\ \A j \in Ids : SidsOf(j, created[j]) \subseteq SidsOf(j, created'[j])
      BY <2>4
    <3> QED  BY <2>2, <2>4, <3>1
  <2> QED  BY <2>1, <2>3, <2>4
<1>2. CASE deployMode = "kubernetes" /\ (KubernetesCreate(i, rec, o) \/ KubernetesUpdate(i, rec, o))
  <2> DEFINE new == ContainerOf(i, KubernetesSid(i), rec)
  <2>1. containers' \subseteq containers \cup {new} /\ created' = created
    BY <1>2 DEF KubernetesCreate, KubernetesUpdate
  <2>2. new.inst = i /\ new.sid = <<i, 0>> /\ NewSid(i) = <<i, 0>>
    BY <1>2 DEF KubernetesSid, NewSid
  <2>3. <<i, 0>> \in SidsOf(i, created'[i]) /\ \A j \in Ids : SidsOf(j, created'[j]) = SidsOf(j, created[j])
    BY <2>1
  <2> QED  BY <2>1, <2>2, <2>3
<1>3. CASE deployMode = "rancher1" /\ (RancherCreate(i, rec, o) \/ RancherRecreate(i, rec, o))
  <2>1. PICK suffix \in BOOLEAN : RancherPost(i, rec, suffix, o)
    BY <1>3 DEF RancherCreate, RancherRecreate
  <2> DEFINE new == Service(i, rec, suffix)
  <2>2. \/ UNCHANGED <<containers, created>> /\ ~Succeeded(o)
        \/ containers' = containers \cup {new} /\ created' = [created EXCEPT ![i] = @ + 1]
    BY <2>1 DEF RancherPost
  <2>3. new.inst = i /\ new.sid = <<i, created[i] + 1>> /\ NewSid(i) = <<i, created[i] + 1>>
    BY <1>3 DEF Service, RancherSid, NewSid
  <2> HIDE DEF new
  <2>4. CASE UNCHANGED <<containers, created>> /\ ~Succeeded(o)
    BY <2>4
  <2>5. CASE containers' = containers \cup {new} /\ created' = [created EXCEPT ![i] = @ + 1]
    <3>1. /\ <<i, created[i] + 1>> \in SidsOf(i, created'[i])
          /\ \A j \in Ids : SidsOf(j, created[j]) \subseteq SidsOf(j, created'[j])
      BY <2>5
    <3> QED  BY <2>3, <2>5, <3>1
  <2> QED  BY <2>2, <2>4, <2>5
<1>4. CASE deployMode = "rancher2" /\ Rancher2Create(i, rec, o)
  <2> DEFINE new == ContainerOf(i, Rancher2Sid(i), rec)
  <2>1. containers' \subseteq containers \cup {new} /\ created' = created
    BY <1>4 DEF Rancher2Create
  <2>2. new.inst = i /\ new.sid = <<i, 0>> /\ NewSid(i) = <<i, 0>>
    BY <1>4 DEF Rancher2Sid, NewSid
  <2>3. <<i, 0>> \in SidsOf(i, created'[i]) /\ \A j \in Ids : SidsOf(j, created'[j]) = SidsOf(j, created[j])
    BY <2>1
  <2> QED  BY <2>1, <2>2, <2>3
<1> QED  BY <1>1, <1>2, <1>3, <1>4 DEF CreateContainer, RecreateContainer

\* RemoveContainer creates nothing and issues no id.
LEMMA RemovedOnly ==
    ASSUME NEW sid, NEW o, RemoveContainer(sid, o)
    PROVE  containers' \subseteq containers /\ created' = created
  BY DEF RemoveContainer, DockerRemove, KubernetesRemove, RancherRemove, Rancher2Remove, Named

\* A faulty outcome is counted.
LEMMA SpentFault ==
    ASSUME TypeInv, NEW o, Spend(o), Faulty(o)
    PROVE  faults' # faults
  BY DEF TypeInv, TypeOK, ControllerTypeOK, Spend

\* What a handler's step has to be like in order to keep SidsFit.
LEMMA KeepSids ==
    ASSUME TypeInv, SidsFit, NEW r \in Reqs,
           proc' = "serving", target' = target, deployMode' = deployMode,
           \A s \in Reqs \ {r} : /\ pc'[s] = pc[s] /\ instance'[s] = instance[s]
                                  /\ existing'[s] = existing[s],
           \A i \in Ids : SidsOf(i, created[i]) \subseteq SidsOf(i, created'[i]),
           \A c \in containers' : c \in containers \/ c.sid \in SidsOf(c.inst, created'[c.inst]),
           \A i \in Ids :
               records'[i] \in {records[i], NoRecord} \/ records'[i].sid \in SidsOf(i, created'[i]),
           pc'[r] = "update" => deployMode = "kubernetes",
           pc'[r] \in Sidded => instance'[r].sid \in SidsOf(target[r], created'[target[r]]),
           pc'[r] \in HasRead => existing'[r].sid \in SidsOf(target[r], created'[target[r]])
    PROVE  SidsFit'
<1>1. target \in [Reqs -> Ids] /\ \A c \in containers : c.inst \in Ids
  BY DEF TypeInv, TypeOK, ControllerTypeOK, DeployTypeOK, Container
<1>2. \A s \in Reqs : pc'[s] \in Sidded => instance'[s].sid \in SidsOf(target[s], created'[target[s]])
  BY <1>1 DEF SidsFit
<1>3. \A s \in Reqs : pc'[s] \in HasRead => existing'[s].sid \in SidsOf(target[s], created'[target[s]])
  BY <1>1 DEF SidsFit
<1>4. \A c \in containers' : c.sid \in SidsOf(c.inst, created'[c.inst])
  BY <1>1 DEF SidsFit
<1>5. \A i \in Ids : records'[i] # NoRecord => records'[i].sid \in SidsOf(i, created'[i])
  BY DEF SidsFit
<1> QED  BY <1>2, <1>3, <1>4, <1>5 DEF SidsFit

\* The steps of a handler keep SidsFit: it stores a document only with the id that the
\* backend has returned for the instance.
LEMMA HandleSids ==
    ASSUME TypeInv, SidsFit, NEW r \in Reqs, Handle(r)
    PROVE  SidsFit'
<1> USE DEF Sidded, HasRead, PutSteps, DeleteSteps
<1>1. /\ target[r] \in Ids /\ instance \in [Reqs -> Record \cup {NoRecord}]
      /\ existing \in [Reqs -> Record \cup {NoRecord}]
      /\ records \in [Ids -> Record \cup {NoRecord}] /\ DeployTypeOK
      /\ pc \in [Reqs -> {"idle", "killed"} \cup Answers \cup Steps]
      /\ Local(r) /\ deployMode \in Backends
  BY DEF TypeInv, TypeOK, ControllerTypeOK, StoreTypeOK, Locals
<1>2. /\ pc[r] \in Steps /\ HandlerFrame /\ proc' = "serving" /\ target' = target
      /\ deployMode' = deployMode
  BY <1>1 DEF Handle, PostTopic, PostCreate, PostInsert, PostGrant, PutFind, PutUpdate, PutRemove,
     PutRecreate, PutMayWrite, PutReplace, DeleteFind, DeleteUndeploy, DeleteUntopic,
     DeleteMayDelete, DeleteUngrant, DeleteDrop, Check, HandlerFrame, Local, Steps, PostSteps
<1>3. ASSUME NEW o, NEW label, Proceed(r, o, label) \/ \E sid : ProceedWithSid(r, o, sid, label)
      PROVE  /\ pc'[r] = "failed" \/ (pc'[r] = label /\ Succeeded(o))
             /\ \A s \in Reqs \ {r} : pc'[s] = pc[s]
  BY <1>2, <1>3, Going
<1>4. ASSUME NEW o, NEW label, Proceed(r, o, label) \/ \E sid : ProceedWithSid(r, o, sid, label)
      PROVE  /\ \A s \in Reqs \ {r} : instance'[s] = instance[s] /\ existing'[s] = existing[s]
             /\ pc'[r] \notin Answers => existing'[r] = existing[r]
  BY <1>1, <1>4 DEF Proceed, ProceedWithSid, Return, Goto, Answers
<1>5. UNCHANGED deployVars => /\ \A i \in Ids : SidsOf(i, created'[i]) = SidsOf(i, created[i])
                              /\ containers' = containers
  BY DEF deployVars, SidsOf
<1>6. CASE PostCreate(r) \/ PutUpdate(r) \/ PutRecreate(r)
  <2>1. PICK o \in Outcomes, label \in {"insert", "mayWrite"} :
            /\ \/ CreateContainer(target[r], instance[r], o)
               \/ RecreateContainer(target[r], instance[r], o)
               \/ pc[r] = "update" /\ KubernetesUpdate(target[r], instance[r], o)
            /\ ProceedWithSid(r, o, NewSid(target[r]), label)
            /\ UNCHANGED storeVars
            /\ label = "mayWrite" => pc[r] \in {"update", "recreate"}
    BY <1>6 DEF PostCreate, PutUpdate, PutRecreate, storeVars
  <2>2. instance[r] \in Record
    BY <1>1, <1>2, <1>6 DEF Local, PostCreate, PutUpdate, PutRecreate, PostSteps
  <2>3. /\ \A j \in Ids : SidsOf(j, created[j]) \subseteq SidsOf(j, created'[j])
        /\ \A c \in containers' :
               c \in containers \/ (c.inst = target[r] /\ c.sid \in SidsOf(target[r], created'[target[r]]))
        /\ Succeeded(o) => NewSid(target[r]) \in SidsOf(target[r], created'[target[r]])
    BY <1>1, <2>1, CreatedSids DEF SidsFit
  <2>4. pc'[r] \in Sidded => instance'[r].sid = NewSid(target[r]) /\ Succeeded(o)
    <3>1. SUFFICES ASSUME pc'[r] \in Sidded PROVE instance'[r].sid = NewSid(target[r]) /\ Succeeded(o)
      OBVIOUS
    <3>2. Succeeded(o)
      BY <1>3, <2>1, <3>1
    <3>3. instance' = [instance EXCEPT ![r] = [instance[r] EXCEPT !.sid = NewSid(target[r])]]
      BY <2>1, <3>2 DEF ProceedWithSid
    <3> QED  BY <1>1, <2>2, <3>2, <3>3 DEF Record
  <2>5. pc'[r] \in HasRead => existing'[r] = existing[r] /\ pc[r] \in HasRead
    BY <1>3, <1>4, <2>1 DEF Answers
  <2>6. pc'[r] \in HasRead => existing'[r].sid \in SidsOf(target[r], created'[target[r]])
    BY <1>1, <2>3, <2>5 DEF SidsFit
  <2>7. UNCHANGED records /\ pc'[r] # "update"
    BY <1>3, <2>1 DEF storeVars
  <2> QED  BY <1>2, <1>3, <1>4, <2>1, <2>3, <2>4, <2>6, <2>7, KeepSids
<1>7. CASE PutMayWrite(r)
  <2>1. PICK o : Proceed(r, o, "replace") /\ UNCHANGED <<storeVars, deployVars>> /\ pc[r] = "mayWrite"
    BY <1>7 DEF PutMayWrite, Check
  <2>2. pc'[r] # "failed" => instance'[r] = instance[r] /\ existing'[r] = existing[r]
    BY <1>1, <1>3, <2>1 DEF Proceed, Return, Goto, Answers
  <2>3. pc'[r] # "failed" => /\ instance'[r].sid \in SidsOf(target[r], created[target[r]])
                             /\ existing'[r].sid \in SidsOf(target[r], created[target[r]])
    BY <2>1, <2>2 DEF SidsFit
  <2> QED  BY <1>1, <1>2, <1>3, <1>4, <1>5, <2>1, <2>3, KeepSids DEF storeVars
<1>8. CASE PostInsert(r) \/ PutReplace(r)
  <2>1. PICK o \in Outcomes, label \in {"grant", "ok"} :
            /\ InsertOne(target[r], instance[r], o) \/ ReplaceOrInsert(target[r], instance[r], o)
            /\ Proceed(r, o, label) /\ pc[r] \in Sidded /\ UNCHANGED deployVars
    BY <1>8 DEF PostInsert, PutReplace
  <2>2. pc'[r] \in {"grant", "ok", "failed"}
    BY <1>3, <2>1
  <2>3. instance[r].sid \in SidsOf(target[r], created[target[r]])
    BY <2>1 DEF SidsFit
  <2>4. \A i \in Ids : records'[i] = records[i] \/ records'[i].sid \in SidsOf(i, created[i])
    BY <1>1, <2>1, <2>3 DEF InsertOne, ReplaceOrInsert
  <2> QED  BY <1>2, <1>3, <1>4, <1>5, <2>1, <2>2, <2>4, KeepSids
<1>9. CASE PutFind(r) \/ DeleteFind(r)
  <2>1. /\ UNCHANGED <<storeVars, deployVars>> /\ pc'[r] \notin Sidded
        /\ \A s \in Reqs \ {r} : /\ pc'[s] = pc[s] /\ instance'[s] = instance[s]
                                /\ existing'[s] = existing[s]
        /\ pc'[r] \in HasRead => records[target[r]] # NoRecord /\ existing'[r] = records[target[r]]
        /\ pc'[r] = "update" => deployMode = "kubernetes"
    <3>1. CASE Return(r, "failed")
      BY <1>1, <1>9, <3>1 DEF PutFind, DeleteFind, Return, Goto
    <3>2. CASE ~Return(r, "failed")
      BY <1>1, <1>9, <3>2 DEF PutFind, DeleteFind, TurnDown, Goto, UpdatesInPlace, Succeeded
    <3> QED  BY <3>1, <3>2
  <2>2. pc'[r] \in HasRead => existing'[r].sid \in SidsOf(target[r], created[target[r]])
    BY <1>1, <2>1 DEF SidsFit
  <2> QED  BY <1>1, <1>2, <1>5, <2>1, <2>2, KeepSids DEF storeVars
<1>10. CASE \/ PostTopic(r) \/ PostGrant(r) \/ PutRemove(r) \/ DeleteUndeploy(r) \/ DeleteUntopic(r)
            \/ DeleteMayDelete(r) \/ DeleteUngrant(r) \/ DeleteDrop(r)
  <2>1. PICK label \in {"create", "ok", "recreate", "untopic", "mayDelete", "ungrant", "drop"},
             o \in Outcomes : Proceed(r, o, label) /\ (label \in HasRead => pc[r] \in HasRead)
    BY <1>10 DEF PostTopic, PostGrant, PutRemove, DeleteUndeploy, DeleteUntopic, DeleteMayDelete,
       DeleteUngrant, DeleteDrop, Check, Outcomes
  <2>2. \A i \in Ids : records'[i] \in {records[i], NoRecord}
    BY <1>1, <1>10 DEF PostTopic, PostGrant, PutRemove, DeleteUndeploy, DeleteUntopic, DeleteMayDelete,
       DeleteUngrant, DeleteDrop, Check, storeVars, GrantOwner, RemoveResource, DeleteOne
  <2>3. containers' \subseteq containers /\ \A i \in Ids : SidsOf(i, created'[i]) = SidsOf(i, created[i])
    <3>1. containers' \subseteq containers /\ created' = created
      BY <1>10, RemovedOnly DEF PostTopic, PostGrant, PutRemove, DeleteUndeploy, DeleteUntopic,
         DeleteMayDelete, DeleteUngrant, DeleteDrop, Check, deployVars
    <3> QED  BY <3>1 DEF SidsOf
  <2>4. pc'[r] \in HasRead => existing'[r].sid \in SidsOf(target[r], created[target[r]])
    BY <1>3, <1>4, <2>1 DEF SidsFit, Answers
  <2>5. pc'[r] \notin Sidded \cup {"update"}
    BY <1>3, <2>1
  <2> QED  BY <1>1, <1>2, <1>3, <1>4, <2>1, <2>2, <2>3, <2>4, <2>5, KeepSids
<1> QED  BY <1>6, <1>7, <1>8, <1>9, <1>10 DEF Handle

\* A request begins without a service id.
LEMMA RequestSids ==
    ASSUME TypeInv, SidsFit, NEW r \in Reqs, Request(r)
    PROVE  SidsFit'
<1>1. /\ UNCHANGED <<records, proc, deployMode, containers, created>> /\ proc = "serving"
      /\ pc'[r] \notin Sidded \cup HasRead /\ pc'[r] # "update"
      /\ \A s \in Reqs \ {r} : /\ pc'[s] = pc[s] /\ target'[s] = target[s]
                               /\ instance'[s] = instance[s] /\ existing'[s] = existing[s]
  BY DEF TypeInv, TypeOK, ControllerTypeOK, Request, Post, Put, Delete, Receive, TurnDown, Return,
     Goto, storeVars, deployVars, Sidded, HasRead, PutSteps, DeleteSteps
<1> QED  BY <1>1 DEF SidsFit, SidsOf

\* The restoration stores the id of the container it has created.
LEMMA RestoreSids ==
    ASSUME TypeInv, SidsFit, Restore
    PROVE  SidsFit'
<1>1. /\ proc = "boot" /\ boot \in Boot /\ records \in [Ids -> Record \cup {NoRecord}] /\ BootFrame
      /\ Locals /\ deployMode \in Backends /\ deployMode' = deployMode /\ DeployTypeOK
  BY DEF TypeInv, TypeOK, StartupTypeOK, ControllerTypeOK, StoreTypeOK, Restore, ListPage, Probe,
     ReadFails, Recreate, StoreSid, BootFrame
<1>2. \A r \in Reqs : pc'[r] \notin Sidded \cup HasRead /\ pc'[r] # "update"
  BY <1>1 DEF Locals, Local, BootFrame, handlerVars, Sidded, HasRead, Steps, PostSteps, PutSteps,
     DeleteSteps
<1>3. CASE ListPage \/ Probe \/ ReadFails
  <2>1. UNCHANGED <<records, containers, created>> /\ boot'.stage # "store"
    <3>1. UNCHANGED <<records, containers, created>> /\ FirstPage.stage = "list"
      BY <1>3 DEF ListPage, Probe, ReadFails, FirstPage, deployVars
    <3>2. CASE ListPage
      BY <1>1, <3>1, <3>2 DEF ListPage, Boot
    <3>3. CASE Probe
      BY <1>1, <3>1, <3>3 DEF Probe, Boot
    <3>4. CASE ReadFails
      BY <3>1, <3>4 DEF ReadFails, Exit
    <3> QED  BY <1>3, <3>1, <3>2, <3>3, <3>4
  <2> QED  BY <1>2, <2>1 DEF SidsFit, SidsOf
<1>4. CASE Recreate
  <2>1. PICK o \in Outcomes :
            /\ CreateContainer(boot.inst, records[boot.inst], o)
            /\ IF Succeeded(o)
               THEN boot' = [boot EXCEPT !.stage = "store", !.sid = NewSid(boot.inst)] /\ UNCHANGED proc
               ELSE Exit
            /\ UNCHANGED records
    BY <1>4 DEF Recreate
  <2>2. /\ \A j \in Ids : SidsOf(j, created[j]) \subseteq SidsOf(j, created'[j])
        /\ \A c \in containers' :
               c \in containers \/ (c.inst = boot.inst /\ c.sid \in SidsOf(boot.inst, created'[boot.inst]))
        /\ Succeeded(o) => NewSid(boot.inst) \in SidsOf(boot.inst, created'[boot.inst])
        /\ boot.inst \in Ids
    BY <1>1, <2>1, CreatedSids DEF Boot
  <2>3. proc' = "boot" => boot'.sid \in SidsOf(boot'.inst, created'[boot'.inst])
    <3>1. SUFFICES ASSUME proc' = "boot" PROVE boot'.sid \in SidsOf(boot'.inst, created'[boot'.inst])
      OBVIOUS
    <3>2. Succeeded(o) /\ boot' = [boot EXCEPT !.stage = "store", !.sid = NewSid(boot.inst)]
      BY <2>1, <3>1 DEF Exit
    <3>3. boot'.sid = NewSid(boot.inst) /\ boot'.inst = boot.inst
      BY <1>1, <3>2 DEF Boot
    <3> QED  BY <2>2, <3>2, <3>3
  <2>4. \A c \in containers' : c.sid \in SidsOf(c.inst, created'[c.inst])
    BY <1>1, <2>2 DEF SidsFit, DeployTypeOK, Container
  <2>5. \A i \in Ids : records'[i] # NoRecord => records'[i].sid \in SidsOf(i, created'[i])
    BY <2>1, <2>2 DEF SidsFit
  <2> QED  BY <1>2, <2>3, <2>4, <2>5 DEF SidsFit
<1>5. CASE StoreSid
  <2>1. /\ boot.inst \in Ids
        /\ records[boot.inst] \in Record
        /\ boot.sid \in SidsOf(boot.inst, created[boot.inst])
    BY <1>1, <1>5 DEF StoreSid, TypeInv, BootKnows, Boot, SidsFit
  <2>2. [records[boot.inst] EXCEPT !.sid = boot.sid].sid = boot.sid
    BY <2>1 DEF Record
  <2>3. \A i \in Ids : records'[i] # NoRecord => records'[i].sid \in SidsOf(i, created[i])
    BY <1>1, <1>5, <2>1, <2>2 DEF StoreSid, ReplaceOrInsert, SidsFit
  <2>4. proc' = "boot" => boot'.stage # "store"
    BY <1>1, <1>5 DEF StoreSid, Exit, Boot
  <2>5. UNCHANGED <<containers, created>>
    BY <1>5 DEF StoreSid, deployVars
  <2> QED  BY <1>2, <2>3, <2>4, <2>5 DEF SidsFit, SidsOf
<1> QED  BY <1>3, <1>4, <1>5 DEF Restore

\* Nothing stands in the way of what the restoration creates.
LEMMA RestoreFree ==
    ASSUME TypeInv, SidsFit, BootFree, Restore
    PROVE  BootFree' /\ (deployMode = "rancher2" => NeedsNoRestart)
<1> SUFFICES ASSUME deployMode = "rancher2" PROVE BootFree' /\ NeedsNoRestart
  <2>1. UNCHANGED deployMode
    BY DEF Restore, ListPage, Probe, ReadFails, Recreate, StoreSid, BootFrame
  <2> QED  BY <2>1 DEF BootFree
<1>1. proc = "boot" /\ boot \in Boot /\ BootKnows
  BY DEF TypeInv, TypeOK, StartupTypeOK, Restore, ListPage, Probe, ReadFails, Recreate, StoreSid
<1>2. CASE ListPage
  BY <1>1, <1>2 DEF ListPage, BootFree, NeedsNoRestart, FirstPage, Boot
<1>3. CASE Probe
  <2>1. CASE boot.todo = {}
    BY <1>1, <1>3, <2>1 DEF Probe, BootFree, NeedsNoRestart, Boot
  <2>2. CASE boot.todo # {}
    <3>1. PICK i \in boot.todo :
            IF ContainerExists(records[i].sid, records[i].restart)
            THEN boot' = [boot EXCEPT !.todo = boot.todo \ {i}]
            ELSE boot' = [boot EXCEPT !.stage = "create", !.todo = boot.todo \ {i}, !.inst = i]
      BY <1>3, <2>2 DEF Probe
    <3>2. records[i].sid[1] = i
      BY <1>1 DEF BootKnows, Boot, SidsFit, SidsOf
    <3>3. boot'.stage = "create" => boot'.inst = i /\ ~Rancher2Exists(i)
      BY <1>1, <1>3, <3>1, <3>2 DEF Probe, ContainerExists, Boot
    <3> QED  BY <1>1, <1>3, <3>3 DEF Probe, Rancher2Exists, BootFree, NeedsNoRestart, Named, deployVars
  <2> QED  BY <2>1, <2>2
<1>4. CASE ReadFails
  BY <1>4, SpentFault DEF ReadFails, Exit, Faulty, BootFree, NeedsNoRestart
<1>5. CASE Recreate
  <2>1. PICK o \in Outcomes :
            /\ Rancher2Create(boot.inst, records[boot.inst], o)
            /\ Spend(o)
            /\ IF Succeeded(o)
               THEN boot' = [boot EXCEPT !.stage = "store", !.sid = NewSid(boot.inst)] /\ UNCHANGED proc
               ELSE Exit
    BY <1>5 DEF Recreate, CreateContainer
  <2>2. Workload(boot.inst, records[boot.inst].restart) = {}
    BY <1>1, <1>5 DEF Recreate, BootFree, Workload
  <2>3. o \in {"ok", "fault"}
    BY <2>1, <2>2 DEF Rancher2Create
  <2>4. CASE o = "ok"
    BY <1>1, <2>1, <2>4 DEF Succeeded, Boot, BootFree, NeedsNoRestart
  <2>5. CASE o = "fault"
    BY <2>1, <2>5, SpentFault DEF Succeeded, Faulty, Exit, BootFree, NeedsNoRestart
  <2> QED  BY <2>3, <2>4, <2>5
<1>6. CASE StoreSid
  <2>1. PICK o \in {"ok", "fault"} :
            /\ Spend(o)
            /\ IF Succeeded(o)
               THEN boot' = [boot EXCEPT !.stage = "probe", !.sid = NoSid] /\ UNCHANGED proc
               ELSE Exit
    BY <1>6 DEF StoreSid, ReplaceOrInsert
  <2>2. CASE o = "ok"
    BY <1>1, <2>1, <2>2 DEF Succeeded, Boot, BootFree, NeedsNoRestart
  <2>3. CASE o = "fault"
    BY <2>1, <2>3, SpentFault DEF Succeeded, Faulty, Exit, BootFree, NeedsNoRestart
  <2> QED  BY <2>2, <2>3
<1> QED  BY <1>2, <1>3, <1>4, <1>5, <1>6 DEF Restore

\* The other steps: before the API is started they create nothing.
LEMMA OtherRestoration ==
    ASSUME TypeInv, SidsFit, BootFree,
           Start \/ Crash \/ ShareInstance \/ LoseContainer \/ UNCHANGED vars
    PROVE  SidsFit' /\ BootFree' /\ NeedsNoRestart
<1> USE DEF SidsFit, SidsOf, BootFree, NeedsNoRestart, HasRead
<1>1. CASE Start
  <2>1. boot = FirstPage /\ boot.stage = "list"
    BY <1>1 DEF Start, TypeInv, BootKnows, FirstPage
  <2> QED  BY <1>1, <2>1 DEF Start, storeVars, deployVars, handlerVars
<1>2. CASE Crash
  <2>1. \A r \in Reqs : pc'[r] \notin Sidded \cup HasRead /\ pc'[r] # "update"
    BY <1>2 DEF Crash, InFlight, Sidded, Steps, PostSteps, PutSteps, DeleteSteps
  <2>2. crashes' # crashes
    BY <1>2 DEF Crash, TypeInv, TypeOK, StartupTypeOK
  <2> QED  BY <1>2, <2>1, <2>2 DEF Crash, storeVars, deployVars
<1>3. CASE ShareInstance
  BY <1>3 DEF ShareInstance, Share, handlerVars, deployVars, Named
<1>4. CASE LoseContainer
  BY <1>4 DEF LoseContainer, Lose, handlerVars, storeVars, Named
<1>5. CASE UNCHANGED vars
  BY <1>5 DEF vars, controllerVars, handlerVars, storeVars, deployVars, Named
<1> QED  BY <1>1, <1>2, <1>3, <1>4, <1>5

LEMMA NextRestoration ==
    ASSUME RestorationInv, [Next]_vars
    PROVE  RestorationInv' /\ (deployMode = "rancher2" => NeedsNoRestart)
<1> USE DEF RestorationInv
<1>1. TypeInv'
  BY NextTypes
<1>2. CASE \E r \in Reqs : RequestStep(r)
  <2>1. PICK r \in Reqs : Request(r) \/ Handle(r)
    BY <1>2 DEF RequestStep
  <2>2. proc' = "serving"
    BY <2>1 DEF Request, Post, Put, Delete, Receive, Handle, PostTopic, PostCreate, PostInsert,
       PostGrant, PutFind, PutUpdate, PutRemove, PutRecreate, PutMayWrite, PutReplace, DeleteFind,
       DeleteUndeploy, DeleteUntopic, DeleteMayDelete, DeleteUngrant, DeleteDrop, Check,
       HandlerFrame, TypeInv, Locals, Local, Steps, PostSteps, PutSteps, DeleteSteps
  <2>3. SidsFit'
    BY <2>1, HandleSids, RequestSids
  <2> QED  BY <1>1, <2>2, <2>3 DEF BootFree, NeedsNoRestart
<1>3. CASE Restore
  BY <1>1, <1>3, RestoreSids, RestoreFree
<1>4. CASE Start \/ Crash \/ ShareInstance \/ LoseContainer \/ UNCHANGED vars
  BY <1>1, <1>4, OtherRestoration
<1> QED  BY <1>2, <1>3, <1>4 DEF Next

\* With rancher2, EnsureAllInstancesDeployed ends in a serving process unless one of its
\* own calls fails: it asks for either kind of workload before it creates one
\* (rancher2-api/api.go:203), and the autoscaler's name may be taken.
THEOREM Rancher2NeedsNoRestart == Spec => RestorationNeedsNoRestart
<1>1. Init => RestorationInv
  <2>1. Init => SidsFit /\ BootFree
    BY DEF Init, ControllerInit, StoreInit, DeployInit, StartupInit, SidsFit, BootFree, Sidded,
       HasRead, PutSteps, DeleteSteps
  <2> QED  BY <2>1, InitTypes DEF RestorationInv
<1>2. RestorationInv /\ [Next]_vars =>
        RestorationInv' /\ (deployMode = "rancher2" => NeedsNoRestart)
  BY NextRestoration
<1> QED  BY <1>1, <1>2, PTL DEF Spec, RestorationNeedsNoRestart

-----------------------------------------------------------------------------

(***************************************************************************)
(* The restoration reaches every listed instance, if no two have the same  *)
(* name: the pages continue one another, because nothing is added to the   *)
(* list and nothing taken from it before the API is started.               *)
(***************************************************************************)

\* The first documents by name are determined by their number.
LEMMA FirstByName ==
    ASSUME NamesDiffer, NEW V \in SUBSET Ids, NEW S \in SUBSET V, NEW T \in SUBSET V,
           Cardinality(S) = Cardinality(T),
           \A a \in S, b \in V \ S : NameOf[a] <= NameOf[b],
           \A a \in T, b \in V \ T : NameOf[a] <= NameOf[b]
    PROVE  S = T
<1>1. IsFiniteSet(S) /\ IsFiniteSet(T)
  BY IdsAssumption, FS_Subset
<1>2. S \subseteq T \/ T \subseteq S
  <2>1. SUFFICES ASSUME NEW a \in S \ T, NEW b \in T \ S PROVE FALSE
    OBVIOUS
  <2>2. NameOf[a] <= NameOf[b] /\ NameOf[b] <= NameOf[a] /\ NameOf[a] \in Nat /\ NameOf[b] \in Nat
    BY NameAssumption
  <2> QED  BY <2>2 DEF NamesDiffer
<1> QED  BY <1>1, <1>2, FS_Subset

\* A page follows on what the earlier pages had.
LEMMA PageFollows ==
    ASSUME NamesDiffer, NEW V \in SUBSET Ids, NEW offset \in Nat, NEW page \in Pages(V, offset),
           NEW D \in SUBSET V, Cardinality(D) = offset,
           \A a \in D, b \in V \ D : NameOf[a] <= NameOf[b]
    PROVE  /\ Cardinality(D \cup page) = offset + Cardinality(page)
           /\ \A a \in D \cup page, b \in V \ (D \cup page) : NameOf[a] <= NameOf[b]
<1>1. PICK skipped \in SUBSET (V \ page) :
        /\ Cardinality(skipped) = offset
        /\ \A a \in skipped, b \in V \ skipped : NameOf[a] <= NameOf[b]
        /\ \A a \in page, b \in V \ (skipped \cup page) : NameOf[a] <= NameOf[b]
  BY DEF Pages
<1>2. page \subseteq V
  BY DEF Pages
<1>3. D = skipped
  BY <1>1, FirstByName
<1>4. IsFiniteSet(D) /\ IsFiniteSet(page)
  BY <1>2, IdsAssumption, FS_Subset
<1>5. Cardinality(D \cup page) = Cardinality(D) + Cardinality(page)
  <2>1. D \cap page = {}
    BY <1>1, <1>3
  <2>2. Cardinality(D \cup page) = Cardinality(D) + Cardinality(page) - Cardinality(D \cap page)
    BY <1>4, FS_Union
  <2>3. Cardinality(D \cap page) = 0 /\ Cardinality(D) \in Nat /\ Cardinality(page) \in Nat
    BY <1>4, <2>1, FS_EmptySet, FS_CardinalityType
  <2> QED  BY <2>2, <2>3
<1> QED  BY <1>1, <1>3, <1>5

\* A container is there as long as its instance has lost none.
LEMMA ExistsStays ==
    ASSUME SidsFit, deployMode' = deployMode, NEW i, i \notin Gone, NEW sid, sid[1] = i,
           NEW restart, ContainerExists(sid, restart)
    PROVE  ContainerExists(sid, restart)'
<1>1. \A c \in containers : c.sid = sid => c.inst = i
  BY DEF SidsFit, SidsOf
<1>2. \A c \in containers : c.inst = i => c \in containers'
  BY DEF Gone
<1> QED  BY <1>1, <1>2 DEF ContainerExists, DockerExists, KubernetesExists, RancherExists,
     Rancher2Exists, OfKind, Named

\* What was created is there.
LEMMA CreatedExists ==
    ASSUME NEW i, NEW rec, CreateContainer(i, rec, "ok"), deployMode' = deployMode,
           NEW sid, sid = NewSid(i), NEW restart, restart = rec.restart
    PROVE  ContainerExists(sid, restart)'
<1>1. CASE deployMode = "docker" /\ DockerCreate(i, rec, "ok")
  <2>1. Unlabelled(i, rec) \in containers' /\ Unlabelled(i, rec).sid = DockerSid(i)
    BY <1>1 DEF DockerCreate, Unlabelled, ContainerOf
  <2> QED  BY <1>1, <2>1 DEF ContainerExists, DockerExists, NewSid
<1>2. CASE deployMode = "kubernetes" /\ KubernetesCreate(i, rec, "ok")
  <2> DEFINE new == ContainerOf(i, KubernetesSid(i), rec)
  <2>1. new \in containers' /\ new.inst = i /\ new.restart = restart /\ sid[1] = i
    BY <1>2 DEF KubernetesCreate, ContainerOf, NewSid, KubernetesSid
  <2> QED  BY <1>2, <2>1 DEF ContainerExists, KubernetesExists, OfKind, Named
<1>3. CASE deployMode = "rancher1" /\ RancherCreate(i, rec, "ok")
  <2>1. Service(i, rec, FALSE) \in containers' /\ Service(i, rec, FALSE).sid = RancherSid(i)
    BY <1>3 DEF RancherCreate, RancherPost, Service, ContainerOf
  <2> QED  BY <1>3, <2>1 DEF ContainerExists, RancherExists, NewSid
<1>4. CASE deployMode = "rancher2" /\ Rancher2Create(i, rec, "ok")
  <2> DEFINE new == ContainerOf(i, Rancher2Sid(i), rec)
  <2>1. new \in containers' /\ new.inst = i /\ sid[1] = i
    BY <1>4 DEF Rancher2Create, ContainerOf, NewSid, Rancher2Sid
  <2> QED  BY <1>4, <2>1 DEF ContainerExists, Rancher2Exists, Named
<1> QED  BY <1>1, <1>2, <1>3, <1>4 DEF CreateContainer

\* An instance whose document is changed only in the service id is deployed when the
\* container with that id is there.
LEMMA DeployedBy ==
    ASSUME NEW i, NEW sid, NEW restart, ContainerExists(sid, restart)',
           records'[i].sid = sid, records'[i].restart = restart
    PROVE  Deployed(i)'
  BY DEF Deployed, ContainerExists, DockerExists, KubernetesExists, RancherExists, Rancher2Exists,
     OfKind, Named

LEMMA DeployedStays ==
    ASSUME SidsFit, deployMode' = deployMode, NEW i \in Ids, i \notin Gone,
           records[i] # NoRecord, records'[i] = records[i], Deployed(i)
    PROVE  Deployed(i)'
<1>1. PICK sid, restart : sid = records[i].sid /\ restart = records[i].restart
  OBVIOUS
<1>2. sid[1] = i /\ ContainerExists(sid, restart)
  BY <1>1 DEF SidsFit, SidsOf, Deployed
<1>3. ContainerExists(sid, restart)'
  BY <1>2, ExistsStays
<1> QED  BY <1>1, <1>3, DeployedBy

\* The restoration goes on, and the list stays what it was.
LEMMA RestoreGoesOn ==
    ASSUME TypeInv, SidsFit, HistoryNext, Restore, proc' = "boot", Restoring
    PROVE  Restoring'
<1>1. /\ proc = "boot" /\ boot \in Boot /\ UNCHANGED <<deployMode, perms>> /\ BootKnows
      /\ records \in [Ids -> Record \cup {NoRecord}] /\ lost' = lost \cup Gone
      /\ AdminVisible \subseteq Ids /\ \A i \in AdminVisible : records[i] # NoRecord
  BY DEF TypeInv, TypeOK, StartupTypeOK, StoreTypeOK, HistoryNext, AdminVisible, Restore, ListPage,
     Probe, ReadFails, Recreate, StoreSid, BootFrame
<1>2. ASSUME NEW i \in AdminVisible \ lost', Deployed(i), records'[i] = records[i]
      PROVE  Deployed(i)'
  BY <1>1, <1>2, DeployedStays
<1>3. CASE ListPage
  <2>1. PICK page \in Pages(AdminVisible, boot.offset) :
            boot' = [boot EXCEPT !.stage = "probe", !.offset = boot.offset + Cardinality(page),
                                 !.todo = page]
    BY <1>1, <1>3 DEF ListPage
  <2>2. /\ boot'.stage = "probe" /\ boot'.offset = boot.offset + Cardinality(page)
        /\ boot'.todo = page /\ boot.offset \in Nat /\ boot.stage = "list" /\ boot.todo = {}
    BY <1>1, <1>3, <2>1 DEF ListPage, Boot, Restoring
  <2>3. UNCHANGED records /\ AdminVisible' = AdminVisible /\ page \subseteq AdminVisible
    BY <1>1, <1>3, <2>1 DEF ListPage, AdminVisible, Pages
  <2>4. ASSUME NamesDiffer PROVE (\E D \in SUBSET AdminVisible : DoneWith(D))'
    <3>1. PICK D \in SUBSET AdminVisible : DoneWith(D)
      BY <1>1, <2>4 DEF Restoring
    <3>2. /\ Cardinality(D \cup page) = boot'.offset
          /\ \A a \in D \cup page, b \in AdminVisible \ (D \cup page) : NameOf[a] <= NameOf[b]
      <4>1. /\ AdminVisible \in SUBSET Ids /\ boot.offset \in Nat
            /\ page \in Pages(AdminVisible, boot.offset) /\ Cardinality(D) = boot.offset
            /\ \A a \in D, b \in AdminVisible \ D : NameOf[a] <= NameOf[b]
        BY <1>1, <2>1, <2>2, <3>1 DEF DoneWith
      <4>2. /\ Cardinality(D \cup page) = boot.offset + Cardinality(page)
            /\ \A a \in D \cup page, b \in AdminVisible \ (D \cup page) : NameOf[a] <= NameOf[b]
        BY <2>4, <3>1, <4>1, PageFollows
      <4> QED  BY <2>2, <4>2
    <3>3. \A i \in (D \cup page) \ (boot'.todo \cup lost') : Deployed(i)'
      BY <1>1, <1>2, <2>2, <2>3, <3>1 DEF DoneWith
    <3>4. DoneWith(D \cup page)'
      BY <2>3, <3>2, <3>3 DEF DoneWith
    <3> QED  BY <2>3, <3>1, <3>4
  <2> QED  BY <2>2, <2>4 DEF Restoring, NamesDiffer
<1>4. CASE Probe
  <2>1. /\ boot.stage = "probe" /\ boot'.offset = boot.offset /\ boot'.todo \subseteq boot.todo
        /\ boot'.stage \in {"list", "probe", "create"}
        /\ boot'.stage = "list" => boot'.todo = {}
        /\ \A i \in boot.todo \ boot'.todo : Deployed(i) \/ (boot'.stage = "create" /\ i = boot'.inst)
    <3>1. CASE boot.todo = {}
      BY <1>1, <1>4, <3>1 DEF Probe, Boot
    <3>2. CASE boot.todo # {}
      <4>1. PICK i \in boot.todo :
              IF ContainerExists(records[i].sid, records[i].restart)
              THEN boot' = [boot EXCEPT !.todo = boot.todo \ {i}]
              ELSE boot' = [boot EXCEPT !.stage = "create", !.todo = boot.todo \ {i}, !.inst = i]
        BY <1>4, <3>2 DEF Probe
      <4>2. /\ boot'.offset = boot.offset /\ boot'.todo = boot.todo \ {i}
            /\ boot'.stage \in {"probe", "create"}
            /\ Deployed(i) \/ (boot'.stage = "create" /\ i = boot'.inst)
        BY <1>1, <1>4, <4>1 DEF Probe, Boot, Deployed
      <4> QED  BY <1>4, <4>2 DEF Probe
    <3> QED  BY <3>1, <3>2
  <2>2. UNCHANGED records /\ AdminVisible' = AdminVisible
    BY <1>1, <1>4 DEF Probe, AdminVisible
  <2>3. ASSUME NamesDiffer PROVE (\E D \in SUBSET AdminVisible : DoneWith(D))'
    <3>1. PICK D \in SUBSET AdminVisible : DoneWith(D)
      BY <1>1, <2>3 DEF Restoring
    <3>2. \A i \in D \ (boot'.todo \cup lost') :
              Deployed(i)' \/ (boot'.stage \in {"create", "store"} /\ i = boot'.inst)
      BY <1>1, <1>2, <2>1, <2>2, <3>1 DEF DoneWith
    <3>3. DoneWith(D)'
      BY <2>1, <2>2, <3>1, <3>2 DEF DoneWith
    <3> QED  BY <2>2, <3>1, <3>3
  <2> QED  BY <2>1, <2>3 DEF Restoring, NamesDiffer
<1>5. CASE Recreate
  <2>1. PICK o : CreateContainer(boot.inst, records[boot.inst], o) /\ Succeeded(o)
                 /\ boot' = [boot EXCEPT !.stage = "store", !.sid = NewSid(boot.inst)]
    BY <1>1, <1>5 DEF Recreate, Exit
  <2>2. /\ boot.stage = "create" /\ boot'.stage = "store" /\ boot'.offset = boot.offset
        /\ boot'.todo = boot.todo /\ boot'.inst = boot.inst /\ boot'.sid = NewSid(boot.inst)
    BY <1>1, <1>5, <2>1 DEF Recreate, Boot
  <2>3. UNCHANGED records /\ AdminVisible' = AdminVisible
    BY <1>1, <1>5 DEF Recreate, AdminVisible
  <2>4. ContainerExists(boot.sid, records[boot.inst].restart)'
    <3>1. o = "ok"
      BY <2>1 DEF Succeeded, CreateContainer, DockerCreate, KubernetesCreate, RancherCreate,
         RancherPost, Rancher2Create
    <3>2. PICK i, sid, restart : /\ i = boot.inst /\ sid = NewSid(boot.inst)
                                 /\ restart = records[boot.inst].restart
      OBVIOUS
    <3>3. ContainerExists(sid, restart)'
      BY <1>1, <2>1, <3>1, <3>2, CreatedExists
    <3> QED  BY <2>2, <2>3, <3>2, <3>3 DEF ContainerExists, DockerExists, KubernetesExists,
         RancherExists, Rancher2Exists, OfKind, Named
  <2>5. ASSUME NamesDiffer PROVE (\E D \in SUBSET AdminVisible : DoneWith(D))'
    <3>1. PICK D \in SUBSET AdminVisible : DoneWith(D)
      BY <1>1, <2>5 DEF Restoring
    <3>2. \A i \in D \ (boot'.todo \cup lost') :
              Deployed(i)' \/ (boot'.stage \in {"create", "store"} /\ i = boot'.inst)
      BY <1>1, <1>2, <2>2, <2>3, <3>1 DEF DoneWith
    <3>3. DoneWith(D)'
      BY <2>2, <2>3, <3>1, <3>2 DEF DoneWith
    <3> QED  BY <2>3, <3>1, <3>3
  <2> QED  BY <2>2, <2>4, <2>5 DEF Restoring, NamesDiffer
<1>6. CASE StoreSid
  <2>1. PICK o : /\ ReplaceOrInsert(boot.inst, [records[boot.inst] EXCEPT !.sid = boot.sid], o)
                 /\ Succeeded(o) /\ boot' = [boot EXCEPT !.stage = "probe", !.sid = NoSid]
    BY <1>1, <1>6 DEF StoreSid, Exit
  <2>2. /\ boot.stage = "store" /\ boot'.stage = "probe" /\ boot'.offset = boot.offset
        /\ boot'.todo = boot.todo /\ boot.inst \in Ids /\ records[boot.inst] \in Record
        /\ boot.sid \in ServiceIds \cup {NoSid}
    BY <1>1, <1>6, <2>1 DEF StoreSid, Boot, BootKnows
  <2>3. records' = [records EXCEPT ![boot.inst] = [records[boot.inst] EXCEPT !.sid = boot.sid]]
    BY <2>1 DEF ReplaceOrInsert, Succeeded
  <2>4. /\ \A j \in Ids \ {boot.inst} : records'[j] = records[j]
        /\ records'[boot.inst] \in Record /\ records'[boot.inst].sid = boot.sid
        /\ records'[boot.inst].restart = records[boot.inst].restart
    BY <1>1, <2>2, <2>3 DEF Record
  <2>5. AdminVisible' = AdminVisible
    BY <1>1, <2>2, <2>4, NoRecordAssumption DEF AdminVisible
  <2>6. \A i : i = boot.inst => Deployed(i)' \/ i \in lost
    <3>1. SUFFICES ASSUME NEW i, i = boot.inst, i \notin lost PROVE Deployed(i)'
      OBVIOUS
    <3>2. PICK sid, restart : sid = boot.sid /\ restart = records[i].restart
      OBVIOUS
    <3>3. ContainerExists(sid, restart) /\ UNCHANGED <<deployVars, deployMode>>
      BY <1>1, <1>6, <2>2, <3>1, <3>2 DEF Restoring, StoreSid
    <3>4. ContainerExists(sid, restart)'
      BY <3>3 DEF ContainerExists, DockerExists, KubernetesExists, RancherExists, Rancher2Exists,
         OfKind, Named, deployVars
    <3> QED  BY <2>4, <3>1, <3>2, <3>4, DeployedBy
  <2>7. ASSUME NamesDiffer PROVE (\E D \in SUBSET AdminVisible : DoneWith(D))'
    <3>1. PICK D \in SUBSET AdminVisible : DoneWith(D)
      BY <1>1, <2>7 DEF Restoring
    <3>2. \A i \in D \ (boot'.todo \cup lost') : Deployed(i)'
      BY <1>1, <1>2, <2>2, <2>4, <2>6, <3>1 DEF DoneWith
    <3>3. DoneWith(D)'
      BY <2>2, <2>5, <3>1, <3>2 DEF DoneWith
    <3> QED  BY <2>5, <3>1, <3>3
  <2> QED  BY <2>2, <2>7 DEF Restoring, NamesDiffer
<1>7. ~ReadFails
  BY <1>1 DEF ReadFails, Exit
<1> QED  BY <1>3, <1>4, <1>5, <1>6, <1>7 DEF Restore

LEMMA NextRestoring ==
    ASSUME RestorationInv, Restoring, [HistoryNext]_historyVars
    PROVE  Restoring'
<1> USE DEF RestorationInv
<1> SUFFICES ASSUME proc' = "boot" PROVE Restoring'
  BY DEF Restoring
<1>1. /\ TypeInv /\ SidsFit /\ BootKnows /\ records \in [Ids -> Record \cup {NoRecord}]
      /\ perms \in [Ids -> Permissions \cup {NoPerms}]
  BY DEF TypeInv, TypeOK, StoreTypeOK
<1>2. CASE HistoryNext /\ Restore
  BY <1>1, <1>2, RestoreGoesOn
<1>3. CASE HistoryNext /\ (\E r \in Reqs : RequestStep(r))
  <2>1. PICK r \in Reqs : Request(r) \/ Handle(r)
    BY <1>3 DEF RequestStep
  <2>2. proc' = "serving"
    BY <2>1 DEF Request, Post, Put, Delete, Receive, Handle, PostTopic, PostCreate, PostInsert,
       PostGrant, PutFind, PutUpdate, PutRemove, PutRecreate, PutMayWrite, PutReplace, DeleteFind,
       DeleteUndeploy, DeleteUntopic, DeleteMayDelete, DeleteUngrant, DeleteDrop, Check,
       HandlerFrame, TypeInv, Locals, Local, Steps, PostSteps, PutSteps, DeleteSteps
  <2> QED  BY <2>2
<1>4. CASE HistoryNext /\ Start
  <2>1. boot' = FirstPage /\ FirstPage.stage = "list" /\ FirstPage.todo = {} /\ FirstPage.offset = 0
    BY <1>1, <1>4 DEF Start, BootKnows, FirstPage
  <2>2. DoneWith({})'
    BY <2>1, FS_EmptySet DEF DoneWith
  <2> QED  BY <2>1, <2>2 DEF Restoring
<1>5. CASE \/ HistoryNext /\ (ShareInstance \/ LoseContainer)
           \/ UNCHANGED historyVars
  <2>1. /\ UNCHANGED <<proc, boot, records, deployMode>>
        /\ lost' = lost \/ lost' = lost \cup Gone
    BY <1>5 DEF HistoryNext, ShareInstance, Share, LoseContainer, historyVars, vars, controllerVars,
       storeVars, Start
  <2>2. \A i \in Ids : perms'[i] = NoPerms <=> perms[i] = NoPerms
    BY <1>1, <1>5, ShareType, ShareAssumption DEF ShareInstance, LoseContainer, historyVars, vars,
       controllerVars, storeVars, TypeInv, TypeOK
  <2>3. AdminVisible' = AdminVisible
    BY <2>1, <2>2 DEF AdminVisible
  <2>4. Gone \subseteq lost'
    BY <1>5 DEF HistoryNext, ShareInstance, LoseContainer, Gone, historyVars, vars, controllerVars,
       deployVars, Start
  <2>5. boot.stage = "store" => boot.inst \in lost' \/ ContainerExists(boot.sid, records[boot.inst].restart)'
    <3>1. SUFFICES ASSUME boot.stage = "store", boot.inst \notin lost'
                   PROVE  ContainerExists(boot.sid, records[boot.inst].restart)'
      OBVIOUS
    <3>2. PICK i, sid, restart : /\ i = boot.inst /\ sid = boot.sid
                                 /\ restart = records[boot.inst].restart
      OBVIOUS
    <3>3. sid[1] = i /\ ContainerExists(sid, restart) /\ i \notin Gone
      BY <1>1, <2>1, <2>4, <3>1, <3>2 DEF Restoring, SidsFit, SidsOf
    <3>4. ContainerExists(sid, restart)'
      BY <1>1, <2>1, <3>3, ExistsStays
    <3> QED  BY <2>1, <3>2, <3>4 DEF ContainerExists, DockerExists, KubernetesExists,
         RancherExists, Rancher2Exists, OfKind, Named
  <2>6. ASSUME NamesDiffer PROVE (\E D \in SUBSET AdminVisible : DoneWith(D))'
    <3>1. PICK D \in SUBSET AdminVisible : DoneWith(D)
      BY <2>1, <2>6 DEF Restoring
    <3>2. \A i \in D \ (boot'.todo \cup lost') :
              Deployed(i)' \/ (boot'.stage \in {"create", "store"} /\ i = boot'.inst)
      BY <1>1, <2>1, <2>4, <3>1, DeployedStays DEF DoneWith, AdminVisible
    <3>3. DoneWith(D)'
      BY <2>1, <2>3, <3>1, <3>2 DEF DoneWith
    <3> QED  BY <2>3, <3>1, <3>3
  <2> QED  BY <2>1, <2>5, <2>6 DEF Restoring, NamesDiffer
<1>6. CASE HistoryNext /\ Crash
  BY <1>6 DEF Crash
<1> QED  BY <1>2, <1>3, <1>4, <1>5, <1>6 DEF HistoryNext, Next

\* The last page ends where the list does.
LEMMA RestorationEnds ==
    ASSUME RestorationInv, Restoring, NamesDiffer, [HistoryNext]_historyVars
    PROVE  RestoredAll
<1> SUFFICES ASSUME proc = "boot", proc' = "serving" PROVE \A i \in AdminVisible \ lost : Deployed(i)
  BY DEF RestoredAll
<1>1. boot \in Boot
  BY DEF RestorationInv, TypeInv, TypeOK, StartupTypeOK
<1>2. ListPage /\ boot.offset >= Cardinality(AdminVisible)
  <2>1. Restore
    BY DEF HistoryNext, Next, historyVars, vars, controllerVars, Start, Crash, RequestStep, Request,
       Post, Put, Delete, Receive, Handle, PostTopic, PostCreate, PostInsert, PostGrant, PutFind,
       PutUpdate, PutRemove, PutRecreate, PutMayWrite, PutReplace, DeleteFind, DeleteUndeploy,
       DeleteUntopic, DeleteMayDelete, DeleteUngrant, DeleteDrop, Check, HandlerFrame,
       ShareInstance, LoseContainer
  <2> QED  BY <2>1 DEF Restore, ListPage, Probe, ReadFails, Recreate, StoreSid, Exit
<1>3. PICK D \in SUBSET AdminVisible : DoneWith(D)
  BY DEF Restoring
<1>4. D = AdminVisible
  <2>1. IsFiniteSet(AdminVisible)
    BY IdsAssumption, FS_Subset DEF AdminVisible
  <2>2. Cardinality(D) <= Cardinality(AdminVisible) /\ Cardinality(D) >= Cardinality(AdminVisible)
    BY <1>2, <1>3, <2>1, FS_Subset DEF DoneWith
  <2>3. Cardinality(D) \in Nat /\ Cardinality(AdminVisible) \in Nat
    BY <2>1, FS_Subset, FS_CardinalityType
  <2>4. Cardinality(D) = Cardinality(AdminVisible)
    BY <2>2, <2>3
  <2> QED  BY <2>1, <2>4, FS_Subset
<1>5. boot.stage = "list" /\ boot.todo = {}
  BY <1>2 DEF ListPage, Restoring
<1> QED  BY <1>3, <1>4, <1>5 DEF DoneWith

LEMMA InitRestoration == HistoryInit => RestorationInv /\ Restoring
  BY InitTypes DEF HistoryInit, Init, ControllerInit, StoreInit, DeployInit, StartupInit, SidsFit,
     BootFree, Sidded, HasRead, PutSteps, DeleteSteps, RestorationInv, Restoring

LEMMA RestorationHistory == HistorySpec => [](RestorationInv /\ Restoring)
<1>1. RestorationInv /\ Restoring /\ [HistoryNext]_historyVars => (RestorationInv /\ Restoring)'
  <2>1. [HistoryNext]_historyVars => [Next]_vars
    BY DEF HistoryNext, historyVars
  <2> QED  BY <2>1, NextRestoration, NextRestoring
<1> QED  BY <1>1, InitRestoration, PTL DEF HistorySpec

\* README.md, STARTUP_ENSURE_DEPLOYED: with every backend and page size, when
\* EnsureAllInstancesDeployed ends in a serving process every listed instance has its
\* container or has lost it meanwhile, if no two instances have the same name.  (The run
\* tied_names shows that it fails when two have.)
THEOREM StartupRestoresMissing ==
    ASSUME NamesDiffer
    PROVE  HistorySpec => StartupRestores
<1>1. RestorationInv /\ Restoring /\ [HistoryNext]_historyVars => [RestoredAll]_historyVars
  BY RestorationEnds
<1> QED  BY <1>1, RestorationHistory, PTL DEF HistorySpec, StartupRestores
=============================================================================
