----------------------------- MODULE StoresProofs -----------------------------
(***************************************************************************)
(* AllOrNothing and OverlapsSerialized are invariants, and a topic goes    *)
(* last (TopicGoesLast), for all values of the constants.                  *)
(* Each handler is the only one that changes the stores of                 *)
(* its instance from the call that ends its right to give up without trace *)
(* to its answer: a POST because nobody else knows the id, a PUT or DELETE *)
(* because the container its document named is gone, or because no other   *)
(* request is being handled.                                               *)
(***************************************************************************)
EXTENDS HistoryInvariant, RestorationProofs

\* What the stores have of an instance stays, but for who has which rights.
Same(i) ==
    /\ records'[i] = records[i]
    /\ perms'[i] = NoPerms <=> perms[i] = NoPerms
    /\ Named(i)' = Named(i)
    /\ i \in autoscalers' <=> i \in autoscalers
    /\ i \in topics' <=> i \in topics
    /\ deployMode' = deployMode

\* All handlers but that of r stay where they are.
OnlyMoves(r) ==
    \A s \in Reqs \ {r} : /\ pc'[s] = pc[s] /\ target'[s] = target[s]
                          /\ instance'[s] = instance[s] /\ existing'[s] = existing[s]

-----------------------------------------------------------------------------

(***************************************************************************)
(* Steps, as Sound sees them                                               *)
(***************************************************************************)

\* What the stores have decides whether they agree.
LEMMA SameAgreed ==
    ASSUME NEW i, Same(i)
    PROVE  /\ Agreed(i)' <=> Agreed(i)
           /\ Complete(i)' <=> Complete(i)
           /\ Undeployed(i)' <=> Undeployed(i)
           /\ HasTopic(i)' <=> HasTopic(i)
           /\ \A rec : Running(i, rec)' <=> Running(i, rec)
<1>1. \A rec : Running(i, rec)' <=> Running(i, rec)
  BY DEF Same, Running, Named, Matches
<1>2. Undeployed(i)' <=> Undeployed(i)
  BY DEF Same, Undeployed
<1>3. HasTopic(i)' <=> HasTopic(i)
  BY DEF Same, HasTopic
<1>4. Complete(i)' <=> Complete(i)
  BY <1>3 DEF Same, Complete, Running, Named, Matches
<1>5. Agreed(i)' <=> Agreed(i)
  BY <1>2, <1>4 DEF Same, Agreed, Absent
<1> QED  BY <1>1, <1>2, <1>3, <1>4, <1>5

\* A handler that stays where it is finds what it has left there.
LEMMA SameAmid ==
    ASSUME NEW i, Same(i), NEW r, target[r] = i, target'[r] = i, Amid(r),
           pc'[r] = pc[r], instance'[r] = instance[r]
    PROVE  Amid(r)'
<1>1. Running(i, instance[r]) => Running(i, instance[r])'
  BY DEF Same, Running, Named, Matches
<1> QED  BY <1>1, SameAgreed DEF Amid, Same

\* A step that changes nothing of the instance, by a handler that does not hold it.
LEMMA KeepSound ==
    ASSUME NEW i, Sound(i), Same(i), NEW r, OnlyMoves(r),
           target[r] = i => pc[r] \notin Halfway,
           target'[r] = i => pc'[r] \notin Halfway,
           target'[r] = i /\ pc'[r] \in {"remove", "undeploy"} =>
                existing'[r] = records[i] \/ (existing'[r] = existing[r] /\ r \in Removers(i)),
           deployMode \notin EngineIssued /\ target'[r] = i
                /\ pc'[r] \in {"find", "update", "remove", "undeploy"} => perms[i] # NoPerms
    PROVE  Sound(i)'
<1>1. Holders(i)' = Holders(i)
  BY DEF Holders, OnlyMoves
<1>2. ASSUME NEW s \in Holders(i)' PROVE (Holders(i) = {s} /\ Amid(s) /\ Unknown(s))'
  <2>1. s \in Reqs \ {r} /\ Holders(i) = {s} /\ Amid(s) /\ Unknown(s) /\ target[s] = i
    BY <1>1, <1>2 DEF Sound, Holders
  <2>2. Amid(s)'
    BY <2>1, SameAmid DEF OnlyMoves
  <2>3. Unknown(s)'
    BY <2>1 DEF Unknown, Removers, Same, OnlyMoves
  <2> QED  BY <1>1, <2>1, <2>2, <2>3
<1>3. (Holders(i) = {} => Agreed(i))'
  BY <1>1, SameAgreed DEF Sound
<1>4. (deployMode \notin EngineIssued =>
          \A s \in Reqs : target[s] = i /\ pc[s] \in {"find", "update", "remove", "undeploy"} =>
              perms[i] # NoPerms)'
  BY DEF Sound, Same, OnlyMoves
<1> QED  BY <1>2, <1>3, <1>4 DEF Sound

\* Nobody else holds the instance, nor is about to with ids that are names.
Alone(r, i) ==
    \A s \in Reqs \ {r} :
        target[s] = i => /\ pc[s] \notin Halfway
                         /\ deployMode \notin EngineIssued => ~InFlight(s)

\* The handler begins or goes on to change the instance.
LEMMA HoldSound ==
    ASSUME NEW i, NEW r \in Reqs, OnlyMoves(r), Alone(r, i), deployMode' = deployMode,
           target'[r] = i, pc'[r] \in Halfway, Amid(r)', Unknown(r)'
    PROVE  Sound(i)'
<1>1. Holders(i)' = {r}
  BY DEF Holders, OnlyMoves, Alone
<1>2. pc'[r] \notin {"find", "update", "remove", "undeploy"}
  BY DEF Halfway, PostSteps, DeleteSteps
<1>3. \A s \in Reqs : deployMode \notin EngineIssued /\ target'[s] = i =>
            pc'[s] \notin {"find", "update", "remove", "undeploy"}
  BY <1>2 DEF OnlyMoves, Alone, InFlight, Steps, PutSteps, DeleteSteps
<1> QED  BY <1>1, <1>3 DEF Sound

\* The handler answers.
LEMMA FreeSound ==
    ASSUME NEW i, NEW r \in Reqs, OnlyMoves(r), Alone(r, i), deployMode' = deployMode,
           pc'[r] = "ok", Agreed(i)'
    PROVE  Sound(i)'
<1>1. Holders(i)' = {}
  BY DEF Holders, OnlyMoves, Alone, Halfway, PostSteps, DeleteSteps
<1>2. \A s \in Reqs : deployMode \notin EngineIssued /\ target'[s] = i =>
            pc'[s] \notin {"find", "update", "remove", "undeploy"}
  BY DEF OnlyMoves, Alone, InFlight, Steps, PutSteps, DeleteSteps
<1> QED  BY <1>1, <1>2 DEF Sound

-----------------------------------------------------------------------------

(***************************************************************************)
(* What a call to the backend does to the instance and to others           *)
(***************************************************************************)

\* What is created for one instance is not another's.
LEMMA CreatedElsewhere ==
    ASSUME NEW i, NEW rec, NEW o, NEW j, j # i,
           CreateContainer(i, rec, o) \/ RecreateContainer(i, rec, o) \/ KubernetesUpdate(i, rec, o)
    PROVE  Named(j)' = Named(j) /\ (j \in autoscalers' <=> j \in autoscalers)
<1> USE DEF ContainerOf, Named
<1>1. CASE DockerCreate(i, rec, o)
  BY <1>1 DEF DockerCreate, Unlabelled
<1>2. CASE KubernetesCreate(i, rec, o)
  BY <1>2 DEF KubernetesCreate
<1>3. CASE RancherCreate(i, rec, o) \/ RancherRecreate(i, rec, o)
  BY <1>3 DEF RancherCreate, RancherRecreate, RancherPost, Service
<1>4. CASE Rancher2Create(i, rec, o)
  BY <1>4 DEF Rancher2Create
<1>5. CASE KubernetesUpdate(i, rec, o)
  BY <1>5 DEF KubernetesUpdate, OfKind
<1> QED  BY <1>1, <1>2, <1>3, <1>4, <1>5 DEF CreateContainer, RecreateContainer

\* What is removed has the id of the instance.
LEMMA RemovedElsewhere ==
    ASSUME SidsFit, NEW i, NEW sid, sid[1] = i, NEW o, RemoveContainer(sid, o), NEW j, j # i
    PROVE  Named(j)' = Named(j) /\ (j \in autoscalers' <=> j \in autoscalers)
<1>1. \A c \in containers : c.sid = sid => c.inst = i
  BY DEF SidsFit, SidsOf
<1>2. CASE DockerRemove(sid, o) \/ RancherRemove(sid, o)
  BY <1>1, <1>2 DEF DockerRemove, RancherRemove, Named
<1>3. CASE KubernetesRemove(sid[1], o)
  BY <1>3 DEF KubernetesRemove, Named
<1>4. CASE Rancher2Remove(sid[1], o)
  BY <1>4 DEF Rancher2Remove, Deletable, Workload, Named
<1> QED  BY <1>2, <1>3, <1>4 DEF RemoveContainer

\* A creation that succeeds where nothing is leaves the one container asked for.
LEMMA CreatedRuns ==
    ASSUME deployMode \in Backends, NEW i, NEW rec, Undeployed(i),
           CreateContainer(i, rec, "ok") \/ RecreateContainer(i, rec, "ok")
    PROVE  /\ \E c \in containers' : /\ Named(i)' = {c} /\ c.sid = NewSid(i)
                                     /\ c.restart = rec.restart /\ c.conf = rec.conf
           /\ i \in autoscalers' \/ deployMode \notin Autoscaling
<1> USE DEF ContainerOf, Named, Undeployed, Autoscaling, NewSid
<1>1. CASE deployMode = "docker" /\ DockerCreate(i, rec, "ok")
  <2> DEFINE new == Unlabelled(i, rec)
  <2>1. containers' = containers \cup {new}
    BY <1>1 DEF DockerCreate
  <2>2. new.inst = i /\ new.sid = NewSid(i) /\ new.restart = rec.restart /\ new.conf = rec.conf
    BY <1>1 DEF Unlabelled
  <2> QED  BY <1>1, <2>1, <2>2
<1>2. CASE deployMode = "kubernetes" /\ KubernetesCreate(i, rec, "ok")
  <2> DEFINE new == ContainerOf(i, KubernetesSid(i), rec)
  <2>1. containers' = containers \cup {new} /\ i \in autoscalers'
    BY <1>2 DEF KubernetesCreate
  <2>2. new.inst = i /\ new.sid = NewSid(i) /\ new.restart = rec.restart /\ new.conf = rec.conf
    BY <1>2
  <2> QED  BY <2>1, <2>2
<1>3. CASE deployMode = "rancher1" /\ (RancherCreate(i, rec, "ok") \/ RancherRecreate(i, rec, "ok"))
  <2>1. PICK suffix \in BOOLEAN : RancherPost(i, rec, suffix, "ok")
    BY <1>3 DEF RancherCreate, RancherRecreate
  <2> DEFINE new == Service(i, rec, suffix)
  <2>2. containers' = containers \cup {new}
    BY <2>1 DEF RancherPost
  <2>3. new.inst = i /\ new.sid = NewSid(i) /\ new.restart = rec.restart /\ new.conf = rec.conf
    BY <1>3 DEF Service
  <2> QED  BY <1>3, <2>2, <2>3
<1>4. CASE deployMode = "rancher2" /\ Rancher2Create(i, rec, "ok")
  <2> DEFINE new == ContainerOf(i, Rancher2Sid(i), rec)
  <2>1. containers' = containers \cup {new} /\ i \in autoscalers'
    BY <1>4 DEF Rancher2Create
  <2>2. new.inst = i /\ new.sid = NewSid(i) /\ new.restart = rec.restart /\ new.conf = rec.conf
    BY <1>4
  <2> QED  BY <2>1, <2>2
<1> QED  BY <1>1, <1>2, <1>3, <1>4 DEF CreateContainer, RecreateContainer

\* An update in place that succeeds replaces the one container there is.
LEMMA UpdatedRuns ==
    ASSUME deployMode = "kubernetes", NEW i, NEW old, Running(i, old),
           NEW rec, KubernetesUpdate(i, rec, "ok")
    PROVE  /\ \E c \in containers' : /\ Named(i)' = {c} /\ c.sid = NewSid(i)
                                     /\ c.restart = rec.restart /\ c.conf = rec.conf
           /\ i \in autoscalers' \/ deployMode \notin Autoscaling
<1> DEFINE new == ContainerOf(i, KubernetesSid(i), rec)
<1>1. PICK c \in containers : Named(i) = {c}
  BY DEF Running
<1>2. OfKind(i, TRUE) = {c} /\ containers' = (containers \ {c}) \cup {new}
  BY <1>1 DEF KubernetesUpdate, OfKind
<1>3. new.inst = i /\ new.sid = NewSid(i) /\ new.restart = rec.restart /\ new.conf = rec.conf
  BY DEF ContainerOf, NewSid
<1>4. Named(i)' = {new}
  BY <1>1, <1>2, <1>3 DEF Named
<1>5. i \in autoscalers' \/ deployMode \notin Autoscaling
  BY DEF KubernetesUpdate, Running
<1> QED  BY <1>2, <1>3, <1>4, <1>5

\* A removal that succeeds leaves nothing of the instance.
LEMMA RemovedAll ==
    ASSUME SidsFit, Settings, NEW i, NEW sid, sid[1] = i, NEW rec, Running(i, rec),
           RemoveContainer(sid, "ok")
    PROVE  Undeployed(i)'
<1>1. PICK c \in containers : Named(i) = {c}
  BY DEF Running
<1>2. \A d \in containers : d.sid = sid => d.inst = i
  BY DEF SidsFit, SidsOf
<1>3. CASE deployMode \in {"docker", "rancher1"} /\ (DockerRemove(sid, "ok") \/ RancherRemove(sid, "ok"))
  <2>1. PICK d \in containers : d.sid = sid
    BY <1>3 DEF DockerRemove, RancherRemove
  <2>2. d = c
    BY <1>1, <1>2, <2>1 DEF Named
  <2>3. c \notin containers' /\ containers' \subseteq containers /\ autoscalers' = autoscalers
    BY <1>3, <2>1, <2>2 DEF DockerRemove, RancherRemove
  <2>4. autoscalers = {}
    BY <1>3 DEF Settings, Autoscaling
  <2> QED  BY <1>1, <2>3, <2>4 DEF Undeployed, Named
<1>4. CASE KubernetesRemove(sid[1], "ok")
  BY <1>4 DEF KubernetesRemove, Undeployed, Named
<1>5. CASE Rancher2Remove(sid[1], "ok")
  <2>1. Deletable(i) = {c}
    BY <1>1 DEF Deletable, Workload
  <2> QED  BY <1>1, <1>5, <2>1 DEF Rancher2Remove, Undeployed, Named
<1> QED  BY <1>3, <1>4, <1>5 DEF RemoveContainer

\* An engine removes only what it knows.
LEMMA RemovedKnown ==
    ASSUME SidsFit, deployMode \in EngineIssued, NEW i, NEW sid, sid[1] = i,
           RemoveContainer(sid, "ok")
    PROVE  \E c \in Named(i) : c.sid = sid
<1>1. PICK c \in containers : c.sid = sid
  BY DEF RemoveContainer, EngineIssued, DockerRemove, RancherRemove
<1>2. c.inst = i
  BY <1>1 DEF SidsFit, SidsOf
<1> QED  BY <1>1, <1>2 DEF Named

-----------------------------------------------------------------------------

(***************************************************************************)
(* The steps of a handler                                                  *)
(***************************************************************************)

\* A handler moves alone, and keeps its request.
LEMMA HandleMoves ==
    ASSUME TypeInv, NEW r \in Reqs, Handle(r)
    PROVE  /\ OnlyMoves(r) /\ target' = target /\ deployMode' = deployMode
           /\ pc[r] \in Steps /\ pc'[r] # pc[r] /\ pc'[r] \in Steps \cup Answers
<1> USE DEF Steps, PostSteps, PutSteps, DeleteSteps, Answers
<1>1. /\ pc \in [Reqs -> {"idle", "killed"} \cup Answers \cup Steps]
      /\ instance \in [Reqs -> Record \cup {NoRecord}] /\ existing \in [Reqs -> Record \cup {NoRecord}]
  BY DEF TypeInv, TypeOK, ControllerTypeOK
<1>2. HandlerFrame /\ pc[r] \in Steps
  BY DEF Handle, PostTopic, PostCreate, PostInsert, PostGrant, PutFind, PutUpdate, PutRemove,
     PutRecreate, PutMayWrite, PutReplace, DeleteFind, DeleteUndeploy, DeleteUntopic,
     DeleteMayDelete, DeleteUngrant, DeleteDrop, Check
<1>3. ASSUME NEW o, NEW label \in (Steps \cup Answers) \ {pc[r]},
             Proceed(r, o, label) \/ \E sid : ProceedWithSid(r, o, sid, label)
      PROVE  /\ OnlyMoves(r) /\ pc'[r] # pc[r] /\ pc'[r] \in Steps \cup Answers
  BY <1>1, <1>2, <1>3 DEF HandlerFrame, Proceed, ProceedWithSid, Return, Goto, OnlyMoves
<1>4. CASE PutFind(r) \/ DeleteFind(r)
  <2>1. CASE Return(r, "failed")
    BY <1>1, <1>2, <1>4, <2>1 DEF HandlerFrame, PutFind, DeleteFind, Return, Goto, OnlyMoves
  <2>2. CASE ~Return(r, "failed")
    BY <1>1, <1>2, <1>4, <2>2 DEF HandlerFrame, PutFind, DeleteFind, TurnDown, Goto, OnlyMoves
  <2> QED  BY <1>2, <2>1, <2>2 DEF HandlerFrame
<1>5. CASE ~(PutFind(r) \/ DeleteFind(r))
  <2>1. CASE PostCreate(r) \/ PutUpdate(r) \/ PutRecreate(r)
    <3>1. PICK o \in Outcomes, label \in {"insert", "mayWrite"} :
            ProceedWithSid(r, o, NewSid(target[r]), label) /\ pc[r] # label
      BY <2>1 DEF PostCreate, PutUpdate, PutRecreate
    <3>2. label \in (Steps \cup Answers) \ {pc[r]}
      BY <3>1
    <3>3. OnlyMoves(r) /\ pc'[r] # pc[r] /\ pc'[r] \in Steps \cup Answers
      BY <1>3, <3>1, <3>2
    <3> QED  BY <1>2, <3>3 DEF HandlerFrame
  <2>2. CASE ~(PostCreate(r) \/ PutUpdate(r) \/ PutRecreate(r))
    <3>1. PICK label \in {"create", "grant", "ok", "recreate", "replace", "untopic", "mayDelete",
                          "ungrant", "drop"},
               o \in Outcomes : Proceed(r, o, label) /\ pc[r] # label
      BY <1>5, <2>2 DEF Handle, PostTopic, PostInsert, PostGrant, PutRemove, PutMayWrite, PutReplace,
         DeleteUndeploy, DeleteUntopic, DeleteMayDelete, DeleteUngrant, DeleteDrop, Check, Outcomes
    <3>2. label \in (Steps \cup Answers) \ {pc[r]}
      BY <3>1
    <3>3. OnlyMoves(r) /\ pc'[r] # pc[r] /\ pc'[r] \in Steps \cup Answers
      BY <1>3, <3>1, <3>2
    <3> QED  BY <1>2, <3>3 DEF HandlerFrame
  <2> QED  BY <2>1, <2>2
<1> QED  BY <1>4, <1>5

\* A handler changes nothing of another instance, whatever the outcome of its calls.
LEMMA HandleElsewhere ==
    ASSUME TypeInv, SidsFit, NEW r \in Reqs, Handle(r), NEW i, target[r] = i, NEW j \in Ids, j # i
    PROVE  Same(j)
<1>1. /\ records \in [Ids -> Record \cup {NoRecord}] /\ perms \in [Ids -> Permissions \cup {NoPerms}]
      /\ deployMode' = deployMode
  BY HandleMoves DEF TypeInv, TypeOK, StoreTypeOK
<1>2. UNCHANGED topics \/ \E o : CreateTopic(i, o) \/ DeleteTopic(i, o)
  BY DEF Handle, PostTopic, PostCreate, PostInsert, PostGrant, PutFind, PutUpdate, PutRemove,
     PutRecreate, PutMayWrite, PutReplace, DeleteFind, DeleteUndeploy, DeleteUntopic,
     DeleteMayDelete, DeleteUngrant, DeleteDrop, Check
<1>3. j \in topics' <=> j \in topics
  BY <1>2 DEF CreateTopic, DeleteTopic
<1>4. \/ UNCHANGED storeVars
      \/ \E rec, o : InsertOne(i, rec, o) \/ ReplaceOrInsert(i, rec, o) \/ GrantOwner(i, rec, o)
      \/ \E o : RemoveResource(i, o) \/ DeleteOne(i, o)
  BY DEF Handle, PostTopic, PostCreate, PostInsert, PostGrant, PutFind, PutUpdate, PutRemove,
     PutRecreate, PutMayWrite, PutReplace, DeleteFind, DeleteUndeploy, DeleteUntopic,
     DeleteMayDelete, DeleteUngrant, DeleteDrop, Check
<1>5. records'[j] = records[j] /\ perms'[j] = perms[j]
  BY <1>1, <1>4 DEF storeVars, InsertOne, ReplaceOrInsert, GrantOwner, RemoveResource, DeleteOne
<1>6. \/ UNCHANGED deployVars
      \/ \E rec, o : CreateContainer(i, rec, o) \/ RecreateContainer(i, rec, o)
                     \/ KubernetesUpdate(i, rec, o)
      \/ \E o : RemoveContainer(existing[r].sid, o) /\ pc[r] \in HasRead
  BY DEF Handle, PostTopic, PostCreate, PostInsert, PostGrant, PutFind, PutUpdate, PutRemove,
     PutRecreate, PutMayWrite, PutReplace, DeleteFind, DeleteUndeploy, DeleteUntopic,
     DeleteMayDelete, DeleteUngrant, DeleteDrop, Check, HasRead, PutSteps, DeleteSteps
<1>7. Named(j)' = Named(j) /\ (j \in autoscalers' <=> j \in autoscalers)
  <2>1. CASE UNCHANGED deployVars
    BY <2>1 DEF deployVars, Named
  <2>2. CASE \E rec, o : CreateContainer(i, rec, o) \/ RecreateContainer(i, rec, o)
                          \/ KubernetesUpdate(i, rec, o)
    BY <2>2, CreatedElsewhere
  <2>3. CASE \E o : RemoveContainer(existing[r].sid, o) /\ pc[r] \in HasRead
    <3>1. existing[r].sid[1] = i
      BY <2>3 DEF SidsFit, SidsOf
    <3> QED  BY <2>3, <3>1, RemovedElsewhere
  <2> QED  BY <1>6, <2>1, <2>2, <2>3
<1> QED  BY <1>1, <1>3, <1>5, <1>7 DEF Same

\* An instance that stays tracked was tracked.
LEMMA StaysTracked ==
    ASSUME HistoryNext, deployMode' = deployMode, NEW i, Tracked(i)'
    PROVE  Tracked(i)
  BY DEF HistoryNext, Tracked

\* A handler whose instance stays tracked meets no failure and, once it has changed
\* something, no refusal.
LEMMA Unspoiled ==
    ASSUME TypeInv, HistoryNext, NEW r \in Reqs, Handle(r), Tracked(target[r])'
    PROVE  /\ \A o : Spend(o) => ~Faulty(o)
           /\ pc[r] \in Halfway => pc'[r] # "failed"
<1>1. target[r] \notin spoiled'
  BY HandleMoves DEF Tracked
<1>2. pc'[r] # pc[r]
  BY HandleMoves
<1>3. faults' = faults
  BY <1>1, <1>2 DEF HistoryNext, Moved
<1>4. pc[r] \in Halfway => pc'[r] # "failed"
  BY <1>1 DEF HistoryNext, CutShort
<1> QED  BY <1>3, <1>4, SpentFault

\* Nobody else is about an instance that is being created.
LEMMA PostAlone ==
    ASSUME Inv, NEW r \in Reqs, pc[r] \in PostSteps, NEW i, target[r] = i
    PROVE  Alone(r, i)
<1> SUFFICES ASSUME NEW s \in Reqs \ {r}, target[s] = i, pc[s] \in Halfway \/ InFlight(s)
             PROVE  FALSE
  BY DEF Alone
<1>1. Local(r) /\ Local(s) /\ IdsAreIssued /\ LateComers
  BY DEF Inv, TypeInv, SafeInv, Locals
<1>2. pc[s] \in Steps /\ op[r] = "POST" /\ op[s] \in {"POST", "PUT", "DELETE"}
  BY <1>1 DEF Local, Halfway, InFlight, Steps, PostSteps, PutSteps, DeleteSteps
<1> QED  BY <1>1, <1>2 DEF IdsAreIssued, LateComers

\* One request at a time is about an instance that is tracked though ids are names.
LEMMA NameAlone ==
    ASSUME StoresInv, NEW i \in Ids, Tracked(i), deployMode \notin EngineIssued,
           NEW r \in Reqs, target[r] = i, InFlight(r)
    PROVE  Alone(r, i)
<1>1. \A s \in Reqs \ {r} : target[s] = i => ~InFlight(s)
  BY DEF StoresInv, Overlapping, Tracked
<1> QED  BY <1>1 DEF Alone, InFlight, Halfway, Steps, PutSteps

\* A handler that has begun is alone.
LEMMA HolderAlone ==
    ASSUME StoresInv, NEW i \in Ids, Tracked(i), NEW r \in Reqs, target[r] = i, pc[r] \in Halfway
    PROVE  Alone(r, i) /\ Amid(r) /\ Unknown(r)
<1>1. Sound(i) /\ r \in Holders(i)
  BY DEF StoresInv, Holders
<1>2. InFlight(r)
  BY DEF InFlight, Halfway, Steps, PutSteps
<1> QED  BY <1>1, <1>2, NameAlone DEF Sound, Holders, Alone

\* A handler that has not begun finds the stores in agreement.
LEMMA AloneAgreed ==
    ASSUME NEW i, Sound(i), NEW r \in Reqs, Alone(r, i), pc[r] \notin Halfway
    PROVE  Agreed(i)
  BY DEF Sound, Holders, Alone

\* A container can be removed only while nobody else changes the instance: with ids the
\* engine has issued because the others have removed it already or run one that no
\* document names, with names because there are no others.
LEMMA RemoverAlone ==
    ASSUME Inv, StoresInv, NEW i \in Ids, Tracked(i), NEW r \in Removers(i),
           RemoveContainer(existing[r].sid, "ok")
    PROVE  Alone(r, i) /\ perms[i] # NoPerms /\ Complete(i)
<1>1. /\ r \in Reqs /\ target[r] = i /\ pc[r] \in {"remove", "undeploy"} /\ pc[r] \notin Halfway
      /\ InFlight(r) /\ op[r] \in {"PUT", "DELETE"} /\ pc[r] \in Steps
  <2>1. r \in Reqs /\ target[r] = i /\ pc[r] \in {"remove", "undeploy"} /\ Local(r)
    BY DEF Removers, Inv, TypeInv, Locals
  <2> QED  BY <2>1 DEF InFlight, Local, Halfway, Steps, PostSteps, PutSteps, DeleteSteps
<1>2. SidsFit /\ Sound(i) /\ existing[r].sid[1] = i
  BY <1>1 DEF StoresInv, SidsFit, SidsOf, HasRead, PutSteps, DeleteSteps
<1>3. CASE deployMode \in EngineIssued
  <2>1. PICK c \in Named(i) : c.sid = existing[r].sid
    BY <1>2, <1>3, RemovedKnown
  <2>2. ASSUME NEW s \in Reqs, target[s] = i, pc[s] \in Halfway
        PROVE  FALSE
    <3>1. Amid(s) /\ Unknown(s)
      BY <2>2, HolderAlone
    <3>2. pc[s] \notin PostSteps
      BY <1>1, <2>2 DEF Inv, SafeInv, LateComers
    <3>3. ~Undeployed(i)
      BY <2>1 DEF Undeployed
    <3>4. pc[s] \in {"mayWrite", "replace"}
      BY <2>2, <3>1, <3>2, <3>3 DEF Amid, Halfway, PostSteps, DeleteSteps
    <3>5. c.sid = instance[s].sid
      BY <2>1, <2>2, <3>1, <3>4 DEF Amid, Running, Matches
    <3> QED  BY <1>3, <2>1, <2>2, <3>1, <3>4, <3>5 DEF Unknown
  <2>3. Alone(r, i)
    BY <1>3, <2>2 DEF Alone
  <2>4. Agreed(i) /\ ~Absent(i)
    BY <1>1, <1>2, <2>1, <2>3, AloneAgreed DEF Absent, Undeployed
  <2> QED  BY <2>3, <2>4 DEF Agreed
<1>4. CASE deployMode \notin EngineIssued
  <2>1. Alone(r, i)
    BY <1>1, <1>4, NameAlone
  <2>2. Agreed(i) /\ perms[i] # NoPerms
    BY <1>1, <1>2, <1>4, <2>1, AloneAgreed DEF Sound
  <2> QED  BY <2>1, <2>2 DEF Agreed
<1> QED  BY <1>3, <1>4

\* What every step of a handler whose instance stays tracked begins with.
LEMMA HandleFacts ==
    ASSUME Inv, StoresInv, HistoryNext, NEW r \in Reqs, Handle(r), NEW i \in Ids, target[r] = i,
           Tracked(i)'
    PROVE  /\ TypeInv /\ SafeInv /\ SidsFit /\ Settings /\ Local(r) /\ Tracked(i) /\ Sound(i)
           /\ OnlyMoves(r) /\ target'[r] = i /\ deployMode' = deployMode /\ HandlerFrame
           /\ InFlight(r) /\ \A o : Spend(o) => ~Faulty(o)
           /\ pc[r] \in Halfway => pc'[r] # "failed" /\ Alone(r, i) /\ Amid(r) /\ Unknown(r)
           /\ UNCHANGED <<topics, storeVars, deployVars>> => Same(i)
<1>1. /\ TypeInv /\ SafeInv /\ SidsFit /\ Settings /\ Local(r)
      /\ OnlyMoves(r) /\ target'[r] = i /\ deployMode' = deployMode /\ InFlight(r)
  BY HandleMoves DEF Inv, TypeInv, StoresInv, Locals, InFlight
<1>2. Tracked(i) /\ Sound(i)
  BY <1>1, StaysTracked DEF StoresInv
<1>3. /\ \A o : Spend(o) => ~Faulty(o)
      /\ pc[r] \in Halfway => pc'[r] # "failed"
  BY <1>1, Unspoiled
<1>4. pc[r] \in Halfway => Alone(r, i) /\ Amid(r) /\ Unknown(r)
  BY <1>2, HolderAlone
<1>5. HandlerFrame
  BY DEF Handle, PostTopic, PostCreate, PostInsert, PostGrant, PutFind, PutUpdate, PutRemove,
     PutRecreate, PutMayWrite, PutReplace, DeleteFind, DeleteUndeploy, DeleteUntopic,
     DeleteMayDelete, DeleteUngrant, DeleteDrop, Check
<1>6. UNCHANGED <<topics, storeVars, deployVars>> => Same(i)
  BY <1>1 DEF Same, storeVars, deployVars, Named
<1> QED  BY <1>1, <1>2, <1>3, <1>4, <1>5, <1>6

\* Without a failure a handler goes on or is refused.
LEMMA Goes ==
    ASSUME TypeInv, NEW r \in Reqs, HandlerFrame, NEW o \in Outcomes, ~Faulty(o), NEW label,
           Proceed(r, o, label) \/ ProceedWithSid(r, o, NewSid(target[r]), label)
    PROVE  (o = "ok" /\ pc'[r] = label) \/ (o = "refused" /\ pc'[r] = "failed")
<1>1. pc \in [Reqs -> {"idle", "killed"} \cup Answers \cup Steps]
  BY DEF TypeInv, TypeOK, ControllerTypeOK
<1>2. o \in {"ok", "refused"}
  BY DEF Outcomes, Faulty
<1> QED  BY <1>1, <1>2 DEF Proceed, ProceedWithSid, Return, Goto, Succeeded

\* ... and keeps its local variables unless it answers.
LEMMA GoesOn ==
    ASSUME NEW r, NEW label, label \notin Answers, Proceed(r, "ok", label)
    PROVE  UNCHANGED <<instance, existing>>
  BY DEF Proceed, Succeeded

\* What is refused changes nothing.
LEMMA TurnedDown ==
    ASSUME NEW i, Sound(i), Same(i), NEW r, OnlyMoves(r), pc[r] \notin Halfway, pc'[r] = "failed"
    PROVE  Sound(i)'
  BY KeepSound DEF Halfway, PostSteps, DeleteSteps

\* A container that was created or updated for a handler is what its instance asks for.
LEMMA Launched ==
    ASSUME TypeInv, NEW r \in Reqs, instance[r] \in Record, NEW i, target[r] = i, NEW label,
           deployMode' = deployMode, ProceedWithSid(r, "ok", NewSid(i), label),
           \E c \in containers' : /\ Named(i)' = {c} /\ c.sid = NewSid(i)
                                  /\ c.restart = instance[r].restart /\ c.conf = instance[r].conf,
           i \in autoscalers' \/ deployMode \notin Autoscaling
    PROVE  /\ Running(i, instance[r])'
           /\ instance'[r].sid = NewSid(i) /\ UNCHANGED existing
<1>1. instance \in [Reqs -> Record \cup {NoRecord}]
  BY DEF TypeInv, TypeOK, ControllerTypeOK
<1>2. instance' = [instance EXCEPT ![r] = [instance[r] EXCEPT !.sid = NewSid(i)]] /\ UNCHANGED existing
  BY DEF ProceedWithSid, Succeeded
<1>3. /\ instance'[r].sid = NewSid(i) /\ instance'[r].restart = instance[r].restart
      /\ instance'[r].conf = instance[r].conf
  BY <1>1, <1>2 DEF Record
<1> QED  BY <1>2, <1>3 DEF Running, Matches

\* An engine's new id is not known to anybody yet.
LEMMA NewToAll ==
    ASSUME TypeInv, SidsFit, deployMode \in EngineIssued, NEW i \in Ids
    PROVE  NewSid(i) \notin SidsOf(i, created[i])
<1>1. created[i] \in Nat
  BY DEF TypeInv, TypeOK, DeployTypeOK
<1>2. NewSid(i) = <<i, created[i] + 1>>
  BY DEF EngineIssued, NewSid, DockerSid, RancherSid
<1> QED  BY <1>1, <1>2 DEF SidsOf

-----------------------------------------------------------------------------

(***************************************************************************)
(* Every step of a handler keeps Sound of its instance, unless something   *)
(* goes wrong                                                              *)
(***************************************************************************)

Undisturbed(r, i) ==
    Inv /\ StoresInv /\ HistoryNext /\ Handle(r) /\ target[r] = i /\ Tracked(i)'

LEMMA PostTopicSound ==
    ASSUME NEW r \in Reqs, NEW i \in Ids, Undisturbed(r, i), PostTopic(r)
    PROVE  Sound(i)'
<1> USE DEF Halfway, PostSteps, DeleteSteps, Undisturbed
<1>1. PICK o \in Outcomes : CreateTopic(i, o) /\ Spend(o) /\ Proceed(r, o, "create")
  BY DEF PostTopic
<1>2. UNCHANGED <<storeVars, deployVars>> /\ pc[r] = "topic"
  BY DEF PostTopic
<1>3. CASE o = "ok" /\ pc'[r] = "create"
  <2>1. Alone(r, i)
    BY <1>2, PostAlone
  <2>2. Absent(i) /\ perms[i] = NoPerms
    BY <1>2, <2>1, HandleFacts, AloneAgreed DEF Agreed, SafeInv, CreatingIsHidden
  <2>3. Amid(r)' /\ Unknown(r)'
    BY <1>1, <1>2, <1>3, <2>2, HandleFacts DEF Amid, Unknown, Absent, Undeployed, HasTopic, CreateTopic,
       storeVars, deployVars, Named
  <2> QED  BY <1>3, <2>1, <2>3, HoldSound, HandleFacts
<1>4. CASE o = "refused" /\ pc'[r] = "failed"
  <2>1. UNCHANGED topics
    BY <1>1, <1>4 DEF CreateTopic
  <2> QED  BY <1>2, <1>4, <2>1, TurnedDown, HandleFacts
<1> QED  BY <1>1, <1>3, <1>4, Goes, HandleFacts

LEMMA PostCreateSound ==
    ASSUME NEW r \in Reqs, NEW i \in Ids, Undisturbed(r, i), PostCreate(r)
    PROVE  Sound(i)'
<1> USE DEF Halfway, PostSteps, DeleteSteps, Undisturbed
<1>1. PICK o \in Outcomes : /\ CreateContainer(i, instance[r], o) /\ Spend(o)
                            /\ ProceedWithSid(r, o, NewSid(i), "insert")
  BY DEF PostCreate
<1>2. UNCHANGED <<topics, storeVars>> /\ pc[r] = "create" /\ instance[r] \in Record
  BY HandleFacts DEF PostCreate, Local
<1>3. o = "ok" /\ pc'[r] = "insert" /\ Alone(r, i) /\ Amid(r)
  BY <1>1, <1>2, Goes, HandleFacts
<1>4. Running(i, instance[r])'
  <2>1. /\ \E c \in containers' : /\ Named(i)' = {c} /\ c.sid = NewSid(i)
                                   /\ c.restart = instance[r].restart /\ c.conf = instance[r].conf
        /\ i \in autoscalers' \/ deployMode \notin Autoscaling
    <3>1. deployMode \in Backends /\ Undeployed(i)
      BY <1>2, <1>3, HandleFacts DEF Amid, TypeInv, TypeOK, ControllerTypeOK
    <3> QED  BY <1>1, <1>3, <3>1, CreatedRuns
  <2> QED  BY <1>1, <1>2, <1>3, <2>1, Launched, HandleFacts
<1>5. Amid(r)' /\ Unknown(r)'
  BY <1>2, <1>3, <1>4, HandleFacts DEF Amid, Unknown, HasTopic, storeVars
<1> QED  BY <1>3, <1>5, HoldSound, HandleFacts

LEMMA PostInsertSound ==
    ASSUME NEW r \in Reqs, NEW i \in Ids, Undisturbed(r, i), PostInsert(r)
    PROVE  Sound(i)'
<1> USE DEF Halfway, PostSteps, DeleteSteps, Undisturbed
<1>1. PICK o \in Outcomes : InsertOne(i, instance[r], o) /\ Spend(o) /\ Proceed(r, o, "grant")
  BY DEF PostInsert
<1>2. UNCHANGED <<topics, deployVars>> /\ pc[r] = "insert" /\ instance[r] \in Record
  BY HandleFacts DEF PostInsert, Local
<1>3. o = "ok" /\ pc'[r] = "grant" /\ Alone(r, i) /\ Amid(r)
  BY <1>1, <1>2, Goes, HandleFacts
<1>4. records'[i] = instance[r] /\ UNCHANGED perms /\ records'[i] # NoRecord
  BY <1>1, <1>2, <1>3, HandleFacts, NoRecordAssumption DEF InsertOne, TypeInv, TypeOK, StoreTypeOK
<1>5. Complete(i)'
  BY <1>2, <1>3, <1>4, HandleFacts DEF Amid, Complete, Running, Matches, HasTopic, deployVars, Named
<1>6. Amid(r)' /\ Unknown(r)'
  BY <1>2, <1>3, <1>4, <1>5, HandleFacts DEF Amid, Unknown
<1> QED  BY <1>3, <1>6, HoldSound, HandleFacts

LEMMA PostGrantSound ==
    ASSUME NEW r \in Reqs, NEW i \in Ids, Undisturbed(r, i), PostGrant(r)
    PROVE  Sound(i)'
<1> USE DEF Halfway, PostSteps, DeleteSteps, Undisturbed
<1>1. PICK o \in Outcomes : GrantOwner(i, instance[r].owner, o) /\ Spend(o) /\ Proceed(r, o, "ok")
  BY DEF PostGrant
<1>2. UNCHANGED <<topics, deployVars>> /\ pc[r] = "grant"
  BY DEF PostGrant
<1>3. o = "ok" /\ pc'[r] = "ok" /\ Alone(r, i) /\ Amid(r)
  BY <1>1, <1>2, Goes, HandleFacts
<1>4. perms'[i] # NoPerms /\ UNCHANGED records
  <2>1. perms \in [Ids -> Permissions \cup {NoPerms}]
    BY HandleFacts DEF TypeInv, TypeOK, StoreTypeOK
  <2>2. PICK known : perms' = [perms EXCEPT ![i] = SetDefaultPermissions(instance[r].owner, known)]
                     /\ known \in Permissions
    BY <1>1, <1>3, <2>1 DEF GrantOwner, NoUserPermissions, Permissions
  <2>3. SetDefaultPermissions(instance[r].owner, known) \in Permissions
    BY <2>2 DEF SetDefaultPermissions, Permissions
  <2> QED  BY <1>1, <2>1, <2>2, <2>3, NoPermsAssumption DEF GrantOwner
<1>5. Complete(i)'
  BY <1>2, <1>3, <1>4, HandleFacts DEF Amid, Complete, Running, Matches, HasTopic, deployVars, Named
<1> QED  BY <1>3, <1>4, <1>5, FreeSound, HandleFacts DEF Agreed

LEMMA FindSound ==
    ASSUME NEW r \in Reqs, NEW i \in Ids, Undisturbed(r, i), PutFind(r) \/ DeleteFind(r)
    PROVE  Sound(i)'
<1> USE DEF Halfway, PostSteps, DeleteSteps, Undisturbed
<1>1. UNCHANGED <<topics, storeVars, deployVars>> /\ pc[r] = "find"
  BY DEF PutFind, DeleteFind
<1>2. Same(i)
  BY <1>1, HandleFacts
<1>3. CASE Return(r, "failed")
  <2>1. pc'[r] = "failed"
    BY <1>3, HandleFacts DEF Return, Goto, TypeInv, TypeOK, ControllerTypeOK
  <2> QED  BY <1>1, <1>2, <2>1, TurnedDown, HandleFacts
<1>4. CASE ~Return(r, "failed")
  <2>1. existing'[r] = records[i] /\ pc'[r] \in {"update", "remove", "undeploy"}
    BY <1>4, HandleFacts DEF PutFind, DeleteFind, TurnDown, Goto, TypeInv, TypeOK, ControllerTypeOK
  <2>2. deployMode \notin EngineIssued => perms[i] # NoPerms
    BY <1>1, HandleFacts DEF Sound
  <2> QED  BY <1>1, <1>2, <2>1, <2>2, KeepSound, HandleFacts
<1> QED  BY <1>3, <1>4

LEMMA PutUpdateSound ==
    ASSUME NEW r \in Reqs, NEW i \in Ids, Undisturbed(r, i), PutUpdate(r)
    PROVE  Sound(i)'
<1> USE DEF Halfway, PostSteps, DeleteSteps, Undisturbed
<1>1. PICK o \in Outcomes : /\ KubernetesUpdate(i, instance[r], o) /\ Spend(o)
                            /\ ProceedWithSid(r, o, NewSid(i), "mayWrite")
  BY DEF PutUpdate
<1>2. /\ UNCHANGED <<topics, storeVars>> /\ pc[r] = "update" /\ instance[r] \in Record
      /\ deployMode = "kubernetes" /\ deployMode \notin EngineIssued
  BY HandleFacts DEF PutUpdate, Local, PutSteps, SidsFit, EngineIssued
<1>3. CASE o = "ok" /\ pc'[r] = "mayWrite"
  <2>1. Alone(r, i)
    BY <1>2, NameAlone, HandleFacts
  <2>2. perms[i] # NoPerms /\ Complete(i)
    <3>1. Agreed(i)
      BY <1>2, <2>1, AloneAgreed, HandleFacts
    <3>2. perms[i] # NoPerms
      BY <1>2, HandleFacts DEF Sound
    <3> QED  BY <3>1, <3>2 DEF Agreed
  <2>3. /\ \E c \in containers' : /\ Named(i)' = {c} /\ c.sid = NewSid(i)
                                   /\ c.restart = instance[r].restart /\ c.conf = instance[r].conf
        /\ i \in autoscalers' \/ deployMode \notin Autoscaling
    BY <1>1, <1>2, <1>3, <2>2, UpdatedRuns DEF Complete
  <2>4. Running(i, instance[r])'
    BY <1>1, <1>2, <1>3, <2>3, Launched, HandleFacts
  <2>5. Amid(r)' /\ Unknown(r)'
    BY <1>2, <1>3, <2>2, <2>4, HandleFacts DEF Amid, Unknown, Complete, HasTopic, storeVars
  <2> QED  BY <1>3, <2>1, <2>5, HoldSound, HandleFacts
<1>4. CASE o = "refused" /\ pc'[r] = "failed"
  <2>1. UNCHANGED deployVars
    BY <1>1, <1>4 DEF KubernetesUpdate, deployVars
  <2> QED  BY <1>2, <1>4, <2>1, TurnedDown, HandleFacts
<1> QED  BY <1>1, <1>3, <1>4, Goes, HandleFacts

LEMMA RemoveSound ==
    ASSUME NEW r \in Reqs, NEW i \in Ids, Undisturbed(r, i), PutRemove(r) \/ DeleteUndeploy(r)
    PROVE  Sound(i)'
<1> USE DEF Halfway, PostSteps, DeleteSteps, Undisturbed
<1>1. PICK o \in Outcomes, label \in {"recreate", "mayDelete", "untopic"} :
            /\ RemoveContainer(existing[r].sid, o) /\ Spend(o) /\ Proceed(r, o, label)
            /\ label = "mayDelete" => SkipKafkaAdmin
  BY DEF PutRemove, DeleteUndeploy
<1>2. UNCHANGED <<topics, storeVars>> /\ pc[r] \in {"remove", "undeploy"} /\ r \in Removers(i)
  BY DEF PutRemove, DeleteUndeploy, Removers
<1>3. CASE o = "ok" /\ pc'[r] = label
  <2>1. Alone(r, i) /\ perms[i] # NoPerms /\ Complete(i)
    BY <1>1, <1>2, <1>3, RemoverAlone, HandleFacts
  <2>2. existing[r].sid[1] = i
    BY <1>2, HandleFacts DEF SidsFit, SidsOf, HasRead, PutSteps
  <2>3. Undeployed(i)'
    BY <1>1, <1>3, <2>1, <2>2, RemovedAll, HandleFacts DEF Complete
  <2>4. label = "mayDelete" => i \notin topics
    BY <1>1, HandleFacts DEF Settings
  <2>5. Amid(r)' /\ Unknown(r)'
    BY <1>1, <1>2, <1>3, <2>1, <2>3, <2>4, HandleFacts DEF Amid, Unknown, Complete, HasTopic, storeVars
  <2> QED  BY <1>1, <1>3, <2>1, <2>5, HoldSound, HandleFacts
<1>4. CASE o = "refused" /\ pc'[r] = "failed"
  <2>1. UNCHANGED deployVars
    BY <1>1, <1>4 DEF RemoveContainer, DockerRemove, RancherRemove, KubernetesRemove, Rancher2Remove,
       deployVars
  <2> QED  BY <1>2, <1>4, <2>1, TurnedDown, HandleFacts
<1> QED  BY <1>1, <1>3, <1>4, Goes, HandleFacts

LEMMA PutRecreateSound ==
    ASSUME NEW r \in Reqs, NEW i \in Ids, Undisturbed(r, i), PutRecreate(r)
    PROVE  Sound(i)'
<1> USE DEF Halfway, PostSteps, DeleteSteps, Undisturbed
<1>1. PICK o \in Outcomes : /\ RecreateContainer(i, instance[r], o) /\ Spend(o)
                            /\ ProceedWithSid(r, o, NewSid(i), "mayWrite")
  BY DEF PutRecreate
<1>2. UNCHANGED <<topics, storeVars>> /\ pc[r] = "recreate" /\ instance[r] \in Record
  BY HandleFacts DEF PutRecreate, Local, PutSteps
<1>3. o = "ok" /\ pc'[r] = "mayWrite" /\ Alone(r, i) /\ Amid(r)
  BY <1>1, <1>2, Goes, HandleFacts
<1>4. Running(i, instance[r])' /\ instance'[r].sid = NewSid(i) /\ UNCHANGED existing
  <2>1. /\ \E c \in containers' : /\ Named(i)' = {c} /\ c.sid = NewSid(i)
                                   /\ c.restart = instance[r].restart /\ c.conf = instance[r].conf
        /\ i \in autoscalers' \/ deployMode \notin Autoscaling
    <3>1. deployMode \in Backends /\ Undeployed(i)
      BY <1>2, <1>3, HandleFacts DEF Amid, TypeInv, TypeOK, ControllerTypeOK
    <3> QED  BY <1>1, <1>3, <3>1, CreatedRuns
  <2> QED  BY <1>1, <1>2, <1>3, <2>1, Launched, HandleFacts
<1>5. Amid(r)'
  BY <1>2, <1>3, <1>4, HandleFacts DEF Amid, HasTopic, storeVars
<1>6. Unknown(r)'
  <2>1. SUFFICES ASSUME deployMode \in EngineIssued PROVE Unknown(r)'
    BY HandleFacts DEF Unknown
  <2>2. records[i] # NoRecord
    BY <1>2, <1>3, HandleFacts DEF Amid, SafeInv, PermImpliesRecord
  <2>3. records[i].sid \in SidsOf(i, created[i])
    BY <2>2, HandleFacts DEF SidsFit
  <2>4. \A s \in Reqs \ {r} : pc'[s] \in {"remove", "undeploy"} /\ target'[s] = i =>
            existing'[s].sid \in SidsOf(i, created[i])
    BY HandleFacts DEF SidsFit, OnlyMoves, HasRead, PutSteps
  <2> QED  BY <1>2, <1>3, <1>4, <2>1, <2>3, <2>4, NewToAll, HandleFacts DEF Unknown, Removers, storeVars
<1> QED  BY <1>3, <1>5, <1>6, HoldSound, HandleFacts

LEMMA CheckSound ==
    ASSUME NEW r \in Reqs, NEW i \in Ids, Undisturbed(r, i), PutMayWrite(r) \/ DeleteMayDelete(r)
    PROVE  Sound(i)'
<1> USE DEF Halfway, PostSteps, DeleteSteps, Undisturbed
<1>1. PICK o \in Outcomes, label \in {"replace", "ungrant"} :
            /\ Spend(o) /\ Proceed(r, o, label)
            /\ \/ label = "replace" /\ pc[r] = "mayWrite"
               \/ label = "ungrant" /\ pc[r] = "mayDelete"
  BY DEF PutMayWrite, DeleteMayDelete, Check, Outcomes
<1>2. UNCHANGED <<topics, storeVars, deployVars>> /\ Same(i)
  BY HandleFacts DEF PutMayWrite, DeleteMayDelete, Check
<1>3. o = "ok" /\ pc'[r] = label /\ Alone(r, i) /\ Amid(r) /\ Unknown(r)
  BY <1>1, Goes, HandleFacts
<1>4. UNCHANGED <<instance, existing>>
  BY <1>1, <1>3, GoesOn DEF Answers
<1>5. Running(i, instance[r]) => Running(i, instance[r])'
  BY <1>2, <1>4 DEF Same, Running, Named, Matches
<1>6. Amid(r)'
  BY <1>1, <1>2, <1>3, <1>5, SameAgreed, HandleFacts DEF Amid, Same
<1>7. Unknown(r)'
  BY <1>1, <1>2, <1>3, <1>4, HandleFacts DEF Unknown, Same, Removers, OnlyMoves
<1> QED  BY <1>1, <1>3, <1>6, <1>7, HoldSound, HandleFacts

LEMMA PutReplaceSound ==
    ASSUME NEW r \in Reqs, NEW i \in Ids, Undisturbed(r, i), PutReplace(r)
    PROVE  Sound(i)'
<1> USE DEF Halfway, PostSteps, DeleteSteps, Undisturbed
<1>1. PICK o \in Outcomes : ReplaceOrInsert(i, instance[r], o) /\ Spend(o) /\ Proceed(r, o, "ok")
  BY DEF PutReplace
<1>2. UNCHANGED <<topics, deployVars>> /\ pc[r] = "replace" /\ instance[r] \in Record
  BY HandleFacts DEF PutReplace, Local, PutSteps
<1>3. o = "ok" /\ pc'[r] = "ok" /\ Alone(r, i) /\ Amid(r)
  BY <1>1, <1>2, Goes, HandleFacts
<1>4. records'[i] = instance[r] /\ UNCHANGED perms /\ records'[i] # NoRecord
  BY <1>1, <1>2, <1>3, HandleFacts, NoRecordAssumption DEF ReplaceOrInsert, TypeInv, TypeOK, StoreTypeOK
<1>5. Complete(i)' /\ perms'[i] # NoPerms
  BY <1>2, <1>3, <1>4, HandleFacts DEF Amid, Complete, Running, Matches, HasTopic, deployVars, Named
<1> QED  BY <1>3, <1>5, FreeSound, HandleFacts DEF Agreed

LEMMA DeleteUntopicSound ==
    ASSUME NEW r \in Reqs, NEW i \in Ids, Undisturbed(r, i), DeleteUntopic(r)
    PROVE  Sound(i)'
<1> USE DEF Halfway, PostSteps, DeleteSteps, Undisturbed
<1>1. PICK o \in Outcomes : DeleteTopic(i, o) /\ Spend(o) /\ Proceed(r, o, "mayDelete")
  BY DEF DeleteUntopic
<1>2. UNCHANGED <<storeVars, deployVars>> /\ pc[r] = "untopic"
  BY DEF DeleteUntopic
<1>3. o = "ok" /\ pc'[r] = "mayDelete" /\ Alone(r, i) /\ Amid(r)
  BY <1>1, <1>2, Goes, HandleFacts
<1>4. i \notin topics' /\ Undeployed(i)'
  BY <1>1, <1>2, <1>3, HandleFacts DEF Amid, DeleteTopic, Undeployed, Named, deployVars
<1>5. Amid(r)' /\ Unknown(r)'
  BY <1>2, <1>3, <1>4, HandleFacts DEF Amid, Unknown, storeVars
<1> QED  BY <1>3, <1>5, HoldSound, HandleFacts

LEMMA DeleteUngrantSound ==
    ASSUME NEW r \in Reqs, NEW i \in Ids, Undisturbed(r, i), DeleteUngrant(r)
    PROVE  Sound(i)'
<1> USE DEF Halfway, PostSteps, DeleteSteps, Undisturbed
<1>1. PICK o \in Outcomes : RemoveResource(i, o) /\ Spend(o) /\ Proceed(r, o, "drop")
  BY DEF DeleteUngrant
<1>2. UNCHANGED <<topics, deployVars>> /\ pc[r] = "ungrant"
  BY DEF DeleteUngrant
<1>3. o = "ok" /\ pc'[r] = "drop" /\ Alone(r, i) /\ Amid(r)
  BY <1>1, <1>2, Goes, HandleFacts
<1>4. perms'[i] = NoPerms /\ UNCHANGED records
  BY <1>1, <1>3, HandleFacts DEF RemoveResource, TypeInv, TypeOK, StoreTypeOK
<1>5. Undeployed(i)'
  BY <1>2, <1>3 DEF Amid, Undeployed, Named, deployVars
<1>6. Amid(r)' /\ Unknown(r)'
  BY <1>2, <1>3, <1>4, <1>5, HandleFacts DEF Amid, Unknown
<1> QED  BY <1>3, <1>6, HoldSound, HandleFacts

LEMMA DeleteDropSound ==
    ASSUME NEW r \in Reqs, NEW i \in Ids, Undisturbed(r, i), DeleteDrop(r)
    PROVE  Sound(i)'
<1> USE DEF Halfway, PostSteps, DeleteSteps, Undisturbed
<1>1. PICK o \in Outcomes : DeleteOne(i, o) /\ Spend(o) /\ Proceed(r, o, "ok")
  BY DEF DeleteDrop
<1>2. UNCHANGED <<topics, deployVars>> /\ pc[r] = "drop"
  BY DEF DeleteDrop
<1>3. o = "ok" /\ pc'[r] = "ok" /\ Alone(r, i) /\ Amid(r)
  BY <1>1, <1>2, Goes, HandleFacts
<1>4. records'[i] = NoRecord /\ UNCHANGED perms
  BY <1>1, <1>3, HandleFacts DEF DeleteOne, TypeInv, TypeOK, StoreTypeOK
<1>5. Absent(i)' /\ perms'[i] = NoPerms
  BY <1>2, <1>3, <1>4 DEF Amid, Absent, Undeployed, Named, deployVars
<1> QED  BY <1>3, <1>5, FreeSound, HandleFacts DEF Agreed

LEMMA HandleSound ==
    ASSUME NEW r \in Reqs, NEW i \in Ids, Undisturbed(r, i)
    PROVE  Sound(i)'
<1>1. CASE PostTopic(r) \/ PostCreate(r) \/ PostInsert(r) \/ PostGrant(r)
  BY <1>1, PostTopicSound, PostCreateSound, PostInsertSound, PostGrantSound
<1>2. CASE PutFind(r) \/ PutUpdate(r) \/ PutRemove(r) \/ PutRecreate(r)
  BY <1>2, FindSound, PutUpdateSound, RemoveSound, PutRecreateSound
<1>3. CASE PutMayWrite(r) \/ PutReplace(r) \/ DeleteFind(r) \/ DeleteUndeploy(r)
  BY <1>3, CheckSound, PutReplaceSound, FindSound, RemoveSound
<1>4. CASE DeleteUntopic(r) \/ DeleteMayDelete(r) \/ DeleteUngrant(r) \/ DeleteDrop(r)
  BY <1>4, DeleteUntopicSound, CheckSound, DeleteUngrantSound, DeleteDropSound
<1> QED  BY <1>1, <1>2, <1>3, <1>4 DEF Undisturbed, Handle

-----------------------------------------------------------------------------

(***************************************************************************)
(* The other steps keep Sound                                              *)
(***************************************************************************)

\* A step that changes neither a handler nor anything of the instance.
LEMMA IdleSound ==
    ASSUME NEW i, Sound(i), Same(i), UNCHANGED handlerVars
    PROVE  Sound(i)'
<1>1. Holders(i)' = Holders(i) /\ UNCHANGED <<pc, target, instance, existing>>
  BY DEF Holders, handlerVars
<1>2. ASSUME NEW s \in Holders(i)' PROVE (Holders(i) = {s} /\ Amid(s) /\ Unknown(s))'
  <2>1. s \in Reqs /\ Holders(i) = {s} /\ Amid(s) /\ Unknown(s) /\ target[s] = i
    BY <1>1, <1>2 DEF Sound, Holders
  <2>2. Amid(s)'
    BY <1>1, <2>1, SameAmid
  <2>3. Unknown(s)'
    BY <1>1, <2>1 DEF Unknown, Removers, Same
  <2> QED  BY <1>1, <2>1, <2>2, <2>3
<1>3. (Holders(i) = {} => Agreed(i))'
  BY <1>1, SameAgreed DEF Sound
<1>4. (deployMode \notin EngineIssued =>
          \A s \in Reqs : target[s] = i /\ pc[s] \in {"find", "update", "remove", "undeploy"} =>
              perms[i] # NoPerms)'
  BY <1>1 DEF Sound, Same
<1> QED  BY <1>2, <1>3, <1>4 DEF Sound

\* A request that arrives changes nothing, and begins to when it creates an instance
\* that needs no topic.
LEMMA RequestSound ==
    ASSUME Inv, StoresInv, HistoryNext, NEW r \in Reqs, Request(r), NEW i \in Ids, Tracked(i)'
    PROVE  Sound(i)'
<1> USE DEF Halfway, PostSteps, DeleteSteps
<1>1. /\ pc[r] = "idle" /\ deployMode' = deployMode /\ UNCHANGED <<topics, storeVars, deployVars>>
      /\ pc \in [Reqs -> {"idle", "killed"} \cup Answers \cup Steps]
      /\ target \in [Reqs -> Ids] /\ instance \in [Reqs -> Record \cup {NoRecord}]
      /\ existing \in [Reqs -> Record \cup {NoRecord}]
  BY DEF Inv, TypeInv, TypeOK, ControllerTypeOK, Request, Post, Put, Delete, Receive
<1>2. OnlyMoves(r)
  BY <1>1 DEF OnlyMoves, Request, Post, Put, Delete, Receive, TurnDown, Return, Goto
<1>3. Same(i)
  BY <1>1 DEF Same, storeVars, deployVars, Named
<1>4. Sound(i)
  BY <1>1, StaysTracked DEF StoresInv
<1>5. /\ pc'[r] \in {"failed", "topic", "create", "find"}
      /\ pc'[r] = "find" => perms[target'[r]] # NoPerms
      /\ pc'[r] = "create" => target'[r] \notin issued /\ SkipKafkaAdmin
  BY <1>1 DEF Request, Post, Put, Delete, Receive, TurnDown, Return, Goto, Allowed
<1>6. CASE pc'[r] = "create" /\ target'[r] = i
  <2>1. \A s \in Reqs : target[s] = i => pc[s] \notin Steps
    BY <1>5, <1>6 DEF Inv, TypeInv, SafeInv, Locals, Local, IdsAreIssued, LateComers, Steps, PutSteps
  <2>2. Alone(r, i)
    BY <2>1 DEF Alone, InFlight, Steps, PutSteps
  <2>3. perms[i] = NoPerms
    BY <1>5, <1>6 DEF Inv, SafeInv, IdsAreIssued
  <2>4. Absent(i)
    BY <1>1, <1>4, <2>2, <2>3, AloneAgreed DEF Agreed
  <2>5. Amid(r)' /\ Unknown(r)'
    BY <1>3, <1>5, <1>6, <2>3, <2>4, SameAgreed DEF Amid, Unknown, Absent, Same, HasTopic
  <2> QED  BY <1>1, <1>2, <1>6, <2>2, <2>5, HoldSound
<1>7. CASE ~(pc'[r] = "create" /\ target'[r] = i)
  BY <1>1, <1>2, <1>3, <1>4, <1>5, <1>7, KeepSound
<1> QED  BY <1>6, <1>7

\* While the restoration runs there is no handler.
LEMMA BootIsAlone ==
    ASSUME TypeInv, proc = "boot"
    PROVE  \A i : Holders(i) = {}
  BY DEF TypeInv, Locals, Local, Holders, Halfway, Steps, PostSteps, PutSteps, DeleteSteps

\* The restoration changes only instances that are not tracked.
LEMMA RestoreSound ==
    ASSUME Inv, StoresInv, HistoryNext, Restore, NEW i \in Ids, Tracked(i)'
    PROVE  Sound(i)'
<1>1. /\ proc = "boot" /\ BootFrame /\ deployMode' = deployMode
      /\ records \in [Ids -> Record \cup {NoRecord}]
  BY DEF Inv, TypeInv, TypeOK, StoreTypeOK, Restore, ListPage, Probe, ReadFails, Recreate, StoreSid,
     BootFrame
<1>2. Tracked(i) /\ Sound(i)
  BY <1>1, StaysTracked DEF StoresInv
<1>3. records'[i] = records[i] /\ Named(i)' = Named(i) /\ (i \in autoscalers' <=> i \in autoscalers)
  <2>1. CASE ListPage \/ Probe \/ ReadFails
    BY <2>1 DEF ListPage, Probe, ReadFails, deployVars, Named
  <2>2. CASE Recreate
    <3>1. i # boot.inst
      BY <1>1, <1>2, <2>2 DEF Recreate, StoresInv, RestoresSpoiled
    <3>2. PICK k, o : k = boot.inst /\ CreateContainer(k, records[k], o)
      BY <2>2 DEF Recreate
    <3>3. Named(i)' = Named(i) /\ (i \in autoscalers' <=> i \in autoscalers)
      BY <3>1, <3>2, CreatedElsewhere
    <3> QED  BY <2>2, <3>3 DEF Recreate
  <2>3. CASE StoreSid
    <3>1. i # boot.inst
      BY <1>1, <1>2, <2>3 DEF StoreSid, StoresInv, RestoresSpoiled
    <3> QED  BY <1>1, <2>3, <3>1 DEF StoreSid, ReplaceOrInsert, deployVars, Named
  <2> QED  BY <2>1, <2>2, <2>3 DEF Restore
<1>4. Same(i)
  BY <1>1, <1>3 DEF Same, BootFrame
<1> QED  BY <1>1, <1>2, <1>4, IdleSound DEF BootFrame

\* A killed handler leaves an instance it has begun to change spoiled, as does a container
\* that is lost.
LEMMA OtherSound ==
    ASSUME Inv, StoresInv, HistoryNext, Start \/ Crash \/ ShareInstance \/ LoseContainer,
           NEW i \in Ids, Tracked(i)'
    PROVE  Sound(i)'
<1>1. deployMode' = deployMode /\ StoreTypeOK
  BY DEF Start, Crash, ShareInstance, LoseContainer, Inv, TypeInv, TypeOK
<1>2. Tracked(i) /\ Sound(i)
  BY <1>1, StaysTracked DEF StoresInv
<1>3. CASE Start
  <2>1. Same(i)
    BY <1>3 DEF Start, Same, storeVars, deployVars, Named
  <2> QED  BY <1>2, <1>3, <2>1, IdleSound DEF Start
<1>4. CASE Crash
  <2>1. Same(i)
    BY <1>4 DEF Crash, Same, storeVars, deployVars, Named
  <2>2. /\ UNCHANGED target
        /\ \A r \in Reqs : pc'[r] \notin Steps /\ (pc[r] \in Halfway => pc'[r] = "killed")
    BY <1>4 DEF Crash, InFlight, Halfway, Steps, PostSteps, PutSteps, DeleteSteps
  <2>3. i \notin CutShort
    BY <1>1 DEF HistoryNext, Tracked
  <2>4. Holders(i) = {}
    BY <2>2, <2>3 DEF Holders, CutShort
  <2>5. Agreed(i)'
    BY <1>2, <2>1, <2>4, SameAgreed DEF Sound
  <2>6. \A r \in Reqs : pc'[r] \notin Halfway \cup {"find", "update", "remove", "undeploy"}
    BY <2>2 DEF Halfway, Steps, PostSteps, PutSteps, DeleteSteps
  <2> QED  BY <2>5, <2>6 DEF Sound, Holders
<1>5. CASE ShareInstance
  <2>1. perms'[i] = NoPerms <=> perms[i] = NoPerms
    BY <1>1, <1>5, ShareType, ShareAssumption DEF ShareInstance
  <2>2. Same(i)
    BY <1>5, <2>1 DEF ShareInstance, Share, Same, deployVars, Named
  <2> QED  BY <1>2, <1>5, <2>2, IdleSound DEF ShareInstance
<1>6. CASE LoseContainer
  <2>1. i \notin Gone
    <3>1. faults' # faults
      BY <1>6, SpentFault DEF LoseContainer, Faulty, Inv
    <3> QED  BY <1>1, <3>1 DEF HistoryNext, Tracked
  <2>2. Named(i)' = Named(i)
    BY <1>6, <2>1 DEF LoseContainer, Lose, Gone, Named
  <2>3. Same(i)
    BY <1>6, <2>2 DEF LoseContainer, Lose, Same, storeVars
  <2> QED  BY <1>2, <1>6, <2>3, IdleSound DEF LoseContainer
<1> QED  BY <1>3, <1>4, <1>5, <1>6

-----------------------------------------------------------------------------

(***************************************************************************)
(* The rest of StoresInv                                                   *)
(***************************************************************************)

LEMMA HandleSettings ==
    ASSUME Inv, Settings, NEW r \in Reqs, Handle(r)
    PROVE  Settings'
<1>1. TypeInv /\ deployMode' = deployMode /\ OnlyMoves(r) /\ HandlerFrame
  BY HandleMoves DEF Inv, Handle, PostTopic, PostCreate, PostInsert, PostGrant, PutFind, PutUpdate,
     PutRemove, PutRecreate, PutMayWrite, PutReplace, DeleteFind, DeleteUndeploy, DeleteUntopic,
     DeleteMayDelete, DeleteUngrant, DeleteDrop, Check
<1>2. deployMode \notin Autoscaling => UNCHANGED autoscalers
  <2>1. \/ UNCHANGED deployVars
        \/ \E i, rec, o : CreateContainer(i, rec, o) \/ RecreateContainer(i, rec, o)
                          \/ KubernetesUpdate(i, rec, o)
        \/ \E sid, o : RemoveContainer(sid, o)
    BY DEF Handle, PostTopic, PostCreate, PostInsert, PostGrant, PutFind, PutUpdate, PutRemove,
       PutRecreate, PutMayWrite, PutReplace, DeleteFind, DeleteUndeploy, DeleteUntopic,
       DeleteMayDelete, DeleteUngrant, DeleteDrop, Check
  <2>2. CASE UNCHANGED deployVars
    BY <2>2 DEF deployVars
  <2>3. CASE \E i, rec, o : CreateContainer(i, rec, o) \/ RecreateContainer(i, rec, o)
                            \/ KubernetesUpdate(i, rec, o)
    <3>1. PICK i, rec, o : CreateContainer(i, rec, o) \/ RecreateContainer(i, rec, o)
                           \/ KubernetesUpdate(i, rec, o)
      BY <2>3
    <3>2. KubernetesUpdate(i, rec, o) \/ DockerCreate(i, rec, o) \/ RancherCreate(i, rec, o)
            \/ RancherRecreate(i, rec, o) => UNCHANGED autoscalers
      BY DEF KubernetesUpdate, DockerCreate, RancherCreate, RancherRecreate, RancherPost
    <3> QED  BY <3>1, <3>2 DEF Autoscaling, CreateContainer, RecreateContainer
  <2>4. CASE \E sid, o : RemoveContainer(sid, o)
    BY <2>4 DEF Autoscaling, RemoveContainer, DockerRemove, RancherRemove
  <2> QED  BY <2>1, <2>2, <2>3, <2>4
<1>3. ASSUME SkipKafkaAdmin PROVE UNCHANGED topics /\ pc'[r] \notin {"topic", "untopic"}
  <2>1. pc[r] \notin {"topic", "untopic"}
    BY <1>3 DEF Settings
  <2>2. CASE PutFind(r) \/ DeleteFind(r)
    <3>1. pc \in [Reqs -> {"idle", "killed"} \cup Answers \cup Steps]
      BY <1>1 DEF TypeInv, TypeOK, ControllerTypeOK
    <3> QED  BY <2>2, <3>1 DEF PutFind, DeleteFind, TurnDown, Return, Goto
  <2>3. CASE ~(PutFind(r) \/ DeleteFind(r))
    <3>1. UNCHANGED topics
      BY <2>1, <2>3 DEF Handle, PostTopic, PostCreate, PostInsert, PostGrant, PutUpdate, PutRemove,
         PutRecreate, PutMayWrite, PutReplace, DeleteUndeploy, DeleteUntopic, DeleteMayDelete,
         DeleteUngrant, DeleteDrop, Check
    <3>2. PICK label \in {"insert", "grant", "ok", "mayWrite", "recreate", "replace", "mayDelete",
                          "ungrant", "drop"}, o \in Outcomes :
            Proceed(r, o, label) \/ \E sid : ProceedWithSid(r, o, sid, label)
      BY <1>3, <2>1, <2>3 DEF Handle, PostTopic, PostCreate, PostInsert, PostGrant, PutUpdate, PutRemove,
         PutRecreate, PutMayWrite, PutReplace, DeleteUndeploy, DeleteUntopic, DeleteMayDelete,
         DeleteUngrant, DeleteDrop, Check, Outcomes
    <3>3. pc'[r] \in {"failed", label}
      BY <1>1, <3>2, Going
    <3> QED  BY <3>1, <3>3
  <2> QED  BY <2>2, <2>3
<1> QED  BY <1>1, <1>2, <1>3 DEF Settings, OnlyMoves

LEMMA NextSettings ==
    ASSUME Inv, Settings, [Next]_vars
    PROVE  Settings'
<1>1. ASSUME NEW r \in Reqs, Request(r) PROVE Settings'
  <2>1. pc \in [Reqs -> {"idle", "killed"} \cup Answers \cup Steps]
    BY DEF Inv, TypeInv, TypeOK, ControllerTypeOK
  <2>2. /\ UNCHANGED <<deployMode, topics, autoscalers>> /\ \A s \in Reqs \ {r} : pc'[s] = pc[s]
        /\ SkipKafkaAdmin => pc'[r] \notin {"topic", "untopic"}
    BY <1>1, <2>1 DEF Request, Post, Put, Delete, Receive, TurnDown, Return, Goto, deployVars
  <2> QED  BY <2>2 DEF Settings
<1>2. CASE Restore
  <2>1. UNCHANGED <<deployMode, topics, pc>>
    BY <1>2 DEF Restore, ListPage, Probe, ReadFails, Recreate, StoreSid, BootFrame, handlerVars
  <2>2. deployMode \notin Autoscaling => UNCHANGED autoscalers
    BY <1>2 DEF Restore, ListPage, Probe, ReadFails, Recreate, StoreSid, deployVars, Autoscaling,
       CreateContainer, DockerCreate, RancherCreate, RancherPost
  <2> QED  BY <2>1, <2>2 DEF Settings
<1>3. CASE Start \/ ShareInstance \/ LoseContainer \/ UNCHANGED vars
  BY <1>3 DEF Settings, Start, ShareInstance, LoseContainer, Lose, vars, controllerVars, handlerVars,
     deployVars
<1>4. CASE Crash
  BY <1>4 DEF Settings, Crash, deployVars
<1> QED  BY <1>1, <1>2, <1>3, <1>4, HandleSettings DEF Next, RequestStep

\* An instance whose stores agree has the container the restoration asks for.
LEMMA CompleteExists ==
    ASSUME SidsFit, deployMode \in Backends, NEW i \in Ids, Complete(i)
    PROVE  ContainerExists(records[i].sid, records[i].restart)
<1>1. PICK c \in containers : Named(i) = {c} /\ Matches(c, records[i])
  BY DEF Complete, Running
<1>2. records[i].sid[1] = i
  BY DEF SidsFit, SidsOf, Complete
<1> QED  BY <1>1, <1>2 DEF Matches, ContainerExists, DockerExists, KubernetesExists, RancherExists,
     Rancher2Exists, OfKind, Backends

LEMMA RestoreSpoils ==
    ASSUME Inv, StoresInv, HistoryNext, Restore
    PROVE  RestoresSpoiled'
<1>1. /\ proc = "boot" /\ boot \in Boot /\ UNCHANGED <<deployMode, perms>> /\ RestoresSpoiled
      /\ spoiled \subseteq spoiled' /\ overlapped \subseteq overlapped' /\ deployMode \in Backends
  BY DEF Inv, TypeInv, TypeOK, StartupTypeOK, ControllerTypeOK, StoresInv, HistoryNext, Restore,
     ListPage, Probe, ReadFails, Recreate, StoreSid, BootFrame
<1>2. CASE boot' = FirstPage
  BY <1>2 DEF RestoresSpoiled, FirstPage
<1>3. CASE ListPage /\ boot' # FirstPage
  <2>1. PICK page \in Pages(AdminVisible, boot.offset) :
            boot' = [boot EXCEPT !.stage = "probe", !.offset = boot.offset + Cardinality(page),
                                 !.todo = page]
    BY <1>3 DEF ListPage
  <2>2. page \subseteq AdminVisible
    BY <2>1 DEF Pages
  <2>3. boot'.todo = page /\ boot'.stage = "probe"
    BY <1>1, <2>1 DEF Boot
  <2> QED  BY <1>1, <2>2, <2>3 DEF RestoresSpoiled, AdminVisible
<1>4. CASE Probe
  <2>1. CASE boot.todo = {}
    BY <1>1, <1>4, <2>1 DEF Probe, RestoresSpoiled, Boot
  <2>2. CASE boot.todo # {}
    <3>1. PICK i \in boot.todo :
            IF ContainerExists(records[i].sid, records[i].restart)
            THEN boot' = [boot EXCEPT !.todo = boot.todo \ {i}]
            ELSE boot' = [boot EXCEPT !.stage = "create", !.todo = boot.todo \ {i}, !.inst = i]
      BY <1>4, <2>2 DEF Probe
    <3>2. i \in Ids /\ boot.stage = "probe" /\ perms[i] # NoPerms
      BY <1>1, <1>4 DEF Probe, Boot, RestoresSpoiled
    <3>3. ContainerExists(records[i].sid, records[i].restart) \/ ~Tracked(i)
      BY <1>1, <3>2, BootIsAlone, CompleteExists DEF Inv, StoresInv, Sound, Agreed
    <3>4. boot'.todo \subseteq boot.todo /\ (boot'.stage \in {"create", "store"} => ~Tracked(boot'.inst))
      BY <1>1, <3>1, <3>2, <3>3 DEF Boot
    <3> QED  BY <1>1, <3>4 DEF RestoresSpoiled, Tracked
  <2> QED  BY <2>1, <2>2
<1>5. CASE (Recreate \/ StoreSid) /\ boot' # FirstPage
  <2>1. boot'.todo = boot.todo /\ boot'.inst = boot.inst /\ boot.stage \in {"create", "store"}
    BY <1>1, <1>5 DEF Recreate, StoreSid, Exit, Boot
  <2> QED  BY <1>1, <2>1 DEF RestoresSpoiled, Tracked
<1>6. ReadFails => boot' = FirstPage
  BY DEF ReadFails, Exit
<1> QED  BY <1>2, <1>3, <1>4, <1>5, <1>6 DEF Restore

LEMMA NextSpoils ==
    ASSUME Inv, StoresInv, HistoryNext
    PROVE  RestoresSpoiled'
<1>1. /\ RestoresSpoiled /\ spoiled \subseteq spoiled' /\ overlapped \subseteq overlapped'
      /\ proc # "boot" => boot = FirstPage
      /\ FirstPage.todo = {} /\ FirstPage.stage = "list"
  BY DEF Inv, TypeInv, BootKnows, StoresInv, HistoryNext, FirstPage
<1>2. CASE \E r \in Reqs : RequestStep(r)
  <2>1. proc = "serving" /\ boot' = boot
    BY <1>2, HandleMoves DEF RequestStep, Request, Post, Put, Delete, Receive, Inv, TypeInv, Locals,
       Local
  <2> QED  BY <1>1, <2>1 DEF RestoresSpoiled
<1>3. CASE Start \/ Crash
  BY <1>1, <1>3 DEF Start, Crash, RestoresSpoiled
<1>4. CASE ShareInstance
  <2>1. \A j \in Ids : perms'[j] = NoPerms <=> perms[j] = NoPerms
    BY <1>4, ShareType, ShareAssumption DEF ShareInstance, Inv, TypeInv, TypeOK
  <2>2. boot \in Boot
    BY DEF Inv, TypeInv, TypeOK, StartupTypeOK
  <2> QED  BY <1>1, <1>4, <2>1, <2>2 DEF ShareInstance, RestoresSpoiled, Tracked, Boot
<1>5. CASE LoseContainer
  BY <1>1, <1>5 DEF LoseContainer, RestoresSpoiled, Tracked, storeVars
<1> QED  BY <1>2, <1>3, <1>4, <1>5, RestoreSpoils DEF HistoryNext, Next

-----------------------------------------------------------------------------

(***************************************************************************)
(* The theorems                                                            *)
(***************************************************************************)

LEMMA InitHistory == HistoryInit => HistoryInv
<1> SUFFICES ASSUME HistoryInit PROVE HistoryInv
  OBVIOUS
<1>1. Inv
  BY InitTypes, InitSafe DEF HistoryInit, Inv
<1>2. RestorationInv /\ Restoring
  BY InitRestoration
<1>3. /\ containers = {} /\ autoscalers = {} /\ topics = {} /\ \A r \in Reqs : pc[r] = "idle"
      /\ \A i \in Ids : records[i] = NoRecord /\ perms[i] = NoPerms
      /\ boot.todo = {} /\ proc = "down"
  BY DEF HistoryInit, Init, ControllerInit, KafkaInit, StoreInit, DeployInit, StartupInit, FirstPage
<1>4. Overlapping \subseteq overlapped /\ Settings /\ RestoresSpoiled
  BY <1>3 DEF Overlapping, InFlight, Steps, PostSteps, PutSteps, DeleteSteps, Settings, RestoresSpoiled
<1>5. \A i \in Ids : Sound(i)
  BY <1>3 DEF Sound, Holders, Halfway, PostSteps, DeleteSteps, Agreed, Absent, Undeployed, Named
<1> QED  BY <1>1, <1>2, <1>4, <1>5 DEF HistoryInv, RestorationInv, StoresInv

LEMMA NextHistory == HistoryInv /\ [HistoryNext]_historyVars => HistoryInv'
<1> SUFFICES ASSUME HistoryInv, [HistoryNext]_historyVars PROVE HistoryInv'
  OBVIOUS
<1>1. Inv /\ RestorationInv /\ StoresInv /\ [Next]_vars
  BY DEF HistoryInv, HistoryNext, historyVars
<1>2. Inv' /\ RestorationInv' /\ Settings' /\ Restoring'
  BY <1>1, NextTypes, NextSafe, NextRestoration, NextSettings, NextRestoring DEF Inv, StoresInv,
     HistoryInv
<1>3. CASE HistoryNext
  <2>1. (Overlapping \subseteq overlapped)'
    BY <1>3 DEF HistoryNext
  <2>2. RestoresSpoiled'
    BY <1>1, <1>3, NextSpoils
  <2>3. ASSUME NEW i \in Ids, Tracked(i)' PROVE Sound(i)'
    <3>1. CASE \E r \in Reqs : Request(r)
      BY <1>1, <1>3, <2>3, <3>1, RequestSound
    <3>2. CASE \E r \in Reqs : Handle(r)
      <4>1. PICK r \in Reqs : Handle(r)
        BY <3>2
      <4>2. CASE target[r] = i
        BY <1>1, <1>3, <2>3, <4>1, <4>2, HandleSound DEF Undisturbed
      <4>3. CASE target[r] # i
        <5>1. TypeInv /\ SidsFit /\ OnlyMoves(r) /\ target' = target /\ deployMode' = deployMode
          BY <1>1, <4>1, HandleMoves DEF Inv, StoresInv
        <5>2. Same(i)
          BY <4>1, <4>3, <5>1, HandleElsewhere
        <5>3. Sound(i)
          BY <1>1, <1>3, <2>3, <5>1, StaysTracked DEF StoresInv
        <5> QED  BY <4>3, <5>1, <5>2, <5>3, KeepSound
      <4> QED  BY <4>2, <4>3
    <3>3. CASE Restore
      BY <1>1, <1>3, <2>3, <3>3, RestoreSound
    <3>4. CASE Start \/ Crash \/ ShareInstance \/ LoseContainer
      BY <1>1, <1>3, <2>3, <3>4, OtherSound
    <3> QED  BY <1>3, <3>1, <3>2, <3>3, <3>4 DEF HistoryNext, Next, RequestStep
  <2> QED  BY <1>2, <2>1, <2>2, <2>3 DEF HistoryInv, StoresInv, RestorationInv
<1>4. CASE UNCHANGED historyVars
  <2>1. UNCHANGED <<overlapped, spoiled, pc, target, handlerVars, boot, proc, perms, deployMode>>
    BY <1>4 DEF historyVars, vars, controllerVars, handlerVars, storeVars
  <2>2. (Overlapping \subseteq overlapped)' /\ RestoresSpoiled'
    BY <1>1, <2>1 DEF StoresInv, Overlapping, InFlight, RestoresSpoiled, Tracked
  <2>3. ASSUME NEW i \in Ids, Tracked(i)' PROVE Sound(i)'
    <3>1. Tracked(i) /\ Sound(i)
      BY <1>1, <2>1, <2>3 DEF StoresInv, Tracked
    <3>2. Same(i)
      BY <1>4 DEF historyVars, vars, controllerVars, storeVars, deployVars, Same, Named
    <3> QED  BY <2>1, <3>1, <3>2, IdleSound
  <2> QED  BY <1>2, <2>2, <2>3 DEF HistoryInv, StoresInv, RestorationInv
<1> QED  BY <1>3, <1>4

\* What the five stores hold of an instance while one handler changes it, and that only
\* one does unless something failed; how far the restoration has come: with all four
\* backends, after any sequence of requests, crashes, restarts and restorations.
THEOREM HistoryInvHolds == HistorySpec => []HistoryInv
  BY InitHistory, NextHistory, PTL DEF HistorySpec

\* Document, rights, topic, container and autoscaler of an instance agree whenever no
\* request about it is being handled, if none overlapped and none was cut short.
THEOREM StoresAgreeAtRest == HistorySpec => []AllOrNothing
<1>1. HistoryInv => AllOrNothing
  BY DEF HistoryInv, StoresInv, AllOrNothing, Tracked, Sound, Quiet, Holders, InFlight, Halfway,
     Steps, PutSteps
<1> QED  BY <1>1, HistoryInvHolds, PTL

\* With docker and rancher1 they agree though requests about the instance overlapped:
\* RemoveContainer succeeds for one of them only.
THEOREM RemovalSerializes == HistorySpec => []OverlapsSerialized
<1>1. HistoryInv => OverlapsSerialized
  BY DEF HistoryInv, StoresInv, OverlapsSerialized, Tracked, Sound, Quiet, Holders, InFlight,
     Halfway, Steps, PutSteps
<1> QED  BY <1>1, HistoryInvHolds, PTL

\* The only step that takes a topic away is that of a DELETE.
LEMMA OnlyDeleteUntopics ==
    ASSUME Next, NEW i \in topics \ topics'
    PROVE  \E r \in Reqs : DeleteUntopic(r) /\ target[r] = i
<1>1. CASE \E r \in Reqs : Handle(r)
  <2>1. PICK r \in Reqs : Handle(r)
    BY <1>1
  <2>2. CASE DeleteUntopic(r)
    BY <2>2 DEF DeleteUntopic, DeleteTopic
  <2>3. CASE PostTopic(r)
    BY <2>3 DEF PostTopic, CreateTopic
  <2>4. CASE ~DeleteUntopic(r) /\ ~PostTopic(r)
    BY <2>1, <2>4 DEF Handle, PostCreate, PostInsert, PostGrant, PutFind, PutUpdate, PutRemove,
       PutRecreate, PutMayWrite, PutReplace, DeleteFind, DeleteUndeploy, DeleteMayDelete,
       DeleteUngrant, DeleteDrop, Check
  <2> QED  BY <2>2, <2>3, <2>4
<1>2. CASE \E r \in Reqs : Request(r)
  BY <1>2 DEF Request, Post, Put, Delete, Receive
<1>3. CASE Restore
  BY <1>3 DEF Restore, ListPage, Probe, ReadFails, Recreate, StoreSid, BootFrame
<1>4. CASE Start \/ Crash \/ ShareInstance \/ LoseContainer
  BY <1>4 DEF Start, Crash, ShareInstance, LoseContainer
<1> QED  BY <1>1, <1>2, <1>3, <1>4 DEF Next, RequestStep

\* A DELETE has removed the container when it deletes the topic, and no other handler has
\* started one since.
THEOREM TopicsGoLast == HistorySpec => TopicGoesLast
<1>1. ASSUME HistoryInv, HistoryNext, NEW i \in topics \ topics'
      PROVE  \/ Undeployed(i)
             \/ i \in spoiled
             \/ i \in overlapped /\ deployMode \notin EngineIssued
  <2>1. PICK r \in Reqs : DeleteUntopic(r) /\ target[r] = i
    BY <1>1, OnlyDeleteUntopics DEF HistoryNext
  <2>2. pc[r] = "untopic" /\ i \in Ids
    BY <1>1, <2>1 DEF DeleteUntopic, HistoryInv, Inv, TypeInv, TypeOK, ControllerTypeOK
  <2>3. CASE Tracked(i)
    <3>1. r \in Holders(i)
      BY <2>1, <2>2 DEF Holders, Halfway, DeleteSteps
    <3>2. Amid(r)
      BY <1>1, <2>2, <2>3, <3>1 DEF HistoryInv, StoresInv, Sound
    <3> QED  BY <2>1, <2>2, <3>2 DEF Amid
  <2>4. CASE ~Tracked(i)
    BY <2>4 DEF Tracked
  <2> QED  BY <2>3, <2>4
<1>2. HistoryInv /\ [HistoryNext]_historyVars =>
        [\A i \in topics \ topics' :
            \/ Undeployed(i)
            \/ i \in spoiled
            \/ i \in overlapped /\ deployMode \notin EngineIssued]_historyVars
  BY <1>1
<1> QED  BY <1>2, HistoryInvHolds, PTL DEF HistorySpec, TopicGoesLast
=============================================================================
