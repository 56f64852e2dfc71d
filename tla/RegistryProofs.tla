---------------------------- MODULE RegistryProofs ---------------------------
(***************************************************************************)
(* The service implements the registry, for all values of the constants:   *)
(* RegistrySpec.  Every step is one operation of the registry, or changes  *)
(* nothing that shows.                                                     *)
(***************************************************************************)
EXTENDS ImportDeployProofs

\* Besides Inv: what is created has an owner, and an update that shows does not change
\* the import type it has compared long before.
Owned == \A r \in Reqs : pc[r] \in PostSteps => instance[r].owner \in Users

SameType ==
    \A r \in Reqs : pc[r] \in PutSteps \ {"find"} /\ perms[target[r]] # NoPerms
        => records[target[r]].itype = instance[r].itype

RefinementInv == Owned /\ SameType

-----------------------------------------------------------------------------

(***************************************************************************)
(* The operations of the registry, seen at the variables of the service    *)
(***************************************************************************)

\* Nothing that shows changes, but for the instances of a set.
OthersSame(S) ==
    \A j \in Ids \ S : /\ perms'[j] = perms[j]
                       /\ StatusOf(j)' = StatusOf(j)
                       /\ DocOf(j)' = DocOf(j)

LEMMA ShowsNothing ==
    ASSUME StoreTypeOK, StoreTypeOK', OthersSame({})
    PROVE  UNCHANGED Shown!registryVars
<1>1. perms' = perms
  BY DEF StoreTypeOK, OthersSame
<1>2. /\ [i \in Ids |-> StatusOf(i)]' = [i \in Ids |-> StatusOf(i)]
      /\ [i \in Ids |-> DocOf(i)]' = [i \in Ids |-> DocOf(i)]
  BY DEF OthersSame
<1> QED  BY <1>1, <1>2 DEF Shown!registryVars

LEMMA ShowsPublish ==
    ASSUME StoreTypeOK, StoreTypeOK', NEW i \in Ids, NEW u \in Users, OthersSame({i}),
           StatusOf(i) = "unborn", StatusOf(i)' = "listed", DocOf(i)' \in Document,
           perms'[i] = SetDefaultPermissions(u, NoUserPermissions)
    PROVE  Shown!Next
<1>1. perms' = [perms EXCEPT ![i] = SetDefaultPermissions(u, NoUserPermissions)]
  BY DEF StoreTypeOK, OthersSame
<1>2. [j \in Ids |-> StatusOf(j)]' = [[j \in Ids |-> StatusOf(j)] EXCEPT ![i] = "listed"]
  BY DEF OthersSame
<1>3. [j \in Ids |-> DocOf(j)]' = [[j \in Ids |-> DocOf(j)] EXCEPT ![i] = DocOf(i)']
  BY DEF OthersSame
<1>4. Shown!Publish(i)
  BY <1>1, <1>2, <1>3 DEF Shown!Publish, Shown!Document, Document, Shown!SetDefaultPermissions,
     SetDefaultPermissions, Shown!NoUserPermissions, NoUserPermissions, Shown!Rights, Rights
<1> QED  BY <1>4 DEF Shown!Next

LEMMA ShowsAbandon ==
    ASSUME StoreTypeOK, StoreTypeOK', NEW S \in SUBSET Ids, OthersSame(S), UNCHANGED perms,
           \A i \in S : perms[i] = NoPerms /\ StatusOf(i) = "unborn" /\ StatusOf(i)' = "gone"
    PROVE  Shown!Next
<1>1. [j \in Ids |-> StatusOf(j)]'
        = [j \in Ids |-> IF j \in S THEN "gone" ELSE [k \in Ids |-> StatusOf(k)][j]]
  BY DEF OthersSame
<1>2. [j \in Ids |-> DocOf(j)]' = [j \in Ids |-> DocOf(j)]
  <2>1. \A j \in Ids : DocOf(j)' = DocOf(j)
    BY DEF OthersSame, DocOf
  <2> QED  BY <2>1
<1>3. Shown!Abandon(S)
  BY <1>1, <1>2 DEF Shown!Abandon
<1> QED  BY <1>3 DEF Shown!Next

LEMMA ShowsEdit ==
    ASSUME StoreTypeOK, StoreTypeOK', NEW i \in Ids, OthersSame({i}), UNCHANGED perms,
           StatusOf(i) = "listed", StatusOf(i)' = "listed", DocOf(i)' \in Document,
           DocOf(i)'.itype = DocOf(i).itype
    PROVE  Shown!Next
<1>1. [j \in Ids |-> StatusOf(j)]' = [j \in Ids |-> StatusOf(j)]
  BY DEF OthersSame
<1>2. [j \in Ids |-> DocOf(j)]' = [[j \in Ids |-> DocOf(j)] EXCEPT ![i] = DocOf(i)']
  BY DEF OthersSame
<1>3. Shown!Edit(i)
  BY <1>1, <1>2 DEF Shown!Edit, Shown!Document, Document
<1> QED  BY <1>3 DEF Shown!Next

LEMMA ShowsShare ==
    ASSUME StoreTypeOK, StoreTypeOK', NEW i \in Ids, NEW u \in Users, NEW rights \in SUBSET Rights,
           perms' = [perms EXCEPT ![i][u] = rights], StatusOf(i) = "listed",
           \A j \in Ids : StatusOf(j)' = StatusOf(j) /\ DocOf(j)' = DocOf(j)
    PROVE  Shown!Next
<1>1. /\ [j \in Ids |-> StatusOf(j)]' = [j \in Ids |-> StatusOf(j)]
      /\ [j \in Ids |-> DocOf(j)]' = [j \in Ids |-> DocOf(j)]
  OBVIOUS
<1>2. Shown!ShareWith(i, u)
  BY <1>1 DEF Shown!ShareWith, Shown!Rights, Rights
<1> QED  BY <1>2 DEF Shown!Next

LEMMA ShowsRetire ==
    ASSUME StoreTypeOK, StoreTypeOK', NEW i \in Ids, OthersSame({i}),
           StatusOf(i) = "listed", StatusOf(i)' = "gone", perms'[i] = NoPerms
    PROVE  Shown!Next
<1>1. perms' = [perms EXCEPT ![i] = NoPerms]
  BY DEF StoreTypeOK, OthersSame
<1>2. [j \in Ids |-> StatusOf(j)]' = [[j \in Ids |-> StatusOf(j)] EXCEPT ![i] = "gone"]
  BY DEF OthersSame
<1>3. DocOf(i)' = NoRecord
  BY DEF DocOf
<1>4. [j \in Ids |-> DocOf(j)]' = [[j \in Ids |-> DocOf(j)] EXCEPT ![i] = NoRecord]
  BY <1>3 DEF OthersSame
<1>5. Shown!Retire(i)
  BY <1>1, <1>2, <1>4 DEF Shown!Retire
<1> QED  BY <1>5 DEF Shown!Next

-----------------------------------------------------------------------------

(***************************************************************************)
(* The steps of the handlers                                               *)
(***************************************************************************)

ShownStep == Shown!Next \/ UNCHANGED Shown!registryVars

\* A POST that goes on, and any other handler, leaves alone which instances are created.
LEMMA CreatingStays ==
    ASSUME NEW r \in Reqs, NEW labels, MovesTo(r, labels), pc[r] \in Steps,
           op[r] = "POST" => pc'[r] \in Steps
    PROVE  \A i \in Ids : Creating(i)' <=> Creating(i)
  BY DEF MovesTo, Creating, InFlight

\* A POST that ends was the only one to create its instance.
LEMMA CreatingEnds ==
    ASSUME NEW r \in Reqs, NEW labels, MovesTo(r, labels), IdsAreIssued,
           op[r] = "POST", pc[r] \in Steps, pc'[r] \notin Steps
    PROVE  /\ Creating(target[r]) /\ ~Creating(target[r])'
           /\ \A i \in Ids \ {target[r]} : Creating(i)' <=> Creating(i)
  BY DEF MovesTo, Creating, InFlight, IdsAreIssued

\* A handler's step after which everything that showed shows as before: at most a POST
\* has failed.
LEMMA HiddenMove ==
    ASSUME Inv, StoreTypeOK', NEW r \in Reqs, NEW labels, MovesTo(r, labels), pc[r] \in Steps,
           UNCHANGED perms,
           \A j \in Ids : perms[j] # NoPerms => DocumentOf(records'[j]) = DocumentOf(records[j])
    PROVE  ShownStep
<1>1. StoreTypeOK /\ IdsAreIssued /\ CreatingIsHidden /\ Local(r) /\ target[r] \in Ids
  BY DEF Inv, TypeInv, TypeOK, Locals, SafeInv, ControllerTypeOK
<1>2. \A j \in Ids : DocOf(j)' = DocOf(j)
  BY DEF DocOf
<1>3. op[r] = "POST" => pc[r] \in PostSteps
  BY <1>1 DEF Local, Steps, PostSteps, PutSteps, DeleteSteps
<1>4. CASE op[r] = "POST" => pc'[r] \in Steps
  <2>1. \A j \in Ids : StatusOf(j)' = StatusOf(j)
    BY <1>4, CreatingStays DEF StatusOf, MovesTo
  <2>2. OthersSame({})
    BY <1>2, <2>1 DEF OthersSame
  <2> QED  BY <1>1, <2>2, ShowsNothing DEF ShownStep
<1>5. CASE op[r] = "POST" /\ pc'[r] \notin Steps
  <2>1. /\ Creating(target[r]) /\ ~Creating(target[r])'
        /\ \A i \in Ids \ {target[r]} : Creating(i)' <=> Creating(i)
    BY <1>1, <1>5, CreatingEnds
  <2>2. OthersSame({target[r]})
    BY <1>2, <2>1 DEF OthersSame, StatusOf, MovesTo
  <2>3. perms[target[r]] = NoPerms /\ target[r] \in issued
    BY <1>1, <1>3, <1>5 DEF CreatingIsHidden, IdsAreIssued
  <2>4. StatusOf(target[r]) = "unborn" /\ StatusOf(target[r])' = "gone"
    BY <2>1, <2>3 DEF StatusOf, MovesTo
  <2>5. PICK i \in Ids : i = target[r] /\ i = target'[r]
    BY <1>1 DEF MovesTo
  <2>6. /\ {i} \in SUBSET Ids /\ OthersSame({i})
        /\ \A j \in {i} : perms[j] = NoPerms /\ StatusOf(j) = "unborn" /\ StatusOf(j)' = "gone"
    BY <2>2, <2>3, <2>4, <2>5
  <2>7. Shown!Next
    BY <1>1, <2>6, ShowsAbandon
  <2> QED  BY <2>7 DEF ShownStep
<1> QED  BY <1>4, <1>5

\* A handler's step keeps RefinementInv if it keeps its owner, if it changes no import
\* type that shows, and if it has compared its own.
LEMMA MoveKeeps ==
    ASSUME TypeInv, RefinementInv, NEW r \in Reqs, NEW labels, MovesTo(r, labels),
           pc'[r] \in PostSteps => instance'[r].owner \in Users,
           \A s \in Reqs : pc[s] \in PutSteps \ {"find"} /\ perms'[target[s]] # NoPerms
               => /\ perms[target[s]] # NoPerms
                  /\ records'[target[s]].itype = records[target[s]].itype,
           pc'[r] \in PutSteps \ {"find"} /\ perms'[target[r]] # NoPerms
               => records'[target[r]].itype = instance'[r].itype
    PROVE  RefinementInv'
<1>1. Owned'
  BY DEF RefinementInv, Owned, MovesTo
<1>2. SameType'
  BY DEF RefinementInv, SameType, MovesTo
<1> QED  BY <1>1, <1>2 DEF RefinementInv

\* No step of QuietStep shows, but for a POST that fails.
LEMMA QuietRefines ==
    ASSUME Inv, RefinementInv, NEW r \in Reqs, QuietStep(r), TypeInv'
    PROVE  RefinementInv' /\ ShownStep
<1>1. PICK labels \in SUBSET (Steps \ {"grant", "drop"}) :
        /\ MovesTo(r, labels)
        /\ UNCHANGED storeVars
        /\ pc[r] \in Steps
        /\ pc[r] \notin PostSteps => labels \cap PostSteps = {}
        /\ pc'[r] \in Steps => /\ instance'[r].itype = instance[r].itype
                               /\ instance'[r].owner = instance[r].owner
  BY QuietMoves DEF Inv
<1>2. UNCHANGED <<records, perms>> /\ UNCHANGED <<op, target>> /\ Local(r) /\ Local(r)'
      /\ StoreTypeOK'
  BY <1>1 DEF storeVars, MovesTo, Inv, TypeInv, TypeOK, Locals
<1>3. ShownStep
  BY <1>1, <1>2, HiddenMove
<1>4. pc'[r] \in PostSteps => instance'[r].owner \in Users
  BY <1>1 DEF MovesTo, RefinementInv, Owned, Steps, PostSteps, PutSteps, DeleteSteps
<1>5. pc'[r] \in PutSteps \ {"find"} /\ perms'[target[r]] # NoPerms
        => records'[target[r]].itype = instance'[r].itype
  <2>1. SUFFICES ASSUME pc'[r] \in PutSteps \ {"find"}, perms'[target[r]] # NoPerms
                 PROVE  records'[target[r]].itype = instance'[r].itype
    OBVIOUS
  <2>2. op[r] = "PUT" /\ instance'[r].itype = instance[r].itype
    BY <1>1, <1>2, <2>1 DEF Local, Steps, PostSteps, PutSteps, DeleteSteps
  <2>3. CASE pc[r] = "find"
    <3>1. PutFind(r)
      BY <2>2, <2>3 DEF QuietStep, PostTopic, PostCreate, PutFind, PutUpdate, PutRemove, PutRecreate,
         PutMayWrite, DeleteFind, DeleteUndeploy, DeleteUntopic, DeleteMayDelete
    <3>2. ~TurnDown(r)
      BY <1>2, <2>1 DEF TurnDown, Return, Goto, Inv, TypeInv, TypeOK, ControllerTypeOK,
         Steps, PostSteps, PutSteps, DeleteSteps
    <3> QED  BY <1>2, <2>2, <3>1, <3>2 DEF PutFind
  <2>4. CASE pc[r] # "find"
    <3>1. pc[r] \in PutSteps \ {"find"}
      BY <1>1, <1>2, <2>2, <2>4 DEF Local, Steps, PostSteps, PutSteps, DeleteSteps
    <3> QED  BY <1>2, <2>1, <2>2, <3>1 DEF RefinementInv, SameType
  <2> QED  BY <2>3, <2>4
<1>6. RefinementInv'
  BY <1>1, <1>2, <1>4, <1>5, MoveKeeps DEF Inv
<1> QED  BY <1>3, <1>6

\* The document of a POST is stored while nobody has rights on it.
LEMMA InsertRefines ==
    ASSUME Inv, RefinementInv, NEW r \in Reqs, PostInsert(r), StoreTypeOK'
    PROVE  RefinementInv' /\ ShownStep
<1> USE DEF Steps, PostSteps, PutSteps, DeleteSteps
<1>1. ControllerTypeOK /\ StoreTypeOK /\ pc[r] = "insert" /\ target[r] \in Ids
  BY DEF PostInsert, Inv, TypeInv, TypeOK, ControllerTypeOK
<1>2. PICK o \in Outcomes : /\ InsertOne(target[r], instance[r], o) /\ Spend(o)
                            /\ Proceed(r, o, "grant") /\ HandlerFrame
  BY DEF PostInsert
<1>3. MovesTo(r, {"grant"}) /\ (pc'[r] \in Steps => instance'[r] = instance[r])
  BY <1>1, <1>2, ProceedMoves
<1>4. /\ UNCHANGED perms /\ perms[target[r]] = NoPerms
      /\ \A j \in Ids \ {target[r]} : records'[j] = records[j]
  BY <1>1, <1>2 DEF InsertOne, StoreTypeOK, Inv, SafeInv, CreatingIsHidden
<1>5. \A j \in Ids : perms[j] # NoPerms => records'[j] = records[j]
  BY <1>4
<1>6. ShownStep
  BY <1>1, <1>3, <1>4, <1>5, HiddenMove
<1>7. pc'[r] \in PostSteps => instance'[r].owner \in Users
  BY <1>1, <1>3 DEF RefinementInv, Owned
<1>8. pc'[r] \notin PutSteps
  BY <1>3 DEF MovesTo
<1>9. RefinementInv'
  BY <1>1, <1>3, <1>4, <1>5, <1>7, <1>8, MoveKeeps DEF Inv, ControllerTypeOK
<1> QED  BY <1>6, <1>9

\* With its owner's rights the instance shows, whole.
LEMMA GrantRefines ==
    ASSUME Inv, RefinementInv, NEW r \in Reqs, PostGrant(r), StoreTypeOK'
    PROVE  RefinementInv' /\ ShownStep
<1> USE DEF Steps, PostSteps, PutSteps, DeleteSteps
<1>1. /\ ControllerTypeOK /\ StoreTypeOK /\ Local(r) /\ target[r] \in Ids /\ pc[r] = "grant"
      /\ op[r] = "POST" /\ IdsAreIssued /\ records[target[r]] \in Record
      /\ perms[target[r]] = NoPerms /\ instance[r].owner \in Users
  BY DEF PostGrant, Inv, TypeInv, TypeOK, Locals, Local, ControllerTypeOK, SafeInv,
         CreatingIsHidden, StoreTypeOK, RefinementInv, Owned
<1>2. PICK o \in Outcomes : /\ GrantOwner(target[r], instance[r].owner, o) /\ Spend(o)
                            /\ Proceed(r, o, "ok") /\ HandlerFrame
  BY DEF PostGrant
<1>3. MovesTo(r, {"ok"}) /\ pc'[r] \in {"ok", "failed"}
  <2>1. MovesTo(r, {"ok"})
    BY <1>1, <1>2, ProceedMoves DEF Answers
  <2> QED  BY <2>1 DEF MovesTo
<1>4. PICK i \in Ids : i = target[r] /\ i = target'[r]
  BY <1>1, <1>3 DEF MovesTo
<1>5. UNCHANGED records /\ \A j \in Ids \ {i} : perms'[j] = perms[j]
  BY <1>1, <1>2, <1>4, GrantType DEF GrantOwner
<1>6. RefinementInv'
  <2>1. \A s \in Reqs : pc[s] \in PutSteps \ {"find"} => target[s] # i
    BY <1>1, <1>4 DEF Inv, TypeInv, Locals, Local, SafeInv, LateComers
  <2> QED  BY <1>1, <1>3, <1>5, <2>1, MoveKeeps DEF Inv, ControllerTypeOK
<1>7. CASE perms'[i] = perms[i]
  <2>1. UNCHANGED perms
    BY <1>1, <1>2, <1>4, <1>7 DEF GrantOwner, StoreTypeOK
  <2>2. ShownStep
    BY <1>1, <1>3, <1>5, <2>1, HiddenMove
  <2> QED  BY <1>6, <2>2
<1>8. CASE perms'[i] # perms[i]
  <2>1. perms'[i] = SetDefaultPermissions(instance[r].owner, NoUserPermissions)
    BY <1>1, <1>2, <1>4, <1>8 DEF GrantOwner, StoreTypeOK
  <2>2. Creating(i) /\ \A j \in Ids \ {i} : Creating(j)' <=> Creating(j)
    BY <1>1, <1>3, <1>4, CreatingEnds
  <2>3. StatusOf(i) = "unborn" /\ StatusOf(i)' = "listed"
    BY <1>1, <1>4, <1>8, <2>2 DEF StatusOf
  <2>4. DocOf(i)' \in Document
    BY <1>1, <1>4, <1>5, <1>8 DEF DocOf, DocumentOf, Document, Record
  <2>5. OthersSame({i})
    BY <1>3, <1>5, <2>2 DEF OthersSame, StatusOf, DocOf, MovesTo
  <2>6. Shown!Next
    BY <1>1, <2>1, <2>3, <2>4, <2>5, ShowsPublish
  <2> QED  BY <1>6, <2>6 DEF ShownStep
<1> QED  BY <1>7, <1>8

\* A document that shows is replaced by one of the same import type; of a document
\* whose rights were withdrawn in the meantime nothing shows.
LEMMA ReplaceRefines ==
    ASSUME Inv, RefinementInv, NEW r \in Reqs, PutReplace(r), StoreTypeOK'
    PROVE  RefinementInv' /\ ShownStep
<1> USE DEF Steps, PostSteps, PutSteps, DeleteSteps
<1>1. /\ ControllerTypeOK /\ StoreTypeOK /\ target[r] \in Ids /\ pc[r] = "replace"
      /\ op[r] = "PUT" /\ instance[r] \in Record
      /\ perms[target[r]] # NoPerms => records[target[r]] \in Record
                                       /\ records[target[r]].itype = instance[r].itype
  BY DEF PutReplace, Inv, TypeInv, TypeOK, Locals, Local, ControllerTypeOK, SafeInv,
         PermImpliesRecord, StoreTypeOK, RefinementInv, SameType
<1>2. PICK o \in Outcomes : /\ ReplaceOrInsert(target[r], instance[r], o) /\ Spend(o)
                            /\ Proceed(r, o, "ok") /\ HandlerFrame
  BY DEF PutReplace
<1>3. MovesTo(r, {"ok"}) /\ pc'[r] \in {"ok", "failed"}
  <2>1. MovesTo(r, {"ok"})
    BY <1>1, <1>2, ProceedMoves DEF Answers
  <2> QED  BY <2>1 DEF MovesTo
<1>4. PICK i \in Ids : i = target[r]
  BY <1>1
<1>5. /\ UNCHANGED perms /\ \A j \in Ids \ {i} : records'[j] = records[j]
      /\ records'[i] \in {records[i], instance[r]}
  BY <1>1, <1>2, <1>4 DEF ReplaceOrInsert, StoreTypeOK
<1>6. \A j \in Ids : perms[j] # NoPerms => records'[j].itype = records[j].itype
  BY <1>1, <1>4, <1>5
<1>7. RefinementInv'
  BY <1>1, <1>3, <1>5, <1>6, MoveKeeps DEF Inv, ControllerTypeOK
<1>8. CASE perms[i] = NoPerms
  <2>1. \A j \in Ids : perms[j] # NoPerms => records'[j] = records[j]
    BY <1>5, <1>8
  <2>2. ShownStep
    BY <1>1, <1>3, <1>5, <2>1, HiddenMove
  <2> QED  BY <1>7, <2>2
<1>9. CASE perms[i] # NoPerms
  <2>1. \A j \in Ids : Creating(j)' <=> Creating(j)
    BY <1>1, <1>3, CreatingStays
  <2>2. OthersSame({i})
    BY <1>3, <1>5, <2>1 DEF OthersSame, StatusOf, DocOf, MovesTo
  <2>3. StatusOf(i) = "listed" /\ StatusOf(i)' = "listed"
    BY <1>5, <1>9 DEF StatusOf
  <2>4. records[i] \in Record /\ records'[i] \in Record
    BY <1>1, <1>4, <1>5, <1>9
  <2>5. DocOf(i)' \in Document /\ DocOf(i)'.itype = DocOf(i).itype
    BY <1>5, <1>6, <1>9, <2>4 DEF DocOf, DocumentOf, Document, Record
  <2>6. Shown!Next
    BY <1>1, <1>5, <2>2, <2>3, <2>5, ShowsEdit
  <2> QED  BY <1>7, <2>6 DEF ShownStep
<1> QED  BY <1>8, <1>9

\* When its rights are withdrawn an instance is gone, and its document is no longer
\* missed when it is deleted.
LEMMA RemoveRefines ==
    ASSUME Inv, RefinementInv, NEW r \in Reqs, DeleteUngrant(r) \/ DeleteDrop(r), StoreTypeOK'
    PROVE  RefinementInv' /\ ShownStep
<1> USE DEF Steps, PostSteps, PutSteps, DeleteSteps
<1>1. /\ ControllerTypeOK /\ StoreTypeOK /\ target[r] \in Ids /\ pc[r] \in {"ungrant", "drop"}
      /\ op[r] = "DELETE" /\ (pc[r] = "drop" => perms[target[r]] = NoPerms)
      /\ target[r] \in issued /\ \A s \in Reqs : pc[s] \in PostSteps => target[s] # target[r]
  BY DEF DeleteUngrant, DeleteDrop, Inv, TypeInv, TypeOK, Locals, Local, ControllerTypeOK, SafeInv,
         LateComers, DropIsHidden
<1>2. PICK label \in {"drop", "ok"}, o \in Outcomes :
        /\ \/ pc[r] = "ungrant" /\ label = "drop" /\ RemoveResource(target[r], o)
           \/ pc[r] = "drop" /\ label = "ok" /\ DeleteOne(target[r], o)
        /\ Spend(o) /\ Proceed(r, o, label) /\ HandlerFrame
  BY DEF DeleteUngrant, DeleteDrop
<1>3. MovesTo(r, {label}) /\ pc'[r] \in {"drop", "ok", "failed"}
  <2>1. MovesTo(r, {label})
    BY <1>1, <1>2, ProceedMoves DEF Answers
  <2> QED  BY <2>1 DEF MovesTo
<1>4. PICK i \in Ids : i = target[r]
  BY <1>1
<1>5. /\ \A j \in Ids \ {i} : records'[j] = records[j] /\ perms'[j] = perms[j]
      /\ perms'[i] # perms[i] => perms'[i] = NoPerms
      /\ perms'[i] = perms[i] => perms' = perms
      /\ perms[i] # NoPerms => records'[i] = records[i]
  BY <1>1, <1>2, <1>4 DEF RemoveResource, DeleteOne, StoreTypeOK
<1>6. \A j \in Ids : perms'[j] # NoPerms => perms[j] # NoPerms /\ records'[j] = records[j]
  BY <1>5
<1>7. RefinementInv'
  BY <1>1, <1>3, <1>6, MoveKeeps DEF Inv, ControllerTypeOK
<1>8. CASE perms'[i] = perms[i]
  <2>1. UNCHANGED perms
    BY <1>5, <1>8
  <2>2. ShownStep
    BY <1>1, <1>3, <1>6, <2>1, HiddenMove
  <2> QED  BY <1>7, <2>2
<1>9. CASE perms'[i] # perms[i]
  <2>1. \A j \in Ids : Creating(j)' <=> Creating(j)
    BY <1>1, <1>3, CreatingStays
  <2>2. OthersSame({i})
    BY <1>3, <1>5, <2>1 DEF OthersSame, StatusOf, DocOf, MovesTo
  <2>3. ~Creating(i)
    BY <1>1, <1>4 DEF Creating, InFlight, Inv, TypeInv, Locals, Local
  <2>4. StatusOf(i) = "listed" /\ StatusOf(i)' = "gone" /\ perms'[i] = NoPerms
    BY <1>1, <1>3, <1>4, <1>5, <1>9, <2>1, <2>3 DEF StatusOf, MovesTo
  <2>5. Shown!Next
    BY <1>1, <2>2, <2>4, ShowsRetire
  <2> QED  BY <1>7, <2>5 DEF ShownStep
<1> QED  BY <1>8, <1>9

LEMMA HandleRefines ==
    ASSUME Inv, RefinementInv, NEW r \in Reqs, Handle(r), TypeInv'
    PROVE  RefinementInv' /\ ShownStep
<1>1. StoreTypeOK'
  BY DEF TypeInv, TypeOK
<1>2. CASE QuietStep(r)
  BY <1>2, QuietRefines
<1>3. CASE PostInsert(r)
  BY <1>1, <1>3, InsertRefines
<1>4. CASE PostGrant(r)
  BY <1>1, <1>4, GrantRefines
<1>5. CASE PutReplace(r)
  BY <1>1, <1>5, ReplaceRefines
<1>6. CASE DeleteUngrant(r) \/ DeleteDrop(r)
  BY <1>1, <1>6, RemoveRefines
<1> QED  BY <1>2, <1>3, <1>4, <1>5, <1>6 DEF Handle, QuietStep

-----------------------------------------------------------------------------

(***************************************************************************)
(* The other steps                                                         *)
(***************************************************************************)

\* Nothing shows that does not depend on the stores, the ids and the handlers.
LEMMA StutterRefines ==
    ASSUME Inv, RefinementInv, StoreTypeOK',
           UNCHANGED <<records, perms, issued, pc, op, target, instance>>
    PROVE  RefinementInv' /\ ShownStep
<1>1. RefinementInv'
  BY DEF RefinementInv, Owned, SameType
<1>2. \A j \in Ids : Creating(j)' <=> Creating(j)
  BY DEF Creating, InFlight
<1>3. OthersSame({})
  BY <1>2 DEF OthersSame, StatusOf, DocOf
<1> QED  BY <1>1, <1>3, ShowsNothing DEF ShownStep, Inv, TypeInv, TypeOK

\* A new id is unborn as long as its POST runs, and used up when it is turned down.
LEMMA PostRefines ==
    ASSUME Inv, RefinementInv, NEW r \in Reqs, Post(r), StoreTypeOK'
    PROVE  RefinementInv' /\ ShownStep
<1> USE DEF Steps, PostSteps, PutSteps, DeleteSteps
<1>1. ControllerTypeOK /\ StoreTypeOK /\ IdsAreIssued
  BY DEF Inv, TypeInv, TypeOK, SafeInv
<1>2. PICK i \in Ids \ issued, u \in Users :
        /\ Receive(r, "POST", u, i)
        /\ issued' = issued \cup {i}
        /\ \/ TurnDown(r)
           \/ \E t \in Types, restart \in BOOLEAN, c \in Confs :
                /\ instance' = [instance EXCEPT ![r] =
                        [itype |-> t, restart |-> restart, conf |-> c, owner |-> u, sid |-> NoSid]]
                /\ Goto(r, IF SkipKafkaAdmin THEN "create" ELSE "topic")
                /\ UNCHANGED existing
  BY DEF Post
<1>3. /\ UNCHANGED <<records, perms>> /\ pc[r] = "idle" /\ op'[r] = "POST" /\ target'[r] = i
      /\ pc'[r] \in {"topic", "create", "failed"}
      /\ \A s \in Reqs \ {r} : /\ pc'[s] = pc[s] /\ op'[s] = op[s] /\ target'[s] = target[s]
                               /\ instance'[s] = instance[s]
  BY <1>1, <1>2 DEF Receive, storeVars, TurnDown, Return, Goto, ControllerTypeOK
<1>4. pc'[r] # "failed" => instance'[r].owner = u
  BY <1>1, <1>2 DEF TurnDown, Return, Goto, ControllerTypeOK
<1>5. RefinementInv'
  <2>1. Owned'
    BY <1>3, <1>4 DEF RefinementInv, Owned
  <2>2. SameType'
    BY <1>3 DEF RefinementInv, SameType
  <2> QED  BY <2>1, <2>2 DEF RefinementInv
<1>6. /\ ~Creating(i) /\ (Creating(i)' <=> pc'[r] \in Steps)
      /\ \A j \in Ids \ {i} : Creating(j)' <=> Creating(j)
  BY <1>1, <1>2, <1>3 DEF Creating, InFlight, IdsAreIssued
<1>7. perms[i] = NoPerms
  BY <1>1, <1>2 DEF IdsAreIssued
<1>8. OthersSame({i})
  BY <1>2, <1>3, <1>6 DEF OthersSame, StatusOf, DocOf
<1>9. CASE pc'[r] \in Steps
  <2>1. StatusOf(i)' = StatusOf(i) /\ DocOf(i)' = DocOf(i)
    BY <1>2, <1>3, <1>6, <1>7, <1>9 DEF StatusOf, DocOf
  <2>2. OthersSame({})
    BY <1>3, <1>8, <2>1 DEF OthersSame
  <2> QED  BY <1>1, <1>5, <2>2, ShowsNothing DEF ShownStep
<1>10. CASE pc'[r] \notin Steps
  <2>1. StatusOf(i) = "unborn" /\ StatusOf(i)' = "gone"
    BY <1>2, <1>3, <1>6, <1>7, <1>10 DEF StatusOf
  <2>2. {i} \in SUBSET Ids /\ \A j \in {i} : /\ perms[j] = NoPerms
                                             /\ StatusOf(j) = "unborn" /\ StatusOf(j)' = "gone"
    BY <1>7, <2>1
  <2>3. Shown!Next
    BY <1>1, <1>3, <1>8, <2>2, ShowsAbandon
  <2> QED  BY <1>5, <2>3 DEF ShownStep
<1> QED  BY <1>9, <1>10

\* A PUT or a DELETE arrives: nothing shows.
LEMMA LateRequestRefines ==
    ASSUME Inv, RefinementInv, NEW r \in Reqs, Put(r) \/ Delete(r), StoreTypeOK'
    PROVE  RefinementInv' /\ ShownStep
<1> USE DEF Steps, PostSteps, PutSteps, DeleteSteps
<1>1. ControllerTypeOK /\ StoreTypeOK
  BY DEF Inv, TypeInv, TypeOK
<1>2. /\ UNCHANGED <<records, perms, issued>> /\ pc[r] = "idle" /\ op'[r] # "POST"
      /\ pc'[r] \in {"find", "failed"}
      /\ \A s \in Reqs \ {r} : /\ pc'[s] = pc[s] /\ op'[s] = op[s] /\ target'[s] = target[s]
                               /\ instance'[s] = instance[s]
  BY <1>1 DEF Put, Delete, Receive, storeVars, Return, Goto, ControllerTypeOK
<1>3. Owned'
  BY <1>2 DEF RefinementInv, Owned
<1>4. SameType'
  BY <1>2 DEF RefinementInv, SameType
<1>5. \A j \in Ids : Creating(j)' <=> Creating(j)
  BY <1>2 DEF Creating, InFlight
<1>6. OthersSame({})
  BY <1>2, <1>5 DEF OthersSame, StatusOf, DocOf
<1> QED  BY <1>1, <1>3, <1>4, <1>6, ShowsNothing DEF RefinementInv, ShownStep

\* The restoration changes nothing of a document but its service id, which does not show.
LEMMA RestoreRefines ==
    ASSUME Inv, RefinementInv, Restore, StoreTypeOK'
    PROVE  RefinementInv' /\ ShownStep
<1>1. /\ StoreTypeOK /\ Locals /\ BootFrame /\ proc = "boot"
  BY DEF Inv, TypeInv, TypeOK, Restore, ListPage, Probe, ReadFails, Recreate, StoreSid
<1>2. UNCHANGED <<perms, issued, pc, op, target, instance>>
  BY <1>1 DEF BootFrame, handlerVars
<1>3. CASE UNCHANGED records
  BY <1>2, <1>3, StutterRefines
<1>4. CASE StoreSid
  <2>1. boot.inst \in Ids /\ records[boot.inst] \in Record
    BY <1>4 DEF StoreSid, Inv, TypeInv, TypeOK, BootKnows, StartupTypeOK, Boot, StoreTypeOK
  <2>2. PICK o \in Outcomes :
          ReplaceOrInsert(boot.inst, [records[boot.inst] EXCEPT !.sid = boot.sid], o)
    BY <1>4 DEF StoreSid
  <2>3. DocumentOf([records[boot.inst] EXCEPT !.sid = boot.sid]) = DocumentOf(records[boot.inst])
    BY <2>1 DEF DocumentOf, Record
  <2>4. \A j \in Ids : DocumentOf(records'[j]) = DocumentOf(records[j])
    BY <1>1, <2>1, <2>2, <2>3 DEF ReplaceOrInsert, StoreTypeOK
  <2>5. \A j \in Ids : Creating(j)' <=> Creating(j)
    BY <1>2 DEF Creating, InFlight
  <2>6. OthersSame({})
    BY <1>2, <2>4, <2>5 DEF OthersSame, StatusOf, DocOf
  <2>7. Owned'
    BY <1>2 DEF RefinementInv, Owned
  <2>8. SameType'
    BY <1>1, <1>2 DEF SameType, Locals, Local, Steps
  <2> QED  BY <1>1, <2>6, <2>7, <2>8, ShowsNothing DEF RefinementInv, ShownStep
<1> QED  BY <1>3, <1>4 DEF Restore, ListPage, Probe, ReadFails, Recreate

\* With the process every POST dies; its ids are used up.
LEMMA CrashRefines ==
    ASSUME Inv, RefinementInv, Crash, StoreTypeOK'
    PROVE  RefinementInv' /\ ShownStep
<1> USE DEF Steps, PostSteps, PutSteps, DeleteSteps
<1>1. /\ ControllerTypeOK /\ StoreTypeOK /\ Locals /\ IdsAreIssued /\ CreatingIsHidden
  BY DEF Inv, TypeInv, TypeOK, SafeInv
<1>2. /\ UNCHANGED <<records, perms, issued, op, target>>
      /\ \A r \in Reqs : pc'[r] \notin Steps
  BY <1>1 DEF Crash, storeVars, InFlight, ControllerTypeOK
<1>3. RefinementInv'
  BY <1>2 DEF RefinementInv, Owned, SameType
<1> DEFINE S == {i \in Ids : Creating(i)}
<1>4. \A j \in Ids : ~Creating(j)'
  BY <1>2 DEF Creating, InFlight
<1>5. OthersSame(S)
  BY <1>2, <1>4 DEF OthersSame, StatusOf, DocOf
<1>6. \A i \in S : perms[i] = NoPerms /\ i \in issued
  BY <1>1 DEF Creating, InFlight, Locals, Local, CreatingIsHidden, IdsAreIssued
<1>7. \A i \in S : perms[i] = NoPerms /\ StatusOf(i) = "unborn" /\ StatusOf(i)' = "gone"
  BY <1>2, <1>4, <1>6 DEF StatusOf
<1>8. Shown!Next
  <2>1. S \in SUBSET Ids
    OBVIOUS
  <2> HIDE DEF S
  <2> QED  BY <1>1, <1>2, <1>5, <1>7, <2>1, ShowsAbandon
<1> QED  BY <1>3, <1>8 DEF ShownStep

\* Rights are given and taken on an instance that shows.
LEMMA ShareRefines ==
    ASSUME Inv, RefinementInv, ShareInstance, StoreTypeOK'
    PROVE  RefinementInv' /\ ShownStep
<1>1. StoreTypeOK
  BY DEF Inv, TypeInv, TypeOK
<1>2. PICK i \in Ids, u \in Users, rights \in SUBSET Rights : Share(i, u, rights)
  BY ShareAssumption DEF ShareInstance
<1>3. UNCHANGED <<records, issued, pc, op, target, instance>>
  BY <1>2 DEF ShareInstance, Share, handlerVars
<1>4. \A j \in Ids : perms'[j] = NoPerms <=> perms[j] = NoPerms
  BY <1>1, <1>2, ShareType
<1>5. Owned'
  BY <1>3 DEF RefinementInv, Owned
<1>6. SameType'
  BY <1>3, <1>4 DEF RefinementInv, SameType, Inv, TypeInv, TypeOK, ControllerTypeOK
<1>7. \A j \in Ids : Creating(j)' <=> Creating(j)
  BY <1>3 DEF Creating, InFlight
<1>8. \A j \in Ids : StatusOf(j)' = StatusOf(j) /\ DocOf(j)' = DocOf(j)
  BY <1>3, <1>4, <1>7 DEF StatusOf, DocOf
<1>9. StatusOf(i) = "listed" /\ perms' = [perms EXCEPT ![i][u] = rights]
  BY <1>2 DEF Share, StatusOf
<1>10. Shown!Next
  BY <1>1, <1>8, <1>9, ShowsShare
<1> QED  BY <1>5, <1>6, <1>10 DEF RefinementInv, ShownStep

LEMMA NextRefines ==
    ASSUME Inv, RefinementInv, [Next]_vars, Inv'
    PROVE  RefinementInv' /\ ShownStep
<1>1. TypeInv' /\ StoreTypeOK'
  BY DEF Inv, TypeInv, TypeOK
<1>2. CASE \E r \in Reqs : RequestStep(r)
  BY <1>1, <1>2, HandleRefines, PostRefines, LateRequestRefines DEF RequestStep, Request
<1>3. CASE Restore
  BY <1>1, <1>3, RestoreRefines
<1>4. CASE Crash
  BY <1>1, <1>4, CrashRefines
<1>5. CASE ShareInstance
  BY <1>1, <1>5, ShareRefines
<1>6. CASE Start \/ LoseContainer \/ UNCHANGED vars
  BY <1>1, <1>6, StutterRefines
     DEF Start, LoseContainer, vars, controllerVars, storeVars, handlerVars
<1> QED  BY <1>2, <1>3, <1>4, <1>5, <1>6 DEF Next

LEMMA InitRefines == Init => RefinementInv /\ Shown!Init
<1> SUFFICES ASSUME Init PROVE RefinementInv /\ Shown!Init
  OBVIOUS
<1> USE DEF Init, ControllerInit, StoreInit
<1>1. RefinementInv
  BY DEF RefinementInv, Owned, SameType, PostSteps, PutSteps
<1>2. \A i \in Ids : StatusOf(i) = "unborn" /\ DocOf(i) = NoRecord
  BY DEF StatusOf, DocOf
<1>3. Shown!Init
  BY <1>2 DEF Shown!Init
<1> QED  BY <1>1, <1>3

\* The service implements the registry: whatever calls fail, whichever handlers overlap
\* and whenever the process dies, each step of CreateInstance, SetInstance,
\* DeleteInstance and the restoration is to the users one atomic operation of a registry
\* in which an instance appears whole, keeps its import type and does not come back.
THEOREM ServiceIsRegistry == Spec => RegistrySpec
<1>1. Init => RefinementInv /\ Shown!Init
  BY InitRefines
<1>2. Inv /\ Inv' /\ RefinementInv /\ [Next]_vars
        => RefinementInv' /\ [Shown!Next]_(Shown!registryVars)
  BY NextRefines DEF ShownStep
<1> QED  BY <1>1, <1>2, Invariant, PTL DEF Spec, RegistrySpec, Shown!Spec
=============================================================================
