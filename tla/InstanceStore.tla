--------------------------- MODULE InstanceStore -----------------------------
(***************************************************************************)
(* lib/database/mongo: the instance collection, and the resources of the   *)
(* topic "import-instances" in the permissions service that decide who may *)
(* see and change which instance.  Two stores without a common             *)
(* transaction: Mongo.Transaction is never called.                         *)
(***************************************************************************)
EXTENDS Instances

VARIABLES
    records,    \* the collection, by id (a unique index)
    perms       \* the permission resources, by id

storeVars == <<records, perms>>

StoreTypeOK ==
    /\ records \in [Ids -> Record \cup {NoRecord}]
    /\ perms   \in [Ids -> Permissions \cup {NoPerms}]

StoreInit ==
    /\ records = [i \in Ids |-> NoRecord]
    /\ perms   = [i \in Ids |-> NoPerms]

\* The ids the permissions service lists to a user who may see every resource it
\* knows (the internal admin token), restricted to the documents that exist.
AdminVisible == {i \in Ids : perms[i] # NoPerms /\ records[i] # NoRecord}

\* permv2.CheckPermission on a resource of "import-instances".
Allowed(u, i, right) == perms[i] # NoPerms /\ right \in perms[i][u]

\* The first half of Mongo.CreateInstance: InsertOne.  Ids are fresh UUIDs.
InsertOne(i, rec, o) ==
    /\ \/ o = "ok"      /\ records[i] = NoRecord /\ records' = [records EXCEPT ![i] = rec]
       \/ o = "refused" /\ records[i] # NoRecord /\ UNCHANGED records
       \/ o = "fault"   /\ \/ UNCHANGED records
                           \/ records[i] = NoRecord /\ records' = [records EXCEPT ![i] = rec]
    /\ UNCHANGED perms

\* The second half of Mongo.CreateInstance: GetResource, then SetPermission of the
\* rights found there with the owner's added.
GrantOwner(i, owner, o) ==
    LET known   == IF perms[i] = NoPerms THEN NoUserPermissions ELSE perms[i]
        granted == [perms EXCEPT ![i] = SetDefaultPermissions(owner, known)]
    IN  /\ \/ o = "ok"    /\ perms' = granted
           \/ o = "fault" /\ perms' \in {perms, granted}
        /\ UNCHANGED records

\* The last call of Mongo.SetInstance: ReplaceOne with SetUpsert(true), which inserts
\* the document when there is none.
ReplaceOrInsert(i, rec, o) ==
    LET replaced == [records EXCEPT ![i] = rec]
    IN  /\ \/ o = "ok"    /\ records' = replaced
           \/ o = "fault" /\ records' \in {records, replaced}
        /\ UNCHANGED perms

\* Mongo.RemoveInstance takes the permissions away first ...
RemoveResource(i, o) ==
    LET removed == [perms EXCEPT ![i] = NoPerms]
    IN  /\ \/ o = "ok"    /\ perms' = removed
           \/ o = "fault" /\ perms' \in {perms, removed}
        /\ UNCHANGED records

\* ... and deletes the document last, with the context DeleteInstance created before
\* its first call: an expired context is a fault that changes nothing.
DeleteOne(i, o) ==
    LET deleted == [records EXCEPT ![i] = NoRecord]
    IN  /\ \/ o = "ok"    /\ records' = deleted
           \/ o = "fault" /\ records' \in {records, deleted}
        /\ UNCHANGED perms

\* Whoever administrates a resource may give other users rights on it, directly at
\* the permissions service.
Share(i, u, rights) ==
    /\ perms[i] # NoPerms
    /\ perms' = [perms EXCEPT ![i][u] = rights]
    /\ UNCHANGED records
=============================================================================
