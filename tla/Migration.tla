------------------------------ MODULE Migration ------------------------------
(***************************************************************************)
(* lib/database: migrate, which reconciles the permission resources with   *)
(* the documents before the controller exists, so that nobody changes a    *)
(* document meanwhile.  It reads both stores once, and then writes         *)
(* resource by resource, while users go on changing rights at the          *)
(* permissions service.  The first error ends the process, and the next    *)
(* one begins anew.                                                        *)
(***************************************************************************)
EXTENDS InstanceStore

CONSTANTS
    MaxMigrationFaults, \* bound: how many calls fail, or how often the process is killed
    GivenRights         \* the sets of rights users give each other

ASSUME MigrationFaultsAssumption == MaxMigrationFaults \in Nat
ASSUME GivenRightsAssumption == GivenRights \subseteq SUBSET Rights

VARIABLES
    phase,      \* where migrate is
    known,      \* permResouceMap: the resources it read
    docs,       \* dbIds: the ids of the documents it read
    todo,       \* what is left of the loop it is in
    failures,   \* how many faults there were
    touched     \* whose rights on what were changed since the resources were read

migrationVars == <<storeVars, phase, known, docs, todo, failures, touched>>

Phases == {"topic", "documents", "resources", "grant", "remove", "done"}

MigrationTypeOK ==
    /\ StoreTypeOK
    /\ phase \in Phases
    /\ known \in [Ids -> Permissions \cup {NoPerms}]
    /\ docs \subseteq Ids
    /\ todo \subseteq Ids
    /\ failures \in Nat
    /\ touched \subseteq Ids \X Users

Unread == [i \in Ids |-> NoPerms]

\* Of a document only the owner matters here.
Owned == {[itype |-> t, restart |-> TRUE, conf |-> c, owner |-> o, sid |-> NoSid] :
            t \in Types, c \in Confs, o \in Owners}

\* Documents and rights may disagree in every way.
MigrationInit ==
    /\ records \in [Ids -> Owned \cup {NoRecord}]
    /\ perms \in [Ids -> [Users -> GivenRights \cup {Rights}] \cup {NoPerms}]
    /\ phase = "topic"
    /\ known = Unread
    /\ docs = {}
    /\ todo = {}
    /\ failures = 0
    /\ touched = {}

WithDocument == {i \in Ids : records[i] # NoRecord}
Resources == {i \in Ids : perms[i] # NoPerms}

-----------------------------------------------------------------------------

\* SetTopic: that the topic exists is all that matters.
EnsureTopic ==
    /\ phase = "topic"
    /\ phase' = "documents"
    /\ UNCHANGED <<storeVars, known, docs, todo, failures, touched>>

\* AdminListInstances, without a limit.
ReadDocuments ==
    /\ phase = "documents"
    /\ phase' = "resources"
    /\ docs' = WithDocument
    /\ UNCHANGED <<storeVars, known, todo, failures, touched>>

\* ListResourcesWithAdminPermission: the internal token administrates all of them.
ReadResources ==
    /\ phase = "resources"
    /\ phase' = "grant"
    /\ known' = perms
    /\ todo' = docs
    /\ touched' = {}
    /\ UNCHANGED <<storeVars, docs, failures>>

\* A bug: a resource that exists is left as it is.
GrantMissing(i) ==
    /\ phase = "grant"
    /\ i \in todo
    /\ todo' = todo \ {i}
    /\ perms' = IF known[i] # NoPerms THEN perms
                ELSE [perms EXCEPT ![i] = SetDefaultPermissions(records[i].owner, NoUserPermissions)]
    /\ UNCHANGED <<records, phase, known, docs, failures, touched>>

\* A bug: the rights that were read are not written again.
GrantOnlyOwner(i) ==
    /\ phase = "grant"
    /\ i \in todo
    /\ todo' = todo \ {i}
    /\ perms' = [perms EXCEPT ![i] = SetDefaultPermissions(records[i].owner, NoUserPermissions)]
    /\ UNCHANGED <<records, phase, known, docs, failures, touched>>

\* SetPermission of the rights that were read, with the owner's: what has been changed
\* meanwhile is overwritten.
Grant(i) ==
    /\ phase = "grant"
    /\ i \in todo
    /\ todo' = todo \ {i}
    /\ LET permissions == IF known[i] = NoPerms THEN NoUserPermissions ELSE known[i]
       IN  perms' = [perms EXCEPT ![i] = SetDefaultPermissions(records[i].owner, permissions)]
    /\ UNCHANGED <<records, phase, known, docs, failures, touched>>

\* A bug: the second loop is taken up only if it has nothing to do.
GrantedStrictly ==
    /\ phase = "grant"
    /\ todo = {}
    /\ {i \in Ids : known[i] # NoPerms} \ docs = {}
    /\ phase' = "remove"
    /\ UNCHANGED <<storeVars, known, docs, todo, failures, touched>>

\* The second loop goes through the resources that were read and are on no document.
Granted ==
    /\ phase = "grant"
    /\ todo = {}
    /\ phase' = "remove"
    /\ todo' = {i \in Ids : known[i] # NoPerms} \ docs
    /\ UNCHANGED <<storeVars, known, docs, failures, touched>>

\* RemoveResource of one of them.
RemoveOrphan(i) ==
    /\ phase = "remove"
    /\ i \in todo
    /\ todo' = todo \ {i}
    /\ perms' = [perms EXCEPT ![i] = NoPerms]
    /\ UNCHANGED <<records, phase, known, docs, failures, touched>>

\* A bug: the second loop may be left before its end.
FinishAny ==
    /\ phase = "remove"
    /\ phase' = "done"
    /\ todo' = {}
    /\ UNCHANGED <<storeVars, known, docs, failures, touched>>

Finish ==
    /\ phase = "remove"
    /\ todo = {}
    /\ phase' = "done"
    /\ UNCHANGED <<storeVars, known, docs, todo, failures, touched>>

\* A call returns an error, or the process is killed: New fails, main ends, and the
\* next process begins anew.  What the failed call has done is a step before this one.
Interrupt ==
    /\ phase # "done"
    /\ failures < MaxMigrationFaults
    /\ failures' = failures + 1
    /\ phase' = "topic"
    /\ known' = Unread
    /\ docs' = {}
    /\ todo' = {}
    /\ UNCHANGED <<storeVars, touched>>

\* A user changes rights at the permissions service meanwhile.
ShareMeanwhile ==
    \E i \in Ids, u \in Users, rights \in GivenRights :
        /\ Share(i, u, rights)
        /\ touched' = touched \cup {<<i, u>>}
        /\ UNCHANGED <<phase, known, docs, todo, failures>>

-----------------------------------------------------------------------------

Migrate ==
    \/ EnsureTopic \/ ReadDocuments \/ ReadResources \/ Granted \/ Finish
    \/ \E i \in Ids : Grant(i) \/ RemoveOrphan(i)

MigrationNext == Migrate \/ Interrupt \/ ShareMeanwhile

MigrationSpec == MigrationInit /\ [][MigrationNext]_migrationVars

\* A single goroutine goes from call to call.  That each of them returns is assumed of the
\* permissions service and the database: the code gives these calls no timeout.
MigrationLiveSpec == MigrationSpec /\ WF_migrationVars(Migrate)

-----------------------------------------------------------------------------

\* When migrate is through there are rights on an instance if and only if it has a
\* document: what an interrupted DELETE or POST has left in one store only is gone.
Reconciled == phase = "done" => WithDocument = Resources

\* When migrate is through, every owner has all rights on what is theirs, but for what
\* somebody has changed since the rights were read.
OwnersHaveRights ==
    phase = "done" =>
        \A i \in WithDocument :
            records[i].owner \in Users /\ <<i, records[i].owner>> \notin touched
                => perms[i][records[i].owner] = Rights

\* The migration takes no right away that it has read and that nobody has changed since:
\* it writes whole resources, other users' rights among them.
NothingTaken ==
    [][\A i \in WithDocument \cap Resources, u \in Users :
            <<i, u>> \notin touched' => perms[i][u] \subseteq perms'[i][u]]_migrationVars

\* The migration comes to its end, whatever the two stores hold, if it is not
\* interrupted for ever.
Migrated == <>(phase = "done")

=============================================================================
