------------------------------ MODULE MCProcess ------------------------------
(***************************************************************************)
(* Small instances, for TLC, of three specifications of what goes on       *)
(* inside the process: the goroutines of RemoveContainer, those of main,   *)
(* and the migration.  They have nothing to do with each other, and a      *)
(* behaviour is one of any of the three, with the variables of the others  *)
(* left as they are.                                                       *)
(***************************************************************************)
EXTENDS KubernetesRemoval, Lifecycle, Migration

ThreeParts == {"deployment", "job", "vpa"}
MongoAndDocker == {"mongo", "docker"}
Mongo == "mongo"

\* A user may get the right to read, or be left with that right only.
ReadRight == {{"r"}}

VARIABLE about      \* "removal", "lifecycle" or "migration"

processVars == <<removalVars, lifecycleVars, migrationVars, about>>

\* One initial state of each of the specifications that a behaviour is not about.
RemovalAside == about # "removal" => objects = {}
MigrationAside ==
    about # "migration" => /\ records = [i \in Ids |-> NoRecord]
                           /\ perms = [i \in Ids |-> NoPerms]

ProcessInit ==
    /\ about \in {"removal", "lifecycle", "migration"}
    /\ RemovalInit /\ RemovalAside
    /\ LifecycleInit
    /\ MigrationInit /\ MigrationAside

InRemoval(A) == about = "removal" /\ A /\ UNCHANGED <<lifecycleVars, migrationVars, about>>
InLifecycle(A) == about = "lifecycle" /\ A /\ UNCHANGED <<removalVars, migrationVars, about>>
InMigration(A) == about = "migration" /\ A /\ UNCHANGED <<removalVars, lifecycleVars, about>>

ProcessNext ==
    InRemoval(RemovalNext) \/ InLifecycle(LifecycleNext) \/ InMigration(MigrationNext)

\* The fairness of RemovalLiveSpec, LifecycleLiveSpec and MigrationLiveSpec.
ProcessSpec ==
    /\ ProcessInit /\ [][ProcessNext]_processVars
    /\ WF_processVars(InRemoval(ReturnSupErr))
    /\ \A g \in Parts : WF_processVars(InRemoval(Goroutine(g)))
    /\ WF_processVars(InLifecycle(Main))
    /\ WF_processVars(InLifecycle(Listen))
    /\ WF_processVars(InLifecycle(Watcher))
    /\ \A c \in Clients : WF_processVars(InLifecycle(Closer(c)))
    /\ WF_processVars(InMigration(Migrate))

\* Returns: RemoveContainer comes to its end, whatever its requests answer.
RemovalReturns == about = "removal" => Returns

\* Migrated: so does the migration, whatever the two stores hold, if it is not interrupted
\* for ever.
MigrationEnds == about = "migration" => Migrated
=============================================================================
