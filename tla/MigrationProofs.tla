--------------------------- MODULE MigrationProofs ---------------------------
(***************************************************************************)
(* The migration reconciles rights and documents, for any number of        *)
(* instances, users and interruptions.                                     *)
(***************************************************************************)
EXTENDS Migration, TLAPS

\* The owner of a document has every right, or somebody else's decision about it counts.
OwnerServed(i) ==
    records[i].owner \in Users /\ <<i, records[i].owner>> \notin touched
        => perms[i][records[i].owner] = Rights

\* The documents of a list are those there are.
ReadInv == phase \in {"resources", "grant", "remove", "done"} => docs = WithDocument

\* The first loop has served what it has passed, and what was read of the rest is true
\* still, but for what users have changed since.
GrantInv ==
    phase = "grant" =>
        /\ todo \subseteq docs
        /\ \A i \in docs \ todo : perms[i] # NoPerms /\ OwnerServed(i)
        /\ \A i \in Ids \ docs : perms[i] # NoPerms => known[i] # NoPerms
        /\ \A i \in todo : perms[i] # NoPerms =>
              /\ known[i] # NoPerms
              /\ \A u \in Users : <<i, u>> \notin touched => perms[i][u] = known[i][u]

\* The second loop has yet to pass what is left without a document.
RemoveInv ==
    phase \in {"remove", "done"} =>
        /\ todo \cap docs = {}
        /\ \A i \in docs : perms[i] # NoPerms /\ OwnerServed(i)
        /\ \A i \in Ids \ docs : perms[i] # NoPerms => i \in todo
        /\ phase = "done" => todo = {}

MigrationInv == MigrationTypeOK /\ ReadInv /\ GrantInv /\ RemoveInv

LEMMA RightsAreGiven == Rights \in SUBSET Rights /\ {} \in SUBSET Rights
OBVIOUS

\* SetDefaultPermissions makes permissions of permissions.
LEMMA DefaultPermissions ==
    ASSUME NEW owner, NEW p \in Permissions
    PROVE  /\ SetDefaultPermissions(owner, p) \in Permissions
           /\ SetDefaultPermissions(owner, p) # NoPerms
           /\ \A u \in Users : p[u] \subseteq SetDefaultPermissions(owner, p)[u]
           /\ owner \in Users => SetDefaultPermissions(owner, p)[owner] = Rights
BY NoPermsAssumption, RightsAreGiven DEF Permissions, SetDefaultPermissions

LEMMA NobodysPermissions == NoUserPermissions \in Permissions
BY RightsAreGiven DEF NoUserPermissions, Permissions

LEMMA MigrationStart == MigrationInit => MigrationInv
<1> SUFFICES ASSUME MigrationInit PROVE MigrationInv
  OBVIOUS
<1>1. Owned \subseteq Record
  <2> SUFFICES ASSUME NEW t \in Types, NEW c \in Confs, NEW o \in Owners
               PROVE  [itype |-> t, restart |-> TRUE, conf |-> c, owner |-> o, sid |-> NoSid] \in Record
    BY DEF Owned
  <2> QED  BY DEF Record
<1>2. [Users -> GivenRights \cup {Rights}] \subseteq Permissions
  BY GivenRightsAssumption DEF Permissions
<1>3. StoreTypeOK
  BY <1>1, <1>2 DEF MigrationInit, StoreTypeOK
<1> QED
  BY <1>3 DEF MigrationInit, MigrationInv, MigrationTypeOK, ReadInv, GrantInv, RemoveInv, Unread, Phases

\* What a step of the first loop writes.
LEMMA GrantWrites ==
    ASSUME MigrationInv, NEW i \in Ids, Grant(i)
    PROVE  /\ perms' \in [Ids -> Permissions \cup {NoPerms}]
           /\ \A j \in Ids \ {i} : perms'[j] = perms[j]
           /\ perms'[i] \in Permissions /\ perms'[i] # NoPerms
           /\ records[i].owner \in Users => perms'[i][records[i].owner] = Rights
           /\ \A u \in Users : known[i] # NoPerms => known[i][u] \subseteq perms'[i][u]
<1> DEFINE before == IF known[i] = NoPerms THEN NoUserPermissions ELSE known[i]
           after == SetDefaultPermissions(records[i].owner, before)
<1>1. before \in Permissions
  BY NobodysPermissions DEF MigrationInv, MigrationTypeOK
<1>2. perms' = [perms EXCEPT ![i] = after]
  BY DEF Grant
<1>3. /\ after \in Permissions /\ after # NoPerms
      /\ \A u \in Users : before[u] \subseteq after[u]
      /\ records[i].owner \in Users => after[records[i].owner] = Rights
  BY <1>1, DefaultPermissions
<1> HIDE DEF before, after
<1>4. perms \in [Ids -> Permissions \cup {NoPerms}]
  BY DEF MigrationInv, MigrationTypeOK, StoreTypeOK
<1>5. known[i] # NoPerms => before = known[i]
  BY DEF before
<1> QED  BY <1>2, <1>3, <1>4, <1>5

\* What a user changes meanwhile.
LEMMA ShareWrites ==
    ASSUME MigrationInv, ShareMeanwhile
    PROVE  \E i \in Ids, u \in Users :
            /\ perms' \in [Ids -> Permissions \cup {NoPerms}]
            /\ perms[i] # NoPerms /\ perms'[i] # NoPerms
            /\ \A j \in Ids \ {i} : perms'[j] = perms[j]
            /\ \A v \in Users \ {u} : perms'[i][v] = perms[i][v]
            /\ touched' = touched \cup {<<i, u>>}
            /\ UNCHANGED <<records, phase, known, docs, todo, failures>>
<1>1. PICK i \in Ids, u \in Users, rights \in GivenRights :
        /\ Share(i, u, rights)
        /\ touched' = touched \cup {<<i, u>>}
        /\ UNCHANGED <<phase, known, docs, todo, failures>>
  BY DEF ShareMeanwhile
<1>2. perms[i] \in Permissions /\ perms[i] # NoPerms
  BY <1>1 DEF MigrationInv, MigrationTypeOK, StoreTypeOK, Share
<1>3. rights \in SUBSET Rights
  BY GivenRightsAssumption
<1>4. [perms[i] EXCEPT ![u] = rights] \in Permissions
  BY <1>2, <1>3 DEF Permissions
<1>5. perms' = [perms EXCEPT ![i] = [perms[i] EXCEPT ![u] = rights]] /\ UNCHANGED records
  BY <1>1 DEF Share
<1>6. perms \in [Ids -> Permissions \cup {NoPerms}]
  BY DEF MigrationInv, MigrationTypeOK, StoreTypeOK
<1>7. [perms[i] EXCEPT ![u] = rights] # NoPerms
  BY <1>4, NoPermsAssumption
<1>8. \A v \in Users \ {u} : [perms[i] EXCEPT ![u] = rights][v] = perms[i][v]
  BY <1>2 DEF Permissions
<1> QED  BY <1>1, <1>2, <1>4, <1>5, <1>6, <1>7, <1>8

LEMMA MigrationStep == MigrationInv /\ [MigrationNext]_migrationVars => MigrationInv'
<1> SUFFICES ASSUME MigrationInv, [MigrationNext]_migrationVars PROVE MigrationInv'
  OBVIOUS
<1> USE DEF MigrationInv, MigrationTypeOK, StoreTypeOK, Phases, storeVars,
            ReadInv, GrantInv, RemoveInv, OwnerServed, WithDocument
<1>1. CASE EnsureTopic
  BY <1>1 DEF EnsureTopic
<1>2. CASE ReadDocuments
  BY <1>2 DEF ReadDocuments
<1>3. CASE ReadResources
  BY <1>3 DEF ReadResources
<1>4. CASE Granted
  BY <1>4 DEF Granted
<1>5. CASE Finish
  BY <1>5 DEF Finish
<1>6. ASSUME NEW i \in Ids, Grant(i) PROVE MigrationInv'
  <2>1. /\ phase = "grant" /\ i \in todo /\ todo' = todo \ {i}
        /\ UNCHANGED <<records, phase, known, docs, failures, touched>>
    BY <1>6 DEF Grant
  <2>2. /\ perms' \in [Ids -> Permissions \cup {NoPerms}]
        /\ \A j \in Ids \ {i} : perms'[j] = perms[j]
        /\ perms'[i] # NoPerms
        /\ records[i].owner \in Users => perms'[i][records[i].owner] = Rights
    BY <1>6, GrantWrites
  <2>3. MigrationTypeOK' /\ ReadInv' /\ RemoveInv'
    BY <2>1, <2>2
  <2>4. \A j \in (docs \ todo') \ {i} : OwnerServed(j)'
    BY <2>1, <2>2
  <2>5. OwnerServed(i)'
    BY <2>1, <2>2
  <2>6. GrantInv'
    BY <2>1, <2>2, <2>4, <2>5
  <2> QED  BY <2>3, <2>6
<1>7. ASSUME NEW i \in Ids, RemoveOrphan(i) PROVE MigrationInv'
  BY <1>7 DEF RemoveOrphan
<1>8. CASE Interrupt
  BY <1>8 DEF Interrupt, Unread
<1>9. CASE ShareMeanwhile
  BY <1>9, ShareWrites
<1>10. CASE UNCHANGED migrationVars
  BY <1>10 DEF migrationVars
<1> QED
  BY <1>1, <1>2, <1>3, <1>4, <1>5, <1>6, <1>7, <1>8, <1>9, <1>10 DEF MigrationNext, Migrate

\* The inductive invariant of the migration.
THEOREM MigrationInvariant == MigrationSpec => []MigrationInv
BY MigrationStart, MigrationStep, PTL DEF MigrationSpec

\* When migrate is through, there are rights on an instance if and only if it has a document.
THEOREM MigrationReconciles == MigrationSpec => []Reconciled
<1>1. MigrationInv => Reconciled
  BY DEF MigrationInv, ReadInv, RemoveInv, Reconciled, Resources, WithDocument
<1> QED  BY <1>1, MigrationInvariant, PTL

\* When migrate is through, every owner has all rights on what is theirs.
THEOREM MigrationServesOwners == MigrationSpec => []OwnersHaveRights
<1>1. MigrationInv => OwnersHaveRights
  BY DEF MigrationInv, ReadInv, RemoveInv, OwnersHaveRights, OwnerServed, WithDocument
<1> QED  BY <1>1, MigrationInvariant, PTL

\* migrate takes no right away that it has read and that nobody has changed since.
THEOREM MigrationTakesNothing == MigrationSpec => NothingTaken
<1> DEFINE Kept == \A i \in WithDocument \cap Resources, u \in Users :
                        <<i, u>> \notin touched' => perms[i][u] \subseteq perms'[i][u]
<1>1. ASSUME MigrationInv, [MigrationNext]_migrationVars PROVE [Kept]_migrationVars
  <2> SUFFICES ASSUME NEW i \in WithDocument \cap Resources, NEW u \in Users,
                      <<i, u>> \notin touched', MigrationNext
               PROVE  perms[i][u] \subseteq perms'[i][u]
    BY <1>1
  <2> USE DEF WithDocument, Resources
  <2>1. CASE EnsureTopic \/ ReadDocuments \/ ReadResources \/ Granted \/ Finish \/ Interrupt
    BY <2>1 DEF EnsureTopic, ReadDocuments, ReadResources, Granted, Finish, Interrupt, storeVars
  <2>2. ASSUME NEW j \in Ids, Grant(j) PROVE perms[i][u] \subseteq perms'[i][u]
    <3>1. CASE i = j
      <4>1. <<i, u>> \notin touched /\ i \in todo /\ phase = "grant"
        BY <2>2, <3>1 DEF Grant
      <4>2. known[i] # NoPerms /\ perms[i][u] = known[i][u]
        BY <1>1, <4>1 DEF MigrationInv, GrantInv
      <4> QED  BY <1>1, <2>2, <3>1, <4>2, GrantWrites
    <3> QED  BY <1>1, <2>2, <3>1, GrantWrites
  <2>3. ASSUME NEW j \in Ids, RemoveOrphan(j) PROVE perms[i][u] \subseteq perms'[i][u]
    <3>1. i # j
      BY <1>1, <2>3 DEF RemoveOrphan, MigrationInv, ReadInv, RemoveInv
    <3> QED  BY <1>1, <2>3, <3>1 DEF RemoveOrphan, MigrationInv, MigrationTypeOK, StoreTypeOK
  <2>4. CASE ShareMeanwhile
    BY <1>1, <2>4, ShareWrites
  <2> QED  BY <2>1, <2>2, <2>3, <2>4 DEF MigrationNext, Migrate
<1> QED  BY <1>1, MigrationInvariant, PTL DEF MigrationSpec, NothingTaken
=============================================================================
