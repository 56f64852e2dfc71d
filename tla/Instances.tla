------------------------------ MODULE Instances ------------------------------
(***************************************************************************)
(* The data of lib/model: import instances, as the properties tell them    *)
(* apart, and the outcomes of a remote call.                               *)
(***************************************************************************)
EXTENDS Naturals, FiniteSets

CONSTANTS
    Ids,        \* UUIDs of instances; the Kafka topic and the container name are functions of it
    Users,      \* the users whose tokens the requests carry
    Types,      \* import types
    Confs,      \* what a container is started with besides: image, CONFIG, KAFKA_TOPIC, ...
    NoOwner,    \* the empty string in Instance.Owner
    NoSid,      \* the empty string in Instance.ServiceId
    NoRecord,   \* no document with this id / a local variable that is not set
    NoPerms     \* the permissions service knows no resource with this id

ASSUME IdsAssumption == IsFiniteSet(Ids) /\ Ids # {}
ASSUME UsersAssumption == Users # {}

(***************************************************************************)
(* A service id names one deployed container.  Name-based backends use the *)
(* container name again and again, engine-issued ids differ at every       *)
(* creation: the second component counts the creations.                    *)
(***************************************************************************)
ServiceIds == Ids \X Nat

Owners == Users \cup {NoOwner}

Record == [itype   : Types,
           restart : BOOLEAN,
           conf    : Confs,
           owner   : Owners,
           sid     : ServiceIds \cup {NoSid}]

\* What a user sees of a record: ServiceId and Owner are no part of the JSON document.
Document == [itype : Types, restart : BOOLEAN, conf : Confs]
DocumentOf(rec) == [itype |-> rec.itype, restart |-> rec.restart, conf |-> rec.conf]

ASSUME NoRecordAssumption == NoRecord \notin Record

\* The permissions of permissions-v2: read, write, execute, administrate.
Rights == {"r", "w", "x", "a"}
Permissions == [Users -> SUBSET Rights]

ASSUME NoPermsAssumption == NoPerms \notin Permissions

\* model.SetDefaultPermissions: the owner has every right, the others keep theirs.
\* An empty owner is no user that a token can name.
SetDefaultPermissions(owner, permissions) ==
    [u \in Users |-> IF u = owner THEN Rights ELSE permissions[u]]

NoUserPermissions == [u \in Users |-> {}]

(***************************************************************************)
(* What the caller of a remote service sees, and why:                      *)
(*   ok       the call took effect and returned nil                        *)
(*   refused  the service answered with an error its state calls for       *)
(*   fault    the caller gets an error, the call may have taken effect     *)
(*   masked   the call did not (fully) take effect but returned nil        *)
(***************************************************************************)
Outcomes == {"ok", "refused", "fault", "masked"}
Succeeded(o) == o \in {"ok", "masked"}
Faulty(o) == o \in {"fault", "masked"}
=============================================================================
