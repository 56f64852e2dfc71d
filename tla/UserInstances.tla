---------------------------- MODULE UserInstances ----------------------------
(***************************************************************************)
(* What Queries and ClientRoutes tell instances apart by.                  *)
(***************************************************************************)
EXTENDS FiniteSets

CONSTANTS
    Ids,
    Names,          \* Instance.Name
    Generated       \* the instances that are marked as generated

ASSUME InstancesAssumption == IsFiniteSet(Ids) /\ Generated \subseteq Ids
=============================================================================
