------------------------------- MODULE Registry ------------------------------
(***************************************************************************)
(* What the service promises its users: a registry of import instances.    *)
(* An id is used once; an instance appears complete and to its owner, is   *)
(* edited in place without changing its import type or who may see it, and *)
(* once gone never comes back.  Every operation is a single step here.     *)
(***************************************************************************)
EXTENDS Instances

VARIABLES
    status,     \* "unborn", "listed" or "gone"
    doc,        \* the document of a listed instance
    access      \* who may do what with a listed instance

registryVars == <<status, doc, access>>

Init ==
    /\ status = [i \in Ids |-> "unborn"]
    /\ doc    = [i \in Ids |-> NoRecord]
    /\ access = [i \in Ids |-> NoPerms]

\* POST: the document is there, with its owner, as soon as anybody may see it.
Publish(i) ==
    /\ status[i] = "unborn"
    /\ \E d \in Document : doc' = [doc EXCEPT ![i] = d]
    /\ \E u \in Users :
        access' = [access EXCEPT ![i] = SetDefaultPermissions(u, NoUserPermissions)]
    /\ status' = [status EXCEPT ![i] = "listed"]

\* POST that fails, or several that die with the process: the ids are used up.
Abandon(S) ==
    /\ \A i \in S : status[i] = "unborn"
    /\ status' = [i \in Ids |-> IF i \in S THEN "gone" ELSE status[i]]
    /\ UNCHANGED <<doc, access>>

\* PUT, and the restoration of a container.
Edit(i) ==
    /\ status[i] = "listed"
    /\ \E d \in Document :
        /\ d.itype = doc[i].itype
        /\ doc' = [doc EXCEPT ![i] = d]
    /\ UNCHANGED <<status, access>>

\* Rights are changed, outside this service.
ShareWith(i, u) ==
    /\ status[i] = "listed"
    /\ \E rights \in SUBSET Rights : access' = [access EXCEPT ![i][u] = rights]
    /\ UNCHANGED <<status, doc>>

\* DELETE
Retire(i) ==
    /\ status[i] = "listed"
    /\ status' = [status EXCEPT ![i] = "gone"]
    /\ doc'    = [doc EXCEPT ![i] = NoRecord]
    /\ access' = [access EXCEPT ![i] = NoPerms]

Next ==
    \/ \E i \in Ids : Publish(i) \/ Edit(i) \/ Retire(i) \/ \E u \in Users : ShareWith(i, u)
    \/ \E S \in SUBSET Ids : Abandon(S)

Spec == Init /\ [][Next]_registryVars
=============================================================================
