----------------------------- MODULE ImportDeploy ----------------------------
(***************************************************************************)
(* The service with its environment: the process, its request handlers,    *)
(* and what happens behind its back to rights and containers.  The         *)
(* specification, and the properties that make the service correct.        *)
(***************************************************************************)
EXTENDS Startup

CONSTANT ShareLevels    \* the sets of rights users give each other
ASSUME ShareAssumption == ShareLevels \subseteq SUBSET Rights

TypeOK ==
    /\ KafkaTypeOK /\ StoreTypeOK /\ DeployTypeOK
    /\ ControllerTypeOK /\ StartupTypeOK

Init == ControllerInit /\ StartupInit

-----------------------------------------------------------------------------

RequestStep(r) == (Request(r) \/ Handle(r)) /\ UNCHANGED <<boot, crashes>>

\* Rights on an instance are changed at the permissions service.
ShareInstance ==
    /\ \E i \in Ids, u \in Users, rights \in ShareLevels : Share(i, u, rights)
    /\ UNCHANGED <<deployMode, topics, deployVars, proc, issued, handlerVars, faults, boot, crashes>>

\* A container is lost, which counts as a fault.
LoseContainer ==
    /\ \E c \in containers : Lose(c)
    /\ Spend("fault")
    /\ UNCHANGED <<deployMode, topics, storeVars, proc, issued, handlerVars, boot, crashes>>

Next ==
    \/ Start
    \/ Restore
    \/ Crash
    \/ \E r \in Reqs : RequestStep(r)
    \/ ShareInstance
    \/ LoseContainer

Spec == Init /\ [][Next]_vars

(***************************************************************************)
(* The supervisor restarts the process, and the restoration goes on, one   *)
(* goroutine that goes from call to call.  That every call returns is      *)
(* assumed of the services it calls: those to the permissions service      *)
(* (mongo/instances.go:225, 240) and the cursor (189) have no timeout, so  *)
(* that one which is never answered would hold the restoration for ever.   *)
(* Nothing is assumed of request handlers, users and failures.             *)
(***************************************************************************)
Fairness == WF_vars(Start) /\ WF_vars(Restore)

LiveSpec == Spec /\ Fairness

-----------------------------------------------------------------------------

(***************************************************************************)
(* Properties                                                              *)
(***************************************************************************)

\* An instance anybody has rights on can be read: its document is stored before the
\* rights are granted and deleted after they are withdrawn.  It holds across the two
\* stores whatever fails, crashes or races, though no transaction spans them.
PermImpliesRecord == \A i \in Ids : perms[i] # NoPerms => records[i] # NoRecord

\* Answers stay true: after a DELETE was answered with 204 nobody has rights on the
\* instance ever again, and an instance whose POST was answered with 200 is listed
\* until a DELETE about it gets as far as withdrawing the rights.  No failed, killed or
\* overlapping request in between, and no restart, undoes an answer.
AnswersHold ==
    \A r \in Reqs : pc[r] = "ok" =>
        /\ op[r] = "DELETE" => perms[target[r]] = NoPerms
        /\ op[r] = "POST" =>
              \/ perms[target[r]] # NoPerms
              \/ \E d \in Reqs : /\ op[d] = "DELETE" /\ target[d] = target[r]
                                 /\ pc[d] \in {"drop", "ok", "failed", "killed"}

\* A POST that is neither answered nor killed.
Creating(i) == \E r \in Reqs : op[r] = "POST" /\ target[r] = i /\ InFlight(r)

\* The registry, as the users see it: documents nobody has rights on do not show.
StatusOf(i) ==
    IF perms[i] # NoPerms THEN "listed"
    ELSE IF i \notin issued \/ Creating(i) THEN "unborn"
    ELSE "gone"

DocOf(i) == IF perms[i] # NoPerms THEN DocumentOf(records[i]) ELSE NoRecord

Shown == INSTANCE Registry WITH
    status <- [i \in Ids |-> StatusOf(i)],
    doc    <- [i \in Ids |-> DocOf(i)],
    access <- perms

\* Every handler, however interleaved, interrupted or repeated, changes what users see
\* as one atomic operation of the registry or not at all: no step shows half an
\* instance, changes its import type, or brings a deleted instance back.
RegistrySpec == Shown!Spec

\* The container a document names is there, as EnsureAllInstancesDeployed asks for it.
Deployed(i) == ContainerExists(records[i].sid, records[i].restart)

\* README.md:25, STARTUP_ENSURE_DEPLOYED: "will recreate any missing instances at
\* startup".  What is missing when the restoration begins is there in the end, by this
\* attempt or, after a failure, by a later one, unless nobody may see it any more.
MissingIsRestored ==
    \A i \in Ids :
        (proc = "boot" /\ boot = FirstPage /\ i \in AdminVisible /\ ~Deployed(i))
            ~> (i \notin AdminVisible \/ Deployed(i))

\* The process does not restart for ever: after the last crash and fault the
\* restoration ends and requests are served from then on.
EventuallyServing == <>[](proc = "serving")

\* A restoration that ends without serving has met a fault or a crash.
NeedsNoRestart ==
    proc = "boot" /\ proc' = "down" => <<faults, crashes>>' # <<faults, crashes>>

\* With rancher2, a restoration none of whose calls fails ends with a serving process: no
\* document, container or autoscaler that earlier requests, crashes or losses have left
\* makes the backend refuse what EnsureAllInstancesDeployed asks for, which would be
\* refused again at every restart.
RestorationNeedsNoRestart == [][deployMode = "rancher2" => NeedsNoRestart]_vars
=============================================================================
