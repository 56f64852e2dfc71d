----------------------------- MODULE Rancher2Api -----------------------------
(***************************************************************************)
(* lib/deploy/rancher2-api: as on kubernetes an instance is a workload,    *)
(* Deployment or Job, and an autoscaler, both named after it, but requests *)
(* follow one another, and each looks at its own answer.  A request that   *)
(* gets no answer makes the caller panic, as for rancher1.                 *)
(***************************************************************************)
EXTENDS Deployment

Rancher2Sid(i) == <<i, 0>>

Workload(i, restart) == {c \in Named(i) : c.restart = restart}

\* A bug: the conflict of the autoscaler is no longer tolerated.
Rancher2CreateNoConflict(i, rec, o) ==
    LET free     == Workload(i, rec.restart) = {}
        workload == containers \cup {ContainerOf(i, Rancher2Sid(i), rec)}
    IN  /\ \/ /\ o = "ok"
              /\ free /\ i \notin autoscalers
              /\ containers' = workload
              /\ autoscalers' = autoscalers \cup {i}
           \/ /\ o \in {"refused", "fault"}
              /\ ~free \/ i \in autoscalers
              /\ containers' = IF free THEN workload ELSE containers
              /\ UNCHANGED autoscalers
        /\ UNCHANGED created

\* CreateContainer: POST of the workload, which a workload of its kind and name makes
\* fail, then of the autoscaler, which may be there already.
Rancher2Create(i, rec, o) ==
    LET free     == Workload(i, rec.restart) = {}
        workload == containers \cup {ContainerOf(i, Rancher2Sid(i), rec)}
    IN  /\ \/ /\ o = "ok"
              /\ free
              /\ containers' = workload
              /\ autoscalers' = autoscalers \cup {i}
           \/ o = "refused" /\ ~free /\ UNCHANGED <<containers, autoscalers>>
           \/ /\ o = "fault"
              /\ \/ UNCHANGED <<containers, autoscalers>>
                 \/ /\ free
                    /\ containers' = workload
                    /\ autoscalers' \in {autoscalers, autoscalers \cup {i}}
        /\ UNCHANGED created

\* A bug: the second attempt, for a Job, is missing.
DeletableDeployment(i) == Workload(i, TRUE)

\* What a removal deletes: a Job only if there is no Deployment.
Deletable(i) == IF Workload(i, TRUE) # {} THEN Workload(i, TRUE) ELSE Workload(i, FALSE)

\* RemoveContainer: the workload, the autoscaler, its checkpoint; what is not there
\* counts as deleted, and the first error ends the call.
Rancher2Remove(i, o) ==
    LET removed == containers \ Deletable(i)
    IN  /\ \/ /\ o = "ok"
              /\ containers' = removed
              /\ autoscalers' = autoscalers \ {i}
           \/ /\ o = "fault"
              /\ \/ UNCHANGED <<containers, autoscalers>>
                 \/ containers' = removed /\ autoscalers' \in {autoscalers, autoscalers \ {i}}
        /\ UNCHANGED created

\* A Deployment or a Job; the restart flag is not asked for.
Rancher2Exists(i) == Named(i) # {}
=============================================================================
