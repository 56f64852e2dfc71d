---------------------------- MODULE KubernetesApi ----------------------------
(***************************************************************************)
(* lib/deploy/kubernetes-api: an instance is a Deployment (restart) or a   *)
(* Job, named after it, and a VerticalPodAutoscaler.  The name is the      *)
(* service id.  One operator is one call of the deploy.DeploymentClient    *)
(* interface; the requests it is made of are not interleaved here.         *)
(***************************************************************************)
EXTENDS Deployment

KubernetesSid(i) == <<i, 0>>

\* Deployments and Jobs have separate name spaces.
OfKind(i, restart) == {c \in Named(i) : c.restart = restart}

\* A bug: the autoscaler is created first, and its name may be taken.
KubernetesCreateVpaFirst(i, rec, o) ==
    LET free     == OfKind(i, rec.restart) = {} /\ i \notin autoscalers
        workload == containers \cup {ContainerOf(i, KubernetesSid(i), rec)}
    IN  /\ \/ /\ o = "ok"
              /\ free
              /\ containers' = workload
              /\ autoscalers' = autoscalers \cup {i}
           \/ o \in {"refused", "fault"} /\ ~free /\ UNCHANGED <<containers, autoscalers>>
        /\ UNCHANGED created

\* Create the workload, then its autoscaler.  A taken name is refused; when only the
\* autoscaler's is taken the workload stays, although the caller gets an error.
KubernetesCreate(i, rec, o) ==
    LET free     == OfKind(i, rec.restart) = {}
        workload == containers \cup {ContainerOf(i, KubernetesSid(i), rec)}
    IN  /\ \/ /\ o = "ok"
              /\ free
              /\ i \notin autoscalers
              /\ containers' = workload
              /\ autoscalers' = autoscalers \cup {i}
           \/ /\ o = "refused"
              /\ ~free
              /\ UNCHANGED <<containers, autoscalers>>
           \/ /\ o = "refused"
              /\ free
              /\ i \in autoscalers
              /\ containers' = workload
              /\ UNCHANGED autoscalers
           \/ /\ o = "fault"
              /\ \/ UNCHANGED <<containers, autoscalers>>
                 \/ /\ free
                    /\ containers' = workload
                    /\ autoscalers' \in {autoscalers, autoscalers \cup {i}}
        /\ UNCHANGED created

\* UpdateContainer when the instance was and stays a Deployment.  The API server
\* refuses a Deployment that does not exist, and one whose selector would change:
\* the selector holds the label "user".
KubernetesUpdate(i, rec, o) ==
    LET deployments == OfKind(i, TRUE)
        accepted    == deployments # {} /\ \A c \in deployments : c.owner = rec.owner
        updated     == (containers \ deployments) \cup {ContainerOf(i, KubernetesSid(i), rec)}
    IN  /\ \/ o = "ok"      /\ accepted  /\ containers' = updated
           \/ o = "refused" /\ ~accepted /\ UNCHANGED containers
           \/ o = "fault"   /\ \/ UNCHANGED containers
                               \/ accepted /\ containers' = updated
        /\ UNCHANGED <<autoscalers, created>>

\* Delete everything the name stands for; what is not there counts as deleted.  The
\* six deletions share the variable err: an error one of them stores may be
\* overwritten before it is looked at, so nil can be returned with leftovers.
KubernetesRemove(i, o) ==
    /\ \/ /\ o = "ok"
          /\ containers' = containers \ Named(i)
          /\ autoscalers' = autoscalers \ {i}
       \/ /\ o \in {"fault", "masked"}
          /\ \E left \in SUBSET Named(i) : containers' = (containers \ Named(i)) \cup left
          /\ autoscalers' \in {autoscalers, autoscalers \ {i}}
    /\ UNCHANGED created

\* The lookup asks for one kind only.
KubernetesExists(i, restart) == OfKind(i, restart) # {}
=============================================================================
