----------------------------- MODULE Deployment ------------------------------
(***************************************************************************)
(* What a deployment backend holds for the import instances.               *)
(***************************************************************************)
EXTENDS Instances

VARIABLES
    containers,     \* the containers, deployments, jobs and services there are
    autoscalers,    \* ids with a VerticalPodAutoscaler (kubernetes, rancher2)
    created         \* how many containers were ever created for an id

deployVars == <<containers, autoscalers, created>>

Container == [inst    : Ids,            \* the instance its name is made of
              sid     : ServiceIds,     \* the id the backend knows it by
              restart : BOOLEAN,        \* kept running, or run once
              conf    : Confs,
              owner   : Owners,         \* the label "user"
              suffix  : BOOLEAN]        \* its name is more than the instance's (rancher1)

DeployTypeOK ==
    /\ containers  \subseteq Container
    /\ autoscalers \subseteq Ids
    /\ created \in [Ids -> Nat]

DeployInit ==
    /\ containers  = {}
    /\ autoscalers = {}
    /\ created = [i \in Ids |-> 0]

Named(i) == {c \in containers : c.inst = i}

ContainerOf(i, sid, rec) ==
    [inst |-> i, sid |-> sid, restart |-> rec.restart, conf |-> rec.conf, owner |-> rec.owner,
     suffix |-> FALSE]

\* A container disappears without this service having asked for it: an operator
\* removes it, or the backend's host is rebuilt.
Lose(c) ==
    /\ c \in containers
    /\ containers' = containers \ {c}
    /\ UNCHANGED <<autoscalers, created>>
=============================================================================
