--------------------------- MODULE DeploymentClient --------------------------
(***************************************************************************)
(* The interface deploy.DeploymentClient, with the backend that deploy_mode *)
(* selects in lib.Start.                                                   *)
(***************************************************************************)
EXTENDS DockerClient, KubernetesApi, RancherApi, Rancher2Api

CONSTANT DeployModes    \* what config.DeployMode may be
VARIABLE deployMode     \* config.DeployMode, which is read once

Backends == {"docker", "kubernetes", "rancher1", "rancher2"}

ASSUME DeployModesAssumption == DeployModes \subseteq Backends

\* The backends that add an autoscaler to what they start.
Autoscaling == {"kubernetes", "rancher2"}

\* The backends that know a container by an id nothing else ever has.
EngineIssued == {"docker", "rancher1"}

\* What CreateContainer and UpdateContainer return for an instance.
NewSid(i) ==
    CASE deployMode = "docker"     -> DockerSid(i)
      [] deployMode = "kubernetes" -> KubernetesSid(i)
      [] deployMode = "rancher1"   -> RancherSid(i)
      [] deployMode = "rancher2"   -> Rancher2Sid(i)

CreateContainer(i, rec, o) ==
    \/ deployMode = "docker"     /\ DockerCreate(i, rec, o)
    \/ deployMode = "kubernetes" /\ KubernetesCreate(i, rec, o)
    \/ deployMode = "rancher1"   /\ RancherCreate(i, rec, o)
    \/ deployMode = "rancher2"   /\ Rancher2Create(i, rec, o)

RemoveContainer(sid, o) ==
    \/ deployMode = "docker"     /\ DockerRemove(sid, o)
    \/ deployMode = "kubernetes" /\ KubernetesRemove(sid[1], o)
    \/ deployMode = "rancher1"   /\ RancherRemove(sid, o)
    \/ deployMode = "rancher2"   /\ Rancher2Remove(sid[1], o)

ContainerExists(sid, restart) ==
    \/ deployMode = "docker"     /\ DockerExists(sid)
    \/ deployMode = "kubernetes" /\ KubernetesExists(sid[1], restart)
    \/ deployMode = "rancher1"   /\ RancherExists(sid)
    \/ deployMode = "rancher2"   /\ Rancher2Exists(sid[1])

\* UpdateContainer removes and creates, in two calls, unless a Deployment stays one.
UpdatesInPlace(old, new) == deployMode = "kubernetes" /\ old.restart /\ new.restart

\* The second of these calls.
RecreateContainer(i, rec, o) ==
    \/ deployMode = "rancher1" /\ RancherRecreate(i, rec, o)
    \/ deployMode # "rancher1" /\ CreateContainer(i, rec, o)
=============================================================================
