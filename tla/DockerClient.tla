---------------------------- MODULE DockerClient -----------------------------
(***************************************************************************)
(* lib/deploy/dockerClient: the engine issues a new id for each container  *)
(* and refuses a name that is taken, started or not.                       *)
(***************************************************************************)
EXTENDS Deployment

\* The id the engine issues for the next container of an instance.
DockerSid(i) == <<i, created[i] + 1>>

\* The arguments userid and importTypeId are not used.
Unlabelled(i, rec) == [ContainerOf(i, DockerSid(i), rec) EXCEPT !.owner = NoOwner]

\* ContainerCreate, then ContainerStart.  When the start fails the container stays,
\* unknown to the caller, and keeps the name.
DockerCreate(i, rec, o) ==
    LET Created == /\ Named(i) = {}
                   /\ containers' = containers \cup {Unlabelled(i, rec)}
                   /\ created' = [created EXCEPT ![i] = @ + 1]
    IN  /\ \/ o = "ok" /\ Created
           \/ o = "refused" /\ Named(i) # {} /\ UNCHANGED <<containers, created>>
           \/ o = "fault" /\ (Created \/ UNCHANGED <<containers, created>>)
        /\ UNCHANGED autoscalers

\* A bug: the error of ContainerStop is taken for one of a container that has stopped.
DockerRemoveTolerant(sid, o) ==
    /\ \/ o = "ok"    /\ containers' = {c \in containers : c.sid # sid}
       \/ o = "fault" /\ UNCHANGED containers
    /\ UNCHANGED <<autoscalers, created>>

\* stopContainer, then removeContainer: both refuse an id the engine does not know.
DockerRemove(sid, o) ==
    LET known   == {c \in containers : c.sid = sid}
        removed == containers \ known
    IN  /\ \/ o = "ok"      /\ known # {} /\ containers' = removed
           \/ o = "refused" /\ known = {} /\ UNCHANGED containers
           \/ o = "fault"   /\ containers' \in {containers, removed}
        /\ UNCHANGED <<autoscalers, created>>

\* ContainerInspect: the restart policy does not matter.
DockerExists(sid) == \E c \in containers : c.sid = sid
=============================================================================
