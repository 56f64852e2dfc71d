----------------------------- MODULE RancherApi ------------------------------
(***************************************************************************)
(* lib/deploy/rancher-api (rancher1): services of a stack, known by an id  *)
(* that Rancher issues.  An update gives the new service a name of its own *)
(* because that of the old one stays taken for a while.  A request that    *)
(* gets no answer makes createContainer panic, which ends the handler, or  *)
(* at startup the process: for both it is a fault.                         *)
(***************************************************************************)
EXTENDS Deployment

\* The id Rancher issues for the next service of an instance.
RancherSid(i) == <<i, created[i] + 1>>

\* The user's id and the import type's are not used.
Service(i, rec, suffix) ==
    [ContainerOf(i, RancherSid(i), rec) EXCEPT !.owner = NoOwner, !.suffix = suffix]

\* createContainer.  Rancher refuses a name without suffix when a service has it, and
\* may refuse one that a service had.
RancherPost(i, rec, suffix, o) ==
    LET taken   == ~suffix /\ \E c \in Named(i) : ~c.suffix
        Created == /\ ~taken
                   /\ containers' = containers \cup {Service(i, rec, suffix)}
                   /\ created' = [created EXCEPT ![i] = @ + 1]
    IN  /\ \/ o = "ok" /\ Created
           \/ o = "refused" /\ ~suffix /\ created[i] > 0 /\ UNCHANGED <<containers, created>>
           \/ o = "fault" /\ (Created \/ UNCHANGED <<containers, created>>)
        /\ UNCHANGED autoscalers

RancherCreate(i, rec, o) == RancherPost(i, rec, FALSE, o)

\* The part of UpdateContainer after RemoveContainer.
RancherRecreate(i, rec, o) == RancherPost(i, rec, TRUE, o)

\* DELETE of the service, where nothing but 200 counts as success.
RancherRemove(sid, o) ==
    LET known   == {c \in containers : c.sid = sid}
        removed == containers \ known
    IN  /\ \/ o = "ok"      /\ known # {} /\ containers' = removed
           \/ o = "refused" /\ known = {} /\ UNCHANGED containers
           \/ o = "fault"   /\ containers' \in {containers, removed}
        /\ UNCHANGED <<autoscalers, created>>

\* GET of the service: 200 or 404.
RancherExists(sid) == \E c \in containers : c.sid = sid
=============================================================================
