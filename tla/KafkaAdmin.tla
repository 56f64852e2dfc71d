----------------------------- MODULE KafkaAdmin ------------------------------
(***************************************************************************)
(* lib/kafka-admin: one topic per instance, named after its id.  The admin *)
(* connection is closed after the call; an error of Close is returned      *)
(* although the call took effect, which the outcome "fault" covers.        *)
(***************************************************************************)
EXTENDS Instances

VARIABLE topics     \* the topics the broker has, by instance id

KafkaTypeOK == topics \subseteq Ids
KafkaInit == topics = {}

\* A bug: the topic is created before fillDefaultValues gives it a name.
CreateUnnamedTopic(i, o) ==
    \/ o = "ok"      /\ topics' = topics \cup {NoOwner}
    \/ o = "refused" /\ UNCHANGED topics
    \/ o = "fault"   /\ UNCHANGED topics

\* KafkaAdminImpl.CreateTopic: the broker refuses a topic that exists.
CreateTopic(i, o) ==
    \/ o = "ok"      /\ i \notin topics /\ topics' = topics \cup {i}
    \/ o = "refused" /\ i \in topics    /\ UNCHANGED topics
    \/ o = "fault"   /\ topics' \in {topics, topics \cup {i}}

\* KafkaAdminImpl.DeleteTopic: the broker refuses a topic that does not exist.
DeleteTopic(i, o) ==
    \/ o = "ok"      /\ i \in topics    /\ topics' = topics \ {i}
    \/ o = "refused" /\ i \notin topics /\ UNCHANGED topics
    \/ o = "fault"   /\ topics' \in {topics, topics \ {i}}
=============================================================================
