--------------------------- MODULE HistoryInvariant --------------------------
(***************************************************************************)
(* Why AllOrNothing, OverlapsSerialized, TopicGoesLast and StartupRestores *)
(* hold: what the five stores hold of an instance while one handler has    *)
(* begun to change them, and how far the restoration has come.             *)
(***************************************************************************)
EXTENDS ImportDeployHistory, ImportDeployInvariant

\* Nothing has happened to the instance that may set the stores apart.
Tracked(i) == i \notin spoiled /\ (i \notin overlapped \/ deployMode \in EngineIssued)

\* The handlers that have changed something of an instance and are not done.
Holders(i) == {r \in Reqs : target[r] = i /\ pc[r] \in Halfway}

\* The handlers that are about to remove a container, by the id they have read.
Removers(i) == {r \in Reqs : target[r] = i /\ pc[r] \in {"remove", "undeploy"}}

\* What there is of the instance between two calls of the one handler that changes it.
Amid(r) ==
    LET i == target[r]
    IN  /\ perms[i] = NoPerms <=> pc[r] \in {"create", "insert", "grant", "drop"}
        /\ pc[r] \in {"create", "insert"} => records[i] = NoRecord
        /\ pc[r] \in {"create", "recreate", "untopic", "mayDelete", "ungrant", "drop"} => Undeployed(i)
        /\ pc[r] \in {"insert", "mayWrite", "replace"} => Running(i, instance[r])
        /\ pc[r] \in {"create", "insert", "recreate", "mayWrite", "replace"} => HasTopic(i)
        /\ pc[r] \in {"mayDelete", "ungrant", "drop"} => i \notin topics
        /\ pc[r] = "grant" => Complete(i)

\* With an engine-issued id no document and no other handler knows the new container.
Unknown(r) ==
    deployMode \in EngineIssued /\ pc[r] \in {"mayWrite", "replace"} =>
        /\ records[target[r]].sid # instance[r].sid
        /\ \A s \in Removers(target[r]) : existing[s].sid # instance[r].sid

\* The stores agree about an instance nobody is changing; otherwise one handler is, and
\* they hold what belongs between its calls.  With ids that are names this depends on
\* the rights being there for whoever has passed the check of them.
Sound(i) ==
    /\ Holders(i) = {} => Agreed(i)
    /\ \A r \in Holders(i) : Holders(i) = {r} /\ Amid(r) /\ Unknown(r)
    /\ deployMode \notin EngineIssued =>
          \A r \in Reqs :
              target[r] = i /\ pc[r] \in {"find", "update", "remove", "undeploy"} =>
                  perms[i] # NoPerms

\* What the configuration leaves out is not there.
Settings ==
    /\ deployMode \notin Autoscaling => autoscalers = {}
    /\ SkipKafkaAdmin => topics = {} /\ \A r \in Reqs : pc[r] \notin {"topic", "untopic"}

\* The restoration asks about listed instances, and recreates only such as have lost
\* their container or were left halfway.
RestoresSpoiled ==
    /\ \A i \in boot.todo : perms[i] # NoPerms
    /\ proc = "boot" /\ boot.stage \in {"create", "store"} => ~Tracked(boot.inst)

StoresInv ==
    /\ SidsFit
    /\ Overlapping \subseteq overlapped
    /\ Settings
    /\ RestoresSpoiled
    /\ \A i \in Ids : Tracked(i) => Sound(i)

-----------------------------------------------------------------------------

\* No two instances have the same name, by which the pages of the restoration are sorted.
NamesDiffer == \A i, j \in Ids : NameOf[i] = NameOf[j] => i = j

\* D is as many of the listed documents as the pages so far had, the first by name, and
\* those the restoration is done with have their container.
DoneWith(D) ==
    /\ Cardinality(D) = boot.offset
    /\ \A a \in D, b \in AdminVisible \ D : NameOf[a] <= NameOf[b]
    /\ \A i \in D \ (boot.todo \cup lost) :
            Deployed(i) \/ (boot.stage \in {"create", "store"} /\ i = boot.inst)

\* How far the restoration has come, from one of its calls to the next.
Restoring ==
    proc = "boot" =>
        /\ boot.stage = "list" => boot.todo = {}
        /\ boot.stage = "store" =>
              boot.inst \in lost \/ ContainerExists(boot.sid, records[boot.inst].restart)
        /\ NamesDiffer => \E D \in SUBSET AdminVisible : DoneWith(D)

HistoryInv == Inv /\ RestorationInv /\ StoresInv /\ Restoring
=============================================================================
