------------------------- MODULE ImportDeployHistory -------------------------
(***************************************************************************)
(* ImportDeploy with variables that remember what has happened to an       *)
(* instance.  They are read by the properties below only.                  *)
(***************************************************************************)
EXTENDS ImportDeploy

VARIABLES
    overlapped, \* ids that two requests were about at the same time
    spoiled,    \* ids that a failure may have left halfway
    untopiced,  \* ids a DELETE has reached Kafka for
    lost        \* ids that lost a container since the restoration began

historyVars == <<vars, overlapped, spoiled, untopiced, lost>>

HistoryInit == Init /\ overlapped = {} /\ spoiled = {} /\ untopiced = {} /\ lost = {}

-----------------------------------------------------------------------------

\* Two requests about the same instance are being handled.
Overlapping ==
    {i \in Ids : \E r, s \in Reqs :
        r # s /\ target[r] = i /\ target[s] = i /\ InFlight(r) /\ InFlight(s)}

\* Steps before which a handler has already changed something.
Halfway == (PostSteps \ {"topic"}) \cup {"recreate", "mayWrite", "replace"}
           \cup (DeleteSteps \ {"find", "undeploy"})

CutShort == {target[r] : r \in {s \in Reqs :
                pc[s] \in Halfway /\ pc'[s] \in {"failed", "killed"}}}

\* What the step is about.
Moved == {target[r] : r \in {s \in Reqs : pc'[s] # pc[s]}}
Gone  == {c.inst : c \in containers \ containers'}
Booting == IF proc = "boot" THEN {boot.inst} ELSE {}

HistoryNext ==
    /\ Next
    /\ overlapped' = overlapped \cup Overlapping'
    /\ spoiled' = spoiled \cup CutShort
                  \cup (IF faults' = faults THEN {} ELSE Moved \cup Gone \cup Booting)
    /\ untopiced' = untopiced \cup {target[r] : r \in {s \in Reqs :
                        pc[s] = "untopic" /\ pc'[s] # "untopic"}}
    /\ lost' = IF proc = "down" THEN {} ELSE lost \cup Gone

HistorySpec == HistoryInit /\ [][HistoryNext]_historyVars

-----------------------------------------------------------------------------

Matches(c, rec) == c.sid = rec.sid /\ c.restart = rec.restart /\ c.conf = rec.conf

\* The backend runs one container for the instance, which is what rec asks for, or has
\* nothing of it.
Running(i, rec) ==
    /\ \E c \in containers : Named(i) = {c} /\ Matches(c, rec)
    /\ i \in autoscalers \/ deployMode \notin Autoscaling

Undeployed(i) == Named(i) = {} /\ i \notin autoscalers

HasTopic(i) == i \in topics \/ SkipKafkaAdmin

\* The instance has all that belongs to it, once, or nothing of it is left anywhere.
Complete(i) == records[i] # NoRecord /\ Running(i, records[i]) /\ HasTopic(i)
Absent(i)   == records[i] = NoRecord /\ Undeployed(i) /\ i \notin topics

\* No request about the instance is being handled.
Quiet(i) == \A r \in Reqs : target[r] = i => ~InFlight(r)

Agreed(i) == IF perms[i] # NoPerms THEN Complete(i) ELSE Absent(i)

\* Five stores hold parts of an instance.  When no request about it is being handled,
\* none overlapped and none was cut short, they agree: either it is listed and its
\* document, its one container, topic and autoscaler are there and match, or there is
\* no trace of it.  Every sequence of answered and turned down requests keeps this.
AllOrNothing == \A i \in Ids \ (overlapped \cup spoiled) : Quiet(i) => Agreed(i)

\* With a backend that issues ids the stores agree even if PUTs and DELETEs of the
\* instance overlapped: each begins its changes by removing the container its document
\* names, which only one of them can, and the others fail before they change anything.
\* The handlers take no lock; RemoveContainer's error is what keeps them apart.
OverlapsSerialized ==
    deployMode \in EngineIssued => \A i \in Ids \ spoiled : Quiet(i) => Agreed(i)

\* A container never writes to a topic that was not created for it: as long as no
\* DELETE has reached Kafka, whatever has a document or a container has its topic,
\* whatever failed, crashed or raced.
TopicPresent ==
    SkipKafkaAdmin \/
    \A i \in Ids \ untopiced : (records[i] # NoRecord \/ Named(i) # {}) => i \in topics

\* A DELETE takes the topic away when the container is gone, never before: not if the
\* backend refused to remove it, and, if the backend issues ids, not while an overlapping
\* PUT has started another.  With ids that are names an overlapping PUT may do that.
TopicGoesLast ==
    [][\A i \in topics \ topics' :
          \/ Undeployed(i)
          \/ i \in spoiled
          \/ i \in overlapped /\ deployMode \notin EngineIssued]_historyVars

\* When EnsureAllInstancesDeployed is through, every instance has its container.
RestoredAll == proc = "boot" /\ proc' = "serving" => \A i \in AdminVisible \ lost : Deployed(i)

\* README.md, STARTUP_ENSURE_DEPLOYED: when EnsureAllInstancesDeployed is through with
\* all pages, every instance has its container, unless it was lost meanwhile.
StartupRestores == [][RestoredAll]_historyVars
=============================================================================
