------------------------ MODULE ImportDeployInvariant ------------------------
(***************************************************************************)
(* Why PermImpliesRecord and AnswersHold hold: an inductive invariant.     *)
(***************************************************************************)
EXTENDS ImportDeploy

\* What the local variables of a handler hold depends on where it is; handlers run
\* only while the process serves.
Local(r) ==
    /\ pc[r] \in Steps => proc = "serving"
    /\ pc[r] \in PostSteps => op[r] = "POST" /\ instance[r] \in Record
    /\ pc[r] = "find" => \/ op[r] = "PUT" /\ instance[r] \in Record
                         \/ op[r] = "DELETE"
    /\ pc[r] \in PutSteps \ {"find"} =>
          op[r] = "PUT" /\ instance[r] \in Record /\ existing[r] \in Record
    /\ pc[r] \in DeleteSteps \ {"find"} => op[r] = "DELETE" /\ existing[r] \in Record

Locals == \A r \in Reqs : Local(r)

\* The restoration begins with the first page, and works on documents that are there.
BootKnows ==
    /\ proc # "boot" => boot = FirstPage
    /\ proc = "boot" =>
        /\ \A i \in boot.todo : records[i] # NoRecord
        /\ boot.stage \in {"create", "store"} => records[boot.inst] # NoRecord

\* Only an id that was issued has a document or rights, or is the target of a POST;
\* no two POSTs have the same.
IdsAreIssued ==
    /\ \A i \in Ids : records[i] # NoRecord \/ perms[i] # NoPerms => i \in issued
    /\ \A r \in Reqs : op[r] = "POST" => target[r] \in issued
    /\ \A r, s \in Reqs : r # s /\ op[r] = "POST" /\ op[s] = "POST" => target[r] # target[s]

\* Nobody has rights on an instance that is still being created, and its document is
\* there before the owner gets them.
CreatingIsHidden ==
    \A r \in Reqs : pc[r] \in PostSteps =>
        /\ perms[target[r]] = NoPerms
        /\ pc[r] = "grant" => records[target[r]] # NoRecord

\* A PUT or DELETE got past the first permission check after the creation was over,
\* so that it never meets the POST of the same id.
LateComers ==
    \A r \in Reqs :
        op[r] \in {"PUT", "DELETE"} /\ pc[r] \in Steps \cup {"ok"} =>
            /\ target[r] \in issued
            /\ \A s \in Reqs : pc[s] \in PostSteps => target[s] # target[r]

\* When the document is deleted the rights are withdrawn.
DropIsHidden == \A r \in Reqs : pc[r] = "drop" => perms[target[r]] = NoPerms

TypeInv == TypeOK /\ Locals /\ BootKnows

SafeInv ==
    /\ PermImpliesRecord
    /\ IdsAreIssued
    /\ CreatingIsHidden
    /\ LateComers
    /\ DropIsHidden
    /\ AnswersHold

Inv == TypeInv /\ SafeInv

-----------------------------------------------------------------------------

\* The service ids an instance can have had after n creations, with every backend.
SidsOf(i, n) == {i} \X (0..n)

\* Where a handler has the service id that goes into the document, and where the
\* document it has read.
Sidded  == {"insert", "mayWrite", "replace"}
HasRead == (PutSteps \cup DeleteSteps) \ {"find"}

\* Whoever keeps a service id keeps it for the instance it was issued for.  An update
\* in place returns a name, which only kubernetes takes for an id.
SidsFit ==
    /\ \A r \in Reqs : pc[r] = "update" => deployMode = "kubernetes"
    /\ \A i \in Ids : records[i] # NoRecord => records[i].sid \in SidsOf(i, created[i])
    /\ \A r \in Reqs : pc[r] \in Sidded => instance[r].sid \in SidsOf(target[r], created[target[r]])
    /\ \A r \in Reqs : pc[r] \in HasRead => existing[r].sid \in SidsOf(target[r], created[target[r]])
    /\ proc = "boot" /\ boot.stage = "store" => boot.sid \in SidsOf(boot.inst, created[boot.inst])
    /\ \A c \in containers : c.sid \in SidsOf(c.inst, created[c.inst])

\* With rancher2 the instance that the restoration is about to create has no workload.
BootFree ==
    deployMode = "rancher2" /\ proc = "boot" /\ boot.stage = "create" => Named(boot.inst) = {}

RestorationInv == TypeInv /\ SidsFit /\ BootFree
=============================================================================
