------------------------------- MODULE Startup -------------------------------
(***************************************************************************)
(* The life of the process: lib.Start with EnsureAllInstancesDeployed,     *)
(* main's exit when that fails, and the restart by whatever supervises the *)
(* process.  Nothing but the external services survives.                   *)
(***************************************************************************)
EXTENDS Controller

CONSTANTS
    StartupEnsureDeployed,  \* config.StartupEnsureDeployed
    BatchSize,              \* how many documents a page of the list has
    NameOf,                 \* what the documents are sorted by: Instance.Name
    MaxCrashes              \* bound: how often the running process is killed

ASSUME EnsureAssumption == StartupEnsureDeployed \in BOOLEAN
ASSUME BatchAssumption == BatchSize \in Nat \ {0}
ASSUME NameAssumption == NameOf \in [Ids -> Nat]
ASSUME MaxCrashesAssumption == MaxCrashes \in Nat

VARIABLES
    boot,       \* the local state of EnsureAllInstancesDeployed
    crashes     \* how often the process was killed

vars == <<controllerVars, boot, crashes>>

Boot == [stage  : {"list", "probe", "create", "store"},
         offset : Nat,                      \* documents on earlier pages
         todo   : SUBSET Ids,               \* what is left of the page
         inst   : Ids,                      \* the instance being recreated
         sid    : ServiceIds \cup {NoSid}]  \* its new container

FirstPage == [stage |-> "list", offset |-> 0, todo |-> {},
              inst |-> CHOOSE i \in Ids : TRUE, sid |-> NoSid]

StartupTypeOK == boot \in Boot /\ crashes \in Nat
StartupInit == boot = FirstPage /\ crashes = 0

\* What the restoration leaves alone whatever happens.
BootFrame == UNCHANGED <<deployMode, topics, perms, issued, handlerVars, crashes>>

-----------------------------------------------------------------------------

\* lib.Start reaches the controller.
Start ==
    /\ proc = "down"
    /\ proc' = IF StartupEnsureDeployed THEN "boot" ELSE "serving"
    /\ UNCHANGED <<deployMode, topics, storeVars, deployVars, issued, handlerVars, faults, boot,
                   crashes>>

\* err is returned up to main, which exits.
Exit == proc' = "down" /\ boot' = FirstPage

\* A page of the documents sorted by name: those of a page are no earlier than the
\* documents skipped and no later than the rest.  Each call sorts anew, and the order
\* of equal names is not specified.
Pages(visible, offset) ==
    LET Sorted(A, B) == \A a \in A, b \in B : NameOf[a] <= NameOf[b]
        rest == Cardinality(visible) - offset
    IN  {page \in SUBSET visible :
            /\ Cardinality(page) = IF rest < BatchSize THEN rest ELSE BatchSize
            /\ \E skipped \in SUBSET (visible \ page) :
                /\ Cardinality(skipped) = offset
                /\ Sorted(skipped, visible \ skipped)
                /\ Sorted(page, visible \ (skipped \cup page))}

\* A bug: the next page begins one document too late.
ListPageOffByOne ==
    /\ proc = "boot" /\ boot.stage = "list"
    /\ IF boot.offset >= Cardinality(AdminVisible)
       THEN proc' = "serving" /\ boot' = FirstPage
       ELSE /\ \E page \in Pages(AdminVisible, boot.offset) :
                 boot' = [boot EXCEPT !.stage  = "probe",
                                      !.offset = @ + Cardinality(page) + 1,
                                      !.todo   = page]
            /\ UNCHANGED proc
    /\ BootFrame
    /\ UNCHANGED <<records, deployVars, faults>>

\* An empty page ends the loop, and the API is started.
ListPage ==
    /\ proc = "boot" /\ boot.stage = "list"
    /\ IF boot.offset >= Cardinality(AdminVisible)
       THEN proc' = "serving" /\ boot' = FirstPage
       ELSE /\ \E page \in Pages(AdminVisible, boot.offset) :
                 boot' = [boot EXCEPT !.stage  = "probe",
                                      !.offset = @ + Cardinality(page),
                                      !.todo   = page]
            /\ UNCHANGED proc
    /\ BootFrame
    /\ UNCHANGED <<records, deployVars, faults>>

\* A bug: an instance that is not restarted is taken for one that need not be there.
ProbeRestartedOnly ==
    /\ proc = "boot" /\ boot.stage = "probe"
    /\ IF boot.todo = {}
       THEN boot' = [boot EXCEPT !.stage = "list"]
       ELSE \E i \in boot.todo :
                IF ContainerExists(records[i].sid, records[i].restart) \/ ~records[i].restart
                THEN boot' = [boot EXCEPT !.todo = @ \ {i}]
                ELSE boot' = [boot EXCEPT !.stage = "create", !.todo = @ \ {i}, !.inst = i]
    /\ BootFrame
    /\ UNCHANGED <<proc, records, deployVars, faults>>

\* ContainerExists of the next document of the page.  No request is handled yet, so
\* the document is still what the page held.
Probe ==
    /\ proc = "boot" /\ boot.stage = "probe"
    /\ IF boot.todo = {}
       THEN boot' = [boot EXCEPT !.stage = "list"]
       ELSE \E i \in boot.todo :
                /\ \A j \in boot.todo : NameOf[i] <= NameOf[j]
                /\ IF ContainerExists(records[i].sid, records[i].restart)
                   THEN boot' = [boot EXCEPT !.todo = @ \ {i}]
                   ELSE boot' = [boot EXCEPT !.stage = "create", !.todo = @ \ {i}, !.inst = i]
    /\ BootFrame
    /\ UNCHANGED <<proc, records, deployVars, faults>>

\* Either of the two calls above fails.
ReadFails ==
    /\ proc = "boot" /\ boot.stage \in {"list", "probe"}
    /\ Spend("fault")
    /\ Exit
    /\ BootFrame
    /\ UNCHANGED <<records, deployVars>>

Recreate ==
    /\ proc = "boot" /\ boot.stage = "create"
    /\ \E o \in Outcomes :
        /\ CreateContainer(boot.inst, records[boot.inst], o)
        /\ Spend(o)
        /\ IF Succeeded(o)
           THEN boot' = [boot EXCEPT !.stage = "store", !.sid = NewSid(boot.inst)] /\ UNCHANGED proc
           ELSE Exit
    /\ BootFrame
    /\ UNCHANGED records

\* Mongo.SetInstance with the new service id, as administrator.
StoreSid ==
    /\ proc = "boot" /\ boot.stage = "store"
    /\ \E o \in Outcomes :
        /\ ReplaceOrInsert(boot.inst, [records[boot.inst] EXCEPT !.sid = boot.sid], o)
        /\ Spend(o)
        /\ IF Succeeded(o)
           THEN boot' = [boot EXCEPT !.stage = "probe", !.sid = NoSid] /\ UNCHANGED proc
           ELSE Exit
    /\ BootFrame
    /\ UNCHANGED deployVars

Restore == ListPage \/ Probe \/ ReadFails \/ Recreate \/ StoreSid

-----------------------------------------------------------------------------

\* The process is killed: main does not wait for handlers on a signal either.
Crash ==
    /\ proc # "down"
    /\ crashes < MaxCrashes
    /\ crashes' = crashes + 1
    /\ proc' = "down"
    /\ boot' = FirstPage
    /\ pc' = [r \in Reqs |-> IF InFlight(r) THEN "killed" ELSE pc[r]]
    /\ instance' = [r \in Reqs |-> NoRecord]
    /\ existing' = [r \in Reqs |-> NoRecord]
    /\ UNCHANGED <<deployMode, topics, storeVars, deployVars, issued, op, user, target, faults>>
=============================================================================
