-------------------------- MODULE KubernetesRemoval --------------------------
(***************************************************************************)
(* lib/deploy/kubernetes-api, RemoveContainer: goroutines delete the       *)
(* objects an instance's name stands for, store what they get in one       *)
(* variable err, which no lock protects, and look at it.  KubernetesApi    *)
(* has all this as one step, KubernetesRemove, which is shown to be enough.*)
(***************************************************************************)
EXTENDS Naturals, FiniteSets

CONSTANT Parts      \* what there is to delete, a goroutine for each

VARIABLES
    objects,    \* the parts that exist
    before,     \* those that existed when the call began
    pc,         \* where a goroutine is
    got,        \* what its Delete returned
    err,        \* the result variable all of them assign
    supErr,     \* whether an error was joined to the variable of that name
    answer      \* what RemoveContainer returned

removalVars == <<objects, before, pc, got, err, supErr, answer>>

Errors == {"nil", "notFound", "failed"}

RemovalTypeOK ==
    /\ objects \subseteq Parts
    /\ before  \subseteq Parts
    /\ pc  \in [Parts -> {"delete", "store", "isNil", "isNotFound", "join", "done"}]
    /\ got \in [Parts -> Errors]
    /\ err \in Errors
    /\ supErr \in BOOLEAN
    /\ answer \in {"none", "nil", "error"}

RemovalInit ==
    /\ objects \in SUBSET Parts
    /\ before = objects
    /\ pc  = [g \in Parts |-> "delete"]
    /\ got = [g \in Parts |-> "nil"]
    /\ err = "nil"
    /\ supErr = FALSE
    /\ answer = "none"

-----------------------------------------------------------------------------

To(g, label) == pc' = [pc EXCEPT ![g] = label]

\* The request to the API server, which may fail, or time out when it had its effect.
CallDelete(g) ==
    /\ pc[g] = "delete"
    /\ \E e \in Errors :
        /\ e = "nil"      => g \in objects    /\ objects' = objects \ {g}
        /\ e = "notFound" => g \notin objects /\ UNCHANGED objects
        /\ e = "failed"   => objects' \in {objects, objects \ {g}}
        /\ got' = [got EXCEPT ![g] = e]
    /\ To(g, "store")
    /\ UNCHANGED <<before, err, supErr, answer>>

StoreErr(g) ==
    /\ pc[g] = "store"
    /\ err' = got[g]
    /\ To(g, "isNil")
    /\ UNCHANGED <<objects, before, got, supErr, answer>>

\* A race: the compiler may load err again, which others store to meanwhile, or use
\* the value at hand.  Its two words are taken to be stored together; a value torn apart
\* can only end the process, which may always happen.
Loads(g) == {got[g], err}

\* A bug: an error of the API server is mixed up with success.
TestNilInverted(g) ==
    /\ pc[g] = "isNil"
    /\ \E e \in Loads(g) : To(g, IF e # "nil" THEN "done" ELSE "isNotFound")
    /\ UNCHANGED <<objects, before, got, err, supErr, answer>>

\* err != nil && ...
TestNil(g) ==
    /\ pc[g] = "isNil"
    /\ \E e \in Loads(g) : To(g, IF e = "nil" THEN "done" ELSE "isNotFound")
    /\ UNCHANGED <<objects, before, got, err, supErr, answer>>

\* A bug: an object that is not there is taken for one that could not be deleted.
JoinNotFound(g) ==
    /\ pc[g] = "isNotFound"
    /\ To(g, "join")
    /\ UNCHANGED <<objects, before, got, err, supErr, answer>>

\* ... !apierrors.IsNotFound(err), which a nil error is not either.
TestNotFound(g) ==
    /\ pc[g] = "isNotFound"
    /\ \E e \in Loads(g) : To(g, IF e = "notFound" THEN "done" ELSE "join")
    /\ UNCHANGED <<objects, before, got, err, supErr, answer>>

\* A bug: the mutex is not unlocked.
JoinLocked(g) ==
    /\ pc[g] = "join"
    /\ ~supErr
    /\ supErr' = TRUE
    /\ To(g, "done")
    /\ UNCHANGED <<objects, before, got, err, answer>>

\* errors.Join, under the mutex.
JoinErr(g) ==
    /\ pc[g] = "join"
    /\ supErr' = TRUE
    /\ To(g, "done")
    /\ UNCHANGED <<objects, before, got, err, answer>>

\* A bug: the goroutines are not waited for.
ReturnEarly ==
    /\ answer = "none"
    /\ answer' = IF supErr THEN "error" ELSE "nil"
    /\ UNCHANGED <<objects, before, pc, got, err, supErr>>

\* wg.Wait and the return of supErr.
ReturnSupErr ==
    /\ answer = "none"
    /\ \A g \in Parts : pc[g] = "done"
    /\ answer' = IF supErr THEN "error" ELSE "nil"
    /\ UNCHANGED <<objects, before, pc, got, err, supErr>>

Goroutine(g) == CallDelete(g) \/ StoreErr(g) \/ TestNil(g) \/ TestNotFound(g) \/ JoinErr(g)

RemovalNext == ReturnSupErr \/ \E g \in Parts : Goroutine(g)

RemovalSpec == RemovalInit /\ [][RemovalNext]_removalVars

\* Every request ends with the context's timeout, and goroutines are scheduled.
RemovalLiveSpec ==
    /\ RemovalSpec
    /\ WF_removalVars(ReturnSupErr)
    /\ \A g \in Parts : WF_removalVars(Goroutine(g))

-----------------------------------------------------------------------------

\* The race may lose errors, but not every one: the error that was stored last is the
\* one every later load yields, so that a removal all of whose requests failed, because
\* the API server is away or the context expired, never returns nil.
LastErrorReported == answer # "none" /\ err = "failed" => answer = "error"

\* The race may also make up an error, though nothing failed, and then DeleteInstance gives
\* up with everything deleted.  It takes a part that was there and a part that was not,
\* which is how RemoveContainer is called: a Deployment has no Job of its name.
ErrorNeedsCause ==
    answer = "error" =>
        \/ \E g \in Parts : got[g] = "failed"
        \/ \E g, h \in Parts : got[g] = "nil" /\ got[h] = "notFound"

\* What the caller sees: nothing changes until RemoveContainer returns.
Shown == IF answer = "none" THEN before ELSE objects

Workloads == {"deployment", "job"}

\* One instance, and what the contract has of it.
Api == INSTANCE KubernetesApi WITH
    Ids <- {"import"}, Users <- {"user"}, Types <- {"type"}, Confs <- {"conf"},
    NoOwner <- "", NoSid <- "", NoRecord <- "none", NoPerms <- "none",
    containers  <- {[inst |-> "import", sid |-> <<"import", 0>>, restart |-> p = "deployment",
                     conf |-> "conf", owner |-> "user", suffix |-> FALSE] : p \in Shown \cap Workloads},
    autoscalers <- {"import" : p \in Shown \cap {"vpa"}},
    created     <- [i \in {"import"} |-> 0]

Outcome ==
    IF answer = "error" THEN "fault"
    ELSE IF \E g \in Parts : got[g] = "failed" THEN "masked" ELSE "ok"

\* The one step KubernetesApi has for RemoveContainer is all that its caller can tell of
\* the goroutines: when it returns they are over, and with nil and no failed request
\* everything is gone.
KeepsContract == [][Api!KubernetesRemove("import", Outcome')]_<<Shown, answer>>

\* wg.Wait comes to an end.
Returns == <>(answer # "none")
=============================================================================
