--------------------------- MODULE GoroutinesProofs --------------------------
(***************************************************************************)
(* The two specifications about goroutines that share variables: the race  *)
(* of RemoveContainer, for any number of goroutines, and the end of the    *)
(* process, for any number of clients and signals.                         *)
(***************************************************************************)
EXTENDS KubernetesRemoval, Lifecycle, FiniteSetTheorems, TLAPS

-----------------------------------------------------------------------------

(***************************************************************************)
(* RemoveContainer                                                         *)
(***************************************************************************)

\* A goroutine has an error to report that it has not dropped.
Reporting(g) == got[g] = "failed" /\ pc[g] \in {"isNil", "isNotFound", "join"}

\* As long as err holds a failure, the goroutine that stored it is on its way to report it.
LastInv == err = "failed" => supErr \/ \E g \in Parts : Reporting(g)

\* Something was returned by a call that is over.
Got(g, e) == got[g] = e /\ pc[g] # "delete"

\* Where a goroutine that goes on to report an error can have got it from.
Cause == \/ \E g \in Parts : Got(g, "failed")
         \/ \E g, h \in Parts : Got(g, "nil") /\ Got(h, "notFound")

CauseInv ==
    /\ \A g \in Parts : pc[g] \in {"isNil", "isNotFound", "join", "done"} =>
          \E h \in Parts : Got(h, err)
    /\ \A g \in Parts : pc[g] = "isNotFound" =>
          \E h \in Parts : Got(h, "failed") \/ Got(h, "notFound")
    /\ (supErr \/ \E g \in Parts : pc[g] = "join") => Cause

AnswerInv == answer # "none" => /\ \A g \in Parts : pc[g] = "done"
                                /\ answer = "error" <=> supErr

RemovalInv == RemovalTypeOK /\ LastInv /\ CauseInv /\ AnswerInv

\* What the definitions of the steps have in common.
LEMMA RemovalTypes == RemovalTypeOK /\ [RemovalNext]_removalVars => RemovalTypeOK'
<1> SUFFICES ASSUME RemovalTypeOK, [RemovalNext]_removalVars PROVE RemovalTypeOK'
  OBVIOUS
<1> USE DEF RemovalTypeOK, Errors
<1>1. CASE ReturnSupErr
  BY <1>1 DEF ReturnSupErr
<1>2. ASSUME NEW g \in Parts, Goroutine(g) PROVE RemovalTypeOK'
  <2>1. CASE CallDelete(g)
    BY <2>1 DEF CallDelete, To
  <2>2. CASE StoreErr(g)
    BY <2>2 DEF StoreErr, To
  <2>3. CASE TestNil(g)
    BY <2>3 DEF TestNil, To
  <2>4. CASE TestNotFound(g)
    BY <2>4 DEF TestNotFound, To
  <2>5. CASE JoinErr(g)
    BY <2>5 DEF JoinErr, To
  <2> QED  BY <1>2, <2>1, <2>2, <2>3, <2>4, <2>5 DEF Goroutine
<1>3. CASE UNCHANGED removalVars
  BY <1>3 DEF removalVars
<1> QED  BY <1>1, <1>2, <1>3 DEF RemovalNext

\* The error stored last is not lost: every load of err yields it, and so does the value
\* that its goroutine has at hand.
LEMMA LastStep == RemovalTypeOK /\ LastInv /\ [RemovalNext]_removalVars => LastInv'
<1> SUFFICES ASSUME RemovalTypeOK, LastInv, [RemovalNext]_removalVars PROVE LastInv'
  OBVIOUS
<1> USE DEF RemovalTypeOK, Errors, LastInv, Reporting
<1>1. CASE ReturnSupErr
  BY <1>1 DEF ReturnSupErr
<1>2. ASSUME NEW g \in Parts, Goroutine(g) PROVE LastInv'
  <2>1. CASE CallDelete(g)
    BY <2>1 DEF CallDelete, To
  <2>2. CASE StoreErr(g)
    BY <2>2 DEF StoreErr, To
  <2>3. CASE TestNil(g)
    BY <2>3 DEF TestNil, To, Loads
  <2>4. CASE TestNotFound(g)
    BY <2>4 DEF TestNotFound, To, Loads
  <2>5. CASE JoinErr(g)
    BY <2>5 DEF JoinErr, To
  <2> QED  BY <1>2, <2>1, <2>2, <2>3, <2>4, <2>5 DEF Goroutine
<1>3. CASE UNCHANGED removalVars
  BY <1>3 DEF removalVars
<1> QED  BY <1>1, <1>2, <1>3 DEF RemovalNext

\* What calls have returned they have returned for good.
LEMMA GotStays ==
    ASSUME RemovalTypeOK, NEW g \in Parts, Goroutine(g), NEW h \in Parts, NEW e, Got(h, e)
    PROVE  Got(h, e)'
BY DEF RemovalTypeOK, Got, Goroutine, CallDelete, StoreErr, TestNil, TestNotFound, JoinErr, To

LEMMA CauseStays ==
    ASSUME RemovalTypeOK, NEW g \in Parts, Goroutine(g), Cause
    PROVE  Cause'
BY GotStays DEF Cause

\* An error that is joined has a cause: what a goroutine loads, some call has returned.
LEMMA CauseStep == RemovalTypeOK /\ CauseInv /\ [RemovalNext]_removalVars => CauseInv'
<1> SUFFICES ASSUME RemovalTypeOK, CauseInv, [RemovalNext]_removalVars PROVE CauseInv'
  OBVIOUS
<1>1. CASE ReturnSupErr
  BY <1>1 DEF ReturnSupErr, CauseInv, Cause, Got
<1>2. ASSUME NEW g \in Parts, Goroutine(g) PROVE CauseInv'
  <2> USE DEF RemovalTypeOK, Errors
  <2>1. CASE CallDelete(g)
    <3>1. \A h \in Parts : pc'[h] # "delete" => h = g \/ pc'[h] = pc[h]
      BY <2>1 DEF CallDelete, To
    <3>2. pc'[g] = "store" /\ err' = err /\ supErr' = supErr
      BY <2>1 DEF CallDelete, To
    <3> QED  BY <1>2, <3>1, <3>2, GotStays, CauseStays DEF CauseInv
  <2>2. CASE StoreErr(g)
    <3>1. \A h \in Parts \ {g} : pc'[h] = pc[h]
      BY <2>2 DEF StoreErr, To
    <3>2. pc'[g] = "isNil" /\ supErr' = supErr /\ Got(g, err)'
      BY <2>2 DEF StoreErr, To, Got
    <3> QED  BY <1>2, <3>1, <3>2, GotStays, CauseStays DEF CauseInv
  <2>3. CASE TestNil(g)
    <3>1. PICK e \in Loads(g) : To(g, IF e = "nil" THEN "done" ELSE "isNotFound")
      BY <2>3 DEF TestNil
    <3>2. \A h \in Parts \ {g} : pc'[h] = pc[h]
      BY <2>3 DEF TestNil, To
    <3>3. pc[g] = "isNil" /\ err' = err /\ supErr' = supErr
      BY <2>3 DEF TestNil
    <3>4. e \in Errors /\ \E h \in Parts : Got(h, e)
      BY <3>1, <3>3 DEF Loads, Got, CauseInv
    <3>5. \/ pc'[g] = "done"
          \/ pc'[g] = "isNotFound" /\ \E h \in Parts : Got(h, "failed") \/ Got(h, "notFound")
      BY <3>1, <3>4 DEF To
    <3> QED  BY <1>2, <3>2, <3>3, <3>5, GotStays, CauseStays DEF CauseInv
  <2>4. CASE TestNotFound(g)
    <3>1. PICK e \in Loads(g) : To(g, IF e = "notFound" THEN "done" ELSE "join")
      BY <2>4 DEF TestNotFound
    <3>2. \A h \in Parts \ {g} : pc'[h] = pc[h]
      BY <2>4 DEF TestNotFound, To
    <3>3. pc[g] = "isNotFound" /\ err' = err /\ supErr' = supErr
      BY <2>4 DEF TestNotFound
    <3>4. e \in Errors /\ \E h \in Parts : Got(h, e)
      BY <3>1, <3>3 DEF Loads, Got, CauseInv
    <3>5. \E h \in Parts : Got(h, "failed") \/ Got(h, "notFound")
      BY <3>3 DEF CauseInv
    <3>6. pc'[g] = "done" \/ (pc'[g] = "join" /\ Cause)
      BY <3>1, <3>4, <3>5 DEF To, Cause
    <3> QED  BY <1>2, <3>2, <3>3, <3>6, GotStays, CauseStays DEF CauseInv
  <2>5. CASE JoinErr(g)
    <3>1. \A h \in Parts \ {g} : pc'[h] = pc[h]
      BY <2>5 DEF JoinErr, To
    <3>2. pc[g] = "join" /\ pc'[g] = "done" /\ err' = err
      BY <2>5 DEF JoinErr, To
    <3> QED  BY <1>2, <3>1, <3>2, GotStays, CauseStays DEF CauseInv
  <2> QED  BY <1>2, <2>1, <2>2, <2>3, <2>4, <2>5 DEF Goroutine
<1>3. CASE UNCHANGED removalVars
  BY <1>3 DEF removalVars, CauseInv, Cause, Got
<1> QED  BY <1>1, <1>2, <1>3 DEF RemovalNext

\* The goroutines are over when the answer is given.
LEMMA AnswerStep == RemovalTypeOK /\ AnswerInv /\ [RemovalNext]_removalVars => AnswerInv'
<1> SUFFICES ASSUME RemovalTypeOK, AnswerInv, [RemovalNext]_removalVars PROVE AnswerInv'
  OBVIOUS
<1> USE DEF RemovalTypeOK, AnswerInv
<1>1. CASE ReturnSupErr
  BY <1>1 DEF ReturnSupErr
<1>2. ASSUME NEW g \in Parts, Goroutine(g) PROVE AnswerInv'
  BY <1>2 DEF Goroutine, CallDelete, StoreErr, TestNil, TestNotFound, JoinErr
<1>3. CASE UNCHANGED removalVars
  BY <1>3 DEF removalVars
<1> QED  BY <1>1, <1>2, <1>3 DEF RemovalNext

\* The inductive invariant of RemoveContainer.
THEOREM RemovalInvariant == RemovalSpec => []RemovalInv
<1>1. RemovalInit => RemovalInv
  BY DEF RemovalInit, RemovalInv, RemovalTypeOK, Errors, LastInv, CauseInv, AnswerInv
<1>2. RemovalInv /\ [RemovalNext]_removalVars => RemovalInv'
  BY RemovalTypes, LastStep, CauseStep, AnswerStep DEF RemovalInv
<1> QED  BY <1>1, <1>2, PTL DEF RemovalSpec

\* RemoveContainer reports the error that was stored in err last.
THEOREM LastErrorIsReported == RemovalSpec => []LastErrorReported
<1>1. RemovalInv => LastErrorReported
  BY DEF RemovalInv, RemovalTypeOK, LastInv, Reporting, AnswerInv, LastErrorReported
<1> QED  BY <1>1, RemovalInvariant, PTL

\* RemoveContainer does not make up an error when nothing failed and nothing was missing.
THEOREM ErrorsHaveCauses == RemovalSpec => []ErrorNeedsCause
<1>1. RemovalInv => ErrorNeedsCause
  BY DEF RemovalInv, CauseInv, Cause, Got, AnswerInv, ErrorNeedsCause
<1> QED  BY <1>1, RemovalInvariant, PTL

-----------------------------------------------------------------------------

\* What a goroutine deleted, or did not find, does not exist, and nothing comes to be.
GoneInv ==
    /\ objects \subseteq before
    /\ \A g \in objects : pc[g] = "delete" \/ got[g] = "failed"

LEMMA GoneStep == RemovalTypeOK /\ GoneInv /\ [RemovalNext]_removalVars => GoneInv'
<1> SUFFICES ASSUME RemovalTypeOK, GoneInv, [RemovalNext]_removalVars PROVE GoneInv'
  OBVIOUS
<1> USE DEF RemovalTypeOK, Errors, GoneInv
<1>1. CASE ReturnSupErr
  BY <1>1 DEF ReturnSupErr
<1>2. ASSUME NEW g \in Parts, Goroutine(g) PROVE GoneInv'
  <2>1. CASE CallDelete(g)
    BY <2>1 DEF CallDelete, To
  <2>2. CASE ~CallDelete(g)
    BY <1>2, <2>2 DEF Goroutine, StoreErr, TestNil, TestNotFound, JoinErr, To
  <2> QED  BY <2>1, <2>2
<1>3. CASE UNCHANGED removalVars
  BY <1>3 DEF removalVars
<1> QED  BY <1>1, <1>2, <1>3 DEF RemovalNext

\* Until RemoveContainer returns its caller sees nothing of what the goroutines do.
LEMMA GoroutineIsHidden ==
    ASSUME RemovalTypeOK, AnswerInv, NEW g \in Parts, Goroutine(g)
    PROVE  UNCHANGED <<Shown, answer>>
<1>1. answer = "none"
  BY DEF AnswerInv, RemovalTypeOK, Goroutine, CallDelete, StoreErr, TestNil, TestNotFound, JoinErr
<1>2. UNCHANGED <<before, answer>>
  BY DEF Goroutine, CallDelete, StoreErr, TestNil, TestNotFound, JoinErr
<1> QED  BY <1>1, <1>2 DEF Shown

\* The return is the step of the contract.
LEMMA ReturnIsRemove ==
    ASSUME RemovalTypeOK, AnswerInv, GoneInv, ReturnSupErr
    PROVE  Api!KubernetesRemove("import", Outcome')
<1> DEFINE Object(p) == [inst |-> "import", sid |-> <<"import", 0>>, restart |-> p = "deployment",
                         conf |-> "conf", owner |-> "user", suffix |-> FALSE]
           Containers(S) == {Object(p) : p \in S \cap Workloads}
           Autoscalers(S) == {"import" : p \in S \cap {"vpa"}}
<1>1. Shown = before /\ Shown' = objects /\ objects \subseteq before
  BY DEF ReturnSupErr, Shown, GoneInv
<1>2. Containers(objects) \subseteq Containers(before)
  BY <1>1
<1>3. {c \in Containers(before) : c.inst = "import"} = Containers(before)
  OBVIOUS
<1>4. Autoscalers(objects) \in {Autoscalers(before), Autoscalers(before) \ {"import"}}
  BY <1>1
<1>5. Outcome' = "ok" => objects = {}
  BY DEF Outcome, ReturnSupErr, GoneInv, RemovalTypeOK
<1>6. Outcome' \in {"ok", "fault", "masked"}
  BY DEF Outcome
<1> HIDE DEF Containers, Autoscalers
<1>7. CASE Outcome' = "ok"
  <2>1. Containers(objects) = {} /\ Autoscalers(objects) = {}
    BY <1>5, <1>7 DEF Containers, Autoscalers
  <2>2. Autoscalers(before) \ {"import"} = {}
    BY DEF Autoscalers
  <2> QED
    BY <1>1, <1>3, <1>7, <2>1, <2>2 DEF Api!KubernetesRemove, Api!Named, Containers, Autoscalers
<1>8. CASE Outcome' \in {"fault", "masked"}
  BY <1>1, <1>2, <1>3, <1>4, <1>8 DEF Api!KubernetesRemove, Api!Named, Containers, Autoscalers
<1> QED  BY <1>6, <1>7, <1>8

\* RemoveContainer, with all its goroutines, is one step of the contract that the
\* specification of the service uses.
THEOREM ContractIsKept == RemovalSpec => KeepsContract
<1>1. RemovalInit => GoneInv
  BY DEF RemovalInit, GoneInv
<1>2. RemovalSpec => []GoneInv
  <2>1. GoneInv /\ RemovalInv /\ [RemovalNext]_removalVars => GoneInv'
    BY GoneStep DEF RemovalInv
  <2> QED  BY <1>1, <2>1, RemovalInvariant, PTL DEF RemovalSpec
<1>3. ASSUME RemovalInv, GoneInv, [RemovalNext]_removalVars
      PROVE  [Api!KubernetesRemove("import", Outcome')]_<<Shown, answer>>
  <2>1. CASE ReturnSupErr
    BY <1>3, <2>1, ReturnIsRemove DEF RemovalInv
  <2>2. ASSUME NEW g \in Parts, Goroutine(g) PROVE UNCHANGED <<Shown, answer>>
    BY <1>3, <2>2, GoroutineIsHidden DEF RemovalInv
  <2>3. CASE UNCHANGED removalVars
    BY <2>3 DEF removalVars, Shown
  <2> QED  BY <1>3, <2>1, <2>2, <2>3 DEF RemovalNext
<1> QED  BY <1>2, <1>3, RemovalInvariant, PTL DEF RemovalSpec, KeepsContract

-----------------------------------------------------------------------------

(***************************************************************************)
(* main                                                                    *)
(***************************************************************************)

\* The goroutines main waits for.
Live == {c \in Clients : closer[c] \in {"waiting", "finishing"}}

\* What is connected some goroutine will close.
Connections ==
    /\ \A c \in connected : closer[c] = "waiting"
    /\ main = "load" => \A c \in Clients : closer[c] = "absent"
    /\ main \in {"restore", "listen", "notify", "wait"} => closer[Database] # "absent"
    /\ \A c \in Clients : closer[c] \in {"finishing", "done"} => cancelled

\* The watcher is started last.  Until the start has failed only it cancels, when it has
\* received a signal and taken the time.
Signalled ==
    /\ watcher # "absent" => main \in {"wait", "over"}
    /\ cancelled => watcher = "done" \/ main \in {"waitFailed", "over"}
    /\ buffered \/ watcher \in {"received", "stamped", "done"} => signals > 0
    /\ watcher \in {"stamped", "done"} => stamped

Finished ==
    /\ ClosedAtExit /\ StampedBeforeRead /\ NoEarlyExit
    /\ exit = "none" <=> main # "over"

LifecycleInv ==
    /\ LifecycleTypeOK
    /\ wg = Cardinality(Live)
    /\ Connections /\ Signalled /\ Finished

-----------------------------------------------------------------------------

LEMMA LiveIsFinite == IsFiniteSet(Live)
  BY ClientsAssumption, FS_Subset DEF Live

\* wg.Add and the goroutine it is for come together.
LEMMA ConnectCounts ==
    ASSUME LifecycleInv, NEW c \in Clients, Connect(c)
    PROVE  wg' = Cardinality(Live')
<1>1. Live' = Live \cup {c} /\ c \notin Live
  BY DEF LifecycleInv, LifecycleTypeOK, Connect, Live
<1>2. Cardinality(Live') = Cardinality(Live) + 1
  BY <1>1, LiveIsFinite, FS_AddElement
<1> QED  BY <1>2 DEF LifecycleInv, Connect

\* wg.Done is called once for each of them.
LEMMA DoneCounts ==
    ASSUME LifecycleInv, NEW c \in Clients, Done(c)
    PROVE  wg' = Cardinality(Live')
<1>1. Live' = Live \ {c} /\ c \in Live
  BY DEF LifecycleInv, LifecycleTypeOK, Done, Live
<1>2. Cardinality(Live') = Cardinality(Live) - 1
  BY <1>1, LiveIsFinite, FS_RemoveElement
<1> QED  BY <1>2 DEF LifecycleInv, Done

\* No other step changes the goroutines that are waited for.
LEMMA OthersKeepCount ==
    ASSUME LifecycleInv, [LifecycleNext]_lifecycleVars,
           \A c \in Clients : ~Connect(c) /\ ~Done(c)
    PROVE  wg' = Cardinality(Live')
<1>1. wg' = wg
  BY DEF LifecycleNext, Main, Closer, Watcher, lifecycleVars, clientVars, LoadConfig, Connected,
         Restored, StartFails, StartApi, StartWatcher, GiveUp, WaitOver, Disconnect, Listen,
         Notify, AwaitSignal, ReceiveSignal, Stamp, Cancel, Signal
<1>2. Live' = Live
  <2>1. ASSUME NEW c \in Clients, Disconnect(c) PROVE Live' = Live
    BY <2>1 DEF Disconnect, Live, LifecycleInv, LifecycleTypeOK
  <2>2. ASSUME \A c \in Clients : ~Disconnect(c) PROVE closer' = closer
    BY <2>2 DEF LifecycleNext, Main, Closer, Watcher, lifecycleVars, clientVars, LoadConfig,
           Connected, Restored, StartFails, StartApi, StartWatcher, GiveUp, WaitOver, Listen,
           Notify, AwaitSignal, ReceiveSignal, Stamp, Cancel, Signal
  <2> QED  BY <2>1, <2>2 DEF Live
<1> QED  BY <1>1, <1>2 DEF LifecycleInv

\* When main gets past wg.Wait nothing is connected.
LEMMA WaitOverIsClean ==
    ASSUME LifecycleInv, WaitOver
    PROVE  /\ connected = {}
           /\ main = "wait" => stamped /\ signals > 0
<1>1. Live = {}
  BY LiveIsFinite, FS_EmptySet DEF LifecycleInv, WaitOver
<1>2. connected = {}
  BY <1>1 DEF LifecycleInv, LifecycleTypeOK, Connections, Live
<1>3. ASSUME main = "wait" PROVE cancelled
  BY <1>1, <1>3, ClientsAssumption DEF LifecycleInv, LifecycleTypeOK, Connections, Live
<1> QED  BY <1>2, <1>3 DEF LifecycleInv, Signalled, WaitOver

\* The steps of main.
LEMMA MainKeeps ==
    ASSUME LifecycleInv, Main
    PROVE  (LifecycleTypeOK /\ Connections /\ Signalled /\ Finished)'
<1> USE DEF LifecycleInv, LifecycleTypeOK, Connections, Signalled, Finished, ClosedAtExit,
            StampedBeforeRead, NoEarlyExit, clientVars, signalVars, Running, Ends
<1>1. CASE LoadConfig
  BY <1>1 DEF LoadConfig
<1>2. ASSUME NEW c \in Clients, Connect(c)
      PROVE  (LifecycleTypeOK /\ Connections /\ Signalled /\ Finished)'
  BY <1>2, ClientsAssumption DEF Connect
<1>3. CASE Connected
  BY <1>3, ClientsAssumption, RestoresAssumption DEF Connected
<1>4. CASE Restored
  BY <1>4 DEF Restored
<1>5. CASE StartFails
  BY <1>5 DEF StartFails
<1>6. CASE StartApi
  BY <1>6 DEF StartApi
<1>7. CASE StartWatcher
  BY <1>7 DEF StartWatcher
<1>8. CASE GiveUp
  BY <1>8 DEF GiveUp
<1>9. CASE WaitOver
  BY <1>9, WaitOverIsClean DEF WaitOver
<1> QED  BY <1>1, <1>2, <1>3, <1>4, <1>5, <1>6, <1>7, <1>8, <1>9 DEF Main

\* The steps of the other goroutines, and signals.
LEMMA OthersKeep ==
    ASSUME LifecycleInv, (\E c \in Clients : Closer(c)) \/ Listen \/ Watcher \/ Signal
    PROVE  (LifecycleTypeOK /\ Connections /\ Signalled /\ Finished)'
<1> USE DEF LifecycleInv, LifecycleTypeOK, Connections, Signalled, Finished, ClosedAtExit,
            StampedBeforeRead, NoEarlyExit, clientVars, signalVars, Running, Ends
<1>1. ASSUME NEW c \in Clients, Disconnect(c)
      PROVE  (LifecycleTypeOK /\ Connections /\ Signalled /\ Finished)'
  BY <1>1 DEF Disconnect
<1>2. ASSUME NEW c \in Clients, Done(c)
      PROVE  (LifecycleTypeOK /\ Connections /\ Signalled /\ Finished)'
  BY <1>2 DEF Done
<1>3. CASE Listen
  BY <1>3 DEF Listen
<1>4. CASE Notify \/ AwaitSignal \/ ReceiveSignal
  <2>1. LifecycleTypeOK'
    BY <1>4 DEF Notify, AwaitSignal, ReceiveSignal
  <2>2. Connections'
    BY <1>4 DEF Notify, AwaitSignal, ReceiveSignal
  <2>3. Signalled'
    BY <1>4 DEF Notify, AwaitSignal, ReceiveSignal
  <2>4. Finished'
    BY <1>4 DEF Notify, AwaitSignal, ReceiveSignal
  <2> QED  BY <2>1, <2>2, <2>3, <2>4
<1>5. CASE Stamp \/ Cancel
  <2>1. LifecycleTypeOK'
    BY <1>5 DEF Stamp, Cancel
  <2>2. Connections'
    BY <1>5 DEF Stamp, Cancel
  <2>3. Signalled'
    BY <1>5 DEF Stamp, Cancel
  <2>4. Finished'
    BY <1>5 DEF Stamp, Cancel
  <2> QED  BY <2>1, <2>2, <2>3, <2>4
<1>6. CASE Signal
  <2>1. LifecycleTypeOK'
    <3>1. buffered' \in BOOLEAN
      BY <1>6, Zenon DEF Signal, Deliver
    <3>2. signals' \in Nat /\ main' \in {main, "over"} /\ exit' \in {exit, "killed"}
      BY <1>6 DEF Signal
    <3> QED  BY <1>6, <3>1, <3>2 DEF Signal
  <2>2. Connections'
    BY <1>6 DEF Signal, Deliver
  <2>3. Signalled'
    BY <1>6 DEF Signal, Deliver
  <2>4. Finished'
    BY <1>6 DEF Signal, Deliver
  <2> QED  BY <2>1, <2>2, <2>3, <2>4
<1> QED  BY <1>1, <1>2, <1>3, <1>4, <1>5, <1>6 DEF Closer, Watcher

\* The invariant is inductive.
THEOREM LifecycleInvariant == LifecycleSpec => []LifecycleInv
<1>1. LifecycleInit => LifecycleInv
  <2> SUFFICES ASSUME LifecycleInit PROVE LifecycleInv
    OBVIOUS
  <2>1. Live = {}
    BY DEF LifecycleInit, Live
  <2>2. wg = Cardinality(Live)
    BY <2>1, FS_EmptySet DEF LifecycleInit
  <2>3. LifecycleTypeOK
    <3>1. wg \in Int /\ signals \in Nat
      BY DEF LifecycleInit
    <3>2. cancelled \in BOOLEAN /\ buffered \in BOOLEAN /\ stamped \in BOOLEAN
      BY Zenon DEF LifecycleInit
    <3>3. closer \in [Clients -> {"absent", "waiting", "finishing", "done"}] /\ connected \subseteq Clients
      BY DEF LifecycleInit
    <3> QED  BY <3>1, <3>2, <3>3 DEF LifecycleInit, LifecycleTypeOK
  <2>4. Connections
    BY ClientsAssumption DEF LifecycleInit, Connections
  <2>5. Signalled
    BY DEF LifecycleInit, Signalled
  <2>6. Finished
    BY DEF LifecycleInit, Finished, ClosedAtExit, StampedBeforeRead, NoEarlyExit
  <2> QED  BY <2>2, <2>3, <2>4, <2>5, <2>6 DEF LifecycleInv
<1>2. LifecycleInv /\ [LifecycleNext]_lifecycleVars => LifecycleInv'
  <2> SUFFICES ASSUME LifecycleInv, [LifecycleNext]_lifecycleVars PROVE LifecycleInv'
    OBVIOUS
  <2>1. wg' = Cardinality(Live')
    BY ConnectCounts, DoneCounts, OthersKeepCount
  <2>2. (LifecycleTypeOK /\ Connections /\ Signalled /\ Finished)'
    <3>1. CASE UNCHANGED lifecycleVars
      BY <3>1 DEF lifecycleVars, clientVars, signalVars, LifecycleInv, LifecycleTypeOK,
                  Connections, Signalled, Finished, ClosedAtExit, StampedBeforeRead, NoEarlyExit
    <3> QED  BY <3>1, MainKeeps, OthersKeep DEF LifecycleNext
  <2> QED  BY <2>1, <2>2 DEF LifecycleInv
<1> QED  BY <1>1, <1>2, PTL DEF LifecycleSpec

\* However many clients there are, main returns with all of them closed.
THEOREM ConnectionsAreClosed == LifecycleSpec => []ClosedAtExit
<1>1. LifecycleInv => ClosedAtExit
  BY DEF LifecycleInv, Finished
<1> QED  BY <1>1, LifecycleInvariant, PTL

\* main reads the time of the signal after the other goroutine has taken it.
THEOREM SignalComesFirst == LifecycleSpec => []StampedBeforeRead
<1>1. LifecycleInv => StampedBeforeRead
  BY DEF LifecycleInv, Finished
<1> QED  BY <1>1, LifecycleInvariant, PTL

\* "Shutdown complete" is logged after a signal only.
THEOREM StopsOnSignal == LifecycleSpec => []NoEarlyExit
<1>1. LifecycleInv => NoEarlyExit
  BY DEF LifecycleInv, Finished
<1> QED  BY <1>1, LifecycleInvariant, PTL
=============================================================================
