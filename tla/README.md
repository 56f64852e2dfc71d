# import-deploy: a formal model

import-deploy is the service that runs imports: a user posts an import instance, the
service creates a Kafka topic and a container for it, and stores a document and the
owner's rights. This directory models the service in TLA+, checks the model with TLC and
proves all of its safety properties with TLAPS, for every number of instances, users and
requests and for each of its backends.

All line numbers refer to the files of the repository. `PROJECT.json` maps every
definition to the lines it stands for.

## 1. The system

### Components, their state and their operations

| component | state | operations | module |
|---|---|---|---|
| `lib/controller/instances.go` | none: local variables of a handler | CreateInstance, SetInstance, DeleteInstance | `Controller` |
| ... the values in it | the configurations of a request, a document, a container | fillDefaultValues, validateConfig, getEnv; configToWrite, configToRead | `ConfigValues` |
| ... `EnsureAllInstancesDeployed` | offset and page | recreate missing containers at startup | `Startup` |
| `main.go`, `lib/lib.go`, `api.Start` | goroutines, a WaitGroup, a context, a channel of signals | start, failed start, signals, end | `Lifecycle`, and `Start` and `Crash` in `Startup` |
| `lib/database/mongo` | the collection of documents; permission resources (in permissions-v2) | CreateInstance, SetInstance, RemoveInstance, GetInstance | `InstanceStore` |
| ... its queries | none | ListInstances, CountInstances | `Queries` |
| `lib/database/database.go` | none: what it has read | migrate | `Migration` |
| `lib/kafka-admin` | topics (at the broker) | CreateTopic, DeleteTopic | `KafkaAdmin` |
| `lib/deploy` | containers, autoscalers (at the backend) | Create, Update, Remove, Exists | `Deployment`, `DeploymentClient` |
| ... `dockerClient` | | | `DockerClient` |
| ... `kubernetes-api` | | | `KubernetesApi`, `KubernetesRemoval` |
| ... `rancher-api`, `rancher2-api` | | | `RancherApi`, `Rancher2Api` |
| `lib/api` | none | the handlers' beginning and end; routes | `Controller`, `ClientRoutes` |
| `lib/client` | none | a request per method, and what it makes of the answer | `ClientRoutes` |
| `lib/config`, `lib/util` | - | read a file and the environment | not modelled |

### How they interact

Each HTTP request runs in a goroutine of its own. A handler is a straight line of remote
calls: to the permissions service, the import repository, the backend, Kafka, MongoDB. It
holds no lock and no transaction, and shares nothing with other handlers but what those
services hold. `Mongo.Transaction` exists and is never called. All that the process keeps
in memory is lost when it ends, and the services keep what they have.

### What is hard about it

* Five stores hold parts of one instance (document, rights, container, topic,
  autoscaler), and no operation spans two of them. Every call may fail, may have taken
  effect although it failed, and the process may die between any two.
* Requests about one instance interleave call by call. SetInstance works on a document it
  read many calls earlier, and writes it back with an upsert.
* Rights are looked at in the middle of the handlers: to read at the beginning, to write
  or administrate after the container was changed.
* The backends identify a container differently. Docker and rancher1 issue an id that is
  new each time, and refuse a name that is taken. Kubernetes and rancher2 know it by a
  name that is always the same, with one name space for Deployments and one for Jobs, and
  an autoscaler besides, which may outlive it.
* The API is started only after the restoration went through, which pages through a list
  that each page sorts anew.
* A list for a user takes two calls to two services, and the next page two more, while
  other requests write.
* The values of a configuration are completed from an import type that changes, stored in
  another form, and read back at four places; not all of them come back as they were.
* The goroutines of main share variables that only a context and a WaitGroup order.

The full list, with lines, is in `PROJECT.json` under `hazards`.

### What makes it correct

* Users see a registry: an instance appears complete and to its owner, is edited without
  changing its import type or who may see it, and when it is gone it stays gone
  (`Registry`, `RegistrySpec`, `AnswersHold`, `PermImpliesRecord`).
* The stores agree about an instance that nothing went wrong with (`AllOrNothing`), with
  docker and rancher1 also after requests that overlapped (`OverlapsSerialized`), and a topic
  is there before the container that writes to it and is taken away after it
  (`TopicPresent`, `TopicGoesLast`).
* After the restoration nothing is missing (`StartupRestores`, `MissingIsRestored`), and it
  comes to an end (`EventuallyServing`), with rancher2 whatever was left behind
  (`RestorationNeedsNoRestart`).
* `RemoveContainer` for kubernetes is, for its caller, one step, whatever its goroutines do
  (`KeepsContract`), and does not lose the error stored last (`LastErrorReported`).
* The process ends with its connections closed, on a signal or after a failed start, and
  then always (`ClosedAtExit`, `StampedBeforeRead`, `SignalEnds`, `FailedStartEnds`).
* The migration reconciles rights and documents however often it is interrupted, and takes
  nothing away (`Reconciled`, `OwnersHaveRights`, `NothingTaken`).
* A container is configured completely (`ConfigComplete`), and when it is restored, or the
  instance is read and sent back, again as was asked for, but for objects in lists
  (`RestoredAsAccepted`, `PutBackKeeps`).
* Pages are complete and without repetition as far as that can be said of a list that
  changes (`NothingSkipped`, `NothingTwice`), show nothing a user may not read
  (`ListedReadable`) and agree with the total (`TotalAgrees`).
* What the client library returns without an error is what the service had
  (`NoFalseAnswers`), and requests of it that miss their handler do not look like
  successes (`MissesShow`).

## 2. The modules

```
Instances
  |- KafkaAdmin
  |- InstanceStore
  |    |- Migration
  |         |- MigrationProofs              TLAPS
  |- Deployment
       |- DockerClient, KubernetesApi, RancherApi, Rancher2Api
            |- DeploymentClient
KafkaAdmin, InstanceStore, DeploymentClient
  |- Controller
       |- Startup
            |- ImportDeploy  (INSTANCE Registry AS Shown)
                 |- ImportDeployHistory     history variables, and properties about them
                 |- DocumentedClaims        statements the code does not keep
                 |- ImportDeployInvariant   the inductive invariant
                 |    |- ImportDeployProofs TLAPS
                 |         |- RegistryProofs
                 |         |- TopicProofs    (and ImportDeployHistory)
                 |- HistoryInvariant        (ImportDeployHistory, ImportDeployInvariant)
                      |- RestorationProofs  TLAPS (and ImportDeployProofs)
                           |- StoresProofs
KubernetesRemoval (INSTANCE KubernetesApi AS Api), Lifecycle
  |- GoroutinesProofs                       TLAPS
UserInstances
  |- Queries, ClientRoutes
ConfigValues
Queries, ClientRoutes, ConfigValues
  |- RequestsProofs                         TLAPS

MCImportDeploy, MCHistory, MCProcess, MCRequests
                                            small instances for TLC
```

**Instances** has the data. A record has its import type, its restart flag, its owner, its
service id, and `conf`, which stands for all a container is started with (image, CONFIG
and the other variables of the environment). Names of topics and containers are functions
of the id (`containerNamePrefix + id`, `fillDefaultValues`), so that the id stands for
them. `Outcomes` says what the caller of a remote service sees: `ok`, `refused` (the
state of the service calls for an error), `fault` (an error, and the call may or may not
have taken effect: timeouts, lost answers, connections that break), `masked` (no error,
although the call did not do all it should).

**KafkaAdmin**, **InstanceStore** and the four backends define each call as an operator
`Call(arguments, o)` on the state of the external service. What the service itself does
is modelled from how the code uses it: an engine or API server that refuses a name that
is taken, a broker that refuses topics that exist or do not, a collection with a unique
index. `InstanceStore!DeleteOne` with `fault` is also the expired context of
`DeleteInstance`, which is created at line 183 and used at line 203.

* **DockerClient**: a name is taken until the container is removed; a container that
  could not be started keeps its name, and its id is lost.
* **KubernetesApi**: an update in place when a Deployment stays one, refused when the
  selector would change; a removal that may hide an error.
* **RancherApi** (rancher1): Rancher issues an id for each service and refuses a name that
  is, or for a while was, taken. An update removes the service and creates one with a
  random suffix. A request that gets no answer makes `createContainer` read the status of a
  nil response; the handler, or at startup the process, panics: a `fault`.
* **Rancher2Api**: a removal tries the kinds of workload in turn and counts 404 as
  success, each request judged by its own answer; the conflict with an autoscaler that is
  there already is tolerated.

**DeploymentClient** is the interface with the backend that `deploy_mode` selects: the
variable `deployMode`, which is chosen initially, among `DeployModes`, and which no step
changes.

**Controller** has a program counter and the local variables `instance` and `existing`
for each request. A step is one remote call and the local work up to the next one.

| handler | steps |
|---|---|
| CreateInstance | `Post` (checks, a fresh id), `PostTopic`, `PostCreate`, `PostInsert`, `PostGrant` |
| SetInstance | `Put` (right to read), `PutFind` (document, import type), `PutUpdate` or `PutRemove` and `PutRecreate`, `PutMayWrite`, `PutReplace` |
| DeleteInstance | `Delete` (right to read), `DeleteFind`, `DeleteUndeploy`, `DeleteUntopic`, `DeleteMayDelete`, `DeleteUngrant`, `DeleteDrop` |

`Put` and `Delete` contain the permission check of `GetInstance`, because the request has
done nothing before; `TurnDown` stands for everything that refuses a request on local
grounds or for reasons of the import repository (`fillDefaultValues`, `validateConfig`,
`hasXAccess`, `getEnv`), which change nothing. The owner and the service id of a PUT's
`instance` are empty, as they are when the JSON document is decoded.

**Startup** has the process: `Start`, the restoration (`ListPage`, `Probe`, `Recreate`,
`StoreSid`, `ReadFails`), and `Crash`, which is possible at every moment and also stands
for a signal: main does not wait for the handlers. In the code the page size is 100; it
is a constant here.

**ImportDeploy** composes them with what happens behind the service's back: users give
each other rights at the permissions service, and containers get lost.

**Registry** is the abstract specification: what users see, with one step per operation.
`RegistrySpec` says that `ImportDeploy` implements it. The refinement mapping hides an
instance that nobody has rights on: an id is *unborn* before and while its POST runs,
*listed* from the grant of the owner's rights to their withdrawal, then *gone*.

**ImportDeployHistory** adds history variables: `overlapped` (ids that two requests were
about at the same time), `spoiled` (ids whose request was cut short after it had changed
something, or that a fault concerned), `untopiced` (a DELETE reached Kafka), `lost` (a
container got lost since the restoration began). They are updated along with every step
and read by no action. `AllOrNothing` asks the five stores to agree about every id that
is neither overlapped nor spoiled. `OverlapsSerialized` asks the same of overlapped ids,
with docker and rancher1: there every PUT and DELETE begins its changes by removing the
container its document names, only one of them can, and the others fail before they have
changed anything. So the error of `RemoveContainer` does what a lock would. The other two
backends count what is not there as removed and have no such order, and document and
container may be of different requests.

**KubernetesRemoval** is `RemoveContainer` of the kubernetes backend in detail. A goroutine per
kind of object (Deployment, Job, Service, autoscaler, its checkpoint, pods) deletes it,
stores the result in the variable `err` that all of them share, and looks at `err` again:
a data race. What a goroutine finds there is its own result or the one stored last
(`Loads`), depending on what the compiler makes of it. So an error can be lost (`masked`
in `KubernetesRemove`), or come up although nothing failed: with `err` nil when
`IsNotFound` is asked, which is not what is tested for before. `KeepsContract` says that
the one-step contract `KubernetesApi!KubernetesRemove`, which all other modules use, has
every outcome there is.

**Lifecycle** is the process with its goroutines: main, which connects, restores, starts
the API and waits for a WaitGroup; a goroutine per client that closes it when the context
is cancelled; the one with `ListenAndServe`; and the one that waits for signals, takes the
time and cancels. A signal before `signal.Notify` kills the process at once; later it is
buffered. The variable `shutdownTime` is written by one goroutine and read by main.

**Migration** is `migrate`, for `MigrationUpdateAllInstancePermissions`. It reads documents and
permission resources once, then writes resource by resource. Users change rights at the
permissions service at the same time (`touched` remembers whose), an error or the end of
the process makes it begin anew.

**ConfigValues** follows the configurations of one instance: a request is completed by
`FillDefaultValues` and checked by `ValidateConfig`, `Config` makes the container's CONFIG
of it (a later configuration of a name overwrites an earlier one), `ConfigToWrite` and
`ConfigToRead` are the two directions of the database, where a structure becomes a string.
The code converts an object only where it is the whole value. An object in a list is
encoded as a document by the driver, which decodes it as a `primitive.D`; encoded again it
is the same document, but JSON makes a list of it, `[{"Key": .., "Value": ..}, ..]`. So
`Marshalled` is what `getEnv` and the API make of configurations that come from the
database, and `AsPairs` says of each value what becomes of it: `Read` names a value by
what it was encoded from. What a user reads has such lists, and reading it and sending it
back makes lists of lists of them, each time. `accepted` remembers the CONFIG that the
last accepted request asked for.
`EditType` changes the import type in the import repository at any time. `PostConfigs`
has the aliasing of `Mongo.CreateInstance`, which replaces the structures in the slice
that its caller answers with.

**Queries** is a user who pages through a list, and counts, while others insert, grant,
withdraw, delete and rename. Each page is two steps: the readable ids, then the
documents, sorted anew in an order that leaves ties open, and cut by offset and limit.

**ClientRoutes** has the client library on one side and the router on the other: what each
method sends (`RequestOf`), which handler gets it, what that answers, and what the method
makes of it (`ResultOf`). Other programs use the service meanwhile. **UserInstances** has
the ids and names these two speak of.

## 3. What is checked

| run | states | what it asks |
|---|---|---|
| `backends` | 1 404 332 | the service with history variables, and each of the four backends: `TypeOK`, `TopicPresent`, `TopicGoesLast`, `AllOrNothing`, `OverlapsSerialized`, `StartupRestores`, `RestorationNeedsNoRestart`, and `HistoryInv`, the inductive invariant of the proofs |
| `registry` | 446 602 | `RegistrySpec`, `PermImpliesRecord`, `AnswersHold`, and `Inv`, the inductive invariant of the proofs |
| `liveness` | 14 068 | `EventuallyServing`, `MissingIsRestored` (kubernetes) |
| `process` | 235 911 | `RemoveContainer`: `LastErrorReported`, `ErrorNeedsCause`, `KeepsContract`, `RemovalReturns`; main: `ClosedAtExit`, `StampedBeforeRead`, `NoEarlyExit`, `SignalEnds`, `FailedStartEnds`; the migration: `Reconciled`, `OwnersHaveRights`, `NothingTaken`, `MigrationEnds` |
| `requests` | 1 867 842 | values: `ConfigComplete`, `RestoredAsAccepted`, `PutBackKeeps`; lists: `NothingSkipped`, `NothingTwice`, `ListedReadable`, `TotalAgrees`; the client: `NoFalseAnswers`, `MissesShow` |

The last two runs join specifications that share nothing, so that one run answers for
each of them: a variable (`about`) says in the initial state which of them a behaviour is
of, and the variables of the others keep one initial value. In `backends` the initial
state chooses the backend.

Seven more runs refute a statement of the documentation or the code, and PROJECT.json says
where the statement is made (`findings`):

| run | statement | what happens instead |
|---|---|---|
| `owner` | README: changing the owner is not allowed | a PUT empties the owner of the document |
| `upsert` | an update of a nonexistent instance is turned down | a PUT overtaken by a DELETE inserts the document again, and nobody has rights on it |
| `refusal` | who may not write or administrate is turned down | after the container was replaced, or container and topic were removed |
| `tied_names` | the startup recreates any missing instance | with equal names the pages may overlap, and an instance is on none |
| `stale_sid` | the same | docker: after a PUT that was cut short the restoration fails for ever, and the service with it |
| `restored_lists` | the same | a container configured with a list of objects is recreated with lists of keys and values in their place |
| `update_in_place` | the update of a deployment | kubernetes: it changes the selector, because the owner is empty, and is refused |

What else does not hold, though no document says that it should, and is in the models as
the code has it:

* kubernetes: an autoscaler that a lost or half removed workload has left makes a
  restoration fail (`kubernetes-api/api.go:99`); hence
  `RestorationNeedsNoRestart` speaks of rancher2 only.
* rancher1: `UpdateContainer` is to try other names when one is taken, but `createContainer`
  returns an error with every status but 201, so that the loop ends at the first
  (`rancher-api/api.go:118`).
* An error of `ListenAndServe` is only logged, and the process goes on without serving
  until a signal (`api/api.go:50`).
* Of a configuration named twice the first is validated and the last is used
  (`controller/instances.go:307`); `ConfigComplete` leaves such requests out.
* A DELETE that failed half way and is repeated may meet a container or a topic that is
  gone, which docker and Kafka refuse to remove, so that it cannot finish
  (`controller/instances.go:191`).
* The migration overwrites what users change between its reading of the rights and its
  writing of a resource (`database.go:107`).
* The answer to a POST shows null for structures (`mongo/instances.go:214`). The answer to a
  GET shows lists of keys and values for the objects in lists (`mongo/instances.go:312`).
* The client sends a POST where it is to update, and puts `&for_user=` into the path
  where it reads or deletes (`client/instances.go:51,77,90`): the service refuses, and
  only the status tells the caller of SetInstance and DeleteInstance. CountInstances asks
  for the list instead of the number.

### Bounds, and why they are enough

* `backends` and `liveness` have two instances, which pages need: with `BatchSize = 1` the
  restoration has three pages, the last one empty. All other state is per instance, so
  that `registry` has one instance and instead two users and two import types. `backends`
  and `registry` have three requests, the most that meet in an interesting way: one that
  creates the instance, and two that overlap; `liveness` has two, for any of them may be
  what the restoration finds half done. The backend of `registry` is kubernetes, where a
  PUT and a DELETE of one instance can both go through. In `backends` the names of the two
  instances differ; `tied_names` shows what happens otherwise.
* `MaxFaults = 1` and `MaxCrashes = 1`: at most one faulty call or lost container, and
  at most one crash. Refusals are not counted: they are what the services' states call
  for. One fault and one crash together already reach every partial state a handler can
  leave, and a second request that meets it.
* Requests are one-shot: `Reqs` has three, each of any method, target and user. The
  system stops when all are used up and nothing is left to lose, hence
  `CHECK_DEADLOCK FALSE`. The other specifications stop where `RemoveContainer` has
  returned, the process has ended, the migration is done or a bound is reached.
* `process` has three goroutines for `RemoveContainer`, for the three kinds of objects
  that the contract tells apart (an error is lost or made up with two already), and for
  main two clients and two signals: one to be received, one that meets a full buffer or
  comes while the first is handled. For the migration it has two instances and two users, every combination of documents, owners and
  rights (all, or to read), and one interruption; a second one finds nothing that the
  first does not.
* `requests`, values: two names, values of four kinds (null, whole number, structure, list),
  each of which some type takes and another refuses, the lists being one of objects, what
  becomes of it when it is read, and what becomes of that, which stands for all further
  ways; import types with one or two configurations, whose defaults fit or do not;
  requests that name
  something twice (`MaxConfigs = 2`), and two writes, the second of which meets what the
  first has stored. Lists: three ids, of which one is generated, two names, so that two of
  them tie, pages of one or all, and two changes by others, between any two calls. Client:
  the same ids and names.
* `ReqSymmetry` permutes the requests, which no property names. The runs of liveness
  properties have no symmetry.

### Fairness

`LiveSpec` assumes weak fairness of `Start` and of `Restore` and nothing else. A
supervisor restarts the process (the README describes a container image), and during the
restoration a single goroutine goes from call to call. That each call returns is an
assumption about the services called and not a fact of the code: most calls have a context
of ten seconds (`util.GetTimeoutContext`), but those of the permissions client
(`mongo/instances.go:225,240`), `cursor.Next(context.Background())` (189) and the requests
to rancher have none. A service that
accepts a connection and never answers would hold the restoration, and with it the
service, for ever; the liveness properties say nothing of that. Handlers are not assumed
to go on at all.

`ProcessSpec` has the fairness of `RemovalLiveSpec`, `LifecycleLiveSpec` and
`MigrationLiveSpec`. The first assumes that goroutines are scheduled and requests return,
which the context of `RemoveContainer` sees to. The second assumes that main and each of
the other goroutines of the process go on, and with main the restoration, under the
assumption above; it assumes nothing of signals: a process that gets none runs for ever.
The third assumes that the calls of `migrate` return: those of the permissions client have
no timeout there either.

`MissingIsRestored` is checked under this fairness for kubernetes, and refuted for docker
(`stale_sid`). It lets a failed attempt be made good by a later one, and does not ask for
anything when nobody may see the instance any more.

### Seeded bugs

Operators whose comment begins "A bug:" are mutated forms of the definition that follows
them. No specification uses them. Replacing the definition by its mutated form makes the
property that PROJECT.json names fail, which shows that the property depends on the code
as it is.

## 4. What is proved

| module | theorem | statement |
|---|---|---|
| `ImportDeployProofs` | `TypeCorrect` | `Spec => []TypeOK` |
| | `Invariant` | `Spec => []Inv` |
| | `DocumentBehindRights` | `Spec => []PermImpliesRecord` |
| | `AnswersStayTrue` | `Spec => []AnswersHold` |
| `RegistryProofs` | `ServiceIsRegistry` | `Spec => RegistrySpec` |
| `TopicProofs` | `TopicIsPresent` | `HistorySpec => []TopicPresent` |
| `RestorationProofs` | `Rancher2NeedsNoRestart` | `Spec => RestorationNeedsNoRestart` |
| | `StartupRestoresMissing` | `HistorySpec => StartupRestores`, if `NamesDiffer` |
| `StoresProofs` | `HistoryInvHolds` | `HistorySpec => []HistoryInv` |
| | `StoresAgreeAtRest` | `HistorySpec => []AllOrNothing` |
| | `RemovalSerializes` | `HistorySpec => []OverlapsSerialized` |
| | `TopicsGoLast` | `HistorySpec => TopicGoesLast` |
| `GoroutinesProofs` | `LastErrorIsReported` | `RemovalSpec => []LastErrorReported` |
| | `ErrorsHaveCauses` | `RemovalSpec => []ErrorNeedsCause` |
| | `ContractIsKept` | `RemovalSpec => KeepsContract` |
| | `ConnectionsAreClosed` | `LifecycleSpec => []ClosedAtExit` |
| | `SignalComesFirst` | `LifecycleSpec => []StampedBeforeRead` |
| | `StopsOnSignal` | `LifecycleSpec => []NoEarlyExit` |
| `MigrationProofs` | `MigrationReconciles` | `MigrationSpec => []Reconciled` |
| | `MigrationServesOwners` | `MigrationSpec => []OwnersHaveRights` |
| | `MigrationTakesNothing` | `MigrationSpec => NothingTaken` |
| `RequestsProofs` | `ClientTellsTheTruth` | `RoutesSpec => []NoFalseAnswers` |
| | `MissesAreTold` | `RoutesSpec => []MissesShow` |
| | `OnlyReadableListed` | `QueriesSpec => []ListedReadable` |
| | `NothingIsSkipped` | `QueriesSpec => []NothingSkipped` |
| | `NothingComesTwice` | `QueriesSpec => []NothingTwice` |
| | `CountAgreesWithPages` | `QueriesSpec => []TotalAgrees` |
| | `ConfigIsComplete` | `ValuesSpec => []ConfigComplete` |
| | `RestorationKeepsValues` | `ValuesSpec => RestoredAsAccepted` |
| | `PutBackKeepsValues` | `ValuesSpec => PutBackKeeps` |

They hold for each of the four backends, any bounds, any size of the restoration's pages,
any non-empty finite set of ids and any sets of users and requests; for any number of
goroutines, clients and signals; for any documents, rights and interruptions; for any
changes, orders and page sizes of a list; and for any import types and values, of which
those that are lists may become any other list when they are read (`AsPairs`).

Assumed are only the named assumptions of the modules, which TLC evaluates in every run
of a module that extends them: `Ids` is finite and not empty, there is a user, the values
for "nothing" differ from records, permissions and documents, the configuration flags are
Booleans, the bounds are naturals, ids and names have an order, null is the one value of
its kind, and so on. `LimitsAssumption` says that a user who asks for pages asks for at
least one document or, with -1, for all. One theorem has a hypothesis of its own:
`StartupRestoresMissing` is about instances whose names differ (`NamesDiffer`), since
otherwise it is false, which `tied_names` shows.

**Types and rights.** The argument about `ImportDeploy` has two layers. *TypeInv* adds to
`TypeOK` what a handler knows at each of its steps (`Local`: in `PutRemove` the document
it read is a record, and so on) and what the restoration knows (`BootKnows`: the documents
of the page exist), without which not even the types are preserved. *SafeInv* adds why
the two properties hold:

* `PermImpliesRecord` could be broken by `PostGrant` and `DeleteDrop`. At `grant` the
  document was inserted, and nobody can have removed it, since no DELETE gets past its
  first check before somebody has rights (`CreatingIsHidden`, `LateComers`); two POSTs
  never have the same id (`IdsAreIssued`). At `drop` the rights are withdrawn
  (`DropIsHidden`), and no other POST is left to grant them again.
* `AnswersHold` is inductive with these: rights are granted by `PostGrant` and withdrawn by
  `DeleteUngrant` only, and a PUT or the restoration, which may bring back the document,
  touches no rights.

**The refinement.** `ServiceIsRegistry` maps each step to an operation of the registry or
to a stutter: `PostGrant` publishes, `PutReplace` edits, `DeleteUngrant` retires, a POST
that fails or is killed abandons its id (a crash several at once), users share, and all
else changes nothing that shows (`OthersSame`). It needs two facts besides `Inv`: what is
being created has an owner among the users (`Owned`), and the import type that SetInstance
compared many steps before it writes is still that of the document, while anybody sees
it (`SameType`): no operation changes it, and an id is not created twice.

**Topics.** `TopicPresent` is not inductive: a handler starts a container because of a
topic it created, or a document it read, steps ago. `Topics` says so for every step that
relies on it: the instance has its topic, or a DELETE has reached Kafka.

**The restoration with rancher2.** It creates a workload only where `ContainerExists`
found none. That is still so when it creates (`BootFree`), because nothing else creates
before the API is started; and what it asked for is the instance's own, because the
service id of a document is always one of its own instance (`SidsFit`).

**The restoration with any backend.** The pages continue one another: at each moment the
pages so far had some set D of the listed documents, as many as the offset says, and the
first of all by name (`DoneWith`). While the API is down no document appears or vanishes
and none is renamed, so that the next page has exactly those that come next, for which
names have to differ; at the end D is everything. Each of them has its container, is
still on the page, or has lost it again: `Create` and the write of the service id leave
the others alone (`Restoring`).

**The stores.** `AllOrNothing` and `OverlapsSerialized` speak of an instance at rest,
and nothing about rest is inductive. `Sound` says what holds between any two calls, of
an instance that is neither spoiled nor, where ids are names, overlapped: either no
handler has begun to change anything, and the stores agree; or exactly one has
(`Holders`), and they hold what belongs between its calls (`Amid`). That there is never
a second one is the point:

* A POST has an id that nobody else knows before the rights are granted.
* Where ids are names, two handlers about one instance overlap, so that the instance is
  left out. What remains to be shown is that a handler which has passed its first check
  still finds the rights there.
* Where the engine issues the ids, a PUT or a DELETE becomes a holder by removing the
  container whose id it has read. For a second one to do so its id would have to be that
  of a container which is there; but the old one is gone, and the new one, created by
  the first, has an id that neither a document nor another handler has seen (`Unknown`).
  When the first has written it, it holds nothing any more. So `RemoveContainer`
  serializes the handlers, for any number of requests.

A fault, a crash or a lost container marks the instance as spoiled in the same step, and
the restoration recreates only containers of instances that are spoiled
(`RestoresSpoiled`).

`TopicGoesLast` follows from the same invariant: the handler that deletes the topic is the
one holder of the instance, and between its calls the container is not there (`Amid`).

**RemoveContainer.** While `err` holds a failure, the goroutine that stored it last has
still to report it, or has done so (`LastInv`); what a goroutine loads, some call has
returned (`CauseInv`); what was deleted or not found is gone (`GoneInv`), so that nil
without a failed request means that everything is.

**The migration.** The documents read are those there are, the resources that the first
loop has not passed are as they were read but for what users changed (`GrantInv`), and
what has rights without a document is still to be passed by the second (`RemoveInv`).

**The process.** The counter of the WaitGroup is the number of goroutines that have yet
to close a client (`LifecycleInv`), everything connected has such a goroutine
(`Connections`), and the context is cancelled by the watcher after it has taken the
time, or after the start failed (`Signalled`).

**The client.** An answer below 300 that is decoded is the one that was asked for
(`Sound`), by cases over the methods and the routes that get their requests; to those of
ReadInstance, SetInstance and DeleteInstance no route answers below 300, because of the
parameter in their path or the id in their body.

**Lists.** The order of the documents is made anew for every page, so that nothing can
be said of a position; but with different keys, the number of documents before one in
any order is the number of those that precede it (`Places`). While nothing has vanished
that number only grows: an instance that was there all along and was on no page yet has
at least `offset` others ahead of it, and is not passed by. While nothing has appeared
it only shrinks: what was on a page has fewer than `offset` ahead of it, and does not
come again. With neither the pages enumerate what the filter lets pass, once each, and
the count, whose filter is the same set, agrees. `ListsInv` has these three, for what
the two calls of a page have seen.

**Values.** `FillDefaultValues` is a recursive function over the turns of the loop. What
each turn keeps is shown for all of them by the least turn that does not
(`LeastNumber`): that values stay values, that a name that is there stays, with its
value, and that a name which was missing has its default (`Filled`). A document that is
read is what was written (`RoundTrip`), because the string of a structure is not null,
so that `ValuesInv` can speak of the values in the document as they would be read
(`Now`): they are those of the last accepted request, whatever has been written, read or
restored since. The CONFIG of the container is theirs, or what JSON makes of them after a
way through the database, which changes values and neither names nor their order
(`Pairs`), and no kind of value, so that what was validated still is of its type.

Each lemma is about one operator or one kind of step: `...Type` for the calls,
`...Moves` for the flow of control, `QuietSafe` for the steps that touch neither rights
nor documents, `HandleTypes`, `HandleSafe`, `RequestTypes`, `RequestSafe`, and so on for
the restoration, crash and environment. `Shows...` are about the operations of the
registry, `...Refines` about the steps that implement them.

Only model-checked are the liveness properties: `EventuallyServing`,
`MissingIsRestored`, `RemovalReturns`, `SignalEnds`, `FailedStartEnds` and `MigrationEnds`.
They rest on fairness, and the prover does not reason about when a step is possible
(ENABLED). The seven statements that the code does not keep are refuted by TLC;
of them only `StartupRestores` is proved, for distinct names. `TypeOK` and `Inv` are
proved under the specification without history, which `HistorySpec` implies.

## 5. Assumptions and omissions

* One replica of the service runs.
* Users have rights by name. Roles and groups are left out; the internal admin token sees
  every resource there is (`AdminVisible`) and may write it.
* A container is there or not: a stopped container counts as there, as it does for
  `ContainerExists`.
* `UpdatedAt` and `CreatedAt` of a document are left out everywhere; `Name` and `Generated`
  are in `Queries` and `ClientRoutes` only, except that `NameOf` orders the pages of the
  restoration; a PUT does not change it there.
* In kubernetes a call of the interface is one step with partial outcomes; for
  `RemoveContainer` that is shown to be enough (`KeepsContract`).
* `ImportDeploy` has the default configuration, in which the migration of rights does not run
  (`config.json`). A restart with it would give rights again on documents that a DELETE
  left behind.
* Between the end of the connections and the end of the process handlers fail at the
  database: in `ImportDeploy` a fault and then `Crash`. A panic in a handler is a fault too.
* In `ConfigValues` requests about the instance follow one another: what comes between their
  calls is the matter of `ImportDeploy`. What the driver's decoder does to values is
  modelled for objects in lists; numbers, texts and Booleans come back as they were.
* In `Queries` the limits are -1 and whole numbers from one on. The database takes 0 for no
  limit, like -1, and what is below -1 for the size of a single batch.
* In `Queries` the query for a page is one step; the cursor of the driver is not looked
  into. A search is the set of the names that match. `ClientRoutes` leaves search, limit,
  offset and sort of the client out, and a handler is one step there.
* In `Lifecycle` reading the configuration, the migration and the restoration succeed or fail.

Not modelled:

* `lib/config`, `lib/util`: they read a file and the environment once, before anything else
  runs. What matters of it are constants of the models and the failure of `LoadConfig`.
* The part of `lib/database/mongo/mongo.go` that builds indexes and runs transactions:
  indexes are the driver's and the server's, and `Transaction` is never called.
* `removeAllContainers` in `dockerClient/util.go` and `exists` in `rancher-api/api.go`, which
  nothing calls; tokens, CORS and logging in `lib/api`, which change no state.

## 6. Plan

Every safety property that a run checks is proved. What remains:

1. What holds of tied names: that the restoration, when it ends, has passed over as many
   instances as there are, and with one page (`BatchSize` at least the number of
   instances) over all of them.
2. The other direction of the findings: under which circumstances the statements that the
   code does not keep do hold (`UpdateNeedsDocument` without overlapping requests,
   `RefusalChangesNothing` for users with all rights), as theorems of the same
   specification.
3. The safety part of the liveness properties: that each run of the restoration, of
   `RemoveContainer` and of `migrate` has a measure that every step lowers.
