# Verification of the energy-aware scheduler

TLA+ models, TLC runs and TLAPS proofs for `kubernetes-client`, a scheduler that
runs next to a Kubernetes cluster. Once a minute it reads which pods exchange how
many bytes, clusters them by that traffic, and binds whole clusters of pods to
single nodes, near each other in the hierarchy of racks, physical machines (PM)
and virtual machines (VM, the Kubernetes nodes). Paths are relative to the
repository; `scheduler.go`, `utils.go`, `mock.go` and `high.py` are those of
`kubernetes-client/`.

## 1. The system

| component | state it keeps | operations | module |
|---|---|---|---|
| scheduling loop (`scheduler.go` `Schedule`, `Update_clusters`, `main`) | the globals `curServices`, `curNodes`, `rackMap`, `curClusters`, `curRack`/`curPM`/`curVM` | list, cluster, deploy, sleep; start | `Scheduler` |
| reading pods and nodes (`ListPod`, `ListNode`, `getPodCPUMemLim`, `getNodeCPUMem`, `ListService`) | none | queries of Kubernetes and Prometheus, label by label | `Machines`, used by `Scheduler` |
| service map (`servicemap_generator`) | two matrices while it runs | reads samples, adds, makes symmetric | `ServiceMap` |
| clustering script (`high.py`) | files `services_bw.json`, `service_clusters.json` | single linkage, `extract_levels`, write | `Linkage` |
| loading of the clusters (`scheduler.go` 274-315) | `curClusters` | adds up profiles | `Clusters` |
| deployment (`Deploy_clusters`, `testBind`, `BindPodToNode`) | `curClusters[..].deployed`, `curNodes`, cursor | place, mark, bind, charge | `Deploy` |
| node search (`generateRackMap`, `getNextAvailableNode`, `subset`) | none | map, four passes | `RackSearch` |
| Kubernetes | which pod runs where | create, delete, bind | external, in `Deploy`, `Scheduler` |
| first prototype (`test/main.go`, `test/high.py`) | the clusters, and nodes and services of `generateMockData` | one round, in the order of a map | `Prototype` |
| benchmark (`kubernetes-client/test/endtoendtest/python/app1` to `app5`) | one thread per request | blocking calls from server to server, answers | `Benchmark` |
| CPU load generator (`app1/CPULoadGenerator.py`, `utils/`) | attributes that three threads share | measure, regulate, burn and sleep, stop | `LoadGenerator`, composed with `Benchmark` in `BenchmarkLoad` |
| query results (`prometheus_json_parser/value.go`, `model/value.go`) | the result, and the copy that printing a matrix sorts | decode, print, sort (a vector, by its caller), write as JSON | `QueryResult`, over `Labels` and `PromTime` |
| label sets and signatures (`model/labelset.go`, `metric.go`, `signature.go`, `fnv.go`) | none | order, equality, hashes | `Labels`, `Signature` |
| times and durations (`model/time.go`) | none | parse, format | `PromTime`, `Durations` |
| alerts (`model/alert.go`) | lists | status, sort | `Alerts` |

**How they interact.** One goroutine does everything: `Schedule` calls
`Update_clusters` (lists pods, then nodes, builds the rack map and the service
map, runs `high.py` as a process and reads its file) and `Deploy_clusters`, then
sleeps. The two share global variables only. The benchmark is what is scheduled: its
pods' traffic is what Istio counts and the service map holds; each of its handlers
runs the CPU load generator as a process and waits for it before it calls on. What
is concurrent in the scheduler's world is Kubernetes:
pods are created, deleted and created again between any two of the calls, each
call may fail, and a pod bound in one round is still there in the next. The
cursor is the only value a round takes over on purpose. The Prometheus types are values
passed by calls; their one shared thing is the clock, which runs on while a list
of alerts is asked for its status.

**What is hard here.** A service is in many nested clusters, and only the marking
of sub-clusters keeps its pod from being bound twice. Capacities live twice, in
the rack map's copies and in `curNodes`. The search depends on a cursor and a
rack map that are made independently. Ids index three different things (all
pods, athena pods, matrix rows). A round plans with empty machines while earlier
rounds' pods run. Requests of the benchmark block each other in chains without a
timeout, and the load generator's threads share attributes without a lock. Bind errors
are printed only. The samples of a query may lack labels or nodes. The order of label
sets, the four copies of the hashing loop and the conversions of times each have to be
right for values nobody wrote a test for. `PROJECT.json` lists each of these
under `hazards`, at its line, with the properties that watch it.

**What makes each part correct.** Search: only nodes that fit, one whenever there
is one, and a nearest one. Round: no pod bound twice, deployed clusters whole,
within capacity, no cluster broken up that would fit, and it ends. Script: a nested
and complete hierarchy in the order the round assumes, that follows the traffic.
Service map: no traffic lost, no zero, no index out of range. Loop: every round
starts clean, touches only athena pods, and reaches every pod in the end.
Prototype: within the machines, and a refusal means there was no room. Benchmark:
no circle of waiting handlers, each request ends, an answer stands for the whole
route. Load generator: a sleep time in range at every moment, no wind-up, the
process ends. Machines: no PM in two racks, whatever is missing. Query results: a
matrix is printed as it was decoded but in a total order, a vector that is sorted is in that
order too, and JSON brings both back. Signatures:
equal only for what is equal, and the same whichever loop computes them. Alerts: a
status that held at some moment of the call. Durations: written and read again, they
stay.

## 2. Modules

| module | what it is |
|---|---|
| `Lowest` | the first of a set of positions |
| `RackSearch` | rack map and search as operators; a search gives the *set* of nodes it may return, because Go's order of map keys is open |
| `Placement` | abstract specification of a round: sets of services not placed yet go to an open node with room for them |
| `Rounds` | abstract specification of the loop: one placement after the other, cut off at any time, and only pods that wait are bound, to the node of their round |
| `Deploy` | one round, one action per branch of the loop and per Binding call, with pods deleted in between; `INSTANCE Placement` with the refinement mapping |
| `Clusters` | what the file may hold (`Files`), profiles, loading |
| `Linkage` | the script: one action per row, then the file |
| `ServiceMap` | the service map, one action per sample, and the panic |
| `Scheduler` | the loop over rounds; EXTENDS `Deploy` and uses its actions for the round, `Clusters` for what the script leaves; `INSTANCE Rounds` with the refinement mapping |
| `Prototype` | the prototype's round, one action per cluster visited |
| `Machines` | what a round reads of pods, services, nodes and samples, as operators |
| `Benchmark` | the five servers: the handlers at work for a client are a stack, one action per call, refusal, answer and end |
| `LoadGenerator` | the three threads; the controller's loop in two steps, before and after its clamps |
| `BenchmarkLoad` | both composed: every handler first waits for a process of its own (`os.system`) |
| `Labels`, `PromTime`, `Signature` | label sets, times and hashes, as operators |
| `QueryResult` | a result: decoded, then printed: a matrix sorted step by step before, a vector as it is or as a caller has sorted it |
| `Alerts` | a list of alerts under a running clock: one action per alert looked at, per step of the sort, per tick |
| `Durations` | a configuration read and written again and again |
| `Prometheus` | the three state machines of the Prometheus types side by side, and what is said of the signatures of a result |
| `MCDeploy`, `MCLinkage`, `MCServiceMap`, `MCScheduler`, `MCPrototype`, `MCBenchmark`, `MCPrometheus` | instances for TLC |
| `FiniteFacts` | lemmas about finite sets: least elements, sums of a function over a set |
| `DeployProofs`, `SchedulerProofs`, `LinkageProofs`, `ServiceMapProofs`, `PrototypeProofs`, `BenchmarkProofs`, `PrometheusProofs` | theorems; those of the search are in `DeployProofs`, those of `Labels`, `Signature`, `QueryResult`, `Alerts`, `Durations` and `PromTime` in `PrometheusProofs` |

**Correspondence.** Variables and operators carry the names of the code; `map` in
`PROJECT.json` names the lines of each definition. `Deploy` splits an iteration of
the loop (330-380) into `SkipCluster`, `RefuseCluster` or `ChooseNode`; `ChooseNode`
includes the marking loop (343-349), `BindPod` is one call of `testBind`, and
`ChargeNode` the subtraction and the move of the cursor (358-369). The order of
`cluster.services` is left open, so binds come in any order. `left` counts the
clusters still to come, so the current one is `curClusters[left - 1]`, as
`len(curClusters)-1-index_c` says. `target` is `index_n`; `sent` is a history of the
requests of the round. In `Scheduler`, `pc` is the place in the loop, `ListPod`,
`ListNode` and `UpdateClusters` are the three blocking parts of `Update_clusters`.
`ListPod` gives the pods that exist their Ids, which count on in the order of the
listing (`Id`).
`rackMap` is the node list `generateRackMap` copied: how it groups its nodes is
computed from it (`ListedRack`, `Precedes`).

Port lists are bags (the code's `subset` counts), with the `-1` each profile
starts with. Capacities are natural numbers per resource. Names are values of a
set. In `Linkage` the weight of a link takes the place of `1 / weight`, which
reverses the order: the closest pair is the one with the heaviest link; the
tie-break of scipy is left open. The services of the file are sets of positions.
In `LoadGenerator` a full load is `Full` units, which makes all the regulator's
constants whole; the filter of `setCpu` may give any value between the old one and
the sample. In `Benchmark` a path is the letter of the caller it names.

In the Prometheus modules a string is its rank in Go's order of strings, and a label set
a function from ranks to ranks; `Signature` knows the bytes of each (`Text`) and computes
the low eight bits of the 64-bit hashes, which depend on no higher bits; exclusive-or is
a recursive function on bytes. The sorts of label names there are modelled by the place each name
gets. `QueryResult`
models `sort.Sort` by the insertion sort it is for up to six elements (twelve since Go
1.19), one comparison per step, and a stream of a matrix with one pair. `MatrixString`, the
sort and `PrintMatrix` are the `String` of a matrix. That of a vector (`VectorString`) sorts
nothing; `SortVector` to `VectorSorted` is `sort.Sort` called on it, for which `Vector` has
`Less` and which in the repository only `model/value_test.go` does. `servicemap_generator`
prints vectors and does not depend on their order (`TrafficCounted`). A time's text is its sign,
the digits before the dot, and those after it with their count. `Durations` has a
parameter for the largest integer, so that a small one overflows where `int64` does. Where
a text has `10^n`, the model has the recursive function `Ten`. In the prototype a quantity
is a function of the resource; what it reads of its mock data and of the file is stated by
`PrototypeAssumption`.

**How the modules fit.** `ServiceMap!Divisible` is what `Linkage!Init` assumes of
the matrix; `Linkage!FileIsLoadable` says each file of `Linkage` is in
`Clusters!Files`, which `Scheduler` and `MCDeploy` draw from; `FileNested` and
`FileComplete` are what `Deploy!Init` assumes (`Hierarchy`); `RoundsStartFresh` (proved, see
`FreshRounds`) says each round in `Scheduler` starts in a state of `Deploy!Init`, and `RacksStayRegular`
that `Machines` gives it rack maps the search is complete on; `ServiceMap!NoPanic`
bounds the panic that `Scheduler!Fail` includes. That action, with its `log.Fatal`, and `Crash`,
with the panic of a failed query (`scheduler.go` 448), are what the loop has to live with: no
property says that the process goes on.

## 3. Properties

`Deploy`: `TypeOK` (with no capacity below zero); `OneRequestPerPod`;
`DeployedTogether`; `PlanFits` (the limits of what was sent to a node never exceed
what it had, the master gets nothing); `ExhaustiveSearch` and `NoVainSplit`
(as long as cursor and racks agree, refusals are justified, then and later in the
round); `ClosestFirst` (action property); `RoundEnds`; `PlacesWithinCapacity` (refinement
of `Placement`). Without the condition on cursor and racks the first is
`NothingLeftFits`, which a run refutes.
`Linkage`: `FileNested`, `FileComplete`, `FileIsLoadable`, `FollowsTraffic` (each cluster
is held together by links at least as heavy as the one it was made with, and what is
still apart exchanges no more), `Returns`. `ServiceMap`: `Divisible`,
`TrafficCounted` (against a sum over all samples), `NoPanic` (the indices of the matrix; the
positions of labels in the text of a sample, `s2[7]` and `s2[15]` in `scheduler.go` 481-497, are
not modelled).
`Scheduler`: `SchedTypeOK`, `RacksStayRegular`, `OnlyAthena`, `ImplementsRounds` (refinement of
`Rounds`: what is seen of `demand`, `room`, `open`, `host`, `pod` and `name` is that of the round
that goes on, and nothing outside of one), `PendingBound`.
`Prototype`: `WithinMachine`, `NothingLeftFits`, `SortedDeploysOnce`.
`BenchmarkLoad`: `BenchmarkTypeOK`; of `Benchmark`, `NoCycle`, `AnsweredWhole`,
`NotTurnedAway`, `RequestsEnd`; of `LoadGenerator`, `SleepInRange`, `IntegralBounded`, `Stops`.
`QueryResult`: `SortedInOrder` (a matrix that is printed, and a vector its caller has sorted:
a permutation of what was decoded, in the order of the label sets, for a vector then of
time; a vector that nobody sorts is printed as the server sent it), `SurvivesJSON` (written
and decoded again it is equal, but for negative times with a fraction). `Signature`: `Separated` (the hashed bytes tell names and
values apart), `SignaturesAgree` (the copies of the loop give one answer, in whatever order
they get the names); both are about all results, so `Prometheus` states them. That the answers
are those the tests of the repository expect is an assumption of `MCPrometheus`, which TLC
evaluates (`FingerprintsKnown`). `Alerts`: `StatusSound` (firing or resolved, as at some
moment between call and answer). `Durations`: `DurationKept`. The three have their type
invariants in `Prometheus!TypeOK`.

## 4. Runs

| run | bounds | result |
|---|---|---|
| `deploy` | 3 services with 3 triples of limits, every hierarchy of them; 4 nodes (the master's place fixed), every placement in 2 PMs and 2 racks and every regular one in 3 PMs, 3 triples of capacities; cursor R1/PM2/rubin3 as in `main`; binds may fail, a pod may be deleted | passes |
| `deploy_stale_cursor` | every placement in 2 PMs and 2 racks | `NothingLeftFits` fails |
| `deploy_sentinel` | the regular placements only | `RefusedForCapacity` fails |
| `linkage` | 0 to 4 services, every symmetric matrix over {1, 2, 3} | passes |
| `service_map` | up to 3 athena pods among 4, 1 received and up to 2 sent samples, counters 0 or 3, 3 applications | passes |
| `scheduler` | 3 athena pods of which 2 come and go, one other pod, 2 nodes, of which one may have lost its rack label, or none is listed; crashes and restarts, failing listings and binds, any number of rounds; safety and liveness | passes |
| `scheduler_overcommit`, `scheduler_foreign` | the same without crashes; the second with the other pod listed first | violated, see section 7 |
| `prototype` | the mock data `main` always runs with, all 24 orders of its clusters | passes |
| `benchmark` | 1 client, any connection may be refused, a process of the load generator per handler: loads 0 to 2, target 1, samples up to 2 intervals late, 3 to 4 units of time | passes |
| `prometheus` | 8 metrics; vectors of up to 2 of 19 samples and of 3 of fewer series, matrices of 3 streams; lists of up to 3 alerts, clock to 5; durations of 7 units and 20 numbers in 16 bits | passes |
| `alerts_order` | the same | `Chronological` fails |

**Why the bounds are enough to be interesting.** Three services give every shape of
a dendrogram in which a pair is inside a whole and a third beside it; the limits
are such that wholes, pairs or single services only fit, that fitting depends on
what came before, and that ports decide. Four nodes give every pass of the search
two candidates somewhere and place the master anywhere but its PM. Four services
are the first with two independent pairs. In `ServiceMap` two pods may share an
application, and Ids may have gaps. In `Scheduler` the nodes hold every pair of
pods but not all three, so that clusters are broken up, and the room suffices for
each hierarchy, so that waiting pods have a claim to be bound; a round may see a node
without its rack or no node at all. `Benchmark`'s route
has a branch (C and D) and a server reached twice (E); one client is enough, since
requests of two clients share no handler and processes share nothing. In
`LoadGenerator` the target
lies between the loads, so that the output reaches both limits and leaves them; in
the passing run the start takes at most as long as the duration. The metrics of
`prometheus` are those of the repository's tests and pairs that differ in a name, in a
value, in one label more, in an empty value, and in where a name ends; times have zero
to four digits after the dot and both signs. The units of `Durations` divide each other
as the real ones do and a year is no multiple of a week; the longest texts overflow the
16 bits and Atoi. The state spaces are
explored completely; nothing is cut by a constraint. No symmetry is used: names
matter to the cursor and the master.

## 5. Fairness

`Deploy`: weak fairness of the loop's steps; each call of Kubernetes returns, with or
without an error. `Linkage`: weak fairness, a script that runs on. `Scheduler`: weak
fairness of the loop, and strong fairness of two
results: a listing in which every node has its place, and the binding of a waiting pod,
do not fail
for ever when they are tried again and again. Nothing is assumed of the pods'
creation and deletion or of restarts; `PendingBound` therefore speaks of behaviours
in which the process is alive from some point on. `BenchmarkLoad`: every handler's
thread runs on (weak fairness of calls, answers, ends and of the return of `os.system`;
none of refusals), and so does each of the three threads of a process. `Prototype`:
weak fairness of its single thread. `ServiceMap` and the Prometheus modules: none, and no liveness is claimed.

## 6. Proofs

TLAPS checks these for every value of the constants (any numbers of pods, nodes,
clusters, resources, ports, services, machines, samples, labels, loads, alerts): all the
properties of the passing runs but liveness.

* `FiniteFacts`. Nonempty sets of numbers have a lowest element, and a sum over a finite
  set can be taken apart: it grows by what is added (`SumAdd`), is the sum of the sums
  of disjoint parts (`SumUnion`), and grows with the set (`SumMonotone`). All of it rests on
  `SubsetInduction`, an induction over the *sets* that are smaller than a given one: the
  least set without a sum would have a part without one. The community modules define
  the sum through a recursive function on sets, so this is what every proof about
  capacities or bytes needs.
* `DeployProofs`, search. `SearchSound`, `SearchComplete`, `SearchClosest`. Soundness needs
  nothing. Completeness and closeness need a *regular* rack map (every node listed under
  its own rack) and a cursor that points into it (`CursorOK`): then the four passes cover
  all nodes, in the order of `Distance`. `CursorFollows` shows the cursor stays so after a
  placement.
* `DeployProofs`, round. `TypeCorrect` (capacities stay natural because `Fits` is tested on
  the record that is charged). `OneRequest` and `Together` share the inductive
  invariant `RequestInv`: the clusters stay a hierarchy (`Listed`); of an unmarked
  cluster the loop has still to come to, no service is sent or about to be
  (`Untouched`); the services of the cluster in hand are either still to do or were
  sent to the node chosen (`InHand`); each service went to one node (`OneNode`).
  Neither property is inductive alone: that a later cluster is untouched follows
  only from nesting and marking together. `Exhaustive` is an action property: no step
  from a state in which cursor and racks agree makes a cluster refused that fits, or a
  refused one fit. It needs `SearchComplete` for the first, `ChargedFitsLess` for the
  second, and that the cluster in hand is marked (`Marked`). `Closest` follows from
  `SearchClosest` in each step.
* `WithinCapacity` (`PlanFits`). Its invariant `BudgetInv` adds a balance to `RequestInv`:
  what the services here need and what is left of the node add up to what it had
  (`Balanced`). Between choosing a node and charging it the balance is off by the cluster in
  hand, which `Uncharged` puts right; that is why the charge comes after the binds
  without harm. A profile is the sum over its cluster (`Accounted`), so what is charged at
  once is what was sent one by one. `ImplementsPlacement`: each step is one of `Placement` or
  changes nothing there; from the balance again, the cluster put down has room.
  `BrokenUpOnlyIfNeeded` (`NoVainSplit`): a refused cluster was too big for each node and
  stays so (`TooBig`), because whatever smaller cluster inside it takes from a node counts
  for it, and where ports refused it, they refuse its parts.
  `RoundShortens`: each step of the loop takes at least one off `Work`, a natural number made
  of the clusters to come and the pods to bind, and nothing Kubernetes does raises it. So
  no round goes on for ever; `RoundEnds` is left to TLC only because it also says that the loop
  can always take its next step.
* `SchedulerProofs`. `FreshRounds`: each round starts in `Deploy!Init`, whatever happened
  before. From it, `EveryRound` takes `OneRequestPerPod`, `DeployedTogether` and `PlanFits` to any
  number of rounds, crashes and restarts: `SchedInv` says what the lists are after each of the
  three listings (`PodsRead`, `NodesRead`), which is what lets the invariant `BudgetInv` start
  again. `EveryStep` does the same for the action properties and the refinement: what the
  loop does in a round is a step of `Deploy!Next`, or one the round does not see
  (`RoundSteps`, `RoundUnseen`). `NeverInVain` needs a condition, because the cursor is taken
  over while the nodes are listed anew: the cursor of `main`, and that of any node of any
  list, points into every list (`CursorStays`). It holds while the machines stay where they
  are, even if listings fail (`SameMachines`); then every round starts oriented
  (`CursorInv`). `EveryRoundShortens` is `RoundShortens` in each round.
  `RoundsImplemented` (`ImplementsRounds`): the mapping shows the state of the round
  between `UpdateClusters` and the next listing (`InRound`) and nothing else, so that a crash is
  an end like any other. The first step of a round begins one because it leaves
  `Deploy!Init` (`RoundBegins`); choosing a node is a step of `Placement`
  (`RoundPlaces`); a binding goes to a node that hosts the service at that moment, since the target
  counts as one while the service is still to do (`RoundBinds`); charging a node shows nothing,
  as what is offered is the rack map's copy (`SameRound`). `NothingMoved`: no pod that has a node
  gets another one, though every round plans it again, because the API binds only what
  waits. `SchedTypeCorrect`. `AthenaOnly`: if athena is listed first
  (`AthenaListedFirst`), its pods have the lowest Ids (`AthenaLow`), so the rows of the map
  are theirs; the run `scheduler_foreign` shows that the condition is needed.
  `LabelledRacks` and `RacksRegular`: if the labels of machines agree on where a PM is
  (`PlacesAgree`), every list `getNodeCPUMem` returns is regular, whichever samples are
  missing. `SearchComplete` and `SearchClosest` start from this.
* `LinkageProofs`: `HierarchyWritten` and `FileWritten`, from `LinkInv`: parts come
  before wholes, the live clusters are disjoint and cover the services, every
  cluster lies in one of them or is disjoint from it (`Forest`, kept by
  `JoinForest`), and the number of live clusters falls by one with each row, which
  is why the last row leaves one cluster with everything. `TrafficFollowed`, from
  `TrafficInv`: what splits a part of a new cluster cuts a link as heavy as that part's own
  (`HeldTogether`), and rows come in the order of their weights because what is
  apart exchanges no more than any row so far (`StillApart`). `FileLoadable`: each row joins
  two disjoint earlier ones (`Joins`), so the file is in `Clusters!Files`; the interface
  between the two programs is proved on both sides.
* `ServiceMapProofs`: `MapDivisible`, and `MapInRange`: if the Ids of the athena pods
  are 0, 1, ... then `podMap` only gives rows. `AllTrafficCounted` (`TrafficCounted`):
  after each sample an entry holds the sum over the samples read so far (`ReadCounted`).
* `PrototypeProofs`: `MachinesHold`, from a balance like `Deploy`'s (`Balance`), in every
  order of the clusters; `RefusedFitsNowhere`; and `OnceInOrder`: `Marked` says what is inside
  a cluster on a node is marked, and in orders where wholes come first that is enough.
* `BenchmarkProofs`, of the composed specification. `SleepsInRange`, `NoWindUp`: between
  `Regulate` and `Clamp` the integral may be anywhere; the invariant (`Sampled`)
  remembers that without the last step it was in its bounds, and that step is what
  `Clamp` takes back at a limit. `NeverInACircle`, `AnswersWhole`, `TurnsNobodyAway`,
  `BenchmarkTypeCorrect`: the stack of a client is a path of the call tree (`OnRoute`:
  each handler was called by the one before and has its place by depth), and unless its
  last handler failed for a refused connection, what was served is what that position
  says (`Given`). The invariant is about each client by itself and does not use that there is only one;
  the composed specification assumes one (`OneClient`), as it has one process of the load
  generator.
* `PrometheusProofs`. `BeforeTotal`, `BeforeAsymmetric`, `BeforeTransitive`: `Before` decides
  at the lowest name at which two sets of equal size differ (`BeforeDecides`), so it is a
  strict total order of label sets, which is what `sort.Sort` asks of `Less`. `SortsInOrder`
  (`SortedInOrder`): its loop brings the decoded samples into that order: up to the sample
  that moves down, none stands before what it may not precede (`PrefixSorted`), and none is
  lost or doubled (`Permuted`). So a matrix is printed in order, and a vector is in order when
  a caller's sort returns (`Finished`). The theorem is about the insertion sort; of the sort
  of long results it has only the order. `JSONKeepsResults` (`SurvivesJSON`): a time is read back from its text
  (`TimeReadsBack`), whichever number of digits it is written with.
  `StatusAnswers`: what `HasFiring` found resolved stays so while
  the clock runs on (`Passed`). `KeepsDuration` (`DurationKept`): the unit chosen divides the
  duration, so neither product of `ParseDuration` leaves the integers (`ReadsBack`, `Written`).
  `SideBySide`: the three share nothing, so what holds of each holds of all together
  (`PrometheusTypes` among it).
  `FingerprintsSeparate` (`Separated`): no text has the byte 255, so the bytes hashed fall
  into segments that end at their separators (`Segments`), and two lists of segments with equal
  bytes are equal (`ListsAgree`: flattening is followed to the first place where they could
  differ); names come in increasing order, so equal lists come from equal label sets.
  `SignaturesMatch` (`SignaturesAgree`): sorting depends on which names there are and not on
  their order (`SortedNames`, from `SortedFacts`: the place of a name is how many are not above
  it), so the loops that sort a map's keys and the one that sorts a caller's list meet the same
  labels.

Assumptions used: `WeightsAssumption` (entries are positive: that is `Divisible`),
`BytesAssumption` (counters are natural numbers), `LoadAssumption` (loads, durations and
delays are numbers, and a full load is not 0), `DocumentsAssumption` (a document holds
finitely many samples with label sets and times), `AlertsAssumption` (lists of
alerts; the clock stops somewhere), `DurationAssumption` (units are positive, and the last
is a millisecond), `PrototypeAssumption` (finitely many services and clusters, which are
nested, with natural quantities), `TextAssumption` (texts are numbered in Go's order of strings, the empty one first, and none
has the byte 255: UTF-8 never does, and the JSON decoder gives valid UTF-8 only), `TextCovers` (every name and value of a result has its bytes), `SchedulerAssumption` (a listing
names no pod twice, limits are numbers, a list of nodes has each node once and no
port in use); everything else is in the `Init`s. Three theorems have a condition of their own:
`AthenaOnly`, `RacksRegular` and `NeverInVain`; the runs `scheduler_foreign` and
`deploy_stale_cursor` show what happens without the first and the last.

**Induction.** The library's induction theorems take an operator as a parameter, which the
provers cannot instantiate. Where an induction was needed it is done by the least
counterexample: for sums over the sets (`SmallestSubset`), for the recursive function
`Ten` over its argument (`Powers`), and for the flattening of segments over the number of
segments (`LeastExists`).

**Only model-checked:**

* `RoundEnds`, `Returns`, `PendingBound`, `RequestsEnd`, `Stops`: liveness under fairness is out of
  the prover's reach, and so is ENABLED.
* `FingerprintsKnown`: hashes of given bytes, which are computed.

## 7. Where code and documents disagree

Each has a run whose one property is the statement quoted; TLC finds it violated.

* "no node has enough capacities" (`utils.go` 103) is also reached when the current
  rack was left out of the search (`deploy_stale_cursor`), and when only the `-1` of
  the port lists refuses a node (`deploy_sentinel`).
* "check the resource availablity" (`scheduler.go` 389): nodes fill beyond what they
  have over several rounds (`scheduler_overcommit`).
* "get the list of pods in athena namespace" (`scheduler.go` 455): with another
  namespace listed first, other pods are bound (`scheduler_foreign`).
* "Alert is a list of alerts that can be sorted in chronological order" (`model/alert.go`
  104): `Less` answers true as soon as one of three fields is less, so of two alerts each
  can be less than the other, and a list stays as it was (`alerts_order`).

More that the models show, without a run of their own:

* "It schedules pods that are pending" (`kubernetes-client/README.md` 3): every round
  lists all pods and sends a Binding for each athena pod, running ones too
  (`ListPod` and `UpdateClusters` in `Scheduler` ask nothing of a pod's state). That none of them
  moves is left to the API (`NothingMoved`).
* "schedule() is called periodically" (`kubernetes-client/README.md` 8): one athena pod
  alone ends the process for good (`Scheduler!Fail`).
* "Golang doesn't guareentee the interation is in order" (`scheduler.go` 320) names
  what the prototype gets wrong: `Prototype!DeployedOnce` fails in those orders that
  are not `WholesFirst`.
* "Invalid duration" (`CPULoadGenerator.py` 41) refuses only negative durations. With
  `Duration = 0` and `Late = 1`, `LoadGenerator!Stops` fails: the loop never runs,
  `return sleep_time` raises, and nobody clears the flags of the two threads.
* `UnmarshalJSON` of a time drops the sign of a fraction (`model/time.go` 141-165): `-0.5` is
  read as 500 ms. `SurvivesJSON` exempts negative times with a fraction.
* `ParseDuration` drops Atoi's error and lets the product wrap (`model/time.go` 188-214), so
  a duration too long becomes another one, and a negative one is written in a form that
  `ParseDuration` refuses. `DurationKept` speaks of positive whole milliseconds.

## 8. Not modelled, and the plan

Not modelled:

* float32 rounding of capacities and limits; quantities that do not convert to integers
  are modelled by their zero.
* the wording of samples, JSON and logs; the scalars, strings and value type names of
  the query results; streams with several pairs.
* of the data model, silences and matchers (they only validate their fields), sets of
  fingerprints, and the small helpers of label sets (`Merge`, `Clone`, `Validate`, decoding):
  nothing in the scheduler uses them, and each is one expression.
* plots and the load generator's record of samples; sizes of the benchmark's messages.
* the functions without callers in `utils.go` (286-408) and `test/utils.go`, among them
  `BindPodToNode` of the prototype (90), which would repeat its call for ever.
* manifests, build files, mock data (but for the prototype's) and tests.

The order of the work, most important first.

Done:

1. `RackSearch`, `Deploy`, `Placement`: search and round, and their proofs.
2. `Linkage`, `Clusters`: the hierarchy the round relies on, proved.
3. `Scheduler`: many rounds, with failures; `Machines`: what they read.
4. `ServiceMap`: the matrix, proved.
5. `Prototype`, and `Benchmark` composed with `LoadGenerator`, the latter two proved.
6. The Prometheus data model: `Labels`, `QueryResult` (proved), `Signature`, `PromTime`,
   `Durations`, `Alerts`.

7. `FiniteFacts` and with it the capacities: `PlanFits`, the refinement of `Placement`,
   `NoVainSplit`, the safety of `Scheduler`, `Linkage`, `ServiceMap` and `Prototype`, and of the Prometheus
   types: proved; the theorems about one round hold in all rounds.
8. `Rounds`, the abstract specification of the whole loop with the pods' creation and
   deletion, which `Scheduler` is proved to implement.

To do:

9. A small float32 for the accounting of capacities.
