# klens, verified

TLA+ models, TLC checks and TLAPS proofs for `kubectl-klens`, a read-only
kubectl plugin. The models are translated from the Go source under
`src/internal`; `PROJECT.json` maps each definition to the lines it stands for.

## What is hard about a program that only reads

klens changes nothing in a cluster, so what can go wrong is that it *answers
wrongly*: a short list that looks complete, a verdict read from stale status, a
watch that dies or floods the apiserver, an interrupt reported as a failure, a
goroutine that never ends. All of these depend on the order in which pages,
errors, timeouts, signals and changes of the cluster arrive, which is what its
unit tests (a fake clientset answering at once) cannot vary.

## Inventory

| component | source | state | operations | made correct by |
|---|---|---|---|---|
| list layer | `kube/list.go` | the `inFlight` channel; per walk the continue token and the accumulator; per call the error slots | acquire, request, release, append, follow the token, join, concatenate or filter | slots balance; a list is one version, whole, or an error; results in argument order; nothing left running; always ends |
| clients | `kube/client.go` | the REST config | build, read the kubeconfig namespace | the timeout bounds every request |
| namespace scope | `kube/scope.go`, `kube/flags.go` | `Flags.Namespace`, `Flags.Namespaces` | resolve a name or a glob, build the `Scope` | never wider than what was asked |
| session | `cli/cli.go` | flags, context, exit code | check arguments, connect, resolve, run, translate the error | true exit codes, interrupt always ends it |
| watch | `cli/watch.go` | ticker channel, frame | render, draw, wait | survives failures, paced, quiet interrupt |
| pod source `--by-owner` | `view/byowner.go` | lists per kind | concurrent reads, version fallback, skip what is malformed | a row per workload, once; optional kinds never fatal |
| rollouts | `view/rollouts.go` | one object's spec and status | read a row, first matching verdict | the verdict agrees with what the controller saw |
| table | `kube/table.go`, `view/verdict.go` | rows | filter, hide, sort, flush | stable order, nothing dropped that was asked for |
| command line | `cli/cli.go`, `cli/complete.go` | the words, the flags set so far | offer words, look the command up, parse in rounds, check | every word means what one pass would make of it; what is offered is accepted |
| unused-config, volumes | `view/unusedconfig.go`, `view/pvcunused.go`, `view/pvorphan.go` | several kinds read at different instants | collect references, classify | no object in use reads as unused |
| pvc-resize | `view/pvcresize.go` | claims, classes, then pods | first matching verdict, pods of the rows' namespaces | no stalled expansion reads as landed, no class accused without cause |
| netpol | `view/netpol.go` | pods and policies, two lists | fold rules, policies and pods into one word | no gap hidden, no denial made up |
| ingress | `view/ingress.go` | ingresses, then services and secrets | flatten rules, match hosts and ports | faults true, OK earned, a refused list never a fault |
| svc-backends | `view/svcbackends.go` | services and slices, two lists | count endpoints once, classify | counts pods, not slice entries |
| pdb, hpa | `view/pdb.go`, `view/hpa.go` | one object's spec and status | first matching verdict, cells per metric | the verdict agrees with the eviction API; blindness shows |
| terminating | `view/terminating.go` | three lists and the clock | grade, name the blocker | neither early nor late |
| certs | `view/certs.go` | secrets and Certificates, the clock | earliest expiry, thresholds, worst of two verdicts | what cannot renew never reads OK |
| autoscaler | `view/autoscaler.go` | one ConfigMap, in one of two formats | parse as YAML, else line by line | both formats tell the same, nothing borrowed from a neighbour |
| pending | `view/pending.go` | one list | the scheduler's message, else the containers | the one reason is true, and the one that matters |
| spread, max-pods | `view/{spread,maxpods}.go` | pods and nodes, two lists | group by workload or by node, count, classify | placement and free slots as they once were |
| the other verdicts | `view/{probes,restarts,qos,podspernode,onnode,svcfqdn}.go` | one or two lists | rule chains | first matching rule is the true one |
| secret browser | `view/secret.go` | one list | terminal pickers | |
| plain listings, colour, `main.go` | the rest | none | one list mapped to rows | |

They interact by calls only. `App.Run` builds a `Flags`, resolves its scope and
hands a cancellable context to a view; a view passes closures to
`kube.Concurrent`; each closure is a `List` wrapper that ends in `listScoped`,
which may run a second `Concurrent` over namespaces; every page of every walk
goes through the one process-wide semaphore. The shared state is that channel,
the captured result variables and the context.

The hazards (`PROJECT.json`, "hazards") are this list line by line.

## Modules

    Lists           filtering a list: Kept
      ListsProofs          lemmas on filtered and flattened lists, and the
                           places of their elements
    ListDefs        vocabulary of a list call: routes, targets, assembly
      ListFetch     the code: walks, pages, slots, errors, joins
        MCListFetch
        ListFetchProofs    its safety properties, the three routes, and that
                           ListFetch implements ListAtomic
    ListAtomic      the promise: every collection read in one instant
    Session         one process: dispatch, scope, run or watch, exit
      MCSession
      SessionProofs        its safety properties, for every instance
    OwnerRows       --by-owner on top of the promise of ListAtomic
      MCOwnerRows
      OwnerRowsProofs      its errors and its rows, for every instance
    Views           one process, one verdict command, or one command line:
      NetworkPolicies   netpol against what policies admit
      Ingresses         ingress against services, secrets and certificates
      Backends          svc-backends against pods and their slices
      Certificates      certs against cert-manager and the clock
      Schedulings       pending against the scheduler's last attempt
      Placements        spread and max-pods against scheduler and nodes
      NodeGroups        autoscaler against the two formats of its status
        ListViewsProofs    these seven, for every instance
      Rollouts          edits and surges against the workload controllers
      Disruptions       pdb against the eviction API
      Autoscaling       hpa against the autoscaler
      Terminations      terminating against the clock
      Resizes           pvc-resize against controller, node and class
      Arguments         a command line, completed and parsed
        StatusViewsProofs  these six, for every instance
      MCViews
    Volumes         pvc-unused, then pv-orphan, over claims that come and go
      MCVolumes
      VolumesProofs        use, slots and idle disks, for every instance
    Table           which rows are printed and in which order
      References    unused-config: ten kinds read at ten instants
        MCReferences
        ReferencesProofs   the scan and the table, for every instance

### ListFetch: `kube/list.go`

A *call* is one closure a view hands to `Concurrent`; a *walk* `<<c, i>>` is one
run of `listAll`, in a goroutine of its own when the scope fans out. `pc[w]`
follows `listAll`/`pageBounded`:

| `pc` | code |
|---|---|
| `acquire` | blocked on `inFlight <- struct{}{}` |
| `sent` | `List` is on the wire |
| `doomed` | `List` made under a cancelled context: the transport refuses it |
| `served` | a response, page or error, is on its way back |
| `done`, `failed` | `listAll` returned |

`token`, `got` and `err` are `opts.Continue`, `all` and the walk's error;
`slots` is `len(inFlight)`; `ret[c]` what the closure of call `c` returned and
`answer` what the view's `Concurrent` returned. `Acquire` does not look at the
context, because the channel send does not. The apiserver is external: a page
without a token is cut from the present, a later page from the version the
token names, or refused with 410 (`gone`) at any time. `Timeout` may beat a
response already on its way and does not run while the walk is queued; `Abort`
the same for the context.

`ListDefs` has the three routes of `listScoped` (one List, a fan-out, one List
filtered) as `Width`, `Target` and `Assemble`, and `cmp.Or` as `FirstError`.
`ListingAssumption` is what the apiserver sees to: no object is listed twice, and
a namespace's list is the cluster-wide list restricted to it. It does not make
the three routes give one order. The apiserver sorts by key, in which namespace
`a-b` (`a-b/...`) comes before `a` (`a/...`); `ResolveScope` sorts names, in which
it comes after. `RouteInvisible` says so: the order is the cluster-wide one, but
for a fan-out over a cluster that is not `InNameOrder`.

Abstracted: object contents (a namespace and a name), `RemainingItemCount`,
which only sizes an allocation, and the dynamic/typed distinction.

### ListAtomic

What every view relies on and no view could check: each collection is read in
one instant, and the view gets either everything or the first failure in
argument order. It says nothing of pages, slots or goroutines, and it permits
different collections to be read at different instants, which is the tearing
that views over several kinds have to live with (`OwnerRows`). `ListFetch` maps
to it with `seen <- snap`, `failed <- err`.

### Session: `cli/cli.go`, `kube/scope.go`, `cli/watch.go`

`pc` names the statement `Run` stands at. A request is three states: sent
(`resolving`, `running`, `rendering`), then ended by an answer, a timeout or
the context. `live` says the request was made before the context was cancelled;
one made after never goes out. A signal before `NotifyContext` kills the
process (`Killed`); after it, it closes the context and the code decides.

A command's own reads are one request here: `ListFetch` shows that a command
over many collections comes back with one answer and that it does so once the
context is cancelled (`CancelEnds`), which is the part `Session` assumes.

Command lines are records of what dispatch looks at. `usage` stands for every
refusal before a cluster is contacted; their wording is not modelled.

### OwnerRows: `view/byowner.go`

One read per kind and namespace, each at its own instant. The order of
`Closures` is the argument order, so `FirstFailure` is `cmp.Or`. The StrimziPodSet
closure lists `v1`, then `v1beta2` (`FallBack`), while an operator upgrade may
change the served versions between the two. `stayed`, `ever` and `steady` are
history: workloads that existed throughout, at some time, and versions served
throughout. A workload is a kind, a namespace and a shape: a usable template,
none, or one that does not convert.

### Rollouts: `view/rollouts.go`

The code is `Observed`, `Row`, `Rolling` and `Verdict`. The rest is the world it
reads: a user who edits, rolls back, scales and pauses; a controller that surges
(Deployment, Rollout) or replaces in place (StatefulSet, DaemonSet); pods, of the
latest template or an older one, that become ready and crash; and a status written back at some later moment
(`Sync`). `truth` records what the controller saw when it wrote the status.

### The verdict commands: `Views` and what it composes

A process runs one command, so `Views` picks one at the start and takes only
its steps: the state spaces add up and do not multiply. Twelve modules share the
variables `cluster` (what exists, changed by users and controllers), `lists`
(what the command has read, `Unread` or `Failed` otherwise) and `past` (what was
true all along, or at some moment, since the command began); `Arguments` puts
its line, what was offered and `Run` there; `Rollouts` keeps variables of its
own. A constant of `Views` is a record with what one view's cluster is drawn
from, and `MCViews` gives the records. What the apiserver and the controllers
guarantee of them is assumed by name (`NetpolWellFormed`, `IngressWellFormed`,
`PlacementWellFormed`, and one for each other view that needs it); TLC evaluates
these on the instance, and the proofs use nothing else of the constants.
Each list is one instant's read, may fail, and may come in
any order unless the code orders it. A list that fails leaves no table, which is
`Printed`.

| module | the code | the world |
|---|---|---|
| `NetworkPolicies` | `PolicyTypes`, `AllowsAnyPeer`, `PodCoverage`, `Rollup`, the two field selectors in `Asked`, rows by pod or by namespace in `Cell` | `Admitted`: the traffic a pod lets in, from the API's definition, with sources inside and outside a narrow block and of both families |
| `Ingresses` | `IngressRules`, `TlsSecretFor`, `HostMatches`, `Verdict`; services and secrets are read only if there is an ingress, and `Forbidden` secrets are no error | `CertCovers`: TLS name matching, label by label |
| `Backends` | `Counted`, `CountEndpoints`, `SvcVerdict` | pods, and a controller that fills one slice at a time |
| `Disruptions` | `PdbVerdict` | the disruption controller (`expectedPods` counts pods for an absolute `minAvailable`, wanted replicas otherwise) and the eviction API |
| `Autoscaling` | `HpaVerdict`, `HpaTargets`, `Current` | the autoscaler: a status entry per metric of the spec it saw; it gives up (`GivesUp`) when it read no metric, or not all and those it read would scale down, and reads none of a target at zero or above the ceiling |
| `Resizes` | `ResizeVerdict`; `Known` and `Allowed` are the map of policies, empty when the classes could not be listed; `ReadPods` comes after the two others, only if there is a row, and asks `Asked`: the scope, or the rows' namespaces up to `MaxNamespaceFanout`, or everything | the apiserver's admission of requests, the resize controller, the kubelet, provisioners that round up, a class that changes or goes |
| `Certificates` | `EarliestExpiry`, `CertVerdict`, `WorstFirst`, `Stuck`, `Missing`; a `Forbidden` or absent Certificate kind is no error; the clock is read in `Render` | cert-manager writing secret and `Ready` at two instants, users, the clock |
| `NodeGroups` | `Parsed`: the YAML document as it is, or `LegacyWide` and `LegacyGroups` out of the lines | `Document`: what an autoscaler of either version writes of its groups, sections missing or not; upgrades |
| `Schedulings` | `PendingReason`, `SchedulerCause`, `PinnedCause`; `Phrase` drops a clause's `{key: value}` | the scheduler's reasons of each node at its last attempt, nodes that change after it, the kubelet |
| `Placements` | `WorkloadKey`, `NodesOf`, `ZonesOf`, `SpreadVerdict`; `Used`, `Free`; which of the two commands runs is chosen at the start | the scheduler with a node's ceiling, evicted pods that stay as finished objects, nodes that join, get their zone label later, and leave; `of`, the workload a pod really belongs to |
| `Terminations` | `TerminatingVerdict`, `PodBlocker`, `NamespaceBlocker`; the clock is read in `Render`, after the lists | a `deletionTimestamp` that is the request plus the grace |

Left out: colours and cells that only format, `PARTIAL`'s counts, the scope of
`ingress`, `svc-backends` and `terminating` (their lists all have the same one),
the order of rows, which is `Table`'s, and selectors that do not compile, which
the apiserver does not store. In `Resizes` a size is a number and a class's name
is given or not; in `Certificates` a bundle is the lifetimes of its certificates;
in `NodeGroups` a section's cells are one value, and LAST-CHANGE, which only YAML
has, with the order it gives, is left out; in `Schedulings` a message is its
clauses or `None`.

### Arguments: `cli/cli.go`, `cli/complete.go`

A line is typed (`Type`) or completed (`Tab`), word by word, and entered at any
moment. `Offers` is `completions`, with the namespaces of the context it asks;
`Chosen` is `chosenCommand`. `Enter` is `Run` up to the flags, `ParseFlag` one
turn of the flag package's `parseOne`, `ParseStops` the end of a `Parse`, where
`parseInterspersed` looks for a `--` and starts the next round; `Check` the
checks that follow. What a word is to the flag package (dashes, name, value) is
the constant `Flag`, what it takes for a duration the constant `Durations`; a
value a flag's type `Rejects` is an error. `blame` is the word a refusal is about. `Roles` is not in
the code: it reads a line in one pass, which is what the rounds have to amount
to. `Session` goes on from there; it takes the flags as parsed. The test for a
terminal under `--watch`, which no word decides, is left to it.

### Volumes: `view/pvcunused.go`, `view/pvorphan.go`

The two commands run one after the other, as the second one's comment says they
should be read, while users, the StatefulSet controller and the volume
controller go on. Each list is one instant's read (what `ListAtomic` promises):
`Read(k)` for the three kinds of `pvc-unused`, `PvOrphan` for the one list of
`pv-orphan`. A name is the sequence of the words between its dashes, which is
all that cutting a claim's name at the last dash can tell; `Number` is what
`strconv.Atoi` makes of a word. `Owners`, `Owner` and `BeyondScale` are the map
of prefixes and its lookup, `Verdict` and `PvVerdict` the two switches. `Atoi`
also takes `01`, so `data-db-01` reads as slot 1; the instance has no such word.

`held`, `free`, `seen`, `idle` and `limbo` are history: what was mounted, or
unmounted, all along; the replica counts a set had; the disks no pod used and no
new claim took; and the volumes whose claim's end nobody has noticed, which
`pv-orphan`'s comment excludes.

### Table and References: `kube/table.go`, `view/unusedconfig.go`

`Table` is the pipeline of `Flush`: `filterRows`, `hideRows` with its count,
`sortRows` with a registered rank, numbers or text. A row is a function from
headers to cells, a pattern the set of cells `path.Match` takes for it.

`References` is the whole of `unused-config`: ten lists in any order, each at
its own instant; the reference set with its two keys, kind and namespace, or
namespace alone for a word of a command line; the platform's own objects; the
table. A referrer's `refs` are pairs of a field of the API and a name. What a
field means is the API's (`FieldsOf`, `KindOf`, and `PointsAt` for what a
referrer reads through all of them); which ones the scan gathers is the code's
(`AddVolume`, `AddContainer`, `AddPodSpec`, `AddServiceAccount`, `AddIngress`).
The two differ: `addVolume` looks at four types of volume, and seven others
(`OtherVolumes`) name a secret too. `Follows` leaves those out, with arguments
that name another namespace, and `ReferencesCount` is what fails on them. A
pod's containers are one, and so are its volumes. `pinned` pairs an object with
a kind that held a reference the scan undertakes to follow (`Follows`) at every
instant of the command, `left` holds what nothing mentioned at any. A reference handed
from one kind to another in the middle of the reads is in neither, and ten lists
cannot see it.

## Runs

| run | instance | shows |
|---|---|---|
| `FetchFanout` | 2 calls (one fanned out over 2 namespaces, one cluster-scoped), 3 walks, 2 slots, pages of 1, 1 change, cancel, timeout on or off | `TypeOK`, `SlotsAccounted`, `NoShortRead`, `QuietAtReturn`, `RouteInvisible`, and the refinement `ImplementsAtomic` |
| `FetchWide` | 2 calls, scope wider than the fan-out cap, 1 slot, pages of 2 | the filtered route: `RouteInvisible`; liveness: `TimeoutEnds`, `CancelEnds` |
| `Session` | 2 namespaces, every flag combination, 2 ticks, 1 change | `TypeOK`, `ScopeHonoursFlag`, `ExitCodeTrue`, `WatchOutlivesErrors`, `QuietInterrupt`, `FramesPaced`, `InterruptEnds` |
| `SessionInterrupt` | 1 tick | finding: `InterruptedExit` is violated |
| `OwnerRows` | 3 kinds (built-in, optional, Strimzi), 2 namespaces, 1 change, 4 denials | `RowsExact`, `ErrorsWeighed` |
| `OwnerRowsShort` | the same, cluster at rest | finding: `NoSilentShortRead` is violated |
| `Views` | `rollouts`: 4 kinds, 2 replicas, 2 edits; `netpol`: 5 pods in 2 namespaces, any of 4 policies, 2 changes; `ingress`: 4 ingresses, 2 forms of a service, 1 secret, 2 changes; `svc-backends`: 2 endpoints, 3 slices, 2 changes; `pdb`: 2 replicas, 4 steps; `hpa`: 3 metrics, replicas from 0 to one above the ceiling, 2 steps between syncs; `terminating`: 6 ticks, graces above and below `stuckAfter`, 3 changes; `pvc-resize`: 2 claims at 5 stages, 1 class, 2 pods, fan-out limit 1, 2 changes; `certs`: 2 secrets, 4 Certificates, 1 tick, 2 changes; `autoscaler`: 2 groups, 2 steps; `pending`: 3 nodes in any of 5 conditions, 3 changes; `spread` and `max-pods`: 5 pods of 2 workloads and a DaemonSet, 3 nodes in 2 zones, 2 changes; a command line: 4 words after an empty or a `nodes --context prod` line | `TypeOK`, `VerdictMeansFinished`, `GapTold`, `DenyTold`, `FaultTrue`, `OKTrue`, `BackendsCounted`, `DrainForetold`, `BlindnessShown`, `DeletionsGraded`, `ExpansionTold`, `RenewalTold`, `FormatsAgree`, `CauseTrue`, `PlacementTold`, `WordsRead`, `OffersAccepted` |
| `RolloutsMidway` | 1 Deployment, 1 replica, 1 edit | finding: `OKMeansFinished` is violated |
| `Volumes` | 2 claims, 2 volumes, 2 StatefulSets whose names nest, 3 changes | `UseTold`, `SlotTold`, `PictureCloses` |
| `VolumesOrdinals` | a StatefulSet numbered from 1, cluster at rest | finding: `SlotVerdictsMean` is violated |
| `References` | 5 objects (one name in two kinds, one platform object, one system namespace), 7 referrers that use 9 fields and arguments, 3 command lines, 2 changes | `InUseNeverListed`, `LeftoversTold` |
| `ReferencesMissed` | a pod with an Azure share, and one whose argument names another namespace's ConfigMap, cluster at rest | finding: `ReferencesCount` is violated |

Why the bounds are enough. In `FetchFanout` the walks outnumber the slots, so
there is contention; the longest collection has three pages, so a token is
followed twice; one change suffices to put it between any two pages of any
walk. `FetchWide` has one slot, where a leak is fatal at once. Two ticks let a
watch draw a second and third frame, which is where pacing and the order of
tick and interrupt matter; what the loop remembers between frames is one
pending tick. In `OwnerRows` one change falls before, between or after any two
reads; two namespaces are the fewest in which one error can mask another. In
`Views`, for `rollouts`, two replicas are the fewest that can be half ready, and
two edits the fewest that make a third template overtake a second; for the views
with several lists two changes put one before and one between any two reads, or
both between them; four steps let a budget be edited, synced, evicted from and
short of a pod; six ticks pass twice a grace and `stuckAfter`; the sites of
`ingress` hold a wildcard certificate over one label and over two. For the later
views: a claim starts at every stage of an expansion, so two changes carry it
over any boundary between two stages while the lists are read, and a fan-out limit of 1 makes
two rows exceed it; a bundle starts at every side of each threshold, one tick
crosses it, two changes put a renewal's two writes around a read; two groups
are the fewest of which one can borrow from the other, two rounds make an
upgrade between; three nodes are the fewest where one reason counts two against
one, two of them tainted differently; two changes are the fewest that let a
node join and a pod be bound to it between the lists, or a new template's pod
be created and bound; four words hold a flag, its value, a `--`
and a name, and the line that starts with three more lets completion be asked
behind a context. In `Volumes` three
changes are the fewest that delete a claim, release its volume and reclaim it
between the two commands; the StatefulSets `db` and `db-1` in two namespaces
make one claim's name a slot of the one and a prefix of the other's. In
`References` two changes are enough to replace a pod (one goes, one comes) and
to swap the fields in which a Deployment names an object. Its
referrers use 8 of the 12 fields outside `OtherVolumes`; `AddedIs` (below) is
about all of them.
The pass run of `Volumes` has StatefulSets that start at ordinal 0; the
violation run lifts that. The pass run of `References` has an Azure share too,
whose secret it holds the scan to only where an argument names it as well.

Deadlock is checked in every run: the final states stutter explicitly
(`Returned`, `Exited`, `Over`, `Idle`). `Rollouts` and `hpa` never end.

## Fairness

`ListFetch!Fairness`: goroutines are scheduled, a response that arrived is read,
and the client's timer and the context's cancellation do fire. Weak fairness of
`Acquire` is enough (the runtime's FIFO queue of blocked senders gives more):
every walk takes a slot finitely often, so a slot is eventually left free.
Nothing is assumed of the apiserver: `Serve` and `ServeError` are unfair, so
`TimeoutEnds` and `CancelEnds` hold for one that never answers.

`Session!Fairness`: the main goroutine runs, a request with a deadline ends,
and one under a cancelled context ends. No fairness for answers, ticks,
signals or the cluster.

## What is proved

For every value of the constants that satisfies the assumptions of `ListDefs`
and `ListFetch` (any number of calls, namespaces, slots, any chunk size, any
cluster, any finite or infinite set of server states), in `ListFetchProofs`:

| theorem | statement |
|---|---|
| `TypeCorrect` | `Spec => []TypeOK` |
| `SemaphoreExact` | `Spec => []SlotsAccounted` |
| `WholeOrNothing` | `Spec => []NoShortRead` |
| `JoinedAtReturn` | `Spec => []QuietAtReturn` |
| `RouteUnseen` | `Spec => []RouteInvisible` |
| `Refinement` | `Spec => ImplementsAtomic` |

The inductive invariant is `IInv == TypeOK /\ SlotInv /\ WalkInv /\ JoinInv`.
None of the four properties is inductive alone: `SlotsAccounted` needs the set
of holders to be finite; `NoShortRead` speaks of finished walks only, so
`WalkInv` says what an unfinished one holds (the first `token` items of its
snapshot, and a response cut from the same snapshot); `QuietAtReturn` needs
`JoinInv`, that a call which has returned has only settled walks, and what its
return value was made of. `Init => IInv` and `IInv /\ [Next]_vars => IInv'` are
proved with one step per action.

`RouteUnseen` adds `RestInv`: while nothing in the cluster has changed, every
snapshot is of the state the call began with. What is left is about sequences:
whatever the route, `Assemble` of the whole lists is the scope's objects, once
each (`SingleRoute`, `FilteredRoute`, `FannedRoute`). Its lemmas are those of
`ListsProofs`. `Kept(list, set)` is a filter written as a recursive function,
because the definition of the library's `SelectSeq` cannot be expanded in a
proof; what it computes is shown by walking the indices of one list (`UpTo`):
which elements are kept, in which order, how often, and that filters by sets that
follow each other through the list concatenate (`KeptIs`, `KeptSplit`,
`KeptInTurn`).

`Refinement` maps `Serve` of a first page to `ReadOnce`, `GiveUp` to `Fail`,
`Change` to `Change`, the final `Return` to `Succeed` or `Refuse`, and all
other steps to stuttering. The hard step is `Return` with an error: the first
failure over calls of the first failure over namespaces is the least failed
walk in the order `Before` (lemma `JoinedError`).

For every set of command lines, namespaces and errors, and any number of ticks
(`SessionAssumption`), in `SessionProofs`:

| theorem | statement |
|---|---|
| `TypeCorrect` | `Spec => []TypeOK` |
| `ScopeExact` | `Spec => []ScopeHonoursFlag` |
| `ExitCodes` | `Spec => []ExitCodeTrue` |
| `WatchSurvives` | `Spec => []WatchOutlivesErrors` |
| `InterruptQuiet` | `Spec => []QuietInterrupt` |
| `PacedByTicker` | `Spec => []FramesPaced` |

They share one inductive invariant. `PhaseInv` ties `pc` to what has happened
before it: past `NotifyContext` the handler is in, only a watch is in the loop,
a command has begun exactly when its scope is settled. `ScopeInv` adds that a
flag which reaches `ResolveScope` is neither `-A` nor absent. `DrawInv` needs
that a `canceled` error means an interrupt, so that `draw` is never reached
with one, and `PaceInv` that outside `wait` the frames are no more than the
ticks taken, because `FramesPaced` alone would not survive the next `Draw`.

For any number of claims, volumes, StatefulSets and changes
(`VolumesAssumption`), in `VolumesProofs`:

| theorem | statement |
|---|---|
| `TypeCorrect` | `Spec => []TypeOK` |
| `UseTrue` | `Spec => []UseTold` |
| `NoDiskMissed` | `Spec => []PictureCloses` |
| `SlotsTrue` | `ZeroBased => (Spec => []SlotTold)` |

`UseInv` says what the lists already read have in common with the histories, so
that the order of the reads does not matter. `DiskInv` carries an idle disk
through the three stages: while `pvc-unused` reads, a claim that still has the
disk had it when the claims were read (`ClaimAnew`: no step of the cluster gives
a claimed volume to another claim); once it has printed, such a claim has a row;
and when `pv-orphan` reads, a disk without one is in a phase it reports, or in
`limbo`. `SlotsTrue` first shows that cutting a name at its last dash undoes the
joining of prefix and ordinal, whatever dashes and digits either holds
(`NameCut`, `NameJoined`), so that `Owner` finds exactly the set a slot belongs
to (`OwnerIs`); `SlotInv` then ties the two lists that were read to the replica
counts the set had. It needs ordinals that start at 0; `VolumesOrdinals` is what
happens without.

For any kinds, namespaces, workloads and denials (`RowsAssumption`), in
`OwnerRowsProofs`:

| theorem | statement |
|---|---|
| `TypeCorrect` | `Spec => []TypeOK` |
| `ErrorsTold` | `Spec => []ErrorsWeighed` |
| `RowsTrue` | `Spec => []RowsExact` |

`ErrorsWeighed` compares the answer with reads that are three steps away from
it. `SettledInv` is the middle: a built-in kind's closure that left no error had
none in any namespace, and one that left an error has it from a read; a custom
kind's closure keeps no error that means absence. `AnswerInv` says the answer
comes after every closure, with an error of theirs or without any.

`RowsTrue` follows a workload from the cluster to the table. `ReadTrue` says of
one read that it has every workload that stayed and none that never was;
`LeftTrue` the same of what a closure left behind, `TableTrue` of the answer,
each with a workload at most once. `VersionInv` ties the fallback to the served
versions: a StrimziPodSet closure that lists `v1beta2` was refused `v1`, so that
version was not served throughout, or the user may not see it.

For any workloads, objects, scope and changes, in `ReferencesProofs`:

| theorem | statement |
|---|---|
| `InUseSafe` | `Spec => []InUseNeverListed` |
| `LeftoversShown` | `Spec => []LeftoversTold` |

`AddedIs` is the completeness of the scan: over the six kinds with a pod spec,
service accounts and ingresses, it gathers a name under a kind exactly when a
field outside `OtherVolumes` holds that name and the API gives the field that
kind. `ScanInv` says a pinned object's kind, once read, gave a referrer that
follows it, so that at the end no object one kind referenced throughout is in `Unused`.
`LeftInv` is the other direction: what nothing ever mentioned is mentioned by
none of the referrers read. From `Unused` to the printed rows is the table:
`PlaceIs`, `SortIs` and `HideIs` say that placing, sorting and hiding rows loses
and adds none but those asked for, for any order and any patterns, so the table
prints a row exactly for what is unused, named and not hidden (`PrintedIs`).
Neither theorem has a hypothesis; that `InUseSafe` is not about the references of
`ReferencesMissed` is in `Follows`.

The verdict commands, for any clusters, changes and orders of the reads. Each
theorem has an inductive invariant of its view alone (`OneView`: a process does
not leave its view), of one pattern: what lasted is still true, what is true now
is in the history, and each list that was read agrees with both over its own
instant. That is why the order of the lists does not matter. The last column is
what the proof needs of the constants, and where the work is.

In `ListViewsProofs`, the views that compare several lists, a list with a clock,
or two ways to write one:

| theorem | statement | from | the hard part |
|---|---|---|---|
| `GapsTold` | `Spec => []GapTold` | `NetInv`, `NetpolWellFormed` | a pod that admits all traffic has an all-open rule, for the far end of IPv4 on an unlisted port gets in by no other (`AnyPeerAdmitted`) |
| `DeniesTold` | `Spec => []DenyTold` | the same | the policies of a scope admit to its pods what all policies do (`ScopeAdmits`) |
| `FaultsTrue`, `OKsTrue` | `Spec => []FaultTrue`, `Spec => []OKTrue` | `SiteInv`, `IngressWellFormed` | the code's match of two hosts is TLS's match of all the names they stand for (`HostMatchesCovers`) |
| `AllBackendsCounted` | `Spec => []BackendsCounted` | `BackendInv`, `SvcBackendsWellFormed` | an endpoint in several slices counts once (`PairsCounted`, `CountsTrue`) |
| `RenewalsTold` | `Spec => []RenewalTold` | `CertInv`, `CertificateWellFormed` | time only wears a bundle out (`CertWear`); the worst of two verdicts is not OK (`CertGraded`) |
| `CausesTrue` | `Spec => []CauseTrue` | `PendingInv`, `PendingWellFormed` | a message names each reason once with its count (`ClausesWritten`), and the code picks one that none outnumbers (`LargestIs`) |
| `FormatsAlwaysAgree` | `Spec => []FormatsAgree` | `StatusInv`, `AutoscalerWellFormed` | see below |
| `PlacementsTold` | `Spec => []PlacementTold` | `PlaceInv`, `PlacementWellFormed` | pods share a key exactly when they are replicas of one workload (`KeyTells`); nobody is bound beyond the ceiling (`PodBecomes`) |
| `ListTypesKept` | `Spec => [](view \in ListViews => TypeOK)` | all of the above | a slot is only taken below the ceiling (`PodBecomes`), and an endpoint cannot be ready and unready all along because the service has a slice that says one of them (`BackendTyped`) |

In `StatusViewsProofs`, the views that judge an object by its status, and the
command line:

| theorem | statement | from | the hard part |
|---|---|---|---|
| `DrainsForetold` | `Spec => []DrainForetold` | `BudgetInv` | an allowance above zero was computed from the counts beside it, and evictions since then only lowered it |
| `BlindnessAlwaysShown` | `Spec => []BlindnessShown` | `ScalerInv`, `HpaWellFormed` | a synced status has an entry per metric of the spec it saw, none if it did not try, and gave up only where a metric was missing (`ScalerSynced`) |
| `VerdictsMeanFinished` | `Spec => []VerdictMeansFinished` | `RolloutInv` | where pods are replaced in place there is never one too many, so as many ready and updated ones as desired are all (`InPlace`) |
| `DeletionsAreGraded` | `Spec => []DeletionsGraded` | `DeletionInv`, `TerminatingWellFormed` | the lists may be as old as the command, the clock is read last (`DatedLater`, `GradesTrue`). Counted from the request, STUCK comes at or after the grace plus `stuckAfter`, and by twice the grace plus `stuckAfter` |
| `ExpansionsTold` | `Spec => []ExpansionTold` | `ResizeInv`, `PvcResizeWellFormed` | a short claim reads as short whatever stage it is at, and `Asked` covers the namespaces of every row |
| `AllWordsRead` | `Spec => []WordsRead` | `LineInv`, `CommandLineWellFormed` | see below |
| `OffersAlwaysAccepted` | `Spec => []OffersAccepted` | `LineInv`, `OfferInv`, `CompletionWellFormed` | see below |
| `StatusTypesKept` | `Spec => [](view \in StatusViews => TypeOK)` | all of the above, `RolloutsWellFormed` | a rollout's controller never counts more available pods than ready ones (`RolloutBounds`); the parser finds and blames only words of the line, across its rounds (`RunPlaced`) |

`ListViews` and `StatusViews` are the two halves of the registry that is
modelled, so the last rows of both tables together are `TypeOK` of every view. Some
parts of it are more than types: no node holds more pods than its ceiling, a
pod that was placed carries no scheduling failure, what was always so is among
what ever was. The parts that speak of constants, such as the fields of a pod,
are assumptions of `Views`, which every run of it evaluates.

`StatusInv` says of the ConfigMap only that it is `past` in one of the two formats; all
of the work is in reading the text back. `Laid` says where everything is in it:
the cluster's sections between its two headings, then each group from its name to
the place where the next one begins, given by a function `ends`. That a flattened
list has such places is `FlattenPlaces`, by the same walk over indices as `Kept`
needs, and `FlattenSingles` takes care of the sections, of which any may be
missing. From `Laid`, the headings are the only ones with their label, the lines
labelled `Name` are the starts of the groups in their order (`NamesListed`), a
group's lines end where its sections do (`NextIs`), and a label occurs in them at
most once, so that the last one wins over nothing (`LaidParsed`). Two adjacent
groups of which the first lacks a section are the case the mutant `GroupLinesCarried`
gets wrong.

`LineInv` compares the parser, wherever it is, with `Roles`, the one pass. What
is set is set by a word before the parser's position that one pass calls a flag
or its value, and no such flag is missing (`FlagsSet`); the positions found are
those of the names and of the words after a `--` so far; and the words since the
round began are flags and values, so that the name which ends the round is the
next one. A round may start anywhere, so nothing before it may have a say in the
words after it (`Unbound`): a `--` at the end of a round has to be what ended the
flags, and not a flag's value. That last one is the hypothesis of `WordsRead`;
without it the code does stop early (below).

`OfferInv` adds to `LineInv` what was offered: each offered word was in `Offers`
of the words before it, and a refusal blames no such word but those excused. The
two read the line differently: `Offers` looks at the word before and the command
chosen so far, `Roles` at everything. So the proof first says what an offered
word can be, a token that is a flag of the command or a global one, a plain word
that names a command, or the value of the flag before it (`OfferIs`,
`FlagOfferedIs`, `ValueOfferedIs`), and that the words before keep the roles
they had when it was offered (`PriorIs`, `FirstChosen`). A namespace is offered
from the `--context` seen so far; `ContextAsked` shows this to be the one the
parser has at the end, where the property says so. `CompletionWellFormed` is
what the tables of `cli.go` and `complete.go` have in common, such as that every
optional token is registered where it is offered.

Two proof attempts failed because the statement was wrong: `RouteInvisible` had
promised one order for all three routes (see `ListFetch` above), and `Secured`
had treated a rule's wildcard host as a name, so that a certificate for one name
under it counted as cover for all of them. Two more brought out what the model
had left open: in `Rollouts`, the pods of a template that comes back, which a
rollback makes count as updated again; in `References`, that no object has the
name that stands for a missing one.

## Only model-checked

- Liveness: `TimeoutEnds`, `CancelEnds`, `InterruptEnds`, which the prover does
  not reach.
- That nothing deadlocks: TLC looks for it in every run.

## Where code and text disagree

1. Ctrl-C during namespace resolution exits 1 with an error
   (`SessionInterrupt`).
2. A Forbidden in one namespace hides a 410 or a timeout in another for an
   optional kind; its rows go missing and the exit code is 0
   (`OwnerRowsShort`).
3. A surging Deployment reads OK in the middle of a rollout
   (`RolloutsMidway`).
4. `pvc-unused` does not read `spec.ordinals.start` (`VolumesOrdinals`).
5. A `--configmap=ns/name` flag counts only for the pod's own namespace
   (`ReferencesMissed`).
6. `unused-config` "collects every reference a pod spec can carry"
   (`unusedconfig.go:169-171`), but `addVolume` passes over
   `azureFile.secretName` and the `secretRef` of `flexVolume`, `iscsi`, `rbd`,
   `cephfs`, `scaleIO` and `storageos`: a Secret that only such a volume names is
   listed as unused (`ReferencesMissed`, whose one trace shows both).

Smaller ones the models also reach, without a run of their own:

- a timeout during namespace resolution or inside a watch frame does not name
  `--request-timeout`;
- an Argo Rollout edited since the last sync reads OK;
- `terminating` compares the time since the `deletionTimestamp`, which already
  includes the grace period, with the grace period: GRACE, "still shutting down
  within the period it was given" (`terminating.go:127`), lasts twice that long,
  and STUCK starts late by it. `DeletionsGraded` has the bounds that do hold;
- PERMABLOCK "never allows a disruption" (`pdb.go:68`), yet the surplus of a
  scale-down in progress can be evicted under it, and with an absolute
  `minAvailable` a pod short is enough to show it, because `expectedPods` counts
  pods. `DrainForetold` excludes the first;
- between an edit that reorders an autoscaler's metrics and its next sync, a
  value is shown under another metric's name (`hpa.go:77`). `BlindnessShown`
  is about a synced spec;
- `<unknown>` is called "the NO-METRICS case seen per metric" (`hpa.go:67-68`),
  but of a workload scaled above the ceiling by hand the autoscaler reads no
  metric, so every cell is `<unknown>` beside MAXED, with metrics that could be
  read. The other way round, NO-METRICS may stand beside a value: one metric
  missing and the others asking for fewer replicas is enough. `BlindnessShown`
  states both;
- "a completion never offers a flag the dispatcher would reject"
  (`cli.go:148-150`), yet it offers `--version` after a
  command, which dispatch refuses there, `--help` after a command exits 1, and
  `completion --dir` is refused without `install`. `OffersAccepted` excludes
  these by name;
- a namespace is completed from the cluster of `--context`, in "both spellings
  the flag package accepts" (`complete.go:107`), but `-context=x`, with one dash,
  which it accepts too, is not seen;
- a flag's value that is `--`, followed by a name, ends flag parsing
  (`cli.go:376`): the name's round looks at the word before it and cannot know
  what it was there for. `WordsRead` excludes it;
- SHRINK (`pvcresize.go:173`) cannot mean that a spec was lowered, which the
  apiserver refuses below the capacity: it is what a rounded-up or a
  statically bound volume reads as. And SC-NO-EXPAND outranks FS-PENDING when only the
  remount is missing, which needs no expansion by the class;
- the fallback for a policy without `policyTypes` in `netpol.go` is never
  reached with a live apiserver, which fills them in;
- `certs` reads MISSING for a secret that exists and is not typed as TLS;
- `pending` compares clauses before it drops their `{key: value}`
  (`pending.go:128`), so three nodes with three different taints count one each,
  and a smaller cause can be called the dominant one;
- `spread` counts pods that have finished, which `max-pods` does not
  (`maxpods.go:28`): a Deployment whose evicted pod's object is still there reads
  SPREAD with all that runs on one node, "all replicas on one node"
  (`spread.go:20`), which is what it is there to flag. `PlacementTold` is about
  workloads without finished pods. A node that joined after the nodes were read,
  or has no zone label yet, makes a spread workload read SPOF-ZONE;
- `trimHash` takes the last segment of any ReplicaSet's name for a pod-template
  hash (`spread.go:126-142`): bare ReplicaSets `web-a` and `web-b` are one
  workload to it, `Deployment/web`, and so are an Argo Rollout and a Deployment
  of one name; the two together may read SPREAD where each is on one node.
  `PlacementWellFormed` excludes them: its ReplicaSets are Deployments';
- `ingress` calls a rule without a host covered by any TLS block, although it
  answers for names no block lists. `Secured` asks for one covered name only.

## Plan

What is left, in this order:

1. `OwnerRows` as a client of `ListAtomic`.
2. What a synthetic pod of `--by-owner` says about its containers, composed with
   a view that reads them (`probes`, `reqlim`).

## Not modelled

`probes`, `restarts`, `qos`, `pods-per-node`, `on-node`, `pvc`, `svc-fqdn` and the plain listings map lists to rows by a rule per row,
keep no state and have no order to get wrong; colour decorates; the secret
browser is terminal input and output; `main.go` exits with `Run`'s code. Outside
the code and taken from how it is used: X.509, YAML and quantity parsing,
`path.Match`, the flag package, the Kubernetes API and its controllers. Of
completion, installing the shim writes one file and is left out.
