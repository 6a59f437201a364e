# cpusets-controller: a TLA+ model, its checks and its proofs

This directory is a verification development of the repository's own program:
the node-local controller that writes `cpuset.cpus` of container cgroups, the
computation of these sets, the device plugin, the admission webhook and the
process starter. The modules are translated from the Go code; `PROJECT.json` maps every definition to the lines it stands for.

## 1. The system

Three processes (and one program that runs inside application containers)
cooperate to give some containers CPUs of their own.

| Part | Source | State it keeps | Operations |
|---|---|---|---|
| Cpuset controller | `pkg/controller`, `cmd/cpusets-controller` | work queue of Pod snapshots, informer cache, 100 worker goroutines, one reconciliation goroutine; it writes `cpuset.cpus` files and one Pod annotation | `PodAdded`, `processNextWorkItem` → `handlePods` → `shouldPodBeHandled`, `adjustContainerSets`; `reconcileCpusets` every tick; `WatchErrorHandler`, `Stop` |
| Cpuset computation | `determineCorrectCpuset`, `pkg/types/pool.go`, `pkg/topology`, `pkg/checkpoint` | none (reads the pool configuration, the kubelet's checkpoint and `lscpu`) | pool selection by name, hyperthread expansion, checkpoint lookup |
| API client | `pkg/client` | one clientset | `RefreshPod`, `SetPodAnnotation`, `GetAllPodsByNodeName`, `GetNodeLabels` |
| CPU device plugin | `cmd/cpusets-device-plugin` | one gRPC server and socket per pool (`cdms`) | `createPluginsForPools`, `Start`, `Register`, `ListAndWatch`, `Allocate`, `Stop`; restart on an event of the kubelet's socket |
| Admission webhook | `cmd/webhook`, `pkg/types/annotation.go` | none | `mutatePods`: validate the CPU annotation, set limits, environment, volumes |
| Process starter | `third_party/forked/nokia/CPU-Pooler/cmd/process-starter` | none | waits until the container's cgroup equals the environment it was given, then pins and starts processes |
| Deployment | `hack/deployment` | none | the DaemonSets, their ClusterRoles, a sample pool configuration |

`third_party/forked/nokia/CPU-Pooler` is the original from which the
repository's own packages were derived. Of its Go packages only the process
starter is modelled, which exists nowhere else; its README is the fullest
statement of what the system promises and is quoted as documentation. Two commands
import the forked `types` and `checkpoint` packages but call functions with the
signatures of the repository's own `pkg/types` and `pkg/topology`; the modules
take the repository's own packages.

How the parts interact. The *webhook* edits a Pod before it exists. The
*scheduler* binds it to a node by the devices the *device plugin* advertised to
the kubelet; the *kubelet* allocates devices, records them in its checkpoint
file, and creates cgroups that hold all the CPUs of the node. The *controller*
hears of the Pod (informer, only ADD), polls the API server until every
container has an ID, reads the checkpoint, computes every container's set and
writes it, writes the default pool to the Pod's infra (sandbox) container, and
annotates the Pod. Every tick its reconciliation goroutine lists the node's Pods
and repairs containers whose set is still the full one. The process starter
polls its own cgroup until the controller has done this.

What is hard about it:

- the controller's goroutines share the cgroup files and no lock: what a worker
  or the reconciler computed may be written after containers restarted, Pods
  were deleted, and their devices were given to others;
- the controller identifies Pods by UID in some calls (checkpoint, cgroup
  directories) and by name in others (refresh, annotate), and names are reused;
- a worker holds a copy of the Pod; a restart makes its container IDs stale;
- a failed step repeats the whole adjustment, up to 150 times, then gives up
  silently; only the reconciler is left to help, and it recognises only one
  special value, `0..NumCPU-1`;
- the process may die at any step and lose the queue;
- the device plugin must register again whenever the kubelet restarts, and learns
  of it only by events of a socket file that the kubelet removes first and
  creates later;
- the result of `determineCorrectCpuset` may depend on Go's map order.

What makes the parts correct:

- *computation*: a container gets exactly what it requested, whatever the map
  order (`ExactlyEntitled`);
- *controller, safety*: CPUs given exclusively to a container are in nobody
  else's set (`ExclusiveIsolation`); a container's set is its own, the initial
  one, or the default pool, never another's (`WithinEntitlement`); the annotation
  is earned (`PinnedBeforeAnnotation`, `AnnotatedMeansPinned`); what was set is
  not undone, and all of this step by step (`ImplementsPromise`);
- *controller, liveness*: every container that keeps running gets its set
  (`EventuallyPinned`, which fails after restarts), and in the end its application
  runs on it (`ApplicationStarts`); workers become free again (`ServiceReturns`);
- *device plugin*: no server is forgotten and no address is in use when a pass needs
  it (`PluginInv`, `AddressFree`), a pass around which nothing failed registers every
  pool (`CompletePass`), a failed one is reported (`FailedRestartPanics`, which fails);
- *device plugin and controller*: they compute the same CPUs for a container
  (`EnvironmentAgrees`);
- *webhook*: its patches apply, except to Pods that lack a list which it takes for
  granted (`PatchesApply`);
  after any number of calls the process starter has all it needs, once
  (`StarterReady`), and a stored Pod is not changed again (`UpdateChangesNothing`);
  the CFS limit leaves room for all CPUs the container gets (`QuotaCovers`);
- *webhook, device plugin, controller and process starter*: the set that the starter
  waits for is the one the controller computes (`WaitsForItsCpuset`), and it has
  the CPUs for all processes of a valid annotation without negative numbers
  (`StarterPinsAll`);
- *process starter*: an application runs on its own set from its first instruction,
  and keeps it (`AffinityKept`), and it does run (`ApplicationStarts`).

## 2. Modules

| Module | Models | Notes |
|---|---|---|
| `CpusetCalc` | `pool.go`, `topology.go`, `checkpoint.go`, lines 298-368 of `controller.go`, the device plugin's `Allocate` and `ListAndWatch`, what the process starter expects | pure operators; each returns the set of results the code may produce |
| `PoolNames` | the names of pools, and what a container's environment holds | which configurations and requests leave the code's searches by prefix and substring no choice |
| `DetermineCpuset` | the loop of `determineCorrectCpuset`, one action per visited request | checked against `CpusetCalc`'s closed form and against the entitlement |
| `CpusetController` | the controller and the cluster around it | one action per interaction of a goroutine with the outside |
| `DevicePlugin` | the main goroutine of the device plugin, with the kubelet that it registers with | one action per interaction with files, API server or kubelet |
| `CpusetPromise` | (no code) | the abstract specification of the controller: what cgroups may be given, and when a Pod may be annotated |
| `CpusetRefinement` | (no code) | the refinement mapping: `CpusetController` implements `CpusetPromise` |
| `ProcessStarter` | the process starter of containers with exclusive CPUs, and the kubelet that restarts what it ends | composed with `CpusetController`, whose cpuset files it polls |
| `WebhookCalc` | `mutatePods` and what it calls, `annotation.go` | pure operators: requests, validity of the annotation, limits, JSON patches |
| `Admission` | a Pod's way through the webhook to a node | composes `WebhookCalc` with `CpusetCalc`: configuration, plugin, controller and starter on that node |
| `CpusetIsolation` | (no code) | the assumption on the configuration and the inductive invariant of isolation |
| `CpusetEntitlement` | (no code) | the assumptions on names, and the inductive invariants of `WithinEntitlement`, `PinnedBeforeAnnotation` and `AnnotatedMeansPinned` |
| `AdmissionInvariant` | (no code) | the assumptions on Pods, pools and threads, and the inductive invariant of `Admission` |
| `CpusetController_proofs`, `CpusetEntitlement_proofs`, `CpusetRefinement_proofs`, `ProcessStarter_proofs`, `PoolNames_proofs`, `DetermineCpuset_proofs`, `DevicePlugin_proofs`, `Admission_proofs` | (no code) | the proofs |
| `MCCpusetController`, `MCProcessStarter`, `MCDetermineCpuset`, `MCDevicePlugin`, `MCAdmission` | (no code) | values of the constants for TLC |

### State of `CpusetController` and what it stands for

`phase`, `status`, `annotated` are what the API server has; `inc`, `dirs`,
`cpus` what the container runtime and cgroupfs have; `checkpoint` what the
kubelet recorded. `up`, `known`, `queue`, `worker`, `rec` are the process: the
informer's cache, `workQueue`, the local variables of each worker (`pc` is where
it stands: `refresh` in the polling loop of `shouldPodBeHandled`, `determine` and
`apply` in the loop of `adjustContainerSets`, `infra` and `annotate` after it)
and of the reconciliation goroutine (`leaves`, `read`, `determine`, `write`).
A cgroup directory is `<<p, i, k>>`: the `k`-th incarnation of container `i` of
Pod `p` (a container ID); container 0 is the infra container.

Each step of a goroutine is one interaction with the outside together with all
the local computation around it. Goroutines share nothing but the outside (and
the queue), so a finer grain would add no behaviour. The actions follow the
code's early returns:

- `WorkerGet`: `processNextWorkItem`, dropping finished Pods. `WorkerRefresh`: one
  round of the wait for the Pod to be ready; a failing refresh drops it; after
  the last round the copy of the ADD event is used (`Accepted`), which is dropped
  unless it is of this node and complete.
- `WorkerDetermine`, `WorkerApply`, `WorkerInfra`, `WorkerAnnotate`: the four outside
  calls of `adjustContainerSets`. A failure of any of them is `Retry`: start over
  with the same copy, or give up. `WorkerApply` writes the directory named by
  the copy's ID; `WorkerInfra` any directory of the Pod that is not one of the
  copy's IDs, because `getInfraContainerPath` takes whichever such name comes
  last; `WorkerAnnotate` patches by name.
- `RecList`, `RecLeaves`, `RecRead`, `RecDetermine`, `RecWrite`: one pass of
  `reconcileCpusets`.
- `Crash`, `Run`: the process dies (a signal; `WatchErrorHandler`'s `os.Exit`, a
  panic) and the DaemonSet starts it again. The five seconds between
  `WatchErrorHandler`'s `Stop` and its `os.Exit`, in which workers and the
  reconciler go on but new Pods are dropped, are steps before `Crash`: a Pod
  dropped then is one whose `PodAdded` has not happened when the process dies.
- `CreatePod`, `BindPod`, `StartContainer`, `ExitContainer`, `ReportStatus`, `EndPod` are
  external: the kubelet, the container runtime and the API server as far as the
  controller sees them. The device manager gives no device to two live Pods and
  takes back those of ended Pods when it allocates next.

### State of `DevicePlugin` and what it stands for

`cdms` is the global of that name, `servers` the running gRPC servers among them,
`todo` and `cur` the loop of `createCDMs`, `pc` where the main goroutine is,
`watch` and `events` the fsnotify watcher. `files` are the sockets in the kubelet's
plugin directory, `kubelet`, `toRemove` and `registered` the kubelet. `byEvent`,
`failed` and `smooth` describe the current or last pass of
`createPluginsForPools`: whether an event caused it, whether one of its calls failed,
and whether, besides, the kubelet has listened since it began and no process died.

- `Boot`, `AddWatch`, `Configure` are `main` and `createPluginsForPools` up to
  `createCDMs`; `Configure` covers `validatePools`, whose error is a panic only
  when the pass was caused by an event, and a configuration that could not be
  read, with which the code goes on as an empty one.
- `NextPool` is an iteration of `createCDMs` up to `net.Listen`; an address in use
  ends the process. `Dial` is `Start`'s blocking connection, `Register` the call
  of the kubelet. A failure is `Break`.
- `HandleEvent` and `Terminate` are the two cases of `main`'s `select`; both stop
  every manager in `cdms`, which removes its socket file.
- The kubelet is external. When it starts it lists its plugin directory, removes
  what it found, file by file, and then listens. Unlinking a watched file gives
  two events (Chmod, Remove) and ends the watch.

### `CpusetPromise` and its refinement

The abstract state is what each cgroup was `given` ("none", "inherited", "own",
"default") and the annotated Pods. Its steps say what the controller may ever do:
`Provide` a container its own set, give the `Default` pool to the infra container or,
once it was restarted, to a container (finding 1), and `Annotate` a Pod whose
containers that never were restarted have theirs. `CpusetRefinement` reads `given`
off the cpuset files and allocations; a file that is none of the four is "wrong",
to which no abstract step leads. Beyond the invariants this says that no step takes a
set back, that nothing writes into a removed directory, and that an infra container
never gets a container's CPUs.

### State of `ProcessStarter` and what it stands for

`polls[d]` is the loop variable of `pollCPUSetCompletion` in the container of cgroup
`d`; `started` holds the containers whose starter has executed the application.
`Poll` is one round: `StartApplication` when the cgroup's cpuset is the one in the
environment, `Wait` otherwise, `GiveUp` (`os.Exit(1)`) after the last. A container that
ended is started again in a new cgroup by the kubelet (`StartContainer`, restartPolicy
Always). The environment was written when the kubelet allocated the container's
devices, and the checkpoint keeps that allocation for as long as the Pod lives;
`Expected` computes it from there.

### State of `Admission` and what it stands for

`pod` is the object as the API server has it, `patches` the rest of the webhook's JSON
patch (one list for each container and a last one for the volumes, as `mutatePods` writes
them; the API server works through them in this order), `submitted` what the Pod would be without the webhook. The webhook keeps
nothing; each call (`Refuse`, `Mutate`) computes from `pod`, the flag `quota` and the pool
configurations, which it may fail to read (`readable`). The API server applies one
operation after the other (`ApplyPatch`) and refuses the Pod if one appends to a list that
is not there (stage "broken"); it lets other webhooks change the Pod and calls
again (`Edit`), stores a Pod whose mounts are of its volumes (`MountsValid`) and binds it to
a node whose devices suffice (`Place`),
and calls the webhook again for updates (`Update`, `FinishUpdate`), which must not
change containers. `conf` is the configuration that `DeterminePoolConfig` selects there
and `grant` the kubelet's allocation; from the two, `CpusetsOf` is what the controller
computes and `StarterEnv` what the plugin puts into the environment.

## 3. Runs

| Run | Question | Bounds |
|---|---|---|
| `isolation` | Are exclusive CPUs exclusive, is the invariant of the proof true, does the annotation tell the truth? | two Pods, one exclusive pool of two CPUs with siblings, two workers, no restarts, no failures |
| `names` | Do stale copies and reused names put a wrong set anywhere? | two Pods of one name, two workers, one failure |
| `restarts` | Is every behaviour under container restarts and a controller that dies one of `CpusetPromise`? | one Pod of two containers, one restart each, one failure, one death |
| `service` | With process starters, restarts and deaths, and where annotating always fails: does every application start, on its own set, and do workers come back? | one Pod with an exclusive and a shared request, two restarts, one death, one exit of the container by itself or of a starter for which the controller was too late, `MaxPolls = 2`, `PatchAllowed = FALSE` |
| `determine` | Does the loop give exactly the entitlement, for every map order? | 2 exclusive pools, a shared and a default pool, 8 CPUs, every subset of requests with at most one exclusive pool, every allocation, both policies of each pool |
| `device_plugin` | Does any sequence of kubelet restarts, failures and deaths make the plugin forget a server, need an address that is in use, or miss a pool? | two configurations (three pools, and one that `validatePools` refuses), two kubelet restarts, one failure, one kill |
| `webhook` | Do patches apply, are repeated calls harmless, and does what webhook, plugin, controller and starter compute for one container fit together? | 2820 initial states, for each value of `cfs-quotas`: 1120 ordinary Pods of one container (10 kinds of requests, with and without environment, command, arguments, 14 annotations, 3 of them with negative numbers), Pods without mounts or volumes or with the webhook's own names (`OddPods`), a pool requested with quantity 0 and a negative number for it; sidecars, one without mounts, and variables added by others, up to three calls, two configurations and five kinds of nodes, two NUMA nodes |
| `restart_race` | finding 1 | one Pod, one restart, no failure |
| `name_reuse` | finding 2 | two Pods of one name, one worker |
| `adjacent_threads` | finding 3 | threads of a core numbered side by side |
| `kubelet_restart` | finding 4 | one kubelet restart, nothing else |
| `quota_shared` | finding 5 | one Pod, one container with both kinds of CPUs |

Why the bounds suffice. The interesting cases need two users of one device
(two Pods), two goroutines with work in progress on the same or on different
Pods (two workers, or a worker and the reconciler), one stale copy (one
restart), one failure between any two steps, one death at any step.
`MaxRetryCount = 2` (150 in `const.go`) and `MaxPolls = 2` (30 in the starter) are the smallest values for which a retry
and giving up both happen. The exclusive pool of the instance holds one thread
of each of two cores (CPUs 1 and 2, siblings 4 and 5), so hyperthread expansion
matters. `MaxRestarts`, `MaxFaults`, `MaxCrashes` bound the environment only. In `service` a
starter's exit uses up a restart only if the controller set a wrong set, which needs a
restart before it; exits before any set was written are as late as the environment
makes them and count against `MaxExits`. Two restarts are enough for an
application to start in every behaviour, and fewer are not: the liveness property
would fail if the bound stopped it. In `webhook` three calls are a creation, a
reinvocation or an update, and an update after that.
A cpuset directory's initial value `Inherited` is the full set, as created by
the kubelet under its root cgroup. For the device plugin two restarts let a pass be
interrupted by the second one, with the files of the first pass among those
that the kubelet lists or is still removing.

`CHECK_DEADLOCK FALSE` is used for `DetermineCpuset`, whose function returns, and for
`Admission`, where a Pod ends refused, unschedulable, or after its last call.
The controller's runs check deadlock (the reconciler never stops), and so do the
device plugin's (a dead process is started again, a waiting one can be
terminated).

Fairness (`FairSpec`). Weak fairness of every worker, of the reconciler
(the Go scheduler runs every runnable goroutine; the loop's ticker never stops),
of `PodAdded` (the informer delivers what it lists), of `ReportStatus` (the
kubelet reports status again and again) and of `Run` (the DaemonSet restarts the
process). Nothing is assumed of Pods: they need not be bound, nor their
containers start or end. No strong fairness is needed: faults and deaths are bounded,
so a fair goroutine gets through; where a call can never succeed
(`PatchAllowed = FALSE`) liveness is claimed only of what does not need it.
`FairSpecWithStarters` adds that the starters poll and that the kubelet starts an
ended container again: the webhook's containers are those of ordinary Pods, whose
restart policy is Always. It assumes nothing of an application's end.

### Findings

1. `restart_race`: a worker that holds a copy of the Pod older than a container
   restart takes the new container's directory for the infra container's and
   gives it the default pool. The reconciler repairs only a cpuset that is exactly
   `0..NumCPU-1`, so the container stays on the default pool. The comment at
   `controller.go:160` promises the proper value. `WithinEntitlement`, which holds,
   says this is the worst that restarts do: a wrong set is always the default one.
2. `name_reuse`: `SetPodAnnotation` patches by name; a Pod recreated under the name
   gets the annotation of its predecessor's adjustment. Combined with restarts
   and two workers, `PinnedBeforeAnnotation` fails as well, which is why the
   runs vary one or the other.
3. `adjacent_threads`: `AddHTSiblingsToCPUSet` looks CPU numbers up in a map keyed by
   core IDs, right only if CPU `n` is the first thread of core `n`.

4. `kubelet_restart`: `createCDMs` assigns the errors of `Start` and `Register` to
   variables declared in the loop's body (`device-plugin.go:251`, `:256`) and returns
   the outer one, which is nil. The event that starts the pass after a kubelet
   restart is the removal of `kubelet.sock`, so registering fails unless the kubelet
   listens by then. `main` then takes the restart for done instead of
   `panic("Failed to restart device plugin")` (line 336); at most one more event is
   queued, and the watch is gone with the removed file. Nothing more happens until
   somebody restarts the plugin. `CompletePass` says what remains true. A failure to
   read the pool configuration is lost in the same way (line 279).

`AddressFree` excludes processes that were killed: the clean-up at
`device-plugin.go:269` uses `FILE_MATCH`, in the DaemonSet a pattern of configuration
files, which matches no `cpudp_*.sock`, so a killed process leaves socket files and
its successors panic until the kubelet is restarted.

5. `quota_shared`: with `cfs-quotas=shared`, described as "CPUSets doesn't provision
   quotas for containers using exclusive pools" (`webhook.go:475`), `setRequestLimit`
   gives a container that requests exclusive and shared CPUs the limit of its shared
   request alone (`webhook.go:144`), which throttles its exclusive CPUs.

What mitigates finding 1: a container with a process starter that was given the
default pool never sees the set it waits for, its starter exits, and the kubelet's
new container is repaired by the reconciler (`ApplicationStarts`). Containers without
a starter have no such way out, and neither has one whose application runs already
(`AffinityKept`).

Limits of the webhook's properties, each a place where the code does not do
what one might expect; the properties say so by an exception or a precondition:

- an annotation may ask for twice the CPUs requested whatever the pool's policy
  (`webhook.go:119`); on a single-threaded pool its starter exits for want of CPUs
  (precondition of `StarterPinsAll`, as is one entry per container: of several the
  webhook validates the last and the starter runs the first);
- a multi-threaded pool's container gets the siblings as well, but its limit counts the
  requested CPUs only (precondition of `QuotaCovers`);
- the limit of a mixed container depends on whether the configurations can be read
  and, where two pools are requested in the same quantity, on a map's order
  (`webhook.go:159`); a later call may come to another limit, and the API server then
  refuses the update (exception of `UpdateChangesNothing`). The controller's annotation is such an
  update where the webhook is registered for UPDATE, as in the fork's deployment;
- a pool requested with quantity 0 counts for the controller (its key is there) and not
  for the webhook: the starter waits for a set without the shared pool, in vain
  (precondition `SharesCounted` of `WaitsForItsCpuset` and `QuotaCovers`; the instances
  request such quantities);
- `patchCPULimit` "replaces" limits and requests of the resource `cpu` that most containers
  do not have; `evanphx/json-patch` (vendored; the API server's library) takes that
  for setting them where the object that holds the key exists, and so does `SetTo`;
- the patches of mounts and volumes append to both lists without looking whether they
  exist (`webhook.go:242`, `:249`, `:291`, `:295`). They do with a mounted service account
  token; a Pod with `automountServiceAccountToken: false` and no volumes of its own is
  refused by the API server, and so is one to which another webhook adds a container
  without mounts before the last call (`ListsThere`; `PatchesApply` says that these, and
  the Pods of the next item, are the only ones whose patches fail);
- users' own variables `CPU_POOLS` and `CONTAINER_NAME`, their volumes and mounts `podinfo`
  and `hostbin`, and a command that is the starter's, are taken for the webhook's
  (precondition `NamesFree` of all properties but `PatchesApply`). With a mount `podinfo`
  `patchContainerForPinning` does nothing (`webhook.go:231`), but `mutatePods` takes the
  environment for patched, and where there was none the patch of `CPU_POOLS` fails;
- the number of CPUs of a process is an `int`, of which `Decode` refuses 0 only
  (`annotation.go:154`), and `validateAnnotation` compares sums: 5 and -4 exclusive CPUs are
  accepted where one is requested, and the starter stops at "Not enough cpus free"
  (precondition `NaturalCounts` of `StarterPinsAll`). With a negative sum for a pool that is
  requested with quantity 0 the starter comes into a container without CPUs, for which it
  would wait (precondition of `WaitsForItsCpuset`). The instances have such annotations,
  and the other properties hold with them;
- any one label decides for a configuration (`pool.go:134`), the fork's README (line
  126) speaks of the config "that matches the value of nodeSelector";
- the forked starter reads the annotation `nokia.k8s.io/cpus`, the webhook `cmss.cn/cpus`.

Further deviations are described by inputs of `MCDetermineCpuset` that break
`ExactlyEntitled` when they take the place of `AdjacentThreads` in
`adjacent_threads.cfg`: a container that requests two exclusive pools gets the
CPUs of the one visited last (`TwoExclusives`, `controller.go:308`); the policy
of `exclusive10` may decide for `exclusive1` (`PrefixNames`, `pool.go:66`); an
exclusive pool with `shared` in its name is taken for shared (`SharedInName`,
`controller.go:305`). `determine` shows that outside of these the function is
exact, and agrees with what the device plugin, by different code, puts into the
container's environment (`EnvironmentAgrees`). The repository's README (line 77) says that state changes of Pods, such as restarts,
trigger the informer's handler; only `AddFunc` is registered (`controller.go:91`),
and restarted containers are the reconciler's alone.

## 4. Proofs

Proved by TLAPS, for all values of the constants, including any number of Pods,
containers, workers, restarts, failures and pools:

- `TypeCorrect == Spec => []TypeOK` (`CpusetController_proofs`), from
  `ConstantsAssumption`. `TypeOK` is itself inductive: it says of a worker's record
  that it names an existing container of its Pod in every state but idle, and
  of the retry counter that it stays below `MaxRetryCount`.
- `IsolationInvariant == Spec => []IsolationInv` and
  `Isolation == Spec => []ExclusiveIsolation` (same module), from
  `ConstantsAssumption` and `IsolationAssumption`: the shared and default pools share no
  core with an exclusive pool, exclusive pools share none with each other, and
  an exclusive pool lists one thread of each core. The sample configuration
  satisfies it and nothing in the code checks it.

The argument. `ExclusiveIsolation` is not inductive: a worker may hold a set
computed from an allocation that is gone by the time it writes. What saves it is
that the write goes to a directory of the Pod for which the set was computed,
and that directory is gone as well. So the invariant says: allocations of live
Pods are disjoint (`AllocationsSound`); directories exist only for bound Pods
(`DirsLive`); every set in a directory is the initial one or within `Reach`, the
most its container may be given (`SetsWithinReach`); and every set computed and
not yet written is within the `Reach` of its container *or its Pod has ended*
(`PendingWithinReach`). `ReachGrows` shows that the reach of a bound Pod's container
never shrinks, `EndedStays` that an ended Pod stays ended; `ClusterKeepsInv`,
`WorkerKeepsInv`, `RecKeepsInv` and `OthersKeepInv` are the steps, and
`InvImpliesIsolation` concludes by `IsolationAssumption`.

- `PluginInvariant == Spec => []PluginInv`, `AddressAlwaysFree == Spec => []AddressFree`
  and `SmoothPassComplete == Spec => []CompletePass` (`DevicePlugin_proofs`), from
  `PluginAssumption`, for every set of configurations and any number of restarts,
  failures and kills. `AddressFree` and `CompletePass` speak of one place in the
  code each and are not inductive; `PluginInv` adds the bookkeeping between them
  (running servers have managers, sockets have servers, pools to be visited have
  no manager) and, for a pass that goes smoothly, that registered pools, the one
  being worked on and those to be visited are together the schedulable ones.
  Types, bookkeeping and smooth passes are kept by every step separately
  (`StepType`, `StepBookkeeping`, `StepSmooth`).

- `OneCpuset` (`PoolNames_proofs`): for unambiguous names (`UnambiguousNames`,
  `ServableRequests`) `determineCorrectCpuset` has exactly one result, and which. The
  fork's README asks for most of it (lines 114, 115 and 130): the type is a prefix of the
  name, and there is one shared pool. What it does not say is that the words "shared" and
  "exclusive" occur nowhere else in names, that the default pool is one and called
  `default...`, as the controller expects, that no exclusive pool's name is a prefix of
  another's, and that a container requests one exclusive pool at most. What happens
  without the first, the third and the last is shown by inputs of `MCDetermineCpuset`
  (see Findings).
- `LoopInvariant == Spec => []LoopInv` and `LoopCorrect == Spec => []ReturnsDetermined`
  (`DetermineCpuset_proofs`), without any assumption: `LoopInv` says that the two local variables are what the closed form
  gives for the requests visited so far. With unambiguous names `Agreement` shows
  `EnvironmentAgrees`; if, besides, the pools list CPUs with the numbers of their cores
  ("For exclusive pools only configure physical CPU core IDs", line 119 of that README), `Exactness` shows
  `ExactlyEntitled`. `SoundInputsAssumption`, which TLC evaluates, says that the inputs
  of the run satisfy all that the two theorems assume.
- `EntitlementInvariant == Spec => []EntitlementInv` and
  `Entitlement == Spec => []WithinEntitlement` (`CpusetEntitlement_proofs`), from
  `NamesAssumption` (names as above) and `DefaultPoolAssumption` besides those of
  isolation. Names of Pods may be reused.
- `AnnotationInductive == Spec => []AnnotationInv` and
  `AnnotationsEarned == Spec => []PinnedBeforeAnnotation`, if `OneCopyAtATime`: names of
  Pods are unique, or there is one worker, or no container restarts. Where none
  holds, two workers may work on one Pod with copies of different age, one of
  them takes the other's container for the infra container (findings 1 and 2
  together), and the property is false.
- `AnnotationsTrue == Spec => []AnnotatedMeansPinned`, if names are unique and no
  container restarts. Both are needed: findings 1 and 2.
- `Implements == Spec => ImplementsPromise` (`CpusetRefinement_proofs`), if names are
  unique, from `InheritedAssumption`: a new cgroup has more than the default pool, and the
  default pool and the shared pool are disjoint, so that a cgroup that was set can be
  told from one that was not, and its own set from the default one.
- `StarterInvariant == SpecWithStarters => [](NodeInv /\ StarterInv)`,
  `NodeWithStarters == SpecWithStarters => [](ExclusiveIsolation /\ WithinEntitlement)` and
  `Affinity == SpecWithStarters => []AffinityKept` (`ProcessStarter_proofs`), without any
  assumption on names of Pods.

The arguments. `WithinEntitlement`, like isolation, depends on sets that were computed
and not yet written; here they must be exact. So `EntitlementInv` says that such a set
is its container's own, or its Pod has ended (`PendingEntitled`), and, since a set
computed too early would be the default pool, that nobody works on a Pod before
it is bound (`CopiesAdmitted`), although the copy in the queue may be of any age.
`CorrectIsEntitled` reduces the code's loops to the entitlement (by `OneCpuset`),
`AllocationStays` shows that a bound Pod's allocation does not change. What a worker does
is described once, without the code's detail (`Moved`, `WorkerMoves`,
`WorkerWritesWhat`), and all proofs about workers start from there.

`PinnedBeforeAnnotation` needs `AnnotationInv`: only the last incarnation of a container
has a directory (`DirsLatest`), no copy knows of an incarnation that is still to come
(`CopiesBehind`), and the containers that a worker is done with have their sets
(`DonePinned`). The hard step is another worker's write to the infra container: it
hits a container of this worker's copy only if the two copies differ
(`CopiesAgree`), which `OneCopyAtATime` excludes (`OneCopy`). If names are unique, the reason is
`HeldOnce`, an invariant of its own: queue and workers hold a Pod once, since its ADD is
delivered once in the life of a process.

For the refinement, `Gifts` and `OneGift` say when a step of the cgroups is one of the
promise's. Each step of the controller writes one directory at most, and gives it its
container's own set or the default pool; the latter only an infra container or one that
was restarted (`CandidatesRestarted`). `Sandboxes` holds that every bound Pod has its
infra directory, as the promise does of a Pod that is annotated.

For the starters, `ExpectedIsEntitled` shows that the set a starter waits for, which the
device plugin computed, is the one the controller writes; then a late write either
repeats it or is the infra container's. A starter's exit keeps the controller's
invariants (`LeavingKeepsInv`), so everything proved of the controller holds beside
starters as well.

### The webhook

- `AdmissionInvariant == Spec => []AdmissionInv` (`Admission_proofs`), and from it all six
  properties of `Admission`: `EveryPatchApplies` (`PatchesApply`), `StartersAreReady`
  (`StarterReady`), `UpdatesChangeNothing` (`UpdateChangesNothing`),
  `StartersWaitForTheirCpusets` (`WaitsForItsCpuset`), `QuotasCover` (`QuotaCovers`) and
  `StartersPinAll` (`StarterPinsAll`): for Pods of any number of containers, requests,
  variables, mounts and processes, and any number of calls, sidecars and configurations.

What they assume, in `AdmissionInvariant`, and where it comes from:

- `PodsAssumption`: names of containers are unique, which the API server sees to, an
  annotation is a list of entries whose numbers of CPUs are any integers, and a container
  requests one exclusive pool at most, as for `OneCpuset`. Nothing is assumed of mounts,
  volumes and names; where a property needs it, it is the property that says so
  (`NamesFree`, `NaturalCounts`, see Findings);
- `ConfsAssumption`: unambiguous names of pools, as for `OneCpuset`;
- `ThreadsAssumption`: no thread belongs to two cores, and a multi-threaded pool lists CPUs
  with the numbers of their cores, each of which has a second thread outside the pool.
  Only `StartersPinAll` needs it: it is what makes twice the requested CPUs available.

The instance of `webhook` satisfies all three, which TLC evaluates, and TLC checks
`AdmissionInv` there.

The argument. None of the six is inductive. `AdmissionInv` has two parts. `ListsInv` holds
of every Pod and is what `PatchesApply` follows from: while patches are applied, all that are
left find the lists that they append to, or one that an earlier patch makes, exactly if
the submitted Pod has what `ListsThere` asks for (`PatchesFindLists`). `MutatePodsFind` shows
this of the patches of a call, `PatchFills` what one patch fills, and between the
calls it is enough that the requests and the need for pinning stay what they were
(`SameNeeds`). `OrdinaryInv` holds of Pods that are free of the webhook's names and have
the lists. Others may add to a Pod what it has not had, so that the second part is
guarded by what `submitted` is *now*; `OrdinaryBefore` shows that this was so before every
step as well. `OrdinaryInv` describes a container by what
it was submitted as and by the patches that are still to come (`PatchedBut`): each pending
patch is one that `mutatePods` may make for the *submitted* container
(`PossiblePatch`), the container has everything but the kinds of patches that are pending
(`FieldsPatched`), and a pending patch of the environment appends only where there is one or
where an earlier pending patch will make one (`EnvReady`); since a list is in the order in which
`mutatePods` writes it (`InOrder`), its head always applies and the rest stays right
(`HeadPatched`). A call finds every container either as submitted or with all its patches
(`ContainersPatched`); `ContainerList` shows that its list is in both cases what is missing,
and for that the requests and the need for pinning must be read off the patched Pod
as they were off the submitted one (`SameRequests`, `PinnedAsSubmitted`). What others add to `pod`
is added to `submitted` as well and disturbs nothing that was patched (`EditKeeps`).
For stored Pods, `StoredStays` says that all that a later call can have pending is a limit
(`OnlyItsLimit`), and `OneLimit` says when there is only one that it can compute.

On the node, `Granted` relates the allocation to the submitted limits; a request that fits
in total fits for each container (`PartOfTotal`). `EnvironmentRead` computes what the starter
reads through `CPU_POOLS`, and `ToldIsOwn` that it is what `determineCorrectCpuset`
returns, which is a single set by `OneCpuset`: the checkpoint's translation by NUMA nodes
loses no device (`DevicesRecorded`). `SharedLimitCovers` bounds the shared pool by the largest
one of any configuration. For `StartersPinAll`, `SiblingsDouble` shows that siblings at least
double a multi-threaded allocation, and `ProcessesFit` that a valid annotation without negative numbers asks for twice the
requested CPUs at most. `AnnotatedIsPooled` shows that a container with an annotation requests
something of a pool, unless the annotation has a negative number, so that there is
a set for its starter to wait for.

The sums. Requests and processes are added up by `SumFunction`, a fold over a finite set
that takes the elements in an arbitrary, fixed order. What is needed of it are inductions over
finite sets. The library's induction theorems have an operator as a parameter and cannot be
used here; but `WFMin` (every nonempty set has a minimal element in a well-founded order) has
none, and neither has the well-foundedness of the strict subsets of finite sets. From
the two follow `MinimalSet` and `SetInduction`, an induction that ranges over a *set* of
finite sets, which is enough for facts about sums: `SumsExist` and `SumsAgree` show that the
fold has a value and that sums over a set and over a part of it agree on the part,
`SumEquation` that therefore the chosen element may be taken out, and `SumOfNats` that any
other may be as well; `SumAtLeast`, `SumOfZeros`, `SumOfOne` are the uses. `Max` of a finite set, on which `Processes` and `MaxSharedPoolLimits` rest, is
`MaxOfSet`.

### Proofs and runs

`IsolationInv`, `LoopInv`, `EntitlementInv`, `AnnotationInv`, `StarterInv`, `PluginInv` and
`AdmissionInv` are checked by TLC as well, in the runs `isolation`, `determine`, `names`,
`restarts`, `service`, `device_plugin` and `webhook`, and the instances satisfy the assumptions,
which TLC evaluates there. Every safety property of a passing run is stated by a theorem.

Only model-checked: liveness and everything under fairness (`ApplicationStarts`,
`ServiceReturns`), which is out of this prover's reach.

## 5. What is not modelled

- Nested cgroups: a container has one directory. (`applyCpusetToContainer` writes
  to the last directory found below the Pod's, the reconciler to the first leaf.)
- A Pod status that reports some containers of a new incarnation and not others.
- Parsing of YAML, JSON and `lscpu`'s output, and a failing `lscpu` (`topology.go:82`).
  The controller's and the device plugin's state machines start from the selected
  configuration; the selection is in `CpusetCalc` and used by `Admission`.
- A change of the configuration: the controller reads it once (`cpusets.go:54`), the
  plugin on every pass (`device-plugin.go:278`), so they may disagree until both
  have been restarted.
- Of the webhook: TLS, HTTP and the decoding of reviews; quantities that are not whole
  numbers; quoting inside the JSON it builds. Of the process starter: the life of the
  background processes, and the CPUs that `setAffinity` picks, except their number.
- The order of the stop channel's receivers (see `Crash`).
- Broken streams of `ListAndWatch`, SIGHUP (logged only), and kubelets that
  remove their whole plugin directory's contents in one step or none of it.
- Two shared pools of which the first has no CPUs (`validatePools` accepts them).
- Logging, error texts, client construction, deployment manifests.

## 6. Plan

The components that keep state or decide something are modelled, and what the runs check
of their safety is proved. What is left, in this order:

1. A configuration that changes while controller and plugin run, shared by
   `CpusetController` and `DevicePlugin`.
2. A failing or empty `lscpu`, which leaves the topology empty in the controller or in
   the plugin and not in the other.

New questions join an existing run where the instance is the same.
