--------------------------- MODULE ProcessStarter ---------------------------
(***************************************************************************)
(* The process starter (CPU-Pooler/cmd/process-starter) in the containers  *)
(* that ask for exclusive CPUs, with the controller and the kubelet around *)
(* it.  It compares the cgroup's cpuset with the CPUs that the device      *)
(* plugin put into the environment; when they are the same it pins and     *)
(* starts the application, after a number of polls it exits, and the       *)
(* kubelet starts the container again in a new cgroup.                     *)
(***************************************************************************)
EXTENDS CpusetController, PoolNames

CONSTANTS
  MaxPolls,  \* 30 in process_starter.go
  MaxExits   \* bound: containers that end before the controller did its part

ASSUME StarterAssumption == MaxPolls \in Nat \ {0} /\ MaxExits \in Nat

VARIABLES
  polls,    \* per cgroup directory: unsuccessful polls of its starter, 0 without one
  started,  \* the directories whose starter has started the application
  exits     \* ends of containers so far, those of started ones included

starterVars == <<polls, started, exits>>
allVars     == <<vars, starterVars>>

InitStarters ==
  /\ Init
  /\ polls = [d \in Dirs |-> 0]
  /\ started = {}
  /\ exits = 0

-----------------------------------------------------------------------------

\* The directories of the containers into which the webhook puts the starter, their
\* Pods having a command for it to start, or an annotation.
StarterDirs ==
  {d \in Dirs : d[2] # 0 /\ \E n \in Requested(d[1], d[2]) : DeterminePoolType(n) = ExclusivePoolID}

\* Mutant of Expected: the siblings are not in the environment.
ExpectedNoSiblings(d) ==
  ExpectedCpus([n \in {m \in Requested(d[1], d[2]) : DeterminePoolType(m) # DefaultPoolID} |->
    AllocateNoSiblings(PoolConfig, HTMap, n, AllocatedDevices(checkpoint, d[1], d[2], n))])

\* pollCPUSetCompletion: the CPUs in EXCLUSIVE_CPUS and SHARED_CPUS.
Expected(d) ==
  ExpectedCpus(EnvironmentOf(PoolConfig, HTMap, checkpoint, d[1], d[2], Requested(d[1], d[2])))

CpusAreRight(d) == Expected(d) # {} /\ cpus[d] = Expected(d)

\* pollCPUSetCompletion returns, and main executes the application.
StartApplication(d) ==
  /\ started' = started \cup {d}
  /\ polls' = [polls EXCEPT ![d] = 0]
  /\ UNCHANGED <<vars, exits>>

Wait(d) ==
  /\ polls[d] + 1 < MaxPolls
  /\ polls' = [polls EXCEPT ![d] = @ + 1]
  /\ UNCHANGED <<vars, started, exits>>

\* os.Exit(1) after the last poll.  The bound counts the exits of containers whose
\* cpuset nobody has set yet: the controller is that late only so often.
GiveUp(d) ==
  /\ polls[d] + 1 = MaxPolls
  /\ IF cpus[d] = Inherited THEN exits < MaxExits /\ exits' = exits + 1 ELSE UNCHANGED exits
  /\ RemoveDirs({d})
  /\ polls' = [polls EXCEPT ![d] = 0]
  /\ UNCHANGED <<apiVars, inc, checkpoint, procVars, faults, crashes, started>>

\* One round of pollCPUSetCompletion in the container of d.
Poll(d) ==
  /\ d \in dirs \ started
  /\ IF CpusAreRight(d) THEN StartApplication(d) ELSE Wait(d) \/ GiveUp(d)

\* A step of the controller or the cluster; a container's end counts.
AroundStarters ==
  /\ Next
  /\ IF dirs \subseteq dirs' \/ phase' # phase
     THEN UNCHANGED exits
     ELSE exits < MaxExits /\ exits' = exits + 1
  /\ polls' = [d \in Dirs |-> IF d \in dirs' THEN polls[d] ELSE 0]
  /\ UNCHANGED started

NextWithStarters == AroundStarters \/ \E d \in StarterDirs : Poll(d)

SpecWithStarters == InitStarters /\ [][NextWithStarters]_allVars

\* The starters poll (each a bounded number of times), and the kubelet restarts what ended (restartPolicy Always).
FairSpecWithStarters ==
  /\ SpecWithStarters
  /\ Fairness
  /\ WF_allVars(\E d \in StarterDirs : Poll(d))
  /\ WF_vars(\E p \in Pods : \E i \in Containers(p) : inc[p][i] > 0 /\ StartContainer(p, i))

-----------------------------------------------------------------------------

\* webhook.go: "If cpuset is set after the application has started, the cpu affinity
\* setting by application will be overwritten by the cpuset."  From the moment the
\* starter starts it, an application runs on its own cpuset, and no write of a
\* worker or the reconciler that was under way then changes it; except that a
\* container that had been restarted may be mistaken for the infra container.
AffinityKept ==
  \A d \in started \cap dirs :
    cpus[d] = Expected(d) \/ (d[3] > 1 /\ cpus[d] = DefaultCpus)

\* The inductive invariant behind AffinityKept: a directory whose starter has started
\* the application is of no incarnation that is still to come, and what the starter
\* saw there stays the container's set.
StarterInv ==
  \A d \in started :
    /\ d \in StarterDirs
    /\ d[3] <= inc[d[1]][d[2]]
    /\ d \in dirs => Expected(d) # {}
    /\ d \in dirs => cpus[d] = Expected(d) \/ (d[3] > 1 /\ cpus[d] = DefaultCpus)

\* In the end the application runs, for as long as its Pod does: if the controller
\* sets a wrong cpuset because of a restart, which it never repairs, the starter
\* gives up and the new container gets its own, even if the controller fails,
\* dies, and can annotate no Pod.
ApplicationStarts ==
  \A p \in LocalPods : \A i \in Containers(p) :
    LET d == <<p, i, inc[p][i]>>
    IN  d \in StarterDirs ~> phase[p] # "bound" \/ d \in started
=============================================================================
