---------------------------- MODULE DevicePlugin ----------------------------
(***************************************************************************)
(* The device plugin of one node (cmd/cpusets-device-plugin): a gRPC       *)
(* server with a unix socket for every schedulable pool, registered with   *)
(* the kubelet, and all of it done again when the kubelet's own socket     *)
(* changes.  One action is one interaction of the main goroutine with the  *)
(* file system, the API server or the kubelet.                             *)
(*                                                                         *)
(* The kubelet is external: when it starts it lists the plugin directory,  *)
(* removes what it listed, file by file, and then listens on its socket.   *)
(***************************************************************************)
EXTENDS Naturals, FiniteSets, CpusetCalc

CONSTANTS
  Configs,             \* the pool configurations, as sets of pool names
  MatchedSockets,      \* the pools whose socket the FILE_MATCH glob matches
  MaxKubeletRestarts,  \* bound: times the kubelet stops
  MaxFaults,           \* bound: transient failures of external calls
  MaxCrashes           \* bound: times the plugin process is killed

Pools == UNION Configs

\* Name of the kubelet's own socket; pools' sockets go by the pool's name.
KubeletSock == <<"kubelet.sock">>

ASSUME PluginAssumption ==
  /\ KubeletSock \notin Pools
  /\ MatchedSockets \subseteq Pools
  /\ MaxKubeletRestarts \in Nat /\ MaxFaults \in Nat /\ MaxCrashes \in Nat

VARIABLES
  kubelet,     \* "down", "cleaning" (its directory), "up" (listening)
  toRemove,    \* files the kubelet listed and has still to remove
  registered,  \* pools whose devices the kubelet advertises
  files,       \* socket files in the plugin directory
  watch,       \* whether the kubelet's socket file is the one being watched
  events,      \* file events main has not received
  pc,          \* where main is; "dead": there is no process
  byEvent,     \* whether an event caused the current, or last, pass
  todo,        \* pools createCDMs has not visited
  cur,         \* the pool it is working on
  cdms,        \* pools with a cpuDeviceManager
  servers,     \* pools with a listening gRPC server in this process
  failed,      \* whether a call of the current, or last, pass failed
  smooth,      \* whether nothing went wrong around it, either
  restarts, faults, crashes

kubeletVars == <<kubelet, toRemove, restarts>>
passVars    == <<byEvent, todo, cur, failed>>
bounds      == <<faults, crashes>>
vars == <<kubeletVars, registered, files, watch, events, pc, passVars, cdms,
          servers, smooth, bounds>>

Init ==
  /\ kubelet = "down"
  /\ toRemove = {}
  /\ registered = {}
  /\ files = {}
  /\ watch = FALSE
  /\ events = 0
  /\ pc = "dead"
  /\ byEvent = FALSE
  /\ todo = {}
  /\ cur = KubeletSock
  /\ cdms = {}
  /\ servers = {}
  /\ failed = FALSE
  /\ smooth = FALSE
  /\ restarts = 0
  /\ faults = 0
  /\ crashes = 0

-----------------------------------------------------------------------------
(* The kubelet (external).                                                  *)

KubeletStart ==
  /\ kubelet = "down"
  /\ kubelet' = "cleaning"
  /\ toRemove' = files
  /\ UNCHANGED <<registered, files, watch, events, pc, passVars, cdms, servers, smooth,
                 restarts, bounds>>

\* A watched file that is unlinked gives a Chmod and a Remove event, and the
\* watch is gone with it.
KubeletRemove(f) ==
  /\ kubelet = "cleaning"
  /\ f \in toRemove
  /\ toRemove' = toRemove \ {f}
  /\ files' = files \ {f}
  /\ IF f = KubeletSock /\ watch
     THEN watch' = FALSE /\ events' = events + 2
     ELSE UNCHANGED <<watch, events>>
  /\ UNCHANGED <<kubelet, restarts, registered, pc, passVars, cdms, servers, smooth, bounds>>

KubeletListen ==
  /\ kubelet = "cleaning"
  /\ toRemove = {}
  /\ kubelet' = "up"
  /\ files' = files \cup {KubeletSock}
  /\ UNCHANGED <<toRemove, restarts, registered, watch, events, pc, passVars, cdms, servers,
                 smooth, bounds>>

KubeletStop ==
  /\ kubelet = "up"
  /\ restarts < MaxKubeletRestarts
  /\ restarts' = restarts + 1
  /\ kubelet' = "down"
  /\ registered' = {}
  /\ smooth' = FALSE
  /\ UNCHANGED <<toRemove, files, watch, events, pc, passVars, cdms, servers, bounds>>

KubeletStep ==
  KubeletStart \/ (\E f \in toRemove : KubeletRemove(f)) \/ KubeletListen \/ KubeletStop

-----------------------------------------------------------------------------
(* The plugin process.                                                      *)

Fault   == faults < MaxFaults /\ faults' = faults + 1 /\ UNCHANGED crashes
NoFault == UNCHANGED bounds

\* The process ends.  The socket files of its servers stay where they are.
Die ==
  /\ pc' = "dead"
  /\ cdms' = {}
  /\ servers' = {}
  /\ registered' = {}
  /\ watch' = FALSE
  /\ events' = 0

\* Mutant of StopServers: the socket files stay.
StopServersOnly(pools) ==
  /\ servers' = servers \ pools
  /\ registered' = registered \ pools
  /\ UNCHANGED files

\* cpuDeviceManager.Stop and cleanup: closing the listener unlinks its socket,
\* cleanup removes it if it is still there, and the kubelet sees the stream end.
StopServers(pools) ==
  /\ servers' = servers \ pools
  /\ registered' = registered \ pools
  /\ files' = files \ pools

\* The kubelet restarts a container that ended; main puts a watch on the file
\* that is the kubelet's socket now, and ignores the error if there is none.
Boot ==
  /\ pc = "dead"
  /\ kubelet = "up"
  /\ pc' = "boot"
  /\ UNCHANGED <<kubeletVars, registered, files, watch, events, passVars, cdms, servers,
                 smooth, bounds>>

AddWatch ==
  /\ pc = "boot"
  /\ \/ KubeletSock \in files /\ watch' = TRUE
     \/ KubeletSock \notin files /\ watch' = FALSE
  /\ byEvent' = FALSE
  /\ pc' = "configure"
  /\ UNCHANGED <<kubeletVars, registered, files, events, todo, cur, failed, cdms, servers,
                 smooth, bounds>>

\* validatePools
TooManyShared(conf) == Cardinality({p \in conf : DeterminePoolType(p) = SharedPoolID}) > 1

\* createCDMs makes no manager for a default pool.
Schedulable(conf) == {p \in conf : DeterminePoolType(p) # DefaultPoolID}

\* createPluginsForPools up to createCDMs: removes the matched files, asks for
\* the configuration, goes on with an empty one if that fails, and returns the
\* error of validatePools, which is a panic unless the process is starting.
Configure ==
  /\ pc = "configure"
  /\ files' = files \ MatchedSockets
  /\ \/ /\ NoFault
        /\ \E conf \in Configs :
             IF TooManyShared(conf)
             THEN /\ todo' = {} /\ failed' = TRUE /\ smooth' = FALSE
                  /\ IF byEvent THEN Die
                     ELSE pc' = "select" /\ UNCHANGED <<cdms, servers, registered, watch, events>>
             ELSE /\ todo' = Schedulable(conf) /\ failed' = FALSE
                  /\ smooth' = (kubelet = "up")
                  /\ pc' = "next"
                  /\ UNCHANGED <<cdms, servers, registered, watch, events>>
     \/ /\ Fault
        /\ todo' = {} /\ failed' = TRUE /\ smooth' = FALSE
        /\ pc' = "next"
        /\ UNCHANGED <<cdms, servers, registered, watch, events>>
  /\ UNCHANGED <<kubeletVars, byEvent, cur>>

\* The loop of createCDMs ends, or takes the next pool in map order and Start
\* listens on its socket.  If the file is there already net.Listen fails, the
\* error is logged only, and Serve panics on the missing listener.
NextPool ==
  /\ pc = "next"
  /\ \/ /\ todo = {}
        /\ pc' = "select"
        /\ UNCHANGED <<todo, cur, cdms, servers, files, registered, watch, events>>
     \/ \E p \in todo :
          /\ todo' = todo \ {p}
          /\ cur' = p
          /\ IF p \in files THEN Die /\ UNCHANGED files
             ELSE /\ cdms' = cdms \cup {p}
                  /\ servers' = servers \cup {p}
                  /\ files' = files \cup {p}
                  /\ pc' = "dial"
                  /\ UNCHANGED <<registered, watch, events>>
  /\ UNCHANGED <<kubeletVars, byEvent, failed, smooth, bounds>>

\* A failure breaks the loop; the variable that held the error was declared in
\* the loop's body, so createCDMs returns nil.
Break ==
  /\ todo' = {}
  /\ failed' = TRUE
  /\ smooth' = FALSE
  /\ pc' = "select"

\* Start's blocking connection to its own socket.
Dial ==
  /\ pc = "dial"
  /\ \/ cur \in files /\ NoFault /\ pc' = "register" /\ UNCHANGED <<todo, failed, smooth>>
     \/ (IF cur \in files THEN Fault ELSE NoFault) /\ Break
  /\ UNCHANGED <<kubeletVars, registered, files, watch, events, byEvent, cur, cdms, servers>>

\* Mutant of Register: the loop ends after the first registration.
RegisterOne ==
  /\ pc = "register"
  /\ kubelet = "up" /\ NoFault
  /\ registered' = registered \cup ({cur} \cap files)
  /\ pc' = "select"
  /\ UNCHANGED <<todo, failed, smooth, servers, files>>
  /\ UNCHANGED <<kubeletVars, watch, events, byEvent, cur, cdms>>

\* The kubelet connects to the endpoint after it has answered.
Register ==
  /\ pc = "register"
  /\ \/ /\ kubelet = "up" /\ NoFault
        /\ registered' = registered \cup ({cur} \cap files)
        /\ pc' = "next"
        /\ UNCHANGED <<todo, failed, smooth, servers, files>>
     \/ /\ IF kubelet = "up" THEN Fault ELSE NoFault
        /\ StopServers({cur})
        /\ Break
  /\ UNCHANGED <<kubeletVars, watch, events, byEvent, cur, cdms>>

\* Mutant of HandleEvent: the old managers are forgotten, not stopped.
HandleEventForgetting ==
  /\ pc = "select"
  /\ events > 0
  /\ events' = events - 1
  /\ cdms' = {}
  /\ byEvent' = TRUE
  /\ smooth' = FALSE
  /\ pc' = "configure"
  /\ UNCHANGED <<kubeletVars, registered, servers, files, watch, todo, cur, failed, bounds>>

\* main's select: an event of the kubelet's socket, whatever it says.
HandleEvent ==
  /\ pc = "select"
  /\ events > 0
  /\ events' = events - 1
  /\ StopServers(cdms)
  /\ cdms' = {}
  /\ byEvent' = TRUE
  /\ smooth' = FALSE
  /\ pc' = "configure"
  /\ UNCHANGED <<kubeletVars, watch, todo, cur, failed, bounds>>

\* main's select: SIGTERM, SIGQUIT or SIGINT.
Terminate ==
  /\ pc = "select"
  /\ Die
  /\ files' = files \ cdms
  /\ smooth' = FALSE
  /\ UNCHANGED <<kubeletVars, passVars, bounds>>

Kill ==
  /\ pc # "dead"
  /\ crashes < MaxCrashes
  /\ crashes' = crashes + 1
  /\ Die
  /\ smooth' = FALSE
  /\ UNCHANGED <<kubeletVars, files, passVars, faults>>

PluginStep ==
  \/ Boot \/ AddWatch \/ Configure \/ NextPool \/ Dial \/ Register
  \/ HandleEvent \/ Terminate \/ Kill

Next == KubeletStep \/ PluginStep

Spec == Init /\ [][Next]_vars

-----------------------------------------------------------------------------
(* What must hold.                                                          *)

Running == {"boot", "configure", "next", "dial", "register", "select"}

\* Every variable has its type; only a pass that is under way works on a pool.
TypeOK ==
  /\ kubelet \in {"down", "cleaning", "up"}
  /\ toRemove \subseteq Pools \cup {KubeletSock} /\ files \subseteq Pools \cup {KubeletSock}
  /\ registered \subseteq Pools
  /\ watch \in BOOLEAN /\ byEvent \in BOOLEAN /\ failed \in BOOLEAN /\ smooth \in BOOLEAN
  /\ events \in Nat
  /\ pc \in Running \cup {"dead"}
  /\ todo \subseteq Pools /\ cdms \subseteq Pools /\ servers \subseteq Pools
  /\ cur \in Pools \cup {KubeletSock} /\ (pc \in {"dial", "register"} => cur \in Pools)
  /\ restarts \in 0..MaxKubeletRestarts
  /\ faults \in 0..MaxFaults /\ crashes \in 0..MaxCrashes

\* Through any sequence of restarted and broken passes no server is ever
\* forgotten: each has a manager that main will stop, and unless the process
\* was killed a pool's socket file is always that of a running server
\* (cpuDeviceManager.Stop, cleanup, the loops over cdms in main).
NoLeftovers ==
  /\ servers \subseteq cdms
  /\ crashes = 0 => files \cap Pools \subseteq servers

\* So Start never finds its address in use, which would be a panic, however
\* often the kubelet or the plugin restarted, unless the process was killed.
AddressFree ==
  pc = "next" /\ crashes = 0 => todo \cap files = {}

\* A pass around which nothing failed, and during and since which the kubelet
\* was listening, leaves the kubelet with every schedulable pool of the
\* configuration (createCDMs), whatever happened before it.
CompletePass ==
  pc = "select" /\ smooth =>
    \E conf \in Configs : ~TooManyShared(conf) /\ registered = Schedulable(conf)

\* Why these hold, as an inductive invariant: what the kubelet advertises is
\* served, a process that begins a pass has no manager, a pool not yet visited
\* has none, and a pass that is going smoothly misses no pool.
OnPool == IF pc \in {"dial", "register"} THEN {cur} ELSE {}

PluginInv ==
  /\ TypeOK
  /\ NoLeftovers
  /\ registered \subseteq servers /\ OnPool \subseteq servers
  /\ pc \in {"dead", "boot", "configure"} => cdms = {}
  /\ pc \in {"next", "dial", "register"} => todo \cap cdms = {}
  /\ pc = "select" => todo = {}
  /\ smooth /\ pc \in {"next", "dial", "register", "select"} =>
       /\ kubelet = "up"
       /\ OnPool \subseteq files
       /\ \E conf \in Configs :
            ~TooManyShared(conf) /\ registered \cup todo \cup OnPool = Schedulable(conf)

-----------------------------------------------------------------------------
(* What the code says and does not do.                                      *)

\* main: panic("Failed to restart device plugin").  So main never waits for the
\* next event after a pass caused by an event in which a call failed.
FailedRestartPanics ==
  pc = "select" /\ byEvent => ~failed
=============================================================================
