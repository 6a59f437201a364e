------------------------ MODULE DevicePlugin_proofs ------------------------
(***************************************************************************)
(* Proofs about the device plugin, for every set of configurations and any *)
(* number of restarts, failures and kills: PluginInv is inductive, so no   *)
(* server is forgotten, no address is in use when it is needed, and a pass *)
(* around which nothing fails is complete.                                 *)
(***************************************************************************)
EXTENDS DevicePlugin, TLAPS

\* createCDMs visits pools of the configuration.
LEMMA SchedulableType ==
  ASSUME NEW conf \in Configs
  PROVE  Schedulable(conf) \subseteq Pools
  BY DEF Schedulable, Pools

\* The last part of PluginInv: a pass that goes smoothly misses no pool.
SmoothPass ==
  smooth /\ pc \in {"next", "dial", "register", "select"} =>
    /\ kubelet = "up"
    /\ OnPool \subseteq files
    /\ \E conf \in Configs :
         ~TooManyShared(conf) /\ registered \cup todo \cup OnPool = Schedulable(conf)

\* The parts of PluginInv that say which pools have what.
Bookkeeping ==
  /\ NoLeftovers
  /\ registered \subseteq servers /\ OnPool \subseteq servers
  /\ pc \in {"dead", "boot", "configure"} => cdms = {}
  /\ pc \in {"next", "dial", "register"} => todo \cap cdms = {}
  /\ pc = "select" => todo = {}

LEMMA InvParts == PluginInv <=> TypeOK /\ Bookkeeping /\ SmoothPass
  BY DEF PluginInv, Bookkeeping, SmoothPass

-----------------------------------------------------------------------------
\* The parts of TypeOK: truth values, counters, and the rest.
Flags == watch \in BOOLEAN /\ byEvent \in BOOLEAN /\ failed \in BOOLEAN /\ smooth \in BOOLEAN

Counters ==
  /\ events \in Nat
  /\ restarts \in 0..MaxKubeletRestarts
  /\ faults \in 0..MaxFaults /\ crashes \in 0..MaxCrashes

Places ==
  /\ kubelet \in {"down", "cleaning", "up"}
  /\ toRemove \subseteq Pools \cup {KubeletSock} /\ files \subseteq Pools \cup {KubeletSock}
  /\ registered \subseteq Pools
  /\ pc \in Running \cup {"dead"}
  /\ todo \subseteq Pools /\ cdms \subseteq Pools /\ servers \subseteq Pools
  /\ cur \in Pools \cup {KubeletSock} /\ (pc \in {"dial", "register"} => cur \in Pools)

LEMMA TypeParts == TypeOK <=> Flags /\ Counters /\ Places
  BY DEF TypeOK, Flags, Counters, Places

\* Every step keeps the truth values,
LEMMA StepFlags ==
  ASSUME Flags, Next
  PROVE  Flags'
<1> USE DEF Flags, passVars
<1>1. ASSUME NEW f \in toRemove, KubeletRemove(f)
      PROVE  Flags'
  BY <1>1 DEF KubeletRemove
<1>2. CASE KubeletStart
  BY <1>2 DEF KubeletStart
<1>3. CASE KubeletListen
  BY <1>3 DEF KubeletListen
<1>4. CASE KubeletStop
  BY <1>4 DEF KubeletStop
<1>5. CASE Boot
  BY <1>5 DEF Boot
<1>6. CASE AddWatch
  BY <1>6 DEF AddWatch
<1>7. CASE Configure
  BY <1>7 DEF Configure, Fault, NoFault, Die
<1>8. CASE NextPool
  BY <1>8 DEF NextPool, Die
<1>9. CASE Dial
  BY <1>9 DEF Dial, Break
<1>10. CASE Register
  BY <1>10 DEF Register, Break, StopServers
<1>11. CASE HandleEvent
  BY <1>11 DEF HandleEvent, StopServers
<1>12. CASE Terminate
  BY <1>12 DEF Terminate, Die
<1>13. CASE Kill
  BY <1>13 DEF Kill, Die
<1>14. QED
  BY <1>1, <1>2, <1>3, <1>4, <1>5, <1>6, <1>7, <1>8, <1>9, <1>10, <1>11, <1>12, <1>13
     DEF Next, KubeletStep, PluginStep

\* the counters,
LEMMA StepCounters ==
  ASSUME Counters, Next
  PROVE  Counters'
<1> USE PluginAssumption DEF Counters, bounds, kubeletVars
<1>1. ASSUME NEW f \in toRemove, KubeletRemove(f)
      PROVE  Counters'
  BY <1>1 DEF KubeletRemove
<1>2. CASE KubeletStart
  BY <1>2 DEF KubeletStart
<1>3. CASE KubeletListen
  BY <1>3 DEF KubeletListen
<1>4. CASE KubeletStop
  BY <1>4 DEF KubeletStop
<1>5. CASE Boot
  BY <1>5 DEF Boot
<1>6. CASE AddWatch
  BY <1>6 DEF AddWatch
<1>7. CASE Configure
  BY <1>7 DEF Configure, Fault, NoFault, Die
<1>8. CASE NextPool
  BY <1>8 DEF NextPool, Die
<1>9. CASE Dial
  BY <1>9 DEF Dial, Break, Fault, NoFault
<1>10. CASE Register
  BY <1>10 DEF Register, Break, StopServers, Fault, NoFault
<1>11. CASE HandleEvent
  BY <1>11 DEF HandleEvent, StopServers
<1>12. CASE Terminate
  BY <1>12 DEF Terminate, Die
<1>13. CASE Kill
  BY <1>13 DEF Kill, Die
<1>14. QED
  BY <1>1, <1>2, <1>3, <1>4, <1>5, <1>6, <1>7, <1>8, <1>9, <1>10, <1>11, <1>12, <1>13
     DEF Next, KubeletStep, PluginStep

\* and the rest.
LEMMA StepPlaces ==
  ASSUME Places, Next
  PROVE  Places'
<1> USE DEF Places, Running, kubeletVars, passVars
<1>1. ASSUME NEW f \in toRemove, KubeletRemove(f)
      PROVE  Places'
  BY <1>1 DEF KubeletRemove
<1>2. CASE KubeletStart
  BY <1>2 DEF KubeletStart
<1>3. CASE KubeletListen
  BY <1>3 DEF KubeletListen
<1>4. CASE KubeletStop
  BY <1>4 DEF KubeletStop
<1>5. CASE Boot
  BY <1>5 DEF Boot
<1>6. CASE AddWatch
  BY <1>6 DEF AddWatch
<1>7. CASE Configure
  BY <1>7, SchedulableType DEF Configure, Fault, NoFault, Die
<1>8. CASE NextPool
  BY <1>8 DEF NextPool, Die
<1>9. CASE Dial
  BY <1>9 DEF Dial, Break
<1>10. CASE Register
  BY <1>10 DEF Register, Break, StopServers
<1>11. CASE HandleEvent
  BY <1>11 DEF HandleEvent, StopServers
<1>12. CASE Terminate
  BY <1>12 DEF Terminate, Die
<1>13. CASE Kill
  BY <1>13 DEF Kill, Die
<1>14. QED
  BY <1>1, <1>2, <1>3, <1>4, <1>5, <1>6, <1>7, <1>8, <1>9, <1>10, <1>11, <1>12, <1>13
     DEF Next, KubeletStep, PluginStep

LEMMA StepType ==
  ASSUME TypeOK, Next
  PROVE  TypeOK'
<1>1. Flags' /\ Counters' /\ Places'
  BY TypeParts, StepFlags, StepCounters, StepPlaces
<1>2. QED
  BY <1>1 DEF TypeOK, Flags, Counters, Places

\* Every step keeps the books.
LEMMA StepBookkeeping ==
  ASSUME TypeOK, Bookkeeping, Next
  PROVE  Bookkeeping'
<1> USE PluginAssumption DEF Bookkeeping, NoLeftovers, OnPool, bounds, kubeletVars, passVars
<1>1. CASE KubeletStep
  BY <1>1 DEF KubeletStep, KubeletStart, KubeletRemove, KubeletListen, KubeletStop
<1>2. CASE Boot \/ AddWatch
  BY <1>2 DEF Boot, AddWatch
<1>3. CASE Configure
  BY <1>3 DEF Configure, Fault, NoFault, Die
<1>4. CASE NextPool
  <2>1. CASE todo = {} /\ pc' = "select" /\ UNCHANGED <<todo, cur, cdms, servers, files, registered>>
    BY <1>4, <2>1 DEF NextPool
  <2>2. ASSUME NEW p \in todo, p \in files, Die, UNCHANGED files
        PROVE  Bookkeeping'
    <3>1. p \in Pools
      BY DEF TypeOK
    <3>2. crashes # 0 /\ crashes' = crashes
      BY <1>4, <2>2, <3>1 DEF NextPool
    <3>3. QED
      BY <2>2, <3>2 DEF Die
  <2>3. ASSUME NEW p \in todo, todo' = todo \ {p}, cur' = p, cdms' = cdms \cup {p},
               servers' = servers \cup {p}, files' = files \cup {p}, pc' = "dial",
               UNCHANGED registered
        PROVE  Bookkeeping'
    BY <1>4, <2>3 DEF NextPool
  <2>4. QED
    BY <1>4, <2>1, <2>2, <2>3 DEF NextPool
<1>5. CASE Dial
  BY <1>5 DEF Dial, Fault, NoFault, Break
<1>6. CASE Register
  <2>1. UNCHANGED <<cdms, crashes, cur>> /\ pc' \in {"next", "select"}
    BY <1>6 DEF Register, Fault, NoFault, Break
  <2>2. CASE registered' = registered \cup ({cur} \cap files) /\ UNCHANGED <<servers, files, todo>> /\ pc' = "next"
    BY <1>6, <2>1, <2>2 DEF Register
  <2>3. CASE StopServers({cur}) /\ Break
    BY <1>6, <2>1, <2>3 DEF Register, StopServers, Break
  <2>4. QED
    BY <1>6, <2>2, <2>3 DEF Register
<1>7. CASE HandleEvent
  BY <1>7 DEF HandleEvent, StopServers
<1>8. CASE Terminate
  BY <1>8 DEF Terminate, Die
<1>9. CASE Kill
  BY <1>9 DEF Kill, Die, TypeOK
<1>10. QED
  BY <1>1, <1>2, <1>3, <1>4, <1>5, <1>6, <1>7, <1>8, <1>9 DEF Next, PluginStep

\* Every step keeps a smooth pass complete, or ends it, or makes it unsmooth.
LEMMA StepSmooth ==
  ASSUME TypeOK, Bookkeeping, SmoothPass, Next
  PROVE  SmoothPass'
<1> USE DEF SmoothPass, OnPool, bounds, kubeletVars, passVars
<1>1. CASE KubeletStep
  BY <1>1 DEF KubeletStep, KubeletStart, KubeletRemove, KubeletListen, KubeletStop
<1>2. CASE Boot \/ AddWatch \/ HandleEvent \/ Terminate \/ Kill
  BY <1>2 DEF Boot, AddWatch, HandleEvent, Terminate, Kill, Die
<1>3. CASE Configure
  BY <1>3 DEF Configure, Fault, NoFault, Die, Bookkeeping, NoLeftovers
<1>4. CASE NextPool
  BY <1>4 DEF NextPool, Die
<1>5. CASE Dial
  BY <1>5 DEF Dial, Break
<1>6. CASE Register
  BY <1>6 DEF Register, Break
<1>7. QED
  BY <1>1, <1>2, <1>3, <1>4, <1>5, <1>6 DEF Next, PluginStep

-----------------------------------------------------------------------------
\* The kubelet and the plugin keep PluginInv through every sequence of restarts,
\* failures, signals and kills.
THEOREM PluginInvariant == Spec => []PluginInv
<1>1. Init => PluginInv
  <2> SUFFICES ASSUME Init PROVE PluginInv
    OBVIOUS
  <2>1. Flags
    BY DEF Init, Flags
  <2>2. Counters /\ Places
    BY PluginAssumption DEF Init, Counters, Places, Running
  <2>3. Bookkeeping /\ SmoothPass
    BY PluginAssumption DEF Init, Bookkeeping, SmoothPass, NoLeftovers, OnPool
  <2>4. QED
    BY <2>1, <2>2, <2>3, TypeParts, InvParts
<1>2. PluginInv /\ [Next]_vars => PluginInv'
  <2>1. PluginInv /\ Next => PluginInv'
    <3> SUFFICES ASSUME PluginInv, Next PROVE PluginInv'
      OBVIOUS
    <3>1. TypeOK' /\ Bookkeeping' /\ SmoothPass'
      BY InvParts, StepType, StepBookkeeping, StepSmooth
    <3>2. QED
      BY <3>1 DEF PluginInv, Bookkeeping, SmoothPass
  <2>2. PluginInv /\ UNCHANGED vars => PluginInv'
    BY DEF vars, kubeletVars, passVars, bounds, PluginInv, TypeOK, NoLeftovers, OnPool
  <2>3. QED
    BY <2>1, <2>2
<1>3. QED
  BY <1>1, <1>2, PTL DEF Spec

\* As long as the process was never killed, Start never finds its address in use.
THEOREM AddressAlwaysFree == Spec => []AddressFree
<1>1. PluginInv => AddressFree
  BY DEF PluginInv, TypeOK, NoLeftovers, AddressFree
<1>2. QED
  BY <1>1, PluginInvariant, PTL

\* A pass around which nothing fails leaves every schedulable pool registered.
THEOREM SmoothPassComplete == Spec => []CompletePass
<1>1. PluginInv => CompletePass
  BY DEF PluginInv, OnPool, CompletePass
<1>2. QED
  BY <1>1, PluginInvariant, PTL
=============================================================================
