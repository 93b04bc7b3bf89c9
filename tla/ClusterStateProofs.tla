------------------------- MODULE ClusterStateProofs -------------------------
(***************************************************************************)
(* Theorems about ClusterState.tla, for all hosts, pool sizes and          *)
(* connections.  Types hold however many requests overlap.  The rest needs *)
(* OneAtATime: two requests at once break the state file (README), so one  *)
(* thread at a time runs a handler or the shutdown, and the invariant says *)
(* what that thread has done so far.                                       *)
(***************************************************************************)
EXTENDS ClusterState, TLAPS

Label == {"idle", "handle", "provision", "teardown", "record", "drain",
          "marshal", "open", "write", "rename", "ok", "error"}

\* What a save writes: a host that is not known has no entry.
Saved == {f \in Whole : \A h \in Hosts \ f.hosts : f.size[h] = 0 /\ f.warm[h] = {}}

MemOK == /\ daemon \in {"up", "stopping", "stopped", "dead"}
         /\ known \subseteq Hosts /\ size \in SizeMap /\ warm \in WarmSets
         /\ pools \subseteq Hosts /\ width \in SizeMap /\ ready \in WarmSets
         /\ \A h \in Hosts \ known : size[h] = 0 /\ warm[h] = {}
         /\ \A h \in Hosts : ready[h] \subseteq SlotsOf(width[h])

ThreadOK == /\ pc \in [Threads -> Label]
            /\ op \in [Connections -> Ops] /\ arg \in [Connections -> Hosts]
            /\ left \in [Threads -> SUBSET Hosts]
            /\ failures \in [Connections -> BOOLEAN]
            /\ fd \in [Threads -> {"none", "tmp", "path", "gone"}]

FileOK == /\ data \in [Threads -> Saved \cup {NoFile}]
          /\ disk \in Saved \cup {Partial, NoFile}
          /\ tmp \in Saved \cup {Partial, NoFile}

HistOK == /\ acked \in [Hosts -> {"in", "out", "open"}]
          /\ rest \in WarmSets

\* cluster.provision goes through the hosts of the configuration.
LoopOK == \A c \in Connections : pc[c] = "provision" => left[c] \subseteq Configured

Types == MemOK /\ ThreadOK /\ FileOK /\ HistOK /\ LoopOK

-----------------------------------------------------------------------------
\* Steps by what they touch.

\* The steps of a connection that change neither memory nor files.
Talks(c) == \/ \E o \in Ops, h \in Hosts : Request(c, o, h)
            \/ Refused(c) \/ HostResume(c) \/ ClusterProvision(c) \/ ClusterTeardown(c)
            \/ LoopEnds(c) \/ Answer(c)

\* The steps of a connection that change memory.
Changes(c) == \/ HostAdd(c) \/ HostRemove(c) \/ HostDrain(c)
              \/ \E h \in Hosts : ProvisionHost(c, h) \/ TeardownHost(c, h)

\* The steps of the shutdown before it saves.
Stops == Terminate \/ (\E h \in Hosts : Record(h)) \/ RecordEnds \/ DrainAll

\* Every step is one of these.
LEMMA StepKinds ==
  ASSUME [Next]_vars
  PROVE  \/ Start \/ Crash \/ Exit \/ Stops \/ UNCHANGED vars
         \/ \E c \in Connections : Talks(c) \/ Changes(c)
         \/ \E t \in Threads : Save(t)
  BY DEF Next, Handler, Talks, Changes, Stops

-----------------------------------------------------------------------------
\* Types.

LEMMA SizesFacts ==
  /\ AddedSize \in Sizes
  /\ \A h \in Configured : PoolSize[h] \in Sizes
<1>1. PICK g \in Hosts : TRUE
  BY ClusterAssumption
<1>2. AddedSize \in Sizes
  BY <1>1 DEF Sizes, SizesOf
<1>3. ASSUME NEW h \in Configured PROVE PoolSize[h] \in Sizes
  <2>1. h \in Hosts /\ PoolSize[h] \in SizesOf(h)
    BY ClusterAssumption DEF SizesOf
  <2> QED
    BY <2>1 DEF Sizes
<1> QED
  BY <1>2, <1>3

\* What an entry is replaced by, and what is left when it is deleted.
LEMMA EntryStep ==
  ASSUME MemOK, NEW h \in Hosts,
         Forget(h) \/ \E n \in Sizes : Enter(h, n)
  PROVE  /\ known' \subseteq Hosts /\ size' \in SizeMap /\ warm' \in WarmSets
         /\ \A g \in Hosts \ known' : size'[g] = 0 /\ warm'[g] = {}
<1> USE DEF MemOK, WarmSets, SizeMap
<1>1. CASE Forget(h)
  BY <1>1 DEF Forget
<1>2. ASSUME NEW n \in Sizes, Enter(h, n)
      PROVE  /\ known' \subseteq Hosts /\ size' \in SizeMap /\ warm' \in WarmSets
             /\ \A g \in Hosts \ known' : size'[g] = 0 /\ warm'[g] = {}
  BY <1>2 DEF Enter
<1> QED
  BY <1>1, <1>2

\* A pool that is drained keeps its size.
LEMMA DrainStep ==
  ASSUME MemOK, NEW h \in Hosts, DrainPool(h)
  PROVE  /\ pools' \subseteq Hosts /\ width' \in SizeMap /\ ready' \in WarmSets
         /\ \A g \in Hosts : ready'[g] \subseteq SlotsOf(width'[g])
<1> USE DEF MemOK, WarmSets, DrainPool
<1>1. /\ pools' = pools /\ width' = width /\ ready' \in WarmSets
      /\ \A g \in Hosts : ready'[g] = {} \/ ready'[g] = ready[g]
  OBVIOUS
<1> QED
  BY <1>1

LEMMA MemStep == ASSUME Types, [Next]_vars PROVE MemOK'
<1>0. MemOK /\ ThreadOK /\ FileOK /\ LoopOK
  BY DEF Types
<1>u. ASSUME UNCHANGED <<daemon, memVars>> PROVE MemOK'
  BY <1>0, <1>u DEF MemOK, memVars, entryVars, poolVars
<1>1. CASE Start
  <2>1. /\ known' \subseteq Hosts /\ size' \in SizeMap /\ warm' \in WarmSets
        /\ \A h \in Hosts \ known' : size'[h] = 0 /\ warm'[h] = {}
    <3>1. CASE disk.form = "whole"
      <4>1. disk \in Saved
        BY <1>0, <3>1 DEF FileOK, Partial, NoFile
      <4> QED
        BY <1>1, <3>1, <4>1 DEF Start, Load, Saved, Whole
    <3>2. CASE disk.form # "whole"
      BY <1>1, <3>2 DEF Start, Load, Zero, Cold, SizeMap, WarmSets
    <3> QED
      BY <3>1, <3>2
  <2>2. /\ daemon' = "up" /\ pools' = known' /\ width' = size'
        /\ ready' = [h \in Hosts |-> warm'[h] \cap SlotsOf(width'[h])]
    BY <1>1 DEF Start
  <2>3. ready' \in WarmSets
    BY <2>1, <2>2 DEF WarmSets
  <2>4. \A h \in Hosts : ready'[h] \subseteq SlotsOf(width'[h])
    BY <2>2
  <2> QED
    BY <2>1, <2>2, <2>3, <2>4 DEF MemOK
<1>2. CASE Crash \/ Exit
  <2>1. /\ daemon' \in {"stopped", "dead"} /\ known' = {} /\ pools' = {}
        /\ size' = Zero /\ width' = Zero /\ warm' = Cold /\ ready' = Cold
    BY <1>2 DEF Crash, Exit, Ends
  <2> QED
    BY <2>1 DEF MemOK, Zero, Cold, SizeMap, WarmSets
<1>3. CASE Stops
  <2>1. CASE Terminate
    BY <1>0, <2>1 DEF Terminate, MemOK, memVars, entryVars, poolVars
  <2>2. ASSUME NEW h \in Hosts, Record(h) PROVE MemOK'
    <3>1. /\ UNCHANGED <<daemon, known, size, pools, width, ready>>
          /\ warm' = IF h \in known THEN [warm EXCEPT ![h] = ready[h]] ELSE warm
      BY <2>2 DEF Record, poolVars
    <3>2. warm' \in WarmSets /\ \A g \in Hosts \ known : warm'[g] = warm[g]
      BY <1>0, <3>1 DEF MemOK, WarmSets
    <3> QED
      BY <1>0, <3>1, <3>2 DEF MemOK
  <2>3. CASE RecordEnds
    BY <1>u, <2>3 DEF RecordEnds
  <2>4. CASE DrainAll
    <3>1. /\ UNCHANGED <<daemon, known, size, warm, pools, width>>
          /\ ready' \in WarmSets
          /\ \A g \in Hosts : ready'[g] = {} \/ ready'[g] = ready[g]
      BY <1>0, <2>4 DEF DrainAll, entryVars, MemOK, WarmSets
    <3> QED
      BY <1>0, <3>1 DEF MemOK
  <2> QED
    BY <1>3, <2>1, <2>2, <2>3, <2>4 DEF Stops
<1>4. CASE UNCHANGED vars
  BY <1>u, <1>4 DEF vars
<1>5. ASSUME NEW c \in Connections, Talks(c) PROVE MemOK'
  BY <1>u, <1>5 DEF Talks, Request, Refused, HostResume, ClusterProvision, ClusterTeardown,
       LoopEnds, Answer
<1>6. ASSUME NEW c \in Connections, Changes(c) PROVE MemOK'
  <2>0. arg[c] \in Hosts
    BY <1>0 DEF ThreadOK
  <2>1. CASE HostAdd(c)
    <3>1. UNCHANGED <<daemon, pools, width, ready>> /\ Enter(arg[c], AddedSize)
      BY <2>1 DEF HostAdd, poolVars
    <3>2. /\ known' \subseteq Hosts /\ size' \in SizeMap /\ warm' \in WarmSets
          /\ \A g \in Hosts \ known' : size'[g] = 0 /\ warm'[g] = {}
      BY <1>0, <2>0, <3>1, EntryStep, SizesFacts
    <3> QED
      BY <1>0, <3>1, <3>2 DEF MemOK
  <2>2. CASE HostRemove(c)
    <3>1. daemon' = daemon /\ DrainPool(arg[c]) /\ Forget(arg[c])
      BY <2>2 DEF HostRemove
    <3> QED
      BY <1>0, <2>0, <3>1, EntryStep, DrainStep DEF MemOK
  <2>3. CASE HostDrain(c)
    <3>1. UNCHANGED <<daemon, known, size, warm>> /\ DrainPool(arg[c])
      BY <2>3 DEF HostDrain, entryVars
    <3> QED
      BY <1>0, <2>0, <3>1, DrainStep DEF MemOK
  <2>4. ASSUME NEW h \in Hosts, ProvisionHost(c, h) PROVE MemOK'
    <3>1. /\ UNCHANGED <<daemon, pools, width, ready>> /\ h \in Configured
          /\ Enter(h, PoolSize[h]) \/ UNCHANGED <<known, size, warm>>
      BY <1>0, <2>4 DEF ProvisionHost, poolVars, entryVars, LoopOK, At
    <3>2. /\ known' \subseteq Hosts /\ size' \in SizeMap /\ warm' \in WarmSets
          /\ \A g \in Hosts \ known' : size'[g] = 0 /\ warm'[g] = {}
      BY <1>0, <3>1, EntryStep, SizesFacts DEF MemOK
    <3> QED
      BY <1>0, <3>1, <3>2 DEF MemOK
  <2>5. ASSUME NEW h \in Hosts, TeardownHost(c, h) PROVE MemOK'
    <3>1. daemon' = daemon /\ DrainPool(h) /\ Forget(h)
      BY <2>5 DEF TeardownHost
    <3> QED
      BY <1>0, <3>1, EntryStep, DrainStep DEF MemOK
  <2> QED
    BY <1>6, <2>1, <2>2, <2>3, <2>4, <2>5 DEF Changes
<1>7. ASSUME NEW t \in Threads, Save(t) PROVE MemOK'
  BY <1>u, <1>7 DEF Save, Marshal, OpenTmp, WriteTmp, Rename, SaveFails
<1> QED
  BY <1>1, <1>2, <1>3, <1>4, <1>5, <1>6, <1>7, StepKinds

LEMMA LoopStep == ASSUME Types, [Next]_vars PROVE LoopOK'
<1> USE DEF LoopOK, At, Goto
<1>0. ThreadOK /\ LoopOK
  BY DEF Types
<1>a. ASSUME NEW t \in Threads, UNCHANGED left, NEW l \in Label, l # "provision",
             pc' = [pc EXCEPT ![t] = l]
      PROVE  LoopOK'
  BY <1>0, <1>a DEF ThreadOK
<1>1. CASE Start \/ UNCHANGED vars
  BY <1>0, <1>1 DEF Start, vars, threadVars
<1>2. CASE Crash \/ Exit
  BY <1>2, ClusterAssumption DEF Crash, Exit, Ends, Threads
<1>3. CASE Stops
  <2>1. CASE Terminate
    BY <1>0, <2>1, ClusterAssumption DEF Terminate, ThreadOK, Threads
  <2>2. ASSUME NEW h \in Hosts, Record(h) PROVE LoopOK'
    BY <1>0, <2>2, ClusterAssumption DEF Record, ThreadOK, Threads
  <2>3. CASE RecordEnds \/ DrainAll
    BY <1>a, <2>3 DEF RecordEnds, DrainAll, Threads, Label
  <2> QED
    BY <1>3, <2>1, <2>2, <2>3 DEF Stops
<1>4. ASSUME NEW c \in Connections, Talks(c) \/ Changes(c) PROVE LoopOK'
  <2>0. c \in Threads
    BY DEF Threads
  <2>1. CASE ClusterProvision(c)
    BY <1>0, <2>0, <2>1 DEF ClusterProvision, ThreadOK, Threads
  <2>2. CASE ClusterTeardown(c)
    BY <1>0, <2>0, <2>2 DEF ClusterTeardown, ThreadOK, Threads
  <2>3. CASE \E o \in Ops, h \in Hosts : Request(c, o, h)
    BY <1>a, <2>0, <2>3 DEF Request, Label
  <2>4. CASE Refused(c) \/ HostResume(c) \/ LoopEnds(c) \/ Answer(c)
    BY <1>a, <2>0, <2>4 DEF Refused, HostResume, LoopEnds, Answer, Label
  <2>5. CASE HostAdd(c) \/ HostRemove(c) \/ HostDrain(c)
    BY <1>a, <2>0, <2>5 DEF HostAdd, HostRemove, HostDrain, Label
  <2>6. ASSUME NEW h \in Hosts, ProvisionHost(c, h) \/ TeardownHost(c, h) PROVE LoopOK'
    <3>1. pc' = pc /\ left' = [left EXCEPT ![c] = @ \ {h}]
      BY <2>6 DEF ProvisionHost, TeardownHost
    <3> QED
      BY <1>0, <2>0, <3>1 DEF ThreadOK, Threads
  <2> QED
    BY <1>4, <2>1, <2>2, <2>3, <2>4, <2>5, <2>6 DEF Talks, Changes
<1>5. ASSUME NEW t \in Threads, Save(t) PROVE LoopOK'
  BY <1>a, <1>5 DEF Save, Marshal, OpenTmp, WriteTmp, Rename, SaveFails, Label
<1> QED
  BY <1>1, <1>2, <1>3, <1>4, <1>5, StepKinds

LEMMA ThreadStep == ASSUME Types, [Next]_vars PROVE ThreadOK'
<1> USE ClusterAssumption DEF ThreadOK, Label, Threads, Goto
<1>0. MemOK /\ ThreadOK
  BY DEF Types
<1>1. CASE Start \/ UNCHANGED vars
  BY <1>0, <1>1 DEF Start, vars, threadVars
<1>2. CASE Crash \/ Exit
  BY <1>0, <1>2 DEF Crash, Exit, Ends
<1>3. CASE Stops
  BY <1>0, <1>3 DEF Stops, Terminate, Record, RecordEnds, DrainAll, MemOK
<1>4. ASSUME NEW c \in Connections, Talks(c) PROVE ThreadOK'
  <2>1. ASSUME NEW o \in Ops, NEW h \in Hosts, Request(c, o, h) PROVE ThreadOK'
    BY <1>0, <2>1 DEF Request
  <2>2. CASE Refused(c) \/ HostResume(c) \/ LoopEnds(c) \/ Answer(c)
    BY <1>0, <2>2 DEF Refused, HostResume, LoopEnds, Answer
  <2>3. CASE ClusterProvision(c) \/ ClusterTeardown(c)
    BY <1>0, <2>3 DEF ClusterProvision, ClusterTeardown, MemOK
  <2> QED
    BY <1>4, <2>1, <2>2, <2>3 DEF Talks
<1>5. ASSUME NEW c \in Connections, Changes(c) PROVE ThreadOK'
  <2>1. CASE HostAdd(c) \/ HostRemove(c) \/ HostDrain(c)
    BY <1>0, <2>1 DEF HostAdd, HostRemove, HostDrain
  <2>2. ASSUME NEW h \in Hosts, ProvisionHost(c, h) PROVE ThreadOK'
    BY <1>0, <2>2 DEF ProvisionHost
  <2>3. ASSUME NEW h \in Hosts, TeardownHost(c, h) PROVE ThreadOK'
    BY <1>0, <2>3 DEF TeardownHost
  <2> QED
    BY <1>5, <2>1, <2>2, <2>3 DEF Changes
<1>6. ASSUME NEW t \in Threads, Save(t) PROVE ThreadOK'
  <2>1. CASE Marshal(t) \/ OpenTmp(t) \/ WriteTmp(t)
    BY <1>0, <2>1 DEF Marshal, OpenTmp, WriteTmp
  <2>2. CASE Rename(t) \/ SaveFails(t)
    BY <1>0, <2>2 DEF Rename, SaveFails
  <2> QED
    BY <1>6, <2>1, <2>2 DEF Save
<1> QED
  BY <1>1, <1>2, <1>3, <1>4, <1>5, <1>6, StepKinds

LEMMA FileStep == ASSUME Types, [Next]_vars PROVE FileOK'
<1> USE DEF FileOK
<1>0. MemOK /\ ThreadOK /\ FileOK
  BY DEF Types
<1>1. CASE Start \/ Stops \/ UNCHANGED vars
  BY <1>0, <1>1 DEF Start, Stops, Terminate, Record, RecordEnds, DrainAll, vars, threadVars,
       fileVars
<1>2. CASE Crash \/ Exit
  BY <1>0, <1>2 DEF Crash, Exit, Ends, fileVars
<1>3. ASSUME NEW c \in Connections, Talks(c) \/ Changes(c) PROVE FileOK'
  BY <1>0, <1>3 DEF Talks, Request, Refused, HostResume, ClusterProvision, ClusterTeardown,
       LoopEnds, Answer, Changes, HostAdd, HostRemove, HostDrain, ProvisionHost,
       TeardownHost, fileVars
<1>4. ASSUME NEW t \in Threads, Save(t) PROVE FileOK'
  <2>1. CASE Marshal(t)
    <3>1. Memory \in Saved
      BY <1>0 DEF Memory, Saved, Whole, MemOK
    <3> QED
      BY <1>0, <2>1, <3>1 DEF Marshal, fileVars
  <2>2. CASE OpenTmp(t)
    BY <1>0, <2>2 DEF OpenTmp
  <2>3. CASE WriteTmp(t)
    <3>1. Written(tmp, data[t]) \subseteq {data[t], Partial}
      BY DEF Written
    <3>2. Written(disk, data[t]) \subseteq {data[t], Partial}
      BY DEF Written
    <3>3. /\ tmp' \in {tmp, data[t], Partial} /\ disk' \in {disk, data[t], Partial}
          /\ data' = data
      BY <2>3, <3>1, <3>2 DEF WriteTmp, fileVars
    <3> QED
      BY <1>0, <3>3
  <2>4. CASE Rename(t) \/ SaveFails(t)
    BY <1>0, <2>4 DEF Rename, SaveFails
  <2> QED
    BY <1>4, <2>1, <2>2, <2>3, <2>4 DEF Save
<1> QED
  BY <1>1, <1>2, <1>3, <1>4, StepKinds

LEMMA HistStep == ASSUME Types, [Next]_vars PROVE HistOK'
<1> USE DEF HistOK
<1>0. MemOK /\ ThreadOK /\ HistOK
  BY DEF Types
<1>1. CASE Start \/ Crash \/ Exit \/ UNCHANGED vars
  BY <1>0, <1>1 DEF Start, Crash, Exit, Ends, vars, history
<1>2. CASE Stops
  BY <1>0, <1>2 DEF Stops, Terminate, Fitting, Record, RecordEnds, DrainAll, MemOK,
       WarmSets, history
<1>3. ASSUME NEW c \in Connections, Talks(c) PROVE HistOK'
  <2>1. ASSUME NEW o \in Ops, NEW h \in Hosts, Request(c, o, h) PROVE HistOK'
    <3> DEFINE concerned(g) == g \in Concerns(o, h)
    <3> HIDE DEF concerned
    <3>1. acked' = [g \in Hosts |-> IF concerned(g) THEN "open" ELSE acked[g]] /\ rest' = rest
      BY <2>1 DEF Request, concerned
    <3> QED
      BY <1>0, <3>1
  <2>2. CASE Answer(c)
    <3>1. \A h \in DOMAIN Promise(c) : Promise(c)[h] \in {"in", "out", "open"}
      BY DEF Promise
    <3> QED
      BY <1>0, <2>2, <3>1 DEF Answer
  <2>3. CASE \/ Refused(c) \/ HostResume(c) \/ ClusterProvision(c) \/ ClusterTeardown(c)
             \/ LoopEnds(c)
    BY <1>0, <2>3 DEF Refused, HostResume, ClusterProvision, ClusterTeardown, LoopEnds,
         history
  <2> QED
    BY <1>3, <2>1, <2>2, <2>3 DEF Talks
<1>4. ASSUME NEW c \in Connections, Changes(c) PROVE HistOK'
  BY <1>0, <1>4 DEF Changes, HostAdd, HostRemove, HostDrain, ProvisionHost, TeardownHost,
       history
<1>5. ASSUME NEW t \in Threads, Save(t) PROVE HistOK'
  BY <1>0, <1>5 DEF Save, Marshal, OpenTmp, WriteTmp, Rename, SaveFails, history
<1> QED
  BY <1>1, <1>2, <1>3, <1>4, <1>5, StepKinds

LEMMA TypesAlways == Spec => []Types
<1>1. Init => Types
  <2> SUFFICES ASSUME Init PROVE Types
    OBVIOUS
  <2>1. (CHOOSE h \in Hosts : TRUE) \in Hosts
    BY ClusterAssumption
  <2>2. MemOK
    BY DEF Init, MemOK, Cold, Zero, WarmSets, SizeMap
  <2>3. ThreadOK
    BY <2>1 DEF Init, ThreadOK, Label, Ops
  <2>4. FileOK
    BY DEF Init, FileOK, Saved, Plausible
  <2>5. HistOK
    BY DEF Init, HistOK, Cold, WarmSets
  <2>6. LoopOK
    BY DEF Init, LoopOK, Threads
  <2> QED
    BY <2>2, <2>3, <2>4, <2>5, <2>6 DEF Types
<1>2. Types /\ [Next]_vars => Types'
  BY MemStep, ThreadStep, FileStep, HistStep, LoopStep DEF Types
<1> QED
  BY <1>1, <1>2, PTL DEF Spec

\* Every reachable state is type-correct, however requests overlap: a host
\* that is not known has no entry, and no slot is ready that its pool does not
\* have, whatever the state file has recorded (serve.go stops at the size).
THEOREM ClusterType == Spec => []TypeOK
<1>1. Types => TypeOK
  BY DEF Types, MemOK, ThreadOK, FileOK, HistOK, TypeOK, Label, Saved
<1> QED
  BY <1>1, TypesAlways, PTL

-----------------------------------------------------------------------------
\* One request at a time: who runs.

\* One thread runs at most: a connection while the daemon is up, the main
\* goroutine while it stops.
OneRuns == /\ \A t, u \in Threads : pc[t] # "idle" /\ pc[u] # "idle" => t = u
           /\ \A c \in Connections : pc[c] # "idle" => daemon = "up"
           /\ pc[Main] # "idle" => daemon = "stopping"
           /\ \A c \in Connections : pc[c] \notin {"record", "drain"}
           /\ pc[Main] \notin {"handle", "provision", "teardown"}

LEMMA OneRunsStep ==
  ASSUME OneAtATime, Types, OneRuns, [Next]_vars
  PROVE  OneRuns'
<1> USE ClusterAssumption DEF OneRuns, At, Threads
<1>0. ThreadOK
  BY DEF Types
<1>a. ASSUME NEW t \in Threads, NEW l \in Label, pc[t] # "idle", pc' = [pc EXCEPT ![t] = l],
             UNCHANGED daemon,
             t # Main => l \notin {"record", "drain"},
             t = Main => l \notin {"handle", "provision", "teardown"}
      PROVE  OneRuns'
  BY <1>0, <1>a DEF ThreadOK
<1>1. CASE Start
  BY <1>1 DEF Start, threadVars
<1>2. CASE Crash \/ Exit
  BY <1>2 DEF Crash, Exit, Ends
<1>3. CASE Stops
  <2>1. CASE Terminate
    BY <1>0, <2>1 DEF Terminate, ThreadOK, Goto
  <2>2. CASE DrainAll \/ RecordEnds
    BY <1>a, <2>2 DEF DrainAll, RecordEnds, Goto, Label
  <2>3. ASSUME NEW h \in Hosts, Record(h) PROVE OneRuns'
    BY <2>3 DEF Record
  <2> QED
    BY <1>3, <2>1, <2>2, <2>3 DEF Stops
<1>4. CASE UNCHANGED vars
  BY <1>4 DEF vars, threadVars
<1>5. ASSUME NEW c \in Connections, Talks(c) PROVE OneRuns'
  <2>1. ASSUME NEW o \in Ops, NEW h \in Hosts, Request(c, o, h) PROVE OneRuns'
    BY <1>0, <2>1 DEF Request, ThreadOK, Goto
  <2>2. CASE \/ Refused(c) \/ HostResume(c) \/ ClusterProvision(c) \/ ClusterTeardown(c)
             \/ LoopEnds(c) \/ Answer(c)
    <3>1. PICK l \in {"error", "marshal", "provision", "teardown", "idle"} :
             pc' = [pc EXCEPT ![c] = l] /\ pc[c] # "idle" /\ UNCHANGED daemon
      BY <2>2 DEF Refused, HostResume, ClusterProvision, ClusterTeardown, LoopEnds, Answer,
           Goto, Handles
    <3> QED
      BY <1>a, <3>1 DEF Label
  <2> QED
    BY <1>5, <2>1, <2>2 DEF Talks
<1>6. ASSUME NEW c \in Connections, Changes(c) PROVE OneRuns'
  <2>1. CASE HostAdd(c) \/ HostRemove(c) \/ HostDrain(c)
    BY <1>a, <2>1 DEF HostAdd, HostRemove, HostDrain, Goto, Handles, Label
  <2>2. ASSUME NEW h \in Hosts, ProvisionHost(c, h) \/ TeardownHost(c, h) PROVE OneRuns'
    BY <2>2 DEF ProvisionHost, TeardownHost
  <2> QED
    BY <1>6, <2>1, <2>2 DEF Changes
<1>7. ASSUME NEW t \in Threads, Save(t) PROVE OneRuns'
  <2>1. PICK l \in {"open", "write", "rename", "ok", "error"} :
           pc' = [pc EXCEPT ![t] = l] /\ pc[t] # "idle" /\ UNCHANGED daemon
    BY <1>7 DEF Save, Marshal, OpenTmp, WriteTmp, Rename, SaveFails, Goto
  <2> QED
    BY <1>a, <2>1 DEF Label
<1> QED
  BY <1>1, <1>2, <1>3, <1>4, <1>5, <1>6, <1>7, StepKinds

-----------------------------------------------------------------------------
\* One request at a time: the files.

Saving(t) == pc[t] \in {"open", "write", "rename"}

\* The only file open is the temporary one, of the thread that writes it; a
\* save in progress still has what memory has; what it renames is complete.
FilesInStep == /\ \A t \in Threads : fd[t] = IF pc[t] = "write" THEN "tmp" ELSE "none"
               /\ \A t \in Threads : Saving(t) => data[t] = Memory
               /\ \A t \in Threads : pc[t] = "write" => tmp = Partial
               /\ \A t \in Threads : pc[t] = "rename" => tmp = data[t]
               /\ disk # Partial

LEMMA FilesStep ==
  ASSUME Types, OneRuns, FilesInStep, OneRuns', [Next]_vars
  PROVE  FilesInStep'
<1> USE ClusterAssumption DEF FilesInStep, At, Threads, Saving
<1>0. ThreadOK /\ FileOK
  BY DEF Types
<1>q. \A t, u \in Threads : pc[t] # "idle" /\ pc[u] # "idle" => t = u
  BY DEF OneRuns
<1>a. ASSUME NEW t \in Threads, pc[t] # "idle", ~Saving(t), pc[t] # "marshal",
             \A u \in Threads : u # t => pc'[u] = pc[u],
             pc'[t] \notin {"open", "write", "rename"},
             UNCHANGED <<data, fd, disk, tmp>>
      PROVE  FilesInStep'
  <2>1. \A u \in Threads : ~Saving(u) /\ ~Saving(u)'
    BY <1>a, <1>q
  <2> QED
    BY <1>a, <2>1
<1>1. CASE Start
  <2>1. \A t \in Threads : pc[t] = "idle"
    BY <1>1 DEF Start, OneRuns
  <2> QED
    BY <1>1, <2>1 DEF Start, threadVars, fileVars
<1>2. CASE Crash \/ Exit
  BY <1>2 DEF Crash, Exit, Ends, fileVars
<1>3. CASE Stops
  <2>1. CASE Terminate
    <3>1. \A t \in Threads : t # Main => pc'[t] = pc[t]
      BY <1>0, <2>1 DEF Terminate, ThreadOK, Goto
    <3>2. pc'[Main] = "record"
      BY <1>0, <2>1 DEF Terminate, ThreadOK, Goto
    <3>3. \A t \in Threads : ~Saving(t)'
      BY <3>2 DEF OneRuns
    <3>4. UNCHANGED <<data, fd, disk, tmp>>
      BY <2>1 DEF Terminate, fileVars
    <3>5. pc[Main] = "idle"
      BY <2>1 DEF Terminate, OneRuns
    <3>6. \A t \in Threads : fd'[t] = "none"
      BY <3>1, <3>3, <3>4, <3>5
    <3> QED
      BY <3>3, <3>4, <3>6
  <2>2. CASE DrainAll \/ RecordEnds
    <3>1. /\ pc[Main] \in {"record", "drain"} /\ pc'[Main] \in {"drain", "marshal"}
          /\ \A u \in Threads : u # Main => pc'[u] = pc[u]
          /\ UNCHANGED <<data, fd, disk, tmp>>
      BY <1>0, <2>2 DEF DrainAll, RecordEnds, ThreadOK, Goto, fileVars
    <3> QED
      BY <1>a, <3>1
  <2>3. ASSUME NEW h \in Hosts, Record(h) PROVE FilesInStep'
    <3>1. pc[Main] = "record" /\ UNCHANGED <<pc, data, fd, disk, tmp>>
      BY <2>3 DEF Record, fileVars
    <3> QED
      BY <1>a, <3>1
  <2> QED
    BY <1>3, <2>1, <2>2, <2>3 DEF Stops
<1>4. CASE UNCHANGED vars
  BY <1>4 DEF vars, memVars, threadVars, fileVars, Memory, entryVars, poolVars
<1>5. ASSUME NEW c \in Connections, Talks(c) PROVE FilesInStep'
  <2>1. ASSUME NEW o \in Ops, NEW h \in Hosts, Request(c, o, h) PROVE FilesInStep'
    <3>1. /\ pc[c] = "idle" /\ pc'[c] = "handle"
          /\ \A t \in Threads : t # c => pc'[t] = pc[t]
          /\ UNCHANGED <<data, fd, disk, tmp>>
      BY <1>0, <2>1 DEF Request, ThreadOK, Goto, fileVars
    <3>2. \A t \in Threads : ~Saving(t)'
      BY <3>1 DEF OneRuns
    <3>3. \A t \in Threads : fd'[t] = "none"
      BY <3>1, <3>2
    <3> QED
      BY <3>1, <3>2, <3>3
  <2>2. CASE \/ Refused(c) \/ HostResume(c) \/ ClusterProvision(c) \/ ClusterTeardown(c)
             \/ LoopEnds(c) \/ Answer(c)
    <3>1. /\ pc[c] \in {"handle", "provision", "teardown", "ok", "error"}
          /\ \E l \in {"error", "marshal", "provision", "teardown", "idle"} : Goto(c, l)
          /\ UNCHANGED <<data, fd, disk, tmp>>
      BY <2>2 DEF Refused, HostResume, ClusterProvision, ClusterTeardown, LoopEnds, Answer,
           Handles, fileVars
    <3>2. /\ \A u \in Threads : u # c => pc'[u] = pc[u]
          /\ pc'[c] \notin {"open", "write", "rename"}
      BY <1>0, <3>1 DEF Goto, ThreadOK
    <3> QED
      BY <1>a, <3>1, <3>2
  <2> QED
    BY <1>5, <2>1, <2>2 DEF Talks
<1>6. ASSUME NEW c \in Connections, Changes(c) PROVE FilesInStep'
  <2>1. /\ pc[c] \in {"handle", "provision", "teardown"}
        /\ \A u \in Threads : u # c => pc'[u] = pc[u]
        /\ pc'[c] \notin {"open", "write", "rename"}
        /\ UNCHANGED <<data, fd, disk, tmp>>
    <3>1. CASE HostAdd(c) \/ HostRemove(c) \/ HostDrain(c)
      BY <1>0, <3>1 DEF HostAdd, HostRemove, HostDrain, Handles, Goto, ThreadOK, fileVars
    <3>2. CASE \E h \in Hosts : ProvisionHost(c, h) \/ TeardownHost(c, h)
      BY <1>0, <3>2 DEF ProvisionHost, TeardownHost, fileVars
    <3> QED
      BY <1>6, <3>1, <3>2 DEF Changes
  <2> QED
    BY <1>a, <2>1
<1>7. ASSUME NEW t \in Threads, Save(t) PROVE FilesInStep'
  <2>0. pc[t] # "idle" /\ UNCHANGED <<known, size, warm>>
    BY <1>7 DEF Save, Marshal, OpenTmp, WriteTmp, Rename, SaveFails, memVars, entryVars,
         poolVars
  <2>1. \A u \in Threads : u # t => pc[u] = "idle" /\ fd[u] = "none"
    BY <1>q, <2>0
  <2>2. Memory' = Memory
    BY <2>0 DEF Memory
  <2>3. \A u \in Threads : u # t => pc'[u] = "idle"
    BY <1>0, <1>7, <2>1 DEF Save, Marshal, OpenTmp, WriteTmp, Rename, SaveFails, Goto,
         ThreadOK
  <2>4. CASE Marshal(t)
    BY <1>0, <2>1, <2>2, <2>3, <2>4 DEF Marshal, Goto, ThreadOK, FileOK, fileVars
  <2>5. CASE OpenTmp(t)
    BY <1>0, <2>1, <2>2, <2>3, <2>5 DEF OpenTmp, Goto, ThreadOK, FileOK
  <2>6. CASE WriteTmp(t)
    <3>1. fd[t] = "tmp" /\ tmp = Partial /\ data[t] = Memory
      BY <2>6 DEF WriteTmp
    <3>2. tmp' = data[t] /\ disk' = disk
      BY <2>6, <3>1 DEF WriteTmp, Written
    <3> QED
      BY <1>0, <2>1, <2>2, <2>3, <2>6, <3>1, <3>2 DEF WriteTmp, Goto, ThreadOK, FileOK
  <2>7. CASE Rename(t)
    <3>1. /\ tmp = Memory /\ disk' = Memory
          /\ \A u \in Threads : fd'[u] = "none"
          /\ pc'[t] = "ok"
      BY <1>0, <2>1, <2>7 DEF Rename, Goto, ThreadOK
    <3>2. Memory # Partial
      BY DEF Memory, Partial
    <3> QED
      BY <2>3, <3>1, <3>2
  <2>8. CASE SaveFails(t)
    <3>1. /\ pc'[t] = "error" /\ disk' = disk
          /\ \A u \in Threads : fd'[u] = "none"
      BY <1>0, <2>1, <2>8 DEF SaveFails, Goto, ThreadOK
    <3> QED
      BY <2>3, <3>1
  <2> QED
    BY <1>7, <2>4, <2>5, <2>6, <2>7, <2>8 DEF Save
<1> QED
  BY <1>1, <1>2, <1>3, <1>4, <1>5, <1>6, <1>7, StepKinds

-----------------------------------------------------------------------------
\* One request at a time: what a request has done so far.

Late(t) == pc[t] \in {"marshal", "open", "write", "rename", "ok"}

\* Until it is answered a request has not promised anything about its hosts;
\* past its changes memory is what the answer will promise, and past the save
\* the file is what memory is.
RequestInStep ==
    \A c \in Connections :
        /\ pc[c] # "idle" => \A h \in Concerns(op[c], arg[c]) : acked[h] = "open"
        /\ pc[c] = "provision" => /\ op[c] = "cluster.provision"
                                  /\ left[c] \subseteq Configured
                                  /\ failures[c] \/ Configured \ left[c] \subseteq known
        /\ pc[c] = "teardown" => /\ op[c] = "cluster.teardown"
                                 /\ left[c] \subseteq pools
                                 /\ \A h \in pools \ left[c] : h \notin known /\ ready[h] = {}
        /\ Late(c) => /\ op[c] = "host.add" => arg[c] \in known
                      /\ op[c] = "host.remove" => arg[c] \notin known
                      /\ op[c] = "cluster.provision" => failures[c] \/ Configured \subseteq known
                      /\ op[c] = "cluster.teardown" =>
                            \A h \in pools : h \notin known /\ ready[h] = {}
        /\ pc[c] = "ok" /\ op[c] # "host.drain" => disk.form = "whole" /\ disk.hosts = known

\* What was promised holds of the file, and of memory while there is one.
PromisesKept ==
    \A h \in Hosts :
        /\ acked[h] = "in" => h \in OnDisk /\ (daemon \in {"up", "stopping"} => h \in known)
        /\ acked[h] = "out" => h \notin OnDisk /\ (daemon \in {"up", "stopping"} => h \notin known)

LEMMA RequestStep ==
  ASSUME OneAtATime, Types, OneRuns, FilesInStep, RequestInStep, [Next]_vars
  PROVE  RequestInStep'
<1> USE ClusterAssumption DEF At, Threads
<1>0. ThreadOK /\ MemOK /\ HistOK
  BY DEF Types
<1>q. \A t, u \in Threads : pc[t] # "idle" /\ pc[u] # "idle" => t = u
  BY DEF OneRuns
\* A step of the main goroutine, or none: no connection runs.
<1>a. ASSUME \A c \in Connections : pc'[c] = "idle" PROVE RequestInStep'
  BY <1>a DEF RequestInStep, Late
<1>1. CASE Start
  <2>1. \A c \in Connections : pc'[c] = "idle"
    BY <1>1 DEF Start, OneRuns, threadVars
  <2> QED
    BY <1>a, <2>1
<1>2. CASE Crash \/ Exit
  <2>1. \A c \in Connections : pc'[c] = "idle"
    BY <1>2 DEF Crash, Exit, Ends
  <2> QED
    BY <1>a, <2>1
<1>3. CASE Stops
  <2>1. \A c \in Connections : pc[c] = "idle" /\ pc'[c] = pc[c]
    BY <1>0, <1>3, <1>q DEF Stops, Terminate, Record, RecordEnds, DrainAll, Goto, ThreadOK
  <2> QED
    BY <1>a, <2>1
<1>4. CASE UNCHANGED vars
  BY <1>4 DEF vars, memVars, threadVars, fileVars, history, RequestInStep, Late, entryVars,
       poolVars
<1>b. ASSUME NEW c \in Connections, pc[c] # "idle" \/ (\A t \in Threads : pc[t] = "idle"),
             \A t \in Threads : t # c => pc'[t] = pc[t]
      PROVE  \A d \in Connections : d # c => pc'[d] = "idle"
  BY <1>b, <1>q
<1>5. ASSUME NEW c \in Connections, Talks(c) PROVE RequestInStep'
  <2>1. ASSUME NEW o \in Ops, NEW h \in Hosts, Request(c, o, h) PROVE RequestInStep'
    <3>1. /\ \A t \in Threads : pc[t] = "idle"
          /\ pc'[c] = "handle" /\ op'[c] = o /\ arg'[c] = h
          /\ \A t \in Threads : t # c => pc'[t] = pc[t]
      BY <1>0, <2>1 DEF Request, Goto, ThreadOK
    <3>2. \A g \in Hosts : g \in Concerns(o, h) => acked'[g] = "open"
      BY <2>1 DEF Request
    <3>3. Concerns(o, h) \subseteq Hosts
      BY DEF Concerns
    <3> QED
      BY <1>b, <3>1, <3>2, <3>3 DEF RequestInStep, Late
  <2>2. CASE Refused(c) \/ Answer(c)
    <3>1. /\ pc[c] # "idle" /\ pc'[c] \in {"error", "idle"}
          /\ \A t \in Threads : t # c => pc'[t] = pc[t]
          /\ pc'[c] = "error" => UNCHANGED <<op, arg, acked>>
      BY <1>0, <2>2 DEF Refused, Answer, Goto, ThreadOK, history
    <3> QED
      BY <1>b, <3>1 DEF RequestInStep, Late
  <2>3. CASE HostResume(c)
    <3>1. /\ pc[c] = "handle" /\ pc'[c] = "marshal" /\ op[c] = "host.resume"
          /\ \A t \in Threads : t # c => pc'[t] = pc[t]
          /\ UNCHANGED <<op, arg, acked>>
      BY <1>0, <2>3 DEF HostResume, Handles, Goto, ThreadOK, history
    <3> QED
      BY <1>b, <3>1 DEF RequestInStep, Late
  <2>4. CASE ClusterProvision(c)
    <3>1. /\ pc[c] = "handle" /\ pc'[c] = "provision" /\ op[c] = "cluster.provision"
          /\ \A t \in Threads : t # c => pc'[t] = pc[t]
          /\ left'[c] = Configured
          /\ UNCHANGED <<op, arg, acked>>
      BY <1>0, <2>4 DEF ClusterProvision, Handles, Goto, ThreadOK, history
    <3> QED
      BY <1>b, <3>1 DEF RequestInStep, Late
  <2>5. CASE ClusterTeardown(c)
    <3>1. /\ pc[c] = "handle" /\ pc'[c] = "teardown" /\ op[c] = "cluster.teardown"
          /\ \A t \in Threads : t # c => pc'[t] = pc[t]
          /\ left'[c] = pools
          /\ UNCHANGED <<op, arg, acked, pools>>
      BY <1>0, <2>5 DEF ClusterTeardown, Handles, Goto, ThreadOK, memVars, history,
           entryVars, poolVars
    <3> QED
      BY <1>b, <3>1 DEF RequestInStep, Late
  <2>6. CASE LoopEnds(c)
    <3>1. /\ pc[c] \in {"provision", "teardown"} /\ left[c] = {} /\ pc'[c] = "marshal"
          /\ \A t \in Threads : t # c => pc'[t] = pc[t]
          /\ UNCHANGED <<op, arg, acked, known, pools, ready, failures>>
      BY <1>0, <2>6 DEF LoopEnds, Goto, ThreadOK, memVars, history, entryVars, poolVars
    <3> QED
      BY <1>b, <3>1 DEF RequestInStep, Late
  <2> QED
    BY <1>5, <2>1, <2>2, <2>3, <2>4, <2>5, <2>6 DEF Talks
<1>6. ASSUME NEW c \in Connections, Changes(c) PROVE RequestInStep'
  <2>1. CASE HostAdd(c) \/ HostRemove(c) \/ HostDrain(c)
    <3>1. /\ pc[c] = "handle" /\ pc'[c] \in {"marshal", "ok"}
          /\ \A t \in Threads : t # c => pc'[t] = pc[t]
          /\ \/ op[c] = "host.add" /\ arg[c] \in known' /\ pc'[c] = "marshal"
             \/ op[c] = "host.remove" /\ arg[c] \notin known' /\ pc'[c] = "marshal"
             \/ op[c] = "host.drain"
          /\ UNCHANGED <<op, arg, acked>>
      BY <1>0, <2>1 DEF HostAdd, HostRemove, HostDrain, Handles, Goto, ThreadOK, history,
           Enter, entryVars, poolVars, DrainPool, Forget
    <3> QED
      BY <1>b, <3>1 DEF RequestInStep, Late
  <2>2. ASSUME NEW h \in Hosts, ProvisionHost(c, h) PROVE RequestInStep'
    <3>1. /\ pc[c] = "provision" /\ left'[c] = left[c] \ {h}
          /\ \/ known' = known \cup {h} /\ failures' = failures
             \/ failures'[c] /\ known' = known
          /\ UNCHANGED <<pc, op, arg, acked>>
      BY <1>0, <2>2 DEF ProvisionHost, ThreadOK, history, Enter, entryVars, poolVars
    <3> QED
      BY <1>b, <3>1 DEF RequestInStep, Late
  <2>3. ASSUME NEW h \in Hosts, TeardownHost(c, h) PROVE RequestInStep'
    <3>1. /\ pc[c] = "teardown" /\ left'[c] = left[c] \ {h}
          /\ known' = known \ {h} /\ ready'[h] = {}
          /\ \A g \in Hosts : g # h => ready'[g] = ready[g]
          /\ UNCHANGED <<pc, op, arg, acked, pools>>
      BY <1>0, <2>3 DEF TeardownHost, ThreadOK, MemOK, WarmSets, history, DrainPool, Forget
    <3>2. pools \subseteq Hosts
      BY <1>0 DEF MemOK
    <3> QED
      BY <1>b, <3>1, <3>2 DEF RequestInStep, Late
  <2> QED
    BY <1>6, <2>1, <2>2, <2>3 DEF Changes
<1>7. ASSUME NEW t \in Threads, Save(t) PROVE RequestInStep'
  <2>1. /\ pc[t] \in {"marshal", "open", "write", "rename"}
        /\ pc'[t] \in {"open", "write", "rename", "ok", "error"}
        /\ \A u \in Threads : u # t => pc'[u] = pc[u]
        /\ UNCHANGED <<op, arg, acked, known, pools, ready, failures>>
    BY <1>0, <1>7 DEF Save, Marshal, OpenTmp, WriteTmp, Rename, SaveFails, Goto, ThreadOK,
         memVars, history, entryVars, poolVars
  <2>2. pc'[t] = "ok" => disk' = Memory
    BY <1>0, <1>7 DEF Save, Marshal, OpenTmp, WriteTmp, Rename, SaveFails, Goto, ThreadOK,
         FilesInStep, Saving
  <2>3. \A u \in Threads : u # t => pc'[u] = "idle"
    BY <1>q, <2>1
  <2>4. CASE t = Main
    BY <1>a, <2>3, <2>4
  <2>5. CASE t \in Connections
    BY <2>1, <2>2, <2>3, <2>5 DEF RequestInStep, Late, Memory
  <2> QED
    BY <2>4, <2>5
<1> QED
  BY <1>1, <1>2, <1>3, <1>4, <1>5, <1>6, <1>7, StepKinds

LEMMA PromisesStep ==
  ASSUME OneAtATime, Types, OneRuns, FilesInStep, RequestInStep, PromisesKept, [Next]_vars
  PROVE  PromisesKept'
<1> USE ClusterAssumption DEF At, Threads
<1>0. ThreadOK /\ MemOK /\ HistOK /\ FileOK
  BY DEF Types
\* No step but an answer makes a promise; a request withdraws those it concerns.
<1>a. ASSUME \A h \in Hosts : acked'[h] # "open" => acked'[h] = acked[h],
             OnDisk' = OnDisk,
             daemon' \in {"up", "stopping"} => daemon \in {"up", "stopping"},
             \A h \in Hosts : (h \in known' <=> h \in known) \/ acked'[h] = "open"
                              \/ daemon' \notin {"up", "stopping"}
      PROVE  PromisesKept'
  BY <1>0, <1>a DEF PromisesKept, HistOK
<1>1. CASE Start
  <2>1. known' = OnDisk /\ OnDisk' = OnDisk /\ acked' = acked
    BY <1>1 DEF Start, OnDisk, fileVars, history, Load
  <2> QED
    BY <2>1 DEF PromisesKept
<1>2. CASE Crash \/ Exit
  BY <1>a, <1>2 DEF Crash, Exit, Ends, OnDisk, fileVars, history
<1>3. CASE Stops
  <2>1. /\ acked' = acked /\ disk' = disk /\ known' = known
        /\ daemon' \in {"up", "stopping"} => daemon \in {"up", "stopping"}
    BY <1>3 DEF Stops, Terminate, Record, RecordEnds, DrainAll, fileVars, memVars, history,
         entryVars, poolVars
  <2> QED
    BY <1>a, <2>1 DEF OnDisk
<1>4. CASE UNCHANGED vars
  BY <1>a, <1>4 DEF vars, memVars, fileVars, history, OnDisk, entryVars, poolVars
<1>5. ASSUME NEW c \in Connections, Talks(c) PROVE PromisesKept'
  <2>1. /\ disk' = disk /\ known' = known /\ daemon' = daemon
    BY <1>5 DEF Talks, Request, Refused, HostResume, ClusterProvision, ClusterTeardown,
         LoopEnds, Answer, memVars, fileVars, entryVars, poolVars
  <2>2. CASE Answer(c) /\ AnswerOK(c)
    <3> DEFINE P == Promise(c)
    <3>1. ASSUME NEW h \in DOMAIN P
          PROVE  /\ P[h] = "in" => h \in known /\ h \in OnDisk
                 /\ P[h] = "out" => h \notin known /\ h \notin OnDisk
      <4>0. pc[c] = "ok" /\ ~failures[c]
        BY <2>2 DEF AnswerOK
      <4>1. CASE op[c] = "host.add"
        BY <3>1, <4>0, <4>1 DEF Promise, RequestInStep, Late, OnDisk
      <4>2. CASE op[c] = "host.remove"
        BY <3>1, <4>0, <4>2 DEF Promise, RequestInStep, Late, OnDisk
      <4>3. CASE op[c] = "cluster.provision"
        BY <3>1, <4>0, <4>3 DEF Promise, RequestInStep, Late, OnDisk
      <4>4. CASE op[c] = "cluster.teardown"
        BY <3>1, <4>0, <4>4 DEF Promise, RequestInStep, Late, OnDisk
      <4>5. CASE op[c] \notin {"host.add", "host.remove", "cluster.provision", "cluster.teardown"}
        BY <3>1, <4>5 DEF Promise
      <4> QED
        BY <4>1, <4>2, <4>3, <4>4, <4>5
    <3>2. \A h \in Hosts : acked'[h] = IF h \in DOMAIN P THEN P[h] ELSE acked[h]
      BY <2>2 DEF Answer
    <3>3. OnDisk' = OnDisk
      BY <2>1 DEF OnDisk
    <3> HIDE DEF P
    <3> QED
      BY <2>1, <3>1, <3>2, <3>3 DEF PromisesKept
  <2>3. CASE Answer(c) /\ ~AnswerOK(c)
    <3>1. \A h \in Hosts : acked'[h] = acked[h]
      BY <2>3 DEF Answer
    <3> QED
      BY <1>a, <2>1, <3>1 DEF OnDisk
  <2>4. ASSUME NEW o \in Ops, NEW h \in Hosts, Request(c, o, h) PROVE PromisesKept'
    <3>1. \A g \in Hosts : acked'[g] # "open" => acked'[g] = acked[g]
      BY <2>4 DEF Request
    <3> QED
      BY <1>a, <2>1, <3>1 DEF OnDisk
  <2>5. CASE \/ Refused(c) \/ HostResume(c) \/ ClusterProvision(c) \/ ClusterTeardown(c)
             \/ LoopEnds(c)
    <3>1. acked' = acked
      BY <2>5 DEF Refused, HostResume, ClusterProvision, ClusterTeardown, LoopEnds, history
    <3> QED
      BY <1>a, <2>1, <3>1 DEF OnDisk
  <2> QED
    BY <1>5, <2>2, <2>3, <2>4, <2>5 DEF Talks
<1>6. ASSUME NEW c \in Connections, Changes(c) PROVE PromisesKept'
  <2>1. acked' = acked /\ disk' = disk /\ daemon' = daemon /\ pc[c] # "idle"
    BY <1>6 DEF Changes, HostAdd, HostRemove, HostDrain, ProvisionHost, TeardownHost,
         Handles, fileVars, history
  <2>2. \A h \in Concerns(op[c], arg[c]) : acked[h] = "open"
    BY <2>1 DEF RequestInStep
  <2>3. CASE HostAdd(c) \/ HostRemove(c)
    <3>1. arg[c] \in Concerns(op[c], arg[c])
      BY <2>3 DEF HostAdd, HostRemove, Handles, Concerns
    <3>2. \A h \in Hosts : h # arg[c] => (h \in known' <=> h \in known)
      BY <2>3 DEF HostAdd, HostRemove, Enter, entryVars, poolVars, DrainPool, Forget
    <3> QED
      BY <1>a, <2>1, <2>2, <3>1, <3>2 DEF OnDisk
  <2>4. CASE HostDrain(c)
    BY <1>a, <2>1, <2>4 DEF HostDrain, OnDisk, DrainPool, entryVars
  <2>5. ASSUME NEW h \in Hosts, ProvisionHost(c, h) PROVE PromisesKept'
    <3>1. Concerns(op[c], arg[c]) = Configured /\ h \in Configured
      BY <2>5 DEF ProvisionHost, RequestInStep, Concerns
    <3>2. \A g \in Hosts : g # h => (g \in known' <=> g \in known)
      BY <2>5 DEF ProvisionHost, Enter, entryVars, poolVars
    <3> QED
      BY <1>a, <2>1, <2>2, <3>1, <3>2 DEF OnDisk
  <2>6. ASSUME NEW h \in Hosts, TeardownHost(c, h) PROVE PromisesKept'
    <3>1. Concerns(op[c], arg[c]) = Hosts
      BY <2>6 DEF TeardownHost, RequestInStep, Concerns
    <3> QED
      BY <1>a, <2>1, <2>2, <3>1 DEF OnDisk
  <2> QED
    BY <1>6, <2>3, <2>4, <2>5, <2>6 DEF Changes
<1>7. ASSUME NEW t \in Threads, Save(t) PROVE PromisesKept'
  <2>1. UNCHANGED <<daemon, known, acked>>
    BY <1>7 DEF Save, Marshal, OpenTmp, WriteTmp, Rename, SaveFails, memVars, history,
         entryVars, poolVars
  <2>2. CASE Rename(t)
    <3>1. OnDisk' = known
      BY <2>2 DEF Rename, FilesInStep, Saving, Memory, OnDisk
    <3>2. daemon \in {"up", "stopping"}
      BY <2>2 DEF Rename, OneRuns
    <3> QED
      BY <2>1, <3>1, <3>2 DEF PromisesKept
  <2>3. CASE ~Rename(t)
    <3>1. disk' = disk
      BY <1>7, <2>3 DEF Save, Marshal, OpenTmp, WriteTmp, SaveFails, FilesInStep, fileVars
    <3> QED
      BY <1>a, <2>1, <3>1 DEF OnDisk
  <2> QED
    BY <2>2, <2>3
<1> QED
  BY <1>1, <1>2, <1>3, <1>4, <1>5, <1>6, <1>7, StepKinds

-----------------------------------------------------------------------------
\* One request at a time: the shutdown.

\* Hosts without a pool have no ready slots and none recorded.
PoolsOnly == \A h \in Hosts \ pools : ready[h] = {} /\ warm[h] = {}

\* The recorded slots become, host by host, those ready at Terminate; the
\* pools are drained only then; the file of a finished shutdown has them.
ShutdownInStep ==
    /\ pc[Main] = "record" =>
          /\ left[Main] \subseteq pools
          /\ \A h \in Hosts : rest[h] = SlotsOf(size[h]) \cap
                                (IF h \in left[Main] THEN ready[h] ELSE warm[h])
    /\ pc[Main] \in {"drain", "marshal", "open", "write", "rename"} =>
          \A h \in Hosts : rest[h] = SlotsOf(size[h]) \cap warm[h]
    /\ pc[Main] = "ok" \/ daemon = "stopped" =>
          /\ disk.form = "whole"
          /\ \A h \in Hosts : rest[h] = SlotsOf(disk.size[h]) \cap disk.warm[h]

LEMMA PoolsOnlyStep ==
  ASSUME Types, PoolsOnly, [Next]_vars
  PROVE  PoolsOnly'
<1> USE DEF PoolsOnly
<1>0. ThreadOK /\ MemOK /\ FileOK
  BY DEF Types
<1>1. CASE Start
  BY <1>0, <1>1 DEF Start, FileOK, Saved, Whole, Partial, NoFile, Cold, Load
<1>2. CASE Crash \/ Exit
  BY <1>2 DEF Crash, Exit, Ends, Cold
<1>3. CASE Stops
  BY <1>0, <1>3 DEF Stops, Terminate, Record, RecordEnds, DrainAll, MemOK, WarmSets,
       memVars, entryVars, poolVars
<1>4. CASE UNCHANGED vars
  BY <1>4 DEF vars, memVars, entryVars, poolVars
<1>5. ASSUME NEW c \in Connections, Talks(c) PROVE PoolsOnly'
  BY <1>5 DEF Talks, Request, Refused, HostResume, ClusterProvision, ClusterTeardown,
       LoopEnds, Answer, memVars, entryVars, poolVars
<1>6. ASSUME NEW c \in Connections, Changes(c) PROVE PoolsOnly'
  <2>1. CASE HostAdd(c) \/ HostRemove(c) \/ HostDrain(c)
    BY <1>0, <2>1 DEF HostAdd, HostRemove, HostDrain, MemOK, WarmSets, ThreadOK, Enter,
         entryVars, poolVars, DrainPool, Forget
  <2>2. ASSUME NEW h \in Hosts, ProvisionHost(c, h) \/ TeardownHost(c, h) PROVE PoolsOnly'
    BY <1>0, <2>2 DEF ProvisionHost, TeardownHost, MemOK, WarmSets, Enter, entryVars,
         poolVars, DrainPool, Forget
  <2> QED
    BY <1>6, <2>1, <2>2 DEF Changes
<1>7. ASSUME NEW t \in Threads, Save(t) PROVE PoolsOnly'
  BY <1>7 DEF Save, Marshal, OpenTmp, WriteTmp, Rename, SaveFails, memVars, entryVars,
       poolVars
<1> QED
  BY <1>1, <1>2, <1>3, <1>4, <1>5, <1>6, <1>7, StepKinds

LEMMA NoSlots == SlotsOf(0) = {}
  BY SMT DEF SlotsOf

LEMMA ShutdownStep ==
  ASSUME Types, OneRuns, FilesInStep, PoolsOnly, ShutdownInStep, [Next]_vars
  PROVE  ShutdownInStep'
<1> USE ClusterAssumption DEF At, Threads
<1>0. ThreadOK /\ MemOK /\ FileOK /\ HistOK
  BY DEF Types
<1>q. \A t, u \in Threads : pc[t] # "idle" /\ pc[u] # "idle" => t = u
  BY DEF OneRuns
<1>1. CASE Start
  <2>1. pc'[Main] = "idle" /\ daemon' = "up"
    BY <1>1 DEF Start, OneRuns, threadVars
  <2> QED
    BY <2>1 DEF ShutdownInStep
<1>2. CASE Crash \/ Exit
  <2>1. /\ pc'[Main] = "idle" /\ UNCHANGED <<disk, rest>>
        /\ daemon' = "stopped" => pc[Main] = "ok"
    BY <1>2 DEF Crash, Exit, Ends, fileVars, history
  <2> QED
    BY <2>1 DEF ShutdownInStep
<1>3. CASE Terminate
  <2>1. /\ pc'[Main] = "record" /\ daemon' = "stopping" /\ left'[Main] = pools
        /\ UNCHANGED <<size, pools, ready, warm>>
        /\ \A h \in Hosts : rest'[h] = ready[h] \cap SlotsOf(size[h])
    BY <1>0, <1>3 DEF Terminate, Fitting, Goto, ThreadOK, memVars, entryVars, poolVars
  <2>2. \A h \in Hosts : h \notin pools => ready[h] = {} /\ warm[h] = {}
    BY DEF PoolsOnly
  <2> QED
    BY <2>1, <2>2 DEF ShutdownInStep
<1>4. ASSUME NEW h \in Hosts, Record(h) PROVE ShutdownInStep'
  <2>1. /\ pc[Main] = "record" /\ h \in left[Main] /\ left'[Main] = left[Main] \ {h}
        /\ UNCHANGED <<pc, size, pools, ready, rest, daemon>>
        /\ h \in known => warm'[h] = ready[h]
        /\ \A g \in Hosts : g # h => warm'[g] = warm[g]
    BY <1>0, <1>4 DEF Record, ThreadOK, MemOK, WarmSets, history, poolVars
  <2>2. daemon = "stopping"
    BY <2>1 DEF OneRuns
  <2>3. h \notin known => SlotsOf(size[h]) = {}
    BY <1>0, NoSlots DEF MemOK
  <2>4. SlotsOf(size[h]) \cap ready[h] = SlotsOf(size[h]) \cap warm'[h]
    BY <2>1, <2>3
  <2> QED
    BY <2>1, <2>2, <2>4 DEF ShutdownInStep
<1>5. CASE RecordEnds
  <2>1. /\ pc[Main] = "record" /\ pc'[Main] = "drain" /\ left[Main] = {}
        /\ UNCHANGED <<size, warm, rest, daemon>>
    BY <1>0, <1>5 DEF RecordEnds, Goto, ThreadOK, memVars, history, entryVars, poolVars
  <2>2. daemon = "stopping"
    BY <2>1 DEF OneRuns
  <2> QED
    BY <2>1, <2>2 DEF ShutdownInStep
<1>6. CASE DrainAll
  <2>1. /\ pc[Main] = "drain" /\ pc'[Main] = "marshal" /\ UNCHANGED <<size, warm, rest, daemon>>
    BY <1>0, <1>6 DEF DrainAll, Goto, ThreadOK, history, entryVars
  <2>2. daemon = "stopping"
    BY <2>1 DEF OneRuns
  <2> QED
    BY <2>1, <2>2 DEF ShutdownInStep
<1>7. CASE UNCHANGED vars
  BY <1>7 DEF vars, memVars, threadVars, fileVars, history, ShutdownInStep, entryVars,
       poolVars
<1>8. ASSUME NEW c \in Connections, Talks(c) \/ Changes(c) PROVE ShutdownInStep'
  <2>1. /\ pc'[Main] = pc[Main] /\ UNCHANGED <<daemon, disk, rest>>
        /\ daemon \in {"up", "stopping"}
    <3>1. CASE Talks(c)
      <4>1. pc'[Main] = pc[Main] /\ UNCHANGED <<daemon, disk, rest>>
        BY <1>0, <3>1 DEF Talks, Request, Refused, HostResume, ClusterProvision,
             ClusterTeardown, LoopEnds, Answer, Goto, ThreadOK, fileVars, history
      <4>2. daemon \in {"up", "stopping"}
        BY <3>1 DEF Talks, Request, Refused, HostResume, ClusterProvision, ClusterTeardown,
             LoopEnds, Answer, Handles, OneRuns
      <4> QED
        BY <4>1, <4>2
    <3>2. CASE Changes(c)
      BY <1>0, <3>2 DEF Changes, HostAdd, HostRemove, HostDrain, ProvisionHost,
           TeardownHost, Handles, Goto, ThreadOK, fileVars, history, OneRuns
    <3> QED
      BY <1>8, <3>1, <3>2
  <2>2. CASE pc[Main] = "idle"
    BY <2>1, <2>2 DEF ShutdownInStep
  <2>3. CASE pc[Main] # "idle"
    <3>1. pc[c] = "idle"
      BY <1>q, <2>3
    <3>2. daemon = "stopping"
      BY <2>3 DEF OneRuns
    <3>3. \E o \in Ops, h \in Hosts : Request(c, o, h)
      BY <1>8, <3>1 DEF Talks, Refused, HostResume, ClusterProvision, ClusterTeardown,
           LoopEnds, Answer, Changes, HostAdd, HostRemove, HostDrain, ProvisionHost,
           TeardownHost, Handles
    <3>4. UNCHANGED <<size, warm, pools, ready, left>>
      BY <3>3 DEF Request, memVars, entryVars, poolVars
    <3> QED
      BY <2>1, <3>2, <3>4 DEF ShutdownInStep
  <2> QED
    BY <2>2, <2>3
<1>9. ASSUME NEW t \in Threads, Save(t) PROVE ShutdownInStep'
  <2>1. /\ pc[t] \in {"marshal", "open", "write", "rename"}
        /\ pc'[t] \in {"open", "write", "rename", "ok", "error"}
        /\ \A u \in Threads : u # t => pc'[u] = pc[u]
        /\ UNCHANGED <<daemon, size, warm, pools, ready, left, rest>>
    BY <1>0, <1>9 DEF Save, Marshal, OpenTmp, WriteTmp, Rename, SaveFails, Goto, ThreadOK,
         memVars, history, entryVars, poolVars
  <2>2. pc'[t] = "ok" => disk' = Memory
    BY <1>0, <1>9 DEF Save, Marshal, OpenTmp, WriteTmp, Rename, SaveFails, Goto, ThreadOK,
         FilesInStep, Saving
  <2>3. daemon \in {"up", "stopping"}
    BY <2>1 DEF OneRuns
  <2>4. CASE t = Main
    BY <2>1, <2>2, <2>3, <2>4 DEF ShutdownInStep, Memory
  <2>5. CASE t # Main
    BY <1>q, <2>1, <2>3, <2>5 DEF ShutdownInStep
  <2> QED
    BY <2>4, <2>5
<1> QED
  BY <1>1, <1>2, <1>3, <1>4, <1>5, <1>6, <1>7, <1>8, <1>9, StepKinds DEF Stops

-----------------------------------------------------------------------------
\* The theorems for one request at a time.

InStep == OneRuns /\ FilesInStep /\ RequestInStep /\ PromisesKept /\ PoolsOnly /\ ShutdownInStep

LEMMA InStepAlways == ASSUME OneAtATime PROVE Spec => []InStep
<1> USE ClusterAssumption
<1>1. Init => InStep
  <2> SUFFICES ASSUME Init PROVE InStep
    OBVIOUS
  <2>1. /\ \A t \in Threads : pc[t] = "idle" /\ fd[t] = "none"
        /\ daemon = "dead" /\ Main \in Threads /\ Connections \subseteq Threads
    BY DEF Init, Threads
  <2>2. disk # Partial
    BY DEF Init, Partial, NoFile, Whole
  <2>3. PromisesKept
    BY DEF Init, PromisesKept
  <2>4. PoolsOnly
    BY DEF Init, PoolsOnly, Cold
  <2>5. OneRuns /\ FilesInStep /\ RequestInStep /\ ShutdownInStep
    BY <2>1, <2>2 DEF OneRuns, FilesInStep, RequestInStep, ShutdownInStep, Saving, Late
  <2> QED
    BY <2>3, <2>4, <2>5 DEF InStep
<1>2. Types /\ InStep /\ [Next]_vars => InStep'
  <2> SUFFICES ASSUME Types, InStep, [Next]_vars PROVE InStep'
    OBVIOUS
  <2> USE DEF InStep
  <2>1. OneRuns'
    BY OneRunsStep
  <2> QED
    BY <2>1, FilesStep, RequestStep, PromisesStep, PoolsOnlyStep, ShutdownStep
<1> QED
  BY <1>1, <1>2, TypesAlways, PTL DEF Spec

\* The state file can be parsed whenever the daemon dies (config/cluster.go:
\* SaveState writes a temporary file and renames it).
THEOREM StateFileWholeHolds == ASSUME OneAtATime PROVE Spec => []StateFileWhole
<1>1. InStep => StateFileWhole
  BY DEF InStep, FilesInStep, StateFileWhole
<1> QED
  BY <1>1, InStepAlways, PTL

\* What an operator was told about a host survives failed saves of later
\* requests, crashes and restarts (handlers: the save comes before the answer).
THEOREM AckedIsDurableHolds == ASSUME OneAtATime PROVE Spec => []AckedIsDurable
<1>1. InStep => AckedIsDurable
  BY DEF InStep, PromisesKept, AckedIsDurable
<1> QED
  BY <1>1, InStepAlways, PTL

\* A teardown answered without an error has drained and forgotten every host
\* with a pool (handlers/cluster.go: ClusterTeardown walks the pools).
THEOREM TeardownHolds == ASSUME OneAtATime PROVE Spec => []TeardownRemovesPooled
<1>1. Types /\ InStep => TeardownRemovesPooled
  BY DEF Types, MemOK, InStep, RequestInStep, TeardownRemovesPooled, AnswerOK, At, Late
<1> QED
  BY <1>1, InStepAlways, TypesAlways, PTL

\* A start after a shutdown that saved readies exactly the slots that were ready
\* when the daemon was told to stop and that fit into the PoolSize of their
\* host, which host.add may have replaced while the pool stayed (serve.go:
\* VMStates are recorded before the pools are drained; a start stops at the
\* size of the pool).
THEOREM PrewarmHolds == ASSUME OneAtATime PROVE Spec => PrewarmRestores
<1>1. Types /\ InStep /\ [Next]_vars => [daemon = "stopped" /\ daemon' = "up" => ready' = rest]_vars
  <2> SUFFICES ASSUME Types, InStep, [Next]_vars, daemon = "stopped", daemon' = "up"
               PROVE  ready' = rest
    OBVIOUS
  <2> USE ClusterAssumption DEF Threads
  <2>1. disk.form = "whole" /\ \A h \in Hosts : rest[h] = SlotsOf(disk.size[h]) \cap disk.warm[h]
    BY DEF InStep, ShutdownInStep
  <2>2. CASE Start
    <3>1. ready' = [h \in Hosts |-> disk.warm[h] \cap SlotsOf(disk.size[h])]
      BY <2>1, <2>2 DEF Start, Load
    <3>2. rest = [h \in Hosts |-> rest[h]]
      BY DEF Types, HistOK, WarmSets
    <3> QED
      BY <2>1, <3>1, <3>2
  <2>3. CASE ~Start
    <3>1. daemon' # "up" \/ daemon' = daemon
      BY <2>3, StepKinds DEF Crash, Exit, Ends, Stops, Terminate, Record, RecordEnds,
           DrainAll, Talks, Request, Refused, HostResume, ClusterProvision, ClusterTeardown,
           LoopEnds, Answer, Changes, HostAdd, HostRemove, HostDrain, ProvisionHost,
           TeardownHost, Save, Marshal, OpenTmp, WriteTmp, Rename, SaveFails, vars
    <3> QED
      BY <3>1
  <2> QED
    BY <2>2, <2>3
<1> QED
  BY <1>1, InStepAlways, TypesAlways, PTL DEF Spec, PrewarmRestores
=============================================================================
