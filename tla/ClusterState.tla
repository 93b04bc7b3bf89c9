---------------------------- MODULE ClusterState ----------------------------
(***************************************************************************)
(* The cluster state of the daemon: ClusterState, LoadState and SaveState  *)
(* of pkg/config/cluster.go, the handlers of cmd/internal/handlers, the    *)
(* connection goroutines of pkg/api/server.go, and startup and shutdown of *)
(* cmd/internal/serve.go.  The handlers change the shared state without a  *)
(* lock and save it through one temporary file.  Pools are built at        *)
(* startup only.  The daemon may die at any point and be started again.    *)
(***************************************************************************)
EXTENDS Integers, FiniteSets

CONSTANTS Hosts,        \* host addresses
          Configured,   \* the hosts of the configuration file
          PoolSize,     \* PoolSize[h]: pool_size of a configured host
          AddedSize,    \* pool size of a host added by address (4 in the code)
          Connections,  \* connections of the management API
          Main,         \* the goroutine of runServe
          OneAtATime    \* operators send one request at a time, none while stopping

ASSUME ClusterAssumption == /\ Hosts # {} /\ IsFiniteSet(Hosts) /\ Configured \subseteq Hosts
                            /\ PoolSize \in [Configured -> Nat] /\ AddedSize \in Nat
                            /\ Main \notin Connections
                            /\ OneAtATime \in BOOLEAN

VARIABLES daemon,       \* "up", "stopping", "stopped" (state saved) or "dead"
          known,        \* keys of state.Hosts
          size,         \* size[h]: PoolSize of h, 0 for a host that is not known
          warm,         \* warm[h]: slots that are "ready" in VMStates of h
          pools,        \* keys of pools
          width,        \* width[h]: slots of pools[h], 0 if there is no pool
          ready,        \* ready[h]: slots of pools[h] that are ready
          pc,           \* pc[t]: what goroutine t executes next
          op, arg,      \* the request of a connection
          left,         \* hosts a loop of t has not come to
          failures,     \* provisioning of a host has failed (errs of t)
          data,         \* what t has marshalled
          fd,           \* the file t writes to: its name now, or "gone"
          disk, tmp     \* cluster-state.json and cluster-state.json.tmp

\* History.
VARIABLES acked,        \* acked[h]: what the last answer about h has promised
          rest          \* ready slots of the known hosts when the daemon was told to
                        \* stop, those that fit into the PoolSize of the host

entryVars == <<known, size, warm>>
poolVars == <<pools, width, ready>>
memVars == <<entryVars, poolVars>>
threadVars == <<pc, op, arg, left, failures, data, fd>>
fileVars == <<disk, tmp>>
history == <<acked, rest>>
vars == <<daemon, memVars, threadVars, fileVars, history>>

Threads == Connections \cup {Main}
Ops == {"host.add", "host.remove", "host.drain", "host.resume",
        "cluster.provision", "cluster.teardown"}

SizesOf(h) == {AddedSize} \cup (IF h \in Configured THEN {PoolSize[h]} ELSE {})
Sizes == UNION {SizesOf(h) : h \in Hosts}
SlotsOf(n) == 0 .. n - 1
Slots == UNION {SlotsOf(n) : n \in Sizes}
WarmSets == [Hosts -> SUBSET Slots]
SizeMap == [Hosts -> Sizes \cup {0}]
Cold == [h \in Hosts |-> {}]
Zero == [h \in Hosts |-> 0]
Whole == [form : {"whole"}, hosts : SUBSET Hosts, size : SizeMap, warm : WarmSets]
Partial == [form |-> "partial"]     \* JSON that cannot be parsed
NoFile == [form |-> "absent"]
Memory == [form |-> "whole", hosts |-> known, size |-> size, warm |-> warm]

TypeOK == /\ daemon \in {"up", "stopping", "stopped", "dead"}
          /\ known \subseteq Hosts /\ size \in SizeMap /\ warm \in WarmSets
          /\ pools \subseteq Hosts /\ width \in SizeMap /\ ready \in WarmSets
          /\ pc \in [Threads -> {"idle", "handle", "provision", "teardown", "record", "drain",
                                 "marshal", "open", "write", "rename", "ok", "error"}]
          /\ op \in [Connections -> Ops] /\ arg \in [Connections -> Hosts]
          /\ left \in [Threads -> SUBSET Hosts]
          /\ failures \in [Connections -> BOOLEAN]
          /\ data \in [Threads -> Whole \cup {NoFile}]
          /\ fd \in [Threads -> {"none", "tmp", "path", "gone"}]
          /\ disk \in Whole \cup {Partial, NoFile} /\ tmp \in Whole \cup {Partial, NoFile}
          /\ acked \in [Hosts -> {"in", "out", "open"}]
          /\ rest \in WarmSets
          /\ \A h \in Hosts \ known : size[h] = 0 /\ warm[h] = {}
          /\ \A h \in Hosts : ready[h] \subseteq SlotsOf(width[h])

-----------------------------------------------------------------------------
\* Startup.

\* A host that is not in the file has no entry there; the entry of another is
\* of one of the sizes it can have, with the slots of a pool of another one.
Plausible(f) == \A h \in Hosts :
    IF h \in f.hosts
    THEN /\ f.size[h] \in SizesOf(h)
         /\ \E n \in SizesOf(h) : f.warm[h] \subseteq SlotsOf(n)
    ELSE f.size[h] = 0 /\ f.warm[h] = {}

Init == /\ daemon = "dead"
        /\ known = {} /\ size = Zero /\ warm = Cold
        /\ pools = {} /\ width = Zero /\ ready = Cold
        /\ pc = [t \in Threads |-> "idle"]
        /\ op = [c \in Connections |-> "host.add"]
        /\ arg = [c \in Connections |-> CHOOSE h \in Hosts : TRUE]
        /\ left = [t \in Threads |-> {}]
        /\ failures = [c \in Connections |-> FALSE]
        /\ data = [t \in Threads |-> NoFile]
        /\ fd = [t \in Threads |-> "none"]
        /\ tmp = NoFile
        /\ disk \in {NoFile} \cup {f \in Whole : Plausible(f)}
        /\ acked = [h \in Hosts |-> "open"] /\ rest = Cold

\* LoadState: what cannot be parsed is logged, and the daemon starts afresh.
Load == LET parsed == disk.form = "whole"
        IN  /\ known' = IF parsed THEN disk.hosts ELSE {}
            /\ size' = IF parsed THEN disk.size ELSE Zero
            /\ warm' = IF parsed THEN disk.warm ELSE Cold

BadStart == /\ daemon \in {"stopped", "dead"}
            /\ daemon' = "up"
            /\ Load
            /\ pools' = known'
            /\ width' = size'
            /\ ready' = warm'
            /\ UNCHANGED <<threadVars, fileVars, history>>

\* A pool of the recorded size for each host; the slots recorded as ready are
\* made ready, up to the size of the pool.
Start == /\ daemon \in {"stopped", "dead"}
         /\ daemon' = "up"
         /\ Load
         /\ pools' = known'
         /\ width' = size'
         /\ ready' = [h \in Hosts |-> warm'[h] \cap SlotsOf(width'[h])]
         /\ UNCHANGED <<threadVars, fileVars, history>>

\* The process is gone, with what it held in memory.
Ends(how) == /\ daemon' = how
             /\ known' = {} /\ size' = Zero /\ warm' = Cold
             /\ pools' = {} /\ width' = Zero /\ ready' = Cold
             /\ pc' = [t \in Threads |-> "idle"]
             /\ left' = [t \in Threads |-> {}]
             /\ failures' = [c \in Connections |-> FALSE]
             /\ data' = [t \in Threads |-> NoFile]
             /\ fd' = [t \in Threads |-> "none"]
             /\ UNCHANGED <<op, arg, fileVars, history>>

\* A crash, a kill, or the fatal error of the Go runtime on a map race.
Crash == daemon \in {"up", "stopping"} /\ Ends("dead")

-----------------------------------------------------------------------------
\* Requests.

At(t, l) == pc[t] = l
Goto(t, l) == pc' = [pc EXCEPT ![t] = l]
Handles(c, name) == At(c, "handle") /\ op[c] = name

\* Until it is answered, a request leaves open what becomes of its hosts.
Concerns(o, h) == CASE o \in {"host.add", "host.remove"} -> {h}
                    [] o = "cluster.provision" -> Configured
                    [] o = "cluster.teardown" -> Hosts
                    [] OTHER -> {}

\* The server accepts connections until the process is gone.
Request(c, o, h) ==
    /\ daemon \in {"up", "stopping"} /\ At(c, "idle")
    /\ OneAtATime => daemon = "up" /\ \A t \in Threads : At(t, "idle")
    /\ Goto(c, "handle")
    /\ op' = [op EXCEPT ![c] = o] /\ arg' = [arg EXCEPT ![c] = h]
    /\ failures' = [failures EXCEPT ![c] = FALSE]
    /\ acked' = [g \in Hosts |-> IF g \in Concerns(o, h) THEN "open" ELSE acked[g]]
    /\ UNCHANGED <<daemon, memVars, left, data, fd, fileVars, rest>>

\* A host that is not known, or has no pool; provisioning over SSH fails.
Refused(c) ==
    /\ \/ op[c] \in {"host.remove", "host.resume"} /\ arg[c] \notin known
       \/ op[c] = "host.drain" /\ arg[c] \notin pools
       \/ op[c] = "host.add"
    /\ At(c, "handle") /\ Goto(c, "error")
    /\ UNCHANGED <<daemon, memVars, op, arg, left, failures, data, fd, fileVars, history>>

\* The entry of a host is new, of size n and with no VMStates, and replaces what
\* there is; a pool that the host has stays as it is.
Enter(h, n) == /\ known' = known \cup {h}
               /\ size' = [size EXCEPT ![h] = n]
               /\ warm' = [warm EXCEPT ![h] = {}]

Forget(h) == /\ known' = known \ {h}
             /\ size' = [size EXCEPT ![h] = 0]
             /\ warm' = [warm EXCEPT ![h] = {}]

\* Every ready slot of the pool leaves ready.
DrainPool(h) == /\ ready' = [ready EXCEPT ![h] = {}]
                /\ UNCHANGED <<pools, width>>

HostAdd(c) == /\ Handles(c, "host.add")
              /\ Enter(arg[c], AddedSize)
              /\ Goto(c, "marshal")
              /\ UNCHANGED <<daemon, poolVars, op, arg, left, failures, data, fd, fileVars, history>>

\* Drains the pool, if there is one, and forgets the host.
HostRemove(c) == /\ Handles(c, "host.remove") /\ arg[c] \in known
                 /\ DrainPool(arg[c])
                 /\ Forget(arg[c])
                 /\ Goto(c, "marshal")
                 /\ UNCHANGED <<daemon, op, arg, left, failures, data, fd, fileVars, history>>

\* Drains the pool; the state of the host is neither changed nor saved.
HostDrain(c) == /\ Handles(c, "host.drain") /\ arg[c] \in pools
                /\ DrainPool(arg[c])
                /\ Goto(c, "ok")
                /\ UNCHANGED <<daemon, entryVars, op, arg, left, failures, data, fd, fileVars, history>>

\* Clears Drained, which is never set, and saves.
HostResume(c) == /\ Handles(c, "host.resume") /\ arg[c] \in known
                 /\ Goto(c, "marshal")
                 /\ UNCHANGED <<daemon, memVars, op, arg, left, failures, data, fd, fileVars, history>>

\* A goroutine for each configured host; their insertions are under a mutex.
ClusterProvision(c) ==
    /\ Handles(c, "cluster.provision")
    /\ left' = [left EXCEPT ![c] = Configured]
    /\ Goto(c, "provision")
    /\ UNCHANGED <<daemon, memVars, op, arg, failures, data, fd, fileVars, history>>

ProvisionHost(c, h) ==
    /\ At(c, "provision") /\ h \in left[c]
    /\ left' = [left EXCEPT ![c] = @ \ {h}]
    /\ \/ Enter(h, PoolSize[h]) /\ UNCHANGED failures
       \/ failures' = [failures EXCEPT ![c] = TRUE] /\ UNCHANGED entryVars
    /\ UNCHANGED <<daemon, poolVars, pc, op, arg, data, fd, fileVars, history>>

\* Every pool is drained and its host forgotten, one after the other.
ClusterTeardown(c) ==
    /\ Handles(c, "cluster.teardown")
    /\ left' = [left EXCEPT ![c] = pools]
    /\ Goto(c, "teardown")
    /\ UNCHANGED <<daemon, memVars, op, arg, failures, data, fd, fileVars, history>>

BadTeardownHost(c, h) ==
    /\ At(c, "teardown") /\ h \in left[c]
    /\ left' = [left EXCEPT ![c] = @ \ {h}]
    /\ DrainPool(h)
    /\ UNCHANGED <<daemon, entryVars, pc, op, arg, failures, data, fd, fileVars, history>>

TeardownHost(c, h) ==
    /\ At(c, "teardown") /\ h \in left[c]
    /\ left' = [left EXCEPT ![c] = @ \ {h}]
    /\ DrainPool(h) /\ Forget(h)
    /\ UNCHANGED <<daemon, pc, op, arg, failures, data, fd, fileVars, history>>

LoopEnds(c) == /\ pc[c] \in {"provision", "teardown"} /\ left[c] = {}
               /\ Goto(c, "marshal")
               /\ UNCHANGED <<daemon, memVars, op, arg, left, failures, data, fd, fileVars, history>>

-----------------------------------------------------------------------------
\* SaveState(path, state), by the handlers and by the shutdown.

Marshal(t) == /\ At(t, "marshal")
              /\ data' = [data EXCEPT ![t] = Memory]
              /\ Goto(t, "open")
              /\ UNCHANGED <<daemon, memVars, op, arg, left, failures, fd, fileVars, history>>

BadOpenTmp(t) == /\ At(t, "open")
                 /\ disk' = Partial
                 /\ fd' = [fd EXCEPT ![t] = "path"]
                 /\ Goto(t, "write")
                 /\ UNCHANGED <<daemon, memVars, op, arg, left, failures, data, tmp, history>>

\* os.WriteFile opens the temporary file, or creates it, and truncates it ...
OpenTmp(t) == /\ At(t, "open")
              /\ tmp' = Partial
              /\ fd' = [fd EXCEPT ![t] = "tmp"]
              /\ Goto(t, "write")
              /\ UNCHANGED <<daemon, memVars, op, arg, left, failures, data, disk, history>>

\* ... and writes from its start.  What another goroutine has written to the
\* same file stays behind the end of a shorter text.
Written(old, new) ==
    IF old = Partial \/ Cardinality(old.hosts) < Cardinality(new.hosts) THEN {new}
    ELSE {new, Partial}

WriteTmp(t) ==
    /\ At(t, "write")
    /\ CASE fd[t] = "tmp" -> tmp' \in Written(tmp, data[t]) /\ UNCHANGED disk
         [] fd[t] = "path" -> disk' \in Written(disk, data[t]) /\ UNCHANGED tmp
         [] OTHER -> UNCHANGED fileVars
    /\ fd' = [fd EXCEPT ![t] = "none"]
    /\ Goto(t, "rename")
    /\ UNCHANGED <<daemon, memVars, op, arg, left, failures, data, history>>

\* Open files keep the file they have, whatever its name becomes.
Rename(t) == /\ At(t, "rename") /\ tmp # NoFile
             /\ disk' = tmp /\ tmp' = NoFile
             /\ fd' = [u \in Threads |-> CASE fd[u] = "tmp" -> "path"
                                           [] fd[u] = "path" -> "gone"
                                           [] OTHER -> fd[u]]
             /\ data' = [data EXCEPT ![t] = NoFile]
             /\ Goto(t, "ok")
             /\ UNCHANGED <<daemon, memVars, op, arg, left, failures, history>>

\* A file operation fails; a rename also when another goroutine has moved the
\* temporary file away.  It is removed then.
SaveFails(t) == /\ pc[t] \in {"open", "write", "rename"}
                /\ IF At(t, "rename")
                   THEN /\ tmp' = NoFile
                        /\ fd' = [u \in Threads |-> IF fd[u] = "tmp" THEN "gone" ELSE fd[u]]
                   ELSE /\ UNCHANGED tmp
                        /\ fd' = [fd EXCEPT ![t] = "none"]
                /\ data' = [data EXCEPT ![t] = NoFile]
                /\ Goto(t, "error")
                /\ UNCHANGED <<daemon, memVars, op, arg, left, failures, disk, history>>

-----------------------------------------------------------------------------
\* Answers.

\* What an answer without an error promises about the hosts of the request.
Promise(c) == CASE op[c] = "host.add" -> [h \in {arg[c]} |-> "in"]
                [] op[c] = "host.remove" -> [h \in {arg[c]} |-> "out"]
                [] op[c] = "cluster.provision" -> [h \in Configured |-> "in"]
                [] op[c] = "cluster.teardown" -> [h \in pools |-> "out"]
                [] OTHER -> [h \in {} |-> "open"]

AnswerOK(c) == At(c, "ok") /\ ~failures[c]

BadAnswer(c) == /\ pc[c] \in {"ok", "error"}
                /\ acked' = [h \in Hosts |-> IF h \in DOMAIN Promise(c)
                                             THEN Promise(c)[h] ELSE acked[h]]
                /\ Goto(c, "idle")
                /\ UNCHANGED <<daemon, memVars, op, arg, left, failures, data, fd, fileVars, rest>>

Answer(c) == /\ pc[c] \in {"ok", "error"}
             /\ acked' = [h \in Hosts |-> IF AnswerOK(c) /\ h \in DOMAIN Promise(c)
                                          THEN Promise(c)[h] ELSE acked[h]]
             /\ Goto(c, "idle")
             /\ UNCHANGED <<daemon, memVars, op, arg, left, failures, data, fd, fileVars, rest>>

-----------------------------------------------------------------------------
\* Shutdown.

Fitting == [h \in Hosts |-> ready[h] \cap SlotsOf(size[h])]

BadTerminate == /\ daemon = "up"
                /\ OneAtATime => \A t \in Threads : At(t, "idle")
                /\ daemon' = "stopping"
                /\ left' = [left EXCEPT ![Main] = pools]
                /\ Goto(Main, "record")
                /\ rest' = Fitting
                /\ ready' = [h \in Hosts |-> {}]
                /\ UNCHANGED <<entryVars, pools, width, op, arg, failures, data, fd, fileVars, acked>>

Terminate == /\ daemon = "up"
             /\ OneAtATime => \A t \in Threads : At(t, "idle")
             /\ daemon' = "stopping"
             /\ left' = [left EXCEPT ![Main] = pools]
             /\ Goto(Main, "record")
             /\ rest' = Fitting
             /\ UNCHANGED <<memVars, op, arg, failures, data, fd, fileVars, acked>>

\* VMStates of every host that is still known and has a pool, whatever its
\* PoolSize has become.
Record(h) == /\ At(Main, "record") /\ h \in left[Main]
             /\ left' = [left EXCEPT ![Main] = @ \ {h}]
             /\ warm' = IF h \in known THEN [warm EXCEPT ![h] = ready[h]] ELSE warm
             /\ UNCHANGED <<daemon, known, size, poolVars, pc, op, arg, failures, data, fd,
                            fileVars, history>>

RecordEnds == /\ At(Main, "record") /\ left[Main] = {}
              /\ Goto(Main, "drain")
              /\ UNCHANGED <<daemon, memVars, op, arg, left, failures, data, fd, fileVars, history>>

\* All pools are drained and the state is saved.
DrainAll == /\ At(Main, "drain")
            /\ ready' = [h \in Hosts |-> IF h \in pools THEN {} ELSE ready[h]]
            /\ Goto(Main, "marshal")
            /\ UNCHANGED <<daemon, entryVars, pools, width, op, arg, left, failures, data, fd,
                           fileVars, history>>

Exit == \/ At(Main, "ok") /\ Ends("stopped")
        \/ At(Main, "error") /\ Ends("dead")

-----------------------------------------------------------------------------
Handler(c) == \/ \E o \in Ops, h \in Hosts : Request(c, o, h)
              \/ Refused(c)
              \/ HostAdd(c) \/ HostRemove(c) \/ HostDrain(c) \/ HostResume(c)
              \/ ClusterProvision(c) \/ ClusterTeardown(c) \/ LoopEnds(c)
              \/ \E h \in Hosts : ProvisionHost(c, h) \/ TeardownHost(c, h)
              \/ Answer(c)

Save(t) == Marshal(t) \/ OpenTmp(t) \/ WriteTmp(t) \/ Rename(t) \/ SaveFails(t)

Next == \/ Start \/ Crash
        \/ \E c \in Connections : Handler(c)
        \/ \E t \in Threads : Save(t)
        \/ Terminate \/ (\E h \in Hosts : Record(h)) \/ RecordEnds \/ DrainAll \/ Exit

Spec == Init /\ [][Next]_vars

-----------------------------------------------------------------------------
\* Properties.

\* The state file can be parsed whenever the daemon dies, so that a restart
\* never starts afresh with the hosts forgotten.
StateFileWhole == disk # Partial

OnDisk == IF disk.form = "whole" THEN disk.hosts ELSE {}

\* What an operator was told survives crashes and restarts: an added host is in
\* the state file and a removed one is not, until a later request about it.
AckedIsDurable == \A h \in Hosts : /\ acked[h] = "in" => h \in OnDisk
                                  /\ acked[h] = "out" => h \notin OnDisk

\* After a shutdown that saved the state, the next start readies the slots that
\* were ready when the daemon was told to stop and fit into the PoolSize of
\* their host, and no others: they are recorded before the pools are drained.
\* (Those that do not fit are lost: PoolSize was replaced while the pool stayed.)
PrewarmRestores == [][daemon = "stopped" /\ daemon' = "up" => ready' = rest]_vars

\* A teardown that is answered without an error has drained and forgotten every
\* host with a pool ("drains and removes all hosts").
TeardownRemovesPooled ==
    \A c \in Connections : AnswerOK(c) /\ op[c] = "cluster.teardown" =>
        /\ known \cap pools = {}
        /\ \A h \in pools : ready[h] = {}
=============================================================================
