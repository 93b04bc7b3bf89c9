-------------------------------- MODULE Spawn --------------------------------
(***************************************************************************)
(* VM.Spawn of pkg/pool/vm.go over the slots of VM.tla, with the           *)
(* Firecracker process it starts and the poll for the management socket.   *)
(* Spawn takes v.mu only for Provision and MarkReady, so calls for one     *)
(* slot and drains that are still running interleave with it.  Firecracker *)
(* is external: it may do what vm_spawn_test.go makes fakes do, create the *)
(* socket or not, and exit with 0 or an error at any time.  Nobody removes *)
(* the socket file.                                                        *)
(***************************************************************************)
EXTENDS VM, FiniteSets

CONSTANTS Spawners,     \* goroutines that call Spawn, one call at a time
          Modes         \* drain modes the callers ask for

ASSUME SpawnAssumption == Modes \subseteq DrainMode

VARIABLES pc,           \* pc[c]: what the call of c executes next
          target,       \* target[c]: its slot
          child,        \* child[c]: the process it has started, or NoPid
          proc,         \* proc[p]: the process; a pid is not used again
          sock,         \* slots whose socket file exists
          expired,      \* calls whose two seconds of polling are over
          cancelled     \* calls that poll under a context that is done

\* History: slots a Spawn has provisioned while a drain of an earlier life of
\* the slot was still running.
VARIABLE strays

callVars == <<pc, target, child, expired, cancelled, strays>>
osVars == <<proc, sock>>
vars == <<vmVars, callVars, osVars>>

Polling == {"poll", "check", "wait"}
ProcState == {"none", "started", "up", "exit0", "ended"}
Label == {"idle", "start", "provision", "mark", "done", "failed"} \cup Polling

SpawnTypeOK == /\ TypeOK
               /\ pc \in [Spawners -> Label]
               /\ target \in [Spawners -> Slots]
               /\ child \in [Spawners -> Pids \cup {NoPid}]
               /\ proc \in [Pids -> ProcState]
               /\ sock \subseteq Slots
               /\ expired \subseteq Spawners /\ cancelled \subseteq Spawners
               /\ strays \subseteq Slots

-----------------------------------------------------------------------------
\* Helpers.

Alive(p) == proc[p] \in {"started", "up"}
InFlight(c) == pc[c] \in Polling \cup {"provision", "mark"}
Goto(c, label) == pc' = [pc EXCEPT ![c] = label]

\* Process.Kill; a process that has exited stays as it is.
Kill(p) == proc' = IF Alive(p) THEN [proc EXCEPT ![p] = "ended"] ELSE proc

-----------------------------------------------------------------------------
\* Spawn.

SpawnInit == /\ Init
             /\ pc = [c \in Spawners |-> "idle"]
             /\ target \in [Spawners -> Slots]
             /\ child = [c \in Spawners |-> NoPid]
             /\ proc = [p \in Pids |-> "none"]
             /\ sock = {} /\ expired = {} /\ cancelled = {} /\ strays = {}

CallSpawn(c, s) == /\ pc[c] = "idle"
                   /\ target' = [target EXCEPT ![c] = s]
                   /\ Goto(c, "start")
                   /\ UNCHANGED <<vmVars, child, expired, cancelled, strays, osVars>>

\* The configuration is written and the process started.
StartProcess(c, p) == /\ pc[c] = "start" /\ proc[p] = "none"
                      /\ child' = [child EXCEPT ![c] = p]
                      /\ proc' = [proc EXCEPT ![p] = "started"]
                      /\ Goto(c, "poll")
                      /\ UNCHANGED <<vmVars, target, expired, cancelled, strays, sock>>

\* Either fails.
StartFails(c) == /\ pc[c] = "start"
                 /\ Goto(c, "failed")
                 /\ UNCHANGED <<vmVars, target, child, expired, cancelled, strays, osVars>>

\* The call leaves the loop of the poll.
LeavePoll(c, label) == /\ Goto(c, label)
                       /\ expired' = expired \ {c} /\ cancelled' = cancelled \ {c}
                       /\ UNCHANGED <<vmVars, target, child, strays, sock>>

\* os.Stat finds the socket file, or does not: what appears after it is found
\* by the next poll only.
SocketFound(c) == /\ pc[c] = "poll" /\ target[c] \in sock
                  /\ LeavePoll(c, "provision") /\ UNCHANGED proc

SocketMissing(c) == /\ pc[c] = "poll" /\ target[c] \notin sock
                    /\ Goto(c, "check")
                    /\ UNCHANGED <<vmVars, target, child, expired, cancelled, strays, osVars>>

\* The exit of the process is in the channel.  An exit with 0 is taken from it
\* and otherwise ignored.
ExitedEarly(c) == /\ pc[c] = "check" /\ proc[child[c]] = "ended"
                  /\ LeavePoll(c, "failed") /\ UNCHANGED proc

BadTimedOut(c) == /\ pc[c] = "check" /\ c \in expired
                  /\ Alive(child[c])
                  /\ Kill(child[c])
                  /\ LeavePoll(c, "failed")

BadKill(c) == /\ pc[c] = "check" /\ c \in expired
              /\ UNCHANGED proc
              /\ LeavePoll(c, "failed")

\* Two seconds are over without the socket.
TimedOut(c) == /\ pc[c] = "check" /\ c \in expired
               /\ Kill(child[c])
               /\ LeavePoll(c, "failed")

\* They are not: the call waits for the next poll.  (An exit that Wait has not
\* yet put into the channel is seen then.)
WaitToPoll(c) == /\ pc[c] = "check" /\ c \notin expired
                 /\ Goto(c, "wait")
                 /\ UNCHANGED <<vmVars, target, child, expired, cancelled, strays, osVars>>

PollAgain(c) == /\ pc[c] = "wait"
                /\ Goto(c, "poll")
                /\ UNCHANGED <<vmVars, target, child, expired, cancelled, strays, osVars>>

\* The context is done while it waits.
PollCancelled(c) == /\ pc[c] = "wait" /\ c \in cancelled
                    /\ Kill(child[c])
                    /\ LeavePoll(c, "failed")

ProvisionChild(c) == /\ pc[c] = "provision"
                     /\ Provision(target[c], child[c])
                     /\ strays' = IF PendingOn(target[c]) # {} THEN strays \cup {target[c]}
                                  ELSE strays
                     /\ Goto(c, "mark")
                     /\ UNCHANGED <<target, child, expired, cancelled, osVars>>

BadProvisionFails(c) == /\ pc[c] = "provision"
                        /\ state[target[c]] \notin {"absent", "deprovisioned"}
                        /\ Goto(c, "mark")
                        /\ UNCHANGED <<vmVars, target, child, expired, cancelled, strays, osVars>>

ProvisionFails(c) == /\ pc[c] = "provision"
                     /\ state[target[c]] \notin {"absent", "deprovisioned"}
                     /\ Kill(child[c])
                     /\ Goto(c, "failed")
                     /\ UNCHANGED <<vmVars, target, child, expired, cancelled, strays, sock>>

MarkChild(c) == /\ pc[c] = "mark"
                /\ MarkReady(target[c])
                /\ Goto(c, "done")
                /\ UNCHANGED <<target, child, expired, cancelled, strays, osVars>>

\* The slot has left provisioned; the process is not killed.
MarkFails(c) == /\ pc[c] = "mark" /\ state[target[c]] # "provisioned"
                /\ Goto(c, "failed")
                /\ UNCHANGED <<vmVars, target, child, expired, cancelled, strays, osVars>>

\* What is left of a call that has returned does not matter.
Return(c) == /\ pc[c] \in {"done", "failed"}
             /\ child' = [child EXCEPT ![c] = NoPid]
             /\ target' = [target EXCEPT ![c] = CHOOSE s \in Slots : TRUE]
             /\ Goto(c, "idle")
             /\ UNCHANGED <<vmVars, expired, cancelled, strays, osVars>>

PollStep(c) == \/ SocketFound(c) \/ SocketMissing(c)
               \/ ExitedEarly(c) \/ TimedOut(c) \/ WaitToPoll(c)
               \/ PollAgain(c) \/ PollCancelled(c)

SpawnStep(c) == \/ \E p \in Pids : StartProcess(c, p)
                \/ StartFails(c) \/ PollStep(c)
                \/ ProvisionChild(c) \/ ProvisionFails(c)
                \/ MarkChild(c) \/ MarkFails(c) \/ Return(c)

-----------------------------------------------------------------------------
\* The operating system and Firecracker.

\* The file is new: an existing one is in the way of the process.
CreatesSocket(c) == /\ InFlight(c) /\ proc[child[c]] = "started" /\ target[c] \notin sock
                    /\ proc' = [proc EXCEPT ![child[c]] = "up"]
                    /\ sock' = sock \cup {target[c]}
                    /\ UNCHANGED <<vmVars, callVars>>

\* The process ends, with 0 or otherwise.  How matters to a call that polls for
\* it; for the others the end of its context (exec.CommandContext) is one way.
Polled(p) == \E c \in Spawners : pc[c] \in Polling /\ child[c] = p
Exits(p) == /\ Alive(p)
            /\ \E how \in IF Polled(p) THEN {"exit0", "ended"} ELSE {"ended"} :
                  proc' = [proc EXCEPT ![p] = how]
            /\ UNCHANGED <<vmVars, callVars, sock>>

\* The context of a call that polls is done.
ContextDone(c) == /\ pc[c] \in Polling /\ c \notin cancelled
                  /\ cancelled' = cancelled \cup {c}
                  /\ UNCHANGED <<vmVars, pc, target, child, expired, strays, osVars>>

\* The deadline of the poll passes.
DeadlinePasses(c) == /\ pc[c] \in Polling /\ c \notin expired
                     /\ expired' = expired \cup {c}
                     /\ UNCHANGED <<vmVars, pc, target, child, cancelled, strays, osVars>>

-----------------------------------------------------------------------------
\* The owner of the slots, and the goroutines of drains.

OwnerAssigns(s) == /\ \E id \in Sessions : Assign(s, id)
                   /\ UNCHANGED <<callVars, osVars>>

OwnerDrains(s) == /\ \E g \in Drainers, mode \in Modes : Drain(s, g, mode)
                  /\ UNCHANGED <<callVars, osVars>>

OwnerDeprovisions(s) == /\ Deprovision(s)
                        /\ UNCHANGED <<callVars, osVars>>

OwnerStep(s) == OwnerAssigns(s) \/ OwnerDrains(s) \/ OwnerDeprovisions(s)

DrainerStep(g) == Goroutine(g) /\ UNCHANGED <<callVars, osVars>>

SpawnNext == \/ \E c \in Spawners : \/ \E s \in Slots : CallSpawn(c, s)
                                    \/ SpawnStep(c) \/ CreatesSocket(c)
                                    \/ ContextDone(c) \/ DeadlinePasses(c)
             \/ \E p \in Pids : Exits(p)
             \/ \E s \in Slots : OwnerStep(s)
             \/ \E g \in Drainers : DrainerStep(g)

SpawnSpec == SpawnInit /\ [][SpawnNext]_vars

\* The goroutines of calls and drains run, and their timers fire; Firecracker
\* owes nothing.
SpawnFairSpec == /\ SpawnSpec
                 /\ \A c \in Spawners : WF_vars(SpawnStep(c)) /\ WF_vars(DeadlinePasses(c))
                 /\ \A g \in Drainers : WF_vars(DrainerStep(g))

-----------------------------------------------------------------------------
\* Properties.

\* Until its slot has taken the process over, a Spawn that fails leaves no
\* process behind, whether the socket is missing, the context is done, or
\* another call has won the slot.
FailedSpawnKills ==
    [][\A c \in Spawners : pc[c] \in Polling \cup {"provision"} /\ pc'[c] = "failed"
                               => ~Alive(child[c])']_vars

\* From Provision to MarkReady a slot stays with the call that has provisioned
\* it, also when calls overlap: MarkReady does not fail, and the call that
\* succeeds has recorded its own process.  The exception is a slot that a Spawn
\* has ever provisioned under a drain left over from an earlier life.
SpawnHoldsSlot ==
    \A c \in Spawners : pc[c] = "mark" /\ target[c] \notin strays =>
        state[target[c]] = "provisioned" /\ pid[target[c]] = child[c]

\* A call returns although Firecracker may hang, or exit with 0 and no socket.
SpawnReturns == \A c \in Spawners : pc[c] = "poll" ~> pc[c] \in {"done", "failed"}
=============================================================================
