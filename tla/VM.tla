--------------------------------- MODULE VM ---------------------------------
(***************************************************************************)
(* The VM slot of pkg/pool/vm.go: the six lifecycle states, the session    *)
(* identifier, the Firecracker pid, and the goroutines that Drain starts.  *)
(* Every method locks v.mu for its whole body, so each is one step.  Drain *)
(* is the exception: it marks the slot under the lock and leaves the rest  *)
(* to a goroutine, which waits (for a spot drain) and then locks v.mu once *)
(* more to make the slot idle, WITHOUT looking at the state again.  A call *)
(* that returns an error changes nothing, so it is no step.  startedAt is  *)
(* written and never read: it is left out.                                 *)
(***************************************************************************)
CONSTANTS Slots,        \* slot indices of the pool
          Sessions,     \* agent session identifiers
          NoSession,    \* sessionID = ""
          Pids,         \* operating-system process ids
          NoPid,        \* pid = 0: no process, also what pre-warming passes
          Drainers,     \* goroutines started by Drain: bounds those alive at once
          NoDrain       \* the value of a goroutine that is not running

ASSUME NullsAssumption == /\ NoSession \notin Sessions
                          /\ NoPid \notin Pids

VARIABLES state,        \* state[s]: VMState of slot s
          sessionID,    \* sessionID[s]: active session or NoSession
          pid,          \* pid[s]: Firecracker process or NoPid
          drainer       \* drainer[g]: the slot, mode and progress of goroutine g

\* History: slots whose latest Drain found an earlier one still running.
VARIABLE overlapped

vmVars == <<state, sessionID, pid, drainer, overlapped>>

VMState == {"absent", "provisioned", "ready", "draining", "idle", "deprovisioned"}
DrainMode == {"graceful", "force", "spot"}

\* A goroutine waits out the grace period, then is due to finish the drain.
Drain_Goroutine == [slot : Slots, mode : DrainMode, wait : {"grace", "due"}]

ASSUME NoDrainAssumption == NoDrain \notin Drain_Goroutine

TypeOK == /\ state \in [Slots -> VMState]
          /\ sessionID \in [Slots -> Sessions \cup {NoSession}]
          /\ pid \in [Slots -> Pids \cup {NoPid}]
          /\ drainer \in [Drainers -> Drain_Goroutine \cup {NoDrain}]
          /\ overlapped \subseteq Slots

-----------------------------------------------------------------------------
\* Helpers.

Running(g) == drainer[g] # NoDrain
PendingOn(s) == {g \in Drainers : Running(g) /\ drainer[g].slot = s}
ReadySlots == {s \in Slots : state[s] = "ready"}

-----------------------------------------------------------------------------
\* Operations.

\* NewVM for every slot.
Init == /\ state = [s \in Slots |-> "absent"]
        /\ sessionID = [s \in Slots |-> NoSession]
        /\ pid = [s \in Slots |-> NoPid]
        /\ drainer = [g \in Drainers |-> NoDrain]
        /\ overlapped = {}

Provision(s, p) == /\ state[s] \in {"absent", "deprovisioned"}
                   /\ state' = [state EXCEPT ![s] = "provisioned"]
                   /\ pid' = [pid EXCEPT ![s] = p]
                   /\ UNCHANGED <<sessionID, drainer, overlapped>>

BadMarkReady(s) == /\ state[s] = "provisioned"
                   /\ state' = [state EXCEPT ![s] = "running"]
                   /\ UNCHANGED <<sessionID, pid, drainer, overlapped>>

MarkReady(s) == /\ state[s] = "provisioned"
                /\ state' = [state EXCEPT ![s] = "ready"]
                /\ UNCHANGED <<sessionID, pid, drainer, overlapped>>

\* The session in place, if there is one, is overwritten; the slot stays ready.
BadAssign(s, id) == /\ state[s] \in {"ready", "draining", "idle"}
                    /\ sessionID' = [sessionID EXCEPT ![s] = id]
                    /\ UNCHANGED <<state, pid, drainer, overlapped>>

Assign(s, id) == /\ state[s] = "ready"
                 /\ sessionID' = [sessionID EXCEPT ![s] = id]
                 /\ UNCHANGED <<state, pid, drainer, overlapped>>

\* Only a spot drain waits: graceful and force both set deadline = 0.
Launch(s, mode) == [slot |-> s, mode |-> mode, wait |-> IF mode = "spot" THEN "grace" ELSE "due"]

BadDrain(s, g, mode) == /\ state[s] \in {"ready", "draining"}
                        /\ ~Running(g)
                        /\ state' = [state EXCEPT ![s] = "draining"]
                        /\ drainer' = IF sessionID[s] = NoSession THEN drainer
                                      ELSE [drainer EXCEPT ![g] = Launch(s, mode)]
                        /\ UNCHANGED <<sessionID, pid, overlapped>>

\* Marks the slot and starts goroutine g, also when one is already running.
Drain(s, g, mode) == /\ state[s] \in {"ready", "draining"}
                     /\ ~Running(g)
                     /\ state' = [state EXCEPT ![s] = "draining"]
                     /\ drainer' = [drainer EXCEPT ![g] = Launch(s, mode)]
                     /\ overlapped' = IF PendingOn(s) # {} THEN overlapped \cup {s}
                                      ELSE overlapped \ {s}
                     /\ UNCHANGED <<sessionID, pid>>

BadGraceEnds(g) == /\ Running(g) /\ drainer[g].wait = "grace"
                   /\ sessionID[drainer[g].slot] = NoSession
                   /\ drainer' = [drainer EXCEPT ![g].wait = "due"]
                   /\ UNCHANGED <<state, sessionID, pid, overlapped>>

\* The 120-second timer fires, or the context of the drain is cancelled.
GraceEnds(g) == /\ Running(g) /\ drainer[g].wait = "grace"
                /\ drainer' = [drainer EXCEPT ![g].wait = "due"]
                /\ UNCHANGED <<state, sessionID, pid, overlapped>>

BadKeepSession(g) == /\ Running(g) /\ drainer[g].wait = "due"
                     /\ state' = [state EXCEPT ![drainer[g].slot] = "idle"]
                     /\ drainer' = [drainer EXCEPT ![g] = NoDrain]
                     /\ UNCHANGED <<sessionID, pid, overlapped>>

\* The goroutine makes its slot idle whatever the state has become meanwhile.
FinishDrain(g) == /\ Running(g) /\ drainer[g].wait = "due"
                  /\ state' = [state EXCEPT ![drainer[g].slot] = "idle"]
                  /\ sessionID' = [sessionID EXCEPT ![drainer[g].slot] = NoSession]
                  /\ drainer' = [drainer EXCEPT ![g] = NoDrain]
                  /\ UNCHANGED <<pid, overlapped>>

BadDeprovision(s) == /\ state[s] \in {"idle", "draining"}
                     /\ state' = [state EXCEPT ![s] = "deprovisioned"]
                     /\ pid' = [pid EXCEPT ![s] = NoPid]
                     /\ UNCHANGED <<sessionID, drainer, overlapped>>

Deprovision(s) == /\ state[s] = "idle"
                  /\ state' = [state EXCEPT ![s] = "deprovisioned"]
                  /\ pid' = [pid EXCEPT ![s] = NoPid]
                  /\ UNCHANGED <<sessionID, drainer, overlapped>>

Goroutine(g) == GraceEnds(g) \/ FinishDrain(g)

Next == \/ \E s \in Slots : \/ \E p \in Pids \cup {NoPid} : Provision(s, p)
                            \/ MarkReady(s)
                            \/ \E id \in Sessions : Assign(s, id)
                            \/ \E g \in Drainers, mode \in DrainMode : Drain(s, g, mode)
                            \/ Deprovision(s)
        \/ \E g \in Drainers : Goroutine(g)

Spec == Init /\ [][Next]_vmVars

-----------------------------------------------------------------------------
\* Properties.

\* A session is recorded only on a slot that serves or drains it, even when
\* drains of the same slot overlap: a slot that comes back after Deprovision
\* and Provision never carries the session of its previous life.
SessionOnlyWhenServing ==
    \A s \in Slots : sessionID[s] # NoSession => state[s] \in {"ready", "draining"}

\* A draining slot has a goroutine that will end the drain: no slot is left in
\* draining with nobody to move it on.
DrainingHasDrainer == \A s \in Slots : state[s] = "draining" => PendingOn(s) # {}

\* A drain by force, or on a spot warning, ends whatever other calls overlap
\* with it and whatever the session does.  (Of a graceful drain the comments
\* say that it waits for the session, see GracefulAwaitsSession.)
DrainCompletes ==
    \A s \in Slots :
        state[s] = "draining" /\ (\E g \in PendingOn(s) : drainer[g].mode # "graceful")
            ~> state[s] = "idle"

\* A running goroutine owns its slot unless a second Drain has overlapped it:
\* the slot stays draining until the goroutine ends the drain, and no other
\* goroutine will touch it.
DrainOwnsSlot ==
    \A g \in Drainers : Running(g) /\ drainer[g].slot \notin overlapped =>
        /\ state[drainer[g].slot] = "draining"
        /\ PendingOn(drainer[g].slot) = {g}

\* The lifecycle of every slot, with its sessions and its overlapping drains.
Lifecycle == INSTANCE SlotLifecycle WITH phase <- state, held <- sessionID, late <- overlapped

LifecycleSpec == Lifecycle!Spec

\* "waits for the current session to complete naturally": a graceful drain does
\* not end under a session.
GracefulAwaitsSession ==
    [][\A g \in Drainers : FinishDrain(g) /\ drainer[g].mode = "graceful" =>
           sessionID[drainer[g].slot] = NoSession]_vmVars
=============================================================================
