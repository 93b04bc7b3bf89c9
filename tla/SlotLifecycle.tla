---------------------------- MODULE SlotLifecycle ----------------------------
(***************************************************************************)
(* What the methods of pkg/pool/vm.go do to one slot, goroutines left out: *)
(*                                                                         *)
(*   absent -> provisioned -> ready -> draining -> idle -> deprovisioned   *)
(*                  ^                                           |          *)
(*                  +-------------------------------------------+          *)
(*                                                                         *)
(* This is not the state machine drawn at VMState (vm.go:18),              *)
(*                                                                         *)
(*   absent -> provisioned -> ready <-> draining -> idle                   *)
(*          -> deprovisioned -> absent                                     *)
(*                                                                         *)
(* which the code departs from in four ways.  No method takes a slot from  *)
(* draining back to ready.  None takes it back to absent.  Provision takes *)
(* it from deprovisioned straight to provisioned.  And once drains of a    *)
(* slot have overlapped, the later goroutine makes it idle from whatever   *)
(* state it is in by then (EndLate).                                       *)
(*                                                                         *)
(* A session is held only while the slot is ready or draining, and leaves  *)
(* the slot only when a drain ends or another session takes its place.     *)
(***************************************************************************)
CONSTANTS Slots,      \* slot indices of the pool
          Sessions,   \* agent session identifiers
          NoSession   \* the empty string held by a slot without a session

VARIABLES phase,      \* phase[s]: lifecycle state of slot s
          held,       \* held[s]: session of slot s, or NoSession
          late        \* slots whose latest drain overlaps an earlier one

vars == <<phase, held, late>>

Init == /\ phase = [s \in Slots |-> "absent"]
        /\ held = [s \in Slots |-> NoSession]
        /\ late = {}

Move(s, from, to) == /\ phase[s] \in from
                     /\ phase' = [phase EXCEPT ![s] = to]

\* Firecracker is started for the slot.
Start(s) == Move(s, {"absent", "deprovisioned"}, "provisioned") /\ UNCHANGED <<held, late>>

\* The slot accepts sessions.
Open(s) == Move(s, {"provisioned"}, "ready") /\ UNCHANGED <<held, late>>

\* The slot receives a session.
Serve(s, id) == /\ phase[s] = "ready"
                /\ held' = [held EXCEPT ![s] = id]
                /\ UNCHANGED <<phase, late>>

\* A drain begins, and no earlier one is left.
Close(s) == /\ Move(s, {"ready"}, "draining")
            /\ late' = late \ {s}
            /\ UNCHANGED held

\* A drain begins while an earlier one is left.
CloseAgain(s) == /\ Move(s, {"ready", "draining"}, "draining")
                 /\ late' = late \cup {s}
                 /\ UNCHANGED held

\* A drain ends: the only way a session leaves the slot for none.
EndFrom(s, from) == /\ Move(s, from, "idle")
                    /\ held' = [held EXCEPT ![s] = NoSession]
                    /\ UNCHANGED late

End(s) == EndFrom(s, {"draining"})

\* One of several overlapping drains ends, in whatever state the slot is.
EndLate(s) == s \in late /\ EndFrom(s, {phase[s]})

\* Firecracker is gone.
Release(s) == Move(s, {"idle"}, "deprovisioned") /\ UNCHANGED <<held, late>>

Next == \E s \in Slots : \/ Start(s) \/ Open(s) \/ \E id \in Sessions : Serve(s, id)
                         \/ Close(s) \/ CloseAgain(s)
                         \/ End(s) \/ EndLate(s) \/ Release(s)

Spec == Init /\ [][Next]_vars
=============================================================================
