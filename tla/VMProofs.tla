------------------------------ MODULE VMProofs ------------------------------
(***************************************************************************)
(* Theorems about VM.tla, for every set of slots, sessions, processes and  *)
(* goroutines.  None of the safety invariants but TypeOK needs the others, *)
(* so each is proved inductive on its own relative to TypeOK.              *)
(***************************************************************************)
EXTENDS VM, TLAPS

\* One step of a slot keeps the types; cited again for the pool.
LEMMA TypeStep == TypeOK /\ [Next]_vmVars => TypeOK'
<1> SUFFICES ASSUME TypeOK, [Next]_vmVars PROVE TypeOK'
  OBVIOUS
<1> USE DEF TypeOK, VMState, Drain_Goroutine, DrainMode
<1>1. ASSUME NEW s \in Slots, NEW p \in Pids \cup {NoPid}, Provision(s, p) PROVE TypeOK'
  BY <1>1 DEF Provision
<1>2. ASSUME NEW s \in Slots, MarkReady(s) PROVE TypeOK'
  BY <1>2 DEF MarkReady
<1>3. ASSUME NEW s \in Slots, NEW id \in Sessions, Assign(s, id) PROVE TypeOK'
  BY <1>3 DEF Assign
<1>4. ASSUME NEW s \in Slots, NEW g \in Drainers, NEW mode \in DrainMode, Drain(s, g, mode)
      PROVE TypeOK'
  BY <1>4 DEF Drain, Launch
<1>5. ASSUME NEW s \in Slots, Deprovision(s) PROVE TypeOK'
  BY <1>5 DEF Deprovision
<1>6. ASSUME NEW g \in Drainers, GraceEnds(g) PROVE TypeOK'
  BY <1>6 DEF GraceEnds, Running
<1>7. ASSUME NEW g \in Drainers, FinishDrain(g) PROVE TypeOK'
  BY <1>7 DEF FinishDrain, Running
<1>8. CASE UNCHANGED vmVars
  BY <1>8 DEF vmVars
<1> QED
  BY <1>1, <1>2, <1>3, <1>4, <1>5, <1>6, <1>7, <1>8 DEF Next, Goroutine

\* Every reachable value of the four variables has its declared type.
THEOREM TypeCorrect == Spec => []TypeOK
<1>1. Init => TypeOK
  BY DEF Init, TypeOK, VMState
<1> QED
  BY <1>1, TypeStep, PTL DEF Spec

\* A session is recorded only on a ready or draining slot (vm.go: Assign
\* requires ready, the goroutine of Drain clears the session with the state).
THEOREM SessionSafety == Spec => []SessionOnlyWhenServing
<1>1. Init => SessionOnlyWhenServing
  BY DEF Init, SessionOnlyWhenServing
<1>2. TypeOK /\ SessionOnlyWhenServing /\ [Next]_vmVars => SessionOnlyWhenServing'
  <2> SUFFICES ASSUME TypeOK, SessionOnlyWhenServing, [Next]_vmVars
               PROVE SessionOnlyWhenServing'
    OBVIOUS
  <2> USE DEF TypeOK, SessionOnlyWhenServing, VMState
  <2>1. ASSUME NEW s \in Slots, NEW p \in Pids \cup {NoPid}, Provision(s, p)
        PROVE SessionOnlyWhenServing'
    BY <2>1 DEF Provision
  <2>2. ASSUME NEW s \in Slots, MarkReady(s) PROVE SessionOnlyWhenServing'
    BY <2>2 DEF MarkReady
  <2>3. ASSUME NEW s \in Slots, NEW id \in Sessions, Assign(s, id) PROVE SessionOnlyWhenServing'
    BY <2>3 DEF Assign
  <2>4. ASSUME NEW s \in Slots, NEW g \in Drainers, NEW mode \in DrainMode, Drain(s, g, mode)
        PROVE SessionOnlyWhenServing'
    BY <2>4 DEF Drain
  <2>5. ASSUME NEW s \in Slots, Deprovision(s) PROVE SessionOnlyWhenServing'
    BY <2>5 DEF Deprovision
  <2>6. ASSUME NEW g \in Drainers, GraceEnds(g) PROVE SessionOnlyWhenServing'
    BY <2>6 DEF GraceEnds
  <2>7. ASSUME NEW g \in Drainers, FinishDrain(g) PROVE SessionOnlyWhenServing'
    BY <2>7 DEF FinishDrain, Running, Drain_Goroutine
  <2>8. CASE UNCHANGED vmVars
    BY <2>8 DEF vmVars
  <2> QED
    BY <2>1, <2>2, <2>3, <2>4, <2>5, <2>6, <2>7, <2>8 DEF Next, Goroutine
<1> QED
  BY <1>1, <1>2, TypeCorrect, PTL DEF Spec

\* A draining slot always has a goroutine that will end its drain (vm.go:
\* Drain marks the slot and starts the goroutine, nothing else enters draining).
THEOREM DrainerSafety == Spec => []DrainingHasDrainer
<1>1. Init => DrainingHasDrainer
  BY DEF Init, DrainingHasDrainer
<1>2. TypeOK /\ DrainingHasDrainer /\ [Next]_vmVars => DrainingHasDrainer'
  <2> SUFFICES ASSUME TypeOK, DrainingHasDrainer, [Next]_vmVars,
                      NEW s \in Slots, state'[s] = "draining"
               PROVE  \E g \in Drainers : Running(g)' /\ drainer'[g].slot = s
    BY DEF DrainingHasDrainer, PendingOn
  <2> USE DEF TypeOK, VMState, Running
  <2>0. ASSUME state[s] = "draining"
        PROVE \E g \in Drainers : Running(g) /\ drainer[g].slot = s
    BY <2>0 DEF DrainingHasDrainer, PendingOn
  <2>1. ASSUME NEW r \in Slots, NEW p \in Pids \cup {NoPid}, Provision(r, p)
        PROVE \E g \in Drainers : Running(g)' /\ drainer'[g].slot = s
    BY <2>0, <2>1 DEF Provision
  <2>2. ASSUME NEW r \in Slots, MarkReady(r)
        PROVE \E g \in Drainers : Running(g)' /\ drainer'[g].slot = s
    BY <2>0, <2>2 DEF MarkReady
  <2>3. ASSUME NEW r \in Slots, NEW id \in Sessions, Assign(r, id)
        PROVE \E g \in Drainers : Running(g)' /\ drainer'[g].slot = s
    BY <2>0, <2>3 DEF Assign
  <2>4. ASSUME NEW r \in Slots, NEW h \in Drainers, NEW mode \in DrainMode, Drain(r, h, mode)
        PROVE \E g \in Drainers : Running(g)' /\ drainer'[g].slot = s
    <3>0. drainer'[h] = Launch(r, mode) /\ drainer'[h].slot = r
      BY <2>4 DEF Drain, Launch
    <3>1. drainer'[h] \in Drain_Goroutine
      BY <3>0 DEF Drain_Goroutine, Launch
    <3>2. Running(h)'
      BY <3>1, NoDrainAssumption
    <3>3. CASE r = s
      BY <3>0, <3>2, <3>3
    <3>4. CASE r # s
      <4>1. PICK g \in Drainers : Running(g) /\ drainer[g].slot = s
        BY <2>0, <2>4, <3>4 DEF Drain
      <4>2. drainer'[g] = drainer[g]
        BY <2>4, <4>1 DEF Drain
      <4> QED
        BY <4>1, <4>2
    <3> QED
      BY <3>3, <3>4
  <2>5. ASSUME NEW r \in Slots, Deprovision(r)
        PROVE \E g \in Drainers : Running(g)' /\ drainer'[g].slot = s
    BY <2>0, <2>5 DEF Deprovision
  <2>6. ASSUME NEW h \in Drainers, GraceEnds(h)
        PROVE \E g \in Drainers : Running(g)' /\ drainer'[g].slot = s
    <3>1. PICK g \in Drainers : Running(g) /\ drainer[g].slot = s
      BY <2>0, <2>6 DEF GraceEnds
    <3>2. drainer[g] \in Drain_Goroutine /\ drainer[h] \in Drain_Goroutine
      BY <2>6, <3>1 DEF GraceEnds
    <3>3. drainer'[g].slot = drainer[g].slot /\ drainer'[g] \in Drain_Goroutine
      BY <2>6, <3>2 DEF GraceEnds, Drain_Goroutine
    <3> QED
      BY <3>1, <3>3, NoDrainAssumption
  <2>7. ASSUME NEW h \in Drainers, FinishDrain(h)
        PROVE \E g \in Drainers : Running(g)' /\ drainer'[g].slot = s
    <3>1. drainer[h].slot \in Slots /\ drainer[h].slot # s /\ state[s] = "draining"
      BY <2>7 DEF FinishDrain, Drain_Goroutine
    <3>2. PICK g \in Drainers : Running(g) /\ drainer[g].slot = s
      BY <2>0, <3>1
    <3>3. drainer'[g] = drainer[g]
      BY <2>7, <3>1, <3>2 DEF FinishDrain
    <3> QED
      BY <3>2, <3>3
  <2>8. CASE UNCHANGED vmVars
    BY <2>0, <2>8 DEF vmVars
  <2> QED
    BY <2>1, <2>2, <2>3, <2>4, <2>5, <2>6, <2>7, <2>8 DEF Next, Goroutine
<1> QED
  BY <1>1, <1>2, TypeCorrect, PTL DEF Spec

\* Unless a second Drain overlaps it, the goroutine of a drain owns its slot
\* from Drain to the end of the drain, whatever else is called (vm.go: the
\* other methods refuse a draining slot).
THEOREM DrainOwnership == Spec => []DrainOwnsSlot
<1>1. Init => DrainOwnsSlot
  BY DEF Init, DrainOwnsSlot, Running
<1>2. TypeOK /\ DrainOwnsSlot /\ [Next]_vmVars => DrainOwnsSlot'
  <2> SUFFICES ASSUME TypeOK, DrainOwnsSlot, [Next]_vmVars,
                      NEW g \in Drainers, Running(g)', drainer'[g].slot \notin overlapped'
               PROVE  /\ state'[drainer'[g].slot] = "draining"
                      /\ \A h \in Drainers :
                            Running(h)' /\ drainer'[h].slot = drainer'[g].slot => h = g
    BY DEF DrainOwnsSlot, PendingOn
  <2> DEFINE Owns == /\ state'[drainer'[g].slot] = "draining"
                     /\ \A h \in Drainers :
                           Running(h)' /\ drainer'[h].slot = drainer'[g].slot => h = g
             Owner(h) == Running(h) /\ drainer[h].slot \notin overlapped
  <2> USE DEF TypeOK, VMState, Running
  <2>0. /\ \A h \in Drainers : Running(h) => drainer[h] \in Drain_Goroutine
        /\ \A h \in Drainers : Owner(h) => state[drainer[h].slot] = "draining"
        /\ \A h, k \in Drainers :
              Owner(h) /\ Running(k) /\ drainer[h].slot = drainer[k].slot => h = k
    BY DEF DrainOwnsSlot, PendingOn
  <2>1. ASSUME NEW s \in Slots, NEW p \in Pids \cup {NoPid}, Provision(s, p) PROVE Owns
    BY <2>0, <2>1 DEF Provision, Drain_Goroutine
  <2>2. ASSUME NEW s \in Slots, MarkReady(s) PROVE Owns
    BY <2>0, <2>2 DEF MarkReady, Drain_Goroutine
  <2>3. ASSUME NEW s \in Slots, NEW id \in Sessions, Assign(s, id) PROVE Owns
    BY <2>0, <2>3 DEF Assign
  <2>4. ASSUME NEW s \in Slots, NEW k \in Drainers, NEW mode \in DrainMode, Drain(s, k, mode)
        PROVE Owns
    <3>1. /\ drainer'[k].slot = s
          /\ \A h \in Drainers : h # k => drainer'[h] = drainer[h]
          /\ state'[s] = "draining"
          /\ \A r \in Slots : r # s => state'[r] = state[r]
      BY <2>4 DEF Drain, Launch
    <3>2. /\ s \notin overlapped' => \A h \in Drainers : Running(h) => drainer[h].slot # s
          /\ \A r : r # s /\ r \notin overlapped' => r \notin overlapped
      BY <2>4 DEF Drain, PendingOn
    <3>3. CASE drainer'[g].slot = s
      <4>1. \A h \in Drainers : Running(h)' /\ drainer'[h].slot = s => h = k
        BY <3>1, <3>2, <3>3
      <4> QED
        BY <3>1, <3>3, <4>1
    <3>4. CASE drainer'[g].slot # s
      <4>1. g # k /\ drainer'[g] = drainer[g] /\ Owner(g) /\ drainer[g].slot \in Slots
        BY <2>0, <3>1, <3>2, <3>4 DEF Drain_Goroutine
      <4>2. \A h \in Drainers : Running(h)' /\ drainer'[h].slot = drainer'[g].slot =>
               Running(h) /\ drainer[h].slot = drainer[g].slot
        BY <3>1, <3>4, <4>1
      <4> QED
        BY <2>0, <3>1, <3>4, <4>1, <4>2
    <3> QED
      BY <3>3, <3>4
  <2>5. ASSUME NEW s \in Slots, Deprovision(s) PROVE Owns
    BY <2>0, <2>5 DEF Deprovision, Drain_Goroutine
  <2>6. ASSUME NEW k \in Drainers, GraceEnds(k) PROVE Owns
    <3>1. /\ drainer'[k].slot = drainer[k].slot
          /\ \A h \in Drainers : h # k => drainer'[h] = drainer[h]
          /\ UNCHANGED <<state, overlapped>> /\ Running(k)
      BY <2>0, <2>6 DEF GraceEnds, Drain_Goroutine
    <3>2. \A h \in Drainers : drainer'[h] # NoDrain => Running(h) /\ drainer'[h].slot = drainer[h].slot
      BY <3>1
    <3> QED
      BY <2>0, <3>1, <3>2
  <2>7. ASSUME NEW k \in Drainers, FinishDrain(k) PROVE Owns
    <3>1. /\ \A h \in Drainers : h # k => drainer'[h] = drainer[h]
          /\ drainer'[k] = NoDrain
          /\ \A r \in Slots : r # drainer[k].slot => state'[r] = state[r]
          /\ overlapped' = overlapped /\ Running(k)
      BY <2>0, <2>7 DEF FinishDrain, Drain_Goroutine
    <3>2. Owner(g) /\ drainer'[g] = drainer[g] /\ g # k /\ drainer[g].slot \in Slots
      BY <2>0, <3>1 DEF Drain_Goroutine
    <3>3. drainer[k].slot # drainer[g].slot
      BY <2>0, <3>1, <3>2
    <3>4. \A h \in Drainers : Running(h)' /\ drainer'[h].slot = drainer'[g].slot =>
             Running(h) /\ drainer[h].slot = drainer[g].slot
      BY <3>1, <3>2
    <3> QED
      BY <2>0, <3>1, <3>2, <3>3, <3>4
  <2>8. CASE UNCHANGED vmVars
    BY <2>0, <2>8 DEF vmVars
  <2> QED
    BY <2>1, <2>2, <2>3, <2>4, <2>5, <2>6, <2>7, <2>8 DEF Next, Goroutine
<1> QED
  BY <1>1, <1>2, TypeCorrect, PTL DEF Spec

\* Every slot follows the lifecycle of SlotLifecycle: only overlapping drains
\* make a slot idle that is not draining, no method makes a draining slot ready
\* again or a deprovisioned one absent, and a session ends with a drain only.
THEOREM ImplementsLifecycle == Spec => LifecycleSpec
<1>1. Init => Lifecycle!Init
  BY DEF Init, Lifecycle!Init
<1>2. TypeOK /\ DrainOwnsSlot /\ DrainingHasDrainer /\ [Next]_vmVars
      => [Lifecycle!Next]_(Lifecycle!vars)
  <2> SUFFICES ASSUME TypeOK, DrainOwnsSlot, DrainingHasDrainer, [Next]_vmVars
               PROVE  Lifecycle!Next \/ UNCHANGED Lifecycle!vars
    OBVIOUS
  <2> USE DEF TypeOK, Lifecycle!Move
  <2>1. ASSUME NEW s \in Slots, NEW p \in Pids \cup {NoPid}, Provision(s, p)
        PROVE Lifecycle!Start(s)
    BY <2>1 DEF Provision, Lifecycle!Start
  <2>2. ASSUME NEW s \in Slots, MarkReady(s) PROVE Lifecycle!Open(s)
    BY <2>2 DEF MarkReady, Lifecycle!Open
  <2>3. ASSUME NEW s \in Slots, NEW id \in Sessions, Assign(s, id) PROVE Lifecycle!Serve(s, id)
    BY <2>3 DEF Assign, Lifecycle!Serve
  <2>4. ASSUME NEW s \in Slots, NEW g \in Drainers, NEW mode \in DrainMode, Drain(s, g, mode)
        PROVE Lifecycle!Close(s) \/ Lifecycle!CloseAgain(s)
    <3>1. CASE PendingOn(s) = {}
      <4>1. state[s] = "ready"
        BY <2>4, <3>1 DEF Drain, DrainingHasDrainer
      <4> QED
        BY <2>4, <3>1, <4>1 DEF Drain, Lifecycle!Close
    <3>2. CASE PendingOn(s) # {}
      BY <2>4, <3>2 DEF Drain, Lifecycle!CloseAgain
    <3> QED
      BY <3>1, <3>2
  <2>5. ASSUME NEW s \in Slots, Deprovision(s) PROVE Lifecycle!Release(s)
    BY <2>5 DEF Deprovision, Lifecycle!Release
  <2>6. ASSUME NEW g \in Drainers, GraceEnds(g) PROVE UNCHANGED Lifecycle!vars
    BY <2>6 DEF GraceEnds, Lifecycle!vars
  <2>7. ASSUME NEW g \in Drainers, FinishDrain(g)
        PROVE \E s \in Slots : Lifecycle!End(s) \/ Lifecycle!EndLate(s)
    <3> DEFINE s == drainer[g].slot
    <3>0. s \in Slots /\ Running(g)
      BY <2>7 DEF FinishDrain, Running, Drain_Goroutine
    <3>1. CASE s \notin overlapped
      <4>1. state[s] = "draining"
        BY <3>0, <3>1 DEF DrainOwnsSlot
      <4> QED
        BY <2>7, <3>0, <4>1 DEF FinishDrain, Lifecycle!End, Lifecycle!EndFrom
    <3>2. CASE s \in overlapped
      BY <2>7, <3>0, <3>2 DEF FinishDrain, Lifecycle!EndLate, Lifecycle!EndFrom
    <3> QED
      BY <3>1, <3>2
  <2>8. CASE UNCHANGED vmVars
    BY <2>8 DEF vmVars, Lifecycle!vars
  <2> QED
    BY <2>1, <2>2, <2>3, <2>4, <2>5, <2>6, <2>7, <2>8 DEF Next, Goroutine, Lifecycle!Next
<1> QED
  BY <1>1, <1>2, TypeCorrect, DrainerSafety, DrainOwnership, PTL DEF Spec, LifecycleSpec, Lifecycle!Spec
=============================================================================
