---------------------------- MODULE SpawnProofs ----------------------------
(***************************************************************************)
(* Theorems about Spawn.tla, for every set of slots, calls, processes and  *)
(* drains.  The slots change by steps of VM only, so what VMProofs proves  *)
(* of them holds here as well; the rest is about the calls.                *)
(***************************************************************************)
EXTENDS Spawn, VMProofs

\* What SpawnTypeOK says besides the types of the slots, and that a call that
\* has come past Start has a process.
CallsOK == /\ pc \in [Spawners -> Label]
           /\ target \in [Spawners -> Slots]
           /\ child \in [Spawners -> Pids \cup {NoPid}]
           /\ proc \in [Pids -> ProcState]
           /\ sock \subseteq Slots
           /\ expired \subseteq Spawners /\ cancelled \subseteq Spawners
           /\ strays \subseteq Slots

HasChild == \A c \in Spawners : InFlight(c) => child[c] \in Pids

-----------------------------------------------------------------------------
\* The steps of Spawn are steps of VM.

\* Every step changes the slots as a method of VM does, or leaves them alone.
LEMMA SlotsStep ==
  ASSUME CallsOK, [SpawnNext]_vars
  PROVE  [Next]_vmVars
<1> USE DEF CallsOK, vmVars
<1>1. ASSUME NEW c \in Spawners, ProvisionChild(c) PROVE Next
  BY <1>1 DEF ProvisionChild, Next
<1>2. ASSUME NEW c \in Spawners, MarkChild(c) PROVE Next
  BY <1>2 DEF MarkChild, Next
<1>3. ASSUME NEW s \in Slots, OwnerStep(s) PROVE Next
  BY <1>3, SpawnAssumption DEF OwnerStep, OwnerAssigns, OwnerDrains, OwnerDeprovisions, Next
<1>4. ASSUME NEW g \in Drainers, DrainerStep(g) PROVE Next
  BY <1>4 DEF DrainerStep, Next
<1>5. ASSUME NEW c \in Spawners,
             \/ \E s \in Slots : CallSpawn(c, s)
             \/ CreatesSocket(c) \/ ContextDone(c) \/ DeadlinePasses(c)
             \/ \E p \in Pids : StartProcess(c, p)
             \/ StartFails(c) \/ PollStep(c) \/ ProvisionFails(c)
             \/ MarkFails(c) \/ Return(c)
      PROVE UNCHANGED vmVars
  BY <1>5 DEF CallSpawn, CreatesSocket, ContextDone, DeadlinePasses, StartProcess, StartFails,
              PollStep, SocketFound, SocketMissing, ExitedEarly, TimedOut, WaitToPoll,
              PollAgain, PollCancelled, LeavePoll, ProvisionFails, MarkFails, Return
<1>6. ASSUME NEW p \in Pids, Exits(p) PROVE UNCHANGED vmVars
  BY <1>6 DEF Exits
<1>7. CASE UNCHANGED vars
  BY <1>7 DEF vars
<1> QED
  BY <1>1, <1>2, <1>3, <1>4, <1>5, <1>6, <1>7 DEF SpawnNext, SpawnStep

-----------------------------------------------------------------------------
\* Types, and the process of a call.

\* A step of the poll changes the label of its call, and may kill its process.
LEMMA PollFrame ==
  ASSUME CallsOK, NEW c \in Spawners, PollStep(c)
  PROVE  /\ pc[c] \in Polling
         /\ \E label \in Polling \cup {"provision", "failed"} : pc' = [pc EXCEPT ![c] = label]
         /\ proc' \in {proc, [proc EXCEPT ![child[c]] = "ended"]}
         /\ expired' \subseteq expired /\ cancelled' \subseteq cancelled
         /\ UNCHANGED <<target, child, strays, sock>>
<1> USE DEF CallsOK, Polling, Goto, LeavePoll, osVars
<1>1. CASE SocketFound(c) \/ SocketMissing(c)
  BY <1>1 DEF SocketFound, SocketMissing
<1>2. CASE ExitedEarly(c) \/ WaitToPoll(c) \/ PollAgain(c)
  BY <1>2 DEF ExitedEarly, WaitToPoll, PollAgain
<1>3. CASE TimedOut(c) \/ PollCancelled(c)
  BY <1>3 DEF TimedOut, PollCancelled, Kill
<1> QED
  BY <1>1, <1>2, <1>3 DEF PollStep

\* No step takes a call out of its types or leaves it in flight with no process.
LEMMA CallsStep ==
  ASSUME CallsOK, HasChild, [SpawnNext]_vars
  PROVE  CallsOK' /\ HasChild'
<1> USE DEF CallsOK, HasChild, InFlight, Label, Polling, ProcState, Goto
<1>1. ASSUME NEW c \in Spawners, NEW s \in Slots, CallSpawn(c, s) PROVE CallsOK' /\ HasChild'
  BY <1>1 DEF CallSpawn, osVars
<1>2. ASSUME NEW c \in Spawners, NEW p \in Pids, StartProcess(c, p) PROVE CallsOK' /\ HasChild'
  BY <1>2 DEF StartProcess
<1>3. ASSUME NEW c \in Spawners, StartFails(c) PROVE CallsOK' /\ HasChild'
  BY <1>3 DEF StartFails, osVars
<1>4. ASSUME NEW c \in Spawners, PollStep(c) PROVE CallsOK' /\ HasChild'
  <2>1. PICK label \in Polling \cup {"provision", "failed"} : pc' = [pc EXCEPT ![c] = label]
    BY <1>4, PollFrame
  <2>2. /\ pc[c] \in Polling
        /\ proc' \in {proc, [proc EXCEPT ![child[c]] = "ended"]}
        /\ expired' \subseteq expired /\ cancelled' \subseteq cancelled
        /\ UNCHANGED <<target, child, strays, sock>>
    BY <1>4, PollFrame
  <2>3. CallsOK'
    BY <2>1, <2>2
  <2>4. HasChild'
    BY <2>1, <2>2
  <2> QED
    BY <2>3, <2>4
<1>5. ASSUME NEW c \in Spawners, ProvisionChild(c) \/ MarkChild(c) \/ MarkFails(c)
      PROVE CallsOK' /\ HasChild'
  BY <1>5 DEF ProvisionChild, MarkChild, MarkFails, osVars
<1>6. ASSUME NEW c \in Spawners, ProvisionFails(c) PROVE CallsOK' /\ HasChild'
  <2>1. /\ pc' = [pc EXCEPT ![c] = "failed"]
        /\ proc' \in {proc, [proc EXCEPT ![child[c]] = "ended"]}
        /\ UNCHANGED <<target, child, expired, cancelled, strays, sock>>
    BY <1>6 DEF ProvisionFails, Kill
  <2> QED
    BY <2>1
<1>7. ASSUME NEW c \in Spawners, Return(c) PROVE CallsOK' /\ HasChild'
  <2>1. (CHOOSE s \in Slots : TRUE) \in Slots
    OBVIOUS
  <2> DEFINE any == CHOOSE s \in Slots : TRUE
  <2> HIDE DEF any
  <2>2. /\ target' = [target EXCEPT ![c] = any] /\ any \in Slots
        /\ pc' = [pc EXCEPT ![c] = "idle"]
        /\ child' = [child EXCEPT ![c] = NoPid]
        /\ UNCHANGED <<proc, expired, cancelled, strays, sock>>
    BY <1>7, <2>1 DEF Return, osVars, any
  <2> QED
    BY <2>2
<1>8. ASSUME NEW c \in Spawners, CreatesSocket(c) \/ ContextDone(c) \/ DeadlinePasses(c)
      PROVE CallsOK' /\ HasChild'
  <2>1. CASE CreatesSocket(c)
    BY <2>1 DEF CreatesSocket, callVars
  <2>2. CASE ContextDone(c) \/ DeadlinePasses(c)
    BY <2>2 DEF ContextDone, DeadlinePasses, osVars
  <2> QED
    BY <1>8, <2>1, <2>2
<1>9. ASSUME NEW p \in Pids, Exits(p) PROVE CallsOK' /\ HasChild'
  BY <1>9 DEF Exits, callVars
<1>10. CASE \/ \E s \in Slots : OwnerStep(s)
            \/ \E g \in Drainers : DrainerStep(g)
            \/ UNCHANGED vars
  BY <1>10 DEF OwnerStep, OwnerAssigns, OwnerDrains, OwnerDeprovisions, DrainerStep,
               vars, callVars, osVars
<1> QED
  BY <1>1, <1>2, <1>3, <1>4, <1>5, <1>6, <1>7, <1>8, <1>9, <1>10 DEF SpawnNext, SpawnStep

\* The initial states have both.
LEMMA CallsInit == SpawnInit => CallsOK /\ HasChild
  BY DEF SpawnInit, CallsOK, HasChild, InFlight, Label, Polling, ProcState

LEMMA CallsAlways == SpawnSpec => [](CallsOK /\ HasChild)
<1>1. CallsOK /\ HasChild /\ [SpawnNext]_vars => (CallsOK /\ HasChild)'
  BY CallsStep
<1> QED
  BY <1>1, CallsInit, PTL DEF SpawnSpec

\* The slots below the calls of Spawn behave as VM says, so that the theorems
\* about VM hold of them.
THEOREM SpawnImplementsVM == SpawnSpec => Spec
<1>1. SpawnInit => Init
  BY DEF SpawnInit
<1>2. CallsOK /\ [SpawnNext]_vars => [Next]_vmVars
  BY SlotsStep
<1> QED
  BY <1>1, <1>2, CallsAlways, PTL DEF SpawnSpec, Spec

\* Every reachable state of slots, calls and processes is type-correct.
THEOREM SpawnType == SpawnSpec => []SpawnTypeOK
<1>1. TypeOK /\ CallsOK => SpawnTypeOK
  BY DEF SpawnTypeOK, CallsOK, Label, ProcState
<1> QED
  BY <1>1, SpawnImplementsVM, TypeCorrect, CallsAlways, PTL

-----------------------------------------------------------------------------
\* A call that fails.

\* Until its slot has taken the process over, a Spawn that fails leaves no
\* process behind (vm.go: every error path before Provision kills it, or has
\* seen it exit).
THEOREM FailedSpawnKillsHolds == SpawnSpec => FailedSpawnKills
<1> DEFINE Kills == \A c \in Spawners :
                        pc[c] \in Polling \cup {"provision"} /\ pc'[c] = "failed"
                            => ~Alive(child[c])'
<1>1. CallsOK /\ HasChild /\ [SpawnNext]_vars => [Kills]_vars
  <2> SUFFICES ASSUME CallsOK, HasChild, [SpawnNext]_vars, NEW c \in Spawners,
                      pc[c] \in Polling \cup {"provision"}, pc'[c] = "failed"
               PROVE  proc'[child'[c]] \notin {"started", "up"}
    BY DEF Alive
  <2> USE DEF CallsOK, Polling
  <2>0. child[c] \in Pids
    BY DEF HasChild, InFlight
  <2>1. ASSUME NEW d \in Spawners, SpawnStep(d) PROVE d = c
    <3>1. ASSUME PollStep(d), d # c PROVE pc'[c] = pc[c]
      BY <3>1, PollFrame
    <3>2. ASSUME ~PollStep(d), d # c PROVE pc'[c] = pc[c]
      BY <2>1, <3>2 DEF SpawnStep, StartProcess, StartFails, ProvisionChild, ProvisionFails,
                        MarkChild, MarkFails, Return, Goto
    <3> QED
      BY <3>1, <3>2
  <2>2. ASSUME NEW d \in Spawners, NEW s \in Slots, CallSpawn(d, s) PROVE FALSE
    BY <2>2 DEF CallSpawn, Goto
  <2>3. ASSUME \/ \E d \in Spawners : CreatesSocket(d) \/ ContextDone(d) \/ DeadlinePasses(d)
               \/ \E p \in Pids : Exits(p)
               \/ \E s \in Slots : OwnerStep(s)
               \/ \E g \in Drainers : DrainerStep(g)
               \/ UNCHANGED vars
        PROVE FALSE
    BY <2>3 DEF CreatesSocket, ContextDone, DeadlinePasses, Exits, OwnerStep, OwnerAssigns,
                OwnerDrains, OwnerDeprovisions, DrainerStep, vars, callVars
  <2>4. SpawnStep(c)
    BY <2>1, <2>2, <2>3 DEF SpawnNext
  <2>5. ExitedEarly(c) \/ TimedOut(c) \/ PollCancelled(c) \/ ProvisionFails(c)
    BY <2>4 DEF SpawnStep, PollStep, StartProcess, StartFails, SocketFound, SocketMissing,
                WaitToPoll, PollAgain, LeavePoll, ProvisionChild, MarkChild, MarkFails,
                Return, Goto
  <2>6. CASE ExitedEarly(c)
    BY <2>6 DEF ExitedEarly, LeavePoll
  <2>7. CASE TimedOut(c) \/ PollCancelled(c) \/ ProvisionFails(c)
    <3>1. Kill(child[c]) /\ child' = child
      BY <2>7 DEF TimedOut, PollCancelled, LeavePoll, ProvisionFails
    <3> QED
      BY <2>0, <3>1 DEF Kill, Alive
  <2> QED
    BY <2>5, <2>6, <2>7
<1> QED
  BY <1>1, CallsAlways, PTL DEF SpawnSpec, FailedSpawnKills

-----------------------------------------------------------------------------
\* A call that succeeds.

\* A call between Provision and MarkReady of a slot that is no stray.
Holds(c) == pc[c] = "mark" /\ target[c] \notin strays

\* It is the only one there, and no drain is left to disturb it.
Undisturbed == \A c, d \in Spawners : Holds(c) =>
                  /\ PendingOn(target[c]) = {}
                  /\ pc[d] = "mark" /\ target[d] = target[c] => d = c

Holding == SpawnHoldsSlot /\ Undisturbed

\* Holding survives every step: a slot is provisioned with no drain left on it,
\* and while it is provisioned Drain, Provision and Deprovision refuse it.
LEMMA HoldingStep ==
  ASSUME TypeOK, CallsOK, HasChild, Holding, [SpawnNext]_vars
  PROVE  Holding'
<1> USE DEF CallsOK
<1> DEFINE Held(c) == state[target[c]] = "provisioned" /\ pid[target[c]] = child[c]
           Rest == /\ strays' = strays
                   /\ \A c \in Spawners : pc'[c] = "mark" =>
                        pc[c] = "mark" /\ target'[c] = target[c] /\ child'[c] = child[c]
           Free(s) == \A g \in Drainers : Running(g) => drainer[g].slot # s
<1>0. /\ \A c \in Spawners : Holds(c) => Held(c) /\ Free(target[c])
      /\ \A c, d \in Spawners : Holds(c) /\ pc[d] = "mark" /\ target[c] = target[d] => c = d
  BY DEF Holding, SpawnHoldsSlot, Undisturbed, Holds, PendingOn
<1>a. ASSUME Rest,
             \A c \in Spawners : Holds(c) /\ pc'[c] = "mark" =>
                /\ state'[target[c]] = state[target[c]]
                /\ pid'[target[c]] = pid[target[c]]
                /\ \A g \in Drainers : Running(g)' => drainer'[g].slot # target[c]
      PROVE  Holding'
  <2>0. ASSUME NEW c \in Spawners, pc'[c] = "mark", target'[c] \notin strays'
        PROVE  Holds(c) /\ target'[c] = target[c] /\ child'[c] = child[c] /\ Held(c)
    BY <1>0, <1>a, <2>0 DEF Holds
  <2>1. SpawnHoldsSlot'
    BY <1>a, <2>0 DEF SpawnHoldsSlot
  <2>2. Undisturbed'
    BY <1>0, <1>a, <2>0 DEF Undisturbed, Holds, PendingOn
  <2> QED
    BY <2>1, <2>2 DEF Holding
<1>b. ASSUME Rest, UNCHANGED <<state, pid, drainer>> PROVE Holding'
  BY <1>0, <1>a, <1>b DEF Running
<1>1. ASSUME NEW d \in Spawners,
             \/ \E s \in Slots : CallSpawn(d, s)
             \/ \E p \in Pids : StartProcess(d, p)
             \/ StartFails(d) \/ ProvisionFails(d) \/ MarkFails(d) \/ Return(d)
      PROVE  Holding'
  <2>1. Rest
    BY <1>1 DEF CallSpawn, StartProcess, StartFails, ProvisionFails, MarkFails, Return, Goto
  <2>2. UNCHANGED <<state, pid, drainer>>
    BY <1>1 DEF CallSpawn, StartProcess, StartFails, ProvisionFails, MarkFails, Return, vmVars
  <2> QED
    BY <1>b, <2>1, <2>2
<1>2. ASSUME NEW d \in Spawners, PollStep(d) PROVE Holding'
  <2>1. Rest
    BY <1>2, PollFrame DEF Polling
  <2>2. UNCHANGED <<state, pid, drainer>>
    BY <1>2 DEF PollStep, SocketFound, SocketMissing, ExitedEarly, TimedOut, WaitToPoll,
                PollAgain, PollCancelled, LeavePoll, vmVars
  <2> QED
    BY <1>b, <2>1, <2>2
<1>3. ASSUME NEW d \in Spawners, ProvisionChild(d) PROVE Holding'
  <2>1. /\ state[target[d]] \in {"absent", "deprovisioned"}
        /\ state'[target[d]] = "provisioned"
        /\ pid'[target[d]] = child[d]
        /\ \A s \in Slots : s # target[d] => state'[s] = state[s] /\ pid'[s] = pid[s]
        /\ pc' = [pc EXCEPT ![d] = "mark"]
        /\ UNCHANGED <<target, child, drainer>>
    BY <1>3 DEF ProvisionChild, Provision, Goto, TypeOK
  <2>2. /\ strays \subseteq strays'
        /\ target[d] \notin strays' => Free(target[d])
        /\ \A s : s # target[d] /\ s \notin strays' => s \notin strays
    BY <1>3 DEF ProvisionChild, PendingOn
  <2>3. ASSUME NEW c \in Spawners, pc'[c] = "mark", target'[c] \notin strays', c # d
        PROVE  Holds(c) /\ Held(c) /\ Free(target[c]) /\ target[c] # target[d]
    BY <1>0, <2>1, <2>2, <2>3 DEF Holds
  <2>4. SpawnHoldsSlot'
    BY <2>1, <2>3 DEF SpawnHoldsSlot
  <2>5. ASSUME NEW c \in Spawners, pc'[c] = "mark", target'[c] \notin strays'
        PROVE  /\ \A g \in Drainers : Running(g)' => drainer'[g].slot # target'[c]
               /\ \A e \in Spawners : pc'[e] = "mark" /\ target'[e] = target'[c] => e = c
    <3>1. CASE c = d
      <4>1. ASSUME NEW e \in Spawners, pc'[e] = "mark", target'[e] = target'[d] PROVE e = d
        BY <2>1, <2>3, <2>5, <3>1, <4>1
      <4> QED
        BY <2>1, <2>2, <2>5, <3>1, <4>1 DEF Running
    <3>2. CASE c # d
      <4>1. Holds(c) /\ Free(target[c]) /\ target[c] # target[d]
        BY <2>3, <2>5, <3>2
      <4> QED
        BY <1>0, <2>1, <4>1 DEF Running
    <3> QED
      BY <3>1, <3>2
  <2>6. Undisturbed'
    BY <2>5 DEF Undisturbed, Holds, PendingOn
  <2> QED
    BY <2>4, <2>6 DEF Holding
<1>4. ASSUME NEW d \in Spawners, MarkChild(d) PROVE Holding'
  <2>1. /\ pc[d] = "mark"
        /\ \A s \in Slots : s # target[d] => state'[s] = state[s]
        /\ pc' = [pc EXCEPT ![d] = "done"]
        /\ UNCHANGED <<target, child, strays, pid, drainer>>
    BY <1>4 DEF MarkChild, MarkReady, Goto, TypeOK
  <2>2. Rest
    BY <2>1
  <2>3. \A c \in Spawners : Holds(c) /\ pc'[c] = "mark" => target[c] # target[d] /\ Free(target[c])
    BY <1>0, <2>1
  <2> QED
    BY <1>a, <2>1, <2>2, <2>3 DEF Running
<1>5. ASSUME NEW s \in Slots, OwnerStep(s) PROVE Holding'
  <2>1. Rest
    BY <1>5 DEF OwnerStep, OwnerAssigns, OwnerDrains, OwnerDeprovisions, callVars
  <2>2. CASE OwnerAssigns(s)
    BY <1>b, <2>1, <2>2 DEF OwnerAssigns, Assign
  <2>3. CASE OwnerDrains(s) \/ OwnerDeprovisions(s)
    <3>1. /\ state[s] \in {"ready", "draining", "idle"}
          /\ \A r \in Slots : r # s => state'[r] = state[r] /\ pid'[r] = pid[r]
          /\ \A g \in Drainers : drainer'[g] = drainer[g] \/ drainer'[g].slot = s
      BY <2>3 DEF OwnerDrains, OwnerDeprovisions, Drain, Deprovision, Launch, TypeOK
    <3>2. \A c \in Spawners : Holds(c) => target[c] # s
      BY <1>0, <3>1
    <3> QED
      BY <1>0, <1>a, <2>1, <3>1, <3>2 DEF Running
  <2> QED
    BY <1>5, <2>2, <2>3 DEF OwnerStep
<1>6. ASSUME NEW g \in Drainers, DrainerStep(g) PROVE Holding'
  <2>1. Rest
    BY <1>6 DEF DrainerStep, callVars
  <2>2. /\ Running(g) /\ drainer[g].slot \in Slots /\ pid' = pid
        /\ \A r \in Slots : r # drainer[g].slot => state'[r] = state[r]
        /\ \A h \in Drainers : drainer'[h] = drainer[h]
                               \/ drainer'[h] = NoDrain \/ drainer'[h].slot = drainer[g].slot
    <3>1. Running(g) /\ drainer[g] \in Drain_Goroutine
      BY <1>6 DEF DrainerStep, Goroutine, GraceEnds, FinishDrain, Running, TypeOK
    <3>2. CASE GraceEnds(g)
      BY <3>1, <3>2 DEF GraceEnds, Drain_Goroutine, TypeOK
    <3>3. CASE FinishDrain(g)
      BY <3>1, <3>3 DEF FinishDrain, Drain_Goroutine, TypeOK
    <3> QED
      BY <1>6, <3>2, <3>3 DEF DrainerStep, Goroutine
  <2>3. \A c \in Spawners : Holds(c) => target[c] # drainer[g].slot
    BY <1>0, <2>2
  <2> QED
    BY <1>0, <1>a, <2>1, <2>2, <2>3 DEF Running
<1>7. CASE \/ \E c \in Spawners : CreatesSocket(c) \/ ContextDone(c) \/ DeadlinePasses(c)
           \/ \E p \in Pids : Exits(p)
           \/ UNCHANGED vars
  <2>1. Rest /\ UNCHANGED <<state, pid, drainer>>
    BY <1>7 DEF CreatesSocket, ContextDone, DeadlinePasses, Exits, vars, callVars, vmVars
  <2> QED
    BY <1>b, <2>1
<1> QED
  BY <1>1, <1>2, <1>3, <1>4, <1>5, <1>6, <1>7 DEF SpawnNext, SpawnStep

\* From Provision to MarkReady a slot stays with the call that has provisioned
\* it, unless a drain was left over when a Spawn provisioned it (vm.go: Spawn
\* holds v.mu for neither the pair nor the poll).
THEOREM SpawnHoldsSlotHolds == SpawnSpec => []SpawnHoldsSlot
<1>1. SpawnInit => Holding
  BY DEF SpawnInit, Holding, SpawnHoldsSlot, Undisturbed, Holds
<1>2. TypeOK /\ CallsOK /\ HasChild /\ Holding /\ [SpawnNext]_vars => Holding'
  BY HoldingStep
<1>3. Holding => SpawnHoldsSlot
  BY DEF Holding
<1> QED
  BY <1>1, <1>2, <1>3, CallsAlways, SpawnImplementsVM, TypeCorrect, PTL DEF SpawnSpec
=============================================================================
