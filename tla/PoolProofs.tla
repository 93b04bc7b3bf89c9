----------------------------- MODULE PoolProofs -----------------------------
(***************************************************************************)
(* Theorems about Pool.tla, for every pool size and every set of callers.  *)
(* A step belongs to one caller or to none; a caller that takes no part in *)
(* it keeps its locals (Rests).  So the invariant is proved twice over:    *)
(* RestKeeps for a caller at rest, and one step per action for its own.    *)
(***************************************************************************)
EXTENDS Pool, VMProofs

\* Caller c takes no part in the step.
Rests(c) == /\ pc'[c] = pc[c] /\ at'[c] = at[c] /\ want'[c] = want[c]
            /\ mode'[c] = mode[c] /\ entry'[c] = entry[c] /\ count'[c] = count[c]

\* The history variables are updated by every step.
Watched == Observe \/ UNCHANGED vars

\* Every step of the pool extends the history, or is a stutter.
LEMMA StepWatched == [PoolNext]_vars => Watched
<1> USE DEF Watched
<1>1. ASSUME NEW d \in Callers, Call(d) PROVE Observe
  BY <1>1 DEF Call, CallAcquire, CallDrain, CallActive, CallStats
<1>2. ASSUME NEW d \in Callers, AcquireStep(d) PROVE Observe
  BY <1>2 DEF AcquireStep, AcquireLook, AcquireAssign, AcquireSkip, AcquireFails
<1>3. ASSUME NEW d \in Callers, DrainStep(d) PROVE Observe
  BY <1>3 DEF DrainStep, DrainLook, DrainAgain, DrainGo, DrainSkip, DrainReturns
<1>4. ASSUME NEW d \in Callers, ActiveStep(d) PROVE Observe
  BY <1>4 DEF ActiveStep, ActiveLook, ActiveAgain, ActiveReturns
<1>5. ASSUME NEW d \in Callers, StatsStep(d) PROVE Observe
  BY <1>5 DEF StatsStep, StatsRead, StatsReturns
<1> QED
  BY <1>1, <1>2, <1>3, <1>4, <1>5 DEF PoolNext, Proceed, OwnerStep, DrainerStep, Aside

\* A step of caller d leaves the others where they are.
LEMMA OthersRest ==
  ASSUME PoolTypeOK, NEW d \in Callers, Call(d) \/ Proceed(d)
  PROVE  \A c \in Callers \ {d} : Rests(c)
<1> USE DEF PoolTypeOK, Goto, NextSlot, Return, Begin, Rests
<1>1. CASE Call(d)
  BY <1>1 DEF Call, CallAcquire, CallDrain, CallActive, CallStats
<1>2. CASE AcquireStep(d)
  BY <1>2 DEF AcquireStep, AcquireLook, AcquireAssign, AcquireSkip, AcquireFails
<1>3. CASE DrainStep(d)
  BY <1>3 DEF DrainStep, DrainLook, DrainAgain, DrainGo, DrainSkip, DrainReturns
<1>4. CASE ActiveStep(d)
  BY <1>4 DEF ActiveStep, ActiveLook, ActiveAgain, ActiveReturns
<1>5. CASE StatsStep(d)
  BY <1>5 DEF StatsStep, StatsRead, StatsReturns
<1> QED
  BY <1>1, <1>2, <1>3, <1>4, <1>5 DEF Proceed

-----------------------------------------------------------------------------
\* Every step of the pool is a step of its slots, or leaves them alone.
LEMMA SlotStep ==
  ASSUME PoolTypeOK, LoopInBounds, ArgumentsInPlace, [PoolNext]_vars
  PROVE  [Next]_vmVars
<1> USE DEF PoolTypeOK, Next
<1>1. ASSUME NEW d \in Callers, Call(d) PROVE UNCHANGED vmVars
  BY <1>1 DEF Call, CallAcquire, CallDrain, CallActive, CallStats
<1>2. ASSUME NEW d \in Callers, AcquireStep(d) PROVE [Next]_vmVars
  <2>1. CASE AcquireAssign(d)
    <3>1. at[d] \in Slots /\ want[d] \in Sessions /\ Assign(at[d], want[d])
      BY <2>1, SlotsAssumption DEF AcquireAssign, LoopInBounds, ArgumentsInPlace
    <3> QED
      BY <3>1
  <2> QED
    BY <1>2, <2>1 DEF AcquireStep, AcquireLook, AcquireSkip, AcquireFails
<1>3. ASSUME NEW d \in Callers, DrainStep(d) PROVE [Next]_vmVars
  <2>1. ASSUME NEW g \in Drainers, DrainGo(d, g) PROVE [Next]_vmVars
    <3>1. at[d] \in Slots /\ mode[d] \in DrainMode /\ Drain(at[d], g, mode[d])
      BY <2>1, SlotsAssumption, ModesAssumption
         DEF DrainGo, LoopInBounds, ArgumentsInPlace, Unlocked
    <3> QED
      BY <3>1
  <2> QED
    BY <1>3, <2>1 DEF DrainStep, DrainLook, DrainAgain, DrainSkip, DrainReturns
<1>4. ASSUME NEW d \in Callers, ActiveStep(d) \/ StatsStep(d) PROVE UNCHANGED vmVars
  BY <1>4 DEF ActiveStep, ActiveLook, ActiveAgain, ActiveReturns, StatsStep, StatsRead, StatsReturns
<1>5. ASSUME NEW s \in Slots, OwnerStep(s) PROVE Next
  BY <1>5 DEF OwnerStep
<1>6. ASSUME NEW g \in Drainers, DrainerStep(g) PROVE Next
  BY <1>6 DEF DrainerStep
<1>7. CASE UNCHANGED vars
  BY <1>7 DEF vars
<1> QED
  BY <1>1, <1>2, <1>3, <1>4, <1>5, <1>6, <1>7 DEF PoolNext, Proceed

\* What an unlocked read yields.
LEMMA RacyReadType ==
  ASSUME TypeOK, NEW s \in Slots
  PROVE  RacyRead(s) \subseteq Sessions \cup {NoSession, Torn}
BY DEF TypeOK, RacyRead

\* The locals of one caller after a step of its own.
LEMMA CallerTypeStep ==
  ASSUME PoolTypeOK, LoopInBounds, NEW c \in Callers, Call(c) \/ Proceed(c)
  PROVE  /\ mu' \in Callers \cup {Nobody}
         /\ pc' \in [Callers -> Locked \cup Unlocked \cup {"idle"}]
         /\ at' \in [Callers -> 0 .. PoolSize]
         /\ want' \in [Callers -> Sessions \cup {NoSession}]
         /\ mode' \in [Callers -> Modes \cup {"none"}]
         /\ entry' \in [Callers -> [Slots -> Sessions \cup {NoSession, NoEntry, Torn}]]
         /\ count' \in [Callers -> [Slots -> VMState \cup {"unread"}]]
<1> DEFINE Typed == /\ mu' \in Callers \cup {Nobody}
                    /\ pc' \in [Callers -> Locked \cup Unlocked \cup {"idle"}]
                    /\ at' \in [Callers -> 0 .. PoolSize]
                    /\ want' \in [Callers -> Sessions \cup {NoSession}]
                    /\ mode' \in [Callers -> Modes \cup {"none"}]
                    /\ entry' \in [Callers -> [Slots -> Sessions \cup {NoSession, NoEntry, Torn}]]
                    /\ count' \in [Callers -> [Slots -> VMState \cup {"unread"}]]
<1> USE SlotsAssumption DEF PoolTypeOK, Locked, Unlocked, Goto, NextSlot, AtSlot
<1>0. ASSUME NEW label \in Locked \cup Unlocked, at[c] < PoolSize,
             (Goto(c, label) /\ UNCHANGED at) \/ NextSlot(c, label)
      PROVE  /\ pc' \in [Callers -> Locked \cup Unlocked \cup {"idle"}]
             /\ at' \in [Callers -> 0 .. PoolSize]
  <2>1. CASE Goto(c, label) /\ UNCHANGED at
    BY <1>0, <2>1
  <2>2. CASE NextSlot(c, label)
    <3>1. at[c] + 1 \in 0 .. PoolSize
      BY <1>0
    <3> QED
      BY <1>0, <2>2, <3>1
  <2> QED
    BY <1>0, <2>1, <2>2
<1>1. CASE Call(c)
  <2>1. ASSUME NEW id \in Sessions, CallAcquire(c, id) PROVE Typed
    BY <2>1 DEF CallAcquire, Begin, Lock
  <2>2. ASSUME NEW m \in Modes, CallDrain(c, m) PROVE Typed
    BY <2>2 DEF CallDrain, Begin
  <2>3. CASE CallActive(c)
    BY <2>3 DEF CallActive, Begin, Lock
  <2>4. CASE CallStats(c)
    BY <2>4 DEF CallStats, Begin, Lock
  <2> QED
    BY <1>1, <2>1, <2>2, <2>3, <2>4 DEF Call
<1>2. CASE AcquireStep(c)
  <2>1. CASE AcquireLook(c)
    <3>1. /\ at[c] < PoolSize
          /\ \/ Goto(c, "assign") /\ UNCHANGED at
             \/ NextSlot(c, "acquire")
      BY <2>1 DEF AcquireLook
    <3> QED
      BY <1>0, <2>1, <3>1 DEF AcquireLook
  <2>2. CASE AcquireAssign(c)
    BY <2>2 DEF AcquireAssign, Return, Unlock
  <2>3. CASE AcquireSkip(c)
    BY <2>3 DEF AcquireSkip, LoopInBounds
  <2>4. CASE AcquireFails(c)
    BY <2>4 DEF AcquireFails, Return, Unlock
  <2> QED
    BY <1>2, <2>1, <2>2, <2>3, <2>4 DEF AcquireStep
<1>3. CASE DrainStep(c)
  <2>1. CASE DrainLook(c)
    BY <2>1 DEF DrainLook
  <2>2. CASE DrainAgain(c)
    <3>1. /\ at[c] < PoolSize
          /\ \/ Goto(c, "drainGo") /\ UNCHANGED at
             \/ NextSlot(c, "drain")
      BY <2>2 DEF DrainAgain, LoopInBounds
    <3> QED
      BY <1>0, <2>2, <3>1 DEF DrainAgain
  <2>3. ASSUME NEW g \in Drainers, DrainGo(c, g) PROVE Typed
    BY <2>3 DEF DrainGo, LoopInBounds
  <2>4. CASE DrainSkip(c)
    BY <2>4 DEF DrainSkip, LoopInBounds
  <2>5. CASE DrainReturns(c)
    BY <2>5 DEF DrainReturns, Return
  <2> QED
    BY <1>3, <2>1, <2>2, <2>3, <2>4, <2>5 DEF DrainStep
<1>4. CASE ActiveStep(c)
  <2>1. CASE ActiveLook(c)
    <3>1. /\ at[c] < PoolSize
          /\ \/ Goto(c, "activeAgain") /\ UNCHANGED at
             \/ NextSlot(c, "active")
      BY <2>1 DEF ActiveLook
    <3> QED
      BY <1>0, <2>1, <3>1 DEF ActiveLook
  <2>2. CASE ActiveAgain(c)
    <3>1. PICK v \in RacyRead(at[c]) : entry' = [entry EXCEPT ![c][at[c]] = v]
      BY <2>2 DEF ActiveAgain
    <3>2. at[c] \in Slots /\ v \in Sessions \cup {NoSession, Torn}
      BY <2>2, <3>1, RacyReadType DEF ActiveAgain, LoopInBounds
    <3> QED
      BY <2>2, <3>1, <3>2 DEF ActiveAgain, LoopInBounds
  <2>3. CASE ActiveReturns(c)
    BY <2>3 DEF ActiveReturns, Return, Unlock
  <2> QED
    BY <1>4, <2>1, <2>2, <2>3 DEF ActiveStep
<1>5. CASE StatsStep(c)
  <2>1. CASE StatsRead(c)
    <3>1. at[c] \in Slots /\ state[at[c]] \in VMState
      BY <2>1 DEF StatsRead, TypeOK
    <3> QED
      BY <2>1, <3>1 DEF StatsRead
  <2>2. CASE StatsReturns(c)
    BY <2>2 DEF StatsReturns, Return, Unlock
  <2> QED
    BY <1>5, <2>1, <2>2 DEF StatsStep
<1> QED
  BY <1>1, <1>2, <1>3, <1>4, <1>5 DEF Proceed

\* One step of the pool keeps the types.
LEMMA PoolTypeStep ==
  ASSUME PoolTypeOK, LoopInBounds, ArgumentsInPlace, [PoolNext]_vars
  PROVE  PoolTypeOK'
<1>1. TypeOK'
  BY SlotStep, TypeStep DEF PoolTypeOK
<1>2. /\ steady' \in [Callers -> SUBSET Slots]
      /\ quiet' \in [Callers -> SUBSET Slots]
      /\ before' \in [Callers -> [Slots -> Sessions \cup {NoSession}]]
  <2>1. CASE Observe
    BY <1>1, <2>1 DEF PoolTypeOK, TypeOK, Observe, ReadySlots, QuietSlots
  <2>2. CASE UNCHANGED vars
    BY <2>2 DEF PoolTypeOK, vars, history
  <2> QED
    BY <2>1, <2>2, StepWatched DEF Watched
<1>3. ASSUME NEW c \in Callers, Call(c) \/ Proceed(c) PROVE PoolTypeOK'
  BY <1>1, <1>2, <1>3, CallerTypeStep DEF PoolTypeOK
<1>4. CASE UNCHANGED callVars
  BY <1>1, <1>2, <1>4 DEF PoolTypeOK, callVars
<1> QED
  BY <1>3, <1>4 DEF PoolNext, OwnerStep, DrainerStep, Aside, vars

-----------------------------------------------------------------------------
\* p.mu follows the locked calls.
LEMMA MutexStep ==
  ASSUME PoolTypeOK, MutexMatchesCalls, [PoolNext]_vars
  PROVE  MutexMatchesCalls'
<1> USE PoolNullsAssumption DEF PoolTypeOK, MutexMatchesCalls, Locked, Unlocked
<1>1. ASSUME NEW d \in Callers, Call(d) \/ Proceed(d),
             \A c \in Callers \ {d} : Rests(c)
      PROVE  MutexMatchesCalls'
  <2>1. \/ mu' = mu /\ (pc'[d] \in Locked <=> pc[d] \in Locked)
        \/ mu = Nobody /\ mu' = d /\ pc'[d] \in Locked
        \/ pc[d] \in Locked /\ mu' = Nobody /\ pc'[d] \notin Locked
    <3> USE DEF Goto, NextSlot, AtSlot, AtEnd, Return, Lock, Unlock, Begin
    <3>1. CASE Call(d)
      BY <3>1 DEF Call, CallAcquire, CallDrain, CallActive, CallStats
    <3>2. CASE AcquireStep(d)
      BY <3>2 DEF AcquireStep, AcquireLook, AcquireAssign, AcquireSkip, AcquireFails
    <3>3. CASE DrainStep(d)
      BY <3>3 DEF DrainStep, DrainLook, DrainAgain, DrainGo, DrainSkip, DrainReturns
    <3>4. CASE ActiveStep(d)
      BY <3>4 DEF ActiveStep, ActiveLook, ActiveAgain, ActiveReturns
    <3>5. CASE StatsStep(d)
      BY <3>5 DEF StatsStep, StatsRead, StatsReturns
    <3> QED
      BY <1>1, <3>1, <3>2, <3>3, <3>4, <3>5 DEF Proceed
  <2>2. \A c \in Callers \ {d} : pc'[c] = pc[c]
    BY <1>1 DEF Rests
  <2> QED
    BY <2>1, <2>2
<1>2. ASSUME UNCHANGED callVars PROVE MutexMatchesCalls'
  BY <1>2 DEF callVars
<1> QED
  BY <1>1, <1>2, OthersRest DEF PoolNext, OwnerStep, DrainerStep, Aside, vars

\* While a caller lists the sessions, a slot without a drain keeps its
\* session: Acquire, the only other writer, needs p.mu.
LEMMA SessionStays ==
  ASSUME PoolTypeOK, PoolInv, [PoolNext]_vars,
         NEW c \in Callers, pc[c] \in {"active", "activeAgain"},
         NEW s \in Slots, PendingOn(s) = {}
  PROVE  sessionID'[s] = sessionID[s]
<1> USE DEF PoolTypeOK, TypeOK
<1>1. ASSUME NEW d \in Callers, AcquireAssign(d) PROVE FALSE
  BY <1>1, PoolNullsAssumption DEF AcquireAssign, PoolInv, MutexMatchesCalls, Locked
<1>2. ASSUME NEW g \in Drainers, DrainerStep(g) PROVE sessionID'[s] = sessionID[s]
  BY <1>2 DEF DrainerStep, Goroutine, GraceEnds, FinishDrain, PendingOn, Running
<1>3. ASSUME NEW r \in Slots, OwnerStep(r) PROVE sessionID' = sessionID
  BY <1>3 DEF OwnerStep, Provision, MarkReady, Deprovision
<1>4. ASSUME NEW d \in Callers, Call(d) PROVE sessionID' = sessionID
  BY <1>4 DEF Call, CallAcquire, CallDrain, CallActive, CallStats, vmVars
<1>5. ASSUME NEW d \in Callers, AcquireStep(d) PROVE sessionID' = sessionID
  BY <1>1, <1>5 DEF AcquireStep, AcquireLook, AcquireSkip, AcquireFails, vmVars
<1>6. ASSUME NEW d \in Callers, DrainStep(d) PROVE sessionID' = sessionID
  BY <1>6 DEF DrainStep, DrainLook, DrainAgain, DrainGo, Drain, DrainSkip, DrainReturns, vmVars
<1>7. ASSUME NEW d \in Callers, ActiveStep(d) \/ StatsStep(d) PROVE sessionID' = sessionID
  BY <1>7 DEF ActiveStep, ActiveLook, ActiveAgain, ActiveReturns, StatsStep, StatsRead,
              StatsReturns, vmVars
<1>8. CASE UNCHANGED vars
  BY <1>8 DEF vars, vmVars
<1> QED
  BY <1>2, <1>3, <1>4, <1>5, <1>6, <1>7, <1>8 DEF PoolNext, Proceed

\* What the history variables of a caller in mid-call know after a step.
LEMMA HistoryStep ==
  ASSUME PoolTypeOK, PoolInv, [PoolNext]_vars, NEW c \in Callers, InCall(c)
  PROVE  /\ steady'[c] \subseteq steady[c] \cap ReadySlots'
         /\ quiet'[c] \subseteq quiet[c]
         /\ before'[c] = before[c]
         /\ quiet[c] \subseteq QuietSlots => quiet'[c] \subseteq QuietSlots'
<1>1. CASE Observe
  BY <1>1 DEF Observe
<1>2. CASE UNCHANGED vars
  <2>1. ReadySlots' = ReadySlots /\ QuietSlots' = QuietSlots
    BY <1>2 DEF vars, vmVars, ReadySlots, QuietSlots, PendingOn, Running
  <2> QED
    BY <1>2, <2>1 DEF vars, history, PoolInv, SteadyIsReady
<1> QED
  BY <1>1, <1>2, StepWatched DEF Watched

\* The part of PoolInv that is about one caller.
CallerInv(c) ==
    /\ steady[c] \subseteq ReadySlots
    /\ pc[c] \in {"assign", "activeAgain", "drainAgain", "drainGo"} => at[c] < PoolSize
    /\ pc[c] \in {"acquire", "assign"} => want[c] \in Sessions
    /\ pc[c] \in Unlocked => mode[c] \in Modes
    /\ pc[c] = "idle" => at[c] = 0 /\ entry[c] = [s \in Slots |-> NoEntry]
    /\ pc[c] \in {"acquire", "assign", "drain", "drainAgain", "drainGo"} =>
          steady[c] \cap Passed(c) = {}
    /\ pc[c] = "drainAgain" => at[c] \notin steady[c]
    /\ pc[c] \in {"active", "activeAgain"} =>
          \A s \in quiet[c] : /\ PendingOn(s) = {} /\ sessionID[s] = before[c][s]
                              /\ entry[c][s] = IF s \in Passed(c) /\ before[c][s] # NoSession
                                               THEN before[c][s] ELSE NoEntry
    /\ pc[c] = "activeAgain" /\ at[c] \in quiet[c] => before[c][at[c]] # NoSession
    /\ pc[c] = "stats" => \A s \in steady[c] \cap Passed(c) : count[c][s] = "ready"

LEMMA InvByCaller == PoolInv <=> MutexMatchesCalls /\ \A c \in Callers : CallerInv(c)
BY DEF PoolInv, CallerInv, SteadyIsReady, LoopInBounds, ArgumentsInPlace, ResultsClear,
       SearchPassedNone, AgainIsUnsteady, QuietKeepsSession, ActivePassed, ActiveAgainHolds,
       StatsPassed

\* A caller that takes no part in a step keeps its part of the invariant.
LEMMA RestKeeps ==
  ASSUME PoolTypeOK, PoolInv, [PoolNext]_vars, NEW c \in Callers, Rests(c)
  PROVE  CallerInv(c)'
<1> USE DEF PoolTypeOK
<1>1. CASE pc[c] = "idle"
  <2>1. steady'[c] \subseteq ReadySlots'
    <3>1. CASE Observe
      BY <1>1, <3>1 DEF Observe, InCall
    <3>2. CASE UNCHANGED vars
      BY <3>2 DEF vars, vmVars, history, ReadySlots, PoolInv, SteadyIsReady
    <3> QED
      BY <3>1, <3>2, StepWatched DEF Watched
  <2> QED
    BY <1>1, <2>1 DEF Rests, CallerInv, PoolInv, ResultsClear, Unlocked
<1>2. CASE pc[c] # "idle"
  <2>1. InCall(c)
    BY <1>2 DEF InCall, Rests
  <2>2. CallerInv(c)
    BY InvByCaller
  <2>3. /\ steady'[c] \subseteq steady[c] \cap ReadySlots'
        /\ quiet'[c] \subseteq quiet[c]
        /\ before'[c] = before[c]
    BY <2>1, HistoryStep
  <2>4. Passed(c)' = Passed(c)
    BY DEF Passed, Rests
  <2>5. ASSUME pc[c] \in {"active", "activeAgain"}, NEW s \in quiet'[c]
        PROVE  PendingOn(s)' = {} /\ sessionID'[s] = sessionID[s]
    <3>1. quiet[c] \subseteq QuietSlots
      BY <2>2, <2>5 DEF CallerInv, QuietSlots
    <3>2. s \in QuietSlots'
      BY <2>1, <2>5, <3>1, HistoryStep
    <3>3. PendingOn(s) = {} /\ s \in Slots
      BY <2>3, <2>5, <3>1 DEF QuietSlots
    <3> QED
      BY <2>5, <3>2, <3>3, SessionStays DEF QuietSlots
  <2> QED
    BY <2>2, <2>3, <2>4, <2>5 DEF CallerInv, Rests
<1> QED
  BY <1>1, <1>2

\* A caller that begins a call establishes its part of the invariant.
LEMMA BeginEstablishes ==
  ASSUME PoolTypeOK, PoolInv, NEW c \in Callers, Call(c)
  PROVE  CallerInv(c)'
<1> USE DEF PoolTypeOK
<1>1. /\ pc[c] = "idle"
      /\ pc'[c] \in {"acquire", "drain", "active", "stats"}
      /\ at' = at /\ entry' = entry /\ UNCHANGED vmVars /\ Observe
      /\ pc'[c] = "acquire" => want'[c] \in Sessions
      /\ pc'[c] = "drain" => mode'[c] \in Modes
  BY DEF Call, CallAcquire, CallDrain, CallActive, CallStats, Begin, Goto
<1>2. at'[c] = 0 /\ entry'[c] = [s \in Slots |-> NoEntry]
  BY <1>1 DEF PoolInv, ResultsClear
<1>3. Passed(c)' = {}
  BY <1>2, SlotsAssumption DEF Passed
<1>4. steady'[c] = ReadySlots' /\ quiet'[c] = QuietSlots' /\ before'[c] = sessionID'
  BY <1>1 DEF Observe, InCall
<1> QED
  BY <1>1, <1>2, <1>3, <1>4 DEF CallerInv, Unlocked, QuietSlots

\* One iteration more: the slots passed are those passed before and this one.
LEMMA PassedGrows ==
  ASSUME PoolTypeOK, NEW c \in Callers, NEW label, NextSlot(c, label)
  PROVE  /\ at'[c] = at[c] + 1
         /\ Passed(c)' = Passed(c) \cup ({at[c]} \cap Slots)
         /\ pc'[c] = label
BY SlotsAssumption DEF PoolTypeOK, NextSlot, Goto, Passed

\* Returning establishes the invariant of an idle caller.
LEMMA ReturnEstablishes ==
  ASSUME PoolTypeOK, PoolInv, [PoolNext]_vars, NEW c \in Callers, pc[c] # "idle", Return(c)
  PROVE  CallerInv(c)'
<1> USE DEF PoolTypeOK
<1>1. pc'[c] = "idle" /\ at'[c] = 0 /\ entry'[c] = [s \in Slots |-> NoEntry]
  BY DEF Return, Goto
<1>2. Observe
  BY <1>1, StepWatched DEF Watched, vars, callVars
<1>3. steady'[c] \subseteq ReadySlots'
  BY <1>1, <1>2 DEF Observe, InCall
<1> QED
  BY <1>1, <1>3 DEF CallerInv, Unlocked

\* A caller inside Acquire or Drain keeps its part of the invariant.
LEMMA SearchKeeps ==
  ASSUME PoolTypeOK, PoolInv, [PoolNext]_vars, NEW c \in Callers,
         AcquireStep(c) \/ DrainStep(c)
  PROVE  CallerInv(c)'
<1> USE DEF PoolTypeOK
<1>1. CallerInv(c) /\ at[c] \in 0 .. PoolSize
  BY InvByCaller
<1>2. ASSUME InCall(c) PROVE steady'[c] \subseteq steady[c] \cap ReadySlots'
  BY <1>2, HistoryStep
<1>3. CASE AcquireLook(c)
  <2> USE DEF AcquireLook, AtSlot
  <2>1. CASE state[at[c]] = "ready"
    <3>1. Goto(c, "assign") /\ UNCHANGED <<at, want>> /\ pc[c] = "acquire"
      BY <1>3, <2>1
    <3>2. pc'[c] = "assign" /\ Passed(c)' = Passed(c)
      BY <3>1 DEF Goto, Passed
    <3> QED
      BY <1>1, <1>2, <1>3, <3>1, <3>2 DEF CallerInv, InCall, Unlocked
  <2>2. CASE state[at[c]] # "ready"
    <3>1. NextSlot(c, "acquire") /\ UNCHANGED want /\ pc[c] = "acquire"
      BY <1>3, <2>2
    <3>2. at[c] \notin steady[c]
      BY <1>1, <2>2 DEF CallerInv, ReadySlots
    <3> QED
      BY <1>1, <1>2, <3>1, <3>2, PassedGrows DEF CallerInv, InCall, Unlocked
  <2> QED
    BY <2>1, <2>2
<1>4. CASE AcquireAssign(c) \/ AcquireFails(c) \/ DrainReturns(c)
  BY <1>4, ReturnEstablishes DEF AcquireAssign, AcquireFails, DrainReturns, AtEnd
<1>5. CASE AcquireSkip(c)
  <2>1. NextSlot(c, "acquire") /\ UNCHANGED want /\ pc[c] = "assign"
    BY <1>5 DEF AcquireSkip
  <2>2. at[c] \notin steady[c]
    BY <1>1, <1>5 DEF AcquireSkip, CallerInv, ReadySlots
  <2> QED
    BY <1>1, <1>2, <2>1, <2>2, PassedGrows DEF CallerInv, InCall, Unlocked
<1>6. CASE DrainLook(c)
  <2>1. /\ pc[c] = "drain" /\ at[c] < PoolSize /\ UNCHANGED <<at, mode, state>>
        /\ \/ pc'[c] = "drainGo"
           \/ pc'[c] = "drainAgain" /\ state[at[c]] # "ready"
    BY <1>6 DEF DrainLook, AtSlot, Goto, vmVars
  <2>2. Passed(c)' = Passed(c) /\ ReadySlots' = ReadySlots
    BY <2>1 DEF Passed, ReadySlots
  <2> QED
    BY <1>1, <1>2, <2>1, <2>2 DEF CallerInv, InCall, Unlocked, ReadySlots
<1>7. CASE DrainAgain(c)
  <2>1. CASE state[at[c]] = "draining"
    <3>1. pc[c] = "drainAgain" /\ pc'[c] = "drainGo" /\ UNCHANGED <<at, mode>>
      BY <1>7, <2>1 DEF DrainAgain, Goto
    <3>2. Passed(c)' = Passed(c)
      BY <3>1 DEF Passed
    <3> QED
      BY <1>1, <1>2, <3>1, <3>2 DEF CallerInv, InCall, Unlocked
  <2>2. CASE state[at[c]] # "draining"
    <3>1. pc[c] = "drainAgain" /\ NextSlot(c, "drain") /\ UNCHANGED mode
      BY <1>7, <2>2 DEF DrainAgain
    <3> QED
      BY <1>1, <1>2, <3>1, PassedGrows DEF CallerInv, InCall, Unlocked
  <2> QED
    BY <2>1, <2>2
<1>8. ASSUME NEW g \in Drainers, DrainGo(c, g) PROVE CallerInv(c)'
  <2>1. pc[c] = "drainGo" /\ NextSlot(c, "drain") /\ UNCHANGED mode /\ Drain(at[c], g, mode[c])
    BY <1>8 DEF DrainGo
  <2>2. at[c] \notin ReadySlots'
    BY <2>1 DEF Drain, ReadySlots, TypeOK
  <2>3. InCall(c)
    BY <2>1, PassedGrows DEF InCall
  <2> QED
    BY <1>1, <1>2, <2>1, <2>2, <2>3, PassedGrows DEF CallerInv, Unlocked
<1>9. CASE DrainSkip(c)
  <2>1. /\ pc[c] = "drainGo" /\ NextSlot(c, "drain") /\ UNCHANGED mode
        /\ at[c] \notin ReadySlots
    BY <1>9 DEF DrainSkip, ReadySlots
  <2>2. InCall(c)
    BY <2>1, PassedGrows DEF InCall
  <2> QED
    BY <1>1, <1>2, <2>1, <2>2, PassedGrows DEF CallerInv, Unlocked
<1> QED
  BY <1>3, <1>4, <1>5, <1>6, <1>7, <1>8, <1>9 DEF AcquireStep, DrainStep

\* A caller inside ActiveSessions or Stats keeps its part of the invariant.
LEMMA SurveyKeeps ==
  ASSUME PoolTypeOK, PoolInv, [PoolNext]_vars, NEW c \in Callers,
         ActiveStep(c) \/ StatsStep(c)
  PROVE  CallerInv(c)'
<1> USE DEF PoolTypeOK
<1>1. CallerInv(c) /\ at[c] \in 0 .. PoolSize
  BY InvByCaller
<1>2. UNCHANGED vmVars
  BY DEF ActiveStep, ActiveLook, ActiveAgain, ActiveReturns, StatsStep, StatsRead, StatsReturns
<1>3. ReadySlots' = ReadySlots /\ \A s \in Slots : PendingOn(s)' = PendingOn(s)
  BY <1>2 DEF vmVars, ReadySlots, PendingOn, Running
<1>4. ASSUME InCall(c)
      PROVE  /\ steady'[c] \subseteq steady[c] \cap ReadySlots'
             /\ quiet'[c] \subseteq quiet[c] /\ before'[c] = before[c]
  BY <1>4, HistoryStep
<1>5. CASE ActiveLook(c)
  <2>1. CASE sessionID[at[c]] = NoSession
    <3>1. /\ pc[c] = "active" /\ NextSlot(c, "active") /\ at[c] \in Slots
          /\ UNCHANGED <<entry, sessionID>>
      BY <1>2, <1>5, <2>1, SlotsAssumption DEF ActiveLook, AtSlot, vmVars
    <3>2. InCall(c)
      BY <3>1, PassedGrows DEF InCall
    <3>3. ASSUME NEW s \in quiet'[c]
          PROVE  /\ PendingOn(s)' = {} /\ sessionID'[s] = before'[c][s]
                 /\ entry'[c][s] = IF s \in Passed(c)' /\ before'[c][s] # NoSession
                                   THEN before'[c][s] ELSE NoEntry
      BY <1>1, <1>3, <1>4, <2>1, <3>1, <3>2, <3>3, PassedGrows DEF CallerInv
    <3> QED
      BY <1>4, <3>1, <3>2, <3>3, PassedGrows DEF CallerInv, Unlocked
  <2>2. CASE sessionID[at[c]] # NoSession
    <3>1. /\ pc[c] = "active" /\ pc'[c] = "activeAgain" /\ at'[c] = at[c] /\ at[c] < PoolSize
          /\ UNCHANGED <<entry, sessionID>>
      BY <1>2, <1>5, <2>2 DEF ActiveLook, AtSlot, Goto, vmVars
    <3>2. InCall(c) /\ Passed(c)' = Passed(c)
      BY <3>1 DEF InCall, Passed
    <3> QED
      BY <1>1, <1>3, <1>4, <2>2, <3>1, <3>2 DEF CallerInv, Unlocked
  <2> QED
    BY <2>1, <2>2
<1>6. CASE ActiveAgain(c)
  <2>1. PICK v \in RacyRead(at[c]) : entry' = [entry EXCEPT ![c][at[c]] = v]
    BY <1>6 DEF ActiveAgain
  <2>2. /\ pc[c] = "activeAgain" /\ NextSlot(c, "active") /\ at[c] \in Slots /\ UNCHANGED sessionID
    BY <1>1, <1>2, <1>6, SlotsAssumption DEF ActiveAgain, CallerInv, vmVars
  <2>3. InCall(c)
    BY <2>2, PassedGrows DEF InCall
  <2>4. ASSUME at[c] \in quiet[c] PROVE v = before[c][at[c]] /\ v # NoSession
    BY <1>1, <2>1, <2>2, <2>4 DEF CallerInv, RacyRead
  <2>5. ASSUME NEW s \in quiet'[c]
        PROVE  /\ PendingOn(s)' = {} /\ sessionID'[s] = before'[c][s]
               /\ entry'[c][s] = IF s \in Passed(c)' /\ before'[c][s] # NoSession
                                 THEN before'[c][s] ELSE NoEntry
    <3>1. s \in quiet[c] /\ s \in Slots /\ before'[c] = before[c]
      BY <1>4, <2>3, <2>5
    <3>2. PendingOn(s)' = {} /\ sessionID'[s] = before'[c][s]
      BY <1>1, <1>3, <2>2, <3>1 DEF CallerInv
    <3>3. CASE s = at[c]
      <4>1. entry'[c][s] = v
        BY <2>1, <2>2, <3>3
      <4> QED
        BY <2>2, <2>4, <3>1, <3>2, <3>3, <4>1, PassedGrows
    <3>4. CASE s # at[c]
      <4>1. entry'[c][s] = entry[c][s]
        BY <2>1, <2>2, <3>4
      <4>2. s \in Passed(c)' <=> s \in Passed(c)
        BY <2>2, <3>4, PassedGrows
      <4> QED
        BY <1>1, <2>2, <3>1, <3>2, <4>1, <4>2 DEF CallerInv
    <3> QED
      BY <3>3, <3>4
  <2> QED
    BY <1>4, <2>2, <2>3, <2>5, PassedGrows DEF CallerInv, Unlocked
<1>7. CASE StatsRead(c)
  <2>1. /\ pc[c] = "stats" /\ NextSlot(c, "stats") /\ at[c] \in Slots
        /\ count' = [count EXCEPT ![c][at[c]] = state[at[c]]]
    BY <1>7, SlotsAssumption DEF StatsRead, AtSlot
  <2>2. InCall(c)
    BY <2>1, PassedGrows DEF InCall
  <2>3. ASSUME NEW s \in steady'[c] \cap Passed(c)' PROVE count'[c][s] = "ready"
    <3>1. s \in steady[c] /\ s \in Slots /\ state[s] = "ready"
      BY <1>1, <1>4, <2>2, <2>3 DEF CallerInv, ReadySlots
    <3>2. s = at[c] \/ s \in Passed(c)
      BY <2>1, <2>3, PassedGrows
    <3> QED
      BY <1>1, <2>1, <3>1, <3>2 DEF CallerInv
  <2> QED
    BY <1>4, <2>1, <2>2, <2>3, PassedGrows DEF CallerInv, Unlocked
<1>8. CASE ActiveReturns(c) \/ StatsReturns(c)
  BY <1>8, ReturnEstablishes DEF ActiveReturns, StatsReturns, AtEnd
<1> QED
  BY <1>5, <1>6, <1>7, <1>8 DEF ActiveStep, StatsStep

-----------------------------------------------------------------------------
LEMMA InvStep == PoolTypeOK /\ PoolInv /\ [PoolNext]_vars => PoolInv'
<1> SUFFICES ASSUME PoolTypeOK, PoolInv, [PoolNext]_vars PROVE PoolInv'
  OBVIOUS
<1>1. MutexMatchesCalls'
  BY MutexStep DEF PoolInv
<1>2. ASSUME NEW c \in Callers PROVE CallerInv(c)'
  <2>1. CASE Call(c)
    BY <2>1, BeginEstablishes
  <2>2. CASE Proceed(c)
    BY <2>2, SearchKeeps, SurveyKeeps DEF Proceed
  <2>3. ASSUME NEW d \in Callers, Call(d) \/ Proceed(d), d # c PROVE CallerInv(c)'
    BY <2>3, OthersRest, RestKeeps
  <2>4. CASE UNCHANGED callVars
    BY <2>4, RestKeeps DEF callVars, Rests
  <2> QED
    BY <2>1, <2>2, <2>3, <2>4 DEF PoolNext, OwnerStep, DrainerStep, Aside, vars
<1>3. (MutexMatchesCalls /\ \A c \in Callers : CallerInv(c))'
  BY <1>1, <1>2
<1> QED
  BY <1>3, InvByCaller, PTL

\* The types and the loop invariant of the pool hold in every state, whatever
\* the number of slots, callers and goroutines.
THEOREM PoolSafety == PoolSpec => [](PoolTypeOK /\ PoolInv)
<1>1. PoolInit => PoolTypeOK /\ PoolInv
  <2> SUFFICES ASSUME PoolInit PROVE PoolTypeOK /\ PoolInv
    OBVIOUS
  <2>1. TypeOK
    BY DEF PoolInit, Init, TypeOK, VMState
  <2>2. \A s \in Slots : PendingOn(s) = {}
    BY DEF PoolInit, Init, PendingOn, Running
  <2> QED
    BY <2>1, <2>2, SlotsAssumption, PoolNullsAssumption, InvByCaller
       DEF PoolInit, Init, PoolTypeOK, MutexMatchesCalls, Locked, Unlocked, CallerInv
<1>2. PoolTypeOK /\ PoolInv /\ [PoolNext]_vars => (PoolTypeOK /\ PoolInv)'
  BY InvStep, PoolTypeStep DEF PoolInv
<1> QED
  BY <1>1, <1>2, PTL DEF PoolSpec

\* Acquire fails only if no slot stayed ready and free while it searched.
THEOREM AcquireComplete == PoolSpec => []AcquireMissesNoFreeSlot
<1>1. PoolTypeOK /\ PoolInv => AcquireMissesNoFreeSlot
  BY SlotsAssumption DEF PoolTypeOK, PoolInv, SearchPassedNone, AcquireMissesNoFreeSlot,
                         AtEnd, Passed
<1> QED
  BY <1>1, PoolSafety, PTL

\* Drain leaves no slot that was ready when it was called, and has stayed so.
THEOREM DrainComplete == PoolSpec => []DrainMissesNoSteadySlot
<1>1. PoolTypeOK /\ PoolInv => DrainMissesNoSteadySlot
  BY SlotsAssumption DEF PoolTypeOK, PoolInv, SearchPassedNone, DrainMissesNoSteadySlot,
                         AtEnd, Passed
<1> QED
  BY <1>1, PoolSafety, PTL

\* ActiveSessions returns the sessions of one moment, but for slots on which a
\* drain is running.
THEOREM ActiveConsistent == PoolSpec => []ActiveIsSnapshot
<1>1. PoolTypeOK /\ PoolInv => ActiveIsSnapshot
  BY SlotsAssumption DEF PoolTypeOK, PoolInv, ActivePassed, ActiveIsSnapshot, AtEnd, Passed
<1> QED
  BY <1>1, PoolSafety, PTL

\* Stats counts as ready every slot that stayed ready.
THEOREM StatsComplete == PoolSpec => []StatsCountSteadySlots
<1>1. PoolTypeOK /\ PoolInv => StatsCountSteadySlots
  BY SlotsAssumption DEF PoolTypeOK, PoolInv, StatsPassed, StatsCountSteadySlots, AtEnd, Passed
<1> QED
  BY <1>1, PoolSafety, PTL

\* Every behaviour of the pool is, for its slots, a behaviour of VM: what is
\* proved of VM in VMProofs holds of the slots of a pool.
THEOREM PoolImplementsVM == PoolSpec => SlotsFollowVM
<1>1. PoolInit => Init
  BY DEF PoolInit
<1>2. PoolTypeOK /\ PoolInv /\ [PoolNext]_vars => [Next]_vmVars
  BY SlotStep DEF PoolInv
<1> QED
  BY <1>1, <1>2, PoolSafety, PTL DEF PoolSpec, SlotsFollowVM, Spec
=============================================================================
