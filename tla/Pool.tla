-------------------------------- MODULE Pool --------------------------------
(***************************************************************************)
(* The pool of pkg/pool/pool.go over the slots of VM.tla.  Callers run     *)
(* Acquire, Drain, ActiveSessions and Stats (Available is Stats restricted *)
(* to one state) concurrently with the goroutines of earlier drains and    *)
(* with the owner of the slots, who provisions, readies and deprovisions   *)
(* them.  p.mu is held for the whole of a call except Drain, which only    *)
(* copies the slice under it.  v.mu is taken and released at every look at *)
(* a slot, so a slot can change between the look and what follows from it. *)
(* ActiveSessions takes no v.mu at all and reads sessionID twice.          *)
(***************************************************************************)
EXTENDS VM, Integers

CONSTANTS PoolSize,    \* number of slots of the pool
          Modes,       \* drain modes the callers ask for
          Callers,     \* goroutines that call the pool, one call at a time
          Nobody,      \* p.mu is free
          NoEntry,     \* a slot that has no key in the map ActiveSessions builds
          Torn         \* a string header read while it is being written

ASSUME SlotsAssumption == PoolSize \in Nat /\ Slots = 0 .. PoolSize - 1
ASSUME ModesAssumption == Modes \subseteq DrainMode
ASSUME PoolNullsAssumption == /\ Nobody \notin Callers
                              /\ NoEntry # NoSession /\ NoEntry # Torn /\ Torn # NoSession
                              /\ {NoEntry, Torn} \cap Sessions = {}

VARIABLES mu,          \* holder of p.mu, or Nobody
          pc,          \* pc[c]: what caller c executes next
          at,          \* at[c]: the slot its loop has come to
          want,        \* want[c]: session passed to Acquire
          mode,        \* mode[c]: mode passed to Drain
          entry,       \* entry[c]: the map ActiveSessions builds, by slot
          count        \* count[c]: the state Stats read, by slot

\* History: what stayed true of the slots since the current call began.
VARIABLES steady,      \* steady[c]: slots that were ready all along
          quiet,       \* quiet[c]: slots on which no drain was running
          before       \* before[c]: sessionID when the call began

callVars == <<mu, pc, at, want, mode, entry, count>>
history == <<steady, quiet, before>>
vars == <<vmVars, callVars, history>>

Locked == {"acquire", "assign", "active", "activeAgain", "stats"}
Unlocked == {"drain", "drainAgain", "drainGo"}

PoolTypeOK == /\ TypeOK
              /\ mu \in Callers \cup {Nobody}
              /\ pc \in [Callers -> Locked \cup Unlocked \cup {"idle"}]
              /\ at \in [Callers -> 0 .. PoolSize]
              /\ want \in [Callers -> Sessions \cup {NoSession}]
              /\ mode \in [Callers -> Modes \cup {"none"}]
              /\ entry \in [Callers -> [Slots -> Sessions \cup {NoSession, NoEntry, Torn}]]
              /\ count \in [Callers -> [Slots -> VMState \cup {"unread"}]]
              /\ steady \in [Callers -> SUBSET Slots]
              /\ quiet \in [Callers -> SUBSET Slots]
              /\ before \in [Callers -> [Slots -> Sessions \cup {NoSession}]]

-----------------------------------------------------------------------------
\* Helpers.

QuietSlots == {s \in Slots : PendingOn(s) = {}}

\* The history variables follow every step; an idle caller's are those of a
\* call that would begin now.
InCall(c) == pc[c] # "idle" /\ pc'[c] # "idle"
Observe ==
    /\ steady' = [c \in Callers |-> IF InCall(c) THEN steady[c] \cap ReadySlots' ELSE ReadySlots']
    /\ quiet' = [c \in Callers |-> IF InCall(c) THEN quiet[c] \cap QuietSlots' ELSE QuietSlots']
    /\ before' = [c \in Callers |-> IF InCall(c) THEN before[c] ELSE sessionID']

\* A step of the slots in which no caller of the pool takes part.
Aside == UNCHANGED callVars /\ Observe

AtSlot(c, label) == pc[c] = label /\ at[c] < PoolSize
AtEnd(c, label) == pc[c] = label /\ at[c] = PoolSize
Goto(c, label) == pc' = [pc EXCEPT ![c] = label]
NextSlot(c, label) == /\ at' = [at EXCEPT ![c] = @ + 1]
                      /\ Goto(c, label)

\* A call begins at slot 0; its locals and its result are gone with its return.
Begin(c, label) == pc[c] = "idle" /\ Goto(c, label)
Return(c) == /\ Goto(c, "idle")
             /\ at' = [at EXCEPT ![c] = 0]
             /\ want' = [want EXCEPT ![c] = NoSession]
             /\ mode' = [mode EXCEPT ![c] = "none"]
             /\ entry' = [entry EXCEPT ![c] = [s \in Slots |-> NoEntry]]
             /\ count' = [count EXCEPT ![c] = [s \in Slots |-> "unread"]]

Lock(c) == mu = Nobody /\ mu' = c
Unlock(c) == mu' = Nobody

\* What an unlocked read of sessionID can yield: the value, or half of it
\* while a goroutine that holds v.mu is clearing it.
RacyRead(s) == {sessionID[s]} \cup
    IF /\ sessionID[s] # NoSession
       /\ \E g \in PendingOn(s) : drainer[g].wait = "due"
    THEN {Torn} ELSE {}

-----------------------------------------------------------------------------
\* Acquire: the first ready slot gets the session.

CallAcquire(c, id) == /\ Begin(c, "acquire") /\ Lock(c)
                      /\ want' = [want EXCEPT ![c] = id]
                      /\ UNCHANGED <<vmVars, at, mode, entry, count>> /\ Observe

\* vm.State() == ready
AcquireLook(c) == /\ AtSlot(c, "acquire")
                  /\ IF state[at[c]] = "ready"
                     THEN Goto(c, "assign") /\ UNCHANGED at
                     ELSE NextSlot(c, "acquire")
                  /\ UNCHANGED <<vmVars, mu, want, mode, entry, count>> /\ Observe

BadAcquireAssign(c) == /\ pc[c] = "assign"
                       /\ sessionID' = [sessionID EXCEPT ![at[c]] = want[c]]
                       /\ UNCHANGED <<state, pid, drainer, overlapped>>
                       /\ Return(c) /\ Unlock(c) /\ Observe

\* vm.Assign succeeds and Acquire returns the slot.
AcquireAssign(c) == /\ pc[c] = "assign"
                    /\ Assign(at[c], want[c])
                    /\ Return(c) /\ Unlock(c) /\ Observe

BadAcquireSkip(c) == /\ pc[c] = "assign" /\ state[at[c]] # "ready"
                     /\ at' = [at EXCEPT ![c] = PoolSize] /\ Goto(c, "acquire")
                     /\ UNCHANGED <<vmVars, mu, want, mode, entry, count>> /\ Observe

\* vm.Assign fails, the slot has left ready since the look: try the next one.
AcquireSkip(c) == /\ pc[c] = "assign" /\ state[at[c]] # "ready"
                  /\ NextSlot(c, "acquire")
                  /\ UNCHANGED <<vmVars, mu, want, mode, entry, count>> /\ Observe

\* "no VMs available in pool"
AcquireFails(c) == /\ AtEnd(c, "acquire")
                   /\ Return(c) /\ Unlock(c)
                   /\ UNCHANGED vmVars /\ Observe

-----------------------------------------------------------------------------
\* Drain: every slot that looks ready or draining is drained.

\* The slice is copied under p.mu; the slots themselves are shared.
CallDrain(c, m) == /\ Begin(c, "drain") /\ mu = Nobody
                   /\ mode' = [mode EXCEPT ![c] = m]
                   /\ UNCHANGED <<vmVars, mu, at, want, entry, count>> /\ Observe

BadDrainLook(c) == /\ AtSlot(c, "drain")
                   /\ Goto(c, IF state[at[c]] = "ready" /\ sessionID[at[c]] # NoSession
                              THEN "drainGo" ELSE "drainAgain")
                   /\ UNCHANGED <<vmVars, mu, at, want, mode, entry, count>> /\ Observe

\* First operand of the condition: vm.State() == ready.
DrainLook(c) == /\ AtSlot(c, "drain")
                /\ Goto(c, IF state[at[c]] = "ready" THEN "drainGo" ELSE "drainAgain")
                /\ UNCHANGED <<vmVars, mu, at, want, mode, entry, count>> /\ Observe

\* Second operand, a second look: vm.State() == draining.
DrainAgain(c) == /\ pc[c] = "drainAgain"
                 /\ IF state[at[c]] = "draining"
                    THEN Goto(c, "drainGo") /\ UNCHANGED at
                    ELSE NextSlot(c, "drain")
                 /\ UNCHANGED <<vmVars, mu, want, mode, entry, count>> /\ Observe

\* vm.Drain succeeds; its channel is discarded.
DrainGo(c, g) == /\ pc[c] = "drainGo"
                 /\ Drain(at[c], g, mode[c])
                 /\ NextSlot(c, "drain")
                 /\ UNCHANGED <<mu, want, mode, entry, count>> /\ Observe

\* vm.Drain fails, the slot has left both states; the error is discarded.
DrainSkip(c) == /\ pc[c] = "drainGo" /\ state[at[c]] \notin {"ready", "draining"}
                /\ NextSlot(c, "drain")
                /\ UNCHANGED <<vmVars, mu, want, mode, entry, count>> /\ Observe

DrainReturns(c) == /\ AtEnd(c, "drain")
                   /\ Return(c)
                   /\ UNCHANGED <<vmVars, mu>> /\ Observe

-----------------------------------------------------------------------------
\* ActiveSessions: a map of the sessions, read without v.mu.

BadCallActive(c) == /\ Begin(c, "active") /\ mu' = mu
                    /\ UNCHANGED <<vmVars, at, want, mode, entry, count>> /\ Observe

CallActive(c) == /\ Begin(c, "active") /\ Lock(c)
                 /\ UNCHANGED <<vmVars, at, want, mode, entry, count>> /\ Observe

\* vm.sessionID != ""
ActiveLook(c) == /\ AtSlot(c, "active")
                 /\ IF sessionID[at[c]] = NoSession
                    THEN NextSlot(c, "active")
                    ELSE Goto(c, "activeAgain") /\ UNCHANGED at
                 /\ UNCHANGED <<vmVars, mu, want, mode, entry, count>> /\ Observe

\* m[vm.slotIndex] = vm.sessionID, a second read
ActiveAgain(c) == /\ pc[c] = "activeAgain"
                  /\ \E v \in RacyRead(at[c]) : entry' = [entry EXCEPT ![c][at[c]] = v]
                  /\ NextSlot(c, "active")
                  /\ UNCHANGED <<vmVars, mu, want, mode, count>> /\ Observe

ActiveReturns(c) == /\ AtEnd(c, "active")
                    /\ Return(c) /\ Unlock(c)
                    /\ UNCHANGED vmVars /\ Observe

-----------------------------------------------------------------------------
\* Stats and Available: how many slots are in each state.

CallStats(c) == /\ Begin(c, "stats") /\ Lock(c)
                /\ UNCHANGED <<vmVars, at, want, mode, entry, count>> /\ Observe

BadStatsRead(c) == /\ AtSlot(c, "stats")
                   /\ count' = [count EXCEPT ![c][at[c]] = IF sessionID[at[c]] = NoSession
                                                           THEN state[at[c]] ELSE "draining"]
                   /\ NextSlot(c, "stats")
                   /\ UNCHANGED <<vmVars, mu, want, mode, entry>> /\ Observe

StatsRead(c) == /\ AtSlot(c, "stats")
                /\ count' = [count EXCEPT ![c][at[c]] = state[at[c]]]
                /\ NextSlot(c, "stats")
                /\ UNCHANGED <<vmVars, mu, want, mode, entry>> /\ Observe

StatsReturns(c) == /\ AtEnd(c, "stats")
                   /\ Return(c) /\ Unlock(c)
                   /\ UNCHANGED vmVars /\ Observe

-----------------------------------------------------------------------------
\* The specification.

PoolInit == /\ Init
            /\ mu = Nobody
            /\ pc = [c \in Callers |-> "idle"]
            /\ at = [c \in Callers |-> 0]
            /\ want = [c \in Callers |-> NoSession]
            /\ mode = [c \in Callers |-> "none"]
            /\ entry = [c \in Callers |-> [s \in Slots |-> NoEntry]]
            /\ count = [c \in Callers |-> [s \in Slots |-> "unread"]]
            /\ steady = [c \in Callers |-> {}]
            /\ quiet = [c \in Callers |-> Slots]
            /\ before = [c \in Callers |-> sessionID]

AcquireStep(c) == AcquireLook(c) \/ AcquireAssign(c) \/ AcquireSkip(c) \/ AcquireFails(c)
DrainStep(c) == \/ DrainLook(c) \/ DrainAgain(c) \/ DrainSkip(c) \/ DrainReturns(c)
                \/ \E g \in Drainers : DrainGo(c, g)
ActiveStep(c) == ActiveLook(c) \/ ActiveAgain(c) \/ ActiveReturns(c)
StatsStep(c) == StatsRead(c) \/ StatsReturns(c)

Call(c) == \/ \E id \in Sessions : CallAcquire(c, id)
           \/ \E m \in Modes : CallDrain(c, m)
           \/ CallActive(c)
           \/ CallStats(c)
Proceed(c) == AcquireStep(c) \/ DrainStep(c) \/ ActiveStep(c) \/ StatsStep(c)

\* The owner of the slots, and the goroutines of drains.
OwnerStep(s) == \/ \E p \in Pids \cup {NoPid} : Provision(s, p) /\ Aside
                \/ MarkReady(s) /\ Aside
                \/ Deprovision(s) /\ Aside
DrainerStep(g) == Goroutine(g) /\ Aside

PoolNext == \/ \E c \in Callers : Call(c) \/ Proceed(c)
            \/ \E s \in Slots : OwnerStep(s)
            \/ \E g \in Drainers : DrainerStep(g)

PoolSpec == PoolInit /\ [][PoolNext]_vars

-----------------------------------------------------------------------------
\* Properties.

\* p.mu is held by exactly the caller that is inside a locked call, so two
\* calls of Acquire, ActiveSessions or Stats never overlap.
MutexMatchesCalls == \A c \in Callers : pc[c] \in Locked <=> mu = c

\* Acquire reports "no VMs available" only if no slot was ready and free all
\* along: each slot it went past has left ready or runs a session, or became
\* ready behind it.  A slot that drains between the look and vm.Assign does not
\* end the search.
AcquireMissesNoFreeSlot ==
    \A c \in Callers : AtEnd(c, "acquire") => \A s \in steady[c] : sessionID[s] # NoSession

\* When Drain returns, no slot that was ready when it was called has stayed
\* ready: what drains, assignments and owners do meanwhile hides none.
DrainMissesNoSteadySlot == \A c \in Callers : AtEnd(c, "drain") => steady[c] = {}

\* Where no drain was running, the map ActiveSessions returns is the state of
\* the sessions at one moment (when it took p.mu): Acquire cannot slip a
\* session in between two of its reads.
ActiveIsSnapshot ==
    \A c \in Callers : AtEnd(c, "active") =>
        \A s \in quiet[c] : entry[c][s] = IF before[c][s] = NoSession THEN NoEntry
                                          ELSE before[c][s]

\* Stats and Available count every slot that stayed ready as ready.
StatsCountSteadySlots ==
    \A c \in Callers : AtEnd(c, "stats") => \A s \in steady[c] : count[c][s] = "ready"

\* The pool moves its slots only by the operations of VM: the invariants of
\* VM.tla hold of the slots of a pool.
SlotsFollowVM == Spec

\* The inductive invariant: what each loop has established of the slots it
\* has gone past.
Passed(c) == {s \in Slots : s < at[c]}

SteadyIsReady == \A c \in Callers : steady[c] \subseteq ReadySlots
LoopInBounds == \A c \in Callers :
    pc[c] \in {"assign", "activeAgain", "drainAgain", "drainGo"} => at[c] < PoolSize
SearchPassedNone == \A c \in Callers :
    pc[c] \in {"acquire", "assign", "drain", "drainAgain", "drainGo"} => steady[c] \cap Passed(c) = {}
AgainIsUnsteady == \A c \in Callers : pc[c] = "drainAgain" => at[c] \notin steady[c]
QuietKeepsSession == \A c \in Callers : pc[c] \in {"active", "activeAgain"} =>
    \A s \in quiet[c] : PendingOn(s) = {} /\ sessionID[s] = before[c][s]
ActivePassed == \A c \in Callers : pc[c] \in {"active", "activeAgain"} =>
    \A s \in quiet[c] :
        entry[c][s] = IF s \in Passed(c) /\ before[c][s] # NoSession THEN before[c][s] ELSE NoEntry
ActiveAgainHolds == \A c \in Callers :
    pc[c] = "activeAgain" /\ at[c] \in quiet[c] => before[c][at[c]] # NoSession
StatsPassed == \A c \in Callers : pc[c] = "stats" =>
    \A s \in steady[c] \cap Passed(c) : count[c][s] = "ready"

ArgumentsInPlace == \A c \in Callers :
    /\ pc[c] \in {"acquire", "assign"} => want[c] \in Sessions
    /\ pc[c] \in Unlocked => mode[c] \in Modes
ResultsClear == \A c \in Callers : pc[c] = "idle" =>
    /\ at[c] = 0
    /\ entry[c] = [s \in Slots |-> NoEntry]

PoolInv == /\ MutexMatchesCalls /\ SteadyIsReady /\ LoopInBounds
           /\ ArgumentsInPlace /\ ResultsClear
           /\ SearchPassedNone /\ AgainIsUnsteady
           /\ QuietKeepsSession /\ ActivePassed /\ ActiveAgainHolds
           /\ StatsPassed

\* "Acquire reserves a ready VM": a slot that already runs a session is not
\* handed out again.
AcquireReserves ==
    [][\A c \in Callers : AcquireAssign(c) => sessionID[at[c]] = NoSession]_vars
=============================================================================
