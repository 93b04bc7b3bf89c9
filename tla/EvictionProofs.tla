---------------------------- MODULE EvictionProofs ----------------------------
(***************************************************************************)
(* Theorems about Migrator.tla in SpotEviction.tla, for every number of    *)
(* hosts, slots and sessions: the manifest is complete and truthful, and   *)
(* the eviction implements SessionMigration.tla.                           *)
(***************************************************************************)
EXTENDS SpotEviction, FiniteSetTheorems, TLAPS

\* Sequences.
LEMMA Appending == ASSUME NEW S, NEW q \in Seq(S), NEW x \in S
                   PROVE  /\ Append(q, x) \in Seq(S) /\ Len(q) \in Nat
                          /\ Len(Append(q, x)) = Len(q) + 1
                          /\ Append(q, x)[Len(q) + 1] = x
                          /\ \A i \in 1 .. Len(q) : Append(q, x)[i] = q[i]
  OBVIOUS

LEMMA Tailing == ASSUME NEW S, NEW q \in Seq(S), q # <<>>
                 PROVE  /\ Head(q) = q[1] /\ Head(q) \in S /\ Tail(q) \in Seq(S)
                        /\ Len(q) \in Nat /\ Len(q) >= 1 /\ Len(Tail(q)) = Len(q) - 1
                        /\ \A i \in 1 .. (Len(q) - 1) : Tail(q)[i] = q[i + 1]
  OBVIOUS

-----------------------------------------------------------------------------
\* The inductive invariant.

ArgType == active \in [Slots -> Entry] /\ addrs \subseteq Slots
WorkType == worker \in [Slots -> {"none", "dial", "sent", "reported"}] /\ todo \subseteq ActiveSlots
SeqType == results \in Seq(Result) /\ manifest \in Seq(SessionMigration)
GuestType == /\ reply \in [Slots -> {"none", "ack", "nack", "closed"}]
             /\ guest \in [Slots -> {"running", "checkpointed"}]
Types == ArgType /\ WorkType /\ SeqType /\ GuestType

\* A slot of which the result is still to come.
Open(s) == s \in todo \/ worker[s] \in {"dial", "sent"}

\* Before the call nothing has happened; a slot is in hand at most once.
Idle == phase = "idle" => /\ results = <<>> /\ manifest = <<>>
                          /\ \A s \in Slots : worker[s] = "none"
InHand == \A s \in Slots : worker[s] \in {"dial", "sent"} => s \in ActiveSlots /\ s \notin todo

\* Every result and every entry is of an active slot that is no longer open,
\* and no slot has two.
Entered(q) == /\ \A i \in 1 .. Len(q) : q[i].slot \in ActiveSlots /\ ~Open(q[i].slot)
              /\ \A i, j \in 1 .. Len(q) : q[i].slot = q[j].slot => i = j
Apart == \A i \in 1 .. Len(results), j \in 1 .. Len(manifest) : results[i].slot # manifest[j].slot
Once == Entered(results) /\ Entered(manifest) /\ Apart

Counted == phase \in Persisting \cup {"done"} => Len(manifest) = Cardinality(ActiveSlots)
Files == /\ dest \in {"absent", "complete"}
         /\ dest = "complete" => phase = "done"
         /\ phase = "written" => tmp = "complete"

MigInv == Types /\ Idle /\ InHand /\ Once /\ Counted /\ Files

\* An answer is of what the guest has done, and so is what is made of it.
Truthful == /\ \A s \in Slots : reply[s] = "ack" => guest[s] = "checkpointed"
            /\ \A i \in 1 .. Len(results) : results[i].ok => guest[results[i].slot] = "checkpointed"
            /\ PendingIsCheckpointed

-----------------------------------------------------------------------------
LEMMA InitInv == EvictionInit => MigInv /\ Truthful
<1> SUFFICES ASSUME EvictionInit PROVE MigInv /\ Truthful
  OBVIOUS
<1> USE DEF EvictionInit, MigInit
<1>1. Types
  BY DEF Types, Entry, ArgType, WorkType, SeqType, GuestType
<1>2. Idle /\ InHand /\ Counted /\ Files
  BY DEF Idle, InHand, Counted, Files, Persisting
<1>3. Once
  BY DEF Once, Entered, Apart
<1>4. Truthful
  BY DEF Truthful, PendingIsCheckpointed
<1> QED
  BY <1>1, <1>2, <1>3, <1>4 DEF MigInv

\* A slot that is open gets its result.
LEMMA ReportStep == ASSUME Types, Once, NEW s \in Slots, s \in ActiveSlots, Open(s), NEW ok \in BOOLEAN,
                           Report(s, ok), todo' = todo \ {s}, UNCHANGED <<active, manifest>>
                    PROVE  Once' /\ SeqType' /\ WorkType'
<1> DEFINE x == [slot |-> s, ok |-> ok]
<1>1. results \in Seq(Result) /\ x \in Result
  BY DEF Types, SeqType, Result
<1>2. /\ results' \in Seq(Result) /\ Len(results) \in Nat /\ Len(results') = Len(results) + 1
      /\ results'[Len(results) + 1].slot = s
      /\ \A i \in 1 .. Len(results) : results'[i] = results[i]
  BY <1>1, Appending DEF Report
<1>3. ActiveSlots' = ActiveSlots
  BY DEF ActiveSlots
<1>4. \A r \in Slots : Open(r)' => Open(r) /\ r # s
  BY DEF Types, WorkType, Report, Open
<1>5. \A i \in 1 .. Len(results) : results[i].slot \in ActiveSlots /\ ~Open(results[i].slot)
  BY DEF Once, Entered
<1>6. ActiveSlots \subseteq Slots
  BY DEF ActiveSlots
<1>7. \A i \in 1 .. Len(results') : i \in 1 .. Len(results) \/ i = Len(results) + 1
  BY <1>2
<1>8. Entered(results)'
  BY <1>2, <1>3, <1>4, <1>5, <1>6, <1>7 DEF Once, Entered
<1>9. Entered(manifest)'
  BY <1>3, <1>4, <1>6 DEF Once, Entered
<1>10. Apart'
  BY <1>2, <1>7 DEF Once, Entered, Apart
<1>11. SeqType' /\ WorkType'
  BY <1>2, <1>3 DEF Types, SeqType, WorkType, Report
<1> QED
  BY <1>8, <1>9, <1>10, <1>11 DEF Once

\* A result becomes an entry.
LEMMA GatherStep == ASSUME Types, Once, Gather PROVE Once' /\ SeqType'
<1> DEFINE x == [slot |-> Head(results).slot, status |-> IF Head(results).ok THEN "pending" ELSE "failed"]
<1>1. results \in Seq(Result) /\ manifest \in Seq(SessionMigration) /\ results # <<>>
  BY DEF Types, SeqType, Gather
<1>2. /\ Head(results) = results[1] /\ Head(results) \in Result
      /\ results' \in Seq(Result) /\ Len(results) \in Nat /\ Len(results) >= 1
      /\ Len(results') = Len(results) - 1
      /\ \A i \in 1 .. (Len(results) - 1) : results'[i] = results[i + 1]
  BY <1>1, Tailing DEF Gather
<1>3. x \in SessionMigration
  BY <1>2 DEF Result, SessionMigration
<1>4. /\ manifest' \in Seq(SessionMigration) /\ Len(manifest) \in Nat
      /\ Len(manifest') = Len(manifest) + 1
      /\ manifest'[Len(manifest) + 1].slot = results[1].slot
      /\ \A i \in 1 .. Len(manifest) : manifest'[i] = manifest[i]
  BY <1>1, <1>2, <1>3, Appending DEF Gather
<1>5. ActiveSlots' = ActiveSlots /\ todo' = todo /\ worker' = worker
  BY DEF Gather, argVars, ActiveSlots
<1>6. \A i \in 1 .. Len(results') : i + 1 \in 1 .. Len(results) /\ results'[i] = results[i + 1] /\ i + 1 # 1
  BY <1>2
<1>7. \A i \in 1 .. Len(manifest') : i \in 1 .. Len(manifest) \/ i = Len(manifest) + 1
  BY <1>4
<1>8. 1 \in 1 .. Len(results)
  BY <1>2
<1>9. Entered(results)'
  <2>1. ASSUME NEW i \in 1 .. Len(results')
        PROVE  results'[i].slot \in ActiveSlots /\ ~Open(results'[i].slot)
    BY <1>6 DEF Once, Entered
  <2>2. ASSUME NEW i \in 1 .. Len(results'), NEW j \in 1 .. Len(results'), results'[i].slot = results'[j].slot
        PROVE  i = j
    <3>1. i + 1 = j + 1
      BY <1>6, <2>2 DEF Once, Entered
    <3> QED
      BY <3>1
  <2> QED
    BY <2>1, <2>2, <1>5 DEF Entered, Open
<1>10. Entered(manifest)'
  <2>1. ASSUME NEW i \in 1 .. Len(manifest')
        PROVE  manifest'[i].slot \in ActiveSlots /\ ~Open(manifest'[i].slot)
    BY <1>4, <1>7, <1>8 DEF Once, Entered
  <2>2. ASSUME NEW i \in 1 .. Len(manifest'), NEW j \in 1 .. Len(manifest'), manifest'[i].slot = manifest'[j].slot
        PROVE  i = j
    BY <1>4, <1>7, <1>8, <2>2 DEF Once, Entered, Apart
  <2> QED
    BY <2>1, <2>2, <1>5 DEF Entered, Open
<1>11. Apart'
  <2>1. ASSUME NEW i \in 1 .. Len(results'), NEW j \in 1 .. Len(manifest')
        PROVE  results'[i].slot # manifest'[j].slot
    <3>1. CASE j \in 1 .. Len(manifest)
      BY <1>4, <1>6, <3>1 DEF Once, Apart
    <3>2. CASE j = Len(manifest) + 1
      BY <1>4, <1>6, <1>8, <3>2 DEF Once, Entered
    <3> QED
      BY <1>7, <3>1, <3>2
  <2> QED
    BY <2>1 DEF Apart
<1> QED
  BY <1>2, <1>4, <1>9, <1>10, <1>11 DEF Once, SeqType

\* What a step of the migrator leaves alone.
SameWork == UNCHANGED <<active, addrs, todo, worker, results, manifest>>

LEMMA SameWorkStep == ASSUME MigInv, SameWork
                      PROVE  ArgType' /\ WorkType' /\ SeqType' /\ InHand' /\ Once' /\ ActiveSlots' = ActiveSlots
<1>1. ActiveSlots' = ActiveSlots
  BY DEF SameWork, ActiveSlots
<1> QED
  BY <1>1 DEF MigInv, Types, SameWork, ArgType, WorkType, SeqType, InHand, Once, Entered, Apart, Open

LEMMA ReportingStep == ASSUME MigInv, phase \in Working, NEW s \in Slots, s \in ActiveSlots, Open(s),
                              NEW ok \in BOOLEAN, Report(s, ok), todo' = todo \ {s},
                              UNCHANGED <<phase, active, addrs, manifest, guestVars, fileVars>>
                       PROVE  MigInv'
<1>1. Once' /\ SeqType' /\ WorkType'
  BY ReportStep DEF MigInv
<1>2. ArgType' /\ GuestType'
  BY DEF MigInv, Types, ArgType, GuestType, guestVars
<1>3. InHand'
  BY DEF MigInv, Types, WorkType, InHand, Report, ActiveSlots
<1>4. Idle' /\ Counted' /\ Files'
  BY DEF MigInv, Idle, Counted, Files, fileVars, Working, Persisting
<1> QED
  BY <1>1, <1>2, <1>3, <1>4 DEF MigInv, Types

LEMMA MigrateStep ==
    ASSUME MigInv, NEW sessions \in [Slots -> Entry], NEW addresses \in SUBSET Slots,
           NEW left, NEW hasDir, MigrateAll(sessions, addresses, left, hasDir)
    PROVE  MigInv'
<1>1. results = <<>> /\ manifest = <<>> /\ \A s \in Slots : worker[s] = "none"
  BY DEF MigrateAll, MigInv, Idle
<1>2. /\ phase' = "fanout" /\ active' = sessions /\ addrs' = addresses
      /\ todo' = {s \in Slots : sessions[s] # NoSession}
      /\ UNCHANGED <<worker, results, manifest, guestVars, fileVars>> /\ phase = "idle"
  BY DEF MigrateAll
<1>3. Types'
  BY <1>2 DEF MigInv, Types, ArgType, WorkType, SeqType, GuestType, guestVars, ActiveSlots
<1>4. Idle' /\ InHand' /\ Counted' /\ Files'
  BY <1>1, <1>2 DEF MigInv, Idle, InHand, Counted, Files, fileVars, Persisting
<1>5. Once'
  BY <1>1, <1>2 DEF Once, Entered, Apart
<1> QED
  BY <1>3, <1>4, <1>5 DEF MigInv

LEMMA MigStepInv == MigInv /\ MigStep => MigInv'
<1> SUFFICES ASSUME MigInv, MigStep PROVE MigInv'
  OBVIOUS
<1>a. Types /\ Idle /\ InHand /\ Once /\ Counted /\ Files
  BY DEF MigInv
<1>b. ASSUME SameWork, GuestType', Idle', Counted', Files' PROVE MigInv'
  BY <1>b, SameWorkStep DEF MigInv, Types
<1>c. ASSUME SameWork, UNCHANGED guestVars, phase # "idle", phase' # "idle",
             phase' \in Persisting \cup {"done"} => Len(manifest) = Cardinality(ActiveSlots), Files'
      PROVE  MigInv'
  <2>1. GuestType' /\ Idle' /\ Counted'
    BY <1>a, <1>c, SameWorkStep DEF Types, GuestType, guestVars, Idle, Counted, SameWork
  <2> QED
    BY <1>b, <1>c, <2>1
<1>1. ASSUME NEW s \in Slots, FanOut(s) PROVE MigInv'
  <2>1. s \in ActiveSlots /\ Open(s) /\ phase \in Working
    BY <1>1, <1>a DEF FanOut, Types, WorkType, Open, Working
  <2>2. CASE s \notin addrs
    BY <1>1, <2>1, <2>2, ReportingStep DEF FanOut, argVars
  <2>3. CASE s \in addrs
    <3>0. /\ worker' = [worker EXCEPT ![s] = "dial"] /\ todo' = todo \ {s}
          /\ UNCHANGED <<phase, active, addrs, results, manifest, guestVars, fileVars>>
      BY <1>1, <2>3 DEF FanOut, argVars
    <3>1. ActiveSlots' = ActiveSlots
      BY <3>0 DEF ActiveSlots
    <3>2. Types' /\ InHand'
      BY <1>a, <2>1, <3>0, <3>1 DEF Types, ArgType, WorkType, SeqType, GuestType, guestVars, InHand
    <3>3. Idle' /\ Counted' /\ Files'
      BY <1>a, <2>1, <3>0, <3>1 DEF Idle, Counted, Files, fileVars, Working, Persisting
    <3>4. \A r \in Slots : Open(r)' => Open(r)
      BY <1>a, <2>1, <3>0 DEF Types, WorkType, Open
    <3>5. ActiveSlots \subseteq Slots
      BY DEF ActiveSlots
    <3>6. Once'
      BY <1>a, <3>0, <3>1, <3>4, <3>5 DEF Once, Entered, Apart
    <3> QED
      BY <3>2, <3>3, <3>6 DEF MigInv
  <2> QED
    BY <2>2, <2>3
<1>2. CASE FanOutEnds
  <2>1. Files'
    BY <1>2, <1>a DEF FanOutEnds, Files, fileVars
  <2> QED
    BY <1>2, <1>c, <2>1 DEF FanOutEnds, SameWork, argVars, workVars, Persisting
<1>3. CASE Gather
  <2>1. Once' /\ SeqType'
    BY <1>3, <1>a, GatherStep
  <2>2. UNCHANGED <<phase, active, addrs, todo, worker, guestVars, fileVars>> /\ phase = "gather"
    BY <1>3 DEF Gather, argVars
  <2>3. ArgType' /\ WorkType' /\ GuestType' /\ InHand' /\ Files' /\ Idle' /\ Counted'
    BY <1>a, <2>2 DEF Types, ArgType, WorkType, GuestType, InHand, Files, Idle, Counted, ActiveSlots,
       guestVars, fileVars, Persisting
  <2> QED
    BY <2>1, <2>3 DEF MigInv, Types
<1>4. CASE GatherEnds
  <2>1. Files'
    BY <1>4, <1>a DEF GatherEnds, Files, fileVars
  <2> QED
    BY <1>4, <1>c, <2>1 DEF GatherEnds, SameWork, argVars, workVars
<1>5. CASE WriteBegins \/ WriteEnds \/ RenameManifest \/ PersistFails
  <2>1. phase \in Persisting /\ phase' \in Persisting \cup {"done"} /\ phase' # "idle" /\ phase # "idle"
    BY <1>5 DEF WriteBegins, WriteEnds, RenameManifest, PersistFails, Persisting
  <2>2. Files'
    BY <1>5, <1>a DEF WriteBegins, WriteEnds, RenameManifest, PersistFails, Files, Persisting
  <2>3. SameWork /\ UNCHANGED guestVars
    BY <1>5 DEF WriteBegins, WriteEnds, RenameManifest, PersistFails, SameWork, argVars, workVars
  <2> QED
    BY <1>a, <1>c, <2>1, <2>2, <2>3 DEF Counted
<1>6. ASSUME NEW s \in Slots, DialAndSend(s) PROVE MigInv'
  <2>0. /\ worker[s] = "dial" /\ worker' = [worker EXCEPT ![s] = "sent"] /\ phase \in Working
        /\ UNCHANGED <<phase, active, addrs, todo, results, manifest, reply, guest, fileVars>>
    BY <1>6 DEF DialAndSend, argVars
  <2>1. ActiveSlots' = ActiveSlots
    BY <2>0 DEF ActiveSlots
  <2>2. Types' /\ InHand'
    BY <1>a, <2>0, <2>1 DEF Types, ArgType, WorkType, SeqType, GuestType, InHand
  <2>3. Idle' /\ Counted' /\ Files'
    BY <1>a, <2>0, <2>1 DEF Idle, Counted, Files, fileVars, Working, Persisting
  <2>4. \A r \in Slots : Open(r)' => Open(r)
    BY <1>a, <2>0 DEF Types, WorkType, Open
  <2>5. ActiveSlots \subseteq Slots
    BY DEF ActiveSlots
  <2>6. Once'
    BY <1>a, <2>0, <2>1, <2>4, <2>5 DEF Once, Entered, Apart
  <2> QED
    BY <2>2, <2>3, <2>6 DEF MigInv
<1>7. ASSUME NEW s \in Slots, DialFails(s) \/ AnswerArrives(s) \/ WorkerGivesUp(s) PROVE MigInv'
  <2>0. /\ worker[s] \in {"dial", "sent"} /\ phase \in Working /\ \E ok \in BOOLEAN : Report(s, ok)
        /\ UNCHANGED <<phase, active, addrs, todo, manifest, guestVars, fileVars>>
    BY <1>7 DEF DialFails, AnswerArrives, WorkerGivesUp, argVars
  <2>1. s \in ActiveSlots /\ Open(s) /\ todo' = todo \ {s}
    BY <1>a, <2>0 DEF InHand, Open
  <2> QED
    BY <2>0, <2>1, ReportingStep
<1>8. CASE Expire \/ Crash
  <2>1. SameWork /\ UNCHANGED <<guestVars, fileVars>> /\ phase # "idle" /\ (phase' = phase \/ phase' = "crashed")
        /\ phase # "done"
    BY <1>8 DEF Expire, Crash, SameWork, argVars, workVars, Working, Persisting
  <2>2. Files'
    BY <1>a, <2>1 DEF Files, fileVars
  <2> QED
    BY <1>a, <1>c, <2>1, <2>2 DEF Counted, Persisting
<1>9. ASSUME NEW s \in Slots, Guest(s) PROVE MigInv'
  <2>1. SameWork /\ phase' = phase /\ UNCHANGED fileVars
    BY <1>9 DEF Guest, GuestCheckpoints, GuestRefuses, SameWork, argVars, workVars
  <2>2. GuestType'
    BY <1>9, <1>a DEF Guest, GuestCheckpoints, GuestRefuses, Types, GuestType
  <2>3. Idle' /\ Counted' /\ Files'
    BY <1>a, <2>1, SameWorkStep DEF Idle, Counted, Files, fileVars, SameWork
  <2> QED
    BY <1>b, <2>1, <2>2, <2>3
<1> QED
  BY <1>1, <1>2, <1>3, <1>4, <1>5, <1>6, <1>7, <1>8, <1>9 DEF MigStep, Main, Worker

-----------------------------------------------------------------------------
\* The callback hands over sessions by slot, and each with an address.
SpotType == /\ live \in [Hosts -> [Slots -> Sessions \cup {NoSession}]]
            /\ collected \in [Slots -> Entry]

Inv == MigInv /\ Truthful /\ SpotType

LEMMA TruthfulReport == ASSUME MigInv, Truthful, NEW s \in Slots, NEW ok \in BOOLEAN, Report(s, ok),
                               ok => guest[s] = "checkpointed", UNCHANGED <<manifest, reply, guest>>
                        PROVE  Truthful'
<1> DEFINE x == [slot |-> s, ok |-> ok]
<1>1. results \in Seq(Result) /\ x \in Result
  BY DEF MigInv, Types, SeqType, Result
<1>2. /\ Len(results) \in Nat /\ Len(results') = Len(results) + 1
      /\ results'[Len(results) + 1] = x
      /\ \A i \in 1 .. Len(results) : results'[i] = results[i]
  BY <1>1, Appending DEF Report
<1>3. \A i \in 1 .. Len(results') : i \in 1 .. Len(results) \/ i = Len(results) + 1
  BY <1>2
<1>4. \A i \in 1 .. Len(results') : results'[i].ok => guest[results'[i].slot] = "checkpointed"
  BY <1>2, <1>3 DEF Truthful
<1> QED
  BY <1>4 DEF Truthful, PendingIsCheckpointed

LEMMA TruthfulGather == ASSUME MigInv, Truthful, Gather PROVE Truthful'
<1> DEFINE x == [slot |-> Head(results).slot, status |-> IF Head(results).ok THEN "pending" ELSE "failed"]
<1>1. results \in Seq(Result) /\ manifest \in Seq(SessionMigration) /\ results # <<>>
  BY DEF MigInv, Types, SeqType, Gather
<1>2. /\ Head(results) = results[1] /\ Head(results) \in Result
      /\ Len(results) \in Nat /\ Len(results) >= 1 /\ Len(results') = Len(results) - 1
      /\ \A i \in 1 .. (Len(results) - 1) : results'[i] = results[i + 1]
  BY <1>1, Tailing DEF Gather
<1>3. x \in SessionMigration
  BY <1>2 DEF Result, SessionMigration
<1>4. /\ Len(manifest) \in Nat /\ Len(manifest') = Len(manifest) + 1
      /\ manifest'[Len(manifest) + 1] = x
      /\ \A i \in 1 .. Len(manifest) : manifest'[i] = manifest[i]
  BY <1>1, <1>3, Appending DEF Gather
<1>5. reply' = reply /\ guest' = guest
  BY DEF Gather, guestVars
<1>6. \A i \in 1 .. Len(results') : i + 1 \in 1 .. Len(results) /\ results'[i] = results[i + 1]
  BY <1>2
<1>7. \A i \in 1 .. Len(manifest') : i \in 1 .. Len(manifest) \/ i = Len(manifest) + 1
  BY <1>4
<1>8. x.status = "pending" => guest[x.slot] = "checkpointed"
  <2>1. 1 \in 1 .. Len(results)
    BY <1>2
  <2> QED
    BY <1>2, <2>1 DEF Truthful
<1>9. \A i \in 1 .. Len(manifest') : manifest'[i].status = "pending" => guest[manifest'[i].slot] = "checkpointed"
  BY <1>4, <1>7, <1>8 DEF Truthful, PendingIsCheckpointed
<1>10. \A i \in 1 .. Len(results') : results'[i].ok => guest[results'[i].slot] = "checkpointed"
  BY <1>6 DEF Truthful
<1> QED
  BY <1>5, <1>9, <1>10 DEF Truthful, PendingIsCheckpointed

LEMMA TruthfulStep == MigInv /\ Truthful /\ MigStep => Truthful'
<1> SUFFICES ASSUME MigInv, Truthful, MigStep PROVE Truthful'
  OBVIOUS
<1>a. ASSUME UNCHANGED <<results, manifest, reply, guest>> PROVE Truthful'
  BY <1>a DEF Truthful, PendingIsCheckpointed
<1>b. Types
  BY DEF MigInv
<1>1. ASSUME NEW s \in Slots, FanOut(s) PROVE Truthful'
  BY <1>1, <1>a, TruthfulReport DEF FanOut, guestVars
<1>2. CASE Gather
  BY <1>2, TruthfulGather
<1>3. CASE FanOutEnds \/ GatherEnds \/ WriteBegins \/ WriteEnds \/ RenameManifest \/ PersistFails \/ Expire \/ Crash
  BY <1>3, <1>a DEF FanOutEnds, GatherEnds, WriteBegins, WriteEnds, RenameManifest, PersistFails,
     Expire, Crash, workVars, guestVars
<1>4. ASSUME NEW s \in Slots, DialAndSend(s) PROVE Truthful'
  BY <1>4, <1>a DEF DialAndSend
<1>5. ASSUME NEW s \in Slots, DialFails(s) \/ AnswerArrives(s) \/ WorkerGivesUp(s) PROVE Truthful'
  <2>1. PICK ok \in BOOLEAN : Report(s, ok) /\ (ok => reply[s] = "ack")
    BY <1>5 DEF DialFails, AnswerArrives, WorkerGivesUp
  <2>2. UNCHANGED <<manifest, reply, guest>>
    BY <1>5 DEF DialFails, AnswerArrives, WorkerGivesUp, guestVars
  <2>3. ok => guest[s] = "checkpointed"
    BY <2>1 DEF Truthful
  <2> QED
    BY <2>1, <2>2, <2>3, TruthfulReport
<1>6. ASSUME NEW s \in Slots, Guest(s) PROVE Truthful'
  <2>1. /\ \A r \in Slots : guest[r] = "checkpointed" => guest'[r] = "checkpointed"
        /\ \A r \in Slots : reply'[r] = "ack" => reply[r] = "ack" \/ guest'[r] = "checkpointed"
        /\ results' = results /\ manifest' = manifest
    <3>1. CASE GuestCheckpoints(s)
      BY <3>1, <1>b DEF GuestCheckpoints, Types, GuestType, workVars
    <3>2. CASE GuestRefuses(s)
      BY <3>2, <1>b DEF GuestRefuses, Types, GuestType, workVars
    <3> QED
      BY <1>6, <3>1, <3>2 DEF Guest
  <2>2. /\ \A i \in 1 .. Len(results) : results[i].slot \in Slots
        /\ \A i \in 1 .. Len(manifest) : manifest[i].slot \in Slots
    BY DEF MigInv, Once, Entered, ActiveSlots
  <2>3. \A r \in Slots : reply'[r] = "ack" => guest'[r] = "checkpointed"
    BY <2>1 DEF Truthful
  <2>4. \A i \in 1 .. Len(results) : results[i].ok => guest'[results[i].slot] = "checkpointed"
    BY <2>1, <2>2 DEF Truthful
  <2>5. \A i \in 1 .. Len(manifest) :
           manifest[i].status = "pending" => guest'[manifest[i].slot] = "checkpointed"
    BY <2>1, <2>2 DEF Truthful, PendingIsCheckpointed
  <2> QED
    BY <2>1, <2>3, <2>4, <2>5 DEF Truthful, PendingIsCheckpointed
<1> QED
  BY <1>1, <1>2, <1>3, <1>4, <1>5, <1>6 DEF MigStep, Main, Worker

LEMMA InvInit == EvictionInit => Inv
  BY InitInv DEF Inv, SpotType, EvictionInit, Entry

LEMMA InvStep == Inv /\ [EvictionNext]_evictionVars => Inv'
<1> SUFFICES ASSUME Inv, [EvictionNext]_evictionVars PROVE Inv'
  OBVIOUS
<1>a. MigInv /\ Truthful /\ SpotType
  BY DEF Inv
<1>b. ASSUME UNCHANGED migVars, SpotType' PROVE Inv'
  <2>1. UNCHANGED <<phase, active, addrs, todo, worker, results, manifest, reply, guest, dest, tmp>>
    BY <1>b DEF migVars, argVars, workVars, guestVars, fileVars
  <2>2. ActiveSlots' = ActiveSlots
    BY <2>1 DEF ActiveSlots
  <2>3. MigInv'
    BY <1>a, <2>1, <2>2 DEF MigInv, Types, ArgType, WorkType, SeqType, GuestType, Idle, InHand, Once,
       Entered, Apart, Open, Counted, Files
  <2>4. Truthful'
    BY <1>a, <2>1 DEF Truthful, PendingIsCheckpointed
  <2> QED
    BY <1>b, <2>3, <2>4 DEF Inv
<1>1. CASE PollDetects \/ MonitorCancelled \/ NothingToMigrate
  BY <1>1, <1>a, <1>b DEF PollDetects, MonitorCancelled, NothingToMigrate, SpotType
<1>2. ASSUME NEW h \in Hosts, CollectPool(h) PROVE Inv'
  <2>1. PICK s \in Slots : CollectSlot(h, s) \/ CollectEnded(h, s)
    BY <1>2 DEF CollectPool
  <2>2. live' \in [Hosts -> [Slots -> Sessions \cup {NoSession}]]
    BY <1>a, <2>1 DEF CollectSlot, CollectEnded, SpotType
  <2>3. collected' \in [Slots -> Entry]
    BY <1>a, <2>1 DEF CollectSlot, CollectEnded, SpotType, Entry
  <2>4. UNCHANGED migVars
    BY <2>1 DEF CollectSlot, CollectEnded, Visit
  <2> QED
    BY <1>b, <2>2, <2>3, <2>4 DEF SpotType
<1>3. CASE StartMigration
  <2>1. PICK left \in Remainders : MigrateAll(collected, Addresses, left, TRUE)
    BY <1>3 DEF StartMigration
  <2>2. Addresses \subseteq Slots
    BY DEF Addresses
  <2>3. MigInv'
    BY <1>a, <2>1, <2>2, MigrateStep DEF SpotType
  <2>4. Truthful'
    BY <1>a, <2>1 DEF MigrateAll, guestVars, Truthful, PendingIsCheckpointed
  <2> QED
    BY <1>3, <1>a, <2>3, <2>4 DEF Inv, SpotType, StartMigration
<1>4. ASSUME NEW h \in Hosts, NEW s \in Slots, SessionDrained(h, s) PROVE Inv'
  BY <1>4, <1>a, <1>b DEF SessionDrained, SpotType
<1>5. CASE MigStep /\ UNCHANGED spotVars
  BY <1>5, <1>a, MigStepInv, TruthfulStep DEF Inv, SpotType, spotVars
<1>6. CASE UNCHANGED evictionVars
  BY <1>6, <1>a, <1>b DEF evictionVars, spotVars, SpotType
<1> QED
  BY <1>1, <1>2, <1>3, <1>4, <1>5, <1>6 DEF EvictionNext, Callback

LEMMA InvHolds == EvictionSpec => []Inv
  BY InvInit, InvStep, PTL DEF EvictionSpec

-----------------------------------------------------------------------------
\* As many entries as active slots, all of different active slots, are all slots.
LEMMA CompleteEntries == ASSUME MigInv, Len(manifest) = Cardinality(ActiveSlots)
                         PROVE  \A s \in ActiveSlots : \E i \in 1 .. Len(manifest) : manifest[i].slot = s
<1> DEFINE n == Len(manifest)
           f == [i \in 1 .. n |-> manifest[i].slot]
<1>1. n \in Nat
  BY DEF MigInv, Types, SeqType
<1>2. IsFiniteSet(ActiveSlots)
  <2>1. ActiveSlots \in SUBSET Slots
    BY DEF ActiveSlots
  <2> QED
    BY <2>1, FS_Subset, MigratorAssumption
<1>3. f \in Injection(1 .. n, ActiveSlots)
  BY DEF MigInv, Once, Entered, Injection, IsInjective
<1>4. Cardinality(1 .. n) = n
  <2> HIDE DEF n
  <2>1. Cardinality(1 .. n) = IF 1 > n THEN 0 ELSE n - 1 + 1
    BY <1>1, FS_Interval
  <2> QED
    BY <1>1, <2>1
<1>5. f \in Surjection(1 .. n, ActiveSlots)
  BY <1>2, <1>3, <1>4, FS_Injection
<1> QED
  BY <1>5 DEF Surjection

\* What MigrateAll returns and what stands in the manifest file has exactly one
\* entry per active session.
THEOREM ManifestCompleteHolds == EvictionSpec => []ManifestComplete
<1>1. Inv => ManifestComplete
  BY CompleteEntries DEF Inv, MigInv, Counted, Files, ManifestComplete
<1> QED
  BY <1>1, InvHolds, PTL

\* An entry that recover will try to resume names a checkpoint the guest took.
THEOREM PendingIsCheckpointedHolds == EvictionSpec => []PendingIsCheckpointed
<1>1. Inv => PendingIsCheckpointed
  BY DEF Inv, Truthful
<1> QED
  BY <1>1, InvHolds, PTL

\* Whatever is left until the deadline, the workers get some of it, and no more
\* than is left when that is at least the floor of 10 seconds.
THEOREM BudgetInTimeHolds == EvictionSpec => []BudgetInTime
<1> DEFINE Left == remaining \in Int
<1>1. EvictionInit => Left
  BY DEF EvictionInit, MigInit
<1>2. Left /\ [EvictionNext]_evictionVars => Left'
  <2>1. ASSUME Left, StartMigration PROVE Left'
    BY <2>1, MigratorAssumption DEF StartMigration, MigrateAll
  <2>2. ASSUME ~StartMigration, [EvictionNext]_evictionVars PROVE remaining' = remaining
    BY <2>2 DEF EvictionNext, Callback, PollDetects, MonitorCancelled, CollectPool,
       CollectSlot, CollectEnded, Visit, NothingToMigrate,
       SessionDrained, MigStep, Main, Worker, Guest, FanOut, FanOutEnds, Gather, GatherEnds, WriteBegins,
       WriteEnds, RenameManifest, PersistFails, DialAndSend, DialFails, AnswerArrives, WorkerGivesUp,
       Expire, Crash, GuestCheckpoints, GuestRefuses, evictionVars, migVars, argVars
  <2> QED
    BY <2>1, <2>2
<1>3. Left => BudgetInTime
  BY DEF BudgetInTime, Budget
<1> QED
  BY <1>1, <1>2, <1>3, PTL DEF EvictionSpec

-----------------------------------------------------------------------------
\* The refinement: the record appears when the manifest is renamed.
Checkpointed == {s \in Slots : guest[s] = "checkpointed"}

RecordOK == /\ Published \in [Slots -> {"none", "pending", "failed"}]
            /\ \A s \in Slots : Published[s] = "pending" => s \in Checkpointed
            /\ dest # "complete" => Published = [s \in Slots |-> "none"]

LEMMA PublishedIs == Inv => RecordOK
<1> SUFFICES ASSUME Inv PROVE RecordOK
  OBVIOUS
<1>1. ASSUME NEW s \in Slots
      PROVE  /\ Published[s] \in {"none", "pending", "failed"}
             /\ Published[s] = "pending" => s \in Checkpointed
             /\ dest # "complete" => Published[s] = "none"
  <2>1. CASE dest = "complete" /\ \E i \in 1 .. Len(manifest) : manifest[i].slot = s
    <3> DEFINE k == CHOOSE i \in 1 .. Len(manifest) : manifest[i].slot = s
    <3>1. k \in 1 .. Len(manifest) /\ manifest[k].slot = s
      BY <2>1
    <3>2. manifest \in Seq(SessionMigration)
      BY DEF Inv, MigInv, Types, SeqType
    <3>3. manifest[k] \in SessionMigration
      BY <3>1, <3>2
    <3>4. manifest[k].status = "pending" => guest[s] = "checkpointed"
      BY <3>1 DEF Inv, Truthful, PendingIsCheckpointed
    <3>5. Published[s] = manifest[k].status
      BY <2>1 DEF Published
    <3> QED
      BY <2>1, <3>3, <3>4, <3>5 DEF SessionMigration, Checkpointed
  <2>2. CASE ~(dest = "complete" /\ \E i \in 1 .. Len(manifest) : manifest[i].slot = s)
    BY <2>2 DEF Published
  <2> QED
    BY <2>1, <2>2
<1>2. Published = [s \in Slots |-> Published[s]]
  BY DEF Published
<1> QED
  BY <1>1, <1>2 DEF RecordOK

LEMMA ContractBegins == EvictionInit => Promise!ContractInit
<1> SUFFICES ASSUME EvictionInit PROVE Promise!ContractInit
  OBVIOUS
<1>1. Published = [s \in Slots |-> "none"]
  BY PublishedIs, InvInit DEF EvictionInit, MigInit, RecordOK
<1>2. Published \in Promise!Publishable
  BY <1>1 DEF Promise!Publishable
<1> QED
  BY <1>2 DEF Promise!ContractInit

LEMMA ContractStep == Inv /\ Inv' /\ [EvictionNext]_evictionVars
                      => [Promise!ContractNext]_(Promise!contractVars)
<1> SUFFICES ASSUME Inv, Inv', [EvictionNext]_evictionVars
             PROVE  \/ Promise!ContractNext
                    \/ UNCHANGED <<Published, Checkpointed>>
  BY DEF Promise!contractVars, Checkpointed
<1>a. GuestType /\ Files /\ GuestType'
  BY DEF Inv, MigInv, Types
<1>c. RecordOK'
  BY PublishedIs, PTL
\* Nothing that can be read changes.
<1>b. ASSUME UNCHANGED <<dest, guest>>, dest = "complete" => manifest' = manifest
      PROVE  UNCHANGED <<Published, Checkpointed>>
  <2>1. CASE dest = "complete"
    BY <1>b, <2>1 DEF Published, Checkpointed
  <2>2. CASE dest # "complete"
    <3>1. Published' = [s \in Slots |-> "none"]
      BY <1>b, <2>2 DEF Published
    <3>2. Published = [s \in Slots |-> "none"]
      BY <2>2, PublishedIs DEF RecordOK
    <3> QED
      BY <1>b, <3>1, <3>2 DEF Checkpointed
  <2> QED
    BY <2>1, <2>2
<1>1. ASSUME NEW s \in Slots, GuestCheckpoints(s) PROVE Promise!ContractNext
  <2>1. Checkpointed' = Checkpointed \cup {s}
    BY <1>1, <1>a DEF GuestCheckpoints, GuestType, Checkpointed
  <2>2. Published' = Published
    BY <1>1 DEF GuestCheckpoints, workVars, fileVars, Published
  <2>3. Promise!Checkpoint(s)
    BY <2>1, <2>2 DEF Promise!Checkpoint, Checkpointed
  <2> QED
    BY <2>3 DEF Promise!ContractNext
<1>2. CASE RenameManifest
  <2>1. dest # "complete" /\ Checkpointed' = Checkpointed
    BY <1>2, <1>a DEF RenameManifest, Files, guestVars, Checkpointed
  <2>2. Published = Promise!Unpublished
    BY <2>1, PublishedIs DEF RecordOK, Promise!Unpublished
  <2>3. /\ Published' \in [Slots -> {"none", "pending", "failed"}]
        /\ \A s \in Slots : Published'[s] = "pending" => s \in Checkpointed'
    BY <1>c DEF RecordOK
  <2>4. Promise!Publish
    BY <2>1, <2>2, <2>3 DEF Promise!Publish, Promise!Publishable, Checkpointed
  <2> QED
    BY <2>4 DEF Promise!ContractNext
<1>3. CASE Gather
  BY <1>3, <1>a, <1>b DEF Gather, Files, guestVars, fileVars
<1>4. CASE MigStep /\ ~RenameManifest /\ ~Gather /\ ~\E s \in Slots : GuestCheckpoints(s)
  BY <1>4, <1>b DEF MigStep, Main, Worker, Guest, FanOut, FanOutEnds, GatherEnds, WriteBegins,
     WriteEnds, PersistFails, DialAndSend, DialFails, AnswerArrives, WorkerGivesUp, Expire, Crash,
     GuestRefuses, workVars, guestVars, fileVars
<1>5. CASE StartMigration
  BY <1>5, <1>b DEF StartMigration, MigrateAll, guestVars, fileVars
<1>6. CASE \/ PollDetects \/ MonitorCancelled \/ NothingToMigrate
           \/ \E h \in Hosts : CollectPool(h)
           \/ \E h \in Hosts, s \in Slots : SessionDrained(h, s)
           \/ UNCHANGED evictionVars
  BY <1>6, <1>b DEF PollDetects, MonitorCancelled, NothingToMigrate, CollectPool,
     CollectSlot, CollectEnded, Visit, SessionDrained,
     evictionVars, migVars, workVars, guestVars, fileVars
<1> QED
  BY <1>1, <1>2, <1>3, <1>4, <1>5, <1>6 DEF EvictionNext, Callback

\* The eviction implements the promise of a migration, for every number of
\* hosts, slots and sessions.
THEOREM EvictionKeepsContract == EvictionSpec => KeepsContract
  BY ContractBegins, ContractStep, InvHolds, PTL DEF EvictionSpec, KeepsContract, Promise!Contract

-----------------------------------------------------------------------------
\* Slot indices name sessions if there is one host.
Gathered == monitor = "collecting" =>
                \A h \in Hosts, s \in Slots : <<h, s>> \notin toVisit /\ live[h][s] # NoSession
                                               => collected[s] = live[h][s]

\* With one host, a session that is still live when the migration starts is
\* part of it, whatever drains end meanwhile.
THEOREM OneHostLeavesNoneBehind == ASSUME \A g, h \in Hosts : g = h
                                   PROVE  EvictionSpec => NoSessionLeftBehind
<1>1. EvictionInit => Gathered
  BY DEF EvictionInit, Gathered
<1>2. Inv /\ Gathered /\ [EvictionNext]_evictionVars => Gathered'
  <2> SUFFICES ASSUME Inv, Gathered, [EvictionNext]_evictionVars PROVE Gathered'
    OBVIOUS
  <2>a. SpotType
    BY DEF Inv
  <2>1. CASE PollDetects \/ MonitorCancelled \/ NothingToMigrate \/ StartMigration
    BY <2>1 DEF PollDetects, MonitorCancelled, NothingToMigrate, StartMigration, Gathered
  <2>2. ASSUME NEW h \in Hosts, CollectPool(h) PROVE Gathered'
    <3>1. PICK s \in Slots : CollectSlot(h, s) \/ CollectEnded(h, s)
      BY <2>2 DEF CollectPool
    <3>2. \A g \in Hosts : g = h
      OBVIOUS
    <3>3. monitor = "collecting" /\ toVisit' = toVisit \ {<<h, s>>}
      BY <3>1 DEF CollectSlot, CollectEnded, Visit
    <3> SUFFICES ASSUME NEW r \in Slots, <<h, r>> \notin toVisit', live'[h][r] # NoSession
                 PROVE  collected'[r] = live'[h][r]
      BY <3>2 DEF Gathered
    <3>4. CASE r = s /\ CollectSlot(h, s)
      BY <2>a, <3>4 DEF CollectSlot, SpotType
    <3>5. CASE r = s /\ CollectEnded(h, s)
      BY <2>a, <3>5 DEF CollectEnded, SpotType
    <3>6. CASE r # s
      <4>1. live'[h][r] = live[h][r] /\ collected'[r] = collected[r]
        BY <2>a, <3>1, <3>6 DEF CollectSlot, CollectEnded, SpotType
      <4>2. <<h, r>> \notin toVisit
        BY <3>3, <3>6
      <4> QED
        BY <3>3, <4>1, <4>2 DEF Gathered
    <3> QED
      BY <3>1, <3>4, <3>5, <3>6
  <2>3. ASSUME NEW h \in Hosts, NEW s \in Slots, SessionDrained(h, s) PROVE Gathered'
    <3>1. \A g \in Hosts, r \in Slots : live'[g][r] # NoSession => live'[g][r] = live[g][r]
      BY <2>3, <2>a DEF SessionDrained, SpotType
    <3> QED
      BY <2>3, <3>1 DEF SessionDrained, Gathered
  <2>4. CASE UNCHANGED spotVars
    BY <2>4 DEF spotVars, Gathered
  <2> QED
    BY <2>1, <2>2, <2>3, <2>4 DEF EvictionNext, Callback, evictionVars
<1>3. Inv /\ Gathered /\ [EvictionNext]_evictionVars =>
        (monitor = "collecting" /\ monitor' = "stopped" =>
             \A id \in LiveSessions : \E s \in Slots : collected[s] = id)
  <2> SUFFICES ASSUME Inv, Gathered, [EvictionNext]_evictionVars,
                      monitor = "collecting", monitor' = "stopped", NEW id \in LiveSessions
               PROVE  \E s \in Slots : collected[s] = id
    OBVIOUS
  <2>1. toVisit = {}
    <3>1. monitor' = monitor \/ PollDetects \/ MonitorCancelled \/ NothingToMigrate \/ StartMigration
      BY DEF EvictionNext, Callback, CollectPool, CollectSlot, CollectEnded, Visit,
             SessionDrained, spotVars, evictionVars
    <3> QED
      BY <3>1 DEF PollDetects, MonitorCancelled, NothingToMigrate, StartMigration
  <2> QED
    BY <2>1 DEF Gathered, LiveSessions
<1> QED
  BY <1>1, <1>2, <1>3, InvHolds, PTL DEF EvictionSpec, NoSessionLeftBehind
-----------------------------------------------------------------------------
\* Why MigrateAll returns.

\* While MigrateAll waits, a result that it still needs is in the channel, or a
\* goroutine has yet to send it.
ResultsAreOwed ==
    phase = "gather" /\ Len(manifest) # Cardinality(ActiveSlots) =>
        /\ Len(manifest) < Cardinality(ActiveSlots)
        /\ results # <<>> \/ \E s \in ActiveSlots : worker[s] \in {"dial", "sent"}

Dialling == {s \in Slots : worker[s] = "dial"}
Waiting == {s \in Slots : worker[s] = "sent"}
PhasesLeft == [fanout |-> 5, gather |-> 4, persist |-> 3, writing |-> 2, written |-> 1]

\* Steps left: four for a slot the loop has not come to, the last of which takes
\* the result out of the channel.
StepsLeft(slots, dialling, waiting, reported) == 4 * slots + 3 * dialling + 2 * waiting + reported
WorkLeft == StepsLeft(Cardinality(todo), Cardinality(Dialling), Cardinality(Waiting), Len(results))
            + (IF expired THEN 0 ELSE 1)

\* Steps that MigrateAll and its goroutines, with the timer, need at most.
MigrationRank == CASE phase \in Working -> PhasesLeft[phase] + WorkLeft
                   [] phase \in Persisting -> PhasesLeft[phase]
                   [] OTHER -> 0

\* The steps of MigrateAll, of its goroutines and of the timer bring its return
\* nearer, and no step of a guest or of a drain moves it away.
MigrationAdvances ==
    [][/\ Main \/ Expire \/ (\E s \in Slots : Worker(s)) => MigrationRank' < MigrationRank
       /\ phase # "idle" => MigrationRank' <= MigrationRank]_evictionVars

\* The manifest that recover finds: a status for every session, pending or
\* failed, and none for anything else.
RecoverCanStart ==
    dest = "complete" => \A s \in Slots : IF s \in ActiveSlots THEN Published[s] \in {"pending", "failed"}
                                          ELSE Published[s] = "none"

Has(q, s) == \E i \in 1 .. Len(q) : q[i].slot = s

\* No active slot is forgotten: the converse of Once.
Tracked == /\ phase = "gather" => todo = {}
           /\ phase \in Working => \A s \in ActiveSlots : Open(s) \/ Has(results, s) \/ Has(manifest, s)

LEMMA AppendHas == ASSUME NEW S, NEW q \in Seq(S), NEW x \in S
                   PROVE  Has(Append(q, x), x.slot) /\ \A s : Has(q, s) => Has(Append(q, x), s)
<1>1. /\ Len(q) \in Nat /\ Len(Append(q, x)) = Len(q) + 1 /\ Append(q, x)[Len(q) + 1] = x
      /\ \A i \in 1 .. Len(q) : Append(q, x)[i] = q[i]
  BY Appending
<1>2. Len(q) + 1 \in 1 .. Len(Append(q, x)) /\ 1 .. Len(q) \subseteq 1 .. Len(Append(q, x))
  BY <1>1
<1> QED
  BY <1>1, <1>2 DEF Has

LEMMA TailHas == ASSUME NEW S, NEW q \in Seq(S), q # <<>>
                 PROVE  \A s : Has(q, s) => s = Head(q).slot \/ Has(Tail(q), s)
<1>1. /\ Head(q) = q[1] /\ Len(q) \in Nat /\ Len(Tail(q)) = Len(q) - 1
      /\ \A i \in 1 .. (Len(q) - 1) : Tail(q)[i] = q[i + 1]
  BY Tailing
<1> SUFFICES ASSUME NEW s, NEW i \in 1 .. Len(q), q[i].slot = s, i # 1
             PROVE  Has(Tail(q), s)
  BY <1>1 DEF Has
<1>2. i - 1 \in 1 .. Len(Tail(q)) /\ Tail(q)[i - 1] = q[i]
  BY <1>1
<1> QED
  BY <1>2 DEF Has

\* The entries are of different active slots, so they are no more than those.
LEMMA EntriesFit == ASSUME MigInv
                    PROVE  /\ IsFiniteSet(ActiveSlots) /\ Cardinality(ActiveSlots) \in Nat
                           /\ Len(manifest) \in Nat /\ Len(manifest) <= Cardinality(ActiveSlots)
                           /\ (\A s \in ActiveSlots : Has(manifest, s)) => Len(manifest) = Cardinality(ActiveSlots)
<1> DEFINE n == Len(manifest)
           f == [i \in 1 .. n |-> manifest[i].slot]
<1>1. n \in Nat
  BY DEF MigInv, Types, SeqType
<1>2. IsFiniteSet(ActiveSlots) /\ Cardinality(ActiveSlots) \in Nat
  <2>1. ActiveSlots \in SUBSET Slots
    BY DEF ActiveSlots
  <2> QED
    BY <2>1, FS_Subset, FS_CardinalityType, MigratorAssumption
<1>3. f \in Injection(1 .. n, ActiveSlots)
  BY DEF MigInv, Once, Entered, Injection, IsInjective
<1>4. Cardinality(1 .. n) = n
  <2> HIDE DEF n
  <2>1. Cardinality(1 .. n) = IF 1 > n THEN 0 ELSE n - 1 + 1
    BY <1>1, FS_Interval
  <2> QED
    BY <1>1, <2>1
<1>5. Cardinality(1 .. n) <= Cardinality(ActiveSlots)
      /\ (Cardinality(1 .. n) = Cardinality(ActiveSlots) <=> f \in Surjection(1 .. n, ActiveSlots))
  BY <1>2, <1>3, FS_Injection
<1>6. (\A s \in ActiveSlots : Has(manifest, s)) => f \in Surjection(1 .. n, ActiveSlots)
  BY <1>3 DEF Has, Surjection, Injection
<1> QED
  BY <1>1, <1>2, <1>4, <1>5, <1>6

LEMMA TrackedStep == Inv /\ Tracked /\ [EvictionNext]_evictionVars => Tracked'
<1> SUFFICES ASSUME Inv, Tracked, [EvictionNext]_evictionVars PROVE Tracked'
  OBVIOUS
<1>a. Types /\ InHand /\ Idle
  BY DEF Inv, MigInv
<1>b. results \in Seq(Result) /\ manifest \in Seq(SessionMigration)
  BY <1>a DEF Types, SeqType
\* A slot that is no longer open has its result in the channel.
<1>c. ASSUME NEW s \in Slots, NEW ok \in BOOLEAN, Report(s, ok), phase \in Working,
             todo' = todo \ {s}, UNCHANGED <<phase, active, manifest>>
      PROVE  Tracked'
  <2>1. [slot |-> s, ok |-> ok] \in Result
    BY DEF Result
  <2>2. Has(results', s) /\ \A r : Has(results, r) => Has(results', r)
    <3>1. LET x == [slot |-> s, ok |-> ok]
          IN  Has(Append(results, x), x.slot) /\ \A r : Has(results, r) => Has(Append(results, x), r)
      BY <1>b, <2>1, AppendHas
    <3> QED
      BY <1>c, <3>1 DEF Report
  <2>3. ActiveSlots' = ActiveSlots /\ \A r \in ActiveSlots : r # s => (Open(r) => Open(r)')
    BY <1>a, <1>c DEF ActiveSlots, Open, Report, Types, WorkType
  <2> QED
    BY <1>c, <2>2, <2>3 DEF Tracked, Has
<1>d. ASSUME UNCHANGED <<active, todo, results, manifest>>, \A s \in Slots : Open(s) => Open(s)',
             phase' \in Working => phase' = phase \/ (phase = "fanout" /\ todo = {})
      PROVE  Tracked'
  <2>1. ActiveSlots' = ActiveSlots /\ ActiveSlots \subseteq Slots
    BY <1>d DEF ActiveSlots
  <2> QED
    BY <1>d, <2>1 DEF Tracked, Has, Working
<1>1. ASSUME NEW s \in Slots, FanOut(s) PROVE Tracked'
  <2>1. CASE s \notin addrs
    BY <1>1, <1>c, <2>1 DEF FanOut, argVars, Working
  <2>2. CASE s \in addrs
    <3>1. /\ phase = "fanout" /\ todo' = todo \ {s} /\ worker' = [worker EXCEPT ![s] = "dial"]
          /\ UNCHANGED <<phase, active, results, manifest>>
      BY <1>1, <2>2 DEF FanOut, argVars
    <3>2. ActiveSlots' = ActiveSlots /\ \A r \in ActiveSlots : Open(r) => Open(r)'
      BY <1>a, <3>1 DEF ActiveSlots, Open, Types, WorkType
    <3> QED
      BY <3>1, <3>2 DEF Tracked, Has, Working
  <2> QED
    BY <2>1, <2>2
<1>2. CASE Gather
  <2>1. /\ results # <<>> /\ results' = Tail(results) /\ UNCHANGED <<phase, active, todo, worker>>
        /\ manifest' = Append(manifest, [slot |-> Head(results).slot,
                                         status |-> IF Head(results).ok THEN "pending" ELSE "failed"])
    BY <1>2 DEF Gather, argVars
  <2>2. Head(results) \in Result
    BY <1>b, <2>1, Tailing
  <2>3. [slot |-> Head(results).slot, status |-> IF Head(results).ok THEN "pending" ELSE "failed"]
            \in SessionMigration
    BY <2>2 DEF Result, SessionMigration
  <2>4. Has(manifest', Head(results).slot) /\ \A r : Has(manifest, r) => Has(manifest', r)
    <3> DEFINE x == [slot |-> Head(results).slot, status |-> IF Head(results).ok THEN "pending" ELSE "failed"]
    <3>1. Has(Append(manifest, x), x.slot) /\ \A r : Has(manifest, r) => Has(Append(manifest, x), r)
      BY <1>b, <2>3, AppendHas
    <3> QED
      BY <2>1, <3>1
  <2>5. \A r : Has(results, r) => r = Head(results).slot \/ Has(results', r)
    BY <1>b, <2>1, TailHas
  <2>6. ActiveSlots' = ActiveSlots /\ \A r \in ActiveSlots : Open(r)' = Open(r)
    BY <2>1 DEF ActiveSlots, Open
  <2>7. ASSUME phase \in Working, NEW r \in ActiveSlots
        PROVE  Open(r)' \/ Has(results', r) \/ Has(manifest', r)
    <3>1. Open(r) \/ Has(results, r) \/ Has(manifest, r)
      BY <2>7 DEF Tracked
    <3> QED
      BY <2>4, <2>5, <2>6, <3>1
  <2> QED
    BY <2>1, <2>6, <2>7 DEF Tracked, Has
<1>3. CASE FanOutEnds \/ Expire \/ \E s \in Slots : Guest(s)
  <2>1. /\ UNCHANGED <<active, todo, results, manifest, worker>>
        /\ phase' = phase \/ (phase = "fanout" /\ todo = {})
    BY <1>3 DEF FanOutEnds, Expire, Guest, GuestCheckpoints, GuestRefuses, argVars, workVars
  <2> QED
    BY <1>d, <2>1 DEF Open
<1>4. CASE GatherEnds \/ WriteBegins \/ WriteEnds \/ RenameManifest \/ PersistFails \/ Crash
  <2>1. phase' \notin Working
    BY <1>4 DEF GatherEnds, WriteBegins, WriteEnds, RenameManifest, PersistFails, Crash, Working
  <2> QED
    BY <2>1 DEF Tracked, Working
<1>5. ASSUME NEW s \in Slots, DialAndSend(s) PROVE Tracked'
  <2>1. /\ worker' = [worker EXCEPT ![s] = "sent"] /\ UNCHANGED <<phase, active, todo, results, manifest>>
    BY <1>5 DEF DialAndSend, argVars
  <2>2. \A r \in Slots : Open(r) => Open(r)'
    BY <1>a, <2>1 DEF Open, Types, WorkType
  <2> QED
    BY <1>d, <2>1, <2>2
<1>6. ASSUME NEW s \in Slots, DialFails(s) \/ AnswerArrives(s) \/ WorkerGivesUp(s) PROVE Tracked'
  <2>1. /\ phase \in Working /\ \E ok \in BOOLEAN : Report(s, ok)
        /\ worker[s] \in {"dial", "sent"} /\ UNCHANGED <<phase, active, todo, manifest>>
    BY <1>6 DEF DialFails, AnswerArrives, WorkerGivesUp, argVars
  <2>2. todo' = todo \ {s}
    BY <1>a, <2>1 DEF InHand
  <2> QED
    BY <1>c, <2>1, <2>2
<1>7. CASE StartMigration
  <2>1. phase' = "fanout" /\ todo' = {s \in Slots : active'[s] # NoSession}
    BY <1>7 DEF StartMigration, MigrateAll
  <2> QED
    BY <2>1 DEF Tracked, ActiveSlots, Open
<1>8. CASE UNCHANGED migVars
  BY <1>8, <1>d DEF migVars, argVars, workVars, Open
<1> QED
  BY <1>1, <1>2, <1>3, <1>4, <1>5, <1>6, <1>7, <1>8 DEF EvictionNext, Callback, PollDetects, MonitorCancelled,
     NothingToMigrate, CollectPool,
     CollectSlot, CollectEnded, Visit, SessionDrained, evictionVars, MigStep, Main, Worker

LEMMA TrackedHolds == EvictionSpec => []Tracked
<1>1. EvictionInit => Tracked
  BY DEF EvictionInit, MigInit, Tracked, Working
<1> QED
  BY <1>1, TrackedStep, InvHolds, PTL DEF EvictionSpec

\* While MigrateAll waits, a result that it still needs is in the channel, or a
\* goroutine has yet to send it: no slot is forgotten on the way.
THEOREM NoResultIsLost == EvictionSpec => []ResultsAreOwed
<1>1. Inv /\ Tracked => ResultsAreOwed
  <2> SUFFICES ASSUME Inv, Tracked, phase = "gather", Len(manifest) # Cardinality(ActiveSlots)
               PROVE  /\ Len(manifest) < Cardinality(ActiveSlots)
                      /\ results # <<>> \/ \E s \in ActiveSlots : worker[s] \in {"dial", "sent"}
    BY DEF ResultsAreOwed
  <2>a. MigInv
    BY DEF Inv
  <2>1. Len(manifest) < Cardinality(ActiveSlots)
    BY <2>a, EntriesFit
  <2>2. PICK s \in ActiveSlots : ~Has(manifest, s)
    BY <2>a, EntriesFit
  <2>3. Open(s) \/ Has(results, s)
    BY <2>2 DEF Tracked, Working
  <2>4. Has(results, s) => results # <<>>
    BY DEF Has
  <2>5. Open(s) => worker[s] \in {"dial", "sent"}
    BY DEF Tracked, Open
  <2> QED
    BY <2>1, <2>3, <2>4, <2>5
<1> QED
  BY <1>1, InvHolds, TrackedHolds, PTL

\* The numbers that the rank is made of.
CountsOK == /\ IsFiniteSet(todo) /\ IsFiniteSet(Dialling) /\ IsFiniteSet(Waiting)
            /\ Cardinality(todo) \in Nat /\ Cardinality(Dialling) \in Nat /\ Cardinality(Waiting) \in Nat
            /\ Len(results) \in Nat /\ WorkLeft \in Nat

LEMMA CountsHold == Inv => CountsOK
<1> SUFFICES ASSUME Inv PROVE CountsOK
  OBVIOUS
<1>1. todo \in SUBSET Slots /\ Dialling \in SUBSET Slots /\ Waiting \in SUBSET Slots
  BY DEF Inv, MigInv, Types, WorkType, ActiveSlots, Dialling, Waiting
<1>2. /\ IsFiniteSet(todo) /\ IsFiniteSet(Dialling) /\ IsFiniteSet(Waiting)
  BY <1>1, FS_Subset, MigratorAssumption
<1>3. Len(results) \in Nat
  BY DEF Inv, MigInv, Types, SeqType
<1>4. Cardinality(todo) \in Nat /\ Cardinality(Dialling) \in Nat /\ Cardinality(Waiting) \in Nat
  BY <1>2, FS_CardinalityType
<1>5. ASSUME NEW a \in Nat, NEW b \in Nat, NEW c \in Nat, NEW d \in Nat
      PROVE  StepsLeft(a, b, c, d) \in Nat /\ StepsLeft(a, b, c, d) + 1 \in Nat
             /\ StepsLeft(a, b, c, d) + 0 \in Nat
  BY DEF StepsLeft
<1> QED
  BY <1>2, <1>3, <1>4, <1>5 DEF CountsOK, WorkLeft

LEMMA Arithmetic ==
    ASSUME NEW a \in Nat, NEW b \in Nat, NEW c \in Nat, NEW d \in Nat
    PROVE  /\ StepsLeft(a, b, c, d) \in Nat
           /\ StepsLeft(a - 1, b + 1, c, d) = StepsLeft(a, b, c, d) - 1
           /\ StepsLeft(a - 1, b, c, d + 1) = StepsLeft(a, b, c, d) - 3
           /\ StepsLeft(a, b - 1, c + 1, d) = StepsLeft(a, b, c, d) - 1
           /\ StepsLeft(a, b - 1, c, d + 1) = StepsLeft(a, b, c, d) - 2
           /\ StepsLeft(a, b, c - 1, d + 1) = StepsLeft(a, b, c, d) - 1
           /\ StepsLeft(a, b, c, d - 1) = StepsLeft(a, b, c, d) - 1
  BY DEF StepsLeft

RankUnchanged == UNCHANGED <<phase, expired, todo, worker, results>>

\* The rank is a number.
LEMMA RankNat == Inv => MigrationRank \in Nat
<1> SUFFICES ASSUME Inv PROVE MigrationRank \in Nat
  OBVIOUS
<1>1. WorkLeft \in Nat
  BY CountsHold DEF CountsOK
<1>2. PhasesLeft["fanout"] = 5 /\ PhasesLeft["gather"] = 4
  BY DEF PhasesLeft
<1>3. PhasesLeft["persist"] = 3 /\ PhasesLeft["writing"] = 2 /\ PhasesLeft["written"] = 1
  BY DEF PhasesLeft
<1>4. phase \in Working => MigrationRank = PhasesLeft[phase] + WorkLeft
  BY DEF MigrationRank, Working, Persisting
<1>5. phase \in Persisting => MigrationRank = PhasesLeft[phase]
  BY DEF MigrationRank, Working, Persisting
<1>6. phase \notin Working \cup Persisting => MigrationRank = 0
  BY DEF MigrationRank
<1> QED
  BY <1>1, <1>2, <1>3, <1>4, <1>5, <1>6 DEF Working, Persisting

\* A step of MigrateAll, of a goroutine or of the timer.
LEMMA RankFalls ==
    ASSUME Inv, CountsOK, CountsOK', Main \/ Expire \/ \E s \in Slots : Worker(s)
    PROVE  MigrationRank' < MigrationRank
<1>a. Types /\ InHand
  BY DEF Inv, MigInv
<1>b. worker \in [Slots -> {"none", "dial", "sent", "reported"}] /\ results \in Seq(Result)
  BY <1>a DEF Types, WorkType, SeqType
<1>w. /\ WorkLeft = StepsLeft(Cardinality(todo), Cardinality(Dialling), Cardinality(Waiting), Len(results))
                   + (IF expired THEN 0 ELSE 1)
      /\ WorkLeft' = StepsLeft(Cardinality(todo'), Cardinality(Dialling'), Cardinality(Waiting'), Len(results'))
                    + (IF expired' THEN 0 ELSE 1)
  BY DEF WorkLeft, StepsLeft
<1> DEFINE a == Cardinality(todo)
           b == Cardinality(Dialling)
           c == Cardinality(Waiting)
           d == Len(results)
           Now == StepsLeft(a, b, c, d)
           Then == StepsLeft(Cardinality(todo'), Cardinality(Dialling'), Cardinality(Waiting'), Len(results'))
<1>n. /\ Now \in Nat
      /\ StepsLeft(a - 1, b + 1, c, d) = Now - 1
      /\ StepsLeft(a - 1, b, c, d + 1) = Now - 3
      /\ StepsLeft(a, b - 1, c + 1, d) = Now - 1
      /\ StepsLeft(a, b - 1, c, d + 1) = Now - 2
      /\ StepsLeft(a, b, c - 1, d + 1) = Now - 1
      /\ StepsLeft(a, b, c, d - 1) = Now - 1
  <2>1. a \in Nat /\ b \in Nat /\ c \in Nat /\ d \in Nat
    BY DEF CountsOK
  <2> HIDE DEF a, b, c, d
  <2> QED
    BY <2>1, Arithmetic
<1>f. ASSUME NEW k \in {1, 2, 3}, Then = Now - k, expired' = expired
      PROVE  WorkLeft' < WorkLeft
  <2>1. PICK e \in {0, 1} : WorkLeft = Now + e /\ WorkLeft' = (Now - k) + e
    BY <1>f, <1>w
  <2> HIDE DEF Now
  <2> QED
    BY <1>n, <2>1
<1>p. PhasesLeft["fanout"] = 5 /\ PhasesLeft["gather"] = 4
  BY DEF PhasesLeft
<1>c. ASSUME phase \in Working, phase' = phase, WorkLeft' < WorkLeft
      PROVE  MigrationRank' < MigrationRank
  <2>1. MigrationRank = PhasesLeft[phase] + WorkLeft
    BY <1>c DEF MigrationRank, Working, Persisting
  <2>2. MigrationRank' = PhasesLeft[phase] + WorkLeft'
    BY <1>c DEF MigrationRank, Working, Persisting, PhasesLeft
  <2>3. WorkLeft \in Nat /\ WorkLeft' \in Nat
    BY DEF CountsOK
  <2>4. PhasesLeft[phase] \in Nat
    BY <1>c, <1>p DEF Working
  <2> QED
    BY <1>c, <2>1, <2>2, <2>3, <2>4
<1>d. ASSUME NEW s \in Slots, NEW ok \in BOOLEAN, Report(s, ok)
      PROVE  /\ Len(results') = Len(results) + 1
             /\ Dialling' = Dialling \ {s} /\ Waiting' = Waiting \ {s}
  <2>1. [slot |-> s, ok |-> ok] \in Result
    BY DEF Result
  <2>2. Len(results') = Len(results) + 1
    BY <1>b, <1>d, <2>1, Appending DEF Report
  <2>3. Dialling' = Dialling \ {s} /\ Waiting' = Waiting \ {s}
    BY <1>b, <1>d DEF Report, Dialling, Waiting
  <2> QED
    BY <2>2, <2>3
<1>1. ASSUME NEW s \in Slots, FanOut(s) PROVE MigrationRank' < MigrationRank
  <2>0. phase = "fanout" /\ s \in todo /\ todo' = todo \ {s} /\ phase' = phase /\ expired' = expired
        /\ s \notin Dialling /\ s \notin Waiting
    BY <1>1, <1>a DEF FanOut, argVars, InHand, Dialling, Waiting
  <2>1. Cardinality(todo') = Cardinality(todo) - 1
    BY <2>0, FS_RemoveElement DEF CountsOK
  <2>2. CASE s \in addrs
    <3>1. results' = results /\ Dialling' = Dialling \cup {s} /\ Waiting' = Waiting
      BY <1>1, <1>b, <2>0, <2>2 DEF FanOut, Dialling, Waiting
    <3>2. Cardinality(Dialling') = Cardinality(Dialling) + 1
      BY <2>0, <3>1, FS_AddElement DEF CountsOK
    <3> QED
      <4>1. WorkLeft' < WorkLeft
        BY <2>0, <2>1, <3>1, <3>2, <1>n, <1>f
      <4> QED
        BY <1>c, <2>0, <4>1 DEF Working
  <2>3. CASE s \notin addrs
    <3>0. Report(s, FALSE)
      BY <1>1, <2>3 DEF FanOut
    <3>1. Len(results') = Len(results) + 1 /\ Dialling' = Dialling /\ Waiting' = Waiting
      BY <1>d, <2>0, <3>0
    <3> QED
      <4>1. WorkLeft' < WorkLeft
        BY <2>0, <2>1, <3>1, <1>n, <1>f
      <4> QED
        BY <1>c, <2>0, <4>1 DEF Working
  <2> QED
    BY <2>2, <2>3
<1>2. ASSUME NEW s \in Slots, DialAndSend(s) PROVE MigrationRank' < MigrationRank
  <2>1. /\ worker[s] = "dial" /\ worker' = [worker EXCEPT ![s] = "sent"] /\ phase \in Working
        /\ UNCHANGED <<phase, todo, results, expired>>
    BY <1>2 DEF DialAndSend
  <2>2. /\ Dialling' = Dialling \ {s} /\ s \in Dialling
        /\ Waiting' = Waiting \cup {s} /\ s \notin Waiting
    BY <1>b, <2>1 DEF Dialling, Waiting
  <2>3. Cardinality(Dialling') = Cardinality(Dialling) - 1 /\ Cardinality(Waiting') = Cardinality(Waiting) + 1
    BY <2>2, FS_AddElement, FS_RemoveElement DEF CountsOK
  <2>4. WorkLeft' < WorkLeft
    BY <2>1, <2>3, <1>n, <1>f
  <2> QED
    BY <1>c, <2>1, <2>4
<1>3. ASSUME NEW s \in Slots, DialFails(s) \/ AnswerArrives(s) \/ WorkerGivesUp(s)
      PROVE  MigrationRank' < MigrationRank
  <2>1. /\ worker[s] \in {"dial", "sent"} /\ phase \in Working /\ \E ok \in BOOLEAN : Report(s, ok)
        /\ UNCHANGED <<phase, todo, expired>>
    BY <1>3 DEF DialFails, AnswerArrives, WorkerGivesUp
  <2>2. /\ Len(results') = Len(results) + 1
        /\ Dialling' = Dialling \ {s} /\ Waiting' = Waiting \ {s}
    BY <1>d, <2>1
  <2>3. CASE worker[s] = "dial"
    <3>1. s \in Dialling /\ Waiting' = Waiting
      BY <2>2, <2>3 DEF Dialling, Waiting
    <3>2. Cardinality(Dialling') = Cardinality(Dialling) - 1
      BY <2>2, <3>1, FS_RemoveElement DEF CountsOK
    <3> QED
      <4>1. WorkLeft' < WorkLeft
        BY <2>1, <2>2, <3>1, <3>2, <1>n, <1>f
      <4> QED
        BY <1>c, <2>1, <4>1
  <2>4. CASE worker[s] = "sent"
    <3>1. s \in Waiting /\ Dialling' = Dialling
      BY <2>2, <2>4 DEF Dialling, Waiting
    <3>2. Cardinality(Waiting') = Cardinality(Waiting) - 1
      BY <2>2, <3>1, FS_RemoveElement DEF CountsOK
    <3> QED
      <4>1. WorkLeft' < WorkLeft
        BY <2>1, <2>2, <3>1, <3>2, <1>n, <1>f
      <4> QED
        BY <1>c, <2>1, <4>1
  <2> QED
    BY <2>1, <2>3, <2>4
<1>4. CASE Gather
  <2>1. results # <<>> /\ results' = Tail(results) /\ phase = "gather"
        /\ UNCHANGED <<phase, todo, worker, expired>>
    BY <1>4 DEF Gather
  <2>2. Len(results') = Len(results) - 1
    BY <1>b, <2>1, Tailing
  <2>3. Dialling' = Dialling /\ Waiting' = Waiting
    BY <2>1 DEF Dialling, Waiting
  <2>4. WorkLeft' < WorkLeft
    BY <2>1, <2>2, <2>3, <1>n, <1>f
  <2> QED
    BY <1>c, <2>1, <2>4 DEF Working
<1>5. CASE Expire
  <2>1. phase \in Working /\ ~expired /\ expired' = TRUE /\ UNCHANGED <<phase, todo, worker, results>>
    BY <1>5 DEF Expire
  <2>2. Dialling' = Dialling /\ Waiting' = Waiting
    BY <2>1 DEF Dialling, Waiting
  <2>3. WorkLeft = Now + 1 /\ WorkLeft' = Now + 0
    BY <1>w, <2>1, <2>2
  <2>4. WorkLeft' < WorkLeft
    <3> HIDE DEF Now
    <3> QED
      BY <1>n, <2>3
  <2> QED
    BY <1>c, <2>1, <2>4
<1>6. CASE FanOutEnds
  <2>1. phase = "fanout" /\ phase' = "gather" /\ UNCHANGED <<todo, worker, results, expired>>
    BY <1>6 DEF FanOutEnds, workVars
  <2>2. Dialling' = Dialling /\ Waiting' = Waiting
    BY <2>1 DEF Dialling, Waiting
  <2>3. WorkLeft' = WorkLeft /\ WorkLeft \in Nat
    BY <2>1, <2>2 DEF CountsOK, WorkLeft
  <2> QED
    BY <2>1, <2>3 DEF MigrationRank, Working, Persisting, PhasesLeft
<1>7. CASE GatherEnds
  <2>1. phase = "gather" /\ phase' \in {"persist", "done"}
    BY <1>7 DEF GatherEnds
  <2>2. MigrationRank \in Nat /\ MigrationRank >= 4
    <3>1. MigrationRank = PhasesLeft["gather"] + WorkLeft
      BY <2>1 DEF MigrationRank, Working, Persisting
    <3>2. WorkLeft \in Nat
      BY DEF CountsOK
    <3> QED
      BY <1>p, <3>1, <3>2
  <2>3. MigrationRank' \in 0 .. 3
    BY <2>1 DEF MigrationRank, Working, Persisting, PhasesLeft
  <2> QED
    BY <2>2, <2>3
<1>8. CASE WriteBegins \/ WriteEnds \/ RenameManifest \/ PersistFails
  <2>1. <<phase, phase'>> \in {<<"persist", "writing">>, <<"writing", "written">>, <<"persist", "done">>,
                               <<"writing", "done">>, <<"written", "done">>}
    BY <1>8 DEF WriteBegins, WriteEnds, RenameManifest, PersistFails, Persisting
  <2> QED
    BY <2>1 DEF MigrationRank, Working, Persisting, PhasesLeft
<1> QED
  BY <1>1, <1>2, <1>3, <1>4, <1>5, <1>6, <1>7, <1>8 DEF Main, Worker

\* MigrateAll, its goroutines and the timer come nearer its return with every
\* step, whatever guests and drains do: with goroutines that run, it returns.
THEOREM MigrationComesToAnEnd == EvictionSpec => MigrationAdvances
<1> DEFINE RankOK == MigrationRank \in Nat
<1>1. Inv /\ CountsOK /\ CountsOK' /\ RankOK /\ RankOK' /\ [EvictionNext]_evictionVars =>
        [/\ Main \/ Expire \/ (\E s \in Slots : Worker(s)) => MigrationRank' < MigrationRank
         /\ phase # "idle" => MigrationRank' <= MigrationRank]_evictionVars
  <2> SUFFICES ASSUME Inv, CountsOK, CountsOK', RankOK, RankOK', [EvictionNext]_evictionVars
               PROVE  /\ Main \/ Expire \/ (\E s \in Slots : Worker(s)) => MigrationRank' < MigrationRank
                      /\ phase # "idle" => MigrationRank' <= MigrationRank
    OBVIOUS
  <2>1. Main \/ Expire \/ (\E s \in Slots : Worker(s)) => MigrationRank' < MigrationRank
    BY RankFalls
  <2>2. MigrationRank \in Nat /\ MigrationRank' \in Nat
    OBVIOUS
  <2>3. RankUnchanged => MigrationRank' = MigrationRank
    <3>1. RankUnchanged => WorkLeft' = WorkLeft
      BY DEF RankUnchanged, WorkLeft, Dialling, Waiting
    <3> QED
      BY <3>1 DEF RankUnchanged, MigrationRank, PhasesLeft
  <2>4. Crash => MigrationRank' = 0
    BY DEF Crash, MigrationRank, Working, Persisting
  <2>5. ASSUME NEW s \in Slots, Guest(s) PROVE RankUnchanged
    BY <2>5 DEF Guest, GuestCheckpoints, GuestRefuses, workVars, RankUnchanged
  <2>6. UNCHANGED migVars => RankUnchanged
    BY DEF migVars, workVars, RankUnchanged
  <2>7. \/ Main \/ Expire \/ Crash \/ \E s \in Slots : Worker(s) \/ Guest(s)
        \/ UNCHANGED migVars \/ phase = "idle"
    BY DEF EvictionNext, Callback, PollDetects, MonitorCancelled, CollectPool,
       CollectSlot, CollectEnded, Visit, NothingToMigrate,
       StartMigration, MigrateAll, SessionDrained, MigStep, evictionVars
  <2> QED
    BY <2>1, <2>2, <2>3, <2>4, <2>5, <2>6, <2>7
<1> QED
  <2>1. Inv => CountsOK /\ RankOK
    BY CountsHold, RankNat
  <2> HIDE DEF RankOK
  <2> QED
    BY <1>1, <2>1, InvHolds, PTL DEF EvictionSpec, MigrationAdvances

\* A manifest that can be read is one that recover can start from: it has a
\* status, pending or failed, for every session, and none for anything else.
THEOREM ManifestStartsRecover == EvictionSpec => []RecoverCanStart
<1>1. Inv /\ ManifestComplete => RecoverCanStart
  <2> SUFFICES ASSUME Inv, ManifestComplete, dest = "complete", NEW s \in Slots
               PROVE  IF s \in ActiveSlots THEN Published[s] \in {"pending", "failed"} ELSE Published[s] = "none"
    BY DEF RecoverCanStart
  <2>a. manifest \in Seq(SessionMigration) /\ Once
    BY DEF Inv, MigInv, Types, SeqType
  <2>1. CASE s \in ActiveSlots
    <3> DEFINE k == CHOOSE i \in 1 .. Len(manifest) : manifest[i].slot = s
    <3>1. \E i \in 1 .. Len(manifest) : manifest[i].slot = s
      BY <2>1 DEF ManifestComplete
    <3>2. k \in 1 .. Len(manifest)
      BY <3>1
    <3>3. manifest[k] \in SessionMigration
      BY <2>a, <3>2
    <3>4. Published[s] = manifest[k].status
      BY <3>1 DEF Published
    <3> QED
      BY <2>1, <3>3, <3>4 DEF SessionMigration
  <2>2. CASE s \notin ActiveSlots
    BY <2>a, <2>2 DEF Once, Entered, Published
  <2> QED
    BY <2>1, <2>2
<1> QED
  BY <1>1, InvHolds, ManifestCompleteHolds, PTL
=============================================================================
