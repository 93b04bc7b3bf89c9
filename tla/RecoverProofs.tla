---------------------------- MODULE RecoverProofs ----------------------------
(***************************************************************************)
(* Theorems about Recover.tla, for every number of manifests, sessions and *)
(* runs: the run never takes back what is settled, and together the runs   *)
(* implement SessionMigration.tla.                                         *)
(***************************************************************************)
EXTENDS Recover, FiniteSetTheorems, WellFoundedInduction, TLAPS

\* Types, as far as the steps need them.
MemType == mem \in Statuses /\ found \in Statuses
DiskType == disk \in [Manifests -> File]
TmpType == tmp \in [Manifests -> File \cup {Partial, NoFile}]
LoadType == loaded \subseteq Manifests /\ todo \subseteq loaded \X Sessions
GuestType == accepted \in [Entries -> Nat]
Types == MemType /\ DiskType /\ TmpType /\ LoadType /\ GuestType

InSession == pc \in {"dial", "wait", "rewrite", "writing", "written"}

\* The session that is being recovered is one of a manifest that was read.
CurOK == InSession => cur \in loaded \X Sessions

\* What is about to be renamed is what memory holds.
WrittenOK == pc = "written" => tmp[cur[1]] = [form |-> "whole", status |-> mem[cur[1]]]

\* A signal is sent, and awaited, before anything is decided.
UndecidedOK == pc \in {"dial", "wait"} => StatusIn(mem, cur) = "pending"

AckOK == pc = "wait" /\ reply = "ack" => accepted[cur] > 0

\* A status of which memory holds a successor of what is on disk.
Ahead(e) == /\ OnDisk(e) = "pending"
            /\ \/ StatusIn(mem, e) = "failed"
               \/ StatusIn(mem, e) = "resumed" /\ accepted[e] > 0

\* Memory is ahead of the disk, never behind.
AheadOK == \A e \in loaded \X Sessions : StatusIn(mem, e) # OnDisk(e) => Ahead(e)

TruthOK == \A e \in Entries : OnDisk(e) = "resumed" => accepted[e] > 0

\* The inductive invariant of the record.
RecordInv == Types /\ CurOK /\ WrittenOK /\ UndecidedOK /\ AckOK /\ AheadOK /\ TruthOK

-----------------------------------------------------------------------------
\* Helpers.

LEMMA Whole == ASSUME NEW f \in File PROVE f # Partial /\ f.status \in [Sessions -> Status]
  BY DEF File, Partial

LEMMA EntryParts == /\ \A e \in Entries : e[1] \in Manifests /\ e[2] \in Sessions /\ e = <<e[1], e[2]>>
                    /\ \A m \in Manifests, i \in Sessions : <<m, i>> \in Entries
                    /\ LoadType => loaded \X Sessions \subseteq Entries
  BY DEF Entries, LoadType

LEMMA DecideStep ==
    ASSUME MemType, cur \in Entries, NEW status \in {"failed", "resumed"}, Decide(status)
    PROVE  /\ mem' \in Statuses
           /\ \A e \in Entries : StatusIn(mem', e) = IF e = cur THEN status ELSE StatusIn(mem, e)
<1>1. cur[1] \in Manifests /\ cur[2] \in Sessions
  BY EntryParts
<1>2. mem' \in Statuses
  BY <1>1 DEF MemType, Decide, Statuses, Status
<1>3. StatusIn(mem', cur) = status
  BY <1>1 DEF MemType, Decide, Statuses, StatusIn
<1>4. ASSUME NEW e \in Entries, e # cur PROVE StatusIn(mem', e) = StatusIn(mem, e)
  <2>1. e[1] # cur[1] \/ e[2] # cur[2]
    BY <1>4, EntryParts
  <2>2. e[1] \in Manifests /\ e[2] \in Sessions
    BY EntryParts
  <2> QED
    BY <1>1, <2>1, <2>2 DEF MemType, Decide, Statuses, StatusIn
<1> QED
  BY <1>2, <1>3, <1>4

LEMMA RecordInit == Init => RecordInv
<1> SUFFICES ASSUME Init PROVE RecordInv
  OBVIOUS
<1>1. MemType
  BY DEF Init, MemType, Statuses, Status, Unread
<1>2. DiskType
  BY DEF Init, DiskType, File, Status
<1>3. TmpType
  BY DEF Init, TmpType
<1>4. LoadType /\ GuestType
  BY DEF Init, LoadType, GuestType
<1>5. CurOK /\ WrittenOK /\ UndecidedOK /\ AckOK /\ AheadOK
  BY DEF Init, InSession, CurOK, WrittenOK, UndecidedOK, AckOK, AheadOK
<1>6. TruthOK
  <2>1. ASSUME NEW e \in Entries PROVE OnDisk(e) \in {"pending", "failed"}
    BY EntryParts DEF Init, OnDisk
  <2> QED
    BY <2>1 DEF TruthOK
<1> QED
  BY <1>1, <1>2, <1>3, <1>4, <1>5, <1>6 DEF RecordInv, Types

\* What the record and the guests hold, before and after a step.
SameData == UNCHANGED <<mem, loaded, disk, accepted, found>>

LEMMA SameDataStep == ASSUME RecordInv, SameData, todo' \subseteq todo
                      PROVE  MemType' /\ DiskType' /\ LoadType' /\ GuestType' /\ AheadOK' /\ TruthOK'
  BY DEF RecordInv, Types, SameData, MemType, DiskType, LoadType, GuestType, AheadOK, Ahead,
         TruthOK, OnDisk, StatusIn

LEMMA RecordStep == RecordInv /\ [Next]_vars => RecordInv'
<1> SUFFICES ASSUME RecordInv, [Next]_vars PROVE RecordInv'
  OBVIOUS
<1>a. MemType /\ DiskType /\ TmpType /\ LoadType /\ GuestType
  BY DEF RecordInv, Types
<1>b. CurOK /\ WrittenOK /\ UndecidedOK /\ AckOK /\ AheadOK /\ TruthOK
  BY DEF RecordInv
<1>c. ASSUME SameData, todo' \subseteq todo, TmpType', CurOK', WrittenOK', UndecidedOK', AckOK'
      PROVE  RecordInv'
  BY <1>c, SameDataStep DEF RecordInv, Types
\* Inside a session, the current entry.
<1>d. ASSUME InSession PROVE cur \in loaded \X Sessions /\ cur \in Entries /\ cur[1] \in Manifests
  BY <1>a, <1>b, <1>d, EntryParts DEF CurOK
<1>1. ASSUME NEW readable \in SUBSET Manifests, NEW slotReady \in BOOLEAN, Start(readable, slotReady)
      PROVE  RecordInv'
  <2>1. mem' \in Statuses /\ \A m \in readable : mem'[m] = disk[m].status
    <3>1. \A m \in Manifests : disk[m].status \in [Sessions -> Status]
      BY <1>a, Whole DEF DiskType
    <3>2. Unread \in [Sessions -> Status]
      BY DEF Unread, Status
    <3>3. mem' = [m \in Manifests |-> IF m \in readable THEN disk[m].status ELSE Unread]
      BY <1>1 DEF Start
    <3> QED
      BY <3>1, <3>2, <3>3 DEF Statuses
  <2>2. AheadOK'
    BY <1>1, <2>1 DEF Start, fileVars, AheadOK, OnDisk, StatusIn
  <2>3. TruthOK'
    BY <1>1, <1>b DEF Start, fileVars, TruthOK, OnDisk
  <2>4. MemType' /\ DiskType' /\ TmpType' /\ LoadType' /\ GuestType'
    BY <1>1, <1>a, <2>1 DEF Start, fileVars, MemType, DiskType, TmpType, LoadType, GuestType
  <2>5. CurOK' /\ WrittenOK' /\ UndecidedOK' /\ AckOK'
    BY <1>1 DEF Start, InSession, CurOK, WrittenOK, UndecidedOK, AckOK
  <2> QED
    BY <2>2, <2>3, <2>4, <2>5 DEF RecordInv, Types
<1>0. CASE ReadDirFails
  <2>1. /\ mem' = mem /\ loaded' = {} /\ todo' = {} /\ pc' = "exit1" /\ cur' = <<>> /\ reply' = "none"
        /\ UNCHANGED <<found, disk, tmp, inbox, accepted>>
    BY <1>0 DEF ReadDirFails, fileVars
  <2>2. AheadOK' /\ TruthOK'
    BY <1>b, <2>1 DEF AheadOK, TruthOK, OnDisk
  <2>3. MemType' /\ DiskType' /\ TmpType' /\ LoadType' /\ GuestType'
    BY <1>a, <2>1 DEF MemType, DiskType, TmpType, LoadType, GuestType
  <2>4. CurOK' /\ WrittenOK' /\ UndecidedOK' /\ AckOK'
    BY <2>1 DEF InSession, CurOK, WrittenOK, UndecidedOK, AckOK
  <2> QED
    BY <2>2, <2>3, <2>4 DEF RecordInv, Types
<1>2. ASSUME NEW e \in Entries, Skip(e) \/ Take(e) PROVE RecordInv'
  <2>1. SameData /\ todo' \subseteq todo /\ TmpType' /\ e \in loaded \X Sessions /\ cur' = e
    BY <1>2, <1>a DEF Skip, Take, IsNext, SameData, fileVars, guestVars, history, TmpType, LoadType
  <2>2. pc' = "entry" \/ (pc' = "dial" /\ StatusIn(mem, e) = "pending")
    BY <1>2 DEF Skip, Take
  <2>3. CurOK' /\ WrittenOK' /\ UndecidedOK' /\ AckOK'
    BY <2>1, <2>2 DEF CurOK, WrittenOK, UndecidedOK, AckOK, InSession, SameData, StatusIn
  <2> QED
    BY <1>c, <2>1, <2>3
<1>3. CASE DialAndSend
  <2>1. SameData /\ todo' = todo /\ TmpType' /\ cur' = cur /\ pc = "dial" /\ pc' = "wait" /\ reply' = "none"
    BY <1>3, <1>a DEF DialAndSend, SameData, fileVars, history, TmpType
  <2>2. CurOK' /\ WrittenOK' /\ UndecidedOK' /\ AckOK'
    BY <2>1, <1>b DEF CurOK, WrittenOK, UndecidedOK, AckOK, InSession, SameData, StatusIn
  <2> QED
    BY <1>c, <2>1, <2>2
<1>4. ASSUME NEW status \in {"failed", "resumed"}, Decide(status), pc \in {"dial", "wait"},
             status = "resumed" => accepted[cur] > 0,
             UNCHANGED <<todo, cur, loaded, fileVars, guestVars, history>>
      PROVE  RecordInv'
  <2>0. cur \in loaded \X Sessions /\ cur \in Entries
    BY <1>4, <1>d DEF InSession
  <2>1. /\ mem' \in Statuses
        /\ \A e \in Entries : StatusIn(mem', e) = IF e = cur THEN status ELSE StatusIn(mem, e)
    BY <1>4, <1>a, <2>0, DecideStep
  <2>2. MemType' /\ DiskType' /\ TmpType' /\ LoadType' /\ GuestType' /\ TruthOK'
    BY <1>4, <1>a, <1>b, <2>1 DEF fileVars, guestVars, history, MemType, DiskType, TmpType, LoadType,
       GuestType, TruthOK, OnDisk
  <2>3. StatusIn(mem, cur) = "pending" /\ OnDisk(cur) = "pending"
    BY <1>4, <1>b, <2>0 DEF UndecidedOK, AheadOK, Ahead
  <2>4. ASSUME NEW e \in loaded \X Sessions, StatusIn(mem', e) # OnDisk(e)
        PROVE  /\ OnDisk(e) = "pending"
               /\ \/ StatusIn(mem', e) = "failed"
                  \/ StatusIn(mem', e) = "resumed" /\ accepted[e] > 0
    <3>0. e \in Entries
      BY <1>a, EntryParts
    <3>1. CASE e = cur
      BY <1>4, <2>1, <2>3, <3>0, <3>1
    <3>2. CASE e # cur
      BY <1>b, <2>1, <2>4, <3>0, <3>2 DEF AheadOK, Ahead
    <3> QED
      BY <3>1, <3>2
  <2>5. AheadOK'
    BY <1>4, <2>4 DEF fileVars, guestVars, AheadOK, Ahead, OnDisk, StatusIn
  <2>6. CurOK' /\ WrittenOK' /\ UndecidedOK' /\ AckOK'
    BY <1>4, <2>0 DEF Decide, CurOK, WrittenOK, UndecidedOK, AckOK, InSession
  <2> QED
    BY <2>2, <2>5, <2>6 DEF RecordInv, Types
<1>5. CASE DialFails \/ AnswerArrives \/ GiveUp
  <2>1. PICK status \in {"failed", "resumed"} :
           Decide(status) /\ (status = "resumed" => pc = "wait" /\ reply = "ack")
    BY <1>5 DEF DialFails, AnswerArrives, GiveUp
  <2> QED
    BY <1>4, <1>5, <1>b, <2>1 DEF DialFails, AnswerArrives, GiveUp, AckOK
<1>6. CASE RewriteBegins
  <2>1. SameData /\ todo' = todo /\ cur' = cur /\ pc = "rewrite" /\ pc' = "writing"
    BY <1>6 DEF RewriteBegins, SameData, guestVars, history
  <2>2. TmpType'
    BY <1>6, <1>a DEF RewriteBegins, TmpType
  <2>3. CurOK' /\ WrittenOK' /\ UndecidedOK' /\ AckOK'
    BY <2>1, <1>b DEF CurOK, WrittenOK, UndecidedOK, AckOK, InSession, SameData
  <2> QED
    BY <1>c, <2>1, <2>2, <2>3
<1>7. CASE RewriteEnds
  <2>1. SameData /\ todo' = todo /\ cur' = cur /\ pc = "writing" /\ pc' = "written"
    BY <1>7 DEF RewriteEnds, SameData, guestVars, history
  <2>2. cur[1] \in Manifests /\ [form |-> "whole", status |-> mem[cur[1]]] \in File
    BY <1>a, <1>d, <2>1 DEF InSession, MemType, Statuses, File
  <2>3. TmpType' /\ tmp'[cur[1]] = [form |-> "whole", status |-> mem[cur[1]]]
    BY <1>7, <1>a, <2>2 DEF RewriteEnds, TmpType
  <2>4. CurOK' /\ WrittenOK' /\ UndecidedOK' /\ AckOK'
    BY <2>1, <2>3, <1>b DEF CurOK, WrittenOK, UndecidedOK, AckOK, InSession, SameData
  <2> QED
    BY <1>c, <2>1, <2>3, <2>4
<1>8. CASE RewriteRenames
  <2>1. /\ pc = "written" /\ pc' = "entry"
        /\ UNCHANGED <<todo, cur, mem, loaded, accepted, found>>
    BY <1>8 DEF RewriteRenames, guestVars, history
  <2>2. cur[1] \in Manifests /\ tmp[cur[1]] = [form |-> "whole", status |-> mem[cur[1]]]
    BY <1>b, <1>d, <2>1 DEF InSession, WrittenOK
  <2>3. DiskType' /\ \A m \in Manifests : disk'[m].status = IF m = cur[1] THEN mem[m] ELSE disk[m].status
    BY <1>8, <1>a, <2>2 DEF RewriteRenames, DiskType, MemType, Statuses, File
  <2>4. ASSUME NEW e \in Entries
        PROVE  OnDisk(e)' = IF e[1] = cur[1] THEN StatusIn(mem, e) ELSE OnDisk(e)
    BY <2>3, EntryParts DEF OnDisk, StatusIn
  <2>5. cur[1] \in loaded
    BY <1>d, <2>1 DEF InSession
  <2>6. ASSUME NEW e \in Entries PROVE OnDisk(e)' = "resumed" => accepted[e] > 0
    <3>1. CASE e[1] = cur[1]
      BY <1>b, <2>4, <2>5, <3>1, EntryParts DEF AheadOK, Ahead, TruthOK
    <3>2. CASE e[1] # cur[1]
      BY <1>b, <2>4, <3>2 DEF TruthOK
    <3> QED
      BY <3>1, <3>2
  <2>7. TruthOK'
    BY <2>1, <2>6 DEF TruthOK
  <2>8. AheadOK'
    <3>1. ASSUME NEW e \in loaded \X Sessions, StatusIn(mem, e) # OnDisk(e)'
          PROVE  OnDisk(e)' = OnDisk(e) /\ Ahead(e)
      BY <1>a, <1>b, <2>4, <3>1, EntryParts DEF AheadOK
    <3> QED
      BY <2>1, <3>1 DEF AheadOK, Ahead, StatusIn
  <2>9. MemType' /\ TmpType' /\ LoadType' /\ GuestType'
    BY <1>8, <1>a, <2>1 DEF RewriteRenames, MemType, TmpType, LoadType, GuestType
  <2>10. CurOK' /\ WrittenOK' /\ UndecidedOK' /\ AckOK'
    BY <2>1 DEF CurOK, WrittenOK, UndecidedOK, AckOK, InSession
  <2> QED
    BY <2>3, <2>7, <2>8, <2>9, <2>10 DEF RecordInv, Types
<1>9. CASE RewriteFails
  <2>1. SameData /\ todo' = todo /\ pc' = "entry"
    BY <1>9 DEF RewriteFails, SameData, guestVars
  <2>2. TmpType'
    BY <1>9, <1>a DEF RewriteFails, TmpType
  <2>3. CurOK' /\ WrittenOK' /\ UndecidedOK' /\ AckOK'
    BY <2>1 DEF CurOK, WrittenOK, UndecidedOK, AckOK, InSession
  <2> QED
    BY <1>c, <2>1, <2>2, <2>3
<1>10. CASE Exit \/ Crash
  <2>1. SameData /\ todo' = todo /\ pc' \in {"exit0", "exit1", "crashed"} /\ TmpType'
    BY <1>10, <1>a DEF Exit, Crash, SameData, fileVars, guestVars, history, TmpType
  <2>2. CurOK' /\ WrittenOK' /\ UndecidedOK' /\ AckOK'
    BY <2>1 DEF CurOK, WrittenOK, UndecidedOK, AckOK, InSession
  <2> QED
    BY <1>c, <2>1, <2>2
<1>11. ASSUME NEW r, NEW e \in Entries, GuestResumes(r, e) PROVE RecordInv'
  <2>1. UNCHANGED <<procVars, fileVars, history>>
    BY <1>11 DEF GuestResumes
  <2>2. GuestType' /\ accepted'[e] > 0 /\ \A f \in Entries : accepted[f] > 0 => accepted'[f] > 0
    BY <1>11, <1>a DEF GuestResumes, GuestType
  <2>3. MemType' /\ DiskType' /\ TmpType' /\ LoadType' /\ CurOK' /\ WrittenOK' /\ UndecidedOK'
    BY <1>a, <1>b, <2>1 DEF procVars, fileVars, history, MemType, DiskType, TmpType, LoadType, CurOK,
       WrittenOK, UndecidedOK, InSession, StatusIn
  <2>4. AheadOK' /\ TruthOK'
    BY <1>a, <1>b, <2>1, <2>2, EntryParts DEF procVars, fileVars, AheadOK, Ahead, TruthOK, OnDisk, StatusIn
  <2>5. AckOK'
    <3>1. SUFFICES ASSUME pc = "wait", reply' = "ack" PROVE accepted'[cur] > 0
      BY <2>1 DEF AckOK, procVars
    <3>2. cur \in Entries
      BY <1>d, <3>1 DEF InSession
    <3>3. CASE cur = e
      BY <2>2, <3>3
    <3>4. CASE cur # e
      BY <1>11, <1>b, <2>2, <3>1, <3>2, <3>4 DEF GuestResumes, Hears, AckOK
    <3> QED
      BY <3>3, <3>4
  <2> QED
    BY <2>2, <2>3, <2>4, <2>5 DEF RecordInv, Types
<1>12. ASSUME NEW r, NEW e \in Entries, GuestRefuses(r, e) PROVE RecordInv'
  <2>1. UNCHANGED <<procVars, fileVars, history, accepted>>
    BY <1>12 DEF GuestRefuses
  <2>2. SameData /\ todo' = todo /\ TmpType' /\ CurOK' /\ WrittenOK' /\ UndecidedOK'
    BY <1>a, <1>b, <2>1 DEF procVars, fileVars, history, SameData, TmpType, CurOK, WrittenOK,
       UndecidedOK, InSession, StatusIn
  <2>3. AckOK'
    BY <1>12, <1>b, <2>1 DEF procVars, GuestRefuses, Hears, AckOK
  <2> QED
    BY <1>c, <2>2, <2>3
<1>13. CASE UNCHANGED vars
  <2>1. SameData /\ todo' = todo /\ TmpType' /\ CurOK' /\ WrittenOK' /\ UndecidedOK' /\ AckOK'
    BY <1>13, <1>a, <1>b DEF vars, procVars, fileVars, guestVars, history, SameData, TmpType, CurOK,
       WrittenOK, UndecidedOK, AckOK, InSession, StatusIn
  <2> QED
    BY <1>c, <2>1
<1> QED
  BY <1>0, <1>1, <1>2, <1>3, <1>5, <1>6, <1>7, <1>8, <1>9, <1>10, <1>11, <1>12,
     <1>13 DEF Next, Recovering

LEMMA RecordHolds == Spec => []RecordInv
  BY RecordInit, RecordStep, PTL DEF Spec

\* A manifest can be read whenever the process dies, and a session recorded in
\* it as resumed was resumed by a guest.
THEOREM RecordIsTruthfulHolds == Spec => []RecordIsTruthful
<1>1. RecordInv => RecordIsTruthful
  BY Whole, EntryParts DEF RecordInv, Types, DiskType, TruthOK, OnDisk, RecordIsTruthful
<1> QED
  BY <1>1, RecordHolds, PTL

\* A signal is sent only for a session that is pending on disk.
THEOREM SignalOnlyPendingHolds == Spec => SignalOnlyPending
<1> DEFINE Sent(e) == \E r \in 1 .. MaxRuns : <<r, e>> \in inbox' \ inbox
<1>1. ASSUME RecordInv, [Next]_vars, NEW e \in Entries, Sent(e) PROVE OnDisk(e) = "pending"
  <2>1. DialAndSend
    BY <1>1 DEF Next, Recovering, Start, ReadDirFails, Skip, Take, DialFails, AnswerArrives, GiveUp,
       RewriteBegins, RewriteEnds, RewriteRenames, RewriteFails, Exit, Crash, GuestResumes,
       GuestRefuses, guestVars, vars
  <2>2. cur = e
    BY <1>1, <2>1 DEF DialAndSend
  <2> QED
    BY <1>1, <2>1, <2>2 DEF DialAndSend, RecordInv, CurOK, InSession, UndecidedOK, AheadOK, Ahead
<1>2. RecordInv /\ [Next]_vars => \A e \in Entries : Sent(e) => OnDisk(e) = "pending"
  BY <1>1
<1> QED
  BY <1>2, RecordHolds, PTL DEF Spec, SignalOnlyPending

-----------------------------------------------------------------------------
\* The refinement: what can be read about a session is its status on disk, and
\* a guest has resumed it if it has accepted a signal for it.
Record == [e \in Entries |-> OnDisk(e)]
Resumed == {e \in Entries : accepted[e] > 0}

LEMMA ContractBegins == Init => Promise!ContractInit
<1> SUFFICES ASSUME Init PROVE Promise!ContractInit
  OBVIOUS
<1>1. ASSUME NEW e \in Entries PROVE OnDisk(e) \in {"pending", "failed"}
  BY EntryParts DEF Init, OnDisk
<1>2. Record \in Promise!Publishable
  BY <1>1 DEF Record, Promise!Publishable
<1>3. Resumed = {}
  BY DEF Init, Resumed
<1> QED
  BY <1>2, <1>3 DEF Promise!ContractInit, Record, Resumed

LEMMA ContractStep == RecordInv /\ RecordInv' /\ [Next]_vars => [Promise!ContractNext]_(Promise!contractVars)
<1> SUFFICES ASSUME RecordInv, RecordInv', [Next]_vars
             PROVE  \/ Promise!ContractNext
                    \/ Record' = Record /\ Resumed' = Resumed
  BY DEF Promise!contractVars, Record, Resumed
<1>a. DiskType /\ GuestType /\ LoadType /\ MemType
  BY DEF RecordInv, Types
<1>1. CASE UNCHANGED <<disk, accepted>>
  BY <1>1 DEF Record, Resumed, OnDisk
<1>2. CASE RewriteRenames
  <2>1. pc = "written" /\ accepted' = accepted
    BY <1>2 DEF RewriteRenames, guestVars
  <2>2. cur[1] \in loaded /\ cur[1] \in Manifests /\ tmp[cur[1]] = [form |-> "whole", status |-> mem[cur[1]]]
    BY <1>a, <2>1, EntryParts DEF RecordInv, CurOK, InSession, WrittenOK
  <2>3. ASSUME NEW e \in Entries
        PROVE  OnDisk(e)' = IF e[1] = cur[1] THEN StatusIn(mem, e) ELSE OnDisk(e)
    BY <1>2, <1>a, <2>2, EntryParts DEF RewriteRenames, OnDisk, StatusIn, DiskType
  <2>4. ASSUME NEW e \in Entries, OnDisk(e)' # OnDisk(e)
        PROVE  /\ OnDisk(e) = "pending"
               /\ OnDisk(e)' = "failed" \/ (OnDisk(e)' = "resumed" /\ e \in Resumed)
    <3>1. e[1] = cur[1] /\ e \in loaded \X Sessions /\ OnDisk(e)' = StatusIn(mem, e)
      BY <2>2, <2>3, <2>4, EntryParts
    <3> QED
      BY <2>4, <3>1 DEF RecordInv, AheadOK, Ahead, Resumed
  <2>5. ASSUME NEW e \in Entries PROVE OnDisk(e)' \in Status
    <3>1. DiskType'
      BY DEF RecordInv, Types
    <3> QED
      BY <3>1, Whole, EntryParts DEF DiskType, OnDisk
  <2>6. Record' \in [Entries -> {"none", "pending", "failed", "resumed"}]
    BY <2>5 DEF Record, Status
  <2>7. Promise!Settle
    BY <2>1, <2>4, <2>6 DEF Promise!Settle, Record, Resumed
  <2> QED
    BY <2>7 DEF Promise!ContractNext
<1>3. ASSUME NEW r, NEW e \in Entries, GuestResumes(r, e) PROVE Promise!ContractNext
  <2>1. disk' = disk /\ Resumed' = Resumed \cup {e}
    BY <1>3, <1>a DEF GuestResumes, fileVars, GuestType, Resumed
  <2>2. Record' = Record
    BY <2>1 DEF Record, OnDisk
  <2>3. Record[e] # "none"
    BY <1>a, Whole, EntryParts DEF Record, OnDisk, DiskType, Status
  <2>4. Promise!Resume(e)
    BY <2>1, <2>2, <2>3 DEF Promise!Resume, Record, Resumed
  <2> QED
    BY <2>4 DEF Promise!ContractNext
<1> QED
  BY <1>1, <1>2, <1>3 DEF Next, Recovering, Start, ReadDirFails, Skip, Take, DialAndSend, DialFails, AnswerArrives,
     GiveUp, Decide, RewriteBegins, RewriteEnds, RewriteFails, Exit, Crash, GuestRefuses, fileVars,
     guestVars, vars

\* All runs together implement the promise of a migration, for every number of
\* manifests, sessions and runs.
THEOREM RecoverKeepsContract == Spec => KeepsContract
  BY ContractBegins, ContractStep, RecordHolds, PTL DEF Spec, KeepsContract, Promise!Contract

-----------------------------------------------------------------------------
\* What makes ExitDecidesAll inductive, of a run that has not died.
Loaded == loaded \X Sessions

\* A session that is pending in memory is yet to be looked at, or is in hand.
LeftOK == \A e \in Loaded : StatusIn(mem, e) = "pending" =>
              e \in todo \/ (pc \in {"dial", "wait", "crashed"} /\ cur = e)

\* Only what was found pending is decided.
FoundOK == \A e \in Loaded : StatusIn(mem, e) # StatusIn(found, e) => StatusIn(found, e) = "pending"

FailedHere(e) == StatusIn(mem, e) = "failed" /\ StatusIn(found, e) = "pending"
CountOK == failed \in Nat /\ (failed > 0 <=> \E e \in Loaded : FailedHere(e))

\* What is decided is on disk, or about to be written, or could not be written.
SavedOK == \/ unsaved
           \/ \A m \in loaded : \/ disk[m].status = mem[m]
                                \/ pc \in {"rewrite", "writing", "written", "crashed"} /\ m = cur[1]

RunInv == LeftOK /\ FoundOK /\ CountOK /\ SavedOK

LEMMA RunInit == Init => RunInv
  BY DEF Init, RunInv, Loaded, LeftOK, FoundOK, CountOK, SavedOK

LEMMA RunStep == RecordInv /\ RunInv /\ [Next]_vars => RunInv'
<1> SUFFICES ASSUME RecordInv, RunInv, [Next]_vars PROVE RunInv'
  OBVIOUS
<1>a. MemType /\ DiskType /\ TmpType /\ LoadType /\ CurOK /\ WrittenOK /\ UndecidedOK
  BY DEF RecordInv, Types
<1>b. LeftOK /\ FoundOK /\ CountOK /\ SavedOK /\ Loaded \subseteq Entries
  BY <1>a, EntryParts DEF RunInv, Loaded
\* Steps that decide nothing.
<1>c. ASSUME UNCHANGED <<mem, loaded, failed, found>>
      PROVE  FoundOK' /\ CountOK' /\ Loaded' = Loaded /\ \A e : StatusIn(mem, e)' = StatusIn(mem, e)
  BY <1>b, <1>c DEF FoundOK, CountOK, FailedHere, Loaded, StatusIn
<1>d. ASSUME UNCHANGED <<mem, loaded, failed, found, disk, todo, cur, unsaved>>,
             pc \in {"dial", "wait", "crashed"} => pc' \in {"dial", "wait", "crashed"},
             pc \in {"rewrite", "writing", "written", "crashed"}
             => pc' \in {"rewrite", "writing", "written", "crashed"}
      PROVE  RunInv'
  <2>1. LeftOK'
    BY <1>b, <1>c, <1>d DEF LeftOK
  <2>2. SavedOK'
    BY <1>b, <1>d DEF SavedOK
  <2> QED
    BY <1>c, <1>d, <2>1, <2>2 DEF RunInv
<1>1. ASSUME NEW readable \in SUBSET Manifests, NEW slotReady \in BOOLEAN, Start(readable, slotReady)
      PROVE  RunInv'
  <2>1. \A m \in readable : mem'[m] = disk[m].status
    BY <1>1 DEF Start
  <2>2. loaded' = readable /\ todo' = readable \X Sessions /\ found' = mem' /\ failed' = 0 /\ disk' = disk
    BY <1>1 DEF Start, fileVars
  <2>3. LeftOK' /\ FoundOK' /\ SavedOK'
    BY <2>1, <2>2 DEF LeftOK, FoundOK, SavedOK, Loaded, StatusIn
  <2>4. CountOK'
    BY <2>2 DEF CountOK, FailedHere, Loaded, StatusIn
  <2> QED
    BY <2>3, <2>4 DEF RunInv
<1>0. CASE ReadDirFails
  <2>1. loaded' = {} /\ failed' = 0
    BY <1>0 DEF ReadDirFails
  <2>2. Loaded' = {}
    BY <2>1 DEF Loaded
  <2> QED
    BY <2>1, <2>2 DEF RunInv, LeftOK, FoundOK, CountOK, SavedOK
<1>2. ASSUME NEW e \in Entries, Skip(e) \/ Take(e) PROVE RunInv'
  <2>1. UNCHANGED <<mem, loaded, failed, found, disk, unsaved>> /\ pc = "entry"
    BY <1>2 DEF Skip, Take, fileVars, history
  <2>2. /\ todo' = todo \ {e} /\ cur' = e
        /\ pc' = "entry" \/ pc' = "dial"
        /\ StatusIn(mem, e) = "pending" => pc' = "dial"
    BY <1>2 DEF Skip, Take
  <2>3. LeftOK'
    BY <1>b, <1>c, <2>1, <2>2 DEF LeftOK
  <2>4. SavedOK'
    BY <1>b, <2>1 DEF SavedOK
  <2> QED
    BY <1>c, <2>1, <2>3, <2>4 DEF RunInv
<1>3. CASE DialAndSend
  BY <1>3, <1>d DEF DialAndSend, fileVars, history
<1>4. CASE DialFails \/ AnswerArrives \/ GiveUp
  <2>0. /\ pc \in {"dial", "wait"} /\ pc' = "rewrite" /\ unsaved' = unsaved
        /\ UNCHANGED <<todo, cur, loaded, found, disk>>
        /\ \E s \in {"failed", "resumed"} : Decide(s)
    BY <1>4 DEF DialFails, AnswerArrives, GiveUp, Decide, fileVars, history
  <2>1. PICK status \in {"failed", "resumed"} : Decide(status)
    BY <2>0
  <2>2. cur \in Loaded /\ cur \in Entries /\ StatusIn(mem, cur) = "pending"
    BY <1>a, <1>b, <2>0 DEF CurOK, InSession, UndecidedOK, Loaded
  <2>3. \A e \in Entries : StatusIn(mem', e) = IF e = cur THEN status ELSE StatusIn(mem, e)
    BY <1>a, <2>1, <2>2, DecideStep
  <2>4. Loaded' = Loaded /\ \A e : /\ StatusIn(mem, e)' = StatusIn(mem', e)
                                   /\ StatusIn(found, e)' = StatusIn(found, e)
    BY <2>0 DEF Loaded, StatusIn
  <2>5. StatusIn(found, cur) = "pending"
    BY <1>b, <2>2 DEF FoundOK
  <2>6. LeftOK' /\ FoundOK'
    BY <1>b, <2>0, <2>2, <2>3, <2>4, <2>5 DEF LeftOK, FoundOK
  <2>7. CountOK'
    <3>1. failed' = IF status = "failed" THEN failed + 1 ELSE failed
      BY <2>1 DEF Decide
    <3>2. CASE status = "failed"
      <4>1. \E e \in Loaded : StatusIn(mem', e) = "failed" /\ StatusIn(found, e)' = "pending"
        BY <2>2, <2>3, <2>4, <2>5, <3>2
      <4>2. failed' \in Nat /\ failed' > 0
        BY <1>b, <3>1, <3>2 DEF CountOK
      <4> QED
        BY <2>4, <4>1, <4>2 DEF CountOK, FailedHere
    <3>3. CASE status = "resumed"
      <4>1. \A e \in Loaded : FailedHere(e)' <=> FailedHere(e)
        BY <1>b, <2>2, <2>3, <2>4, <3>3 DEF FailedHere
      <4> QED
        BY <1>b, <2>4, <3>1, <3>3, <4>1 DEF CountOK
    <3> QED
      BY <3>2, <3>3
  <2>8. SavedOK'
    <3>1. \A m \in loaded : m # cur[1] => mem'[m] = mem[m]
      BY <1>a, <2>1 DEF Decide, MemType, Statuses, LoadType
    <3> QED
      BY <1>b, <2>0, <3>1 DEF SavedOK
  <2> QED
    BY <2>6, <2>7, <2>8 DEF RunInv
<1>5. CASE RewriteBegins \/ RewriteEnds
  BY <1>5, <1>d DEF RewriteBegins, RewriteEnds, history
<1>6. CASE RewriteRenames
  <2>1. pc = "written" /\ pc' = "entry" /\ UNCHANGED <<todo, cur, mem, loaded, failed, found, unsaved>>
    BY <1>6 DEF RewriteRenames, history
  <2>2. cur[1] \in Manifests /\ tmp[cur[1]] = [form |-> "whole", status |-> mem[cur[1]]]
    BY <1>a, <2>1, EntryParts DEF CurOK, InSession, WrittenOK
  <2>3. \A m \in Manifests : disk'[m].status = IF m = cur[1] THEN mem[m] ELSE disk[m].status
    BY <1>6, <1>a, <2>2 DEF RewriteRenames, DiskType
  <2>4. SavedOK'
    BY <1>a, <1>b, <2>1, <2>3 DEF SavedOK, LoadType
  <2>5. LeftOK'
    BY <1>b, <1>c, <2>1 DEF LeftOK
  <2> QED
    BY <1>c, <2>1, <2>4, <2>5 DEF RunInv
<1>7. CASE RewriteFails
  <2>1. /\ pc \in {"rewrite", "writing", "written"} /\ unsaved'
        /\ UNCHANGED <<todo, cur, mem, loaded, failed, found>>
    BY <1>7 DEF RewriteFails
  <2>2. LeftOK' /\ SavedOK'
    BY <1>b, <1>c, <2>1 DEF LeftOK, SavedOK
  <2> QED
    BY <1>c, <2>1, <2>2 DEF RunInv
<1>8. CASE Exit \/ Crash
  <2>1. /\ pc \in {"dial", "wait", "crashed"} => pc' = "crashed"
        /\ pc \in {"rewrite", "writing", "written", "crashed"} => pc' = "crashed"
    BY <1>8 DEF Exit, Crash
  <2> QED
    BY <1>8, <1>d, <2>1 DEF Exit, Crash, fileVars, history
<1>9. ASSUME NEW r, NEW e, GuestResumes(r, e) \/ GuestRefuses(r, e) PROVE RunInv'
  BY <1>9, <1>d DEF GuestResumes, GuestRefuses, procVars, fileVars, history
<1>10. CASE UNCHANGED vars
  BY <1>10, <1>d DEF vars, procVars, fileVars, history
<1> QED
  BY <1>0, <1>1, <1>2, <1>3, <1>4, <1>5, <1>6, <1>7, <1>8, <1>9, <1>10 DEF Next, Recovering

\* A run that exits has decided every session it read, has recorded the
\* decisions unless a rewrite failed, and exits with an error exactly if a
\* session failed in this run or the manifest directory could not be read.
THEOREM ExitDecidesAllHolds == Spec => []ExitDecidesAll
<1> DEFINE Done == /\ Exited => todo = {} /\ (pc = "exit1" <=> ~listed \/ failed > 0)
                   /\ ~listed => pc = "exit1" /\ loaded = {}
                   /\ failed = 0 \/ listed
<1>1. Done /\ [Next]_vars => Done'
  <2> SUFFICES ASSUME Done, [Next]_vars PROVE Done'
    OBVIOUS
  <2>1. ASSUME NEW readable \in SUBSET Manifests, NEW slotReady \in BOOLEAN, Start(readable, slotReady)
        PROVE  Done'
    BY <2>1 DEF Start, Exited
  <2>2. CASE ReadDirFails
    BY <2>2 DEF ReadDirFails, Exited
  <2>3. ASSUME NEW e \in Entries, Skip(e) \/ Take(e) PROVE Done'
    BY <2>3 DEF Skip, Take, Exited, history
  <2>4. CASE DialAndSend \/ DialFails \/ AnswerArrives \/ GiveUp
    BY <2>4 DEF DialAndSend, DialFails, AnswerArrives, GiveUp, Decide, Exited, history
  <2>5. CASE RewriteBegins \/ RewriteEnds \/ RewriteRenames \/ RewriteFails
    BY <2>5 DEF RewriteBegins, RewriteEnds, RewriteRenames, RewriteFails, Exited, history
  <2>6. CASE Exit
    BY <2>6 DEF Exit, Exited, history
  <2>7. CASE Crash
    BY <2>7 DEF Crash, Exited, Idle, history
  <2>8. ASSUME NEW r \in 1 .. run, NEW e \in Entries, GuestResumes(r, e) \/ GuestRefuses(r, e)
        PROVE  Done'
    BY <2>8 DEF GuestResumes, GuestRefuses, procVars, history, Exited
  <2>9. CASE UNCHANGED vars
    BY <2>9 DEF vars, procVars, history, Exited
  <2> QED
    BY <2>1, <2>2, <2>3, <2>4, <2>5, <2>6, <2>7, <2>8, <2>9 DEF Next, Recovering
<1>2. RunInv /\ Done => ExitDecidesAll
  <2> SUFFICES ASSUME RunInv, Done, Exited PROVE ExitDecidesAll
    BY DEF ExitDecidesAll
  <2>1. ASSUME NEW m \in loaded, NEW i \in Sessions PROVE mem[m][i] # "pending"
    <3>1. <<m, i>> \in Loaded /\ StatusIn(mem, <<m, i>>) = mem[m][i]
      BY DEF Loaded, StatusIn
    <3> QED
      BY <3>1 DEF RunInv, LeftOK, Exited
  <2>2. \A m \in loaded : unsaved \/ disk[m].status = mem[m]
    BY DEF RunInv, SavedOK, Exited
  <2>3. failed > 0 <=> \E e \in Loaded : FailedHere(e)
    BY DEF RunInv, CountOK
  <2> QED
    BY <2>1, <2>2, <2>3 DEF ExitDecidesAll, Loaded, FailedHere
<1>3. Init => Done
  BY DEF Init, Exited
<1> QED
  BY <1>1, <1>2, <1>3, RunInit, RunStep, RecordHolds, PTL DEF Spec

-----------------------------------------------------------------------------
\* What bounds the counters: no run sends a second signal for an entry, and none
\* looks at an entry twice.
Signals(e) == {r \in 1 .. run : <<r, e>> \in inbox}

\* This run may still send a signal for e.
Unsent(e) == e \in todo \/ (pc = "dial" /\ cur = e)

PlainOK == /\ run \in 0 .. MaxRuns
           /\ pc \in {"off", "entry", "dial", "wait", "rewrite", "writing", "written", "exit0", "exit1",
                  "crashed"}
           /\ ready \in BOOLEAN
           /\ cur \in Entries \cup {<<>>}
           /\ reply \in {"none", "ack", "nack", "closed"}
           /\ unsaved \in BOOLEAN /\ listed \in BOOLEAN
InboxOK == inbox \subseteq (1 .. run) \X Entries
TakenOK == InSession => cur \notin todo
UnsentOK == \A e \in Entries : Unsent(e) => <<run, e>> \notin inbox

\* Signals that a guest has accepted, or may yet, come from different runs.
SentOK == \A e \in Entries : accepted[e] + Cardinality(Signals(e)) <= IF Unsent(e) THEN run - 1 ELSE run

Undecided == IF pc \in {"dial", "wait"} THEN 1 ELSE 0
FailedOK == failed \in Nat /\ failed + Cardinality(todo) + Undecided <= Cardinality(Entries)

BoundInv == PlainOK /\ InboxOK /\ TakenOK /\ UnsentOK /\ SentOK /\ FailedOK

LEMMA Finite == /\ IsFiniteSet(Entries) /\ Cardinality(Entries) \in Nat
                /\ \A S \in SUBSET Entries : /\ IsFiniteSet(S) /\ Cardinality(S) \in Nat
                                             /\ Cardinality(S) <= Cardinality(Entries)
                                             /\ \A e \in S : Cardinality(S \ {e}) = Cardinality(S) - 1
<1>1. IsFiniteSet(Entries)
  BY RecoverAssumption, FS_Product DEF Entries
<1> QED
  BY <1>1, FS_CardinalityType, FS_Subset, FS_RemoveElement

LEMMA SignalsFinite == ASSUME run \in Nat, NEW e
                       PROVE  IsFiniteSet(Signals(e)) /\ Cardinality(Signals(e)) \in Nat
<1>1. IsFiniteSet(1 .. run) /\ Signals(e) \in SUBSET (1 .. run)
  BY FS_Interval DEF Signals
<1> QED
  BY <1>1, FS_Subset, FS_CardinalityType

\* Steps that send nothing and hear nothing.
SameSignals == UNCHANGED <<run, inbox, accepted>>

LEMMA SameSignalsStep ==
    ASSUME InboxOK, UnsentOK, SentOK, SameSignals, run \in Nat, GuestType,
           \A e \in Entries : Unsent(e)' => Unsent(e)
    PROVE  InboxOK' /\ UnsentOK' /\ SentOK'
<1>1. InboxOK' /\ UnsentOK'
  BY DEF InboxOK, UnsentOK, SameSignals
<1>2. ASSUME NEW e \in Entries
      PROVE  accepted'[e] + Cardinality(Signals(e))' <= IF Unsent(e)' THEN run' - 1 ELSE run'
  <2>1. Signals(e)' = Signals(e) /\ accepted'[e] = accepted[e] /\ run' = run
    BY DEF Signals, SameSignals
  <2>2. accepted[e] + Cardinality(Signals(e)) <= IF Unsent(e) THEN run - 1 ELSE run
    BY DEF SentOK
  <2>3. Cardinality(Signals(e)) \in Nat /\ accepted[e] \in Nat
    BY SignalsFinite DEF GuestType
  <2>4. CASE Unsent(e)'
    BY <2>1, <2>2, <2>4
  <2>5. CASE ~Unsent(e)'
    BY <2>1, <2>2, <2>3, <2>5
  <2> QED
    BY <2>4, <2>5
<1> QED
  BY <1>1, <1>2 DEF SentOK

LEMMA BoundInit == Init => BoundInv
<1> SUFFICES ASSUME Init PROVE BoundInv
  OBVIOUS
<1>0. PlainOK
  <2>1. 0 \in 0 .. MaxRuns
    BY RecoverAssumption
  <2> QED
    BY <2>1, Zenon DEF Init, PlainOK
<1>1. InboxOK /\ TakenOK /\ UnsentOK
  BY DEF Init, InboxOK, TakenOK, InSession, UnsentOK, Unsent
<1>2. SentOK
  <2>1. \A e \in Entries : accepted[e] = 0 /\ Signals(e) = {} /\ ~Unsent(e) /\ run = 0
    BY DEF Init, Signals, Unsent
  <2> QED
    BY <2>1, FS_EmptySet DEF SentOK
<1>3. FailedOK
  BY Finite, FS_EmptySet DEF Init, FailedOK, Undecided
<1> QED
  BY <1>0, <1>1, <1>2, <1>3 DEF BoundInv

LEMMA BoundStep == RecordInv /\ BoundInv /\ [Next]_vars => BoundInv'
<1> SUFFICES ASSUME RecordInv, BoundInv, [Next]_vars PROVE BoundInv'
  OBVIOUS
<1>a. /\ MemType /\ LoadType /\ GuestType /\ CurOK
      /\ PlainOK /\ InboxOK /\ TakenOK /\ UnsentOK /\ SentOK /\ FailedOK
      /\ run \in Nat /\ todo \subseteq Entries
  BY EntryParts, RecoverAssumption DEF RecordInv, Types, BoundInv, PlainOK, LoadType
\* A run begins.
<1>e. ASSUME run' = run + 1, inbox' = inbox, accepted' = accepted, failed' = 0,
             pc' \in {"entry", "exit0", "exit1"}, todo' \subseteq Entries, PlainOK'
      PROVE  BoundInv'
  <2>1. InboxOK' /\ UnsentOK' /\ TakenOK'
    BY <1>a, <1>e DEF InboxOK, UnsentOK, Unsent, TakenOK, InSession
  <2>2. ASSUME NEW e \in Entries
        PROVE  accepted'[e] + Cardinality(Signals(e))' <= run' - 1 /\ Cardinality(Signals(e))' \in Nat
    <3>1. Signals(e)' = Signals(e)
      BY <1>a, <1>e DEF Signals, InboxOK
    <3>2. accepted[e] + Cardinality(Signals(e)) <= run
      BY <1>a, SignalsFinite DEF SentOK, GuestType
    <3> QED
      BY <1>a, <1>e, <3>1, <3>2, SignalsFinite
  <2>3. SentOK'
    <3>1. \A e \in Entries : accepted'[e] \in Nat
      BY <1>a, <1>e DEF GuestType
    <3> QED
      BY <1>a, <1>e, <2>2, <3>1 DEF SentOK
  <2>4. FailedOK'
    <3>1. IsFiniteSet(todo') /\ Cardinality(todo') \in Nat /\ Cardinality(todo') <= Cardinality(Entries)
      BY <1>e, Finite
    <3> QED
      BY <1>e, <3>1 DEF FailedOK, Undecided
  <2> QED
    BY <1>e, <2>1, <2>3, <2>4 DEF BoundInv
<1>1. ASSUME NEW readable \in SUBSET Manifests, NEW slotReady \in BOOLEAN, Start(readable, slotReady)
      PROVE  BoundInv'
  <2>1. /\ run' = run + 1 /\ run' \in 0 .. MaxRuns /\ inbox' = inbox /\ accepted' = accepted
        /\ pc' \in {"entry", "exit0"} /\ todo' \subseteq Entries /\ failed' = 0
    BY <1>1, <1>a, RecoverAssumption DEF Start, Entries
  <2>2. PlainOK'
    BY <1>1, <1>a, <2>1 DEF Start, PlainOK
  <2> QED
    BY <1>e, <2>1, <2>2
<1>0. CASE ReadDirFails
  <2>1. /\ run' = run + 1 /\ run' \in 0 .. MaxRuns /\ inbox' = inbox /\ accepted' = accepted
        /\ pc' = "exit1" /\ todo' = {} /\ failed' = 0
    BY <1>0, <1>a, RecoverAssumption DEF ReadDirFails
  <2>2. PlainOK'
    BY <1>0, <1>a, <2>1 DEF ReadDirFails, PlainOK
  <2> QED
    BY <1>e, <2>1, <2>2
<1>2. ASSUME NEW e \in Entries, Skip(e) \/ Take(e) PROVE BoundInv'
  <2>1. /\ SameSignals /\ pc = "entry" /\ pc' \in {"entry", "dial"} /\ failed' = failed
        /\ e \in todo /\ todo' = todo \ {e} /\ cur' = e
    BY <1>2 DEF Skip, Take, IsNext, SameSignals, guestVars
  <2>2. PlainOK'
    BY <1>2, <1>a, <2>1 DEF Skip, Take, guestVars, history, PlainOK, SameSignals
  <2>3. TakenOK' /\ \A f \in Entries : Unsent(f)' => Unsent(f)
    BY <2>1 DEF TakenOK, Unsent
  <2>4. FailedOK'
    <3>1. Cardinality(todo') = Cardinality(todo) - 1 /\ Cardinality(todo) \in Nat
      BY <1>a, <2>1, Finite
    <3>2. Undecided = 0 /\ Undecided' \in 0 .. 1
      BY <2>1 DEF Undecided
    <3> QED
      BY <1>a, <2>1, <3>1, <3>2, Finite DEF FailedOK
  <2> QED
    BY <1>a, <2>1, <2>2, <2>3, <2>4, SameSignalsStep DEF BoundInv
\* Steps that leave the entries alone.
<1>c. ASSUME PlainOK', SameSignals, UNCHANGED <<todo, failed>>, cur' = cur,
             InSession' => InSession, pc' = "dial" => pc = "dial", Undecided' <= Undecided
      PROVE  BoundInv'
  <2>1. TakenOK' /\ \A e \in Entries : Unsent(e)' => Unsent(e)
    BY <1>a, <1>c DEF TakenOK, Unsent
  <2>2. FailedOK'
    <3>1. Undecided \in 0 .. 1 /\ Undecided' \in 0 .. 1 /\ Cardinality(todo) \in Nat
      BY <1>a, Finite DEF Undecided
    <3> QED
      BY <1>a, <1>c, <3>1, Finite DEF FailedOK
  <2> QED
    BY <1>a, <1>c, <2>1, <2>2, SameSignalsStep DEF BoundInv
<1>3. CASE DialAndSend
  <2>1. /\ pc = "dial" /\ pc' = "wait" /\ inbox' = inbox \cup {<<run, cur>>}
        /\ UNCHANGED <<run, todo, cur, failed, accepted>>
    BY <1>3 DEF DialAndSend
  <2>2. cur \in Entries /\ cur \notin todo /\ Unsent(cur) /\ ~Unsent(cur)'
    BY <1>a, <2>1 DEF CurOK, InSession, TakenOK, LoadType, Unsent, Entries
  <2>3. run >= 1
    BY <1>a, <2>2, SignalsFinite DEF SentOK, GuestType
  <2>4. PlainOK' /\ InboxOK' /\ TakenOK' /\ UnsentOK' /\ FailedOK'
    BY <1>3, <1>a, <2>1, <2>2, <2>3 DEF DialAndSend, history, PlainOK, InboxOK, TakenOK, InSession, UnsentOK,
       Unsent, FailedOK, Undecided
  <2>5. ASSUME NEW e \in Entries
        PROVE  accepted'[e] + Cardinality(Signals(e))' <= IF Unsent(e)' THEN run' - 1 ELSE run'
    <3>1. CASE e = cur
      <4>1. Signals(e)' = Signals(e) \cup {run} /\ run \notin Signals(e)
        BY <1>a, <2>1, <2>2, <2>3, <3>1 DEF Signals, UnsentOK
      <4>2. Cardinality(Signals(e)') = Cardinality(Signals(e)) + 1
        BY <1>a, <4>1, SignalsFinite, FS_AddElement
      <4> QED
        BY <1>a, <2>1, <2>2, <3>1, <4>2, SignalsFinite DEF SentOK, GuestType
    <3>2. CASE e # cur
      <4>1. Signals(e)' = Signals(e) /\ Unsent(e)' = Unsent(e)
        BY <2>1, <3>2 DEF Signals, Unsent
      <4> QED
        BY <1>a, <2>1, <4>1 DEF SentOK
    <3> QED
      BY <3>1, <3>2
  <2> QED
    BY <2>4, <2>5 DEF BoundInv, SentOK
<1>4. CASE DialFails \/ AnswerArrives \/ GiveUp
  <2>1. /\ SameSignals /\ pc \in {"dial", "wait"} /\ pc' = "rewrite"
        /\ UNCHANGED <<todo, cur>> /\ failed' \in {failed, failed + 1}
    BY <1>4 DEF DialFails, AnswerArrives, GiveUp, Decide, SameSignals, guestVars
  <2>2. PlainOK'
    BY <1>4, <1>a, <2>1 DEF DialFails, AnswerArrives, GiveUp, guestVars, history, PlainOK, SameSignals
  <2>3. TakenOK' /\ \A e \in Entries : Unsent(e)' => Unsent(e)
    BY <1>a, <2>1 DEF TakenOK, InSession, Unsent
  <2>4. FailedOK'
    BY <1>a, <2>1, Finite DEF FailedOK, Undecided
  <2> QED
    BY <1>a, <2>1, <2>2, <2>3, <2>4, SameSignalsStep DEF BoundInv
<1>5. CASE RewriteBegins \/ RewriteEnds \/ RewriteRenames \/ RewriteFails \/ Exit \/ Crash
  <2>1. /\ SameSignals /\ UNCHANGED <<todo, failed, ready, reply, listed>> /\ cur' = cur
        /\ unsaved' \in {unsaved, TRUE}
        /\ pc' \in {"writing", "written", "entry", "exit0", "exit1", "crashed"}
        /\ pc' \in {"writing", "written"} => InSession
    BY <1>5 DEF RewriteBegins, RewriteEnds, RewriteRenames, RewriteFails, Exit, Crash, guestVars,
       history, SameSignals, InSession
  <2>2. PlainOK'
    BY <1>a, <2>1 DEF PlainOK, SameSignals
  <2> QED
    BY <1>c, <2>1, <2>2 DEF InSession, Undecided
<1>6. ASSUME NEW r \in 1 .. run, NEW e \in Entries, GuestResumes(r, e) \/ GuestRefuses(r, e)
      PROVE  BoundInv'
  <2>1. /\ <<r, e>> \in inbox /\ inbox' = inbox \ {<<r, e>>}
        /\ UNCHANGED <<run, procVars, history>>
        /\ reply' \in {reply, "ack", "nack", "closed"}
        /\ \A f \in Entries : accepted'[f] \in (IF f = e THEN {accepted[f], accepted[f] + 1} ELSE {accepted[f]})
    BY <1>6, <1>a DEF GuestResumes, GuestRefuses, Hears, GuestType
  <2>2. PlainOK' /\ InboxOK' /\ TakenOK' /\ UnsentOK' /\ FailedOK'
    BY <1>a, <2>1 DEF procVars, history, PlainOK, InboxOK, TakenOK, InSession, UnsentOK, Unsent, FailedOK,
       Undecided
  <2>3. ASSUME NEW f \in Entries
        PROVE  accepted'[f] + Cardinality(Signals(f))' <= IF Unsent(f)' THEN run' - 1 ELSE run'
    <3>0. Unsent(f)' = Unsent(f) /\ run' = run
      BY <2>1 DEF procVars, Unsent
    <3>1. CASE f = e
      <4>1. r \in Signals(e) /\ Signals(e)' = Signals(e) \ {r}
        BY <2>1 DEF Signals
      <4>2. Cardinality(Signals(e)') = Cardinality(Signals(e)) - 1
        BY <1>a, <4>1, SignalsFinite, FS_RemoveElement
      <4>0. accepted'[e] \in {accepted[e], accepted[e] + 1}
        BY <2>1
      <4>3. accepted'[e] <= accepted[e] + 1 /\ accepted'[e] \in Nat
        BY <1>a, <4>0 DEF GuestType
      <4> QED
        BY <1>a, <3>0, <3>1, <4>2, <4>3, SignalsFinite DEF SentOK, GuestType
    <3>2. CASE f # e
      <4>1. Signals(f)' = Signals(f) /\ accepted'[f] = accepted[f]
        BY <2>1, <3>2 DEF Signals
      <4> QED
        BY <1>a, <3>0, <4>1 DEF SentOK
    <3> QED
      BY <3>1, <3>2
  <2> QED
    BY <2>2, <2>3 DEF BoundInv, SentOK
<1>7. CASE UNCHANGED vars
  <2>1. PlainOK' /\ SameSignals
    BY <1>a, <1>7 DEF vars, procVars, guestVars, history, PlainOK, SameSignals
  <2> QED
    BY <1>c, <1>7, <2>1 DEF vars, procVars, InSession, Undecided
<1> QED
  BY <1>0, <1>1, <1>2, <1>3, <1>4, <1>5, <1>6, <1>7 DEF Next, Recovering

LEMMA BoundHolds == Spec => []BoundInv
  BY BoundInit, BoundStep, RecordHolds, PTL DEF Spec

\* Every reachable state is type-correct: in particular a guest is asked to
\* resume an entry at most once per run, and no more entries fail than there are.
THEOREM RecoverType == Spec => []TypeOK
<1>1. RecordInv /\ BoundInv => TypeOK
  <2> SUFFICES ASSUME RecordInv, BoundInv PROVE TypeOK
    OBVIOUS
  <2>a. /\ MemType /\ DiskType /\ TmpType /\ LoadType /\ GuestType
        /\ PlainOK /\ InboxOK /\ SentOK /\ FailedOK /\ run \in Nat /\ MaxRuns \in Nat
    BY RecoverAssumption DEF RecordInv, Types, BoundInv, PlainOK
  <2>1. todo \subseteq Entries /\ loaded \subseteq Manifests
    BY <2>a, EntryParts DEF LoadType
  <2>2. inbox \subseteq (1 .. MaxRuns) \X Entries
    BY <2>a DEF InboxOK, PlainOK
  <2>3. ASSUME NEW e \in Entries PROVE accepted[e] \in 0 .. MaxRuns
    BY <2>a, SignalsFinite DEF SentOK, GuestType, PlainOK
  <2>4. accepted \in [Entries -> 0 .. MaxRuns]
    BY <2>a, <2>3 DEF GuestType
  <2>5. failed \in 0 .. Cardinality(Entries)
    BY <2>a, <2>1, Finite DEF FailedOK, Undecided
  <2> QED
    BY <2>a, <2>1, <2>2, <2>4, <2>5 DEF TypeOK, PlainOK, MemType, DiskType, TmpType
<1> QED
  BY <1>1, RecordHolds, BoundHolds, PTL
-----------------------------------------------------------------------------
\* Why a run ends.

Running == ~Idle

\* Steps that the entry in hand needs at most before the loop goes on.
StepsLeft == [dial |-> 5, wait |-> 4, rewrite |-> 3, writing |-> 2, written |-> 1, entry |-> 0]

\* Steps that the run needs at most: six for an entry, and one to exit.
Rank == IF Running THEN 1 + 6 * Cardinality(todo) + StepsLeft[pc] ELSE 0

\* The loop finds an entry as long as there is one; in a session one can always
\* go on, because dialling, waiting and writing may fail at any time.
GoesOn == Running => \/ InSession
                     \/ pc = "entry" /\ (todo = {} \/ \E e \in Entries : IsNext(e) /\ SameManifestFirst(e))

\* A step of the run brings its end nearer, and neither a guest nor a crash
\* moves it away.
Advances == [][/\ Recovering => Rank' < Rank
               /\ run' = run => Rank' <= Rank]_vars

LEMMA LeastExists == ASSUME NEW T \in SUBSET Nat, T # {} PROVE \E i \in T : \A j \in T : i <= j
<1>1. PICK i \in T : \A j \in T : ~ (<<j, i>> \in OpToRel(<, Nat))
  BY NatLessThanWellFounded, WFMin, Zenon
<1>2. \A j \in T : ~ (j < i)
  BY <1>1 DEF OpToRel
<1> QED
  BY <1>2

\* A run goes on until it exits or crashes: it never waits for a guest, or for
\* an entry, that may not come.
THEOREM RunGoesOn == Spec => []GoesOn
<1>1. RecordInv /\ BoundInv => GoesOn
  <2> SUFFICES ASSUME RecordInv, BoundInv, pc = "entry", todo # {}
               PROVE  \E e \in Entries : IsNext(e) /\ SameManifestFirst(e)
    BY DEF GoesOn, Running, Idle, Exited, InSession, BoundInv, PlainOK
  <2>1. todo \subseteq Entries
    BY EntryParts DEF RecordInv, Types, LoadType, Entries
  <2>2. \E f \in todo : (cur # <<>> /\ \E g \in todo : g[1] = cur[1]) => f[1] = cur[1]
    OBVIOUS
  <2>3. PICK f \in todo : (cur # <<>> /\ \E g \in todo : g[1] = cur[1]) => f[1] = cur[1]
    BY <2>2
  <2> DEFINE T == {i \in Sessions : <<f[1], i>> \in todo}
  <2>4. T \in SUBSET Nat /\ f[2] \in T
    <3>1. Sessions \subseteq Nat
      BY RecoverAssumption, FS_CardinalityType
    <3> QED
      BY <2>1, <3>1, EntryParts
  <2>5. PICK i \in T : \A j \in T : i <= j
    BY <2>4, LeastExists
  <2>6. <<f[1], i>> \in todo /\ <<f[1], i>> \in Entries
    BY <2>1, <2>5
  <2>7. IsNext(<<f[1], i>>)
    <3>1. ASSUME NEW g \in todo, g[1] = f[1] PROVE i <= g[2]
      BY <2>1, <2>5, <3>1, EntryParts
    <3> QED
      BY <2>6, <3>1 DEF IsNext
  <2>8. SameManifestFirst(<<f[1], i>>)
    BY <2>3 DEF SameManifestFirst
  <2> QED
    BY <2>6, <2>7, <2>8
<1> QED
  BY <1>1, RecordHolds, BoundHolds, PTL

RankOK == Rank \in Nat /\ IsFiniteSet(todo) /\ Cardinality(todo) \in Nat

LEMMA RankType == RecordInv /\ BoundInv => RankOK
<1> SUFFICES ASSUME RecordInv, BoundInv PROVE RankOK
  OBVIOUS
<1>1. todo \subseteq Entries
  BY EntryParts DEF RecordInv, Types, LoadType, Entries
<1>2. IsFiniteSet(todo) /\ Cardinality(todo) \in Nat
  BY <1>1, Finite
<1>3. Running => StepsLeft[pc] \in 0 .. 5
  BY DEF Running, Idle, Exited, StepsLeft, BoundInv, PlainOK
<1> QED
  BY <1>2, <1>3 DEF RankOK, Rank

\* Every step of a run brings it nearer its end, whatever crashes before it and
\* guests beside it have done.
THEOREM RunAdvances == Spec => Advances
<1>1. BoundInv /\ RankOK /\ RankOK' /\ [Next]_vars =>
        [/\ Recovering => Rank' < Rank
         /\ run' = run => Rank' <= Rank]_vars
  <2> SUFFICES ASSUME BoundInv, RankOK, RankOK', Next
               PROVE  /\ Recovering => Rank' < Rank
                      /\ run' = run => Rank' <= Rank
    OBVIOUS
  <2>a. Rank \in Nat /\ Rank' \in Nat /\ IsFiniteSet(todo) /\ Cardinality(todo) \in Nat
    BY DEF RankOK
  <2>b. run \in Nat
    BY DEF BoundInv, PlainOK
  <2>1. ASSUME Recovering PROVE Rank' < Rank
    <3>1. ASSUME NEW e \in Entries, Skip(e) \/ Take(e) PROVE Rank' < Rank
      <4>1. pc = "entry" /\ pc' \in {"entry", "dial"} /\ e \in todo /\ todo' = todo \ {e}
        BY <3>1 DEF Skip, Take, IsNext
      <4>2. Cardinality(todo') = Cardinality(todo) - 1
        BY <2>a, <4>1, FS_RemoveElement
      <4> QED
        BY <2>a, <4>1, <4>2 DEF Rank, Running, Idle, Exited, StepsLeft
    <3>2. CASE DialAndSend \/ DialFails \/ AnswerArrives \/ GiveUp
      <4>1. /\ todo' = todo
            /\ <<pc, pc'>> \in {<<"dial", "wait">>, <<"dial", "rewrite">>, <<"wait", "rewrite">>}
        BY <3>2 DEF DialAndSend, DialFails, AnswerArrives, GiveUp, Decide
      <4> QED
        BY <2>a, <4>1 DEF Rank, Running, Idle, Exited, StepsLeft
    <3>3. CASE RewriteBegins \/ RewriteEnds \/ RewriteRenames \/ RewriteFails
      <4>1. /\ todo' = todo
            /\ <<pc, pc'>> \in {<<"rewrite", "writing">>, <<"writing", "written">>, <<"rewrite", "entry">>,
                                <<"writing", "entry">>, <<"written", "entry">>}
        BY <3>3 DEF RewriteBegins, RewriteEnds, RewriteRenames, RewriteFails
      <4> QED
        BY <2>a, <4>1 DEF Rank, Running, Idle, Exited, StepsLeft
    <3>4. CASE Exit
      BY <2>a, <3>4 DEF Exit, Rank, Running, Idle, Exited, StepsLeft
    <3> QED
      BY <2>1, <3>1, <3>2, <3>3, <3>4 DEF Recovering
  <2>2. CASE Crash
    <3>1. Rank' = 0
      BY <2>2 DEF Crash, Rank, Running, Idle, Exited
    <3> QED
      BY <2>a, <2>1, <3>1
  <2>3. ASSUME NEW r \in 1 .. run, NEW e \in Entries, GuestResumes(r, e) \/ GuestRefuses(r, e)
        PROVE  Rank' <= Rank
    <3>1. todo' = todo /\ pc' = pc
      BY <2>3 DEF GuestResumes, GuestRefuses, procVars
    <3>2. Rank' = Rank
      BY <3>1 DEF Rank, Running, Idle, Exited
    <3> QED
      BY <2>a, <3>2
  <2>4. ASSUME NEW readable \in SUBSET Manifests, NEW slotReady \in BOOLEAN, Start(readable, slotReady)
        PROVE  run' # run
    BY <2>b, <2>4 DEF Start
  <2>6. ReadDirFails => run' # run
    BY <2>b DEF ReadDirFails
  <2>5. Recovering => Rank' <= Rank
    BY <2>a, <2>1
  <2> QED
    BY <2>1, <2>2, <2>3, <2>4, <2>5, <2>6 DEF Next
<1> QED
  BY <1>1, RankType, RecordHolds, BoundHolds, PTL DEF Spec, Advances
=============================================================================
