--------------------------- MODULE SnapshotProofs ---------------------------
(***************************************************************************)
(* Theorems about SnapshotBuild.tla, for every number of calls, and about  *)
(* SnapshotStore.tla, for every number of commands, handlers and versions. *)
(***************************************************************************)
EXTENDS SnapshotBuild, SnapshotStore, TLAPS

-----------------------------------------------------------------------------
\* Build.

LEMMA BuildTypeInit == BuildInit => BuildTypeOK
  BY DEF BuildInit, BuildTypeOK

LEMMA BuildTypeStep == BuildTypeOK /\ [BuildNext]_managerVars => BuildTypeOK'
<1> SUFFICES ASSUME BuildTypeOK, [BuildNext]_managerVars PROVE BuildTypeOK'
  OBVIOUS
<1> USE DEF BuildTypeOK, Goto
<1>1. ASSUME NEW b \in Builders, CallBuild(b) PROVE BuildTypeOK'
  BY <1>1 DEF CallBuild
<1>2. ASSUME NEW b \in Builders, Pause(b) PROVE BuildTypeOK'
  BY <1>2 DEF Pause, Answered
<1>3. ASSUME NEW b \in Builders, PauseFails(b) PROVE BuildTypeOK'
  BY <1>3 DEF PauseFails, NotAnswered
<1>4. ASSUME NEW b \in Builders, Create(b) PROVE BuildTypeOK'
  BY <1>4 DEF Create, Answered
<1>5. ASSUME NEW b \in Builders, CreateFails(b) PROVE BuildTypeOK'
  BY <1>5 DEF CreateFails
<1>6. ASSUME NEW b \in Builders, Resume(b) PROVE BuildTypeOK'
  BY <1>6 DEF Resume, Answered
<1>7. ASSUME NEW b \in Builders, ResumeFails(b) PROVE BuildTypeOK'
  BY <1>7 DEF ResumeFails, NotAnswered
<1>8. ASSUME NEW b \in Builders, Return(b) PROVE BuildTypeOK'
  BY <1>8 DEF Return
<1>9. ASSUME NEW b \in Builders, Cancel(b) PROVE BuildTypeOK'
  BY <1>9 DEF Cancel
<1>10. CASE UNCHANGED managerVars
  BY <1>10 DEF managerVars
<1>11. CASE BuildsDie
  BY <1>11 DEF BuildsDie
<1> QED
  BY <1>1, <1>2, <1>3, <1>4, <1>5, <1>6, <1>7, <1>8, <1>9, <1>10, <1>11 DEF BuildNext

\* Every reachable state is of the types that Build and fcRequest work on.
THEOREM SnapshotBuildType == BuildSpec => []BuildTypeOK
  BY BuildTypeInit, BuildTypeStep, PTL DEF BuildSpec

-----------------------------------------------------------------------------
\* A call that is past its own pause still owes the resume, whatever becomes
\* of its create request: the invariant that makes LastCallResumes inductive.
\* (A call at "pause" would not do: its pause may still fail without effect.)
OwesResume == vm = "paused" /\ ~stranded => \E b \in Builders : request[b] \in {"create", "resume"}

LEMMA OwesInit == BuildInit => OwesResume
  BY DEF BuildInit, OwesResume

LEMMA OwesStep == BuildTypeOK /\ OwesResume /\ [BuildNext]_managerVars => OwesResume'
<1> SUFFICES ASSUME BuildTypeOK, OwesResume, [BuildNext]_managerVars, vm' = "paused", ~stranded'
             PROVE  \E b \in Builders : request'[b] \in {"create", "resume"}
  BY DEF OwesResume
<1> USE DEF BuildTypeOK, Goto
\* A call that the step does not take past its resume keeps owing it.
<1>a. ASSUME NEW b \in Builders, NEW label, request' = [request EXCEPT ![b] = label],
             request[b] \notin {"create", "resume"} \/ label = "resume", vm = "paused", ~stranded
      PROVE  \E c \in Builders : request'[c] \in {"create", "resume"}
  BY <1>a DEF OwesResume
<1>1. ASSUME NEW b \in Builders, CallBuild(b) PROVE \E c \in Builders : request'[c] \in {"create", "resume"}
  BY <1>1, <1>a DEF CallBuild
<1>2. ASSUME NEW b \in Builders, Pause(b) PROVE \E c \in Builders : request'[c] \in {"create", "resume"}
  BY <1>2 DEF Pause
<1>3. ASSUME NEW b \in Builders, PauseFails(b) PROVE \E c \in Builders : request'[c] \in {"create", "resume"}
  BY <1>3, <1>a DEF PauseFails
<1>4. ASSUME NEW b \in Builders, Create(b) PROVE \E c \in Builders : request'[c] \in {"create", "resume"}
  BY <1>4 DEF Create
<1>5. ASSUME NEW b \in Builders, CreateFails(b) PROVE \E c \in Builders : request'[c] \in {"create", "resume"}
  BY <1>5 DEF CreateFails
<1>6. ASSUME NEW b \in Builders, Resume(b) PROVE FALSE
  BY <1>6 DEF Resume, Answered
<1>7. ASSUME NEW b \in Builders, ResumeFails(b) PROVE FALSE
  BY <1>7 DEF ResumeFails
<1>8. ASSUME NEW b \in Builders, Return(b) PROVE \E c \in Builders : request'[c] \in {"create", "resume"}
  BY <1>8, <1>a DEF Return
<1>9. ASSUME NEW b \in Builders, Cancel(b) PROVE \E c \in Builders : request'[c] \in {"create", "resume"}
  BY <1>9 DEF Cancel, OwesResume
<1>10. CASE UNCHANGED managerVars
  BY <1>10 DEF managerVars, OwesResume
<1>11. CASE BuildsDie
  BY <1>11 DEF BuildsDie
<1> QED
  BY <1>1, <1>2, <1>3, <1>4, <1>5, <1>6, <1>7, <1>8, <1>9, <1>10, <1>11 DEF BuildNext

\* However many calls overlap and whatever create requests do, the VM runs when
\* no call is under way, unless since the last successful resume a pause was not
\* answered, a resume failed or the daemon died.
THEOREM LastCallResumesHolds == BuildSpec => []LastCallResumes
<1>1. BuildInit => BuildTypeOK /\ OwesResume
  BY BuildTypeInit, OwesInit
<1>2. BuildTypeOK /\ OwesResume /\ [BuildNext]_managerVars => (BuildTypeOK /\ OwesResume)'
  BY BuildTypeStep, OwesStep
<1>3. OwesResume => LastCallResumes
  BY DEF OwesResume, LastCallResumes, InFlight
<1> QED
  BY <1>1, <1>2, <1>3, PTL DEF BuildSpec

-----------------------------------------------------------------------------
\* Push and Pull: where copies read and write.

\* A number of a version is no mark of a file without one.
LEMMA NoVersion == Absent \notin 1..MaxBuilds /\ Partial \notin 1..MaxBuilds
  BY StoreAssumption DEF Absent, Partial

LEMMA Apart == \A k : /\ To(k) \in Places \ {"built"}
                      /\ From(k) \in Places
                      /\ From(k) # To(k)
  BY DEF To, From, StoreOf, Places

LEMMA Values == /\ Mixed \in [FileNames -> Contents] /\ Empty \in [FileNames -> Contents]
                /\ Absent \in Contents /\ Partial \in Contents
                /\ \A v \in 1..MaxBuilds : [f \in FileNames |-> v] \in [FileNames -> Contents]
  BY DEF Mixed, Empty, Contents

LEMMA CurrentFile == ASSUME NEW k, todo[k] # {}, todo[k] \subseteq FileNames
                     PROVE  Current(k) \in todo[k] /\ Current(k) \in FileNames
  BY DEF Current, FileNames

\* The types, in parts.
CommandType == /\ kind \in {"local", "s3"} /\ daemon \in {"up", "down"}
               /\ cmd \in [Commands -> {"ended", "dial", "wait", "direct"}]
               /\ client \in [Handlers -> Commands \cup {Nobody}]
CopierType == /\ job \in [Copiers -> {"none", "push", "pull"}]
              /\ pc \in [Copiers -> {"idle", "asked", "next", "copy", "answered"}]
              /\ todo \in [Copiers -> SUBSET FileNames]
              /\ \A k \in Copiers : pc[k] = "copy" => todo[k] # {}
              /\ held \in [Copiers -> Contents]
              /\ cut \subseteq {k \in Copiers : pc[k] = "copy"}
FileType == /\ file \in [Places -> [FileNames -> Contents]]
            /\ builds \in 1..MaxBuilds /\ building \in BOOLEAN
            /\ expect \in [Places -> [FileNames -> Contents]]

LEMMA TypeParts == TypeOK <=> CommandType /\ CopierType /\ FileType
  BY DEF TypeOK, CommandType, CopierType, FileType

LEMMA TypePartsNext == TypeOK' <=> CommandType' /\ CopierType' /\ FileType'
  BY DEF TypeOK, CommandType, CopierType, FileType

\* A command copies by itself only when it asks nobody, and a handler that
\* works for a command is the one it waits for.
ClientOK == /\ \A c \in Commands : cmd[c] \in {"ended", "dial", "wait"} => pc[c] = "idle"
            /\ \A g \in Handlers : client[g] # Nobody => cmd[client[g]] = "wait"
            /\ \A g, h \in Handlers : client[g] # Nobody /\ client[g] = client[h] => g = h

StoreTypeInv == TypeOK /\ ClientOK

LEMMA StoreTypeInit == Init => StoreTypeInv
<1> SUFFICES ASSUME Init PROVE StoreTypeInv
  OBVIOUS
<1>1. CommandType /\ CopierType
  BY DEF Init, CommandType, CopierType, Contents
<1>2. FileType
  <2>1. [f \in FileNames |-> 1] \in [FileNames -> Contents] /\ 1 \in 1..MaxBuilds
    BY StoreAssumption, Values
  <2> QED
    BY <2>1, Values DEF Init, FileType
<1>3. ClientOK
  BY DEF Init, ClientOK, Copiers
<1> QED
  BY <1>1, <1>2, <1>3, TypeParts DEF StoreTypeInv

\* What a step of a copier may do to the others.
LEMMA EndCopiesType ==
    ASSUME CommandType, CopierType, ClientOK, NEW ks \in SUBSET Copiers, EndCopies(ks),
           \A k \in ks : pc[k] # "idle", UNCHANGED <<kind, commandVars>>
    PROVE  /\ job' \in [Copiers -> {"none", "push", "pull"}]
           /\ pc' \in [Copiers -> {"idle", "asked", "next", "copy", "answered"}]
           /\ \A k \in Copiers : k \notin ks => pc'[k] = pc[k] /\ job'[k] = job[k]
           /\ \A k \in ks : pc'[k] \in {"idle", "answered"}
           /\ CommandType' /\ ClientOK'
<1>1. /\ job' \in [Copiers -> {"none", "push", "pull"}]
      /\ pc' \in [Copiers -> {"idle", "asked", "next", "copy", "answered"}]
      /\ \A k \in Copiers : k \notin ks => pc'[k] = pc[k] /\ job'[k] = job[k]
      /\ \A k \in ks : pc'[k] \in {"idle", "answered"}
  BY DEF EndCopies, CopierType
<1>2. CommandType'
  BY DEF CommandType, commandVars
<1>3. ClientOK'
  BY <1>1 DEF ClientOK, CommandType, commandVars, Copiers
<1> QED
  BY <1>1, <1>2, <1>3

LEMMA StoreTypeStep == StoreTypeInv /\ [Next]_vars => StoreTypeInv'
<1> SUFFICES ASSUME StoreTypeInv, [Next]_vars PROVE StoreTypeInv'
  OBVIOUS
<1>a. CommandType /\ CopierType /\ FileType /\ ClientOK
  BY TypeParts DEF StoreTypeInv
<1>b. ASSUME CommandType', CopierType', FileType', ClientOK' PROVE StoreTypeInv'
  BY <1>b, TypePartsNext DEF StoreTypeInv
<1>c. Commands \subseteq Copiers /\ Handlers \subseteq Copiers /\ Nobody \notin Commands
      /\ \A k \in Handlers : k \notin Commands
  BY StoreAssumption DEF Copiers
\* Copies begin, go on and end.
<1>1. ASSUME NEW k \in Copiers, Begin(k) PROVE StoreTypeInv'
  <2>1. CommandType' /\ ClientOK'
    BY <1>1, <1>a, <1>c DEF Begin, CommandType, CopierType, ClientOK, commandVars
  <2>2. CopierType'
    <3>1. Listed(From(k)) \in SUBSET FileNames
      BY DEF Listed
    <3> QED
      BY <1>1, <1>a, <3>1 DEF Begin, CopierType
  <2>3. expect' \in [Places -> [FileNames -> Contents]]
    <3>1. file[From(k)] \in [FileNames -> Contents]
      BY <1>a, Apart DEF FileType
    <3> QED
      BY <1>1, <1>a, <3>1, Values, Apart DEF Begin, Spoil, FileType
  <2>4. FileType'
    BY <1>1, <1>a, <2>3 DEF Begin, FileType, buildVars
  <2> QED
    BY <1>b, <2>1, <2>2, <2>4
<1>2. ASSUME NEW k \in Copiers, NoSource(k) PROVE StoreTypeInv'
  <2>1. EndCopies({k}) /\ pc[k] = "asked"
        /\ UNCHANGED <<kind, commandVars, todo, held, cut, file, buildVars, expect>>
    BY <1>2 DEF NoSource
  <2>2. /\ job' \in [Copiers -> {"none", "push", "pull"}]
        /\ pc' \in [Copiers -> {"idle", "asked", "next", "copy", "answered"}]
        /\ \A j \in Copiers : j # k => pc'[j] = pc[j]
        /\ pc'[k] \in {"idle", "answered"}
        /\ CommandType' /\ ClientOK'
    BY <1>a, <2>1, EndCopiesType
  <2>3. CopierType'
    BY <1>a, <2>1, <2>2 DEF CopierType
  <2>4. FileType'
    BY <1>a, <2>1 DEF FileType, buildVars
  <2> QED
    BY <1>b, <2>2, <2>3, <2>4
<1>3. ASSUME NEW k \in Copiers, Open(k) PROVE StoreTypeInv'
  <2>1. CommandType' /\ ClientOK'
    BY <1>3, <1>a, <1>c DEF Open, CommandType, CopierType, ClientOK, commandVars
  <2>2. pc[k] = "next" /\ todo[k] # {} /\ Current(k) \in FileNames
    BY <1>3, <1>a, CurrentFile DEF Open, CopierType
  <2>3. file[From(k)][Current(k)] \in Contents
    BY <1>a, <2>2, Apart DEF FileType
  <2>4. held' \in [Copiers -> Contents]
    <3>1. \A j \in Copiers : held'[j] \in {held[j], Partial, file[From(k)][Current(k)]}
      BY <1>3 DEF Open
    <3>2. held' = [j \in Copiers |-> held'[j]]
      BY <1>3 DEF Open
    <3>3. \A j \in Copiers : held'[j] \in Contents
      BY <1>a, <2>3, <3>1, Values DEF CopierType
    <3> QED
      BY <3>2, <3>3
  <2>5. cut' \subseteq {j \in Copiers : pc'[j] = "copy"}
    BY <1>3, <1>a DEF Open, CopierType, Rivals, Writers
  <2>6. CopierType'
    BY <1>3, <1>a, <2>2, <2>4, <2>5 DEF Open, CopierType
  <2>7. FileType'
    <3>1. file' = file \/ file' = [file EXCEPT ![To(k)][Current(k)] = Partial]
      BY <1>3 DEF Open
    <3> QED
      BY <1>3, <1>a, <2>2, <3>1, Values, Apart DEF Open, FileType, buildVars
  <2> QED
    BY <1>b, <2>1, <2>6, <2>7
<1>4. ASSUME NEW k \in Copiers, Finish(k) PROVE StoreTypeInv'
  <2>1. CommandType' /\ ClientOK'
    BY <1>4, <1>a, <1>c DEF Finish, CommandType, CopierType, ClientOK, commandVars
  <2>2. pc[k] = "copy" /\ Current(k) \in FileNames
    BY <1>4, <1>a, CurrentFile DEF Finish, CopierType
  <2>3. held' \in [Copiers -> Contents]
    BY <1>4, <1>a, Values DEF Finish, CopierType
  <2>4. CopierType'
    BY <1>4, <1>a, <2>2, <2>3 DEF Finish, CopierType
  <2>5. FileType'
    <3>1. \E v \in Contents : file' = [file EXCEPT ![To(k)][Current(k)] = v]
      BY <1>4, <1>a, Values DEF Finish, CopierType
    <3> QED
      BY <1>4, <1>a, <2>2, <3>1, Apart DEF Finish, FileType, buildVars
  <2> QED
    BY <1>b, <2>1, <2>4, <2>5
<1>5. ASSUME NEW k \in Copiers, Complete(k) PROVE StoreTypeInv'
  <2>1. EndCopies({k}) /\ pc[k] = "next" /\ UNCHANGED <<kind, commandVars, todo, held, cut, file, buildVars>>
    BY <1>5 DEF Complete
  <2>2. /\ job' \in [Copiers -> {"none", "push", "pull"}]
        /\ pc' \in [Copiers -> {"idle", "asked", "next", "copy", "answered"}]
        /\ \A j \in Copiers : j # k => pc'[j] = pc[j]
        /\ pc'[k] \in {"idle", "answered"}
        /\ CommandType' /\ ClientOK'
    BY <1>a, <2>1, EndCopiesType
  <2>3. CopierType'
    BY <1>a, <2>1, <2>2 DEF CopierType
  <2>4. FileType'
    BY <1>5, <1>a, <2>1, Values, Apart DEF Complete, FileType, buildVars
  <2> QED
    BY <1>b, <2>2, <2>3, <2>4
<1>d. ASSUME NEW ks \in SUBSET Copiers, Stop(ks), UNCHANGED <<file, buildVars>>,
             \A j \in Copiers : j \notin ks => pc'[j] = pc[j],
             \A j \in ks : pc'[j] # "copy",
             job' \in [Copiers -> {"none", "push", "pull"}],
             pc' \in [Copiers -> {"idle", "asked", "next", "copy", "answered"}]
      PROVE  CopierType' /\ FileType'
  <2>1. todo' \in [Copiers -> SUBSET FileNames] /\ held' \in [Copiers -> Contents]
        /\ \A j \in Copiers : j \notin ks => todo'[j] = todo[j]
    BY <1>a, <1>d, Values DEF Stop, CopierType
  <2>2. CopierType'
    BY <1>a, <1>d, <2>1 DEF Stop, CopierType
  <2>3. FileType'
    BY <1>a, <1>d, Values DEF Stop, FileType, buildVars
  <2> QED
    BY <2>2, <2>3
<1>6. ASSUME NEW k \in Copiers, Fail(k) PROVE StoreTypeInv'
  <2>1. EndCopies({k}) /\ Stop({k}) /\ pc[k] \in {"next", "copy"}
        /\ UNCHANGED <<kind, commandVars, file, buildVars>>
    BY <1>6 DEF Fail
  <2>2. /\ job' \in [Copiers -> {"none", "push", "pull"}]
        /\ pc' \in [Copiers -> {"idle", "asked", "next", "copy", "answered"}]
        /\ \A j \in Copiers : j # k => pc'[j] = pc[j]
        /\ pc'[k] \in {"idle", "answered"}
        /\ CommandType' /\ ClientOK'
    BY <1>a, <2>1, EndCopiesType
  <2> QED
    BY <1>b, <1>d, <2>1, <2>2
\* The command line and the daemon.
<1>e. ASSUME UNCHANGED <<todo, held, cut, file, buildVars, expect>>,
             \A j \in Copiers : pc[j] = "copy" <=> pc'[j] = "copy",
             job' \in [Copiers -> {"none", "push", "pull"}],
             pc' \in [Copiers -> {"idle", "asked", "next", "copy", "answered"}]
      PROVE  CopierType' /\ FileType'
  BY <1>a, <1>e DEF CopierType, FileType, buildVars
<1>7. ASSUME NEW c \in Commands, NEW o \in {"push", "pull"}, Run(c, o) PROVE StoreTypeInv'
  <2>1. CopierType' /\ FileType'
    BY <1>7, <1>a, <1>c, <1>e DEF Run, CopierType
  <2>2. CommandType' /\ ClientOK'
    BY <1>7, <1>a, <1>c DEF Run, CommandType, ClientOK
  <2> QED
    BY <1>b, <2>1, <2>2
<1>8. ASSUME NEW c \in Commands, NEW g \in Handlers, Send(c, g) PROVE StoreTypeInv'
  <2>1. CopierType' /\ FileType'
    BY <1>8, <1>a, <1>c, <1>e DEF Send, CopierType
  <2>2. CommandType'
    BY <1>8, <1>a DEF Send, CommandType
  <2>3. ClientOK'
    BY <1>8, <1>a, <1>c DEF Send, CommandType, CopierType, ClientOK
  <2> QED
    BY <1>b, <2>1, <2>2, <2>3
<1>9. ASSUME NEW g \in Handlers, Answer(g) PROVE StoreTypeInv'
  <2>1. CopierType' /\ FileType'
    BY <1>9, <1>a, <1>c, <1>e DEF Answer, CopierType
  <2>2. CommandType'
    BY <1>9, <1>a DEF Answer, CommandType
  <2>3. ClientOK'
    BY <1>9, <1>a, <1>c DEF Answer, CommandType, CopierType, ClientOK
  <2> QED
    BY <1>b, <2>1, <2>2, <2>3
<1>10. ASSUME NEW c \in Commands, RunDirect(c) PROVE StoreTypeInv'
  <2>0. FallBack(c) /\ pc[c] = "idle"
    BY <1>10, <1>a DEF RunDirect, ClientOK
  <2>1. /\ \A g \in Handlers : client'[g] = IF client[g] = c THEN Nobody ELSE client[g]
        /\ job' \in [Copiers -> {"none", "push", "pull"}]
        /\ pc' \in [Copiers -> {"idle", "asked", "next", "copy", "answered"}]
        /\ \A j \in Copiers : j # c => pc'[j] = pc[j] \/ (pc[j] = "answered" /\ pc'[j] = "idle")
        /\ pc'[c] = "asked"
    BY <2>0, <1>a, <1>c DEF FallBack, CopierType
  <2>2. CopierType' /\ FileType'
    BY <2>0, <2>1, <1>c, <1>e DEF FallBack
  <2>3. CommandType'
    BY <2>0, <1>a DEF FallBack, CommandType
  <2>4. ClientOK'
    BY <2>0, <2>1, <1>a, <1>c DEF FallBack, CommandType, ClientOK
  <2> QED
    BY <1>b, <2>2, <2>3, <2>4
<1>11. ASSUME NEW c \in Commands, Report(c) PROVE StoreTypeInv'
  <2>1. CopierType' /\ FileType'
    BY <1>11, <1>a, <1>c, <1>e DEF Report, CopierType
  <2>2. CommandType' /\ ClientOK'
    BY <1>11, <1>a, <1>c DEF Report, CommandType, CopierType, ClientOK
  <2> QED
    BY <1>b, <2>1, <2>2
<1>12. CASE StartDaemon
  BY <1>12, <1>a, <1>b DEF StartDaemon, copierVars, buildVars, CommandType, CopierType, FileType, ClientOK
<1>13. CASE DaemonDies
  <2>1. /\ job' \in [Copiers -> {"none", "push", "pull"}]
        /\ pc' \in [Copiers -> {"idle", "asked", "next", "copy", "answered"}]
        /\ \A j \in Copiers : j \notin Handlers => pc'[j] = pc[j]
        /\ \A j \in Handlers : pc'[j] = "idle"
    BY <1>13, <1>a, <1>c DEF DaemonDies, CopierType
  <2>2. CopierType' /\ FileType'
    BY <1>13, <1>c, <1>d, <2>1 DEF DaemonDies
  <2>3. CommandType' /\ ClientOK'
    BY <1>13, <1>a, <1>c, <2>1 DEF DaemonDies, CommandType, ClientOK
  <2> QED
    BY <1>b, <2>2, <2>3
\* The build of the snapshot.
<1>14. CASE Build
  <2>1. CommandType' /\ ClientOK'
    BY <1>14, <1>a DEF Build, CommandType, ClientOK, commandVars
  <2>2. CopierType'
    BY <1>14, <1>a, Values DEF Build, CopierType
  <2>3. expect' \in [Places -> [FileNames -> Contents]]
    BY <1>14, <1>a, Values DEF Build, Spoil, FileType
  <2>4. FileType'
    BY <1>14, <1>a, <2>3, Values, StoreAssumption DEF Build, FileType, Places
  <2> QED
    BY <1>b, <2>1, <2>2, <2>4
<1>15. CASE Built
  <2>1. CommandType' /\ ClientOK' /\ CopierType'
    BY <1>15, <1>a DEF Built, CommandType, ClientOK, CopierType, commandVars, copierVars
  <2>2. FileType'
    BY <1>15, <1>a, Values DEF Built, FileType
  <2> QED
    BY <1>b, <2>1, <2>2
<1>16. CASE UNCHANGED vars
  BY <1>16, <1>a, <1>b DEF vars, commandVars, copierVars, buildVars, CommandType, CopierType, FileType, ClientOK
<1> QED
  BY <1>1, <1>2, <1>3, <1>4, <1>5, <1>6, <1>7, <1>8, <1>9, <1>10, <1>11, <1>12, <1>13, <1>14, <1>15, <1>16
     DEF Next, Copier, Command

LEMMA StoreTypeHolds == Spec => []StoreTypeInv
  BY StoreTypeInit, StoreTypeStep, PTL DEF Spec

\* Every reachable state of any number of commands and handlers is type-correct.
THEOREM SnapshotStoreType == Spec => []TypeOK
  BY StoreTypeHolds, PTL DEF StoreTypeInv

-----------------------------------------------------------------------------
\* Why the last copy is exact.

\* The copies into p, if they all succeed, are of version expect[p][f] of file f.
Good(p, f) == expect[p][f] \in 1..MaxBuilds

\* What a copier reads is as it was when it began, or promises nothing.
SourceOK == \A k \in Copiers : Working(k) =>
                \/ expect[To(k)] = Mixed
                \/ ~Busy(From(k)) /\ file[From(k)] = expect[To(k)]

HeldOK == \A k \in Copiers : pc[k] = "copy" /\ Good(To(k), Current(k)) => held[k] = expect[To(k)][Current(k)]

\* Copier k does not write f any more, or what it writes is cut off.
Past(k, f) == f \notin todo[k] \/ (k \in cut /\ f = Current(k))

\* Then the file is complete, or the last that has opened it is at work.
PastOK == \A k \in Copiers, f \in FileNames :
              Working(k) /\ Good(To(k), f) /\ Past(k, f) =>
                  \/ file[To(k)][f] = expect[To(k)][f]
                  \/ \E j \in Writers(To(k), f) : j \notin cut

CopyInv == SourceOK /\ HeldOK /\ PastOK

LEMMA MixedPromisesNothing == \A p : \A f \in FileNames : expect[p] = Mixed => ~Good(p, f)
  BY NoVersion DEF Mixed, Good

\* Steps after which the copiers that still work are as they were: what they
\* promise is kept, or given up where one has stopped in the middle.
LEMMA CopiersLeave ==
    ASSUME StoreTypeInv, CopyInv, UNCHANGED <<kind, file, building>>,
           \A k \in Copiers : Working(k)' => /\ pc'[k] = pc[k] /\ job'[k] = job[k]
                                             /\ todo'[k] = todo[k] /\ held'[k] = held[k],
           cut' = cut \cap {k \in Copiers : Working(k)'},
           \A p \in Places : expect'[p] = expect[p] \/ expect'[p] = Mixed,
           \A k \in Copiers : pc[k] = "copy" /\ pc'[k] # "copy" => expect'[To(k)] = Mixed
    PROVE  CopyInv'
<1>1. ASSUME NEW k \in Copiers, Working(k)'
      PROVE  /\ Working(k) /\ To(k)' = To(k) /\ From(k)' = From(k) /\ Current(k)' = Current(k)
             /\ pc'[k] = pc[k] /\ todo'[k] = todo[k] /\ held'[k] = held[k]
             /\ k \in cut' <=> k \in cut
             /\ expect'[To(k)] = expect[To(k)] \/ expect'[To(k)] = Mixed
  BY <1>1, Apart DEF Working, To, From, StoreOf, Current
<1>2. \A p : Busy(p)' => Busy(p)
  BY <1>1 DEF Busy, Into
<1>3. SourceOK'
  BY <1>1, <1>2 DEF CopyInv, SourceOK
<1>4. HeldOK'
  <2> SUFFICES ASSUME NEW k \in Copiers, pc'[k] = "copy", Good(To(k), Current(k))'
               PROVE  held'[k] = expect'[To(k)'][Current(k)']
    BY DEF HeldOK
  <2>1. Working(k)' /\ Current(k) \in FileNames
    BY <1>1, TypeParts, CurrentFile DEF Working, StoreTypeInv, CopierType
  <2>2. expect'[To(k)] = expect[To(k)]
    BY <1>1, <2>1, NoVersion DEF Good, Mixed
  <2> QED
    BY <1>1, <2>1, <2>2 DEF CopyInv, HeldOK, Good
<1>5. PastOK'
  <2> SUFFICES ASSUME NEW k \in Copiers, NEW f \in FileNames, Working(k)', Good(To(k), f)', Past(k, f)'
               PROVE  \/ file'[To(k)'][f] = expect'[To(k)'][f]
                      \/ \E j \in Writers(To(k), f)' : j \notin cut'
    BY DEF PastOK
  <2>1. expect'[To(k)] = expect[To(k)] /\ expect'[To(k)] # Mixed
    BY <1>1, NoVersion DEF Good, Mixed
  <2>2. Working(k) /\ Good(To(k), f) /\ Past(k, f)
    BY <1>1, <2>1 DEF Good, Past
  <2>3. ASSUME NEW j \in Writers(To(k), f), j \notin cut
        PROVE  j \in Writers(To(k), f)' /\ j \notin cut'
    <3>1. j \in Copiers /\ pc[j] = "copy" /\ To(j) = To(k)
      BY <2>3 DEF Writers
    <3>2. pc'[j] = "copy" /\ Working(j)'
      BY <2>1, <3>1 DEF Working
    <3> QED
      BY <1>1, <2>3, <3>1, <3>2 DEF Writers
  <2> QED
    BY <1>1, <2>1, <2>2, <2>3 DEF CopyInv, PastOK
<1> QED
  BY <1>3, <1>4, <1>5 DEF CopyInv

LEMMA BeginStep == ASSUME StoreTypeInv, CopyInv, NEW k \in Copiers, Begin(k) PROVE CopyInv'
<1> DEFINE p == To(k)
           source == IF Busy(From(k)) THEN Mixed ELSE file[From(k)]
<1>a. CopierType /\ FileType
  BY TypeParts DEF StoreTypeInv
<1>1. /\ pc[k] = "asked" /\ pc' = [pc EXCEPT ![k] = "next"]
      /\ todo' = [todo EXCEPT ![k] = Listed(From(k))]
      /\ UNCHANGED <<kind, job, held, cut, file, building>>
  BY DEF Begin, buildVars
<1>2. \A j : To(j)' = To(j) /\ From(j)' = From(j)
  BY <1>1 DEF To, From, StoreOf
<1>3. \A j \in Copiers : /\ Working(j)' <=> Working(j) \/ j = k
                         /\ pc'[j] = "copy" <=> pc[j] = "copy"
                         /\ j # k => todo'[j] = todo[j]
  BY <1>1, <1>a DEF Working, CopierType
<1>4. k \notin cut /\ ~Working(k)
  BY <1>1, <1>a DEF CopierType, Working
<1>5. expect' = Spoil(p, [expect EXCEPT ![p] = IF Into(p) = {} \/ @ = source THEN source ELSE Mixed])
  BY DEF Begin
<1>6. expect'[p] = source \/ expect'[p] = Mixed
  BY <1>5, <1>a, Apart DEF Spoil, FileType
<1>7. ASSUME NEW j \in Copiers, Working(j), expect'[To(j)] # Mixed
      PROVE  expect'[To(j)] = expect[To(j)] /\ From(j) # p
  <2>1. From(j) # p
    BY <1>5, <1>7, Apart DEF Spoil
  <2>2. To(j) = p => Into(p) # {}
    BY <1>7 DEF Into
  <2> QED
    BY <1>5, <1>7, <1>a, <2>1, <2>2, Apart DEF Spoil, FileType
<1>8. \A j \in Copiers : From(j) # p => (Busy(From(j))' <=> Busy(From(j)))
  BY <1>1, <1>2, <1>3 DEF Busy, Into
<1>9. SourceOK'
  <2> SUFFICES ASSUME NEW j \in Copiers, Working(j)', expect'[To(j)] # Mixed
               PROVE  ~Busy(From(j))' /\ file[From(j)] = expect'[To(j)]
    BY <1>1, <1>2 DEF SourceOK
  <2>1. CASE j = k
    BY <1>6, <1>8, <2>1, Apart
  <2>2. CASE j # k
    BY <1>3, <1>7, <1>8, <2>2, Apart DEF CopyInv, SourceOK
  <2> QED
    BY <2>1, <2>2
<1>10. HeldOK'
  <2> SUFFICES ASSUME NEW j \in Copiers, pc'[j] = "copy", Good(To(j), Current(j))'
               PROVE  held[j] = expect'[To(j)][Current(j)']
    BY <1>1, <1>2 DEF HeldOK
  <2>1. pc[j] = "copy" /\ j # k /\ Working(j) /\ Current(j)' = Current(j) /\ Current(j) \in FileNames
    BY <1>1, <1>3, <1>a, CurrentFile DEF Working, Current, CopierType
  <2>2. expect'[To(j)] = expect[To(j)]
    BY <1>2, <1>7, <2>1, NoVersion DEF Good, Mixed
  <2> QED
    BY <1>2, <2>1, <2>2 DEF CopyInv, HeldOK, Good
<1>11. PastOK'
  <2> SUFFICES ASSUME NEW j \in Copiers, NEW f \in FileNames, Working(j)', Good(To(j), f)', Past(j, f)'
               PROVE  \/ file[To(j)][f] = expect'[To(j)][f]
                      \/ \E i \in Writers(To(j), f)' : i \notin cut
    BY <1>1, <1>2 DEF PastOK
  <2>1. expect'[To(j)] # Mixed
    BY <1>2, NoVersion DEF Good, Mixed
  <2>2. j # k
    <3> SUFFICES ASSUME j = k PROVE FALSE
      OBVIOUS
    <3>1. file[From(k)][f] \in 1..MaxBuilds
      BY <1>2, <1>6, <2>1 DEF Good
    <3>2. f \in todo'[k]
      BY <1>1, <1>a, <3>1, NoVersion DEF Listed, CopierType
    <3> QED
      BY <1>1, <1>4, <3>2 DEF Past
  <2>3. Working(j) /\ expect'[To(j)] = expect[To(j)] /\ Good(To(j), f) /\ Past(j, f)
    BY <1>1, <1>2, <1>3, <1>7, <2>1, <2>2 DEF Good, Past, Current
  <2>4. Writers(To(j), f) \subseteq Writers(To(j), f)'
    BY <1>1, <1>2, <1>3 DEF Writers, Current
  <2> QED
    BY <2>3, <2>4 DEF CopyInv, PastOK
<1> QED
  BY <1>9, <1>10, <1>11 DEF CopyInv

\* A copier that writes into a place makes what others read there worthless.
LEMMA ReadersPromiseNothing ==
    ASSUME CopyInv, NEW k \in Copiers, Working(k), NEW j \in Copiers, Working(j), From(j) = To(k)
    PROVE  expect[To(j)] = Mixed
<1>1. Busy(From(j))
  BY DEF Busy, Into
<1> QED
  BY <1>1 DEF CopyInv, SourceOK

\* Steps of one copier that keeps working: at most its own file changes.
LEMMA SourceStep ==
    ASSUME StoreTypeInv, CopyInv, NEW k \in Copiers, Working(k), Working(k)',
           UNCHANGED <<kind, job, building, expect>>,
           \A j \in Copiers : j # k => pc'[j] = pc[j],
           \A p \in Places \ {To(k)} : file'[p] = file[p]
    PROVE  /\ SourceOK'
           /\ \A j : To(j)' = To(j) /\ From(j)' = From(j)
           /\ \A j \in Copiers : Working(j)' = Working(j)
<1>1. \A j : To(j)' = To(j) /\ From(j)' = From(j)
  BY DEF To, From, StoreOf
<1>2. \A j \in Copiers : Working(j)' = Working(j)
  BY DEF Working
<1>3. \A p : Busy(p)' = Busy(p)
  BY <1>1, <1>2 DEF Busy, Into
<1>4. ASSUME NEW j \in Copiers, Working(j), expect[To(j)] # Mixed
      PROVE  ~Busy(From(j)) /\ file'[From(j)] = expect[To(j)]
  <2>1. From(j) # To(k)
    BY <1>4, ReadersPromiseNothing
  <2> QED
    BY <1>4, <2>1, Apart DEF CopyInv, SourceOK
<1>5. SourceOK'
  BY <1>1, <1>2, <1>3, <1>4 DEF SourceOK
<1> QED
  BY <1>1, <1>2, <1>5

LEMMA OpenStep == ASSUME StoreTypeInv, CopyInv, NEW k \in Copiers, Open(k) PROVE CopyInv'
<1> DEFINE q == To(k)
           f == Current(k)
           new == file[From(k)][f]
<1>a. CopierType /\ FileType
  BY TypeParts DEF StoreTypeInv
<1>1. /\ pc[k] = "next" /\ todo[k] # {} /\ pc' = [pc EXCEPT ![k] = "copy"]
      /\ UNCHANGED <<kind, job, todo, building, expect>>
      /\ cut' = cut \cup Rivals(k)
  BY DEF Open, buildVars
<1>2. /\ Torn(k) \cap Rivals(k) = {} => held'[k] = new
      /\ \A j \in Copiers \ {k} : j \notin Torn(k) => held'[j] = held[j]
  BY DEF Open
<1>3. file' = file \/ file' = [file EXCEPT ![q][f] = Partial]
  BY DEF Open
<1>4. f \in FileNames /\ k \notin cut /\ k \notin Rivals(k)
  BY <1>1, <1>a, CurrentFile DEF CopierType, Rivals, Writers
<1>5. /\ SourceOK'
      /\ \A j : To(j)' = To(j) /\ From(j)' = From(j)
      /\ \A j \in Copiers : Working(j)' = Working(j)
  <2>1. Working(k) /\ Working(k)' /\ \A j \in Copiers : j # k => pc'[j] = pc[j]
    BY <1>1, <1>a DEF Working, CopierType
  <2>2. \A p \in Places \ {q} : file'[p] = file[p]
    BY <1>3, <1>a DEF FileType
  <2> QED
    BY <1>1, <2>1, <2>2, SourceStep
<1>6. \A j : Current(j)' = Current(j)
  BY <1>1 DEF Current
\* Where f of q is promised, the Rivals(k) hold what k reads.
<1>7. ASSUME Good(q, f) PROVE new = expect[q][f] /\ \A j \in Rivals(k) : held[j] = new
  <2>1. expect[q] # Mixed
    BY <1>4, <1>7, MixedPromisesNothing
  <2>2. new = expect[q][f]
    BY <1>1, <2>1 DEF CopyInv, SourceOK, Working
  <2> QED
    BY <1>7, <2>2 DEF CopyInv, HeldOK, Rivals, Writers
<1>8. HeldOK'
  <2> SUFFICES ASSUME NEW j \in Copiers, pc'[j] = "copy", Good(To(j), Current(j))
               PROVE  held'[j] = expect[To(j)][Current(j)]
    BY <1>1, <1>5, <1>6 DEF HeldOK, Good
  <2>1. CASE j = k
    <3>1. Torn(k) \cap Rivals(k) = {}
      BY <1>7, <2>1, Apart DEF Torn, Rivals, Readers, Writers
    <3>2. new = expect[q][f]
      BY <1>7, <2>1
    <3>3. held'[k] = new
      BY <1>2, <3>1
    <3> QED
      BY <2>1, <3>2, <3>3
  <2>2. CASE j # k
    <3>1. pc[j] = "copy" /\ Working(j) /\ Current(j) \in FileNames
      BY <1>1, <1>a, <2>2, CurrentFile DEF CopierType, Working
    <3>2. j \notin Readers(q, f)
      <4> SUFFICES ASSUME From(j) = q PROVE FALSE
        BY DEF Readers
      <4>1. expect[To(j)] = Mixed
        BY <1>1, <3>1, ReadersPromiseNothing DEF Working
      <4> QED
        BY <3>1, <4>1, MixedPromisesNothing
    <3>3. j \notin Torn(k)
      BY <1>7, <3>2 DEF Torn, Rivals, Writers
    <3> QED
      BY <1>2, <2>2, <3>1, <3>3 DEF CopyInv, HeldOK
  <2> QED
    BY <2>1, <2>2
<1>9. PastOK'
  <2> SUFFICES ASSUME NEW j \in Copiers, NEW g \in FileNames, Working(j), Good(To(j), g), Past(j, g)'
               PROVE  \/ file'[To(j)][g] = expect[To(j)][g]
                      \/ \E i \in Writers(To(j), g)' : i \notin cut'
    BY <1>1, <1>5 DEF PastOK, Good
  <2>1. CASE To(j) = q /\ g = f
    <3>1. k \in Writers(To(j), g)'
      BY <1>1, <1>5, <1>6, <1>a, <2>1 DEF Writers, CopierType
    <3>2. k \notin cut'
      BY <1>1, <1>4
    <3> QED
      BY <3>1, <3>2
  <2>2. CASE ~(To(j) = q /\ g = f)
    <3>1. Past(j, g)
      BY <1>1, <1>6, <2>2 DEF Past, Rivals, Writers
    <3>2. file'[To(j)][g] = file[To(j)][g]
      BY <1>3, <1>4, <1>a, <2>2, Apart DEF FileType
    <3>3. ASSUME NEW i \in Writers(To(j), g), i \notin cut
          PROVE  i \in Writers(To(j), g)' /\ i \notin cut'
      BY <1>1, <1>5, <1>6, <1>a, <2>2, <3>3 DEF Rivals, Writers, CopierType
    <3> QED
      BY <3>1, <3>2, <3>3 DEF CopyInv, PastOK
  <2> QED
    BY <2>1, <2>2
<1> QED
  BY <1>5, <1>8, <1>9 DEF CopyInv

LEMMA FinishStep == ASSUME StoreTypeInv, CopyInv, NEW k \in Copiers, Finish(k) PROVE CopyInv'
<1> DEFINE q == To(k)
           f == Current(k)
<1>a. CopierType /\ FileType
  BY TypeParts DEF StoreTypeInv
<1>1. /\ pc[k] = "copy" /\ pc' = [pc EXCEPT ![k] = "next"]
      /\ todo' = [todo EXCEPT ![k] = @ \ {f}]
      /\ cut' = cut \ {k}
      /\ UNCHANGED <<kind, job, building, expect>>
  BY DEF Finish, buildVars
<1>2. file' = IF k \in cut /\ file[q][f] # held[k]
              THEN [file EXCEPT ![q][f] = Partial]
              ELSE [file EXCEPT ![q][f] = held[k]]
  BY DEF Finish
<1>3. f \in FileNames /\ Working(k)
  BY <1>1, <1>a, CurrentFile DEF CopierType, Working
<1>4. /\ SourceOK'
      /\ \A j : To(j)' = To(j) /\ From(j)' = From(j)
      /\ \A j \in Copiers : Working(j)' = Working(j)
  <2>1. Working(k)' /\ \A j \in Copiers : j # k => pc'[j] = pc[j]
    BY <1>1, <1>a DEF Working, CopierType
  <2>2. \A p \in Places \ {q} : file'[p] = file[p]
    BY <1>2, <1>a DEF FileType
  <2> QED
    BY <1>1, <1>3, <2>1, <2>2, SourceStep
<1>5. ASSUME NEW j \in Copiers, j # k
      PROVE  pc'[j] = pc[j] /\ todo'[j] = todo[j] /\ Current(j)' = Current(j) /\ (j \in cut' <=> j \in cut)
  BY <1>1, <1>5, <1>a DEF Current, CopierType
<1>6. HeldOK'
  <2> SUFFICES ASSUME NEW j \in Copiers, j # k, pc[j] = "copy", Good(To(j), Current(j))
               PROVE  held'[j] = expect[To(j)][Current(j)]
    BY <1>1, <1>4, <1>5, <1>a DEF HeldOK, Good, CopierType
  <2>1. j \notin Readers(q, f)
    <3> SUFFICES ASSUME From(j) = q PROVE FALSE
      BY DEF Readers
    <3>1. expect[To(j)] = Mixed
      BY <1>3, ReadersPromiseNothing DEF Working
    <3>2. Current(j) \in FileNames
      BY <1>a, CurrentFile DEF CopierType
    <3> QED
      BY <3>1, <3>2, MixedPromisesNothing
  <2>2. held'[j] = held[j]
    BY <2>1 DEF Finish
  <2> QED
    BY <2>2 DEF CopyInv, HeldOK
<1>7. PastOK'
  <2> SUFFICES ASSUME NEW j \in Copiers, NEW g \in FileNames, Working(j), Good(To(j), g), Past(j, g)'
               PROVE  \/ file'[To(j)][g] = expect[To(j)][g]
                      \/ \E i \in Writers(To(j), g)' : i \notin cut'
    BY <1>1, <1>4 DEF PastOK, Good
  \* Who writes on, writes on.
  <2>1. ASSUME NEW i \in Writers(To(j), g), i # k, i \notin cut
        PROVE  i \in Writers(To(j), g)' /\ i \notin cut'
    BY <1>4, <1>5, <2>1 DEF Writers
  <2>2. CASE To(j) = q /\ g = f
    <3>1. CASE k \in cut
      <4>1. file[q][f] = expect[q][f] \/ \E i \in Writers(q, f) : i \notin cut
        BY <1>3, <2>2, <3>1 DEF CopyInv, PastOK, Past
      <4>2. held[k] = expect[q][f]
        BY <1>1, <2>2 DEF CopyInv, HeldOK
      <4>3. CASE file[q][f] = expect[q][f]
        BY <1>2, <1>3, <1>a, <2>2, <4>2, <4>3, Apart DEF FileType
      <4>4. CASE \E i \in Writers(q, f) : i \notin cut
        BY <2>1, <2>2, <3>1, <4>4
      <4> QED
        BY <4>1, <4>3, <4>4
    <3>2. CASE k \notin cut
      BY <1>1, <1>2, <1>3, <1>a, <2>2, <3>2, Apart DEF FileType, CopyInv, HeldOK
    <3> QED
      BY <3>1, <3>2
  <2>3. CASE ~(To(j) = q /\ g = f)
    <3>1. Past(j, g)
      <4>1. CASE j = k
        BY <1>1, <1>a, <2>3, <4>1 DEF Past, CopierType
      <4>2. CASE j # k
        BY <1>5, <4>2 DEF Past
      <4> QED
        BY <4>1, <4>2
    <3>2. file'[To(j)][g] = file[To(j)][g]
      BY <1>2, <1>3, <1>a, <2>3, Apart DEF FileType
    <3>3. k \notin Writers(To(j), g)
      BY <2>3 DEF Writers
    <3> QED
      BY <2>1, <3>1, <3>2, <3>3 DEF CopyInv, PastOK
  <2> QED
    BY <2>2, <2>3
<1> QED
  BY <1>4, <1>6, <1>7 DEF CopyInv

\* Firecracker writes what a push reads.
LEMMA FirecrackerStep == ASSUME StoreTypeInv, CopyInv, Build \/ Built PROVE CopyInv'
<1>a. CopierType /\ FileType
  BY TypeParts DEF StoreTypeInv
<1>1. /\ UNCHANGED <<kind, job, pc, todo, cut>>
      /\ \A p \in Places \ {"built"} : file'[p] = file[p]
  BY <1>a DEF Build, Built, copierVars, FileType
<1>2. /\ \A j : To(j)' = To(j) /\ From(j)' = From(j) /\ Current(j)' = Current(j) /\ Working(j)' = Working(j)
      /\ \A p : Into(p)' = Into(p)
      /\ \A p, f : Writers(p, f)' = Writers(p, f)
  BY <1>1 DEF To, From, StoreOf, Current, Working, Into, Writers
<1>3. ASSUME NEW j \in Copiers, Working(j), expect'[To(j)] # Mixed
      PROVE  expect'[To(j)] = expect[To(j)] /\ From(j) # "built" /\ held'[j] = held[j]
  <2>1. CASE Build
    BY <1>3, <1>a, <2>1, Apart DEF Build, Spoil
  <2>2. CASE Built
    <3>1. Busy("built") /\ expect' = expect /\ held' = held
      BY <2>2 DEF Built, Busy, copierVars
    <3> QED
      BY <1>3, <3>1 DEF CopyInv, SourceOK
  <2> QED
    BY <2>1, <2>2
<1>4. SourceOK'
  <2> SUFFICES ASSUME NEW j \in Copiers, Working(j), expect'[To(j)] # Mixed
               PROVE  ~Busy(From(j))' /\ file'[From(j)] = expect'[To(j)]
    BY <1>2 DEF SourceOK
  <2>1. Busy(From(j))' = Busy(From(j)) /\ file'[From(j)] = file[From(j)]
    BY <1>1, <1>2, <1>3, Apart DEF Busy
  <2> QED
    BY <1>3, <2>1 DEF CopyInv, SourceOK
<1>5. HeldOK'
  <2> SUFFICES ASSUME NEW j \in Copiers, pc[j] = "copy", Good(To(j), Current(j))'
               PROVE  held'[j] = expect'[To(j)][Current(j)]
    BY <1>1, <1>2 DEF HeldOK
  <2>1. Working(j) /\ Current(j) \in FileNames
    BY <1>a, CurrentFile DEF CopierType, Working
  <2>2. expect'[To(j)] # Mixed
    BY <1>2, <2>1, NoVersion DEF Good, Mixed
  <2> QED
    BY <1>2, <1>3, <2>1, <2>2 DEF CopyInv, HeldOK, Good
<1>6. PastOK'
  <2> SUFFICES ASSUME NEW j \in Copiers, NEW f \in FileNames, Working(j), Good(To(j), f)', Past(j, f)
               PROVE  \/ file'[To(j)][f] = expect'[To(j)][f]
                      \/ \E i \in Writers(To(j), f) : i \notin cut
    BY <1>1, <1>2 DEF PastOK, Past
  <2>1. expect'[To(j)] = expect[To(j)] /\ Good(To(j), f)
    BY <1>2, <1>3, NoVersion DEF Good, Mixed
  <2>2. file'[To(j)] = file[To(j)]
    BY <1>1, Apart
  <2> QED
    BY <2>1, <2>2 DEF CopyInv, PastOK
<1> QED
  BY <1>4, <1>5, <1>6 DEF CopyInv

LEMMA CopyInit == Init => CopyInv
<1> SUFFICES ASSUME Init PROVE CopyInv
  OBVIOUS
<1>1. \A k \in Copiers : pc[k] = "idle"
  BY DEF Init
<1> QED
  BY <1>1 DEF CopyInv, SourceOK, HeldOK, PastOK, Working

LEMMA CopyStep == StoreTypeInv /\ StoreTypeInv' /\ CopyInv /\ [Next]_vars => CopyInv'
<1> SUFFICES ASSUME StoreTypeInv, StoreTypeInv', CopyInv, [Next]_vars PROVE CopyInv'
  OBVIOUS
<1>a. CommandType /\ CopierType /\ FileType /\ ClientOK /\ CopierType' /\ FileType'
  BY TypeParts, TypePartsNext DEF StoreTypeInv
<1>c. Commands \subseteq Copiers /\ Handlers \subseteq Copiers
  BY DEF Copiers
\* Steps that no copier at work takes part in.
<1>b. ASSUME UNCHANGED <<kind, todo, held, cut, file, building, expect>>,
             \A j \in Copiers : Working(j) \/ Working(j)' => pc'[j] = pc[j] /\ job'[j] = job[j]
      PROVE  CopyInv'
  <2>1. cut' = cut \cap {j \in Copiers : Working(j)'}
    BY <1>a, <1>b DEF CopierType, Working
  <2>2. \A j \in Copiers : pc[j] = "copy" => pc'[j] = "copy"
    BY <1>b DEF Working
  <2> QED
    BY <1>b, <2>1, <2>2, CopiersLeave
<1>1. ASSUME NEW k \in Copiers, NoSource(k) PROVE CopyInv'
  <2>1. \A j \in Copiers : j # k => pc'[j] = pc[j] /\ job'[j] = job[j]
    BY <1>1 DEF NoSource, EndCopies
  <2>2. ~Working(k) /\ ~Working(k)'
    BY <1>1 DEF NoSource, EndCopies, Working
  <2> QED
    BY <1>1, <1>b, <2>1, <2>2 DEF NoSource, buildVars
<1>2. ASSUME NEW k \in Copiers, Complete(k) PROVE CopyInv'
  <2>1. \A j \in Copiers : j # k => pc'[j] = pc[j] /\ job'[j] = job[j]
    BY <1>2 DEF Complete, EndCopies
  <2>2. ~Working(k)' /\ pc[k] = "next"
    BY <1>2 DEF Complete, EndCopies, Working
  <2>3. UNCHANGED <<kind, todo, held, cut, file, building>>
    BY <1>2 DEF Complete, buildVars
  <2>4. \A p \in Places : expect'[p] = expect[p] \/ expect'[p] = Mixed
    BY <1>2, <1>a, Apart DEF Complete, FileType
  <2>5. cut' = cut \cap {j \in Copiers : Working(j)'}
    BY <1>a, <2>1, <2>2, <2>3 DEF CopierType, Working
  <2> QED
    BY <2>1, <2>2, <2>3, <2>4, <2>5, CopiersLeave
\* Copies that stop.
<1>d. ASSUME NEW ks \in SUBSET Copiers, Stop(ks), UNCHANGED <<kind, file, building>>,
             \A j \in Copiers : j \notin ks => pc'[j] = pc[j] /\ job'[j] = job[j],
             \A j \in ks : ~Working(j)'
      PROVE  CopyInv'
  <2>1. \A j \in Copiers : j \notin ks => todo'[j] = todo[j] /\ held'[j] = held[j]
    BY <1>d DEF Stop
  <2>2. \A p \in Places : expect'[p] = expect[p] \/ expect'[p] = Mixed
    BY <1>d DEF Stop
  <2>3. cut' = cut \cap {j \in Copiers : Working(j)'}
    BY <1>a, <1>d DEF CopierType, Stop, Working
  <2>4. \A j \in Copiers : pc[j] = "copy" /\ pc'[j] # "copy" => expect'[To(j)] = Mixed
    BY <1>d, Apart DEF Stop, Into, Working
  <2> QED
    BY <1>d, <2>1, <2>2, <2>3, <2>4, CopiersLeave
<1>3. ASSUME NEW k \in Copiers, Fail(k) PROVE CopyInv'
  <2>1. \A j \in Copiers : j \notin {k} => pc'[j] = pc[j] /\ job'[j] = job[j]
    BY <1>3 DEF Fail, EndCopies
  <2>2. ~Working(k)'
    BY <1>3 DEF Fail, EndCopies, Working
  <2> QED
    BY <1>3, <1>d, <2>1, <2>2 DEF Fail, buildVars
<1>4. CASE DaemonDies
  <2>1. \A j \in Copiers : j \notin Handlers => pc'[j] = pc[j] /\ job'[j] = job[j]
    BY <1>4 DEF DaemonDies
  <2>2. \A j \in Handlers : ~Working(j)'
    BY <1>4, <1>c DEF DaemonDies, Working
  <2> QED
    BY <1>4, <1>c, <1>d, <2>1, <2>2 DEF DaemonDies, buildVars
<1>5. ASSUME NEW c \in Commands, NEW o \in {"push", "pull"}, Run(c, o) PROVE CopyInv'
  <2>1. ~Working(c)
    BY <1>5, <1>a DEF Run, ClientOK, Working
  <2> QED
    BY <1>5, <1>a, <1>b, <2>1 DEF Run, CopierType, Working, buildVars
<1>6. ASSUME NEW c \in Commands, NEW g \in Handlers, Send(c, g) PROVE CopyInv'
  BY <1>6, <1>a, <1>b, <1>c DEF Send, CopierType, Working, buildVars
<1>7. ASSUME NEW g \in Handlers, Answer(g) PROVE CopyInv'
  <2>1. client[g] \in Commands => pc[client[g]] = "idle"
    BY <1>a, StoreAssumption DEF ClientOK, CommandType
  <2>2. \A j \in Copiers : Working(j) \/ Working(j)' => j # g /\ j # client[g]
    BY <1>7, <1>a, <1>c, <2>1, StoreAssumption DEF Answer, CommandType, Copiers, CopierType, Working
  <2> QED
    BY <1>7, <1>a, <1>b, <2>2 DEF Answer, CopierType, buildVars
<1>8. ASSUME NEW c \in Commands, RunDirect(c) PROVE CopyInv'
  <2>1. FallBack(c) /\ pc[c] = "idle"
    BY <1>8, <1>a DEF RunDirect, ClientOK
  <2>2. ASSUME NEW j \in Copiers, Working(j) \/ Working(j)' PROVE pc'[j] = pc[j] /\ job'[j] = job[j]
    BY <2>1, <2>2 DEF FallBack, Working
  <2> QED
    BY <1>b, <2>1, <2>2 DEF FallBack, buildVars
<1>9. ASSUME NEW c \in Commands, Report(c) PROVE CopyInv'
  BY <1>9, <1>a, <1>b, <1>c DEF Report, CopierType, Working, buildVars
<1>10. CASE StartDaemon
  BY <1>10, <1>b DEF StartDaemon, copierVars, buildVars
<1>11. CASE UNCHANGED vars
  BY <1>11, <1>b DEF vars, copierVars, buildVars
<1> QED
  BY <1>1, <1>2, <1>3, <1>4, <1>5, <1>6, <1>7, <1>8, <1>9, <1>10, <1>11, BeginStep, OpenStep,
     FinishStep, FirecrackerStep DEF Next, Copier, Command

\* When the last of the copies into a place is about to succeed, and none of
\* them failed or read something else, the place holds the files of the source
\* exactly, for any number of commands and handlers.
THEOREM LastCopyIsExactHolds == Spec => []LastCopyIsExact
<1>1. CopyInv => LastCopyIsExact
  <2> SUFFICES ASSUME CopyInv, NEW k \in Copiers, pc[k] = "next", todo[k] = {}, Into(To(k)) = {k},
                      NEW f \in FileNames, Good(To(k), f)
               PROVE  file[To(k)][f] = expect[To(k)][f]
    BY DEF LastCopyIsExact, Good
  <2>1. Writers(To(k), f) = {}
    BY DEF Writers, Into, Working
  <2> QED
    BY <2>1 DEF CopyInv, PastOK, Past, Working
<1>2. StoreTypeInv /\ CopyInv /\ [Next]_vars => (StoreTypeInv /\ CopyInv)'
  BY StoreTypeStep, CopyStep
<1> QED
  BY <1>1, <1>2, StoreTypeInit, CopyInit, PTL DEF Spec
-----------------------------------------------------------------------------
\* Why a command ends.

One(b) == IF b THEN 1 ELSE 0
FilesLeft(c) == One("vm.mem" \in todo[c]) + One("vm.snap" \in todo[c])

\* Steps of its own that the command needs at most before it ends: two for a
\* file, which is opened and then copied.
CommandRank(c) ==
    CASE cmd[c] = "ended" -> 0
      [] cmd[c] = "dial" -> 9
      [] cmd[c] = "wait" -> 8
      [] cmd[c] = "direct" /\ pc[c] = "asked" -> 7
      [] cmd[c] = "direct" /\ pc[c] = "next" -> 2 + 2 * FilesLeft(c)
      [] cmd[c] = "direct" /\ pc[c] = "copy" -> 1 + 2 * FilesLeft(c)
      [] OTHER -> 1

\* A command that copies by itself is at a point of its copy, where it can
\* always go on.
AtWork == \A c \in Commands : cmd[c] = "direct" => pc[c] \in {"asked", "next", "copy", "answered"}

\* What a command does brings its end nearer, and nothing that the daemon or
\* another command does moves it away.
CommandsAdvance ==
    [][\A c \in Commands : /\ RunDirect(c) \/ Copier(c) \/ Report(c) => CommandRank(c)' < CommandRank(c)
                           /\ cmd[c] # "ended" => CommandRank(c)' <= CommandRank(c)]_vars

\* The ways of a command.
Goes(c, p, q) == cmd[c] = p /\ cmd'[c] = q
Asks(c) == (Goes(c, "dial", "wait") \/ Goes(c, "wait", "ended")) /\ pc'[c] = pc[c]
FallsBack(c) == cmd[c] \in {"dial", "wait"} /\ cmd'[c] = "direct" /\ pc'[c] = "asked"
Copies(c) ==
    /\ cmd[c] = "direct" /\ cmd'[c] = "direct"
    /\ \/ pc[c] = "asked" /\ pc'[c] = "next"
       \/ pc[c] \in {"asked", "next", "copy"} /\ pc'[c] = "answered"
       \/ pc[c] = "next" /\ pc'[c] = "copy" /\ todo'[c] = todo[c]
       \/ pc[c] = "copy" /\ pc'[c] = "next" /\ \E f \in todo[c] : todo'[c] = todo[c] \ {f}
Reports(c) == Goes(c, "direct", "ended") /\ pc[c] = "answered"
Moves(c) == Asks(c) \/ FallsBack(c) \/ Copies(c) \/ Reports(c)

Rests(c) == UNCHANGED <<cmd[c], pc[c], todo[c]>>
Starts(c) == Goes(c, "ended", "dial") /\ pc'[c] = pc[c]

LEMMA MovesLower ==
    ASSUME TypeOK, TypeOK', NEW c \in Commands, Moves(c)
    PROVE  CommandRank(c)' < CommandRank(c)
<1>1. todo[c] \subseteq FileNames /\ todo'[c] \subseteq FileNames
  BY DEF TypeOK, Copiers
<1>2. FilesLeft(c) \in 0 .. 2 /\ FilesLeft(c)' \in 0 .. 2
  BY DEF FilesLeft, One
<1>3. CASE Asks(c) \/ FallsBack(c) \/ Reports(c)
  BY <1>3 DEF Asks, FallsBack, Reports, Goes, CommandRank
<1>4. CASE Copies(c)
  <2>1. CASE pc[c] = "asked" /\ pc'[c] = "next"
    BY <1>2, <1>4, <2>1 DEF Copies, CommandRank
  <2>2. CASE pc[c] \in {"asked", "next", "copy"} /\ pc'[c] = "answered"
    <3>1. pc[c] = "copy" => FilesLeft(c) >= 1
      <4>1. pc[c] = "copy" => todo[c] # {}
        BY DEF TypeOK, Copiers
      <4> QED
        BY <1>1, <4>1 DEF FilesLeft, One, FileNames
    <3> QED
      BY <1>2, <1>4, <2>2, <3>1 DEF Copies, CommandRank
  <2>3. CASE pc[c] = "next" /\ pc'[c] = "copy" /\ todo'[c] = todo[c]
    <3>1. FilesLeft(c)' = FilesLeft(c)
      BY <2>3 DEF FilesLeft
    <3> QED
      BY <1>2, <1>4, <2>3, <3>1 DEF Copies, CommandRank
  <2>4. CASE pc[c] = "copy" /\ pc'[c] = "next" /\ \E f \in todo[c] : todo'[c] = todo[c] \ {f}
    <3>1. FilesLeft(c)' = FilesLeft(c) - 1
      BY <1>1, <2>4 DEF FilesLeft, One, FileNames
    <3> QED
      BY <1>2, <1>4, <2>4, <3>1 DEF Copies, CommandRank
  <2> QED
    BY <1>4, <2>1, <2>2, <2>3, <2>4 DEF Copies
<1> QED
  BY <1>3, <1>4 DEF Moves

\* What the command itself does is one of its moves.
LEMMA OwnMoves ==
    ASSUME StoreTypeInv, NEW c \in Commands, RunDirect(c) \/ Copier(c) \/ Fail(c) \/ Report(c)
    PROVE  Moves(c)
<1>a. /\ CommandType /\ CopierType /\ ClientOK /\ c \in Copiers
      /\ cmd[c] \in {"ended", "dial", "wait", "direct"}
  BY TypeParts DEF StoreTypeInv, CommandType, Copiers
<1>b. pc[c] # "idle" => cmd[c] = "direct"
  BY <1>a DEF ClientOK
<1>1. CASE RunDirect(c)
  <2>1. cmd'[c] = "direct" /\ pc'[c] = "asked"
    BY <1>1, <1>a DEF RunDirect, FallBack, CommandType, CopierType
  <2> QED
    BY <1>1, <2>1 DEF RunDirect, Moves, FallsBack
<1>2. CASE Begin(c) \/ Open(c)
  <2>1. /\ cmd' = cmd /\ \/ pc[c] = "asked" /\ pc'[c] = "next"
                         \/ pc[c] = "next" /\ pc'[c] = "copy" /\ todo' = todo
    BY <1>2, <1>a DEF Begin, Open, CopierType, commandVars
  <2> QED
    BY <1>b, <2>1 DEF Moves, Copies
<1>3. CASE NoSource(c) \/ Complete(c) \/ Fail(c)
  <2>1. cmd' = cmd /\ pc[c] \in {"asked", "next", "copy"} /\ EndCopies({c})
    BY <1>3 DEF NoSource, Complete, Fail, commandVars
  <2>2. pc'[c] = "answered"
    BY <2>1, <1>a DEF EndCopies
  <2> QED
    BY <1>b, <2>1, <2>2 DEF Moves, Copies
<1>4. CASE Finish(c)
  <2>1. pc[c] = "copy" /\ pc'[c] = "next" /\ cmd' = cmd /\ todo'[c] = todo[c] \ {Current(c)}
    BY <1>4, <1>a DEF Finish, CopierType, commandVars
  <2>2. Current(c) \in todo[c]
    BY <2>1, <1>a, CurrentFile DEF CopierType
  <2> QED
    BY <1>b, <2>1, <2>2 DEF Moves, Copies
<1>5. CASE Report(c)
  <2>1. pc[c] = "answered" /\ cmd'[c] = "ended"
    BY <1>5, <1>a DEF Report, CommandType
  <2> QED
    BY <1>b, <2>1 DEF Moves, Reports, Goes
<1> QED
  BY <1>1, <1>2, <1>3, <1>4, <1>5 DEF Copier

\* Whoever takes a step, a command moves, is started, or stays where it is.
LEMMA CommandWays ==
    ASSUME StoreTypeInv, [Next]_vars, NEW c \in Commands
    PROVE  Moves(c) \/ Starts(c) \/ Rests(c)
<1>a. /\ CommandType /\ CopierType /\ ClientOK /\ c \in Copiers /\ c \notin Handlers
      /\ Handlers \subseteq Copiers /\ c # Nobody
  BY TypeParts, StoreAssumption DEF StoreTypeInv, Copiers
<1>1. ASSUME NEW k \in Copiers, Copier(k) \/ Fail(k) PROVE Moves(c) \/ Rests(c)
  <2>1. CASE k = c
    BY <1>1, <2>1, OwnMoves
  <2>2. CASE k # c
    <3>1. cmd' = cmd
      BY <1>1 DEF Copier, Begin, NoSource, Open, Finish, Complete, Fail, commandVars
    <3>2. pc'[c] = pc[c]
      BY <1>1, <1>a, <2>2 DEF Copier, Begin, NoSource, Open, Finish, Complete, Fail, EndCopies, CopierType
    <3>3. todo'[c] = todo[c]
      BY <1>1, <1>a, <2>2 DEF Copier, Begin, NoSource, Open, Finish, Complete, Fail, Stop, CopierType
    <3> QED
      BY <3>1, <3>2, <3>3 DEF Rests
  <2> QED
    BY <2>1, <2>2
<1>2. ASSUME NEW d \in Commands, Command(d) PROVE Moves(c) \/ Starts(c) \/ Rests(c)
  <2>1. CASE RunDirect(d) \/ Report(d)
    <3>1. CASE d = c
      BY <2>1, <3>1, OwnMoves
    <3>2. CASE d # c
      BY <1>a, <2>1, <3>2 DEF RunDirect, FallBack, Report, CommandType, CopierType, Rests
    <3> QED
      BY <3>1, <3>2
  <2>2. ASSUME NEW o \in {"push", "pull"}, Run(d, o) PROVE Starts(c) \/ Rests(c)
    BY <1>a, <2>2 DEF Run, CommandType, CopierType, Starts, Rests, Goes
  <2>3. ASSUME NEW g \in Handlers, Send(d, g) PROVE Moves(c) \/ Rests(c)
    <3>1. pc'[c] = pc[c] /\ todo' = todo
      BY <1>a, <2>3 DEF Send, CopierType
    <3>2. cmd'[c] = cmd[c] \/ Goes(c, "dial", "wait")
      BY <1>a, <2>3 DEF Send, CommandType, Goes
    <3> QED
      BY <3>1, <3>2 DEF Moves, Asks, Rests
  <2> QED
    BY <1>2, <2>1, <2>2, <2>3 DEF Command
<1>3. ASSUME NEW g \in Handlers, Answer(g) PROVE Moves(c) \/ Rests(c)
  <2>1. pc'[c] = pc[c] /\ todo' = todo
    BY <1>a, <1>3 DEF Answer, CopierType
  <2>2. cmd'[c] = cmd[c] \/ Goes(c, "wait", "ended")
    BY <1>a, <1>3 DEF Answer, CommandType, ClientOK, Goes
  <2> QED
    BY <2>1, <2>2 DEF Moves, Asks, Rests
<1>4. CASE StartDaemon \/ Build \/ Built
  BY <1>4 DEF StartDaemon, Build, Built, commandVars, copierVars, Rests
<1>5. CASE DaemonDies
  <2>1. cmd' = cmd /\ pc'[c] = pc[c] /\ todo'[c] = todo[c]
    BY <1>5, <1>a DEF DaemonDies, Stop
  <2> QED
    BY <2>1 DEF Rests
<1>6. CASE UNCHANGED vars
  BY <1>6 DEF vars, commandVars, copierVars, Rests
<1> QED
  BY <1>1, <1>2, <1>3, <1>4, <1>5, <1>6 DEF Next

\* A command that was started can always go on by itself: it depends neither on
\* the daemon nor on other commands.
THEOREM CommandsAtWork == Spec => []AtWork
<1>1. Init => AtWork
  BY DEF Init, AtWork
<1>2. StoreTypeInv /\ AtWork /\ [Next]_vars => AtWork'
  <2> SUFFICES ASSUME StoreTypeInv, AtWork, [Next]_vars, NEW c \in Commands, cmd'[c] = "direct"
               PROVE  pc'[c] \in {"asked", "next", "copy", "answered"}
    BY DEF AtWork
  <2>1. Moves(c) \/ Starts(c) \/ Rests(c)
    BY CommandWays
  <2> QED
    BY <2>1 DEF AtWork, Moves, Asks, FallsBack, Copies, Reports, Starts, Rests, Goes
<1> QED
  BY <1>1, <1>2, StoreTypeHolds, PTL DEF Spec

\* A command comes nearer its end with everything it does, whatever the daemon
\* and other commands do meanwhile: with the fairness of a process that runs,
\* every command ends.
THEOREM CommandAdvances == Spec => CommandsAdvance
<1>1. StoreTypeInv /\ StoreTypeInv' /\ [Next]_vars =>
        [\A c \in Commands : /\ RunDirect(c) \/ Copier(c) \/ Report(c) => CommandRank(c)' < CommandRank(c)
                             /\ cmd[c] # "ended" => CommandRank(c)' <= CommandRank(c)]_vars
  <2> SUFFICES ASSUME StoreTypeInv, StoreTypeInv', [Next]_vars, NEW c \in Commands
               PROVE  /\ RunDirect(c) \/ Copier(c) \/ Report(c) => CommandRank(c)' < CommandRank(c)
                      /\ cmd[c] # "ended" => CommandRank(c)' <= CommandRank(c)
    OBVIOUS
  <2>a. TypeOK /\ TypeOK'
    BY DEF StoreTypeInv
  <2>1. RunDirect(c) \/ Copier(c) \/ Report(c) => CommandRank(c)' < CommandRank(c)
    BY <2>a, OwnMoves, MovesLower
  <2>2. CommandRank(c) \in Nat /\ CommandRank(c)' \in Nat
    BY DEF CommandRank, FilesLeft, One
  <2>3. Rests(c) => CommandRank(c)' = CommandRank(c)
    BY DEF Rests, CommandRank, FilesLeft
  <2>4. Moves(c) => CommandRank(c)' <= CommandRank(c)
    BY <2>a, <2>2, MovesLower
  <2>5. Starts(c) => cmd[c] = "ended"
    BY DEF Starts, Goes
  <2> QED
    BY <2>1, <2>2, <2>3, <2>4, <2>5, CommandWays
<1> QED
  BY <1>1, StoreTypeHolds, PTL DEF Spec, CommandsAdvance
=============================================================================
