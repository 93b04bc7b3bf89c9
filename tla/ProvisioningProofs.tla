------------------------- MODULE ProvisioningProofs -------------------------
(***************************************************************************)
(* Theorems about Provisioning.tla, for every set of requests, machines    *)
(* and instances and every number of commands.                             *)
(***************************************************************************)
EXTENDS Provisioning, TLAPS

\* The parts of TypeOK, each for the steps that need it.
CallOK == call \in [Requests -> Request]
ListenOK == listening \subseteq {r \in Requests : call[r].at # "free"}
WorkOK == work \in [Workers -> Work]
BusyOK == \A w \in Workers : work[w].at # "idle" => call[w[1]].at = "work"
FleetOK == known \in [Addresses -> Addresses] /\ disk \in [Addresses -> Addresses]
FileOK == copy \in [Requests -> [Addresses -> Addresses]] /\ mixed \subseteq Requests
EC2OK == launched \subseteq Instances
InstalledOK == installed \in [Machines -> SUBSET (1..Steps)]
ToldOK == told \in [Named -> Requests \cup {"ok", None}]

LEMMA Parts == TypeOK <=> /\ CallOK /\ ListenOK /\ WorkOK /\ BusyOK /\ FleetOK
                          /\ FileOK /\ EC2OK /\ InstalledOK /\ ToldOK
  BY DEF TypeOK, CallOK, ListenOK, WorkOK, BusyOK, FleetOK, FileOK, EC2OK, InstalledOK, ToldOK

LEMMA PartsNext == TypeOK' <=> /\ CallOK' /\ ListenOK' /\ WorkOK' /\ BusyOK' /\ FleetOK'
                               /\ FileOK' /\ EC2OK' /\ InstalledOK' /\ ToldOK'
  BY DEF TypeOK, CallOK, ListenOK, WorkOK, BusyOK, FleetOK, FileOK, EC2OK, InstalledOK, ToldOK

\* A goroutine belongs to a request and has a host of the configuration.
LEMMA WorkerIs == \A w \in Workers : w[1] \in Requests /\ w[2] \in DOMAIN Configured
  BY DEF Workers

\* The hosts that goroutines start with.
LEMMA IdleType == Idle \in Work /\ Idle.at = "idle"
  BY ProvisioningAssumption DEF Idle, Work, Addresses

LEMMA NewHostType == ASSUME NEW type \in Locals \cup {"ec2"}
                     PROVE  NewHost(type) \in Work
<1>2. NewEC2Host \in Work
  BY IdleType DEF NewEC2Host, Work
<1>3. ASSUME NEW h \in Locals PROVE NewLocalHost(h) \in Work
  BY IdleType, <1>3 DEF NewLocalHost, Work, Addresses, Machines
<1> QED
  BY <1>2, <1>3 DEF NewHost

LEMMA TypeInit == Init => TypeOK
<1> SUFFICES ASSUME Init PROVE TypeOK
  OBVIOUS
<1>1. CallOK
  BY DEF Init, CallOK, Free, Request
<1>2. WorkOK
  BY IdleType DEF Init, WorkOK
<1>3. BusyOK
  BY IdleType DEF Init, BusyOK
<1>4. FleetOK /\ FileOK
  BY DEF Init, FleetOK, FileOK, Nothing, NoCopies, Addresses
<1>5. EC2OK /\ InstalledOK /\ ToldOK /\ ListenOK
  BY DEF Init, EC2OK, InstalledOK, ToldOK, ListenOK
<1> QED
  BY <1>1, <1>2, <1>3, <1>4, <1>5, Parts

-----------------------------------------------------------------------------
\* What the beginning of a request changes.
LEMMA AskStep == ASSUME CallOK, ListenOK, NEW r \in Requests, NEW saves \in BOOLEAN, Ask(r, saves)
                 PROVE  /\ CallOK' /\ ListenOK'
                        /\ call[r].at = "free" /\ call'[r].at = "work" /\ ~call'[r].failed
                        /\ \A q \in Requests \ {r} : call'[q] = call[q]
<1>1. CallOK'
  BY DEF CallOK, Ask, Request
<1>2. /\ call[r].at = "free" /\ call'[r].at = "work" /\ ~call'[r].failed
      /\ \A q \in Requests \ {r} : call'[q] = call[q]
  BY DEF CallOK, Ask
<1>3. ListenOK'
  BY <1>2 DEF ListenOK, Ask
<1> QED
  BY <1>1, <1>2, <1>3

\* What the failure of a goroutine changes.
LEMMA FailsStep == ASSUME CallOK, ListenOK, WorkOK, BusyOK, NEW w \in Workers, Fails(w),
                          listening' = listening
                   PROVE  /\ CallOK' /\ ListenOK' /\ WorkOK' /\ BusyOK'
                          /\ \A q \in Requests : call'[q].at = call[q].at
                          /\ call'[w[1]].failed
                          /\ \A q \in Requests \ {w[1]} : call'[q] = call[q]
<1>0. w[1] \in Requests
  BY WorkerIs
<1>1. CallOK' /\ call'[w[1]].failed
  BY <1>0 DEF CallOK, Fails, Request
<1>2. \A q \in Requests : call'[q].at = call[q].at
  BY <1>0 DEF CallOK, Fails, Request
<1>3. \A q \in Requests \ {w[1]} : call'[q] = call[q]
  BY <1>0 DEF CallOK, Fails
<1>4. ListenOK'
  BY <1>2 DEF ListenOK
<1>5. WorkOK'
  BY IdleType DEF WorkOK, Fails
<1>6. BusyOK'
  BY <1>2, IdleType, WorkerIs DEF WorkOK, BusyOK, Fails
<1> QED
  BY <1>1, <1>2, <1>3, <1>4, <1>5, <1>6

\* A goroutine goes on, at another place of its own.
LEMMA WorkStep == ASSUME WorkOK, BusyOK, NEW w \in Workers, NEW new \in Work, work[w].at # "idle",
                         work' = [work EXCEPT ![w] = new], call' = call
                  PROVE  WorkOK' /\ BusyOK'
  BY DEF WorkOK, BusyOK

LEMMA LaunchedStep == ASSUME EC2OK, ToldOK, NEW w \in Workers, NEW m \in Instances, Launched(w, m)
                      PROVE  EC2OK' /\ ToldOK'
<1>1. w[1] \in Requests
  BY WorkerIs
<1> QED
  BY <1>1 DEF EC2OK, ToldOK, Launched

LEMMA TellStep == ASSUME ToldOK, ListenOK, NEW r \in Requests,
                         NEW answer \in {"ok", None}, Tell(r, answer)
                  PROVE  ToldOK' /\ listening' \subseteq listening
  BY DEF ToldOK, Tell

-----------------------------------------------------------------------------
\* A goroutine that runs Bootstrap is at one of its commands.
Counts == \A w \in Workers : At(w, "boot") => work[w].step >= 1

LEMMA TypeStep == TypeOK /\ Counts /\ [Next]_vars => TypeOK'
<1> SUFFICES ASSUME TypeOK, Counts, [Next]_vars PROVE TypeOK'
  OBVIOUS
<1>a. /\ CallOK /\ ListenOK /\ WorkOK /\ BusyOK /\ FleetOK
      /\ FileOK /\ EC2OK /\ InstalledOK /\ ToldOK
  BY Parts
\* A request that begins changes neither the state file nor a machine.
<1>b. ASSUME NEW r \in Requests, NEW saves \in BOOLEAN, Ask(r, saves)
      PROVE  CallOK' /\ ListenOK' /\ FileOK' /\ EC2OK' /\ InstalledOK'
  BY <1>a, <1>b, AskStep DEF Ask, EC2OK, InstalledOK, FileOK, fileVars
<1>c. ASSUME UNCHANGED told PROVE ToldOK'
  BY <1>a, <1>c DEF ToldOK
\* Only a goroutine that runs Bootstrap counts its commands, from 1.
<1>d. ASSUME NEW w \in Workers, At(w, "boot") PROVE work[w].step \in 1..Steps
  BY <1>a, <1>d DEF Counts, WorkOK, Work
<1>1. ASSUME NEW r \in Requests, HostAdd(r) PROVE TypeOK'
  <2>1. Ask(r, FALSE) /\ known' = known /\ disk' = disk /\ UNCHANGED told
    BY <1>1 DEF HostAdd, Ask, fileVars
  <2>2. PICK type \in Locals \cup {"ec2"} : work' = [work EXCEPT ![<<r, 1>>] = NewHost(type)]
    BY <1>1 DEF HostAdd
  <2>3. WorkOK'
    BY <1>a, <2>2, NewHostType DEF WorkOK
  <2>4. BusyOK'
    <3>1. call'[r].at = "work" /\ \A q \in Requests \ {r} : call'[q] = call[q]
      BY <1>a, <2>1, AskStep
    <3>2. ASSUME NEW w \in Workers, work'[w].at # "idle" PROVE call'[w[1]].at = "work"
      <4>1. CASE w = <<r, 1>>
        BY <4>1, <3>1
      <4>2. CASE w # <<r, 1>>
        BY <4>2, <3>1, <3>2, <2>2, <1>a, WorkerIs DEF BusyOK, WorkOK
      <4> QED
        BY <4>1, <4>2
    <3> QED
      BY <3>2 DEF BusyOK
  <2>5. FleetOK'
    BY <1>a, <2>1 DEF FleetOK
  <2> QED
    BY <1>b, <1>c, <2>1, <2>3, <2>4, <2>5, PartsNext
<1>2. ASSUME NEW r \in Requests, ClusterProvision(r) PROVE TypeOK'
  <2>1. Ask(r, TRUE) /\ known' = known /\ disk' = disk /\ UNCHANGED told
    BY <1>2 DEF ClusterProvision, Ask, fileVars
  <2>2. work' = [w \in Workers |-> IF w \in Of(r) THEN NewHost(Configured[w[2]]) ELSE work[w]]
    BY <1>2 DEF ClusterProvision
  <2>3. WorkOK'
    BY <1>a, <2>2, NewHostType, WorkerIs, ProvisioningAssumption DEF WorkOK
  <2>4. BusyOK'
    <3>1. call'[r].at = "work" /\ \A q \in Requests \ {r} : call'[q] = call[q]
      BY <1>a, <2>1, AskStep
    <3> QED
      BY <3>1, <2>2, <1>a, WorkerIs DEF BusyOK, Of
  <2>5. FleetOK'
    BY <1>a, <2>1 DEF FleetOK
  <2> QED
    BY <1>b, <1>c, <2>1, <2>3, <2>4, <2>5, PartsNext
<1>3. ASSUME NEW r \in Requests, HostRemove(r) PROVE TypeOK'
  <2>1. Ask(r, FALSE) /\ work' = work
    BY <1>3 DEF HostRemove
  <2>2. PICK a \in Addresses :
           /\ known' = [known EXCEPT ![a] = None]
           /\ told' = [m \in Named |-> IF m = known[a] THEN None ELSE told[m]]
    BY <1>3 DEF HostRemove
  <2>3. FleetOK'
    BY <1>a, <2>1, <2>2 DEF FleetOK, Addresses, Ask, fileVars
  <2>4. BusyOK'
    BY <1>a, <2>1, AskStep, WorkerIs DEF BusyOK
  <2>5. ToldOK'
    BY <1>a, <2>2 DEF ToldOK
  <2>6. WorkOK'
    BY <1>a, <2>1 DEF WorkOK
  <2> QED
    BY <1>b, <2>1, <2>3, <2>4, <2>5, <2>6, PartsNext
<1>4. ASSUME NEW r \in Requests, GiveUp(r) PROVE TypeOK'
  <2>1. ToldOK' /\ listening' \subseteq listening
    BY <1>4, <1>a, TellStep DEF GiveUp
  <2>2. CallOK' /\ WorkOK' /\ BusyOK' /\ FleetOK' /\ FileOK' /\ EC2OK' /\ InstalledOK'
    BY <1>4, <1>a DEF GiveUp, CallOK, WorkOK, BusyOK, FleetOK, FileOK, EC2OK, InstalledOK, fileVars
  <2>3. ListenOK'
    BY <1>4, <1>a, <2>1 DEF GiveUp, ListenOK
  <2> QED
    BY <2>1, <2>2, <2>3, PartsNext
\* The steps of a handler that saves.
<1>5. ASSUME NEW r \in Requests, NEW l \in {"save", "answer"}, NEW e \in BOOLEAN,
             call' = [call EXCEPT ![r].at = l, ![r].failed = e], call[r].at # "free",
             \A w \in Of(r) : work[w].at = "idle",
             UNCHANGED <<listening, work, known, launched, installed>>
      PROVE  FleetOK' /\ FileOK' /\ ToldOK' => TypeOK'
  <2>0. call[r] \in Request
    BY <1>a DEF CallOK
  <2>1. CallOK'
    <3>1. [call[r] EXCEPT !.at = l, !.failed = e] \in Request
      BY <1>5, <2>0 DEF Request
    <3> QED
      BY <1>5, <1>a, <3>1 DEF CallOK
  <2>3. \A q \in Requests : call'[q].at = IF q = r THEN l ELSE call[q].at
    <3>1. \A q \in Requests : q # r => call'[q] = call[q]
      BY <1>5, <1>a DEF CallOK
    <3>2. call'[r] = [call[r] EXCEPT !.at = l, !.failed = e]
      BY <1>5, <1>a DEF CallOK
    <3>3. call'[r].at = l
      BY <3>2, <2>0 DEF Request
    <3> QED
      BY <3>1, <3>3
  <2>4. BusyOK'
    BY <1>5, <1>a, <2>3, WorkerIs DEF BusyOK, Of
  <2>5. ListenOK'
    <3>1. listening' = listening /\ listening \subseteq {q \in Requests : call[q].at # "free"}
      BY <1>5, <1>a DEF ListenOK
    <3>2. \A q \in Requests : call[q].at # "free" => call'[q].at # "free"
      BY <2>3
    <3> QED
      BY <3>1, <3>2 DEF ListenOK
  <2>6. WorkOK' /\ EC2OK' /\ InstalledOK'
    BY <1>5, <1>a DEF WorkOK, EC2OK, InstalledOK
  <2> QED
    BY <2>1, <2>4, <2>5, <2>6, PartsNext
<1>e. ASSUME NEW r \in Requests, call[r].at = "save" PROVE \A w \in Of(r) : work[w].at = "idle"
  BY <1>a, <1>e DEF BusyOK, Of
<1>k. \A r \in Requests : call[r] \in Request
  BY <1>a DEF CallOK
<1>l. ASSUME NEW r \in Requests, NEW renamed \in BOOLEAN, Ends(r, renamed), known' = known
      PROVE  FleetOK' /\ FileOK'
  <2>1. CASE Saving # {r}
    BY <1>a, <1>l, <2>1 DEF Ends, fileVars, FleetOK, FileOK
  <2>2. CASE Saving = {r}
    <3>1. disk' \in Left \cup {copy[r], disk} /\ copy' = NoCopies /\ mixed' = {}
      BY <1>l, <2>2 DEF Ends, NoneSaving
    <3>2. Nothing \in [Addresses -> Addresses] /\ \A q \in Requests : copy[q] \in [Addresses -> Addresses]
      BY <1>a DEF FileOK, Nothing, Addresses
    <3>3. FileOK'
      BY <3>1, <3>2 DEF FileOK, NoCopies
    <3>4. disk' \in [Addresses -> Addresses]
      BY <1>a, <3>1, <3>2 DEF Left, FleetOK, FileOK
    <3> QED
      BY <1>a, <1>l, <3>3, <3>4 DEF FleetOK
  <2> QED
    BY <2>1, <2>2
<1>r. ASSUME NEW r \in Requests, Return(r) PROVE TypeOK'
  <2>1. FleetOK' /\ FileOK' /\ ToldOK'
    BY <1>a, <1>c, <1>r DEF Return, FleetOK, FileOK, fileVars
  <2>2. call' = [call EXCEPT ![r].at = "answer", ![r].failed = TRUE]
    BY <1>a, <1>r DEF Return, CallOK, Request
  <2> QED
    BY <1>5, <1>r, <2>1, <2>2 DEF Return, Done
<1>m. ASSUME NEW r \in Requests, Marshal(r) PROVE TypeOK'
  <2>1. FleetOK'
    BY <1>a, <1>m DEF Marshal, FleetOK
  <2>2. copy' \in [Requests -> [Addresses -> Addresses]]
    BY <1>a, <1>m DEF Marshal, FleetOK, FileOK
  <2>3. mixed' \subseteq Requests
    BY <1>a, <1>m DEF Marshal, FileOK, Overlap, Saving
  <2>4. ToldOK'
    BY <1>a, <1>m DEF Marshal, Overlap, ToldOK
  <2>5. call' = [call EXCEPT ![r].at = "save", ![r].failed = call[r].failed] /\ call[r].failed \in BOOLEAN
    BY <1>a, <1>m DEF Marshal, CallOK, Request
  <2> QED
    BY <1>5, <1>m, <2>1, <2>2, <2>3, <2>4, <2>5 DEF Marshal, Done, FileOK
<1>n. ASSUME NEW r \in Requests, SaveFails(r) PROVE TypeOK'
  BY <1>5, <1>n, <1>c, <1>e, <1>l DEF SaveFails
<1>o. ASSUME NEW r \in Requests, Rename(r) PROVE TypeOK'
  <2>1. call' = [call EXCEPT ![r].at = "answer", ![r].failed = call[r].failed] /\ call[r].failed \in BOOLEAN
    BY <1>a, <1>o DEF Rename, CallOK, Request
  <2> QED
    BY <1>5, <1>o, <1>c, <1>e, <1>l, <2>1 DEF Rename
<1>6. ASSUME NEW r \in Requests, Answer(r) PROVE TypeOK'
  <2>1. CallOK'
    BY <1>6, <1>a DEF Answer, CallOK, Free, Request
  <2>2. call[r].at = "answer" /\ \A q \in Requests \ {r} : call'[q] = call[q]
    BY <1>6, <1>a DEF Answer, CallOK
  <2>3. BusyOK'
    BY <1>6, <1>a, <2>2, WorkerIs DEF Answer, BusyOK
  <2>4. ListenOK' /\ ToldOK'
    <3>1. CASE r \in listening
      <4>1. PICK answer \in {"ok", None} : Tell(r, answer)
        BY <1>6, <3>1 DEF Answer
      <4>2. ListenOK'
        BY <4>1, <2>2, <1>a DEF Tell, ListenOK
      <4> QED
        BY <4>1, <4>2, <1>a, TellStep
    <3>2. CASE r \notin listening
      BY <1>6, <1>a, <3>2, <2>2 DEF Answer, ListenOK, ToldOK
    <3> QED
      BY <3>1, <3>2
  <2>5. WorkOK' /\ FleetOK' /\ FileOK' /\ EC2OK' /\ InstalledOK'
    BY <1>6, <1>a DEF Answer, WorkOK, FleetOK, FileOK, EC2OK, InstalledOK, fileVars
  <2> QED
    BY <2>1, <2>3, <2>4, <2>5, PartsNext
<1>7. ASSUME NEW w \in Workers, Worker(w) PROVE TypeOK'
  <2>f. ASSUME Fails(w), listening' = listening PROVE CallOK' /\ ListenOK' /\ WorkOK' /\ BusyOK'
    BY <1>a, <2>f, FailsStep
  <2>g. ASSUME UNCHANGED <<call, listening>> PROVE CallOK' /\ ListenOK'
    BY <1>a, <2>g DEF CallOK, ListenOK
  <2>r. ASSUME UNCHANGED <<known, fileVars>> PROVE FleetOK' /\ FileOK'
    BY <1>a, <2>r DEF FleetOK, FileOK, fileVars
  <2>s. ASSUME UNCHANGED <<launched, told>> PROVE EC2OK' /\ ToldOK'
    BY <1>a, <1>c, <2>s DEF EC2OK
  <2>t. ASSUME UNCHANGED installed PROVE InstalledOK'
    BY <1>a, <2>t DEF InstalledOK
  <2>e. ASSUME TakesEffect(w), At(w, "boot") PROVE InstalledOK'
    <3>1. work[w].step \in 0..Steps /\ work[w].addr \in Addresses
      BY <1>a DEF WorkOK, Work
    <3>2. CASE work[w].addr = None
      BY <2>e, <1>a, <3>2 DEF InstalledOK, TakesEffect
    <3>3. CASE work[w].addr \in Machines
      BY <2>e, <1>a, <1>d, <3>1, <3>3 DEF InstalledOK, TakesEffect
    <3> QED
      BY <3>1, <3>2, <3>3 DEF Addresses
  <2>1. ASSUME NEW m \in Instances, RunInstances(w, m) PROVE TypeOK'
    <3>1. [work[w] EXCEPT !.at = "wait", !.host = m] \in Work
      BY <1>a DEF WorkOK, Work, Addresses, Machines
    <3>2. WorkOK' /\ BusyOK'
      BY <2>1, <1>a, <3>1, WorkStep DEF RunInstances, At
    <3>3. EC2OK' /\ ToldOK'
      BY <2>1, <1>a, LaunchedStep DEF RunInstances
    <3> QED
      BY <2>1, <2>g, <2>r, <2>t, <3>2, <3>3, PartsNext DEF RunInstances
  <2>2. CASE RunInstancesFails(w)
    <3>1. EC2OK' /\ ToldOK'
      BY <2>2, <1>a, LaunchedStep, <2>s DEF RunInstancesFails
    <3> QED
      BY <2>2, <2>f, <2>r, <2>t, <3>1, PartsNext DEF RunInstancesFails
  <2>3. CASE Running(w)
    <3>1. [work[w] EXCEPT !.at = "dial", !.addr = IF work[w].host \in Unnamed THEN None
                                                  ELSE work[w].host] \in Work
      BY <1>a DEF WorkOK, Work, Addresses
    <3>2. WorkOK' /\ BusyOK'
      BY <2>3, <1>a, <3>1, WorkStep DEF Running, At
    <3> QED
      BY <2>3, <2>g, <2>r, <2>s, <2>t, <3>2, PartsNext DEF Running
  <2>4. CASE DescribeFails(w)
    BY <2>4, <2>f, <2>r, <2>s, <2>t, PartsNext DEF DescribeFails
  <2>5. CASE Dial(w)
    <3>1. [work[w] EXCEPT !.at = "handshake"] \in Work
      BY <1>a DEF WorkOK, Work
    <3>2. WorkOK' /\ BusyOK'
      BY <2>5, <1>a, <3>1, WorkStep DEF Dial, At
    <3> QED
      BY <2>5, <2>g, <2>r, <2>s, <2>t, <3>2, PartsNext DEF Dial
  <2>h. CASE Handshake(w)
    <3>0. 1 \in 0..Steps /\ work[w] \in Work
      BY <1>a, ProvisioningAssumption DEF WorkOK
    <3>1. [work[w] EXCEPT !.at = "boot", !.step = 1] \in Work
      BY <3>0 DEF Work
    <3>2. WorkOK' /\ BusyOK'
      BY <2>h, <1>a, <3>1, WorkStep DEF Handshake, At
    <3> QED
      BY <2>h, <2>g, <2>r, <2>s, <2>t, <3>2, PartsNext DEF Handshake
  <2>i. CASE HandshakeFails(w)
    BY <2>i, <2>f, <2>r, <2>s, <2>t, PartsNext DEF HandshakeFails
  <2>6. CASE DialFails(w)
    BY <2>6, <2>f, <2>r, <2>s, <2>t, PartsNext DEF DialFails
  <2>7. CASE Step(w)
    <3>0. (IF work[w].step = Steps THEN 0 ELSE work[w].step + 1) \in 0..Steps /\ work[w] \in Work
      BY <2>7, <1>a, <1>d, ProvisioningAssumption DEF WorkOK, Step
    <3>1. [work[w] EXCEPT !.at = IF work[w].step = Steps THEN "insert" ELSE "boot",
                          !.step = IF @ = Steps THEN 0 ELSE @ + 1] \in Work
      BY <3>0 DEF Work
    <3>2. WorkOK' /\ BusyOK'
      BY <2>7, <1>a, <3>1, WorkStep DEF Step, NextStep, At
    <3> QED
      BY <2>7, <2>g, <2>r, <2>s, <2>e, <3>2, PartsNext DEF Step
  <2>8. CASE StepFails(w)
    BY <2>8, <2>f, <2>r, <2>s, <2>t, <2>e, PartsNext DEF StepFails
  <2>9. CASE Insert(w)
    <3>1. WorkOK' /\ BusyOK'
      BY <2>9, <1>a, IdleType, WorkStep DEF Insert, At
    <3>2. FleetOK' /\ FileOK'
      BY <2>9, <1>a DEF Insert, FleetOK, FileOK, fileVars, WorkOK, Work
    <3> QED
      BY <2>9, <2>g, <2>s, <2>t, <3>1, <3>2, PartsNext DEF Insert
  <2> QED
    BY <1>7, <2>1, <2>2, <2>3, <2>4, <2>5, <2>6, <2>7, <2>8, <2>9, <2>h, <2>i DEF Worker
<1>8. CASE Restart
  <2>1. CallOK' /\ ListenOK'
    BY <1>8 DEF Restart, CallOK, ListenOK, Free, Request
  <2>2. WorkOK' /\ BusyOK'
    BY <1>8, IdleType DEF Restart, WorkOK, BusyOK
  <2>3. FleetOK' /\ FileOK'
    <3>1. Nothing \in [Addresses -> Addresses] /\ \A q \in Requests : copy[q] \in [Addresses -> Addresses]
      BY <1>a DEF FileOK, Nothing, Addresses
    <3>2. disk' \in Left \cup {disk} /\ known' = disk' /\ copy' = NoCopies /\ mixed' = {}
      BY <1>8 DEF Restart, NoneSaving
    <3>3. disk' \in [Addresses -> Addresses]
      BY <1>a, <3>1, <3>2 DEF Left, FleetOK, FileOK
    <3> QED
      BY <3>1, <3>2, <3>3 DEF FleetOK, FileOK, NoCopies
  <2>4. EC2OK' /\ InstalledOK' /\ ToldOK'
    BY <1>8, <1>a DEF Restart, EC2OK, InstalledOK, ToldOK
  <2> QED
    BY <2>1, <2>2, <2>3, <2>4, PartsNext
<1>9. CASE UNCHANGED vars
  BY <1>9 DEF vars, fileVars, TypeOK
<1> QED
  BY <1>1, <1>2, <1>3, <1>4, <1>r, <1>m, <1>n, <1>o, <1>6, <1>7, <1>8, <1>9 DEF Next, Handler

-----------------------------------------------------------------------------
\* What makes RecordedIsBootstrapped inductive: a goroutine that runs command n
\* on a machine has run those before it there, and one that is to insert the
\* host has run them all.  Commands are never undone, and nothing else inserts.
Progress == \A w \in Workers : work[w].addr \in Machines =>
                /\ At(w, "boot") => 1..(work[w].step - 1) \subseteq installed[work[w].addr]
                /\ At(w, "insert") => 1..Steps \subseteq installed[work[w].addr]

LEMMA Grows == ASSUME InstalledOK, [Next]_vars
               PROVE  \A m \in Machines : installed[m] \subseteq installed'[m]
<1>1. ASSUME NEW w \in Workers, TakesEffect(w) PROVE \A m \in Machines : installed[m] \subseteq installed'[m]
  BY <1>1 DEF TakesEffect, InstalledOK
<1>2. installed' = installed \/ \E w \in Workers : TakesEffect(w)
  <2>1. ASSUME NEW r \in Requests,
               HostAdd(r) \/ ClusterProvision(r) \/ HostRemove(r) \/ GiveUp(r) \/ Handler(r)
        PROVE  installed' = installed
    BY <2>1 DEF HostAdd, ClusterProvision, HostRemove, GiveUp, Handler, Return, Marshal, SaveFails,
           Rename, Answer, Ask
  <2>2. ASSUME NEW w \in Workers, Worker(w) PROVE installed' = installed \/ TakesEffect(w)
    BY <2>2 DEF Worker, RunInstances, RunInstancesFails, Running, DescribeFails, Dial, DialFails,
           Handshake,
                HandshakeFails, Step, StepFails, Insert
  <2> QED
    BY <2>1, <2>2 DEF Next, Restart, vars
<1> QED
  BY <1>1, <1>2

\* A goroutine that starts, stops or waits has run no command that it counts on.
LEMMA ElsewhereStep ==
    ASSUME WorkOK, Counts, Progress, NEW w \in Workers, NEW new, new.at \notin {"boot", "insert"},
           work' = [work EXCEPT ![w] = new],
           \A m \in Machines : installed[m] \subseteq installed'[m]
    PROVE  Counts' /\ Progress'
<1>1. \A v \in Workers : v # w => work'[v] = work[v]
  BY DEF WorkOK
<1>2. work'[w] = new
  BY DEF WorkOK
<1> QED
  BY <1>1, <1>2 DEF Counts, Progress, At

LEMMA NewHostAt == ASSUME NEW type PROVE NewHost(type).at \in {"launch", "dial"}
  BY DEF NewHost, NewEC2Host, NewLocalHost, Idle

LEMMA ProgressStep == TypeOK /\ Counts /\ Progress /\ [Next]_vars => Counts' /\ Progress'
<1> SUFFICES ASSUME TypeOK, Counts, Progress, [Next]_vars PROVE Counts' /\ Progress'
  OBVIOUS
<1>a. WorkOK /\ InstalledOK
  BY Parts
<1>b. \A m \in Machines : installed[m] \subseteq installed'[m]
  BY <1>a, Grows
<1>c. ASSUME work' = work PROVE Counts' /\ Progress'
  BY <1>b, <1>c DEF Counts, Progress, At
<1>d. ASSUME NEW w \in Workers, Fails(w) PROVE Counts' /\ Progress'
  BY <1>a, <1>b, <1>d, IdleType, ElsewhereStep DEF Fails
<1>1. ASSUME NEW r \in Requests, HostAdd(r) PROVE Counts' /\ Progress'
  <2>1. PICK type : work' = [work EXCEPT ![<<r, 1>>] = NewHost(type)]
    BY <1>1 DEF HostAdd
  <2>2. <<r, 1>> \in Workers
    BY ProvisioningAssumption DEF Workers
  <2> QED
    BY <1>a, <1>b, <2>1, <2>2, NewHostAt, ElsewhereStep
<1>2. ASSUME NEW r \in Requests, ClusterProvision(r) PROVE Counts' /\ Progress'
  <2>1. \A w \in Workers : work'[w] = work[w] \/ work'[w].at \in {"launch", "dial"}
    BY <1>2, NewHostAt DEF ClusterProvision
  <2> QED
    BY <1>b, <2>1 DEF Counts, Progress, At
<1>3. ASSUME NEW r \in Requests, HostRemove(r) \/ GiveUp(r) \/ Handler(r) PROVE Counts' /\ Progress'
  BY <1>3, <1>c DEF HostRemove, GiveUp, Handler, Return, Marshal, SaveFails, Rename, Answer
<1>4. ASSUME NEW w \in Workers, Worker(w) PROVE Counts' /\ Progress'
  <2>0. work[w] \in Work
    BY <1>a DEF WorkOK
  <2>1. ASSUME NEW m \in Instances, RunInstances(w, m) PROVE Counts' /\ Progress'
    <3>1. [work[w] EXCEPT !.at = "wait", !.host = m].at = "wait"
      BY <2>0 DEF Work
    <3>2. work' = [work EXCEPT ![w] = [work[w] EXCEPT !.at = "wait", !.host = m]]
      BY <2>1 DEF RunInstances
    <3> QED
      BY <1>a, <1>b, <3>1, <3>2, ElsewhereStep
  <2>2. CASE \/ RunInstancesFails(w) \/ DescribeFails(w) \/ DialFails(w) \/ HandshakeFails(w)
            \/ StepFails(w)
    BY <2>2, <1>d DEF RunInstancesFails, DescribeFails, DialFails, HandshakeFails, StepFails
  <2>3. CASE Running(w)
    <3> DEFINE addr == IF work[w].host \in Unnamed THEN None ELSE work[w].host
    <3>1. [work[w] EXCEPT !.at = "dial", !.addr = addr].at = "dial"
      BY <2>0 DEF Work
    <3>2. work' = [work EXCEPT ![w] = [work[w] EXCEPT !.at = "dial", !.addr = addr]]
      BY <2>3 DEF Running
    <3> QED
      BY <1>a, <1>b, <3>1, <3>2, ElsewhereStep
  <2>7. CASE Dial(w)
    <3>1. [work[w] EXCEPT !.at = "handshake"].at = "handshake"
      BY <2>0 DEF Work
    <3>2. work' = [work EXCEPT ![w] = [work[w] EXCEPT !.at = "handshake"]]
      BY <2>7 DEF Dial
    <3> QED
      BY <1>a, <1>b, <3>1, <3>2, ElsewhereStep
  <2>4. CASE Handshake(w)
    <3>1. \A v \in Workers : v # w => work'[v] = work[v]
      BY <2>4, <1>a DEF Handshake, WorkOK
    <3>2. work'[w].at = "boot" /\ work'[w].step = 1
      BY <2>4, <1>a DEF Handshake, WorkOK, Work
    <3>3. 1..0 = {}
      OBVIOUS
    <3> QED
      BY <1>b, <3>1, <3>2, <3>3 DEF Counts, Progress, At
  <2>5. CASE Step(w)
    <3>1. \A v \in Workers : v # w => work'[v] = work[v]
      BY <2>5, <1>a DEF Step, NextStep, WorkOK
    <3>2. /\ work'[w].addr = work[w].addr
          /\ work[w].step = Steps => work'[w].at = "insert"
          /\ work[w].step # Steps => work'[w].at = "boot" /\ work'[w].step = work[w].step + 1
      BY <2>5, <1>a DEF Step, NextStep, WorkOK, Work
    <3>3. work[w].step \in 1..Steps
      BY <2>5, <2>0 DEF Step, Counts, Work
    <3>4. ASSUME work[w].addr \in Machines PROVE 1..work[w].step \subseteq installed'[work[w].addr]
      <4>1. 1..(work[w].step - 1) \subseteq installed[work[w].addr]
        BY <2>5, <3>4 DEF Step, Progress
      <4>2. installed'[work[w].addr] = installed[work[w].addr] \cup {work[w].step}
        BY <2>5, <1>a, <3>4, ProvisioningAssumption DEF Step, TakesEffect, InstalledOK
      <4> QED
        BY <3>3, <4>1, <4>2
    <3>5. Counts'
      BY <3>1, <3>2, <3>3 DEF Counts, At
    <3>6. ASSUME NEW v \in Workers, work'[v].addr \in Machines
          PROVE  /\ work'[v].at = "boot" => 1..(work'[v].step - 1) \subseteq installed'[work'[v].addr]
                 /\ work'[v].at = "insert" => 1..Steps \subseteq installed'[work'[v].addr]
      <4>1. CASE v # w
        BY <4>1, <1>b, <3>1, <3>6 DEF Progress, At
      <4>2. CASE v = w /\ work[w].step = Steps
        BY <4>2, <3>2, <3>4, <3>6
      <4>3. CASE v = w /\ work[w].step # Steps
        <5>1. work'[w].step - 1 = work[w].step
          BY <4>3, <3>2, <3>3
        <5> QED
          BY <4>3, <3>2, <3>4, <3>6, <5>1
      <4> QED
        BY <4>1, <4>2, <4>3
    <3> QED
      BY <3>5, <3>6 DEF Progress, At
  <2>6. CASE Insert(w)
    BY <2>6, <1>a, <1>b, IdleType, ElsewhereStep DEF Insert
  <2> QED
    BY <1>4, <2>1, <2>2, <2>3, <2>4, <2>5, <2>6, <2>7 DEF Worker
<1>5. CASE Restart
  BY <1>5, IdleType DEF Restart, Counts, Progress, At
<1>6. CASE UNCHANGED vars
  BY <1>6, <1>c DEF vars
<1> QED
  BY <1>1, <1>2, <1>3, <1>4, <1>5, <1>6 DEF Next

\* What a save is about to write is not more.
CopiesAreBootstrapped == \A r \in Requests, a \in Machines : copy[r][a] # None => installed[a] = 1..Steps

LEMMA RecordedStep == /\ TypeOK /\ Counts /\ Progress /\ RecordedIsBootstrapped /\ CopiesAreBootstrapped
                      /\ [Next]_vars
                      => RecordedIsBootstrapped' /\ CopiesAreBootstrapped'
<1> SUFFICES ASSUME TypeOK, Counts, Progress, RecordedIsBootstrapped, CopiesAreBootstrapped, [Next]_vars,
                    NEW a \in Machines
             PROVE  /\ known'[a] # None => installed'[a] = 1..Steps
                    /\ disk'[a] # None => installed'[a] = 1..Steps
                    /\ \A q \in Requests : copy'[q][a] # None => installed'[a] = 1..Steps
  BY DEF RecordedIsBootstrapped, CopiesAreBootstrapped
<1> DEFINE Recorded == {known[a], disk[a], None} \cup {copy[q][a] : q \in Requests}
           Carried == /\ known'[a] \in Recorded /\ disk'[a] \in Recorded
                      /\ \A q \in Requests : copy'[q][a] \in Recorded
<1>a. WorkOK /\ FleetOK /\ FileOK /\ InstalledOK
  BY Parts
<1>b. installed'[a] \subseteq 1..Steps
  BY TypeStep, PartsNext DEF InstalledOK
<1>c. installed[a] = 1..Steps => installed'[a] = 1..Steps
  BY <1>a, <1>b, Grows
\* No step but Insert adds a host.
<1>d. ASSUME Carried
      PROVE  /\ known'[a] # None => installed'[a] = 1..Steps
             /\ disk'[a] # None => installed'[a] = 1..Steps
             /\ \A q \in Requests : copy'[q][a] # None => installed'[a] = 1..Steps
  BY <1>c, <1>d DEF RecordedIsBootstrapped, CopiesAreBootstrapped
<1>e. ASSUME known'[a] \in Recorded, UNCHANGED fileVars PROVE Carried
  BY <1>e DEF fileVars
<1>f. /\ \A q \in Requests : NoCopies[q][a] = None
      /\ Nothing[a] = None
      /\ \A d \in Left : d[a] \in Recorded
  BY <1>a DEF NoCopies, Nothing, Addresses, Left, FileOK
<1>1. ASSUME NEW r \in Requests, \/ HostAdd(r) \/ ClusterProvision(r) \/ GiveUp(r)
                                 \/ Return(r) \/ Answer(r)
      PROVE  Carried
  BY <1>1, <1>e DEF HostAdd, ClusterProvision, GiveUp, Return, Answer, Ask
<1>2. ASSUME NEW r \in Requests, HostRemove(r) PROVE Carried
  <2>1. \E b \in Addresses : known' = [known EXCEPT ![b] = None]
    BY <1>2 DEF HostRemove
  <2> QED
    BY <1>2, <1>a, <1>e, <2>1 DEF FleetOK, HostRemove, Ask, Addresses
<1>3. ASSUME NEW w \in Workers, Worker(w), ~Insert(w) PROVE Carried
  BY <1>3, <1>e DEF Worker, RunInstances, RunInstancesFails, Running, DescribeFails, Dial, DialFails,
              Handshake, HandshakeFails, Step, StepFails
<1>7. ASSUME NEW r \in Requests, Marshal(r) PROVE Carried
  BY <1>7, <1>a DEF Marshal, FileOK
<1>8. ASSUME NEW r \in Requests, NEW renamed \in BOOLEAN, Ends(r, renamed), known' = known PROVE Carried
  <2>1. CASE Saving # {r}
    BY <1>8, <1>e, <2>1 DEF Ends
  <2>2. CASE Saving = {r}
    <3>1. disk' \in Left \cup {copy[r], disk} /\ copy' = NoCopies
      BY <1>8, <2>2 DEF Ends, NoneSaving
    <3> QED
      BY <1>8, <1>f, <3>1
  <2> QED
    BY <2>1, <2>2
<1>9. ASSUME NEW r \in Requests, SaveFails(r) \/ Rename(r) PROVE Carried
  BY <1>9, <1>8 DEF SaveFails, Rename
<1>4. ASSUME NEW w \in Workers, Insert(w)
      PROVE  /\ known'[a] # None => installed'[a] = 1..Steps
             /\ disk'[a] # None => installed'[a] = 1..Steps
             /\ \A q \in Requests : copy'[q][a] # None => installed'[a] = 1..Steps
  <2>1. CASE work[w].addr = a
    <3>1. 1..Steps \subseteq installed[a]
      BY <1>4, <2>1 DEF Insert, Progress
    <3> QED
      BY <1>4, <1>b, <3>1 DEF Insert
  <2>2. CASE work[w].addr # a
    BY <1>4, <1>a, <1>d, <1>e, <2>2 DEF Insert, FleetOK, Addresses
  <2> QED
    BY <2>1, <2>2
<1>5. ASSUME Restart PROVE Carried
  <2>1. disk' \in Left \cup {disk} /\ known' = disk' /\ copy' = NoCopies
    BY <1>5 DEF Restart, NoneSaving
  <2> QED
    BY <1>f, <2>1
<1>6. ASSUME UNCHANGED vars PROVE Carried
  BY <1>6, <1>e DEF vars
<1> QED
  BY <1>1, <1>2, <1>3, <1>4, <1>5, <1>6, <1>7, <1>9, <1>d DEF Next, Handler

\* The invariant of the two theorems.
BootstrapInv == TypeOK /\ Counts /\ Progress /\ RecordedIsBootstrapped /\ CopiesAreBootstrapped

LEMMA BootstrapInit == Init => BootstrapInv
<1> SUFFICES ASSUME Init PROVE BootstrapInv
  OBVIOUS
<1>1. \A w \in Workers : work[w].at = "idle"
  BY IdleType DEF Init
<1>2. Counts /\ Progress
  BY <1>1 DEF Counts, Progress, At
<1>3. RecordedIsBootstrapped /\ CopiesAreBootstrapped
  BY DEF Init, Nothing, NoCopies, RecordedIsBootstrapped, CopiesAreBootstrapped, Addresses
<1> QED
  BY <1>2, <1>3, TypeInit DEF BootstrapInv

LEMMA BootstrapStep == BootstrapInv /\ [Next]_vars => BootstrapInv'
  BY TypeStep, ProgressStep, RecordedStep DEF BootstrapInv

LEMMA BootstrapHolds == Spec => []BootstrapInv
  BY BootstrapInit, BootstrapStep, PTL DEF Spec

\* Every reachable state is of the types that the handlers and goroutines work on.
THEOREM ProvisioningType == Spec => []TypeOK
  BY BootstrapHolds, PTL DEF BootstrapInv

\* A host that the cluster counts on, in memory or after a restart, has run
\* every command of Bootstrap, however requests, failures, timeouts, retries
\* and restarts interleave.
THEOREM RecordedIsBootstrappedHolds == Spec => []RecordedIsBootstrapped
  BY BootstrapHolds, PTL DEF BootstrapInv

-----------------------------------------------------------------------------
\* What makes NoSilentLeak inductive.

\* A machine with an address of its own is known by it, to the goroutine that
\* bootstraps it and to the cluster.
OwnHost == \A w \in Workers : work[w].at \in {"dial", "handshake", "boot", "insert"} /\ work[w].addr \in Machines
                                  => work[w].host = work[w].addr
OwnEntry == \A a \in Machines : /\ known[a] \in {None, a} /\ disk[a] \in {None, a}
                                /\ \A q \in Requests : copy[q][a] \in {None, a}

\* Saves that run at the same time are mixed, until all have ended.
SavesMix == /\ mixed = {} => \A q, r \in Saving : q = r
            /\ mixed # {} => Saving # {}

\* An instance that a command was told of is in memory too, and in what is
\* being saved: no save loses it.
Kept(m) == known[m] = m /\ mixed = {} /\ \A q \in Saving : copy[q][m] = m
ToldIsKept == \A m \in Named : told[m] = "ok" => Kept(m) /\ disk[m] = m

\* Goroutine w is on its way to insert m.
Carries(w, m) == /\ work[w].host = m
                 /\ \/ work[w].at = "wait"
                    \/ work[w].at \in {"dial", "handshake", "boot", "insert"} /\ work[w].addr = m

\* A request whose command was not told yet has an error to tell, or somebody
\* who will insert the instance, or it is inserted, and saved before the answer.
Owes(r, m) == /\ r \in listening
              /\ \/ call[r].failed
                 \/ call[r].at = "work" /\ (known[m] = m \/ \E w \in Of(r) : Carries(w, m))
                 \/ call[r].at = "save" /\ Kept(m)
                 \/ call[r].at = "answer" /\ Kept(m) /\ disk[m] = m
Owed == \A m \in Named : told[m] \in Requests => Owes(told[m], m)

\* A goroutine changes no other.
LEMMA WorkerFrame == ASSUME WorkOK, NEW w \in Workers, Worker(w)
                     PROVE  \A v \in Workers \ {w} : work'[v] = work[v]
  BY DEF WorkOK, Worker, RunInstances, RunInstancesFails, Running, DescribeFails, Dial, DialFails,
         Handshake,
                HandshakeFails, Step, NextStep, StepFails, Insert, Fails

\* Where a goroutine goes, which is never to another host.
LEMMA WorkerMoves == ASSUME WorkOK, NEW w \in Workers, Worker(w)
                     PROVE  \/ /\ Fails(w) /\ work'[w] = Idle
                            \/ /\ work[w].at = "launch" /\ work'[w].at = "wait"
                               /\ RunInstances(w, work'[w].host) /\ work'[w].host \in Instances
                            \/ /\ work[w].at = "wait" /\ work'[w].at = "dial"
                               /\ work'[w].host = work[w].host /\ Running(w)
                               /\ work'[w].addr = IF work[w].host \in Unnamed THEN None
                                                  ELSE work[w].host
                            \/ /\ work[w].at \in {"dial", "handshake", "boot"}
                               /\ work'[w].at \in {"handshake", "boot", "insert"}
                               /\ work'[w].host = work[w].host /\ work'[w].addr = work[w].addr
                               /\ Dial(w) \/ Handshake(w) \/ Step(w)
                            \/ work'[w] = Idle /\ Insert(w)
<1>0. work[w] \in Work
  BY DEF WorkOK
<1>1. CASE \/ RunInstancesFails(w) \/ DescribeFails(w) \/ DialFails(w) \/ HandshakeFails(w)
            \/ StepFails(w)
  BY <1>1 DEF RunInstancesFails, DescribeFails, DialFails, HandshakeFails, StepFails, Fails, WorkOK
<1>2. ASSUME NEW m \in Instances, RunInstances(w, m)
      PROVE  work[w].at = "launch" /\ work'[w].at = "wait" /\ work'[w].host = m
  BY <1>0, <1>2 DEF RunInstances, At, WorkOK, Work
<1>3. CASE Running(w)
  BY <1>0, <1>3 DEF Running, At, WorkOK, Work
<1>4. CASE Dial(w)
  BY <1>0, <1>4 DEF Dial, At, WorkOK, Work
<1>7. CASE Handshake(w)
  BY <1>0, <1>7 DEF Handshake, At, WorkOK, Work
<1>5. CASE Step(w)
  BY <1>0, <1>5 DEF Step, NextStep, At, WorkOK, Work
<1>6. CASE Insert(w)
  BY <1>6 DEF Insert, WorkOK
<1> QED
  BY <1>1, <1>2, <1>3, <1>4, <1>5, <1>6, <1>7 DEF Worker

LEMMA OwnStep == TypeOK /\ OwnHost /\ OwnEntry /\ [Next]_vars => OwnHost' /\ OwnEntry'
<1> SUFFICES ASSUME TypeOK, OwnHost, OwnEntry, [Next]_vars PROVE OwnHost' /\ OwnEntry'
  OBVIOUS
<1>a. WorkOK /\ FleetOK /\ FileOK
  BY Parts
<1>b. ASSUME UNCHANGED <<known, fileVars>> PROVE OwnEntry'
  BY <1>b DEF OwnEntry, fileVars
<1>d. ASSUME NEW a \in Machines
      PROVE  /\ \A q \in Requests : NoCopies[q][a] = None
             /\ Nothing[a] = None
             /\ \A d \in Left : d[a] \in {None, a}
  BY <1>a, <1>d DEF NoCopies, Nothing, Addresses, Left, FileOK, OwnEntry
<1>e. ASSUME NEW r \in Requests, NEW renamed \in BOOLEAN, Ends(r, renamed), known' = known PROVE OwnEntry'
  <2>1. CASE Saving # {r}
    BY <1>e, <1>b, <2>1 DEF Ends
  <2>2. CASE Saving = {r}
    <3>1. disk' \in Left \cup {copy[r], disk} /\ copy' = NoCopies
      BY <1>e, <2>2 DEF Ends, NoneSaving
    <3> QED
      BY <1>e, <1>d, <3>1 DEF OwnEntry
  <2> QED
    BY <2>1, <2>2
<1>c. ASSUME NEW type PROVE /\ NewHost(type).at \in {"launch", "dial"}
                            /\ NewHost(type).at = "dial" => NewHost(type).host = NewHost(type).addr
  BY DEF NewHost, NewEC2Host, NewLocalHost, Idle
<1>1. ASSUME NEW r \in Requests, HostAdd(r) PROVE OwnHost' /\ OwnEntry'
  <2>1. PICK type : work' = [work EXCEPT ![<<r, 1>>] = NewHost(type)]
    BY <1>1 DEF HostAdd
  <2>2. \A w \in Workers : work'[w] = work[w] \/ work'[w] = NewHost(type)
    BY <1>a, <2>1 DEF WorkOK
  <2> QED
    BY <1>1, <1>b, <1>c, <2>2 DEF OwnHost, HostAdd, Ask
<1>2. ASSUME NEW r \in Requests, ClusterProvision(r) PROVE OwnHost' /\ OwnEntry'
  <2>1. \A w \in Workers : work'[w] = work[w] \/ \E type : work'[w] = NewHost(type)
    BY <1>2 DEF ClusterProvision
  <2> QED
    BY <1>2, <1>b, <1>c, <2>1 DEF OwnHost, ClusterProvision, Ask
<1>3. ASSUME NEW r \in Requests, HostRemove(r) PROVE OwnHost' /\ OwnEntry'
  <2>1. PICK a : known' = [known EXCEPT ![a] = None]
    BY <1>3 DEF HostRemove
  <2>2. OwnEntry'
    BY <1>3, <1>a, <2>1 DEF HostRemove, Ask, OwnEntry, FleetOK, fileVars, Addresses
  <2> QED
    BY <1>3, <2>2 DEF HostRemove, OwnHost
<1>4. ASSUME NEW r \in Requests, GiveUp(r) \/ Handler(r) PROVE OwnHost' /\ OwnEntry'
  <2>1. OwnHost'
    BY <1>4 DEF GiveUp, Handler, Return, Marshal, SaveFails, Rename, Answer, OwnHost
  <2>2. CASE GiveUp(r) \/ Return(r) \/ Answer(r)
    BY <2>1, <2>2, <1>b DEF GiveUp, Return, Answer
  <2>3. CASE Marshal(r)
    BY <2>1, <2>3, <1>a DEF Marshal, OwnEntry, FileOK
  <2>4. CASE SaveFails(r) \/ Rename(r)
    BY <2>1, <2>4, <1>e DEF SaveFails, Rename
  <2> QED
    BY <1>4, <2>2, <2>3, <2>4 DEF Handler
<1>5. ASSUME NEW w \in Workers, Worker(w) PROVE OwnHost' /\ OwnEntry'
  <2>1. OwnHost'
    <3>1. \A v \in Workers \ {w} : work'[v] = work[v]
      BY <1>5, <1>a, WorkerFrame
    <3>2. work'[w].at \in {"dial", "handshake", "boot", "insert"} /\ work'[w].addr \in Machines
          => work'[w].host = work'[w].addr
      BY <1>5, <1>a, WorkerMoves, IdleType, ProvisioningAssumption DEF OwnHost
    <3> QED
      BY <3>1, <3>2 DEF OwnHost
  <2>2. CASE Insert(w)
    <3>1. work[w].addr \in Machines => work[w].host = work[w].addr
      BY <2>2 DEF Insert, At, OwnHost
    <3>2. OwnEntry'
      BY <2>2, <1>a, <3>1 DEF Insert, OwnEntry, FleetOK, fileVars, Addresses
    <3> QED
      BY <2>1, <3>2
  <2>3. CASE ~Insert(w)
    <3>1. UNCHANGED <<known, fileVars>>
      BY <1>5, <2>3 DEF Worker, RunInstances, RunInstancesFails, Running, DescribeFails, Dial,
             DialFails, Handshake, HandshakeFails, Step, StepFails
    <3> QED
      BY <2>1, <3>1, <1>b
  <2> QED
    BY <2>2, <2>3
<1>6. CASE Restart
  <2>1. disk' \in Left \cup {disk} /\ known' = disk' /\ copy' = NoCopies
    BY <1>6 DEF Restart, NoneSaving
  <2>2. OwnEntry'
    BY <1>d, <2>1 DEF OwnEntry
  <2> QED
    BY <1>6, <2>2, IdleType DEF Restart, OwnHost
<1>7. CASE UNCHANGED vars
  BY <1>7 DEF vars, fileVars, OwnHost, OwnEntry
<1> QED
  BY <1>1, <1>2, <1>3, <1>4, <1>5, <1>6, <1>7 DEF Next

LEMMA NamedIsMachine == /\ Named \subseteq Machines /\ None \notin Named
                        /\ None \notin Requests /\ "ok" \notin Requests /\ None # "ok"
  BY ProvisioningAssumption DEF Named, Machines

\* Only saves and a restart change the file and who saves.
LEMMA FileFrame == ASSUME CallOK, [Next]_vars, ~Restart,
                          \A r \in Requests : ~Marshal(r) /\ ~SaveFails(r) /\ ~Rename(r)
                   PROVE  UNCHANGED fileVars /\ Saving' = Saving
<1> SUFFICES UNCHANGED fileVars /\ \A q \in Requests : call'[q].at = "save" <=> call[q].at = "save"
  BY DEF Saving
<1>1. ASSUME NEW r \in Requests, HostAdd(r) \/ ClusterProvision(r) \/ HostRemove(r)
      PROVE  UNCHANGED fileVars /\ \A q \in Requests : call'[q].at = "save" <=> call[q].at = "save"
  BY <1>1 DEF HostAdd, ClusterProvision, HostRemove, Ask, CallOK
<1>2. ASSUME NEW r \in Requests, GiveUp(r) \/ Return(r) \/ Answer(r)
      PROVE  UNCHANGED fileVars /\ \A q \in Requests : call'[q].at = "save" <=> call[q].at = "save"
  BY <1>2 DEF GiveUp, Return, Done, Answer, CallOK, Free, Request
<1>3. ASSUME NEW w \in Workers, Worker(w)
      PROVE  UNCHANGED fileVars /\ \A q \in Requests : call'[q].at = "save" <=> call[q].at = "save"
  <2>1. UNCHANGED fileVars /\ (call' = call \/ Fails(w))
    BY <1>3 DEF Worker, RunInstances, RunInstancesFails, Running, DescribeFails, Dial, DialFails,
                Handshake, HandshakeFails, Step, StepFails, Insert
  <2> QED
    BY <2>1, WorkerIs DEF Fails, CallOK, Request
<1> QED
  BY <1>1, <1>2, <1>3 DEF Next, Handler, vars

\* Who saves next.
LEMMA SavingNext == ASSUME CallOK, NEW r \in Requests
                    PROVE  /\ Marshal(r) => Saving' = Saving \cup {r} /\ r \notin Saving
                           /\ SaveFails(r) \/ Rename(r) => Saving' = Saving \ {r} /\ r \in Saving
<1>1. ASSUME Marshal(r)
      PROVE  call[r].at = "work" /\ \A q \in Requests : call'[q].at = IF q = r THEN "save" ELSE call[q].at
  BY <1>1 DEF CallOK, Marshal, Done, Request
<1>2. ASSUME SaveFails(r) \/ Rename(r)
      PROVE  call[r].at = "save" /\ \A q \in Requests : call'[q].at = IF q = r THEN "answer" ELSE call[q].at
  <2>1. CASE SaveFails(r)
    BY <2>1 DEF CallOK, SaveFails, Request
  <2>2. CASE Rename(r)
    BY <2>2 DEF CallOK, Rename, Request
  <2> QED
    BY <1>2, <2>1, <2>2
<1>3. Marshal(r) => Saving' = Saving \cup {r} /\ r \notin Saving
  BY <1>1 DEF Saving
<1>4. SaveFails(r) \/ Rename(r) => Saving' = Saving \ {r} /\ r \in Saving
  BY <1>2 DEF Saving
<1> QED
  BY <1>3, <1>4

LEMMA MixStep == TypeOK /\ SavesMix /\ [Next]_vars => SavesMix'
<1> SUFFICES ASSUME TypeOK, SavesMix, [Next]_vars PROVE SavesMix'
  OBVIOUS
<1>a. CallOK
  BY Parts
<1>1. ASSUME NEW r \in Requests, Marshal(r) PROVE SavesMix'
  <2>1. Saving' = Saving \cup {r}
    BY <1>1, <1>a, SavingNext
  <2>2. IF Saving = {} THEN mixed' = mixed ELSE mixed' = mixed \cup Saving \cup {r}
    BY <1>1 DEF Marshal, Overlap
  <2> QED
    BY <2>1, <2>2 DEF SavesMix
<1>2. ASSUME NEW r \in Requests, SaveFails(r) \/ Rename(r) PROVE SavesMix'
  <2>1. Saving' = Saving \ {r} /\ r \in Saving
    BY <1>2, <1>a, SavingNext
  <2>2. IF Saving = {r} THEN mixed' = {} ELSE mixed' = mixed
    BY <1>2 DEF SaveFails, Rename, Ends, NoneSaving, fileVars
  <2> QED
    BY <2>1, <2>2 DEF SavesMix
<1>3. CASE Restart
  BY <1>3 DEF Restart, NoneSaving, SavesMix, Saving, Free
<1>4. ASSUME UNCHANGED fileVars, Saving' = Saving PROVE SavesMix'
  BY <1>4 DEF fileVars, SavesMix
<1> QED
  BY <1>1, <1>2, <1>3, <1>4, <1>a, FileFrame

\* What is inserted stays in memory, unless it is removed.
LEMMA KnownStays == ASSUME TypeOK, OwnHost, [Next]_vars, ~Restart, NEW m \in Named, known[m] = m,
                           told'[m] # None
                    PROVE  known'[m] = m
<1>a. FleetOK
  BY Parts
<1>1. ASSUME NEW r \in Requests, HostRemove(r) PROVE known'[m] = m
  <2>1. PICK a \in Addresses :
           /\ known' = [known EXCEPT ![a] = None]
           /\ told' = [n \in Named |-> IF n = known[a] THEN None ELSE told[n]]
    BY <1>1 DEF HostRemove
  <2>2. m # known[a]
    BY <2>1
  <2> QED
    BY <1>a, <2>1, <2>2, NamedIsMachine DEF FleetOK, Addresses
<1>2. ASSUME NEW w \in Workers, Worker(w) PROVE known'[m] = m
  <2>1. CASE Insert(w)
    BY <2>1, <1>a, NamedIsMachine DEF Insert, At, OwnHost, FleetOK, Addresses
  <2>2. CASE ~Insert(w)
    BY <1>2, <2>2 DEF Worker, RunInstances, RunInstancesFails, Running, DescribeFails, Dial, DialFails,
                Handshake, HandshakeFails, Step, StepFails
  <2> QED
    BY <2>1, <2>2
<1>3. ASSUME NEW r \in Requests, HostAdd(r) \/ ClusterProvision(r) \/ GiveUp(r) \/ Handler(r)
      PROVE  known' = known
  BY <1>3 DEF HostAdd, ClusterProvision, GiveUp, Handler, Return, Marshal, SaveFails, Rename, Answer
<1>4. UNCHANGED vars => known' = known
  BY DEF vars
<1> QED
  BY <1>1, <1>2, <1>3, <1>4 DEF Next

\* What is kept stays so, unless a save that overlaps another begins.
LEMMA KeptStays == ASSUME TypeOK, OwnHost, SavesMix, [Next]_vars, ~Restart, NEW m \in Named, Kept(m),
                          told'[m] # None, \A r \in Requests : Marshal(r) => Saving = {}
                   PROVE  /\ Kept(m)'
                          /\ disk[m] = m => disk'[m] = m
                          /\ \A r \in Requests : Rename(r) => disk'[m] = m
<1>a. CallOK /\ FileOK
  BY Parts
<1>b. known'[m] = m
  BY KnownStays DEF Kept
<1>c. mixed = {} /\ (\A q \in Saving : copy[q][m] = m) /\ known[m] = m
  BY DEF Kept
<1>1. ASSUME NEW r \in Requests, Marshal(r) PROVE Kept(m)' /\ disk' = disk
  <2>1. Saving' = {r} /\ mixed' = {} /\ copy' = [copy EXCEPT ![r] = known] /\ disk' = disk
    BY <1>1, <1>a, <1>c, SavingNext DEF Marshal
  <2>2. copy'[r][m] = m
    BY <2>1, <1>a, <1>c DEF FileOK
  <2> QED
    BY <1>b, <2>1, <2>2 DEF Kept
<1>2. ASSUME NEW r \in Requests, SaveFails(r) \/ Rename(r)
      PROVE  /\ Kept(m)'
             /\ disk[m] = m => disk'[m] = m
             /\ Rename(r) => disk'[m] = m
  <2>1. Saving = {r} /\ Saving' = {}
    BY <1>2, <1>a, <1>c, SavingNext DEF SavesMix
  <2>2. mixed' = {} /\ (IF Rename(r) THEN disk' = copy[r] ELSE disk' = disk)
    <3>1. CASE Rename(r)
      BY <3>1, <1>c, <2>1 DEF Rename, Ends, NoneSaving
    <3>2. CASE ~Rename(r)
      BY <3>2, <1>2, <1>c, <2>1 DEF SaveFails, Ends, NoneSaving
    <3> QED
      BY <3>1, <3>2
  <2> QED
    BY <1>b, <1>c, <2>1, <2>2 DEF Kept
<1>3. ASSUME UNCHANGED fileVars, Saving' = Saving PROVE Kept(m)' /\ disk' = disk
  BY <1>b, <1>3 DEF fileVars, Kept
<1>4. ASSUME NEW r \in Requests, Rename(r) PROVE disk'[m] = m
  BY <1>2, <1>4
<1> QED
  BY <1>1, <1>2, <1>3, <1>4, <1>a, FileFrame

\* After a save that overlaps another begins, commands that hear "ok" have to wait for theirs.
LEMMA OverlapStep == ASSUME TypeOK, NEW r \in Requests, Marshal(r), Saving # {}, NEW m \in Named
                     PROVE  /\ told'[m] # "ok"
                            /\ told'[m] \in Requests => /\ told[m] = told'[m] /\ told'[m] # r
                                                        /\ call[told[m]].at \notin {"save", "answer"}
<1>1. told'[m] = IF told[m] \in AtRisk(r) THEN None ELSE told[m]
  BY DEF Marshal, Overlap
<1> QED
  BY <1>1, NamedIsMachine DEF AtRisk

LEMMA KeptStep == /\ TypeOK /\ OwnHost /\ SavesMix /\ ToldIsKept /\ Owed /\ [Next]_vars
                  => ToldIsKept'
<1> SUFFICES ASSUME TypeOK, OwnHost, SavesMix, ToldIsKept, Owed, [Next]_vars, NEW m \in Named,
                    told'[m] = "ok"
             PROVE  Kept(m)' /\ disk'[m] = m
  BY DEF ToldIsKept
<1>a. told'[m] # None
  BY NamedIsMachine
<1>1. CASE Restart
  <2>1. told[m] = "ok"
    BY <1>1, NamedIsMachine DEF Restart
  <2>2. disk[m] = m /\ mixed = {}
    BY <2>1 DEF ToldIsKept, Kept
  <2>3. disk' = disk /\ known' = disk' /\ mixed' = {} /\ Saving' = {}
    BY <1>1, <2>2 DEF Restart, NoneSaving, Saving, Free
  <2> QED
    BY <2>2, <2>3 DEF Kept
<1>2. CASE ~Restart
  <2>1. \A r \in Requests : Marshal(r) => Saving = {}
    BY OverlapStep
  <2>2. Kept(m) /\ disk[m] = m
    <3>1. CASE told[m] = "ok"
      BY <3>1 DEF ToldIsKept
    <3>2. CASE told[m] # "ok"
      <4>1. PICK r \in Requests : Answer(r)
        <5>1. ASSUME NEW r \in Requests, HostAdd(r) \/ ClusterProvision(r) \/ HostRemove(r)
              PROVE  told'[m] \in {told[m], None}
          BY <5>1 DEF HostAdd, ClusterProvision, HostRemove
        <5>2. ASSUME NEW r \in Requests, GiveUp(r) \/ Return(r) \/ Marshal(r) \/ SaveFails(r) \/ Rename(r)
              PROVE  told'[m] \in {told[m], None}
          BY <5>2 DEF GiveUp, Tell, Return, Marshal, Overlap, SaveFails, Rename
        <5>3. ASSUME NEW w \in Workers, Worker(w) PROVE told'[m] \in {told[m], None} \cup Requests
          BY <5>3, WorkerIs DEF Worker, RunInstances, RunInstancesFails, Launched, Running,
                 DescribeFails,
                      Dial, DialFails, Handshake, HandshakeFails, Step, StepFails, Insert
        <5>4. told' = told \/ ~UNCHANGED vars
          BY DEF vars
        <5> QED
          BY <1>2, <1>a, <3>2, <5>1, <5>2, <5>3, <5>4, NamedIsMachine DEF Next, Handler
      <4>2. told[m] = r /\ ~call[r].failed /\ call[r].at = "answer"
        BY <4>1, <3>2, NamedIsMachine DEF Answer, Tell
      <4> QED
        BY <4>2 DEF Owed, Owes
    <3> QED
      BY <3>1, <3>2
  <2> QED
    BY <1>2, <1>a, <2>1, <2>2, KeptStays
<1> QED
  BY <1>1, <1>2

LEMMA OwedStep == TypeOK /\ OwnHost /\ SavesMix /\ Owed /\ [Next]_vars => Owed'
<1> SUFFICES ASSUME TypeOK, OwnHost, SavesMix, Owed, [Next]_vars, NEW m \in Named, NEW r \in Requests,
                    told'[m] = r
             PROVE  Owes(r, m)'
  BY DEF Owed
<1>a. CallOK /\ ListenOK /\ WorkOK /\ BusyOK /\ FleetOK /\ ToldOK /\ EC2OK
  BY Parts
<1>b. Of(r) \subseteq Workers /\ \A w \in Workers : w \in Of(r) <=> w[1] = r
  BY DEF Of
<1>d. told'[m] # None
  BY NamedIsMachine
<1>e. ~Restart
  BY NamedIsMachine DEF Restart
<1>k. known[m] = m => known'[m] = m
  BY <1>d, <1>e, KnownStays
\* Saves keep what is kept.
<1>s. ASSUME told[m] = r, Kept(m), call[r].at \in {"save", "answer"}
      PROVE  Kept(m)' /\ (disk[m] = m => disk'[m] = m) /\ \A q \in Requests : Rename(q) => disk'[m] = m
  <2>1. \A q \in Requests : Marshal(q) => Saving = {}
    BY <1>s, OverlapStep
  <2> QED
    BY <1>s, <1>d, <1>e, <2>1, KeptStays
\* The steps of others, and those that do not concern m.
<1>c. ASSUME told[m] = r, listening \ listening' \subseteq Requests \ {r}, call'[r] = call[r],
             \A w \in Of(r) : Carries(w, m) => Carries(w, m)' \/ known'[m] = m
      PROVE  Owes(r, m)'
  <2>1. Owes(r, m)
    BY <1>c DEF Owed
  <2>2. r \in listening'
    BY <1>c, <2>1 DEF Owes
  <2>3. CASE call[r].failed
    BY <1>c, <2>2, <2>3 DEF Owes
  <2>4. CASE call[r].at = "work" /\ (known[m] = m \/ \E w \in Of(r) : Carries(w, m))
    BY <1>c, <1>k, <2>2, <2>4 DEF Owes
  <2>5. CASE call[r].at = "save" /\ Kept(m)
    BY <1>c, <1>s, <2>2, <2>5 DEF Owes
  <2>6. CASE call[r].at = "answer" /\ Kept(m) /\ disk[m] = m
    BY <1>c, <1>s, <2>2, <2>6 DEF Owes
  <2> QED
    BY <2>1, <2>3, <2>4, <2>5, <2>6 DEF Owes
<1>1. ASSUME NEW q \in Requests, HostAdd(q) \/ ClusterProvision(q) PROVE Owes(r, m)'
  <2>1. told[m] = r /\ \E saves \in BOOLEAN : Ask(q, saves)
    BY <1>1 DEF HostAdd, ClusterProvision
  <2>2. Owes(r, m)
    BY <2>1 DEF Owed
  <2>3. r # q /\ call'[r] = call[r]
    BY <2>1, <2>2, <1>a, AskStep DEF Owes, ListenOK
  <2>4. \A w \in Of(r) : work'[w] = work[w]
    <3>1. ASSUME NEW w \in Of(r) PROVE w \in Workers /\ w[1] = r /\ w \notin Of(q) /\ w # <<q, 1>>
      <4>1. w \in Workers /\ w[1] = r /\ w \notin Of(q)
        BY <3>1, <2>3 DEF Of
      <4>2. <<q, 1>>[1] = q
        OBVIOUS
      <4> QED
        BY <4>1, <4>2, <2>3
    <3>2. CASE HostAdd(q)
      <4>1. PICK new : work' = [work EXCEPT ![<<q, 1>>] = new]
        BY <3>2 DEF HostAdd
      <4> QED
        BY <1>a, <3>1, <4>1 DEF WorkOK
    <3>3. CASE ClusterProvision(q)
      BY <3>1, <3>3 DEF ClusterProvision
    <3> QED
      BY <1>1, <3>2, <3>3
  <2>5. listening' = listening \cup {q}
    BY <1>1 DEF HostAdd, ClusterProvision, Ask
  <2> QED
    BY <1>c, <2>1, <2>3, <2>4, <2>5 DEF Carries
<1>2. ASSUME NEW q \in Requests, HostRemove(q) PROVE Owes(r, m)'
  <2>1. told[m] = r
    BY <1>2, NamedIsMachine DEF HostRemove
  <2>2. Owes(r, m)
    BY <2>1 DEF Owed
  <2>3. r # q /\ call'[r] = call[r]
    BY <1>2, <2>2, <1>a, AskStep DEF HostRemove, Owes, ListenOK
  <2>4. listening' = listening \cup {q} /\ work' = work
    BY <1>2 DEF HostRemove, Ask
  <2> QED
    BY <1>c, <2>1, <2>3, <2>4 DEF Carries
<1>3. ASSUME NEW q \in Requests, GiveUp(q) PROVE Owes(r, m)'
  <2>1. told[m] = r /\ r # q /\ listening' = listening \ {q}
    BY <1>3, NamedIsMachine DEF GiveUp, Tell
  <2> QED
    BY <1>3, <1>c, <2>1 DEF GiveUp, Carries
\* The steps of handlers: told is theirs, or not at risk.
<1>4. ASSUME NEW q \in Requests, Return(q) \/ Marshal(q) \/ SaveFails(q) \/ Rename(q)
      PROVE  Owes(r, m)'
  <2>1. told[m] = r
    BY <1>4, <1>d DEF Return, Marshal, Overlap, SaveFails, Rename
  <2>2. Owes(r, m) /\ UNCHANGED <<listening, work>>
    BY <1>4, <2>1 DEF Owed, Return, Marshal, SaveFails, Rename
  <2>3. CASE q # r
    <3>1. call'[r] = call[r]
      BY <1>4, <1>a, <2>3 DEF Return, Marshal, SaveFails, Rename, CallOK
    <3> QED
      BY <1>c, <2>1, <2>2, <3>1 DEF Carries
  <2>f. ASSUME call'[r].failed PROVE Owes(r, m)'
    BY <2>2, <2>f DEF Owes
  <2>4. CASE q = r /\ Return(q)
    <3>1. call'[r].failed
      BY <1>a, <2>4 DEF Return, CallOK, Request
    <3> QED
      BY <2>f, <3>1
  <2>5. CASE q = r /\ Marshal(q)
    <3>1. call[r].at = "work" /\ \A w \in Of(r) : work[w].at = "idle"
      BY <2>5 DEF Marshal, Done
    <3>2. call'[r].at = "save" /\ call'[r].failed = call[r].failed
      BY <1>a, <2>5 DEF Marshal, CallOK, Request
    <3>3. call[r].failed \/ known[m] = m
      BY <2>2, <3>1 DEF Owes, Carries
    <3>4. Saving = {}
      BY <2>5, OverlapStep
    <3>5. known[m] = m => Kept(m)'
      <4>1. mixed = {} /\ known' = known /\ mixed' = mixed
        BY <2>5, <3>4 DEF SavesMix, Marshal
      <4>2. Saving' = {r}
        BY <1>a, <2>5, <3>4, SavingNext
      <4>3. copy'[r] = known
        BY <2>5, Parts DEF Marshal, FileOK
      <4> QED
        BY <4>1, <4>2, <4>3 DEF Kept
    <3> QED
      BY <2>2, <2>f, <3>2, <3>3, <3>5 DEF Owes
  <2>6. CASE q = r /\ SaveFails(q)
    <3>1. call'[r].failed
      BY <1>a, <2>6 DEF SaveFails, CallOK, Request
    <3> QED
      BY <2>f, <3>1
  <2>7. CASE q = r /\ Rename(q)
    <3>1. call[r].at = "save" /\ call'[r].at = "answer" /\ call'[r].failed = call[r].failed
      BY <1>a, <2>7 DEF Rename, CallOK, Request
    <3>2. call[r].failed \/ Kept(m)
      BY <2>2, <3>1 DEF Owes
    <3>3. Kept(m) => Kept(m)' /\ disk'[m] = m
      BY <1>s, <2>1, <2>7, <3>1
    <3> QED
      BY <2>2, <2>f, <3>1, <3>2, <3>3 DEF Owes
  <2> QED
    BY <1>4, <2>3, <2>4, <2>5, <2>6, <2>7
<1>5. ASSUME NEW q \in Requests, Answer(q) PROVE Owes(r, m)'
  <2>1. told[m] = r /\ work' = work
    BY <1>5, <1>d, NamedIsMachine DEF Answer, Tell
  <2>2. Owes(r, m)
    BY <2>1 DEF Owed
  <2>3. r # q /\ r \in listening'
    BY <1>5, <2>1, <2>2, NamedIsMachine DEF Answer, Tell, Owes
  <2>4. call'[r] = call[r]
    BY <1>5, <1>a, <2>3 DEF Answer, CallOK
  <2>5. listening \ listening' \subseteq Requests \ {r}
    BY <1>a, <2>3 DEF ListenOK
  <2> QED
    BY <1>c, <2>1, <2>4, <2>5 DEF Carries
<1>6. ASSUME NEW w \in Workers, Worker(w) PROVE Owes(r, m)'
  <2>0. listening' = listening
    BY <1>6 DEF Worker, RunInstances, RunInstancesFails, Launched, Running, DescribeFails, Dial,
                DialFails, Handshake, HandshakeFails, Step, StepFails, Insert
  <2>2. \A v \in Workers \ {w} : work'[v] = work[v]
    BY <1>6, <1>a, WorkerFrame
  <2>3. \/ told[m] = r
        \/ w[1] = r /\ r \in listening /\ (RunInstances(w, m) \/ Fails(w))
    BY <1>6, <1>d, NamedIsMachine DEF Worker, RunInstances, RunInstancesFails, Launched, Running,
       DescribeFails, Dial, DialFails, Handshake, HandshakeFails, Step, StepFails, Insert
  <2>4. CASE Fails(w) /\ w[1] = r
    <3>1. call'[r].failed
      BY <1>a, <2>0, <2>4, FailsStep
    <3>2. r \in listening
      BY <2>3 DEF Owed, Owes
    <3> QED
      BY <2>0, <3>1, <3>2 DEF Owes
  <2>5. CASE Fails(w) /\ w[1] # r
    <3>1. call'[r] = call[r]
      BY <1>a, <2>0, <2>5, FailsStep
    <3>2. \A v \in Of(r) : work'[v] = work[v]
      BY <1>b, <2>2, <2>5
    <3> QED
      BY <1>c, <2>0, <2>3, <2>5, <3>1, <3>2 DEF Carries
  <2>6. CASE ~Fails(w)
    <3>0. call' = call
      BY <1>6, <2>6 DEF Worker, RunInstances, RunInstancesFails, Running, DescribeFails, Dial,
                        DialFails, Handshake, HandshakeFails, Step, StepFails, Insert
    <3>1. CASE told[m] # r
      <4>1. w[1] = r /\ r \in listening /\ work[w].at = "launch"
        BY <2>3, <2>6, <3>1 DEF RunInstances, At
      <4>2. Carries(w, m)'
        BY <1>a, <2>3, <2>6, <3>1 DEF RunInstances, At, Carries, WorkOK, Work
      <4>3. call'[r].at = "work"
        BY <1>a, <3>0, <4>1 DEF BusyOK
      <4>4. w \in Of(r)
        BY <1>b, <4>1
      <4> QED
        BY <2>0, <4>1, <4>2, <4>3, <4>4 DEF Owes, Of
    <3>2. CASE told[m] = r
      <4>1. Carries(w, m) => Carries(w, m)' \/ known'[m] = m
        <5> SUFFICES ASSUME Carries(w, m) PROVE Carries(w, m)' \/ known'[m] = m
          OBVIOUS
        <5>1. CASE Insert(w)
          BY <1>a, <5>1, NamedIsMachine DEF Insert, At, Carries, FleetOK, Addresses
        <5>2. CASE ~Insert(w)
          BY <1>6, <1>a, <2>6, <5>2, WorkerMoves DEF Carries, Named
        <5> QED
          BY <5>1, <5>2
      <4>2. \A v \in Of(r) : v # w => work'[v] = work[v]
        BY <1>b, <2>2
      <4> QED
        BY <1>b, <1>c, <2>0, <3>0, <3>2, <4>1, <4>2 DEF Carries
    <3> QED
      BY <3>1, <3>2
  <2> QED
    BY <2>4, <2>5, <2>6
<1>8. CASE UNCHANGED vars
  BY <1>8, <1>c DEF vars, Carries
<1> QED
  BY <1>1, <1>2, <1>3, <1>4, <1>5, <1>6, <1>8, <1>e DEF Next, Handler

\* The invariant of the theorem.
LeakInv == OwnHost /\ OwnEntry /\ SavesMix /\ ToldIsKept /\ Owed

LEMMA LeakInit == Init => LeakInv
<1> SUFFICES ASSUME Init PROVE LeakInv
  OBVIOUS
<1>1. OwnHost
  BY IdleType DEF Init, OwnHost
<1>2. OwnEntry
  BY DEF Init, OwnEntry, Nothing, NoCopies, Addresses
<1>3. ToldIsKept /\ Owed
  BY NamedIsMachine DEF Init, ToldIsKept, Owed
<1>4. SavesMix
  BY DEF Init, SavesMix, Saving, Free
<1> QED
  BY <1>1, <1>2, <1>3, <1>4 DEF LeakInv

LEMMA LeakStep == BootstrapInv /\ LeakInv /\ [Next]_vars => LeakInv'
  BY OwnStep, MixStep, KeptStep, OwedStep DEF BootstrapInv, LeakInv

\* An instance that a command was told of with "ok" is in the state file until
\* it is removed or two saves overlap, however requests, removals, commands that
\* give up, failed saves, failures and restarts interleave.
THEOREM NoSilentLeakHolds == Spec => []NoSilentLeak
<1>1. LeakInv => NoSilentLeak
  BY DEF LeakInv, ToldIsKept, NoSilentLeak
<1> QED
  BY <1>1, LeakInit, LeakStep, BootstrapHolds, PTL DEF Spec
-----------------------------------------------------------------------------
\* Why a request ends, unless a command never returns.

\* Steps left for a goroutine whose work is k, and for a request whose
\* goroutines are done.
StepsLeft(k) == CASE k.at = "launch" -> Steps + 5
                  [] k.at = "wait" -> Steps + 4
                  [] k.at = "dial" -> Steps + 3
                  [] k.at = "handshake" -> Steps + 2
                  [] k.at = "boot" -> Steps - k.step + 2
                  [] k.at = "insert" -> 1
                  [] OTHER -> 0
RequestRank(r) == CASE call[r].at = "work" -> 3
                    [] call[r].at = "save" -> 2
                    [] call[r].at = "answer" -> 1
                    [] OTHER -> 0

\* Each step of a goroutine, and each of the handler, brings the end of the
\* request nearer, and nothing that others do moves it away.
RequestsAdvance ==
    [][/\ \A w \in Workers : /\ Worker(w) => StepsLeft(work'[w]) < StepsLeft(work[w])
                             /\ call[w[1]].at # "free" => StepsLeft(work'[w]) <= StepsLeft(work[w])
       /\ \A r \in Requests : /\ Handler(r) => RequestRank(r)' < RequestRank(r)
                              /\ call[r].at # "free" => RequestRank(r)' <= RequestRank(r)]_vars

LEMMA StepsLeftType == ASSUME NEW k \in Work
                       PROVE  /\ StepsLeft(k) \in Nat
                              /\ StepsLeft(Idle) = 0
                              /\ k.at # "idle" => StepsLeft(k) >= 1
<1>1. Steps \in Nat /\ k.step \in 0..Steps
  BY ProvisioningAssumption DEF Work
<1>2. k.at \in {"idle", "launch", "wait", "dial", "handshake", "boot", "insert"}
  BY DEF Work
<1>3. StepsLeft(Idle) = 0
  BY DEF StepsLeft, Idle
<1>4. CASE k.at = "launch"
  BY <1>1, <1>3, <1>4 DEF StepsLeft
<1>5. CASE k.at = "wait"
  BY <1>1, <1>3, <1>5 DEF StepsLeft
<1>6. CASE k.at = "dial"
  BY <1>1, <1>3, <1>6 DEF StepsLeft
<1>7. CASE k.at = "boot"
  BY <1>1, <1>3, <1>7 DEF StepsLeft
<1>h. CASE k.at = "handshake"
  BY <1>1, <1>3, <1>h DEF StepsLeft
<1>8. CASE k.at = "insert"
  BY <1>1, <1>3, <1>8 DEF StepsLeft
<1>9. CASE k.at = "idle"
  BY <1>1, <1>3, <1>9 DEF StepsLeft
<1> QED
  BY <1>2, <1>4, <1>5, <1>6, <1>7, <1>8, <1>9, <1>h

LEMMA StepsFall == ASSUME TypeOK, Counts, NEW w \in Workers, Worker(w)
                   PROVE  StepsLeft(work'[w]) < StepsLeft(work[w])
<1>0. WorkOK /\ work[w] \in Work
  BY Parts DEF WorkOK
<1>1. work[w].at # "idle"
  BY DEF Worker, RunInstances, RunInstancesFails, Running, DescribeFails, Dial, DialFails, Handshake,
                HandshakeFails, Step, StepFails, Insert, At
<1>2. CASE work'[w] = Idle
  BY <1>0, <1>1, <1>2, StepsLeftType
<1>3. CASE work[w].at = "launch" /\ work'[w].at = "wait"
  BY <1>3, ProvisioningAssumption DEF StepsLeft
<1>4. CASE work[w].at = "wait" /\ work'[w].at = "dial"
  BY <1>4, ProvisioningAssumption DEF StepsLeft
<1>7. CASE Dial(w)
  <2>1. work[w].at = "dial" /\ work'[w].at = "handshake"
    BY <1>0, <1>7 DEF Dial, At, WorkOK, Work
  <2> QED
    BY <2>1, ProvisioningAssumption DEF StepsLeft
<1>5. CASE Handshake(w)
  <2>1. work[w].at = "handshake" /\ work'[w].at = "boot" /\ work'[w].step = 1
    BY <1>0, <1>5 DEF Handshake, At, WorkOK, Work
  <2> QED
    BY <2>1, ProvisioningAssumption DEF StepsLeft
<1>6. CASE Step(w)
  <2>1. work[w].at = "boot" /\ work[w].step \in 1..Steps
    BY <1>0, <1>6 DEF Step, At, Counts, Work
  <2>2. StepsLeft(work[w]) = Steps - work[w].step + 2
    BY <2>1 DEF StepsLeft
  <2>3. CASE work[w].step = Steps
    <3>1. work'[w].at = "insert"
      BY <1>0, <1>6, <2>3 DEF Step, NextStep, WorkOK, Work
    <3> QED
      BY <2>1, <2>2, <3>1, ProvisioningAssumption DEF StepsLeft
  <2>4. CASE work[w].step # Steps
    <3>1. work'[w].at = "boot" /\ work'[w].step = work[w].step + 1
      BY <1>0, <1>6, <2>4 DEF Step, NextStep, WorkOK, Work
    <3> QED
      BY <2>1, <2>2, <3>1, ProvisioningAssumption DEF StepsLeft
  <2> QED
    BY <2>3, <2>4
<1> QED
  BY <1>0, <1>2, <1>3, <1>4, <1>5, <1>6, <1>7, WorkerMoves

LEMMA OthersWait == ASSUME TypeOK, NEW r \in Requests,
                           HostAdd(r) \/ ClusterProvision(r), NEW v \in Workers, call[v[1]].at # "free"
                    PROVE  work'[v] = work[v]
<1>1. v # <<r, 1>> /\ v \notin Of(r)
  BY DEF HostAdd, ClusterProvision, Ask, Of
<1> QED
  BY <1>1, Parts DEF HostAdd, ClusterProvision, WorkOK

LEMMA GoroutinesAdvance ==
    ASSUME TypeOK, TypeOK', Counts, [Next]_vars, NEW w \in Workers, call[w[1]].at # "free"
    PROVE  StepsLeft(work'[w]) <= StepsLeft(work[w])
<1>0. WorkOK /\ StepsLeft(work[w]) \in Nat /\ StepsLeft(work'[w]) \in Nat
  BY Parts, PartsNext, StepsLeftType DEF WorkOK
<1>1. ASSUME work'[w] = work[w] PROVE StepsLeft(work'[w]) <= StepsLeft(work[w])
  BY <1>0, <1>1
<1>2. ASSUME NEW r \in Requests, HostAdd(r) \/ ClusterProvision(r) PROVE work'[w] = work[w]
  BY <1>2, OthersWait
<1>3. ASSUME NEW r \in Requests, HostRemove(r) \/ GiveUp(r) \/ Handler(r) PROVE work'[w] = work[w]
  BY <1>3 DEF HostRemove, GiveUp, Handler, Return, Marshal, SaveFails, Rename, Answer
<1>4. ASSUME NEW v \in Workers, Worker(v) PROVE StepsLeft(work'[w]) <= StepsLeft(work[w])
  <2>1. CASE v = w
    BY <1>0, <1>4, <2>1, StepsFall
  <2>2. CASE v # w
    BY <1>0, <1>1, <1>4, <2>2, WorkerFrame
  <2> QED
    BY <2>1, <2>2
<1>5. ASSUME Restart PROVE StepsLeft(work'[w]) <= StepsLeft(work[w])
  <2>1. work'[w] = Idle
    BY <1>5 DEF Restart
  <2>2. StepsLeft(work'[w]) = 0
    BY <1>0, <2>1, IdleType, StepsLeftType
  <2> QED
    BY <1>0, <2>2
<1> QED
  BY <1>1, <1>2, <1>3, <1>4, <1>5 DEF Next, vars

LEMMA HandlersAdvance ==
    ASSUME TypeOK, [Next]_vars, NEW r \in Requests
    PROVE  /\ Handler(r) => RequestRank(r)' < RequestRank(r)
           /\ call[r].at # "free" => RequestRank(r)' <= RequestRank(r)
<1>0. CallOK /\ call[r] \in Request
  BY Parts DEF CallOK
<1>1. ASSUME NEW q \in Requests, Return(q) \/ Marshal(q) \/ SaveFails(q) \/ Rename(q)
      PROVE  /\ RequestRank(q)' < RequestRank(q)
             /\ \A p \in Requests \ {q} : call'[p] = call[p]
  <2>1. \A p \in Requests \ {q} : call'[p] = call[p]
    BY <1>0, <1>1 DEF Return, Marshal, SaveFails, Rename, CallOK
  <2>2. \/ call[q].at = "work" /\ call'[q].at \in {"save", "answer"}
        \/ call[q].at = "save" /\ call'[q].at = "answer"
    BY <1>0, <1>1 DEF Return, Marshal, SaveFails, Rename, Done, CallOK, Request
  <2> QED
    BY <2>1, <2>2 DEF RequestRank
<1>2. ASSUME NEW q \in Requests, Answer(q)
      PROVE  call[q].at = "answer" /\ call'[q].at = "free" /\ \A p \in Requests \ {q} : call'[p] = call[p]
  BY <1>0, <1>2 DEF Answer, CallOK, Free
<1>3. ASSUME call'[r].at = call[r].at PROVE RequestRank(r)' = RequestRank(r) /\ RequestRank(r) \in 0 .. 3
  BY <1>3 DEF RequestRank
<1>4. Handler(r) => RequestRank(r)' < RequestRank(r)
  BY <1>1, <1>2 DEF Handler, RequestRank
<1>5. ASSUME call[r].at # "free"
      PROVE  \/ call'[r].at = call[r].at \/ call'[r].at = "free" \/ Handler(r)
  <2>1. ASSUME NEW q \in Requests, HostAdd(q) \/ ClusterProvision(q) \/ HostRemove(q)
        PROVE  call'[r].at = call[r].at
    BY <1>0, <1>5, <2>1 DEF HostAdd, ClusterProvision, HostRemove, Ask, CallOK
  <2>2. ASSUME NEW q \in Requests, GiveUp(q) PROVE call'[r].at = call[r].at
    BY <2>2 DEF GiveUp
  <2>3. ASSUME NEW q \in Requests, Handler(q), q # r PROVE call'[r].at = call[r].at
    BY <1>1, <1>2, <2>3 DEF Handler
  <2>4. ASSUME NEW w \in Workers, Worker(w) PROVE call'[r].at = call[r].at
    <3>1. call' = call \/ Fails(w)
      BY <2>4 DEF Worker, RunInstances, RunInstancesFails, Running, DescribeFails, Dial, DialFails,
             Handshake,
                HandshakeFails, Step, StepFails, Insert
    <3>2. w[1] \in Requests
      BY WorkerIs
    <3> QED
      BY <1>0, <3>1, <3>2 DEF Fails, CallOK, Request
  <2>5. Restart => call'[r].at = "free"
    BY DEF Restart, Free
  <2> QED
    BY <2>1, <2>2, <2>3, <2>4, <2>5 DEF Next, vars
<1>6. call'[r].at = "free" => RequestRank(r)' <= RequestRank(r)
  BY DEF RequestRank
<1>7. RequestRank(r) \in 0 .. 3 /\ RequestRank(r)' \in 0 .. 3
  BY DEF RequestRank
<1> QED
  BY <1>3, <1>4, <1>5, <1>6, <1>7

\* Requests to EC2 that return, limits of waiting that are kept and commands
\* that return bring a request to its end, whatever other requests, removals,
\* commands that give up and restarts do.
THEOREM RequestsComeToAnEnd == Spec => RequestsAdvance
<1>1. TypeOK /\ TypeOK' /\ Counts /\ [Next]_vars =>
        [/\ \A w \in Workers : /\ Worker(w) => StepsLeft(work'[w]) < StepsLeft(work[w])
                               /\ call[w[1]].at # "free" => StepsLeft(work'[w]) <= StepsLeft(work[w])
         /\ \A r \in Requests : /\ Handler(r) => RequestRank(r)' < RequestRank(r)
                                /\ call[r].at # "free" => RequestRank(r)' <= RequestRank(r)]_vars
  BY StepsFall, GoroutinesAdvance, HandlersAdvance
<1>2. BootstrapInv => TypeOK /\ Counts
  BY DEF BootstrapInv
<1> QED
  BY <1>1, <1>2, BootstrapHolds, PTL DEF Spec, RequestsAdvance
=============================================================================
