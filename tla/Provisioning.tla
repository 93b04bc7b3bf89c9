---------------------------- MODULE Provisioning ----------------------------
(***************************************************************************)
(* Adding hosts: "host add", "host remove" and "cluster provision" of the  *)
(* command line, the handlers HostAdd, HostRemove and ClusterProvision,    *)
(* EC2Host and LocalHost of pkg/host, Dial, WaitForSSH and Bootstrap of    *)
(* pkg/provision.  EC2 and the remote machines are external.  A command    *)
(* listens for 30 seconds; its request goes on.  A save marshals the state *)
(* and renames a file later; saves that overlap share the temporary file,  *)
(* of which ClusterState.tla has the bytes: here any of them may win, or   *)
(* none.                                                                   *)
(***************************************************************************)
EXTENDS Integers

CONSTANTS Requests,     \* connections of the management API
          Batches,      \* bound: those that may carry "cluster provision"
          Locals,       \* existing machines, by their addresses
          Instances,    \* bound: instances that EC2 has to give
          Unnamed,      \* those in a network without public names
          Configured,   \* the hosts of the configuration file: "ec2" or one of Locals
          Steps,        \* bound: commands of Bootstrap (six in the code)
          None

Machines == Locals \cup Instances
Named == Instances \ Unnamed
Addresses == Machines \cup {None}       \* None: the empty string

ASSUME ProvisioningAssumption ==
    /\ Locals \cap Instances = {} /\ Unnamed \subseteq Instances /\ Batches \subseteq Requests
    /\ None \notin Machines \cup Requests /\ "ok" \notin Requests \cup {None}
    /\ 1 \in DOMAIN Configured
    /\ \A i \in DOMAIN Configured : Configured[i] \in Locals \cup {"ec2"}
    /\ Steps \in Nat \ {0}

VARIABLES call,         \* call[r]: where request r is, whether it saves what it did
                        \* in spite of an error, and whether it has one
          listening,    \* requests whose command waits for the answer
          work,         \* work[w]: what goroutine w does, and on which host
          known,        \* known[a]: the machine that state.Hosts has under a, or None
          disk,         \* the same in the state file; Nothing if it cannot be parsed
          copy,         \* copy[r]: what a save of r has marshalled, while one is not finished
          mixed,        \* saves that have overlapped another, until all have ended
          launched,     \* instances that EC2 has launched
          installed     \* installed[m]: the commands that took effect on machine m

\* History, of the instances with a name.
VARIABLE told           \* told[m]: the request m was launched for, while its command listens;
                        \* "ok", once it was told so, until m is removed or a save that
                        \* overlaps another puts it at risk; None otherwise

fileVars == <<disk, copy, mixed>>
vars == <<call, listening, work, known, fileVars, launched, installed, told>>

\* ClusterProvision has a goroutine for each host; HostAdd is its own.
Workers == Requests \X DOMAIN Configured
Of(r) == {w \in Workers : w[1] = r}

Idle == [at |-> "idle", host |-> None, addr |-> None, step |-> 0]
NewEC2Host == [Idle EXCEPT !.at = "launch"]
NewLocalHost(h) == [Idle EXCEPT !.at = "dial", !.host = h, !.addr = h]
NewHost(type) == IF type = "ec2" THEN NewEC2Host ELSE NewLocalHost(type)

Request == [at : {"free", "work", "save", "answer"}, saves : BOOLEAN, failed : BOOLEAN]
Work == [at : {"idle", "launch", "wait", "dial", "handshake", "boot", "insert"},
         host : Addresses, addr : Addresses, step : 0..Steps]

TypeOK == /\ call \in [Requests -> Request]
          /\ listening \subseteq {r \in Requests : call[r].at # "free"}
          /\ work \in [Workers -> Work]
          /\ \A w \in Workers : work[w].at # "idle" => call[w[1]].at = "work"
          /\ known \in [Addresses -> Addresses] /\ disk \in [Addresses -> Addresses]
          /\ copy \in [Requests -> [Addresses -> Addresses]]
          /\ mixed \subseteq Requests
          /\ launched \subseteq Instances
          /\ installed \in [Machines -> SUBSET (1..Steps)]
          /\ told \in [Named -> Requests \cup {"ok", None}]

Nothing == [a \in Addresses |-> None]
NoCopies == [r \in Requests |-> Nothing]
Free == [at |-> "free", saves |-> FALSE, failed |-> FALSE]

Init == /\ call = [r \in Requests |-> Free] /\ listening = {}
        /\ work = [w \in Workers |-> Idle]
        /\ known = Nothing /\ disk = Nothing
        /\ copy = NoCopies /\ mixed = {}
        /\ launched = {}
        /\ installed = [m \in Machines |-> {}]
        /\ told = [m \in Named |-> None]

-----------------------------------------------------------------------------
\* Requests.

Ask(r, saves) == /\ call[r].at = "free"
                 /\ call' = [call EXCEPT ![r] = [at |-> "work", saves |-> saves, failed |-> FALSE]]
                 /\ listening' = listening \cup {r}
                 /\ UNCHANGED <<fileVars, launched, installed>>

HostAdd(r) == /\ Ask(r, FALSE)
              /\ \E type \in Locals \cup {"ec2"} : work' = [work EXCEPT ![<<r, 1>>] = NewHost(type)]
              /\ UNCHANGED <<known, told>>

\* The goroutines share the context of the daemon, and no other fate.
ClusterProvision(r) ==
    /\ r \in Batches /\ Ask(r, TRUE)
    /\ work' = [w \in Workers |-> IF w \in Of(r) THEN NewHost(Configured[w[2]]) ELSE work[w]]
    /\ UNCHANGED <<known, told>>

\* The entry is deleted; the instance is left alone.
HostRemove(r) == /\ Ask(r, FALSE)
                 /\ \E a \in {b \in Addresses : known[b] # None} :
                       /\ known' = [known EXCEPT ![a] = None]
                       /\ told' = [m \in Named |-> IF m = known[a] THEN None ELSE told[m]]
                 /\ UNCHANGED work

\* What the command of r is told is about the instances launched for it.
Tell(r, answer) ==
    /\ listening' = listening \ {r}
    /\ told' = [m \in Named |-> IF told[m] = r THEN answer ELSE told[m]]

\* The 30 seconds are over: "host add" reports an error; "cluster provision"
\* says that the daemon is unavailable, and exits with 0.
GiveUp(r) == /\ r \in listening
             /\ Tell(r, None)
             /\ UNCHANGED <<call, work, known, fileVars, launched, installed>>

\* The handler is done with its hosts.
Done(r) == call[r].at = "work" /\ \A w \in Of(r) : work[w].at = "idle"

\* After an error HostAdd does not save.
Return(r) == /\ Done(r) /\ call[r].failed /\ ~call[r].saves
             /\ call' = [call EXCEPT ![r].at = "answer"]
             /\ UNCHANGED <<listening, work, known, fileVars, launched, installed, told>>

Saving == {r \in Requests : call[r].at = "save"}

\* A save of r that overlaps another puts at risk what was saved before it.
AtRisk(r) == {"ok", r} \cup {q \in Requests : call[q].at \in {"save", "answer"}}

Overlap(r) == /\ mixed' = mixed \cup Saving \cup {r}
              /\ told' = [m \in Named |-> IF told[m] \in AtRisk(r) THEN None ELSE told[m]]

BadMarshal(r) == /\ call[r].at = "work"
                 /\ call' = [call EXCEPT ![r].at = "save"]
                 /\ copy' = [copy EXCEPT ![r] = known]
                 /\ IF Saving = {} THEN UNCHANGED <<mixed, told>> ELSE Overlap(r)
                 /\ UNCHANGED <<listening, work, known, disk, launched, installed>>

\* SaveState, when the goroutines are done; ClusterProvision comes to it after
\* an error too.  It marshals what is in memory ...
Marshal(r) == /\ Done(r) /\ (call[r].failed => call[r].saves)
              /\ call' = [call EXCEPT ![r].at = "save"]
              /\ copy' = [copy EXCEPT ![r] = known]
              /\ IF Saving = {} THEN UNCHANGED <<mixed, told>> ELSE Overlap(r)
              /\ UNCHANGED <<listening, work, known, disk, launched, installed>>

\* ... and renames the temporary file.  Saves that overlap write into the same
\* one, even after its renaming: what they leave behind, when the last of them
\* has ended, is the copy of one of them, or nothing that can be parsed.
Left == {disk, Nothing} \cup {copy[q] : q \in mixed}
NoneSaving == copy' = NoCopies /\ mixed' = {}

Ends(r, renamed) ==
    IF Saving # {r} THEN UNCHANGED fileVars
    ELSE /\ disk' \in (IF mixed # {} THEN Left ELSE IF renamed THEN {copy[r]} ELSE {disk})
         /\ NoneSaving

BadSaveFails(r) == /\ call[r].at = "save" /\ Ends(r, FALSE)
                   /\ call' = [call EXCEPT ![r].at = "answer"]
                   /\ UNCHANGED <<listening, work, known, launched, installed, told>>

SaveFails(r) == /\ call[r].at = "save" /\ Ends(r, FALSE)
                /\ call' = [call EXCEPT ![r].at = "answer", ![r].failed = TRUE]
                /\ UNCHANGED <<listening, work, known, launched, installed, told>>

Rename(r) == /\ call[r].at = "save" /\ Ends(r, TRUE)
             /\ call' = [call EXCEPT ![r].at = "answer"]
             /\ UNCHANGED <<listening, work, known, launched, installed, told>>

Answer(r) == /\ call[r].at = "answer"
             /\ call' = [call EXCEPT ![r] = Free]
             /\ IF r \in listening THEN Tell(r, IF call[r].failed THEN None ELSE "ok")
                ELSE UNCHANGED <<listening, told>>
             /\ UNCHANGED <<work, known, fileVars, launched, installed>>

-----------------------------------------------------------------------------
\* Provision of an instance.

At(w, l) == work[w].at = l

Fails(w) == /\ work' = [work EXCEPT ![w] = Idle]
            /\ call' = [call EXCEPT ![w[1]].failed = TRUE]

\* RunInstances launches m for w; a command that has given up knows no better.
Launched(w, m) ==
    /\ m \notin launched /\ launched' = launched \cup {m}
    /\ told' = [n \in Named |-> IF n = m /\ w[1] \in listening THEN w[1] ELSE told[n]]

RunInstances(w, m) == /\ At(w, "launch") /\ Launched(w, m)
                      /\ work' = [work EXCEPT ![w].at = "wait", ![w].host = m]
                      /\ UNCHANGED <<call, listening, known, fileVars, installed>>

\* The request is refused, or its answer is lost with an instance launched.
RunInstancesFails(w) == /\ At(w, "launch") /\ Fails(w)
                        /\ \/ \E m \in Instances : Launched(w, m)
                           \/ UNCHANGED <<launched, told>>
                        /\ UNCHANGED <<listening, known, fileVars, installed>>

\* waitUntilRunning, which asks every ten seconds, then the public name.
Running(w) ==
    /\ At(w, "wait")
    /\ work' = [work EXCEPT ![w].at = "dial",
                            ![w].addr = IF work[w].host \in Unnamed THEN None ELSE work[w].host]
    /\ UNCHANGED <<call, listening, known, fileVars, launched, installed, told>>

\* A request to EC2 fails, or ten minutes are over.
DescribeFails(w) == /\ At(w, "wait") /\ Fails(w)
                    /\ UNCHANGED <<listening, known, fileVars, launched, installed, told>>

-----------------------------------------------------------------------------
\* Dial, WaitForSSH and Bootstrap.

\* The machine accepts the connection.  (Attempts of WaitForSSH that fail and
\* are repeated are no steps.)
Dial(w) == /\ At(w, "dial")
           /\ work' = [work EXCEPT ![w].at = "handshake"]
           /\ UNCHANGED <<call, listening, known, fileVars, launched, installed, told>>

BadDialFails(w) == /\ At(w, "dial") /\ work[w].host \in Locals /\ Fails(w)
                   /\ UNCHANGED <<listening, known, fileVars, launched, installed, told>>

\* No connection in 15 seconds to a machine; to an instance, none in the last
\* attempt of five minutes.
DialFails(w) == /\ At(w, "dial") /\ Fails(w)
                /\ UNCHANGED <<listening, known, fileVars, launched, installed, told>>

\* The SSH handshake, without a limit of time.
Handshake(w) == /\ At(w, "handshake")
                /\ work' = [work EXCEPT ![w].at = "boot", ![w].step = 1]
                /\ UNCHANGED <<call, listening, known, fileVars, launched, installed, told>>

\* It fails, in the last attempt.
HandshakeFails(w) == /\ At(w, "handshake") /\ Fails(w)
                     /\ UNCHANGED <<listening, known, fileVars, launched, installed, told>>

\* The empty host name and port 22 are the machine of the daemon.
TakesEffect(w) ==
    LET m == work[w].addr IN
    installed' = IF m = None THEN installed ELSE [installed EXCEPT ![m] = @ \cup {work[w].step}]

NextStep(w) == work' = [work EXCEPT ![w].at = IF work[w].step = Steps THEN "insert" ELSE "boot",
                                    ![w].step = IF @ = Steps THEN 0 ELSE @ + 1]

Step(w) == /\ At(w, "boot")
           /\ TakesEffect(w) /\ NextStep(w)
           /\ UNCHANGED <<call, listening, known, fileVars, launched, told>>

BadStepFails(w) == /\ At(w, "boot") /\ NextStep(w)
                   /\ UNCHANGED <<call, listening, known, fileVars, launched, installed, told>>

\* The command or the connection fails, or the context is done.
StepFails(w) == /\ At(w, "boot") /\ Fails(w)
                /\ UNCHANGED installed \/ TakesEffect(w)
                /\ UNCHANGED <<listening, known, fileVars, launched, told>>

\* The new entry, in the place of what had its address before.
Insert(w) == /\ At(w, "insert")
             /\ known' = [known EXCEPT ![work[w].addr] = work[w].host]
             /\ work' = [work EXCEPT ![w] = Idle]
             /\ UNCHANGED <<call, listening, fileVars, launched, installed, told>>

-----------------------------------------------------------------------------
\* The process ends, for any reason, and is started again: commands lose their
\* connections, and what was not saved is forgotten.
Restart == /\ call' = [r \in Requests |-> Free] /\ listening' = {}
           /\ told' = [m \in Named |-> IF told[m] \in Requests THEN None ELSE told[m]]
           /\ work' = [w \in Workers |-> Idle]
           /\ disk' \in IF mixed = {} THEN {disk} ELSE Left
           /\ known' = disk' /\ NoneSaving
           /\ UNCHANGED <<launched, installed>>

Worker(w) == \/ \E m \in Instances : RunInstances(w, m)
             \/ RunInstancesFails(w)
             \/ Running(w) \/ DescribeFails(w)
             \/ Dial(w) \/ DialFails(w) \/ Handshake(w) \/ HandshakeFails(w)
             \/ Step(w) \/ StepFails(w) \/ Insert(w)

Handler(r) == Return(r) \/ Marshal(r) \/ SaveFails(r) \/ Rename(r) \/ Answer(r)

Next == \/ \E r \in Requests : \/ HostAdd(r) \/ ClusterProvision(r) \/ HostRemove(r)
                               \/ GiveUp(r) \/ Handler(r)
        \/ \E w \in Workers : Worker(w)
        \/ Restart

Spec == Init /\ [][Next]_vars

\* Goroutines run, their timers too, and requests to EC2 return.  Nothing is
\* owed by EC2, which may leave an instance pending, by machines, or by the
\* handshake and Run, which have no time limit.
GoesOn(w) == RunInstancesFails(w) \/ DescribeFails(w) \/ DialFails(w) \/ Insert(w)

Fairness == /\ \A w \in Workers : WF_vars(GoesOn(w))
            /\ \A r \in Requests : WF_vars(Handler(r))

FairSpec == Spec /\ Fairness

-----------------------------------------------------------------------------
\* Properties.

\* A host that the cluster counts on, in memory or after a restart, has run
\* every command of Bootstrap, whatever failed, timed out, was retried or ran
\* at the same time.  (Without a public name, another machine has.)
RecordedIsBootstrapped ==
    \A a \in Machines : /\ known[a] # None => installed[a] = 1..Steps
                        /\ disk[a] # None => installed[a] = 1..Steps

\* No instance is paid for without a trace, whatever fails and however requests
\* overlap, as long as its save and later ones do not: it is in the state file,
\* or it was removed, or the command that had it launched hears of an error (or
\* that the daemon is unavailable), or will hear.
\* (Instances without a public name take the place of each other.)
NoSilentLeak == \A m \in Named : told[m] = "ok" => disk[m] = m

\* A request that provisions hosts ends, though instances never start and
\* machines never accept a connection, unless a machine that has accepted one
\* never completes the handshake or a command.
HandlerReturns == \A r \in Requests : \/ []<>(call[r].at = "free")
                                      \/ <>[](\E w \in Of(r) : At(w, "handshake") \/ At(w, "boot"))
=============================================================================
