------------------------------- MODULE Recover -------------------------------
(***************************************************************************)
(* The recover command, cmd/internal/recover.go, with Bus.RequestResume of *)
(* pkg/vsock/bus.go.  A run reads the migration manifests, tries to resume *)
(* every session whose status is pending on the first ready slot of a pool *)
(* built from the cluster state, and rewrites the manifest after each      *)
(* session.  A run may die at any point, guests may answer late or never,  *)
(* file operations may fail; later runs start from what is on disk.        *)
(***************************************************************************)
EXTENDS Integers, FiniteSets, Sequences

CONSTANTS Manifests,    \* manifest files
          Sessions,     \* positions 1 .. n in the session list of a manifest
          MaxRuns       \* bound: runs of the command

ASSUME RecoverAssumption == /\ IsFiniteSet(Manifests)
                            /\ IsFiniteSet(Sessions) /\ Sessions = 1 .. Cardinality(Sessions)
                            /\ MaxRuns \in Nat

VARIABLES run,          \* runs begun so far
          pc,           \* what the run executes next
          ready,        \* the local pool has a ready slot
          todo,         \* entries of the manifests read, not yet looked at
          cur,          \* the entry being recovered, or <<>>
          mem,          \* mem[m]: statuses of manifest m in memory
          loaded,       \* manifests this run has read
          failed,       \* the counter of the run
          disk, tmp,    \* {id}.json and {id}.json.tmp of every manifest
          inbox,        \* resume_migrated signals on their way: <<run, entry>>
          reply,        \* what the connection of the run will yield
          accepted      \* accepted[e]: how often a guest resumed entry e

\* History of the run.
VARIABLES found,        \* found[m]: statuses of manifest m when the run read it
          unsaved,      \* a rewrite of this run has failed
          listed        \* the run could read the manifest directory

procVars == <<pc, ready, todo, cur, mem, loaded, failed>>
fileVars == <<disk, tmp>>
guestVars == <<inbox, reply, accepted>>
history == <<found, unsaved, listed>>
vars == <<run, procVars, fileVars, guestVars, history>>

Status == {"pending", "resumed", "failed"}
Statuses == [Manifests -> [Sessions -> Status]]
Entries == Manifests \X Sessions

\* A manifest file: the statuses; or a part of it.  Nobody reads CompletedAt.
File == [form : {"whole"}, status : [Sessions -> Status]]
Partial == [form |-> "partial"]
NoFile == [form |-> "absent"]

TypeOK == /\ run \in 0 .. MaxRuns
          /\ pc \in {"off", "entry", "dial", "wait", "rewrite", "writing", "written", "exit0",
                     "exit1", "crashed"}
          /\ ready \in BOOLEAN
          /\ todo \subseteq Entries
          /\ cur \in Entries \cup {<<>>}
          /\ mem \in Statuses /\ found \in Statuses
          /\ loaded \subseteq Manifests
          /\ failed \in 0 .. Cardinality(Entries)
          /\ disk \in [Manifests -> File \cup {Partial}]
          /\ tmp \in [Manifests -> File \cup {Partial, NoFile}]
          /\ inbox \subseteq ((1 .. MaxRuns) \X Entries)
          /\ reply \in {"none", "ack", "nack", "closed"}
          /\ accepted \in [Entries -> 0 .. MaxRuns]
          /\ unsaved \in BOOLEAN /\ listed \in BOOLEAN

-----------------------------------------------------------------------------
\* Helpers.

\* The run has returned: status 0, or status 1 with an error.
Exited == pc \in {"exit0", "exit1"}

\* No run is under way.
Idle == Exited \/ pc \in {"off", "crashed"}

StatusIn(statuses, e) == statuses[e[1]][e[2]]
OnDisk(e) == disk[e[1]].status[e[2]]

\* What memory holds for a manifest that was not read: of no consequence.
Unread == [i \in Sessions |-> "pending"]

\* Entries come in the order of the session list; manifests in any fixed order.
IsNext(e) == e \in todo /\ \A f \in todo : f[1] = e[1] => e[2] <= f[2]
SameManifestFirst(e) == cur # <<>> /\ (\E f \in todo : f[1] = cur[1]) => e[1] = cur[1]

-----------------------------------------------------------------------------
\* The run.

\* Manifests are written by MigrateAll: a session is pending or failed.
Init == /\ run = 0 /\ pc = "off"
        /\ ready = FALSE /\ todo = {} /\ cur = <<>> /\ loaded = {} /\ failed = 0
        /\ mem = [m \in Manifests |-> Unread]
        /\ found = mem /\ unsaved = FALSE /\ listed = TRUE
        /\ disk \in [Manifests -> [form : {"whole"},
                                   status : [Sessions -> {"pending", "failed"}]]]
        /\ tmp = [m \in Manifests |-> NoFile]
        /\ inbox = {} /\ reply = "none"
        /\ accepted = [e \in Entries |-> 0]

\* The manifests that can be read and parsed are read; a warning is logged for
\* the others.  buildLocalPool readies the slots recorded as ready.
Start(readable, slotReady) ==
    /\ Idle /\ run < MaxRuns
    /\ run' = run + 1 /\ listed' = TRUE
    /\ \A m \in readable : disk[m] # Partial
    /\ loaded' = readable
    /\ mem' = [m \in Manifests |-> IF m \in readable THEN disk[m].status ELSE Unread]
    /\ found' = mem'
    /\ todo' = readable \X Sessions
    /\ pc' = IF readable = {} THEN "exit0" ELSE "entry"
    /\ ready' = slotReady /\ cur' = <<>> /\ failed' = 0 /\ unsaved' = FALSE /\ reply' = "none"
    /\ UNCHANGED <<fileVars, inbox, accepted>>

\* The manifest directory cannot be read: the run returns that error.
ReadDirFails ==
    /\ Idle /\ run < MaxRuns
    /\ run' = run + 1 /\ listed' = FALSE
    /\ loaded' = {} /\ todo' = {} /\ failed' = 0
    /\ pc' = "exit1"
    /\ ready' = FALSE /\ cur' = <<>> /\ unsaved' = FALSE /\ reply' = "none"
    /\ UNCHANGED <<mem, found, fileVars, inbox, accepted>>

\* A session that is not pending is printed and skipped.
Skip(e) == /\ pc = "entry" /\ IsNext(e) /\ SameManifestFirst(e)
           /\ StatusIn(mem, e) # "pending"
           /\ todo' = todo \ {e} /\ cur' = e
           /\ UNCHANGED <<run, pc, ready, mem, loaded, failed, fileVars, guestVars, history>>

BadTake(e) == /\ pc = "entry" /\ IsNext(e) /\ SameManifestFirst(e)
              /\ StatusIn(mem, e) # "resumed"
              /\ todo' = todo \ {e} /\ cur' = e
              /\ pc' = "dial"
              /\ UNCHANGED <<run, ready, mem, loaded, failed, fileVars, guestVars, history>>

Take(e) == /\ pc = "entry" /\ IsNext(e) /\ SameManifestFirst(e)
           /\ StatusIn(mem, e) = "pending"
           /\ todo' = todo \ {e} /\ cur' = e
           /\ pc' = "dial"
           /\ UNCHANGED <<run, ready, mem, loaded, failed, fileVars, guestVars, history>>

\* The outcome of resumeSession is recorded in memory.
Decide(status) == /\ mem' = [mem EXCEPT ![cur[1]][cur[2]] = status]
                  /\ failed' = IF status = "failed" THEN failed + 1 ELSE failed
                  /\ pc' = "rewrite"

\* resumeSession reaches the guest and sends the signal.
DialAndSend == /\ pc = "dial" /\ ready
               /\ pc' = "wait" /\ reply' = "none"
               /\ inbox' = inbox \cup {<<run, cur>>}
               /\ UNCHANGED <<run, ready, todo, cur, mem, loaded, failed, fileVars,
                              accepted, history>>

\* "no available pool slots", or the guest cannot be reached.
DialFails == /\ pc = "dial"
             /\ Decide("failed")
             /\ UNCHANGED <<run, ready, todo, cur, loaded, fileVars, guestVars, history>>

\* The ack, an ack with an error, or a read error.
AnswerArrives == /\ pc = "wait" /\ reply # "none"
                 /\ Decide(IF reply = "ack" THEN "resumed" ELSE "failed")
                 /\ UNCHANGED <<run, ready, todo, cur, loaded, fileVars, guestVars, history>>

BadGiveUp == /\ pc = "wait" /\ reply # "none"
             /\ Decide("failed")
             /\ UNCHANGED <<run, ready, todo, cur, loaded, fileVars, guestVars, history>>

\* 60 seconds are over; an answer that comes now is not read.
GiveUp == /\ pc = "wait"
          /\ Decide("failed")
          /\ UNCHANGED <<run, ready, todo, cur, loaded, fileVars, guestVars, history>>

\* rewriteManifest writes the whole manifest to the temporary file ...
RewriteBegins == /\ pc = "rewrite"
                 /\ pc' = "writing"
                 /\ tmp' = [tmp EXCEPT ![cur[1]] = Partial]
                 /\ UNCHANGED <<run, ready, todo, cur, mem, loaded, failed, disk, guestVars, history>>

BadRewriteEnds == /\ pc = "writing"
                  /\ pc' = "written"
                  /\ tmp' = [tmp EXCEPT ![cur[1]] =
                               [form |-> "whole",
                                status |-> [found[cur[1]] EXCEPT ![cur[2]] = StatusIn(mem, cur)]]]
                  /\ UNCHANGED <<run, ready, todo, cur, mem, loaded, failed, disk, guestVars, history>>

RewriteEnds == /\ pc = "writing"
               /\ pc' = "written"
               /\ tmp' = [tmp EXCEPT ![cur[1]] = [form |-> "whole", status |-> mem[cur[1]]]]
               /\ UNCHANGED <<run, ready, todo, cur, mem, loaded, failed, disk, guestVars, history>>

\* ... and renames it.
RewriteRenames == /\ pc = "written"
                  /\ pc' = "entry"
                  /\ disk' = [disk EXCEPT ![cur[1]] = tmp[cur[1]]]
                  /\ tmp' = [tmp EXCEPT ![cur[1]] = NoFile]
                  /\ UNCHANGED <<run, ready, todo, cur, mem, loaded, failed, guestVars, history>>

BadRewriteFails == /\ pc \in {"rewrite", "writing", "written"}
                   /\ pc' = "entry"
                   /\ disk' = IF pc = "written" THEN [disk EXCEPT ![cur[1]] = NoFile] ELSE disk
                   /\ unsaved' = TRUE
                   /\ UNCHANGED <<run, ready, todo, cur, mem, loaded, failed, tmp, guestVars, found, listed>>

\* A file operation fails: a warning, and the loop goes on.
RewriteFails == /\ pc \in {"rewrite", "writing", "written"}
                /\ pc' = "entry"
                /\ tmp' = IF pc = "written" THEN [tmp EXCEPT ![cur[1]] = NoFile] ELSE tmp
                /\ unsaved' = TRUE
                /\ UNCHANGED <<run, ready, todo, cur, mem, loaded, failed, disk, guestVars, found, listed>>

BadExit == /\ pc = "entry" /\ todo = {}
           /\ pc' = IF failed > 1 THEN "exit1" ELSE "exit0"
           /\ UNCHANGED <<run, ready, todo, cur, mem, loaded, failed, fileVars, guestVars, history>>

\* Status 1 if the counter is positive, 0 otherwise.
Exit == /\ pc = "entry" /\ todo = {}
        /\ pc' = IF failed > 0 THEN "exit1" ELSE "exit0"
        /\ UNCHANGED <<run, ready, todo, cur, mem, loaded, failed, fileVars, guestVars, history>>

\* The process dies; a signal it has sent stays on its way.
Crash == /\ ~Idle
         /\ pc' = "crashed"
         /\ UNCHANGED <<run, ready, todo, cur, mem, loaded, failed, fileVars, guestVars, history>>

-----------------------------------------------------------------------------
\* The guests.

\* Run r hears what becomes of its signal while it waits for entry e.
Hears(r, e, answers) ==
    IF pc = "wait" /\ run = r /\ cur = e
    THEN reply' \in answers
    ELSE UNCHANGED reply

\* The guest restores the checkpoint; its ack may be lost.
GuestResumes(r, e) == /\ <<r, e>> \in inbox
                      /\ inbox' = inbox \ {<<r, e>>}
                      /\ accepted' = [accepted EXCEPT ![e] = @ + 1]
                      /\ Hears(r, e, {"ack", "closed"})
                      /\ UNCHANGED <<run, procVars, fileVars, history>>

GuestRefuses(r, e) == /\ <<r, e>> \in inbox
                      /\ inbox' = inbox \ {<<r, e>>}
                      /\ Hears(r, e, {"nack", "closed"})
                      /\ UNCHANGED <<run, procVars, fileVars, accepted, history>>

Recovering == \/ \E e \in Entries : Skip(e) \/ Take(e)
              \/ DialAndSend \/ DialFails \/ AnswerArrives \/ GiveUp
              \/ RewriteBegins \/ RewriteEnds \/ RewriteRenames \/ RewriteFails
              \/ Exit

Next == \/ \E readable \in SUBSET Manifests, slotReady \in BOOLEAN :
              Start(readable, slotReady)
        \/ ReadDirFails
        \/ Recovering \/ Crash
        \/ \E r \in 1 .. run, e \in Entries : GuestResumes(r, e) \/ GuestRefuses(r, e)

\* The process runs and its timer fires; guests owe nothing.
Spec == Init /\ [][Next]_vars
FairSpec == Spec /\ WF_vars(Recovering)

-----------------------------------------------------------------------------
\* Properties.

\* Whenever the process dies, a manifest can be read, and a session recorded in
\* it as resumed was resumed by a guest.
RecordIsTruthful ==
    \A m \in Manifests :
        /\ disk[m] # Partial
        /\ \A i \in Sessions : disk[m].status[i] = "resumed" => accepted[<<m, i>>] > 0

\* A signal is sent only for a session that is pending on disk: what an
\* earlier run has settled is not tried again.
SignalOnlyPending ==
    [][\A e \in Entries : (\E r \in 1 .. MaxRuns : <<r, e>> \in inbox' \ inbox) => OnDisk(e) = "pending"]_vars

\* A run that exits has decided every session it read, has recorded the
\* decisions unless a rewrite failed, and exits with an error exactly if a
\* session failed in this run or the manifest directory could not be read.
ExitDecidesAll ==
    Exited =>
        /\ \A m \in loaded : /\ \A i \in Sessions : mem[m][i] # "pending"
                             /\ unsaved \/ disk[m].status = mem[m]
        /\ pc = "exit1" <=> \/ ~listed
                            \/ \E e \in loaded \X Sessions :
                                 StatusIn(mem, e) = "failed" /\ StatusIn(found, e) = "pending"

\* A run ends although guests may never answer.
RunEnds == pc = "entry" ~> Exited \/ pc = "crashed"

Promise == INSTANCE SessionMigration WITH
               Entries <- Entries,
               record <- [e \in Entries |-> OnDisk(e)],
               checkpointed <- Entries,
               resumed <- {e \in Entries : accepted[e] > 0}

\* All runs together keep the promise of a migration: a session leaves pending
\* once, whatever crashes, fails and is run again, and is recorded as resumed
\* only after a guest has resumed it.
KeepsContract == Promise!Contract
=============================================================================
