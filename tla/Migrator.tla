------------------------------ MODULE Migrator ------------------------------
(***************************************************************************)
(* Migrator.MigrateAll of pkg/migration/migrator.go with the checkpoint    *)
(* exchange of pkg/vsock/bus.go.  One worker goroutine per active slot     *)
(* dials the guest, sends checkpoint_now and waits for the answer or for   *)
(* the deadline context; MigrateAll takes as many results from the channel *)
(* as there are active slots, and writes the manifest to a temporary file  *)
(* that it renames.  The guest (external) may checkpoint, refuse, go away, *)
(* stay silent, or answer too late.  The process may die at any point.     *)
(***************************************************************************)
EXTENDS Integers, Sequences, FiniteSets

CONSTANTS Slots,        \* slot indices, the keys of activeSessions and VMAddrs
          Sessions,     \* agent session identifiers
          EmptySession, \* "", which activeSessions may hold for a session that has just ended
          NoSession,    \* a slot that is not a key of activeSessions
          Remainders    \* seconds that may be left until the deadline

ASSUME MigratorAssumption == /\ IsFiniteSet(Slots)
                             /\ EmptySession \notin Sessions
                             /\ NoSession \notin Sessions \cup {EmptySession}
                             /\ Remainders \subseteq Int

VARIABLES phase,        \* what MigrateAll executes next
          active,       \* active[s]: session of slot s in activeSessions
          addrs,        \* slots with an address in VMAddrs
          dir,          \* ManifestDir is set
          remaining,    \* seconds until the deadline when MigrateAll started
          todo,         \* active slots the fan-out loop has not come to
          worker,       \* worker[s]: progress of the goroutine of slot s
          results,      \* the buffered channel of results
          manifest,     \* manifest.Sessions, in the order of arrival
          expired,      \* the deadline context is done
          signal,       \* signal[s]: checkpoint_now on its way to guest s
          reply,        \* reply[s]: what the connection to guest s will yield
          guest,        \* guest[s]: the session in the guest of slot s
          tmp, dest     \* {migration_id}.json.tmp and {migration_id}.json

guestVars == <<signal, reply, guest>>
fileVars == <<tmp, dest>>
argVars == <<active, addrs, dir, remaining>>
workVars == <<todo, worker, results, manifest, expired>>
migVars == <<phase, argVars, workVars, guestVars, fileVars>>

Entry == Sessions \cup {EmptySession, NoSession}
File == {"absent", "partial", "complete"}
Result == [slot : Slots, ok : BOOLEAN]
SessionMigration == [slot : Slots, status : {"pending", "failed"}]
Working == {"fanout", "gather"}
Persisting == {"persist", "writing", "written"}
Returned == {"done", "crashed"}

MigTypeOK == /\ phase \in {"idle"} \cup Working \cup Persisting \cup Returned
             /\ active \in [Slots -> Entry]
             /\ addrs \subseteq Slots
             /\ dir \in BOOLEAN
             /\ remaining \in Remainders \cup {0}
             /\ todo \subseteq Slots
             /\ worker \in [Slots -> {"none", "dial", "sent", "reported"}]
             /\ results \in Seq(Result)
             /\ manifest \in Seq(SessionMigration)
             /\ expired \in BOOLEAN
             /\ signal \in [Slots -> {"none", "sent", "handled"}]
             /\ reply \in [Slots -> {"none", "ack", "nack", "closed"}]
             /\ guest \in [Slots -> {"running", "checkpointed"}]
             /\ tmp \in File /\ dest \in File

-----------------------------------------------------------------------------
\* Helpers.

ActiveSlots == {s \in Slots : active[s] # NoSession}

BadBudget(left) == LET least == IF left < 10 THEN 10 ELSE left IN least - 15

\* The timeout of the deadline context, in seconds.
Budget(left) == LET least == IF left < 10 THEN 10 ELSE left
                IN  IF least > 15 THEN least - 15 ELSE least

\* A worker ends by sending its result; the channel has room for all of them.
Report(s, ok) == /\ worker' = [worker EXCEPT ![s] = "reported"]
                 /\ results' = Append(results, [slot |-> s, ok |-> ok])

-----------------------------------------------------------------------------
\* MigrateAll.

MigInit == /\ phase = "idle"
           /\ active = [s \in Slots |-> NoSession]
           /\ addrs = {} /\ dir = FALSE /\ remaining = 0
           /\ todo = {}
           /\ worker = [s \in Slots |-> "none"]
           /\ results = <<>> /\ manifest = <<>>
           /\ expired = FALSE
           /\ signal = [s \in Slots |-> "none"]
           /\ reply = [s \in Slots |-> "none"]
           /\ guest = [s \in Slots |-> "running"]
           /\ tmp = "absent" /\ dest = "absent"

\* The call: the deadline context starts to run.
MigrateAll(sessions, addresses, left, hasDir) ==
    /\ phase = "idle"
    /\ phase' = "fanout"
    /\ active' = sessions /\ addrs' = addresses
    /\ remaining' = left /\ dir' = hasDir
    /\ todo' = {s \in Slots : sessions[s] # NoSession}
    /\ UNCHANGED <<worker, results, manifest, expired, guestVars, fileVars>>

\* The loop over activeSessions, in any order: a slot without an address gets
\* an error result at once, any other slot a goroutine.
FanOut(s) == /\ phase = "fanout" /\ s \in todo
             /\ todo' = todo \ {s}
             /\ IF s \in addrs
                THEN worker' = [worker EXCEPT ![s] = "dial"] /\ UNCHANGED results
                ELSE Report(s, FALSE)
             /\ UNCHANGED <<phase, argVars, manifest, expired, guestVars, fileVars>>

FanOutEnds == /\ phase = "fanout" /\ todo = {}
              /\ phase' = "gather"
              /\ UNCHANGED <<argVars, workVars, guestVars, fileVars>>

BadStatus == /\ phase = "gather" /\ results # <<>>
             /\ Len(manifest) < Cardinality(ActiveSlots)
             /\ manifest' = Append(manifest,
                   [slot |-> Head(results).slot,
                    status |-> IF Head(results).ok THEN "resumed" ELSE "failed"])
             /\ results' = Tail(results)
             /\ UNCHANGED <<phase, argVars, todo, worker, expired, guestVars, fileVars>>

\* One result becomes one entry of the manifest.
Gather == /\ phase = "gather" /\ results # <<>>
          /\ Len(manifest) < Cardinality(ActiveSlots)
          /\ manifest' = Append(manifest,
                [slot |-> Head(results).slot,
                 status |-> IF Head(results).ok THEN "pending" ELSE "failed"])
          /\ results' = Tail(results)
          /\ UNCHANGED <<phase, argVars, todo, worker, expired, guestVars, fileVars>>

BadGatherEnds == /\ phase = "gather"
                 /\ Len(manifest) = Cardinality(ActiveSlots) \/ expired
                 /\ phase' = IF dir THEN "persist" ELSE "done"
                 /\ UNCHANGED <<argVars, workVars, guestVars, fileVars>>

\* As many results as active sessions have arrived.
GatherEnds == /\ phase = "gather"
              /\ Len(manifest) = Cardinality(ActiveSlots)
              /\ phase' = IF dir THEN "persist" ELSE "done"
              /\ UNCHANGED <<argVars, workVars, guestVars, fileVars>>

\* os.WriteFile creates the temporary file and fills it; a crash in between
\* leaves a part of it.
WriteBegins == /\ phase = "persist"
               /\ phase' = "writing"
               /\ tmp' = "partial"
               /\ UNCHANGED <<dest, argVars, workVars, guestVars>>

WriteEnds == /\ phase = "writing"
             /\ phase' = "written"
             /\ tmp' = "complete"
             /\ UNCHANGED <<dest, argVars, workVars, guestVars>>

\* os.Rename replaces the destination in one step; MigrateAll returns.
RenameManifest == /\ phase = "written"
                  /\ phase' = "done"
                  /\ dest' = tmp /\ tmp' = "absent"
                  /\ UNCHANGED <<argVars, workVars, guestVars>>

\* A file operation fails: a warning is logged and MigrateAll returns.  Only
\* a failed rename removes the temporary file.
PersistFails == /\ phase \in Persisting
                /\ phase' = "done"
                /\ tmp' = IF phase = "written" THEN "absent" ELSE tmp
                /\ UNCHANGED <<dest, argVars, workVars, guestVars>>

-----------------------------------------------------------------------------
\* The workers: vsock.Dial and Bus.RequestCheckpoint.

\* The guest is reached and the signal sent.
DialAndSend(s) == /\ phase \in Working /\ worker[s] = "dial"
                  /\ worker' = [worker EXCEPT ![s] = "sent"]
                  /\ signal' = [signal EXCEPT ![s] = "sent"]
                  /\ UNCHANGED <<phase, argVars, todo, results, manifest, expired,
                                 reply, guest, fileVars>>

\* Dialling fails or takes longer than its 5 seconds, or sending fails.
DialFails(s) == /\ phase \in Working /\ worker[s] = "dial"
                /\ Report(s, FALSE)
                /\ UNCHANGED <<phase, argVars, todo, manifest, expired, guestVars, fileVars>>

BadAnswerArrives(s) == /\ phase \in Working /\ worker[s] = "sent" /\ reply[s] # "none"
                       /\ Report(s, reply[s] # "closed")
                       /\ UNCHANGED <<phase, argVars, todo, manifest, expired, guestVars, fileVars>>

\* ReceiveAck yields an ack, an ack with an error, or a read error.
AnswerArrives(s) == /\ phase \in Working /\ worker[s] = "sent" /\ reply[s] # "none"
                    /\ Report(s, reply[s] = "ack")
                    /\ UNCHANGED <<phase, argVars, todo, manifest, expired, guestVars, fileVars>>

BadWorkerGivesUp(s) == /\ phase \in Working /\ worker[s] = "sent" /\ expired
                       /\ reply[s] # "none"
                       /\ Report(s, FALSE)
                       /\ UNCHANGED <<phase, argVars, todo, manifest, expired, guestVars, fileVars>>

\* The context is done: the answer is dropped, also if it has arrived.
WorkerGivesUp(s) == /\ phase \in Working /\ worker[s] = "sent" /\ expired
                    /\ Report(s, FALSE)
                    /\ UNCHANGED <<phase, argVars, todo, manifest, expired, guestVars, fileVars>>

\* The budget has run out, or the daemon's context was cancelled.
Expire == /\ phase \in Working /\ ~expired
          /\ expired' = TRUE
          /\ UNCHANGED <<phase, argVars, todo, worker, results, manifest, guestVars, fileVars>>

-----------------------------------------------------------------------------
\* The guests and the end of the process.

\* The guest takes a checkpoint; its ack is lost if the worker has gone.
GuestCheckpoints(s) == /\ signal[s] = "sent"
                       /\ signal' = [signal EXCEPT ![s] = "handled"]
                       /\ guest' = [guest EXCEPT ![s] = "checkpointed"]
                       /\ \E r \in {"ack", "closed"} : reply' = [reply EXCEPT ![s] = r]
                       /\ UNCHANGED <<phase, argVars, workVars, fileVars>>

\* The guest answers with an error, or dies without an answer.
GuestRefuses(s) == /\ signal[s] = "sent"
                   /\ signal' = [signal EXCEPT ![s] = "handled"]
                   /\ \E r \in {"nack", "closed"} : reply' = [reply EXCEPT ![s] = r]
                   /\ UNCHANGED <<phase, argVars, workVars, guest, fileVars>>

Guest(s) == GuestCheckpoints(s) \/ GuestRefuses(s)

\* The host is taken away, or the daemon exits: serve does not wait for the
\* goroutine that runs MigrateAll.
Crash == /\ phase \in Working \cup Persisting
         /\ phase' = "crashed"
         /\ UNCHANGED <<argVars, workVars, guestVars, fileVars>>

Worker(s) == DialAndSend(s) \/ DialFails(s) \/ AnswerArrives(s) \/ WorkerGivesUp(s)
Main == \/ \E s \in Slots : FanOut(s)
        \/ FanOutEnds \/ Gather \/ GatherEnds
        \/ WriteBegins \/ WriteEnds \/ RenameManifest \/ PersistFails
MigStep == Main \/ Expire \/ Crash \/ \E s \in Slots : Worker(s) \/ Guest(s)

-----------------------------------------------------------------------------
\* Properties.

\* What MigrateAll returns, and what stands in {migration_id}.json when the
\* process dies, has exactly one entry per active session: none is lost to a
\* race between workers, the deadline and late answers, none is entered twice,
\* and no part of a file is ever taken for a manifest.
ManifestComplete ==
    /\ dest # "partial"
    /\ phase \in Persisting \cup {"done"} \/ dest = "complete" =>
           /\ Len(manifest) = Cardinality(ActiveSlots)
           /\ \A s \in ActiveSlots : \E i \in 1 .. Len(manifest) : manifest[i].slot = s

\* An entry that recover will try to resume names a checkpoint the guest took.
PendingIsCheckpointed ==
    \A i \in 1 .. Len(manifest) :
        manifest[i].status = "pending" => guest[manifest[i].slot] = "checkpointed"

\* Whatever is left until the deadline, the workers get some time, and no more
\* than is left when that is at least the floor of 10 seconds.
BudgetInTime ==
    phase \in Working => /\ Budget(remaining) > 0
                         /\ remaining >= 10 => Budget(remaining) <= remaining
=============================================================================
