---------------------------- MODULE SpotEviction ----------------------------
(***************************************************************************)
(* The way from a spot notice to a manifest in the serve daemon: the       *)
(* monitor of pkg/migration/spot.go polls until it sees a notice, calls    *)
(* the callback of cmd/internal/serve.go once and stops; the callback      *)
(* visits the pools in any order, keys what ActiveSessions returns by slot *)
(* index alone, and starts MigrateAll (Migrator.tla) in a goroutine.       *)
(* Drains that were under way end meanwhile, also while ActiveSessions     *)
(* looks at their slots, which it does without their locks.  The daemon    *)
(* itself acquires no slot, so no session appears.                         *)
(***************************************************************************)
EXTENDS Migrator

CONSTANTS Hosts         \* addresses of the hosts the daemon has pools for

VARIABLES monitor,      \* the goroutine of the monitor
          live,         \* live[h][s]: session of slot s in the pool of host h
          toVisit,      \* slots of the pools that ActiveSessions has not come to
          collected     \* activeSessions under construction

spotVars == <<monitor, live, toVisit, collected>>
evictionVars == <<migVars, spotVars>>

-----------------------------------------------------------------------------
\* Helpers.

LiveSessions == {live[h][s] : h \in Hosts, s \in Slots} \ {NoSession}

\* A session runs on one slot of one host.
OnePlace(placing) ==
    \A g, h \in Hosts : \A r, s \in Slots :
        placing[g][r] = placing[h][s] /\ placing[g][r] # NoSession => g = h /\ r = s

\* fmt.Sprintf("vsock:%d", slotIdx+3) for every slot collected.
HalfRead(h) == (\E s \in Slots : <<h, s>> \in toVisit) /\ (\E s \in Slots : <<h, s>> \notin toVisit)

Addresses == {s \in Slots : collected[s] # NoSession}

-----------------------------------------------------------------------------
\* Monitor and callback.

EvictionInit == /\ MigInit
                /\ monitor = "polling"
                /\ live \in {p \in [Hosts -> [Slots -> Sessions \cup {NoSession}]] : OnePlace(p)}
                /\ toVisit = {}
                /\ collected = [s \in Slots |-> NoSession]

\* The metadata service answers 2xx.  Polls that find nothing change nothing.
PollDetects == /\ monitor = "polling"
               /\ monitor' = "collecting"
               /\ toVisit' = Hosts \X Slots
               /\ UNCHANGED <<migVars, live, collected>>

\* The context of the daemon is cancelled.
MonitorCancelled == /\ monitor = "polling"
                    /\ monitor' = "stopped"
                    /\ UNCHANGED <<migVars, live, toVisit, collected>>

\* ActiveSessions of one pool after the other comes to a slot ...
Visit(h, s) == /\ monitor = "collecting" /\ <<h, s>> \in toVisit
               /\ \A g \in Hosts \ {h} : ~HalfRead(g)
               /\ toVisit' = toVisit \ {<<h, s>>}
               /\ UNCHANGED <<migVars, monitor>>

\* ... whose session is entered over what an earlier pool had at the index ...
CollectSlot(h, s) == /\ Visit(h, s)
                     /\ collected' = IF live[h][s] = NoSession THEN collected
                                     ELSE [collected EXCEPT ![s] = live[h][s]]
                     /\ UNCHANGED live

\* ... or, when a drain ends between the look at it and the entry, "" is.
CollectEnded(h, s) == /\ Visit(h, s) /\ live[h][s] # NoSession
                      /\ live' = [live EXCEPT ![h][s] = NoSession]
                      /\ collected' = [collected EXCEPT ![s] = EmptySession]

BadNothingToMigrate == /\ monitor = "collecting" /\ Addresses = {}
                       /\ monitor' = "stopped"
                       /\ UNCHANGED <<migVars, live, toVisit, collected>>

\* "no active sessions to migrate": the callback returns, and so does Run.
NothingToMigrate == /\ monitor = "collecting" /\ toVisit = {} /\ Addresses = {}
                    /\ monitor' = "stopped"
                    /\ UNCHANGED <<migVars, live, toVisit, collected>>

\* MigrateAll runs in a goroutine of its own; the callback and Run return.
StartMigration == /\ monitor = "collecting" /\ toVisit = {} /\ Addresses # {}
                  /\ \E left \in Remainders : MigrateAll(collected, Addresses, left, TRUE)
                  /\ monitor' = "stopped"
                  /\ UNCHANGED <<live, toVisit, collected>>

\* A drain that an operator asked for ends and clears the session of a slot.
SessionDrained(h, s) == /\ monitor # "stopped" /\ live[h][s] # NoSession
                        /\ live' = [live EXCEPT ![h][s] = NoSession]
                        /\ UNCHANGED <<migVars, monitor, toVisit, collected>>

CollectPool(h) == \E s \in Slots : CollectSlot(h, s) \/ CollectEnded(h, s)

Callback == (\E h \in Hosts : CollectPool(h)) \/ NothingToMigrate \/ StartMigration

EvictionNext == \/ PollDetects \/ MonitorCancelled \/ Callback
                \/ \E h \in Hosts, s \in Slots : SessionDrained(h, s)
                \/ MigStep /\ UNCHANGED spotVars

\* The notice may never come; what follows it runs.  Goroutines run and the
\* timer of the context fires; guests owe nothing.
EvictionFairness ==
    /\ WF_evictionVars(Callback)
    /\ WF_evictionVars(Main /\ UNCHANGED spotVars)
    /\ WF_evictionVars(Expire /\ UNCHANGED spotVars)
    /\ \A s \in Slots : WF_evictionVars(Worker(s) /\ UNCHANGED spotVars)

EvictionSpec == EvictionInit /\ [][EvictionNext]_evictionVars
EvictionFairSpec == EvictionSpec /\ EvictionFairness

-----------------------------------------------------------------------------
\* Properties.

\* A session that is still live when the migration starts is part of it: the
\* callback collects "active sessions and vsock addresses from all pools".
NoSessionLeftBehind ==
    [][monitor = "collecting" /\ monitor' = "stopped" =>
          \A id \in LiveSessions : \E s \in Slots : collected[s] = id]_evictionVars

\* A noticed interruption with a session that stays live ends with an entry
\* for that session in what MigrateAll returns, unless the host is gone first:
\* neither the monitor nor a silent guest can hold the migration up.
NoticeLeadsToEntry ==
    \A id \in Sessions :
        (monitor = "collecting" /\ id \in LiveSessions) ~>
            \/ id \notin LiveSessions
            \/ phase = "crashed"
            \/ phase = "done" /\ \E i \in 1 .. Len(manifest) : active[manifest[i].slot] = id

\* What can be read in {migration_id}.json.
Published == [s \in Slots |->
    IF dest = "complete" /\ \E i \in 1 .. Len(manifest) : manifest[i].slot = s
    THEN manifest[CHOOSE i \in 1 .. Len(manifest) : manifest[i].slot = s].status
    ELSE "none"]

Promise == INSTANCE SessionMigration WITH
               Entries <- Slots,
               record <- Published,
               checkpointed <- {s \in Slots : guest[s] = "checkpointed"},
               resumed <- {}

\* The eviction keeps the promise of a migration: at whatever point the daemon
\* dies or a deadline passes, the record is published as a whole or not at all,
\* and what it calls pending has a checkpoint.
KeepsContract == Promise!Contract
=============================================================================
