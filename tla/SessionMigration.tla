-------------------------- MODULE SessionMigration --------------------------
(***************************************************************************)
(* What a migration promises about sessions, whoever carries it out: the   *)
(* migrator publishes its whole record at once, in which only a session    *)
(* with a checkpoint is pending; recover settles pending sessions, as      *)
(* resumed only if a guest has resumed them, and never takes back what is  *)
(* settled. Crashes, failed writes, deadlines, late and lost answers of    *)
(* the implementations are steps that leave this state alone, or these.    *)
(***************************************************************************)
CONSTANT Entries        \* the sessions of a migration

VARIABLES record,       \* record[e]: what can be read about e
          checkpointed, \* sessions of which there is a checkpoint
          resumed       \* sessions that a guest has resumed

contractVars == <<record, checkpointed, resumed>>

Unpublished == [e \in Entries |-> "none"]

\* What a migration may publish about all entries but those it has not.
Publishable == {r \in [Entries -> {"none", "pending", "failed"}] :
                    \A e \in Entries : r[e] = "pending" => e \in checkpointed}

\* A record may be there from an earlier migration.
ContractInit == /\ checkpointed \in SUBSET Entries
                /\ record \in Publishable
                /\ resumed = {}

Checkpoint(e) == /\ checkpointed' = checkpointed \cup {e}
                 /\ UNCHANGED <<record, resumed>>

Publish == /\ record = Unpublished
           /\ record' \in Publishable
           /\ UNCHANGED <<checkpointed, resumed>>

\* Also when the session has been given up.
Resume(e) == /\ record[e] # "none"
             /\ resumed' = resumed \cup {e}
             /\ UNCHANGED <<record, checkpointed>>

\* A decision is recorded, with earlier ones that could not be.
Settle == /\ record' \in [Entries -> {"none", "pending", "failed", "resumed"}]
          /\ \A e \in Entries :
                record'[e] # record[e] => /\ record[e] = "pending"
                                          /\ \/ record'[e] = "failed"
                                             \/ record'[e] = "resumed" /\ e \in resumed
          /\ UNCHANGED <<checkpointed, resumed>>

ContractNext == Publish \/ Settle \/ \E e \in Entries : Checkpoint(e) \/ Resume(e)

Contract == ContractInit /\ [][ContractNext]_contractVars
=============================================================================
