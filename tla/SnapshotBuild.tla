---------------------------- MODULE SnapshotBuild ----------------------------
(***************************************************************************)
(* Manager.Build of pkg/snapshot/manager.go: pause the VM, create the      *)
(* snapshot, resume the VM, over the management API of one Firecracker     *)
(* (the handler snapshot.build names pid 0 whatever its arguments), by     *)
(* several connections of the daemon at once.  All requests of a call use  *)
(* its context.  Firecracker is external: it may refuse a request, or act  *)
(* on one whose answer is lost.  The daemon may die at any point; the VM   *)
(* outlives it.                                                            *)
(***************************************************************************)
CONSTANT Builders       \* goroutines that call Build

VARIABLES request,      \* request[b]: the request the call makes next, or its outcome
          created,      \* created[b]: the create request has succeeded
          cancelled,    \* calls whose context is done
          vm            \* what the VM does

\* History: since the last resume that succeeded, a pause was carried out and not
\* answered, a resume failed, or the daemon died while the VM was paused.
VARIABLES stranded

managerVars == <<request, created, cancelled, vm, stranded>>

InFlight(b) == request[b] \in {"pause", "create", "resume"}

BuildTypeOK == /\ request \in [Builders -> {"idle", "pause", "create", "resume", "built", "failed"}]
               /\ created \in [Builders -> BOOLEAN]
               /\ cancelled \subseteq Builders
               /\ vm \in {"running", "paused"}
               /\ stranded \in BOOLEAN

BuildInit == /\ request = [b \in Builders |-> "idle"]
             /\ created = [b \in Builders |-> FALSE]
             /\ cancelled = {} /\ vm = "running" /\ stranded = FALSE

Goto(b, label) == request' = [request EXCEPT ![b] = label]

-----------------------------------------------------------------------------
\* fcRequest: the outcomes of a request that would make the VM do v.

\* 204 No Content; no request is answered once its context is done.
Answered(b, v) == b \notin cancelled /\ vm' = v

\* Any other status or an error, with or without effect.
NotAnswered(v) == vm' \in {vm, v}

-----------------------------------------------------------------------------
\* Build.

\* The directory of the snapshot is made, or cannot be.
CallBuild(b) == /\ request[b] = "idle"
                /\ Goto(b, "pause") \/ Goto(b, "failed")
                /\ UNCHANGED <<created, cancelled, vm, stranded>>

Pause(b) == /\ request[b] = "pause"
            /\ Answered(b, "paused")
            /\ Goto(b, "create")
            /\ UNCHANGED <<created, cancelled, stranded>>

PauseFails(b) == /\ request[b] = "pause"
                 /\ NotAnswered("paused")
                 /\ stranded' = (stranded \/ vm' # vm)
                 /\ Goto(b, "failed")
                 /\ UNCHANGED <<created, cancelled>>

\* Firecracker creates snapshots of paused VMs only.
Create(b) == /\ request[b] = "create" /\ vm = "paused"
             /\ Answered(b, vm)
             /\ created' = [created EXCEPT ![b] = TRUE]
             /\ Goto(b, "resume")
             /\ UNCHANGED <<cancelled, stranded>>

BadCreateFails(b) == /\ request[b] = "create"
                     /\ Goto(b, "failed")
                     /\ UNCHANGED <<created, cancelled, vm, stranded>>

CreateFails(b) == /\ request[b] = "create"
                  /\ Goto(b, "resume")
                  /\ UNCHANGED <<created, cancelled, vm, stranded>>

\* The error of the create request, if there was one, is the error of Build.
Resume(b) == /\ request[b] = "resume"
             /\ Answered(b, "running")
             /\ Goto(b, IF created[b] THEN "built" ELSE "failed")
             /\ stranded' = FALSE
             /\ UNCHANGED <<created, cancelled>>

ResumeFails(b) == /\ request[b] = "resume"
                  /\ NotAnswered("running")
                  /\ stranded' = (stranded \/ vm' = "paused")
                  /\ Goto(b, "failed")
                  /\ UNCHANGED <<created, cancelled>>

Return(b) == /\ request[b] \in {"built", "failed"}
             /\ Goto(b, "idle")
             /\ created' = [created EXCEPT ![b] = FALSE]
             /\ cancelled' = cancelled \ {b}
             /\ UNCHANGED <<vm, stranded>>

\* The daemon is told to stop.
Cancel(b) == /\ InFlight(b)
             /\ cancelled' = cancelled \cup {b}
             /\ UNCHANGED <<request, created, vm, stranded>>

\* A request on its way may still be carried out.
BuildsDie == /\ \/ vm' = vm
                \/ \E b \in Builders : \/ request[b] = "pause" /\ vm' = "paused"
                                       \/ request[b] = "resume" /\ vm' = "running"
             /\ stranded' = (stranded \/ vm' = "paused")
             /\ request' = [b \in Builders |-> "idle"]
             /\ created' = [b \in Builders |-> FALSE]
             /\ cancelled' = {}

BuildNext == \/ \E b \in Builders : \/ CallBuild(b) \/ Pause(b) \/ PauseFails(b)
                                    \/ Create(b) \/ CreateFails(b)
                                    \/ Resume(b) \/ ResumeFails(b)
                                    \/ Return(b) \/ Cancel(b)
             \/ BuildsDie

BuildSpec == BuildInit /\ [][BuildNext]_managerVars

-----------------------------------------------------------------------------
\* Properties.

\* However calls overlap and whatever create requests do, the VM runs when no
\* call is under way, unless since the last successful resume a pause was not
\* answered, a resume failed or the daemon died: no step of Build leaves the VM
\* paused that could have resumed it.
LastCallResumes == vm = "paused" /\ ~stranded => \E b \in Builders : InFlight(b)
=============================================================================
