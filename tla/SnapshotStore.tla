---------------------------- MODULE SnapshotStore ----------------------------
(***************************************************************************)
(* "snapshot push" and "snapshot pull" of one snapshot, from the command   *)
(* line to the files: cmd/internal/snapshot.go, the client and the server  *)
(* of pkg/api, the handlers, Manager.Push and Pull, and the stores of      *)
(* pkg/snapshot.  A command asks the daemon, whose copy goes on whatever   *)
(* becomes of the command; when it hears nothing in 30 seconds, or cannot  *)
(* connect, it copies by itself.  Copies overlap, fail half-way, and die   *)
(* with the daemon.  Files are copied one after the other.                 *)
(***************************************************************************)
EXTENDS Integers

CONSTANTS Commands,     \* processes of the command line, each run again and again
          Handlers,     \* goroutines of the daemon that serve them
          Nobody,
          MaxBuilds     \* bound: times the snapshot is built

ASSUME StoreAssumption == /\ Commands \cap Handlers = {} /\ Nobody \notin Commands \cup Handlers
                          /\ MaxBuilds \in Nat \ {0}

VARIABLES kind,         \* the configured store: "local" directory or "s3"
          daemon,       \* "up" or "down"
          cmd,          \* cmd[c]: where command c is
          client,       \* client[g]: the command that waits for handler g
          job,          \* job[k]: what copier k does
          pc,           \* pc[k]: where copier k is
          todo,         \* todo[k]: files k has not come to
          held,         \* held[k]: what k reads, or Partial when it changes under it
          cut,          \* copiers whose file was truncated by a later copier
          file,         \* file[p][f]: what file f of place p holds
          builds,       \* versions of the snapshot built so far
          building      \* Firecracker writes the files of the snapshot

\* History: what place p will hold when the copies into it have all succeeded,
\* if they agree; Mixed when they do not, when one has failed, or without any.
VARIABLE expect

commandVars == <<daemon, cmd, client>>
copierVars == <<job, pc, todo, held, cut>>
buildVars == <<builds, building>>
vars == <<kind, commandVars, copierVars, file, buildVars, expect>>

FileNames == {"vm.mem", "vm.snap"}
Places == {"built", "store", "other", "dest"}
Copiers == Commands \cup Handlers

Absent == 0
Partial == -1
Contents == {Absent, Partial} \cup 1..MaxBuilds
Mixed == [f \in FileNames |-> Partial]

Working(k) == pc[k] \in {"next", "copy"}

TypeOK == /\ kind \in {"local", "s3"} /\ daemon \in {"up", "down"}
          /\ cmd \in [Commands -> {"ended", "dial", "wait", "direct"}]
          /\ client \in [Handlers -> Commands \cup {Nobody}]
          /\ job \in [Copiers -> {"none", "push", "pull"}]
          /\ pc \in [Copiers -> {"idle", "asked", "next", "copy", "answered"}]
          /\ todo \in [Copiers -> SUBSET FileNames]
          /\ \A k \in Copiers : pc[k] = "copy" => todo[k] # {}
          /\ held \in [Copiers -> Contents]
          /\ cut \subseteq {k \in Copiers : pc[k] = "copy"}
          /\ file \in [Places -> [FileNames -> Contents]]
          /\ builds \in 1..MaxBuilds /\ building \in BOOLEAN
          /\ expect \in [Places -> [FileNames -> Contents]]

Empty == [f \in FileNames |-> Absent]

Init == /\ kind \in {"local", "s3"} /\ daemon = "down"
        /\ cmd = [c \in Commands |-> "ended"]
        /\ client = [g \in Handlers |-> Nobody]
        /\ job = [k \in Copiers |-> "none"]
        /\ pc = [k \in Copiers |-> "idle"]
        /\ todo = [k \in Copiers |-> {}]
        /\ held = [k \in Copiers |-> Absent]
        /\ cut = {}
        /\ file = [p \in Places |-> IF p = "built" THEN [f \in FileNames |-> 1] ELSE Empty]
        /\ builds = 1 /\ building = FALSE
        /\ expect = [p \in Places |-> Mixed]

-----------------------------------------------------------------------------
\* Where a copier reads and writes.

\* The daemon's store is made from the configured URL; that of a command is a
\* directory with the URL for its path.
StoreOf(k) == IF k \in Commands /\ kind = "s3" THEN "other" ELSE "store"

From(k) == IF job[k] = "push" THEN "built" ELSE StoreOf(k)
To(k) == IF job[k] = "push" THEN StoreOf(k) ELSE "dest"
InS3(p) == kind = "s3" /\ p = "store"

Into(p) == {k \in Copiers : Working(k) /\ To(k) = p}
Busy(p) == Into(p) # {} \/ (p = "built" /\ building)

\* The file k copies: filepath.Walk and the listing of S3 are in the order of names.
Current(k) == IF "vm.mem" \in todo[k] THEN "vm.mem" ELSE "vm.snap"

\* Copiers that read, or write, file f of place p.
Readers(p, f) == {k \in Copiers : pc[k] = "copy" /\ From(k) = p /\ Current(k) = f}
Writers(p, f) == {k \in Copiers : pc[k] = "copy" /\ To(k) = p /\ Current(k) = f}

\* Copies out of a place that changes promise nothing.
Spoil(p, e) == [q \in Places |-> IF \E k \in Copiers : Working(k) /\ From(k) = p /\ To(k) = q
                                 THEN Mixed ELSE e[q]]

-----------------------------------------------------------------------------
\* The copiers: Push and Pull of S3SnapshotStore and LocalStore (copyDir).

Listed(p) == {f \in FileNames : file[p][f] # Absent}

\* A copy ends, for the command that waits for it or for nobody.
EndCopies(ks) ==
    LET heard(k) == k \in Commands \/ client[k] # Nobody IN
    /\ pc' = [k \in Copiers |-> IF k \notin ks THEN pc[k]
                               ELSE IF heard(k) THEN "answered" ELSE "idle"]
    /\ job' = [k \in Copiers |-> IF k \in ks /\ ~heard(k) THEN "none" ELSE job[k]]

\* The walk, or the listing.  An object that is not there is an empty listing;
\* a directory that is not there is an error.
Begin(k) ==
    LET p == To(k)
        source == IF Busy(From(k)) THEN Mixed ELSE file[From(k)]
    IN  /\ pc[k] = "asked"
        /\ todo' = [todo EXCEPT ![k] = Listed(From(k))]
        /\ pc' = [pc EXCEPT ![k] = "next"]
        /\ expect' = Spoil(p, [expect EXCEPT ![p] =
                                  IF Into(p) = {} \/ @ = source THEN source ELSE Mixed])
        /\ UNCHANGED <<kind, commandVars, job, held, cut, file, buildVars>>

NoSource(k) == /\ pc[k] = "asked" /\ Listed(From(k)) = {} /\ ~InS3(From(k))
               /\ EndCopies({k})
               /\ UNCHANGED <<kind, commandVars, todo, held, cut, file, buildVars, expect>>

\* Copiers into the file that k opens.
Rivals(k) == IF InS3(To(k)) THEN {} ELSE Writers(To(k), Current(k))

\* Whose reading the opening disturbs: that of the file, and of rivals with
\* different contents, which leave neither.
Torn(k) == IF InS3(To(k)) THEN {}
           ELSE Readers(To(k), Current(k))
                \cup {j \in Rivals(k) : held[j] # file[From(k)][Current(k)]}

\* The loop goes round once more after the last file of the listing.
BadOpen(k) ==
    /\ pc[k] = "next"
    /\ held' = [held EXCEPT ![k] = file[From(k)][Current(k)]]
    /\ cut' = cut \cup Rivals(k)
    /\ file' = IF InS3(To(k)) THEN file ELSE [file EXCEPT ![To(k)][Current(k)] = Partial]
    /\ pc' = [pc EXCEPT ![k] = "copy"]
    /\ UNCHANGED <<kind, commandVars, job, todo, buildVars, expect>>

\* Opens both files, which truncates the target (an upload does not).
Open(k) ==
    /\ pc[k] = "next" /\ todo[k] # {}
    /\ held' = [j \in Copiers |->
                  CASE j = k -> IF Torn(k) \cap Rivals(k) = {} THEN file[From(k)][Current(k)] ELSE Partial
                    [] j \in Torn(k) \ {k} -> Partial
                    [] OTHER -> held[j]]
    /\ cut' = cut \cup Rivals(k)
    /\ file' = IF InS3(To(k)) THEN file ELSE [file EXCEPT ![To(k)][Current(k)] = Partial]
    /\ pc' = [pc EXCEPT ![k] = "copy"]
    /\ UNCHANGED <<kind, commandVars, job, todo, buildVars, expect>>

\* The end of the source is reached.  A copier whose file was truncated adds
\* nothing to what the later one writes; an object is replaced as a whole.
Finish(k) ==
    /\ pc[k] = "copy"
    /\ LET f == Current(k) IN
       /\ file' = IF k \in cut /\ file[To(k)][f] # held[k]
                  THEN [file EXCEPT ![To(k)][f] = Partial]
                  ELSE [file EXCEPT ![To(k)][f] = held[k]]
       /\ held' = [j \in Copiers |->
                     CASE j = k -> Absent
                       [] InS3(To(k)) /\ j \in Readers(To(k), f) /\ held[j] # held[k] -> Partial
                       [] OTHER -> held[j]]
    /\ cut' = cut \ {k}
    /\ todo' = [todo EXCEPT ![k] = @ \ {Current(k)}]
    /\ pc' = [pc EXCEPT ![k] = "next"]
    /\ UNCHANGED <<kind, commandVars, job, buildVars, expect>>

Complete(k) == /\ pc[k] = "next" /\ todo[k] = {}
               /\ EndCopies({k})
               /\ expect' = IF Into(To(k)) = {k} THEN [expect EXCEPT ![To(k)] = Mixed] ELSE expect
               /\ UNCHANGED <<kind, commandVars, todo, held, cut, file, buildVars>>

\* Copies stop where they are: a local file stays as far as it was written.
Stop(ks) == /\ todo' = [k \in Copiers |-> IF k \in ks THEN {} ELSE todo[k]]
            /\ held' = [k \in Copiers |-> IF k \in ks THEN Absent ELSE held[k]]
            /\ cut' = cut \ ks
            /\ expect' = [p \in Places |-> IF Into(p) \cap ks # {} THEN Mixed ELSE expect[p]]

BadFail(k) == /\ pc[k] = "copy"
              /\ pc' = [pc EXCEPT ![k] = "next"]
              /\ todo' = [todo EXCEPT ![k] = @ \ {Current(k)}]
              /\ held' = [held EXCEPT ![k] = Absent]
              /\ cut' = cut \ {k}
              /\ UNCHANGED <<kind, commandVars, job, file, buildVars, expect>>

\* Any call of a copy fails; the rest of the files is not copied.
Fail(k) == /\ pc[k] \in {"next", "copy"}
           /\ EndCopies({k}) /\ Stop({k})
           /\ UNCHANGED <<kind, commandVars, file, buildVars>>

-----------------------------------------------------------------------------
\* The command line, and the daemon as it sees it.

Run(c, o) == /\ cmd[c] = "ended"
             /\ cmd' = [cmd EXCEPT ![c] = "dial"]
             /\ job' = [job EXCEPT ![c] = o]
             /\ UNCHANGED <<kind, daemon, client, pc, todo, held, cut, file, buildVars, expect>>

\* SendRequest: the daemon takes the connection, and runs the handler with its
\* own context.
Send(c, g) == /\ cmd[c] = "dial" /\ daemon = "up" /\ pc[g] = "idle"
              /\ cmd' = [cmd EXCEPT ![c] = "wait"]
              /\ client' = [client EXCEPT ![g] = c]
              /\ job' = [job EXCEPT ![g] = job[c]]
              /\ pc' = [pc EXCEPT ![g] = "asked"]
              /\ UNCHANGED <<kind, daemon, todo, held, cut, file, buildVars, expect>>

Answer(g) == /\ pc[g] = "answered"
             /\ cmd' = [cmd EXCEPT ![client[g]] = "ended"]
             /\ client' = [client EXCEPT ![g] = Nobody]
             /\ job' = [job EXCEPT ![g] = "none", ![client[g]] = "none"]
             /\ pc' = [pc EXCEPT ![g] = "idle"]
             /\ UNCHANGED <<kind, daemon, todo, held, cut, file, buildVars, expect>>

\* The command copies by itself; what the daemon finds out is for nobody.
FallBack(c) ==
    LET given == {g \in Handlers : client[g] = c /\ pc[g] = "answered"} IN
    /\ cmd' = [cmd EXCEPT ![c] = "direct"]
    /\ client' = [g \in Handlers |-> IF client[g] = c THEN Nobody ELSE client[g]]
    /\ job' = [k \in Copiers |-> IF k \in given THEN "none" ELSE job[k]]
    /\ pc' = [k \in Copiers |-> IF k = c THEN "asked" ELSE IF k \in given THEN "idle" ELSE pc[k]]
    /\ UNCHANGED <<kind, daemon, todo, held, cut, file, buildVars, expect>>

BadRunDirect(c) == /\ cmd[c] = "dial" \/ (cmd[c] = "wait" /\ daemon = "down")
                   /\ FallBack(c)

\* No daemon, no answer within 30 seconds, or the connection is lost.
RunDirect(c) == cmd[c] \in {"dial", "wait"} /\ FallBack(c)

Report(c) == /\ pc[c] = "answered"
             /\ cmd' = [cmd EXCEPT ![c] = "ended"]
             /\ job' = [job EXCEPT ![c] = "none"]
             /\ pc' = [pc EXCEPT ![c] = "idle"]
             /\ UNCHANGED <<kind, daemon, client, todo, held, cut, file, buildVars, expect>>

StartDaemon == /\ daemon = "down" /\ daemon' = "up"
               /\ UNCHANGED <<kind, cmd, client, copierVars, file, buildVars, expect>>

\* Its copies end with it, and the commands that wait lose their connections.
DaemonDies == /\ daemon = "up" /\ daemon' = "down"
              /\ client' = [g \in Handlers |-> Nobody]
              /\ job' = [k \in Copiers |-> IF k \in Handlers THEN "none" ELSE job[k]]
              /\ pc' = [k \in Copiers |-> IF k \in Handlers THEN "idle" ELSE pc[k]]
              /\ Stop(Handlers)
              /\ UNCHANGED <<kind, cmd, file, buildVars>>

-----------------------------------------------------------------------------
\* Manager.Build into the same directory: Firecracker writes both files anew.

Build == /\ ~building /\ builds < MaxBuilds
         /\ building' = TRUE /\ builds' = builds + 1
         /\ file' = [file EXCEPT !["built"] = Mixed]
         /\ held' = [k \in Copiers |-> IF pc[k] = "copy" /\ From(k) = "built"
                                       THEN Partial ELSE held[k]]
         /\ expect' = Spoil("built", expect)
         /\ UNCHANGED <<kind, commandVars, job, pc, todo, cut>>

Built == /\ building /\ building' = FALSE
         /\ file' \in {file, [file EXCEPT !["built"] = [f \in FileNames |-> builds]]}
         /\ UNCHANGED <<kind, commandVars, copierVars, builds, expect>>

-----------------------------------------------------------------------------
Copier(k) == Begin(k) \/ NoSource(k) \/ Open(k) \/ Finish(k) \/ Complete(k)

Command(c) == \/ \E o \in {"push", "pull"} : Run(c, o)
              \/ \E g \in Handlers : Send(c, g)
              \/ RunDirect(c) \/ Report(c)

Next == \/ \E k \in Copiers : Copier(k) \/ Fail(k)
        \/ \E c \in Commands : Command(c)
        \/ \E g \in Handlers : Answer(g)
        \/ StartDaemon \/ DaemonDies \/ Build \/ Built

Spec == Init /\ [][Next]_vars

\* The timers of the client run, and local files are copied; the daemon owes
\* nobody an answer.
Fairness == \A c \in Commands : /\ WF_vars(RunDirect(c)) /\ WF_vars(Report(c))
                                /\ WF_vars(Copier(c))

FairSpec == Spec /\ Fairness

-----------------------------------------------------------------------------
\* Properties.

\* When the last of the copies into a place is about to succeed, and none of
\* them, alone or overlapping, in the daemon or in a command, failed or read
\* something else, the place holds the files of the source exactly, whatever
\* earlier failures and crashes left there.
LastCopyIsExact ==
    \A k \in Copiers : pc[k] = "next" /\ todo[k] = {} /\ Into(To(k)) = {k} =>
        \A f \in FileNames : LET v == expect[To(k)][f] IN
                                v \in 1..MaxBuilds => file[To(k)][f] = v

\* A command that was started ends, even with a daemon that never answers.
CommandEnds == \A c \in Commands : cmd[c] = "dial" ~> cmd[c] = "ended"
=============================================================================
