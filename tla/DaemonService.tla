--------------------------- MODULE DaemonService ----------------------------
(***************************************************************************)
(* The resident daemon of one machine (daemon/service.go, provision.go):   *)
(* its requests, the mutex they take, provisioning step by step, and what  *)
(* is left behind when a step fails, a client goes away or the daemon is   *)
(* killed.  The one-shot commands of pgdevd work on the same slot without  *)
(* the mutex.  A snapshot or restore is here only its journal record and   *)
(* what it does to the container; PgOps has its steps.                     *)
(***************************************************************************)
EXTENDS Naturals, FiniteSets

CONSTANTS
  Reqs,          \* HTTP requests that may be in flight at the same time
  OneShots,      \* `pgdevd snapshot` and `pgdevd restore` processes
  OneShotOps,    \* which of the two users run
  Ops,           \* the operations clients ask for
  MaxFaults,     \* bound: commands that fail, kills, machine restarts
  MaxUnresolved, \* bound: records that cannot be removed from the journal
  MaxCancels     \* bound: clients that go away before they are answered

None == "none"
AllOps == {"up", "down", "start", "stop", "reconcile", "snapshot", "restore"}

ASSUME DaemonAssumption ==
  /\ Ops \subseteq AllOps /\ OneShotOps \subseteq {"snapshot", "restore"}
  /\ None \notin Reqs \cup OneShots
  /\ Reqs \cap OneShots = {}
  /\ MaxFaults \in Nat /\ MaxUnresolved \in Nat /\ MaxCancels \in Nat

VARIABLES
  mounted,    \* the store is mounted; incusd only runs when it is
  cont,       \* the backend container
  slot,       \* the slot's tree: none, empty, with a cluster, with role and database
  initial,    \* the snapshot `initial` exists
  golden,     \* the golden image: none, bare (PostgreSQL not installed), full
  build,      \* the throwaway container it is built in
  records,    \* kinds of the records in the journal
  wasRunning, \* what the restore record says of the container
  daemon,     \* down, recovering or serving
  lock,       \* the holder of the service's mutex
  req,        \* the requests: operation, position, client still there
  missed,     \* history: a Down took a container it could not ask about for absent
  faults, unresolved, cancels

world == <<mounted, cont, slot, initial>>
image == <<golden, build>>
journal == <<records, wasRunning>>
bounds == <<faults, unresolved, cancels>>
vars == <<world, image, journal, daemon, lock, req, missed, bounds>>

All == Reqs \cup OneShots
NoContainer == [state |-> "absent", disk |-> FALSE, proxy |-> FALSE, cluster |-> "none"]
NoBuild == [state |-> "absent", pg |-> FALSE]
Idle == [op |-> None, pc |-> "idle", live |-> TRUE]
Building == {"gdelete", "glaunch", "gscript", "gstop", "galias", "gpublish"}
Provisioning == {"check", "gclean", "layout", "launch", "disk", "cluster", "role"}
Simple == {"delete", "wipe", "start", "stop", "forward"}
Tasking == {"recover", "begin", "task", "stopped"}

TypeOK ==
  /\ mounted \in BOOLEAN /\ initial \in BOOLEAN /\ wasRunning \in BOOLEAN /\ missed \in BOOLEAN
  /\ cont \in [state : {"absent", "RUNNING", "STOPPED"}, disk : BOOLEAN, proxy : BOOLEAN,
               cluster : {"none", "rootfs", "slot"}]
  /\ slot \in {"none", "empty", "cluster", "db"}
  /\ golden \in {"none", "bare", "full"}
  /\ build \in [state : {"absent", "RUNNING", "STOPPED"}, pg : BOOLEAN]
  /\ records \subseteq {"snapshot", "restore"}
  /\ daemon \in {"down", "recovering", "serving"}
  /\ lock \in Reqs \cup {None}
  /\ req \in [All -> [op : Ops \cup {None}, live : BOOLEAN,
                      pc : {"idle", "lock"} \cup Building \cup Provisioning \cup Simple \cup Tasking]]
  /\ \A r \in Reqs : req[r].pc \notin {"idle", "lock"} => lock = r
  /\ faults \in 0..MaxFaults /\ unresolved \in 0..MaxUnresolved /\ cancels \in 0..MaxCancels

\* A machine that has been bootstrapped boots.
Init ==
  /\ mounted \in BOOLEAN /\ cont = NoContainer /\ slot = "empty" /\ initial = FALSE
  /\ golden = "none" /\ build = NoBuild
  /\ records = {} /\ wasRunning = FALSE /\ missed = FALSE
  /\ daemon = "down" /\ lock = None
  /\ req = [r \in All |-> Idle]
  /\ faults = 0 /\ unresolved = 0 /\ cancels = 0

-----------------------------------------------------------------------------
(* Requests *)

At(r, pc) == req[r].pc = pc
Goto(r, pc) == req' = [req EXCEPT ![r].pc = pc] /\ UNCHANGED lock

\* A return that leaves the mutex locked.
BadEnds(r) == req' = [req EXCEPT ![r] = Idle] /\ UNCHANGED lock
Ends(r) == req' = [req EXCEPT ![r] = Idle] /\ lock' = IF lock = r THEN None ELSE lock

\* A command of a request whose client is gone is killed before it does
\* anything; without the store there is no incusd to ask.
Works(r) == req[r].live /\ mounted

\* `incus info` has an exit code for both: absent, and could not be asked.  The
\* daemon cannot tell one from the other; Unanswered has the questions that fail
\* although there is a client and incusd could be asked.
Exists(r) == Works(r) /\ cont.state # "absent"

Call(r, op) ==
  /\ At(r, "idle")
  /\ IF r \in OneShots THEN mounted /\ op \in OneShotOps ELSE daemon = "serving"
  /\ req' = [req EXCEPT ![r] = [op |-> op, live |-> TRUE,
                                pc |-> IF r \in OneShots THEN "recover" ELSE "lock"]]
  /\ UNCHANGED <<world, image, journal, daemon, lock, missed, bounds>>

First == [up |-> "check", down |-> "delete", start |-> "start", stop |-> "stop",
          reconcile |-> "forward", snapshot |-> "recover", restore |-> "recover"]

\* Down, Stop and Snapshot do not wait.
BadMayEnter(r) == lock = None \/ req[r].op \in {"down", "stop", "snapshot"}
MayEnter(r) == lock = None

Enter(r) ==
  /\ At(r, "lock") /\ MayEnter(r)
  /\ lock' = r
  /\ req' = [req EXCEPT ![r].pc = First[req[r].op]]
  /\ UNCHANGED <<world, image, journal, daemon, missed, bounds>>

-----------------------------------------------------------------------------
(* Up *)

UpCheck(r) ==
  /\ At(r, "check")
  /\ IF mounted /\ ~Exists(r)
       THEN Goto(r, IF Works(r) /\ golden # "none" THEN "layout" ELSE "gdelete")
       ELSE Ends(r)
  /\ UNCHANGED <<world, image, journal, daemon, missed, bounds>>

\* A question that fails, of the container or of the golden image, is answered
\* by no: Up goes on over a container or builds the image again, Down goes on to
\* the data.
Unanswered(r) ==
  /\ Works(r) /\ faults < MaxFaults /\ faults' = faults + 1
  /\ \/ At(r, "check") /\ cont.state # "absent" /\ UNCHANGED missed
        /\ Goto(r, IF golden # "none" THEN "layout" ELSE "gdelete")
     \/ At(r, "check") /\ cont.state = "absent" /\ golden # "none" /\ UNCHANGED missed
        /\ Goto(r, "gdelete")
     \/ At(r, "delete") /\ cont.state # "absent" /\ missed' = TRUE
        /\ Goto(r, "wipe")
  /\ UNCHANGED <<world, image, journal, daemon, unresolved, cancels>>

\* A build container that is already there is good enough.
BadAfterClear == IF build = NoBuild THEN "glaunch" ELSE "gstop"
AfterClear == "glaunch"

\* Clearing a stale build container may fail; nobody looks.
ClearBuild(r) ==
  /\ At(r, "gdelete")
  /\ \/ Works(r) /\ build' = NoBuild /\ UNCHANGED faults
     \/ ~Works(r) /\ UNCHANGED <<build, faults>>
     \/ faults < MaxFaults /\ faults' = faults + 1 /\ UNCHANGED build
  /\ Goto(r, AfterClear)
  /\ UNCHANGED <<world, golden, journal, daemon, missed, unresolved, cancels>>

\* Launch leaves a container that exists as it is.
LaunchBuild(r) ==
  /\ At(r, "glaunch") /\ Works(r)
  /\ build' = IF build = NoBuild THEN [state |-> "RUNNING", pg |-> FALSE] ELSE build
  /\ Goto(r, "gscript")
  /\ UNCHANGED <<world, golden, journal, daemon, missed, bounds>>

\* WaitIPv4 gives up on a stopped container; the script runs from the top.
BuildScript(r) ==
  /\ At(r, "gscript") /\ Works(r) /\ build.state = "RUNNING"
  /\ build' = [build EXCEPT !.pg = TRUE]
  /\ Goto(r, "gstop")
  /\ UNCHANGED <<world, golden, journal, daemon, missed, bounds>>

StopBuild(r) ==
  /\ At(r, "gstop") /\ Works(r)
  /\ build' = [build EXCEPT !.state = "STOPPED"]
  /\ Goto(r, "galias")
  /\ UNCHANGED <<world, golden, journal, daemon, missed, bounds>>

\* Publish removes the image there is first; nobody looks at the error.
DropAlias(r) ==
  /\ At(r, "galias")
  /\ \/ golden' = (IF Works(r) THEN "none" ELSE golden) /\ UNCHANGED faults
     \/ golden # "none" /\ faults < MaxFaults /\ faults' = faults + 1 /\ UNCHANGED golden
  /\ Goto(r, "gpublish")
  /\ UNCHANGED <<world, build, journal, daemon, missed, unresolved, cancels>>

\* The deferred delete of the build container runs without the request's
\* context, and may fail; nobody looks.
DropsBuild ==
  \/ build' = (IF mounted THEN NoBuild ELSE build) /\ UNCHANGED faults
  \/ build # NoBuild /\ faults < MaxFaults /\ faults' = faults + 1 /\ UNCHANGED build

PublishGolden(r) ==
  /\ At(r, "gpublish") /\ Works(r) /\ golden = "none"
  /\ golden' = IF build.pg THEN "full" ELSE "bare"
  /\ DropsBuild
  /\ Goto(r, "layout")
  /\ UNCHANGED <<world, journal, daemon, missed, unresolved, cancels>>

\* The build failed.
CleanBuild(r) ==
  /\ At(r, "gclean")
  /\ DropsBuild
  /\ Ends(r)
  /\ UNCHANGED <<world, golden, journal, daemon, missed, unresolved, cancels>>

EnsureLayout(r) ==
  /\ At(r, "layout")
  /\ slot' = IF slot = "none" /\ mounted THEN "empty" ELSE slot
  /\ Goto(r, "launch")
  /\ UNCHANGED <<mounted, cont, initial, image, journal, daemon, missed, bounds>>

Launch(r) ==
  /\ At(r, "launch") /\ Works(r)
  /\ cont' = IF cont.state = "absent" THEN [NoContainer EXCEPT !.state = "RUNNING"] ELSE cont
  /\ Goto(r, "disk")
  /\ UNCHANGED <<mounted, slot, initial, image, journal, daemon, missed, bounds>>

AddDiskDevice(r) ==
  /\ At(r, "disk") /\ Works(r) /\ cont.state # "absent"
  /\ cont' = [cont EXCEPT !.disk = TRUE]
  /\ Goto(r, "cluster")
  /\ UNCHANGED <<mounted, slot, initial, image, journal, daemon, missed, bounds>>

\* The cluster is created where the data directory is; data found there stays.
ClusterScript(r) ==
  /\ At(r, "cluster") /\ Works(r) /\ cont.state = "RUNNING"
  /\ cont' = [cont EXCEPT !.cluster = IF cont.disk THEN "slot" ELSE "rootfs"]
  /\ slot' = IF cont.disk /\ slot = "empty" THEN "cluster" ELSE slot
  /\ Goto(r, "role")
  /\ UNCHANGED <<mounted, initial, image, journal, daemon, missed, bounds>>

RoleScript(r) ==
  /\ At(r, "role") /\ Works(r) /\ cont.state = "RUNNING"
  /\ slot' = IF slot = "cluster" THEN "db" ELSE slot
  /\ Goto(r, "begin")
  /\ UNCHANGED <<mounted, cont, initial, image, journal, daemon, missed, bounds>>

-----------------------------------------------------------------------------
(* Snapshot and restore *)

Kind(r) == IF req[r].op = "restore" THEN "restore" ELSE "snapshot"

\* A record's ensures: PostgreSQL, or the container, is up again.
Ensured(k, state) ==
  CASE k = "snapshot" -> state = "RUNNING"
    [] k = "restore" -> wasRunning => state # "absent"

\* The state of the container once these records have been unwound.
Unwound(kinds) ==
  IF "restore" \notin kinds \/ cont.state = "absent" THEN {cont.state}
  ELSE IF wasRunning THEN {"RUNNING"} ELSE {cont.state, "STOPPED"}

\* It may be left stopped when an undo or an ensure fails by itself; without a
\* client none of them touches it.
Resolved(kinds, works, fault) ==
  CASE fault /\ "restore" \in kinds /\ cont.state # "absent" -> {cont.state, "STOPPED", "RUNNING"}
    [] works -> Unwound(kinds)
    [] OTHER -> {cont.state}

\* resolve of task.go: the record goes whatever became of the undos and the
\* ensures, whose errors are returned.  It stays when it cannot be removed.
BadResolve(kinds, works, nil, fault) ==
  \E state \in Resolved(kinds, works, fault) :
    /\ cont' = [cont EXCEPT !.state = state]
    /\ nil = (works /\ ~fault /\ \A k \in kinds : Ensured(k, state))
    /\ records' = IF nil THEN records \ kinds ELSE records
    /\ UNCHANGED unresolved
Resolve(kinds, works, nil, fault) ==
  \E state \in Resolved(kinds, works, fault) :
    /\ cont' = [cont EXCEPT !.state = state]
    /\ \/ /\ nil = (works /\ ~fault /\ \A k \in kinds : Ensured(k, state))
          /\ records' = records \ kinds /\ UNCHANGED unresolved
       \/ /\ ~nil /\ unresolved < MaxUnresolved
          /\ UNCHANGED records /\ unresolved' = unresolved + 1

Faulty(fault) ==
  IF fault THEN faults < MaxFaults /\ faults' = faults + 1 ELSE UNCHANGED faults

\* task.Recover, of whatever the mounted store has in its journal.
Recover(r) ==
  /\ At(r, "recover")
  /\ IF mounted /\ records # {}
       THEN \E nil, fault \in BOOLEAN :
              /\ Resolve(records, Works(r), nil, fault) /\ Faulty(fault)
              /\ IF nil THEN Goto(r, "begin") ELSE Ends(r)
       ELSE Goto(r, "begin") /\ UNCHANGED <<cont, records, faults, unresolved>>
  /\ UNCHANGED <<mounted, slot, initial, image, wasRunning, daemon, missed, cancels>>

\* The prechecks, and the record.
Begin(r) ==
  /\ At(r, "begin") /\ Works(r)
  /\ IF IF Kind(r) = "restore" THEN initial
        ELSE cont.state = "RUNNING" /\ (req[r].op = "up" => ~initial)
       THEN /\ records' = records \cup {Kind(r)}
            /\ wasRunning' = IF Kind(r) = "restore" THEN cont.state = "RUNNING" ELSE wasRunning
            /\ Goto(r, "task")
       ELSE Ends(r) /\ UNCHANGED journal
  /\ UNCHANGED <<world, image, daemon, missed, bounds>>

TaskDone(r) ==
  /\ At(r, "task") /\ Kind(r) = "snapshot" /\ Works(r) /\ cont.state = "RUNNING"
  /\ records' = records \ {"snapshot"}
  /\ IF req[r].op = "up" THEN Goto(r, "forward") /\ initial' = TRUE ELSE Ends(r) /\ UNCHANGED initial
  /\ UNCHANGED <<mounted, cont, slot, image, wasRunning, daemon, missed, bounds>>

RestoreStops(r) ==
  /\ At(r, "task") /\ Kind(r) = "restore" /\ Works(r) /\ cont.state # "absent"
  /\ cont' = [cont EXCEPT !.state = "STOPPED"]
  /\ Goto(r, "stopped")
  /\ UNCHANGED <<mounted, slot, initial, image, journal, daemon, missed, bounds>>

RestoreDone(r) ==
  /\ At(r, "stopped") /\ Works(r) /\ cont.state # "absent"
  /\ cont' = [cont EXCEPT !.state = "RUNNING"]
  /\ records' = records \ {"restore"}
  /\ Ends(r)
  /\ UNCHANGED <<mounted, slot, initial, image, wasRunning, daemon, missed, bounds>>

\* What makes a step or an Advance fail: no client, no container, no record.
Lacks(r) ==
  \/ ~Works(r) \/ Kind(r) \notin records \/ cont.state = "absent"
  \/ Kind(r) = "snapshot" /\ cont.state # "RUNNING"

\* The task is resolved at once; Up's snapshot may be there although it failed.
TaskFails(r) ==
  /\ req[r].pc \in {"task", "stopped"}
  /\ \E nil, fault \in BOOLEAN :
       Resolve({Kind(r)}, Works(r), nil, fault) /\ Faulty(fault \/ ~Lacks(r))
  /\ \/ UNCHANGED initial
     \/ req[r].op = "up" /\ initial' = TRUE
  /\ Ends(r)
  /\ UNCHANGED <<mounted, slot, image, wasRunning, daemon, missed, cancels>>

-----------------------------------------------------------------------------
(* Down, Start, Stop, Reconcile *)

\* Down goes on to the data whatever became of the container.
BadAfterFailedDelete(r) == Goto(r, "wipe")
AfterFailedDelete(r) == Ends(r)

Delete(r) ==
  /\ At(r, "delete")
  /\ cont' = IF Exists(r) THEN NoContainer ELSE cont
  /\ missed' = (missed \/ (mounted /\ cont'.state # "absent"))
  /\ Goto(r, "wipe")
  /\ UNCHANGED <<mounted, slot, initial, image, journal, daemon, bounds>>

DeleteFails(r) ==
  /\ At(r, "delete") /\ Exists(r) /\ faults < MaxFaults
  /\ faults' = faults + 1
  /\ AfterFailedDelete(r)
  /\ UNCHANGED <<world, image, journal, daemon, missed, unresolved, cancels>>

\* Only of a mounted store; os.RemoveAll takes no context.
Wipe(r) ==
  /\ At(r, "wipe")
  /\ IF mounted THEN slot' = "none" /\ initial' = FALSE ELSE UNCHANGED <<slot, initial>>
  /\ Ends(r)
  /\ UNCHANGED <<mounted, cont, image, journal, daemon, missed, bounds>>

Start(r) ==
  /\ At(r, "start") /\ Exists(r)
  /\ cont' = [cont EXCEPT !.state = "RUNNING"]
  /\ Goto(r, "forward")
  /\ UNCHANGED <<mounted, slot, initial, image, journal, daemon, missed, bounds>>

Stop(r) ==
  /\ At(r, "stop") /\ Exists(r)
  /\ cont' = [cont EXCEPT !.state = "STOPPED"]
  /\ Ends(r)
  /\ UNCHANGED <<mounted, slot, initial, image, journal, daemon, missed, bounds>>

\* reconcile asserts the proxy device of a running backend, and nothing else.
Forward(r) ==
  /\ At(r, "forward") /\ Works(r)
  /\ cont' = [cont EXCEPT !.proxy = @ \/ cont.state = "RUNNING"]
  /\ Ends(r)
  /\ UNCHANGED <<mounted, slot, initial, image, journal, daemon, missed, bounds>>

\* A command fails: for want of what it works on, or by itself.
CommandFails(r) ==
  /\ req[r].pc \in (Building \ {"gdelete", "galias"})
                   \cup {"launch", "disk", "cluster", "role", "begin", "start", "stop", "forward"}
  /\ \/ faults < MaxFaults /\ faults' = faults + 1
     \/ /\ \/ ~Works(r)
           \/ At(r, "gscript") /\ build.state = "STOPPED"
           \/ At(r, "gpublish") /\ golden # "none"
           \/ req[r].pc \in {"disk", "start", "stop"} /\ cont.state = "absent"
           \/ req[r].pc \in {"cluster", "role"} /\ cont.state # "RUNNING"
        /\ UNCHANGED faults
  /\ IF req[r].pc \in Building THEN Goto(r, "gclean") ELSE Ends(r)
  /\ UNCHANGED <<world, image, journal, daemon, missed, unresolved, cancels>>

-----------------------------------------------------------------------------
(* Clients, the daemon, the machine *)

\* Ctrl-C, or the 30 seconds of the HTTP client; the daemon's request goes on
\* with a context that is done.
Cancel(r) ==
  /\ r \in Reqs /\ ~At(r, "idle") /\ req[r].live /\ cancels < MaxCancels
  /\ cancels' = cancels + 1
  /\ req' = [req EXCEPT ![r].live = FALSE]
  /\ UNCHANGED <<world, image, journal, daemon, lock, faults, missed, unresolved>>

\* The daemon ends, and with it whatever it was doing.
Drops(R) ==
  /\ daemon' = "down" /\ lock' = None
  /\ req' = [r \in All |-> IF r \in R THEN Idle ELSE req[r]]

Kill ==
  /\ daemon = "serving" /\ faults < MaxFaults
  /\ faults' = faults + 1
  /\ Drops(Reqs)
  /\ UNCHANGED <<world, image, journal, missed, unresolved, cancels>>

\* Incus starts what was running when the machine went down.
Reboot ==
  /\ faults < MaxFaults
  /\ faults' = faults + 1
  /\ mounted' \in BOOLEAN
  /\ Drops(All)
  /\ UNCHANGED <<cont, slot, initial, image, journal, missed, unresolved, cancels>>

\* `make start` on a machine whose store is not there restarts the daemon.
Redeploy ==
  /\ daemon = "serving" /\ ~mounted
  /\ Drops(Reqs)
  /\ UNCHANGED <<world, image, journal, missed, bounds>>

\* ExecStartPre: bootstrap mounts the store; that it may fail does not matter.
DaemonStart ==
  /\ daemon = "down"
  /\ \/ mounted' = TRUE /\ UNCHANGED faults
     \/ faults < MaxFaults /\ faults' = faults + 1 /\ UNCHANGED mounted
  /\ daemon' = "recovering"
  /\ UNCHANGED <<cont, slot, initial, image, journal, lock, req, missed, unresolved, cancels>>

\* RecoverPending before it serves; with an error the daemon exits and systemd
\* starts it again.  The journal is on the store.
DaemonRecovers ==
  /\ daemon = "recovering"
  /\ IF mounted /\ records # {}
       THEN \E nil, fault \in BOOLEAN :
              /\ Resolve(records, TRUE, nil, fault) /\ Faulty(fault)
              /\ daemon' = IF nil THEN "serving" ELSE "down"
       ELSE daemon' = "serving" /\ UNCHANGED <<cont, records, faults, unresolved>>
  /\ UNCHANGED <<mounted, slot, initial, image, wasRunning, lock, req, missed, cancels>>

Ups(r) ==
  \/ UpCheck(r) \/ ClearBuild(r) \/ LaunchBuild(r) \/ BuildScript(r) \/ StopBuild(r)
  \/ DropAlias(r) \/ PublishGolden(r) \/ CleanBuild(r) \/ EnsureLayout(r) \/ Launch(r)
  \/ AddDiskDevice(r) \/ ClusterScript(r) \/ RoleScript(r)
Tasks(r) == Recover(r) \/ Begin(r) \/ TaskDone(r) \/ RestoreStops(r) \/ RestoreDone(r) \/ TaskFails(r)
Handles(r) == Delete(r) \/ DeleteFails(r) \/ Wipe(r) \/ Start(r) \/ Stop(r) \/ Forward(r)
Step(r) == Enter(r) \/ Ups(r) \/ Unanswered(r) \/ Tasks(r) \/ Handles(r) \/ CommandFails(r)

Next ==
  \/ \E r \in All : Step(r) \/ Cancel(r) \/ \E op \in Ops : Call(r, op)
  \/ Kill \/ Reboot \/ Redeploy \/ DaemonStart \/ DaemonRecovers

Spec == Init /\ [][Next]_vars

Ready ==
  /\ mounted /\ cont.state = "RUNNING" /\ cont.disk /\ cont.proxy /\ cont.cluster = "slot"
  /\ slot = "db" /\ initial

\* A request that got the mutex goes on, systemd restarts the daemon, and
\* somebody asks for `up` while there is no container and for `down` while
\* there is an unfinished one, as the error message of Up says.
Fairness ==
  /\ \A r \in All : SF_vars(Step(r))
  /\ WF_vars(DaemonStart) /\ WF_vars(DaemonRecovers) /\ WF_vars(Redeploy)
  /\ SF_vars(\E r \in Reqs : cont.state = "absent" /\ Call(r, "up"))
  /\ SF_vars(\E r \in Reqs : cont.state # "absent" /\ ~Ready /\ Call(r, "down"))
FairSpec == Spec /\ Fairness

-----------------------------------------------------------------------------
(* Properties *)

\* When Up returns nil the machine serves: the container runs on the slot's
\* disk, with its database, the proxy device and the snapshot to go back to,
\* whatever other requests came in meanwhile (provision.go Up).
UpLeavesReady == [][\A r \in Reqs : req[r].op = "up" /\ Forward(r) => Ready']_vars

\* The data of a container that has a database is there: Down removes it only
\* once the container is gone (provision.go:171-173).
DataUnderContainer == cont.cluster = "slot" => slot \in {"cluster", "db"}

\* The golden image has PostgreSQL in it, whatever build it came from.
GoldenComplete == golden # "bare"

\* The same unless a Down took a container it could not ask about for absent, as
\* it does when its client went away or `incus info` failed: nothing else that
\* fails, is killed or runs next to it removes the data under a container.
KeptUnderContainer == ~missed => DataUnderContainer

\* A record is replayed only when nobody is working on it any more: what is
\* recovered was interrupted (cmd/pgdevd/main.go:129-130).
ReplaysOnlyInterrupted ==
  [][\A r \in All : Recover(r) =>
       \A q \in All \ {r} : req[q].pc \in {"task", "stopped"} => Kind(q) \notin records]_vars

\* Clients that go by the error messages get a machine that serves, over and
\* over, whatever failed, was killed or went away before.
AlwaysReadyAgain == []<>Ready

\* A daemon that went down serves again (the unit, deploy.go:36-39).
DaemonComesBack == daemon = "down" ~> daemon = "serving"
=============================================================================
