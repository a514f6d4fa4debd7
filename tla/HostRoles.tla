------------------------------ MODULE HostRoles ------------------------------
(***************************************************************************)
(* The host's commands on the two machines (cmd/pgdev): how a command      *)
(* turns a role into a slot, the slot into an address, and the address     *)
(* into a machine; deploying the daemon, and rebuilding the staging        *)
(* machine from nothing.  A call of a daemon is one step here;             *)
(* DaemonService has its steps.                                            *)
(***************************************************************************)
EXTENDS Naturals, Sequences, FiniteSets

CONSTANTS
  Addrs,      \* addresses a machine's lease can have
  Clis,       \* pgdev commands that may run at the same time
  Cmds,       \* the commands users run
  MaxFaults,  \* bound: steps that fail, timeouts that run out
  MaxMisses,  \* bound: live readings of an address that fail
  MaxReboots  \* bound: restarts of the host, and so of both machines

Slots == {"a", "b"}
NoIp == "no ip"
Both == <<"a", "b">>

ASSUME HostAssumption ==
  /\ NoIp \notin Addrs /\ Cardinality(Addrs) >= 2
  /\ Cmds \subseteq {"up", "down", "refresh", "ip", "deploy", "start", "stop", "promote", "rebuild"}
  /\ MaxFaults \in Nat /\ MaxMisses \in Nat /\ MaxReboots \in Nat

VARIABLES
  machine,  \* the machines: life, lease, daemon on disk, unit, daemon answering, backend, data
  ipFile,   \* var/machine-ip-<slot>
  pointer,  \* var/active-machine, or absent
  cli,      \* the commands: what, where in it, slots or roles still to do, address
  faults, misses, reboots

bounds == <<faults, misses, reboots>>
vars == <<machine, ipFile, pointer, cli, bounds>>

Blank == [life |-> "stopped", ip |-> NoIp, bin |-> "none", unit |-> FALSE, serving |-> "none",
          backend |-> "absent", db |-> "none"]
NoMachine == [Blank EXCEPT !.life = "absent"]
Idle == [cmd |-> "none", pc |-> "idle", to |-> "none", todo |-> <<>>, addr |-> NoIp]

\* A promote that asks the machine that takes over, and not the other one.
BadTodo == [up |-> Both, down |-> Both, refresh |-> Both, deploy |-> Both, promote |-> <<"staging">>,
            ip |-> <<"active", "staging">>, start |-> <<"staging">>, stop |-> <<"staging">>]
\* What each command goes through, slot by slot or role by role.
Todo == [up |-> Both, down |-> Both, refresh |-> Both, deploy |-> Both, promote |-> Both,
         ip |-> <<"active", "staging">>, start |-> <<"staging">>, stop |-> <<"staging">>]

TypeOK ==
  /\ machine \in [Slots -> [life : {"absent", "stopped", "up"}, ip : Addrs \cup {NoIp},
                            bin : {"none", "old", "new"}, unit : BOOLEAN,
                            serving : {"none", "old", "new"},
                            backend : {"absent", "RUNNING", "STOPPED"},
                            db : {"none", "partial", "old", "fresh"}]]
  /\ \A s \in Slots : (machine[s].ip # NoIp) = (machine[s].life = "up")
  /\ machine["a"].ip # NoIp => machine["a"].ip # machine["b"].ip
  /\ ipFile \in [Slots -> Addrs \cup {NoIp}]
  /\ pointer \in Slots \cup {"absent"}
  /\ cli \in [Clis -> [cmd : Cmds \cup {"none"}, to : Slots \cup {"none"},
                       todo : Seq(Slots \cup {"active", "staging"}), addr : Addrs \cup {NoIp},
                       pc : {"idle", "dial", "call", "stat", "set", "flip", "confirm",
                             "delete", "create", "boot", "ready", "readip", "install", "restart",
                             "client", "await"}]]
  /\ faults \in 0..MaxFaults /\ misses \in 0..MaxMisses /\ reboots \in 0..MaxReboots

\* Two machines `make start` left behind, with the backends of an earlier
\* `pgdev up` or without.
Init ==
  /\ \E f \in [Slots -> Addrs], provisioned \in BOOLEAN :
       /\ f["a"] # f["b"]
       /\ machine = [s \in Slots |->
            [life |-> "up", ip |-> f[s], bin |-> "old", unit |-> TRUE, serving |-> "old",
             backend |-> IF provisioned THEN "RUNNING" ELSE "absent",
             db |-> IF provisioned THEN "old" ELSE "none"]]
       /\ ipFile = f
       /\ pointer = IF provisioned THEN "a" ELSE "absent"
  /\ cli = [p \in Clis |-> Idle]
  /\ faults = 0 /\ misses = 0 /\ reboots = 0

-----------------------------------------------------------------------------
(* Roles, addresses, machines *)

Active == IF pointer = "b" THEN "b" ELSE "a"

\* Without a pointer no machine is the other one.
BadStaging == CASE pointer = "a" -> "b" [] pointer = "b" -> "a" [] OTHER -> pointer
Staging == IF Active = "a" THEN "b" ELSE "a"
RoleSlot(w) == CASE w = "active" -> Active [] w = "staging" -> Staging [] OTHER -> w

\* `ip addr` run in the machine; it may fail, and nobody looks at the error.
LiveIp(s) == {machine[s].ip} \cup (IF misses < MaxMisses THEN {NoIp} ELSE {})
Missed(s, ip) == misses' = IF ip = machine[s].ip THEN misses ELSE misses + 1

\* The file, and only without one the machine.
MachineIp(s, ip) ==
  IF ipFile[s] # NoIp THEN ip = ipFile[s] /\ UNCHANGED misses
  ELSE ip \in LiveIp(s) /\ Missed(s, ip)
WriteMachineIpFile(s, ip) == ipFile' = IF ip = NoIp THEN ipFile ELSE [ipFile EXCEPT ![s] = ip]

\* Whoever has the address answers: both daemons take the same token.
Answers(addr) == {s \in Slots : machine[s].ip = addr /\ machine[s].serving # "none"}

At(p, pc) == cli[p].pc = pc
Doing(p, cmd) == cli[p].cmd = cmd
Slot(p) == RoleSlot(Head(cli[p].todo))
Goto(p, pc) == cli' = [cli EXCEPT ![p].pc = pc]
Ends(p) == cli' = [cli EXCEPT ![p] = Idle]
Fault == faults < MaxFaults /\ faults' = faults + 1

\* The next slot of a command, or what comes after the last one.
NextSlot(p, pc, after) ==
  LET c == cli[p] IN
    cli' = [cli EXCEPT ![p] =
              IF Len(c.todo) > 1 THEN [c EXCEPT !.todo = Tail(c.todo), !.pc = pc]
              ELSE IF after = "idle" THEN Idle ELSE [c EXCEPT !.pc = after]]

\* The two variables of the rebuild command the wrong way round.
BadRebuildRoles == [staging |-> Active, active |-> Staging]
RebuildRoles == [staging |-> Staging, active |-> Active]

Run(p, cmd) ==
  /\ At(p, "idle")
  /\ cmd = "rebuild" => RebuildRoles.staging # RebuildRoles.active
  /\ cli' = [cli EXCEPT ![p] =
       [cmd |-> cmd, addr |-> NoIp,
        todo |-> IF cmd = "rebuild" THEN <<RebuildRoles.staging>> ELSE Todo[cmd],
        to |-> IF cmd = "promote" THEN Staging ELSE "none",
        pc |-> CASE cmd = "deploy" -> "ready" [] cmd = "rebuild" -> "confirm" [] OTHER -> "dial"]]
  /\ UNCHANGED <<machine, ipFile, pointer, bounds>>

-----------------------------------------------------------------------------
(* Calling a daemon *)

\* Without an address down and refresh warn and go on; the others end.
Dial(p) ==
  /\ At(p, "dial")
  /\ \E ip \in Addrs \cup {NoIp} :
       /\ MachineIp(Slot(p), ip)
       /\ IF cli[p].cmd \in {"refresh", "ip"} THEN WriteMachineIpFile(Slot(p), ip) ELSE UNCHANGED ipFile
       /\ CASE Doing(p, "ip") \/ (ip = NoIp /\ cli[p].cmd \in {"down", "refresh"}) ->
                 NextSlot(p, "dial", "idle")
            [] ip = NoIp /\ cli[p].cmd \notin {"ip", "down", "refresh"} -> Ends(p)
            [] OTHER -> cli' = [cli EXCEPT ![p].pc = "call", ![p].addr = ip]
  /\ UNCHANGED <<machine, pointer, faults, reboots>>

\* What the daemon of machine m does, when it does it.
Serves(cmd, m) ==
  CASE cmd \in {"up", "rebuild"} -> m.backend = "absent"
    [] cmd \in {"start", "stop"} -> m.backend # "absent"
    [] cmd = "promote" -> m.backend = "RUNNING"
    [] OTHER -> TRUE
Served(cmd, m) ==
  CASE cmd \in {"up", "rebuild"} ->
         [m EXCEPT !.backend = "RUNNING", !.db = IF m.db = "none" THEN "fresh" ELSE m.db]
    [] cmd = "down" -> [m EXCEPT !.backend = "absent", !.db = "none"]
    [] cmd = "start" -> [m EXCEPT !.backend = "RUNNING"]
    [] cmd = "stop" -> [m EXCEPT !.backend = "STOPPED"]
    [] OTHER -> m

Call(p) ==
  /\ At(p, "call")
  /\ \E s \in Answers(cli[p].addr) :
       /\ Serves(cli[p].cmd, machine[s])
       /\ machine' = [machine EXCEPT ![s] = Served(cli[p].cmd, machine[s])]
  /\ NextSlot(p, "dial", CASE Doing(p, "up") -> "stat" [] Doing(p, "promote") -> "flip"
                           [] OTHER -> "idle")
  /\ UNCHANGED <<ipFile, pointer, bounds>>

\* Nobody answers, the daemon refuses, or it fails half way; a failed Up leaves
\* a backend that the next one refuses to touch.
CallFails(p) ==
  /\ At(p, "call")
  /\ \/ /\ \A s \in Answers(cli[p].addr) : ~Serves(cli[p].cmd, machine[s])
        /\ UNCHANGED <<machine, faults>>
     \/ /\ Fault
        /\ \/ UNCHANGED machine
           \/ /\ cli[p].cmd \in {"up", "rebuild"}
              /\ \E s \in Answers(cli[p].addr) :
                   /\ machine[s].backend = "absent"
                   /\ machine' = [machine EXCEPT ![s].backend = "RUNNING", ![s].db = "partial"]
  /\ IF cli[p].cmd \in {"down", "refresh"} THEN NextSlot(p, "dial", "idle") ELSE Ends(p)
  /\ UNCHANGED <<ipFile, pointer, misses, reboots>>

\* An up looks whether there is a pointer, and then writes one: a promote may end
\* in between.
UpStat(p) ==
  /\ At(p, "stat")
  /\ IF pointer = "absent" THEN Goto(p, "set") ELSE Ends(p)
  /\ UNCHANGED <<machine, ipFile, pointer, bounds>>

UpSet(p) ==
  /\ At(p, "set")
  /\ pointer' = "a"
  /\ Ends(p)
  /\ UNCHANGED <<machine, ipFile, bounds>>

Flip(p) ==
  /\ At(p, "flip")
  /\ pointer' = cli[p].to
  /\ Ends(p)
  /\ UNCHANGED <<machine, ipFile, bounds>>

\* The pointer cannot be looked at, or written; it stays as it was.
PointerFails(p) ==
  /\ cli[p].pc \in {"stat", "set", "flip"} /\ Fault
  /\ Ends(p)
  /\ UNCHANGED <<machine, ipFile, pointer, misses, reboots>>

-----------------------------------------------------------------------------
(* deploy *)

\* A machine gets a lease when its first command runs; its daemon starts when
\* its unit is enabled.
Boots(s) ==
  \E ip \in Addrs \ {machine[t].ip : t \in Slots} :
    machine' = [machine EXCEPT ![s].life = "up", ![s].ip = ip]

Deploying == {"ready", "install", "restart", "client", "await"}

DeployReady(p) ==
  /\ At(p, "ready") /\ machine[Slot(p)].life # "absent"
  /\ IF machine[Slot(p)].life = "up" THEN UNCHANGED machine ELSE Boots(Slot(p))
  /\ Goto(p, "readip")
  /\ UNCHANGED <<ipFile, pointer, bounds>>

\* A fresh lease makes the cached address stale; it is not read again here.
BadRefreshIp(s, ip) == UNCHANGED ipFile
RefreshIp(s, ip) == WriteMachineIpFile(s, ip)

DeployReadIp(p) ==
  /\ At(p, "readip")
  /\ \E ip \in LiveIp(Slot(p)) : RefreshIp(Slot(p), ip) /\ Missed(Slot(p), ip)
  /\ Goto(p, "install")
  /\ UNCHANGED <<machine, pointer, faults, reboots>>

DeployInstall(p) ==
  /\ At(p, "install") /\ machine[Slot(p)].life = "up"
  /\ machine' = [machine EXCEPT ![Slot(p)].bin = "new", ![Slot(p)].unit = TRUE]
  /\ Goto(p, "restart")
  /\ UNCHANGED <<ipFile, pointer, bounds>>

DeployRestart(p) ==
  /\ At(p, "restart") /\ machine[Slot(p)].unit
  /\ machine' = [machine EXCEPT ![Slot(p)].serving = "none"]
  /\ Goto(p, "client")
  /\ UNCHANGED <<ipFile, pointer, bounds>>

AwaitClient(p) ==
  /\ At(p, "client")
  /\ \E ip \in Addrs : MachineIp(Slot(p), ip) /\ cli' = [cli EXCEPT ![p].pc = "await", ![p].addr = ip]
  /\ UNCHANGED <<machine, ipFile, pointer, faults, reboots>>

Shipped(p) == \E s \in Answers(cli[p].addr) : machine[s].serving = "new"

AwaitVersion(p) ==
  /\ At(p, "await") /\ Shipped(p)
  /\ IF Doing(p, "rebuild") THEN Goto(p, "dial") ELSE NextSlot(p, "ready", "idle")
  /\ UNCHANGED <<machine, ipFile, pointer, bounds>>

\* A step of deploy fails, the one that installs perhaps half way; no machine,
\* no address, or 90 seconds without the version that was shipped.
DeployFails(p) ==
  /\ cli[p].pc \in Deploying
  /\ \/ /\ Fault
        /\ \/ UNCHANGED machine
           \/ At(p, "install") /\ machine' = [machine EXCEPT ![Slot(p)].bin = "new"]
        /\ UNCHANGED misses
     \/ /\ \/ machine[Slot(p)].life = "absent" /\ UNCHANGED misses
           \/ At(p, "client") /\ MachineIp(Slot(p), NoIp)
           \/ At(p, "await") /\ machine[Slot(p)].ip # cli[p].addr /\ ~Shipped(p) /\ UNCHANGED misses
        /\ UNCHANGED <<machine, faults>>
  /\ Ends(p)
  /\ UNCHANGED <<ipFile, pointer, reboots>>

-----------------------------------------------------------------------------
(* staging rebuild *)

Confirm(p) ==
  /\ At(p, "confirm")
  /\ Goto(p, "delete") \/ Ends(p)
  /\ UNCHANGED <<machine, ipFile, pointer, bounds>>

\* The machine is stopped before it is deleted.
Stopped(s) == [machine[s] EXCEPT !.life = IF @ = "absent" THEN @ ELSE "stopped", !.ip = NoIp,
                                 !.serving = "none"]
StopsOrNot(s) == machine' \in {machine, [machine EXCEPT ![s] = Stopped(s)]}

\* Success is absence: a machine that is not there has been deleted.
BadDeletes(s) == machine[s].life # "absent"
Deletes(s) == TRUE

Delete(p) ==
  /\ At(p, "delete")
  /\ IF Deletes(Slot(p))
       THEN machine' = [machine EXCEPT ![Slot(p)] = NoMachine] /\ Goto(p, "create")
       ELSE UNCHANGED machine /\ Ends(p)
  /\ UNCHANGED <<ipFile, pointer, bounds>>

\* `machine inspect` that fails is absence as well, before the stop or after a
\* delete that did not delete.
DeleteUnseen(p) ==
  /\ At(p, "delete") /\ Fault
  /\ StopsOrNot(Slot(p))
  /\ Goto(p, "create")
  /\ UNCHANGED <<ipFile, pointer, misses, reboots>>

Create(p) ==
  /\ At(p, "create") /\ machine[Slot(p)].life = "absent"
  /\ machine' = [machine EXCEPT ![Slot(p)] = Blank]
  /\ Goto(p, "boot")
  /\ UNCHANGED <<ipFile, pointer, bounds>>

Boot(p) ==
  /\ At(p, "boot") /\ machine[Slot(p)].life # "absent"
  /\ IF machine[Slot(p)].life = "up" THEN UNCHANGED machine ELSE Boots(Slot(p))
  /\ Goto(p, "ready")
  /\ UNCHANGED <<ipFile, pointer, bounds>>

\* A machine that is not deleted stays stopped, or whole.
RecreateFails(p) ==
  /\ cli[p].pc \in {"delete", "create", "boot"}
  /\ \/ Fault /\ IF At(p, "delete") THEN StopsOrNot(Slot(p)) ELSE UNCHANGED machine
     \/ At(p, "create") /\ machine[Slot(p)].life # "absent" /\ UNCHANGED <<machine, faults>>
     \/ At(p, "boot") /\ machine[Slot(p)].life = "absent" /\ UNCHANGED <<machine, faults>>
  /\ Ends(p)
  /\ UNCHANGED <<ipFile, pointer, misses, reboots>>

-----------------------------------------------------------------------------
(* The world *)

\* systemd starts the daemon, after its bootstrap.
DaemonServes(s) ==
  /\ machine[s].life = "up" /\ machine[s].unit /\ machine[s].serving = "none"
  /\ machine' = [machine EXCEPT ![s].serving = machine[s].bin]
  /\ UNCHANGED <<ipFile, pointer, cli, bounds>>

\* The Mac restarts: commands are gone, machines come back with other leases.
Reboot ==
  /\ reboots < MaxReboots
  /\ reboots' = reboots + 1
  /\ \E f \in [Slots -> Addrs] :
       /\ f["a"] # f["b"]
       /\ machine' = [s \in Slots |->
            IF machine[s].life = "up" THEN [machine[s] EXCEPT !.ip = f[s], !.serving = "none"]
            ELSE machine[s]]
  /\ cli' = [p \in Clis |-> Idle]
  /\ UNCHANGED <<ipFile, pointer, faults, misses>>

Calls(p) == Dial(p) \/ Call(p) \/ CallFails(p) \/ UpStat(p) \/ UpSet(p) \/ Flip(p) \/ PointerFails(p)
Deploys(p) ==
  \/ DeployReady(p) \/ DeployReadIp(p) \/ DeployInstall(p) \/ DeployRestart(p)
  \/ AwaitClient(p) \/ AwaitVersion(p) \/ DeployFails(p)
Rebuilds(p) == Confirm(p) \/ Delete(p) \/ DeleteUnseen(p) \/ Create(p) \/ Boot(p) \/ RecreateFails(p)
Step(p) == Calls(p) \/ Deploys(p) \/ Rebuilds(p)

Next ==
  \/ \E p \in Clis : Step(p) \/ \E cmd \in Cmds : Run(p, cmd)
  \/ \E s \in Slots : DaemonServes(s)
  \/ Reboot

Spec == Init /\ [][Next]_vars

\* A machine that serves the shipped daemon and a backend, where it is looked for.
Whole(s) ==
  /\ machine[s].life = "up" /\ machine[s].serving = "new" /\ machine[s].ip = ipFile[s]
  /\ machine[s].backend = "RUNNING" /\ machine[s].db = "fresh"

\* Commands go on, systemd starts the daemon, and a user who is not served by
\* the staging machine says yes to rebuilding it.
Fairness ==
  /\ \A p \in Clis :
       /\ WF_vars(Calls(p)) /\ WF_vars(Deploys(p)) /\ WF_vars(Rebuilds(p))
       /\ SF_vars(Confirm(p) /\ cli'[p].pc = "delete")
       /\ SF_vars(Run(p, "rebuild") /\ ~Whole(Staging))
  /\ \A s \in Slots : WF_vars(DaemonServes(s))
FairSpec == Spec /\ Fairness

-----------------------------------------------------------------------------
(* Properties *)

\* A rebuild works on the staging machine: what it deletes, makes, deploys to or
\* provisions is never the machine clients are on (commands.go:523-526).  When an
\* address could not be read it may talk to the wrong daemon; even then it loses
\* no data that is served, since an Up refuses a machine that has a backend.
ActiveNeverTouched ==
  [][\A p \in Clis : Doing(p, "rebuild") /\ Step(p) =>
       /\ misses = 0 => machine'[Active] = machine[Active]
       /\ machine'[Active].life = machine[Active].life
       /\ machine[Active].backend # "absent" => machine'[Active].db = machine[Active].db]_vars

\* As long as addresses can be read, a deploy that reports the daemon live has
\* reached the one of its own machine, and a rebuild that returns nil leaves the
\* staging machine with the shipped daemon and a fresh backend, at the address
\* the other commands and the forwarder use.
ReportedIsDone ==
  [][\A p \in Clis, s \in Slots : misses = 0 =>
       /\ AwaitVersion(p) /\ s = Slot(p) => machine[s].serving = "new" /\ machine[s].ip = ipFile[s]
       /\ Doing(p, "rebuild") /\ Call(p) /\ s = Slot(p) => Whole(s)']_vars

\* A deploy that reports the daemon live has reached the one it shipped, also
\* when the address could not be read (deploy.go:202).
DeployedMeansLive ==
  [][\A p \in Clis : AwaitVersion(p) =>
       machine[Slot(p)].serving = "new" /\ machine[Slot(p)].ip = ipFile[Slot(p)]]_vars

\* A promote gives the active role to a machine with a running backend
\* (commands.go:263-264).  It calls both daemons, by the addresses in the files:
\* these may be stale, or each other's, and as long as they are two addresses the
\* two answers are those of the two machines.
PromotedIsRunning ==
  [][\A p \in Clis : Flip(p) /\ ipFile["a"] # ipFile["b"] =>
       machine'[Active'].life = "up" /\ machine'[Active'].backend = "RUNNING"]_vars

\* An up gives the pointer a default when it has never been written, and does not
\* move the roles (commands.go:41-42).
UpKeepsRoles == [][\A p \in Clis : UpSet(p) => Active' = Active]_vars

\* A staging machine that a command left half made is made whole by asking for
\* the rebuild again, wherever the command before stopped.
AlwaysStagingAgain == []<>Whole(Staging)

\* The staging commands act on the staging machine (commands.go:455).
StagingOnly ==
  [][\A p \in Clis : cli[p].cmd \in {"start", "stop"} /\ Call(p) => machine'[Active] = machine[Active]]_vars

\* After a refresh of a machine that is up its file has its address
\* (commands.go:313).
RefreshedIsLive ==
  [][\A p \in Clis : Doing(p, "refresh") /\ Dial(p) =>
       (machine[Slot(p)].life = "up" => ipFile'[Slot(p)] \in {machine[Slot(p)].ip, NoIp})]_vars
=============================================================================
