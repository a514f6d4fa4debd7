------------------------------- MODULE Launchd -------------------------------
(***************************************************************************)
(* The LaunchAgent that keeps the forwarder running (forward/launchd.go,   *)
(* cmd/pgdev/forward.go): installing it over whatever was there, also over *)
(* the retired socat agent of the same label, and the guard `make start`   *)
(* runs.  launchd itself, the processes and the ports are external.        *)
(***************************************************************************)
EXTENDS Naturals

CONSTANTS
  Clis,          \* pgdev commands that may run at the same time
  MaxBootouts,   \* polls for the old agent to be gone; 20 in the code
  MaxBootstraps, \* attempts to load the new one; 4 in the code
  MaxOthers,     \* bound: install, restart and uninstall, next to `make start`
  MaxFaults,     \* bound: crashes, interrupts, failed calls, ports taken, moves of the repository
  MaxMisses      \* bound: `launchctl print` that does not answer in time

None == "none"
Programs == {"before", "after"}   \* pgdev where the repository was, and where it is moved to

ASSUME LaunchdAssumption ==
  /\ MaxBootouts \in Nat /\ MaxBootstraps \in Nat \ {0}
  /\ MaxOthers \in Nat /\ MaxFaults \in Nat /\ MaxMisses \in Nat

VARIABLES
  repo,   \* where the repository is; the other binary is gone
  plist,  \* the program in the plist, if there is one; torn when it is half written
  job,    \* what launchd has under the label: the program, loaded or being booted out
  proc,   \* the process of the job
  port,   \* who listens on the client ports
  cli,    \* the commands
  unreaped, \* history: the last reap left a child of socat on the ports
  others, faults, misses

agent == <<job, proc, port>>
vars == <<repo, plist, agent, cli, unreaped, others, faults, misses>>

NoJob == [prog |-> None, state |-> "unloaded"]
Loaded(prog) == [prog |-> prog, state |-> "loaded"]
Idle == [pc |-> "idle", tries |-> 0]

TypeOK ==
  /\ repo \in Programs
  /\ plist \in Programs \cup {None, "socat", "torn"}
  /\ job \in {NoJob} \cup [prog : Programs \cup {"socat"}, state : {"loaded", "unloading"}]
  /\ proc \in {None, "starting", "serving", "socat"}
  /\ port \in {None, "agent", "socat", "foreign"}
  /\ (proc = "serving") = (port = "agent")
  /\ cli \in [Clis -> [pc : {"idle", "inspect", "plist", "bootout", "loaded", "reap", "bootstrap",
                             "restart", "remove", "unlink"},
                       tries : 0..MaxBootouts + MaxBootstraps]]
  /\ unreaped \in BOOLEAN
  /\ others \in 0..MaxOthers /\ faults \in 0..MaxFaults /\ misses \in 0..MaxMisses

\* Nothing, an agent of this repository, or the retired one.
Init ==
  /\ repo = "before"
  /\ \/ plist = None /\ job = NoJob /\ proc = None /\ port = None
     \/ plist = "before" /\ job = Loaded("before") /\ proc = "serving" /\ port = "agent"
     \/ plist = "socat" /\ job = Loaded("socat") /\ proc = "socat" /\ port = "socat"
  /\ cli = [p \in Clis |-> Idle]
  /\ unreaped = FALSE /\ others = 0 /\ faults = 0 /\ misses = 0

-----------------------------------------------------------------------------
(* launchd and the processes *)

Fault == faults < MaxFaults /\ faults' = faults + 1

\* KeepAlive and RunAtLoad; a program that is gone exits with EX_CONFIG.
Spawn ==
  /\ job.state = "loaded" /\ proc = None
  /\ \/ job.prog = "socat" /\ proc' = "socat" /\ port' = IF port = None THEN "socat" ELSE port
     \/ job.prog = repo /\ proc' = "starting" /\ UNCHANGED port
  /\ UNCHANGED <<unreaped, others, repo, plist, job, cli, faults, misses>>

\* serve binds the ports, or exits because somebody has them.
Bind ==
  /\ proc = "starting"
  /\ IF port = None THEN port' = "agent" /\ proc' = "serving" ELSE proc' = None /\ UNCHANGED port
  /\ UNCHANGED <<unreaped, others, repo, plist, job, cli, faults, misses>>

\* The process of the agent ends; the children of socat keep the ports.
Dies == proc' = None /\ port' = IF port = "agent" THEN None ELSE port

Crash ==
  /\ proc # None /\ Fault
  /\ Dies
  /\ UNCHANGED <<unreaped, others, repo, plist, job, cli, misses>>

Unloaded ==
  /\ job.state = "unloading"
  /\ job' = NoJob /\ Dies
  /\ UNCHANGED <<unreaped, others, repo, plist, cli, faults, misses>>

Foreign ==
  /\ \/ port = None /\ Fault /\ port' = "foreign"
     \/ port = "foreign" /\ port' = None /\ UNCHANGED faults
  /\ UNCHANGED <<unreaped, others, repo, plist, job, proc, cli, misses>>

\* A running process survives its binary.
Move ==
  /\ repo = "before" /\ Fault /\ repo' = "after"
  /\ UNCHANGED <<unreaped, others, plist, agent, cli, misses>>

-----------------------------------------------------------------------------
(* The commands *)

At(p, pc) == cli[p].pc = pc
Goto(p, pc) == cli' = [cli EXCEPT ![p] = [pc |-> pc, tries |-> 0]]
Ends(p) == Goto(p, "idle")
Again(p, pc) == cli' = [cli EXCEPT ![p] = [pc |-> pc, tries |-> cli[p].tries + 1]]

Run(p, cmd) ==
  /\ At(p, "idle")
  /\ cmd # "ensure" => others < MaxOthers
  /\ others' = IF cmd = "ensure" THEN others ELSE others + 1
  /\ Goto(p, CASE cmd = "install" -> "plist" [] cmd = "ensure" -> "inspect"
               [] cmd = "uninstall" -> "remove" [] OTHER -> cmd)
  /\ UNCHANGED <<unreaped, repo, plist, agent, faults, misses>>

Misses == misses < MaxMisses /\ misses' = misses + 1

\* An agent whose binary was moved away still runs.
BadStale == FALSE
Stale == job.prog # repo
Running == proc # None
Healthy == plist # None /\ job # NoJob /\ ~Stale /\ Running

\* Ensure: one print and a compare; what is not healthy is installed again.
Ensure(p) ==
  /\ At(p, "inspect")
  /\ \/ Healthy /\ Ends(p) /\ UNCHANGED misses
     \/ ~Healthy /\ Goto(p, "plist") /\ UNCHANGED misses
     \/ plist # None /\ Misses /\ Goto(p, "plist")
  /\ UNCHANGED <<unreaped, others, repo, plist, agent, faults>>

\* The order of Install, and one that reaps while KeepAlive still holds.
BadThen == [plist |-> "reap", loaded |-> "bootstrap", reap |-> "bootout"]
Then == [plist |-> "bootout", loaded |-> "reap", reap |-> "bootstrap"]

WritePlist(p) ==
  /\ At(p, "plist")
  /\ plist' = repo
  /\ Goto(p, Then["plist"])
  /\ UNCHANGED <<unreaped, others, repo, agent, faults, misses>>

\* A directory that cannot be made, or a write that ends in the middle.
WritePlistFails(p) ==
  /\ At(p, "plist") /\ Fault
  /\ plist' \in {plist, "torn"}
  /\ Ends(p)
  /\ UNCHANGED <<unreaped, others, repo, agent, misses>>

Boots(p) ==
  \/ /\ job' = IF job.state = "loaded" THEN [job EXCEPT !.state = "unloading"] ELSE job
     /\ UNCHANGED faults
  \/ Fault /\ UNCHANGED job

\* bootoutWait: bootout, and print until there is nothing to print.
Bootout(p) ==
  /\ At(p, "bootout") /\ Boots(p)
  /\ cli' = [cli EXCEPT ![p].pc = "loaded"]
  /\ UNCHANGED <<unreaped, others, repo, plist, proc, port, misses>>

StillLoaded(p) ==
  /\ At(p, "loaded")
  /\ \/ job = NoJob /\ Goto(p, Then["loaded"]) /\ UNCHANGED misses
     \/ job # NoJob /\ Misses /\ Goto(p, Then["loaded"])
     \/ /\ job # NoJob /\ UNCHANGED misses
        /\ IF cli[p].tries + 1 < MaxBootouts THEN Again(p, "bootout") ELSE Goto(p, Then["loaded"])
  /\ UNCHANGED <<unreaped, others, repo, plist, agent, faults>>

\* ReapListeners kills socat and nothing else, least of all serve.
BadReaped == None
Reaped == IF port = "socat" THEN None ELSE port

\* Best effort: without lsof, or when it or the kill fails, the ports are left to
\* socat; Install does not look.
Reap(p) ==
  /\ At(p, "reap")
  /\ \/ port' = Reaped /\ unreaped' = FALSE /\ UNCHANGED faults
     \/ port = "socat" /\ Fault /\ unreaped' = TRUE /\ UNCHANGED port
  /\ Goto(p, Then["reap"])
  /\ UNCHANGED <<others, repo, plist, job, proc, misses>>

\* To take "already bootstrapped" for success.
BadLoads == job.state # "unloading"
Loads == job = NoJob

Bootstrap(p) ==
  /\ At(p, "bootstrap") /\ Loads /\ plist \notin {None, "torn"}
  /\ job' = IF job = NoJob THEN Loaded(plist) ELSE job
  /\ Ends(p)
  /\ UNCHANGED <<unreaped, others, repo, plist, proc, port, faults, misses>>

BootstrapFails(p) ==
  /\ At(p, "bootstrap")
  /\ \/ Fault
     \/ (job # NoJob \/ plist \in {None, "torn"}) /\ UNCHANGED faults
  /\ IF cli[p].tries + 1 < MaxBootstraps THEN Again(p, "bootstrap") ELSE Ends(p)
  /\ UNCHANGED <<unreaped, others, repo, plist, agent, misses>>

\* kickstart -k: KeepAlive starts it again.
Restart(p) ==
  /\ At(p, "restart")
  /\ IF job.state = "loaded" THEN Dies ELSE UNCHANGED <<proc, port>>
  /\ Ends(p)
  /\ UNCHANGED <<unreaped, others, repo, plist, job, faults, misses>>

Uninstall(p) ==
  /\ At(p, "remove") /\ Boots(p)
  /\ Goto(p, "unlink")
  /\ UNCHANGED <<unreaped, others, repo, plist, proc, port, misses>>

Unlink(p) ==
  /\ At(p, "unlink")
  /\ plist' = None
  /\ Ends(p)
  /\ UNCHANGED <<unreaped, others, repo, agent, faults, misses>>

\* Ctrl-C, between any two of its calls.
Interrupted(p) ==
  /\ ~At(p, "idle") /\ Fault
  /\ Ends(p)
  /\ UNCHANGED <<unreaped, others, repo, plist, agent, misses>>

Step(p) ==
  \/ Ensure(p) \/ WritePlist(p) \/ WritePlistFails(p) \/ Bootout(p) \/ StillLoaded(p) \/ Reap(p)
  \/ Bootstrap(p) \/ BootstrapFails(p) \/ Restart(p) \/ Uninstall(p) \/ Unlink(p)

Next ==
  \/ Spawn \/ Bind \/ Crash \/ Unloaded \/ Foreign \/ Move
  \/ \E p \in Clis :
       \/ Step(p) \/ Interrupted(p)
       \/ \E cmd \in {"install", "ensure", "restart", "uninstall"} : Run(p, cmd)

Spec == Init /\ [][Next]_vars

\* launchd does its work, whoever took the ports gives them back, and `make start`
\* is run again and again, by a user: not each time before what the last one
\* loaded has bound its ports, and not each time, from its start or to its look at
\* the agent, in the instant between the start of a crash-looping process and its
\* exit (launchd waits ten seconds in between).
Fairness ==
  /\ SF_vars(Spawn) /\ SF_vars(job.state = "loaded" /\ Bind) /\ WF_vars(Bind) /\ WF_vars(Unloaded)
  /\ WF_vars(port = "foreign" /\ Foreign)
  /\ \A p \in Clis :
       /\ WF_vars(Step(p)) /\ WF_vars(Run(p, "ensure"))
       /\ SF_vars(proc = None /\ Run(p, "ensure")) /\ SF_vars(proc = None /\ Ensure(p))
FairSpec == Spec /\ Fairness

-----------------------------------------------------------------------------
(* Properties *)

\* When install says it is done no child of the retired agent has the ports: the
\* agent was gone before they were reaped, and nothing, no other command either,
\* has started socat since (launchd.go:64-69).  Unless launchd did not answer when
\* it was asked whether it was gone, or refused as many bootouts as bootoutWait
\* tries, or the last reap came to nothing (forward/state.go:91-92).
InstallDone ==
  [][\A p \in Clis : Bootstrap(p) =>
       (misses = 0 /\ faults < MaxBootouts /\ ~unreaped => port # "socat")]_vars

\* `make start`, over and over, gets a forwarder that serves, of the repository
\* as it is now, whatever it started from and whatever went wrong.
ServesAgain == []<>(proc = "serving" /\ job = Loaded(repo))

\* What Ensure leaves alone has the ports, or nobody has them
\* (cmd/pgdev/main.go:176-178).
HealthyServes ==
  [][\A p \in Clis : Ensure(p) /\ cli'[p].pc = "idle" => port \in {None, "agent"}]_vars
=============================================================================
