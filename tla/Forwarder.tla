----------------------------- MODULE Forwarder -----------------------------
(***************************************************************************)
(* The host forwarder (internal/forward: forward.go, router.go, state.go)  *)
(* between the files it watches and the clients it relays.                 *)
(*                                                                         *)
(* `pgdev forward serve` runs one watcher, which re-reads the active-slot  *)
(* pointer and the two machine-IP files one after the other and then swaps *)
(* the routing table under a lock, and one goroutine per client, which     *)
(* reads the table, dials without the lock, and registers itself.  The     *)
(* files are written by other processes while they are read.               *)
(***************************************************************************)
EXTENDS Naturals

CONSTANTS
  Conns,        \* client connections
  AddrsOf,      \* [Slots -> the addresses its IP file may hold], never "": leases
                \* drift, so the two slots may have addresses in common
  Faults,       \* what may go wrong, a subset of FaultKinds
  MaxWrites,    \* bound: writes of the pointer and of the IP files
  MaxFaults     \* bound: ends and failed starts of the forwarder, failed reads

Slots == {"a", "b"}
Roles == {"active", "staging"}
NoAddr == ""
Addrs == UNION {AddrsOf[s] : s \in Slots}
FaultKinds ==
  {"crash",   \* the forwarder is killed
   "stop",    \* launchd or the user terminates it
   "bind",    \* one of the two ports is taken
   "read"}    \* a file that is there cannot be read (too many open files)

ASSUME ForwarderAssumption ==
  /\ DOMAIN AddrsOf = Slots
  /\ NoAddr \notin Addrs
  /\ Faults \subseteq FaultKinds
  /\ MaxWrites \in Nat /\ MaxFaults \in Nat

VARIABLES
  pointer,   \* var/active-machine: a slot, or "other": absent or anything else
  ipFile,    \* what a reader of var/machine-ip-<slot> finds
  writing,   \* [Slots -> the address of an os.WriteFile that has truncated it]
  server,    \* "down", "seeding", "binding", "serving" or "stopping"
  reload,    \* the reload in progress: its program counter and its locals
  targets,   \* Server.targets
  conn,      \* [Conns -> the handler goroutine of a client]
  late,      \* history: the clients between target() and register() at the last swap
  fallback,  \* history: the table is of a reload that could not read the pointer
  report,    \* var/forward-state.json
  writes, faults

fileVars == <<pointer, ipFile, writing, writes>>
reloadVars == <<reload, targets, late, fallback, report>>
vars == <<fileVars, server, reloadVars, conn, faults>>

NoConn == [pc |-> "none", role |-> "active", target |-> NoAddr]
NoReload == [pc |-> "idle", slot |-> "a", misread |-> FALSE, ipA |-> NoAddr, ipB |-> NoAddr]
NoReport == [slot |-> "none", active |-> NoAddr, staging |-> NoAddr, fresh |-> FALSE]
Nowhere == [r \in Roles |-> NoAddr]

TypeOK ==
  /\ pointer \in Slots \cup {"other"}
  /\ ipFile \in [Slots -> Addrs \cup {NoAddr}]
  /\ writing \in [Slots -> Addrs \cup {NoAddr}]
  /\ server \in {"down", "seeding", "binding", "serving", "stopping"}
  /\ reload \in [pc : {"idle", "ipA", "ipB", "swap", "close"}, slot : Slots, misread : BOOLEAN,
                 ipA : Addrs \cup {NoAddr}, ipB : Addrs \cup {NoAddr}]
  /\ targets \in [Roles -> Addrs \cup {NoAddr}]
  /\ conn \in [Conns -> [pc : {"none", "accepted", "dialing", "dialed", "live", "dropped"},
                         role : Roles, target : Addrs \cup {NoAddr}]]
  /\ late \subseteq Conns /\ fallback \in BOOLEAN
  /\ report \in [slot : Slots \cup {"none"}, active : Addrs \cup {NoAddr},
                 staging : Addrs \cup {NoAddr}, fresh : BOOLEAN]
  /\ writes \in Nat /\ faults \in Nat

Init ==
  /\ pointer \in Slots \cup {"other"}
  /\ ipFile \in [Slots -> Addrs \cup {NoAddr}]
  /\ \A s \in Slots : ipFile[s] \in AddrsOf[s] \cup {NoAddr}
  /\ writing = [s \in Slots |-> NoAddr]
  /\ server = "down"
  /\ reload = NoReload /\ targets = Nowhere /\ late = {} /\ fallback = FALSE
  /\ report = NoReport
  /\ conn = [c \in Conns |-> NoConn]
  /\ writes = 0 /\ faults = 0

-----------------------------------------------------------------------------
(* The files, as other processes write them. *)

\* activeslot: anything but "b" reads as "a"; staging is the other slot.
BadGet(p) == p
Get(p) == IF p = "b" THEN "b" ELSE "a"
Other(s) == IF s = "a" THEN "b" ELSE "a"
Staging(p) == Other(Get(p))

\* Pointer.Set renames a complete file into place.
SetPointer(s) ==
  /\ writes < MaxWrites
  /\ pointer' = s /\ writes' = writes + 1
  /\ UNCHANGED <<ipFile, writing, server, reloadVars, conn, faults>>

\* writeMachineIPFile: os.WriteFile truncates the file first ...
TruncateIP(s, ip) ==
  /\ writes < MaxWrites /\ writing[s] = NoAddr
  /\ ip \in AddrsOf[s]
  /\ ipFile' = [ipFile EXCEPT ![s] = NoAddr]
  /\ writing' = [writing EXCEPT ![s] = ip]
  /\ writes' = writes + 1
  /\ UNCHANGED <<pointer, server, reloadVars, conn, faults>>

\* ... and writes the address then.
WriteIP(s) ==
  /\ writing[s] # NoAddr
  /\ ipFile' = [ipFile EXCEPT ![s] = writing[s]]
  /\ writing' = [writing EXCEPT ![s] = NoAddr]
  /\ UNCHANGED <<pointer, writes, server, reloadVars, conn, faults>>

-----------------------------------------------------------------------------
(* The watcher: one reload at a time, a read per step. *)

Targets(slot, ipA, ipB) ==
  IF slot = "b" THEN [active |-> ipB, staging |-> ipA] ELSE [active |-> ipA, staging |-> ipB]

\* Serve seeds the table once before it listens; then the ticker starts reloads.
BadPolls == server = "seeding"
Polls == server \in {"seeding", "serving", "stopping"}

ReadPointer ==
  /\ Polls
  /\ reload.pc = "idle"
  /\ reload' = [NoReload EXCEPT !.pc = "ipA", !.slot = Get(pointer)]
  /\ UNCHANGED <<fileVars, server, targets, late, fallback, report, conn, faults>>

ReadA ==
  /\ reload.pc = "ipA"
  /\ reload' = [reload EXCEPT !.pc = "ipB", !.ipA = ipFile["a"]]
  /\ UNCHANGED <<fileVars, server, targets, late, fallback, report, conn, faults>>

ReadB ==
  /\ reload.pc = "ipB"
  /\ reload' = [reload EXCEPT !.pc = "swap", !.ipB = ipFile["b"]]
  /\ UNCHANGED <<fileVars, server, targets, late, fallback, report, conn, faults>>

\* A read that fails is no error: an unreadable pointer says "a" (and one that
\* says so anyway is no worse for it), an unreadable IP file no address.
Unread ==
  /\ "read" \in Faults /\ faults < MaxFaults
  /\ faults' = faults + 1
  /\ UNCHANGED <<fileVars, server, targets, late, fallback, report, conn>>

PointerUnread ==
  /\ Polls
  /\ reload.pc = "idle" /\ Get(pointer) # "a"
  /\ reload' = [NoReload EXCEPT !.pc = "ipA", !.slot = "a", !.misread = TRUE]
  /\ Unread

AddressUnread ==
  /\ \/ reload.pc = "ipA" /\ ipFile["a"] # NoAddr /\ reload' = [reload EXCEPT !.pc = "ipB"]
     \/ reload.pc = "ipB" /\ ipFile["b"] # NoAddr /\ reload' = [reload EXCEPT !.pc = "swap"]
  /\ Unread

\* Under the lock: the table is replaced and every registered session that
\* leads elsewhere is taken off the list, whether or not the table changed.
BadDrops(c, new) == new # targets /\ conn[c].target # new[conn[c].role]
BadDropsActive(c, new) == conn[c].role = "active" /\ conn[c].target # new["active"]
Drops(c, new) == conn[c].target # new[conn[c].role]

\* The mapping is a function of one read of the pointer.
BadMapping == Targets(Get(pointer), reload.ipA, reload.ipB)
Mapping == Targets(reload.slot, reload.ipA, reload.ipB)

Swap ==
  /\ reload.pc = "swap"
  /\ targets' = Mapping
  /\ conn' = [c \in Conns |->
       IF conn[c].pc = "live" /\ Drops(c, targets')
         THEN [conn[c] EXCEPT !.pc = "dropped"] ELSE conn[c]]
  /\ late' = {c \in Conns : conn[c].pc \in {"dialing", "dialed"}}
  /\ fallback' = reload.misread
  /\ reload' = [reload EXCEPT !.pc = "close"]
  /\ UNCHANGED <<fileVars, server, report, faults>>

\* After the unlock: the sockets of a session that was taken off the list.
CloseDropped(c) ==
  /\ conn[c].pc = "dropped"
  /\ conn' = [conn EXCEPT ![c] = NoConn]
  /\ UNCHANGED <<fileVars, server, reloadVars, faults>>

\* writeState, at every tick: readers see the old report or the new one.
WriteReport ==
  /\ reload.pc = "close"
  /\ \A c \in Conns : conn[c].pc # "dropped"
  /\ report' = [slot |-> reload.slot, active |-> Mapping.active,
                staging |-> Mapping.staging, fresh |-> TRUE]
  /\ reload' = NoReload
  /\ server' = IF server = "seeding" THEN "binding" ELSE server
  /\ UNCHANGED <<fileVars, targets, late, fallback, conn, faults>>

\* State.Fresh: nobody has written the report for as long as a reader accepts.
ReportAges ==
  /\ report.fresh
  /\ report' = [report EXCEPT !.fresh = FALSE]
  /\ UNCHANGED <<fileVars, server, reload, targets, late, fallback, conn, faults>>

-----------------------------------------------------------------------------
(* One goroutine per client. *)

Accept(c, r) ==
  /\ server = "serving" /\ conn[c].pc = "none"
  /\ conn' = [conn EXCEPT ![c] = [NoConn EXCEPT !.pc = "accepted", !.role = r]]
  /\ UNCHANGED <<fileVars, server, reloadVars, faults>>

\* target(role): nothing to dial closes the client.
ReadTarget(c) ==
  /\ conn[c].pc = "accepted"
  /\ conn' = [conn EXCEPT ![c] =
       IF targets[conn[c].role] = NoAddr
         THEN NoConn
         ELSE [conn[c] EXCEPT !.pc = "dialing", !.target = targets[conn[c].role]]]
  /\ UNCHANGED <<fileVars, server, reloadVars, faults>>

Dial(c) ==
  /\ conn[c].pc = "dialing"
  /\ \/ conn' = [conn EXCEPT ![c].pc = "dialed"]
     \/ conn' = [conn EXCEPT ![c] = NoConn]
  /\ UNCHANGED <<fileVars, server, reloadVars, faults>>

Register(c) ==
  /\ conn[c].pc = "dialed"
  /\ conn' = [conn EXCEPT ![c].pc = "live"]
  /\ UNCHANGED <<fileVars, server, reloadVars, faults>>

\* The copies of both directions end, and the handler unregisters itself.
HangUp(c) ==
  /\ conn[c].pc = "live"
  /\ conn' = [conn EXCEPT ![c] = NoConn]
  /\ UNCHANGED <<fileVars, server, reloadVars, faults>>

-----------------------------------------------------------------------------
(* The life of the process, which launchd keeps alive. *)

Launch ==
  /\ server = "down"
  /\ server' = "seeding"
  /\ UNCHANGED <<fileVars, reloadVars, conn, faults>>

Listen ==
  /\ server = "binding"
  /\ server' = "serving"
  /\ UNCHANGED <<fileVars, reloadVars, conn, faults>>

\* With the process go its table, its reload and every socket.
Exit ==
  /\ server' = "down"
  /\ reload' = NoReload /\ targets' = Nowhere /\ late' = {} /\ fallback' = FALSE
  /\ conn' = [c \in Conns |-> NoConn]
  /\ UNCHANGED <<fileVars, report>>

\* A listen error is returned, and serve exits.
BindFails ==
  /\ "bind" \in Faults /\ faults < MaxFaults
  /\ server = "binding"
  /\ faults' = faults + 1
  /\ Exit

Crash ==
  /\ "crash" \in Faults /\ faults < MaxFaults
  /\ server # "down"
  /\ faults' = faults + 1
  /\ Exit

\* The context is cancelled: no more accepts, and closeAllLive takes every
\* registered session off the list.
Stop ==
  /\ "stop" \in Faults /\ faults < MaxFaults
  /\ server = "serving"
  /\ server' = "stopping" /\ faults' = faults + 1
  /\ conn' = [c \in Conns |->
       IF conn[c].pc = "live" THEN [conn[c] EXCEPT !.pc = "dropped"] ELSE conn[c]]
  /\ UNCHANGED <<fileVars, reloadVars>>

\* Serve waits for the watcher and returns; handlers are not waited for.
Return ==
  /\ server = "stopping" /\ reload.pc = "idle"
  /\ Exit
  /\ UNCHANGED faults

-----------------------------------------------------------------------------
Reloads == ReadPointer \/ ReadA \/ ReadB \/ Swap \/ WriteReport
Misreads == PointerUnread \/ AddressUnread
Handles(c) ==
  ReadTarget(c) \/ Dial(c) \/ Register(c) \/ CloseDropped(c)
Process == Launch \/ Listen \/ BindFails \/ Crash \/ Stop \/ Return

Server ==
  \/ Reloads \/ Misreads \/ Process \/ ReportAges
  \/ \E c \in Conns : (\E r \in Roles : Accept(c, r)) \/ Handles(c) \/ HangUp(c)

IPFiles ==
  \E s \in Slots : WriteIP(s) \/ \E ip \in AddrsOf[s] : TruncateIP(s, ip)

Next == Server \/ IPFiles \/ \E s \in Slots : SetPointer(s)

Spec == Init /\ [][Next]_vars

\* The ticker fires and reads fail only now and then, a dial ends within its
\* timeout, a write that began ends and launchd restarts a forwarder that exited.
\* Return is strong because the select of watch chooses among a tick and the end
\* of its context at random.
Fairness ==
  /\ WF_vars(Reloads)
  /\ WF_vars(Launch \/ Listen)
  /\ SF_vars(Return)
  /\ \A c \in Conns : WF_vars(Handles(c))
  /\ \A s \in Slots : WF_vars(WriteIP(s))

FairSpec == Spec /\ Fairness

-----------------------------------------------------------------------------
(* Properties *)

Stale(c) == conn[c].pc = "live" /\ conn[c].target # targets[conn[c].role]

\* A registered session that leads to a target its role no longer has was
\* between reading the table and registering when the table was last swapped
\* (forward.go, handle and reload).  So no such session outlives one more swap,
\* even when that swap changes nothing.
StaleOnlyIfLate == \A c \in Conns : Stale(c) => c \in late

\* A role leads by the IP file of slot s: to an address it held, or nowhere.
By(s, target) == target \in AddrsOf[s] \cup {NoAddr}

\* The two roles lead by the files of two slots, never both by one, however
\* promotes, reloads, writes and failing reads interleave; and what the report
\* says of them is by the slot it names: the mapping of a table is made of one
\* read of the pointer (router.go, Targets).  Two files that hold one address
\* still lead both roles there.
RolesApart ==
  /\ \E s \in Slots : By(s, targets["active"]) /\ By(Other(s), targets["staging"])
  /\ \A s \in Slots :
       report.slot = s => By(s, report.active) /\ By(Other(s), report.staging)

\* Once nobody writes the files any more the forwarder serves exactly their
\* mapping, says so, and no session leads anywhere else (forward.go, watch:
\* polling is what makes promote a mere write of the pointer).
Wanted == Targets(Get(pointer), ipFile["a"], ipFile["b"])
Settles ==
  <>[](/\ server = "serving"
       /\ targets = Wanted
       /\ report.slot = Get(pointer)
       /\ \A c \in Conns : ~Stale(c))

\* The forwarder keeps the promise of Routing.
session == [c \in Conns |->
  CASE conn[c].pc \in {"none", "accepted", "dropped"} -> [state |-> "closed", role |-> "active", target |-> NoAddr]
    [] conn[c].pc \in {"dialing", "dialed"} -> [state |-> "admitted", role |-> conn[c].role, target |-> conn[c].target]
    [] conn[c].pc = "live" -> [state |-> "open", role |-> conn[c].role, target |-> conn[c].target]]
R == INSTANCE Routing
Routes == R!Spec
=============================================================================
