--------------------------- MODULE HostRolesProofs ---------------------------
(***************************************************************************)
(* HostRoles, for every set of addresses and every bound: its states are   *)
(* well typed, and, of commands that run one at a time, a rebuild keeps    *)
(* off the active machine, what deploy and rebuild report is so, and a     *)
(* promote hands clients to a machine with a running backend.              *)
(***************************************************************************)
EXTENDS HostRoles, SequenceTheorems, TLAPS

Pcs == {"idle", "dial", "call", "stat", "set", "flip", "confirm", "delete", "create", "boot",
        "ready", "readip", "install", "restart", "client", "await"}
Roles == Slots \cup {"active", "staging"}
CliType == [cmd : Cmds \cup {"none"}, to : Slots \cup {"none"}, todo : Seq(Roles),
            addr : Addrs \cup {NoIp}, pc : Pcs]
MachineType == [life : {"absent", "stopped", "up"}, ip : Addrs \cup {NoIp},
                bin : {"none", "old", "new"}, unit : BOOLEAN, serving : {"none", "old", "new"},
                backend : {"absent", "RUNNING", "STOPPED"},
                db : {"none", "partial", "old", "fresh"}]

\* The parts of TypeOK.
LeasesOK ==
  /\ \A s \in Slots : (machine[s].ip # NoIp) = (machine[s].life = "up")
  /\ machine["a"].ip # NoIp => machine["a"].ip # machine["b"].ip
MachinesOK == machine \in [Slots -> MachineType] /\ LeasesOK
FilesOK == ipFile \in [Slots -> Addrs \cup {NoIp}] /\ pointer \in Slots \cup {"absent"}
CliOK == cli \in [Clis -> CliType]
CountsOK == faults \in 0..MaxFaults /\ misses \in 0..MaxMisses /\ reboots \in 0..MaxReboots

LEMMA TypeParts == TypeOK <=> MachinesOK /\ FilesOK /\ CliOK /\ CountsOK
  BY DEF TypeOK, MachinesOK, LeasesOK, FilesOK, CliOK, CountsOK, CliType, MachineType, Pcs, Roles

LEMMA TypePartsNext == TypeOK' <=> MachinesOK' /\ FilesOK' /\ CliOK' /\ CountsOK'
  BY DEF TypeOK, MachinesOK, LeasesOK, FilesOK, CliOK, CountsOK, CliType, MachineType, Pcs, Roles

-----------------------------------------------------------------------------
(* Roles and machines *)

\* A role is a slot, and the two roles are two slots.
LEMMA TwoRoles ==
  /\ Active \in Slots /\ Staging \in Slots /\ Active # Staging
  /\ Slots = {Active, Staging}
  /\ \A s \in Slots : RoleSlot(s) = s
  /\ \A w \in Roles : RoleSlot(w) \in Slots
  BY DEF Active, Staging, Slots, RoleSlot, Roles

\* A machine that changes and keeps its lease and whether it is up.
LEMMA SameLease ==
  ASSUME MachinesOK, NEW s \in Slots, NEW m \in MachineType, m.ip = machine[s].ip,
         m.life = machine[s].life, machine' = [machine EXCEPT ![s] = m]
  PROVE  MachinesOK'
<1>1. machine' \in [Slots -> MachineType]
  BY DEF MachinesOK
<1>2. \A t \in Slots : machine'[t].ip = machine[t].ip /\ machine'[t].life = machine[t].life
  BY DEF MachinesOK
<1> QED
  BY <1>1, <1>2 DEF MachinesOK, LeasesOK, Slots

\* A machine that goes down, or away, gives its lease back.
LEMMA NoLease ==
  ASSUME MachinesOK, NEW s \in Slots, NEW m \in MachineType, m.ip = NoIp, m.life # "up",
         machine' = [machine EXCEPT ![s] = m]
  PROVE  MachinesOK'
<1>1. machine' \in [Slots -> MachineType]
  BY DEF MachinesOK
<1>2. \A t \in Slots : t # s => machine'[t] = machine[t]
  BY DEF MachinesOK
<1>3. machine'[s] = m
  BY DEF MachinesOK
<1> QED
  BY <1>1, <1>2, <1>3 DEF MachinesOK, LeasesOK, Slots

\* A machine that is stopped, or was not.
LEMMA StopsTyped ==
  ASSUME MachinesOK, NEW s \in Slots, StopsOrNot(s)
  PROVE  MachinesOK'
<1>1. CASE machine' = machine
  BY <1>1 DEF MachinesOK, LeasesOK
<1>2. CASE machine' = [machine EXCEPT ![s] = Stopped(s)]
  <2>1. machine[s] \in MachineType
    BY DEF MachinesOK
  <2>2. Stopped(s) \in MachineType /\ Stopped(s).ip = NoIp /\ Stopped(s).life # "up"
    BY <2>1 DEF Stopped, MachineType
  <2> QED
    BY <1>2, <2>2, NoLease
<1> QED
  BY <1>1, <1>2 DEF StopsOrNot

\* A machine that boots gets a lease that no other has, and nothing else.
LEMMA Booted ==
  ASSUME MachinesOK, NEW s \in Slots, Boots(s)
  PROVE  /\ MachinesOK'
         /\ \E ip \in Addrs : machine' = [machine EXCEPT ![s] =
                                            [machine[s] EXCEPT !.life = "up", !.ip = ip]]
<1> PICK ip \in Addrs \ {machine[t].ip : t \in Slots} :
      machine' = [machine EXCEPT ![s].life = "up", ![s].ip = ip]
  BY DEF Boots
<1> DEFINE m == [machine[s] EXCEPT !.life = "up", !.ip = ip]
<1>1. machine' = [machine EXCEPT ![s] = m]
  BY DEF MachinesOK, MachineType
<1>2. m \in MachineType
  BY DEF MachinesOK, MachineType
<1>3. machine' \in [Slots -> MachineType] /\ machine'[s] = m
  BY <1>1, <1>2 DEF MachinesOK
<1>4. \A t \in Slots : t # s => machine'[t] = machine[t]
  BY <1>1 DEF MachinesOK
<1>5. m.life = "up" /\ m.ip = ip /\ ip # NoIp
  BY HostAssumption DEF MachinesOK, MachineType, HostAssumption
<1>6. \A t \in Slots : ip # machine[t].ip
  OBVIOUS
<1> QED
  <2>1. LeasesOK'
    BY <1>3, <1>4, <1>5, <1>6 DEF MachinesOK, LeasesOK, Slots
  <2> QED
    BY <1>1, <1>3, <2>1 DEF MachinesOK

\* One field of one machine.
LEMMA FieldTyped ==
  ASSUME MachinesOK, NEW s \in Slots,
         \/ \E v \in {"none", "old", "new"} : \/ machine' = [machine EXCEPT ![s].bin = v]
                                              \/ machine' = [machine EXCEPT ![s].serving = v]
         \/ machine' = [machine EXCEPT ![s].bin = "new", ![s].unit = TRUE]
         \/ machine' = [machine EXCEPT ![s].backend = "RUNNING", ![s].db = "partial"]
  PROVE  MachinesOK'
<1>0. machine \in [Slots -> MachineType] /\ machine[s] \in MachineType
  BY DEF MachinesOK
<1>1. ASSUME NEW v \in {"none", "old", "new"}, machine' = [machine EXCEPT ![s].bin = v]
      PROVE  MachinesOK'
  <2> DEFINE m == [machine[s] EXCEPT !.bin = v]
  <2>1. m \in MachineType /\ m.ip = machine[s].ip /\ m.life = machine[s].life
    BY <1>0 DEF MachineType
  <2>2. machine' = [machine EXCEPT ![s] = m]
    BY <1>0, <1>1
  <2> QED
    BY <2>1, <2>2, SameLease
<1>2. ASSUME NEW v \in {"none", "old", "new"}, machine' = [machine EXCEPT ![s].serving = v]
      PROVE  MachinesOK'
  <2> DEFINE m == [machine[s] EXCEPT !.serving = v]
  <2>1. m \in MachineType /\ m.ip = machine[s].ip /\ m.life = machine[s].life
    BY <1>0 DEF MachineType
  <2>2. machine' = [machine EXCEPT ![s] = m]
    BY <1>0, <1>2
  <2> QED
    BY <2>1, <2>2, SameLease
<1>3. ASSUME machine' = [machine EXCEPT ![s].bin = "new", ![s].unit = TRUE] PROVE MachinesOK'
  <2> DEFINE m == [machine[s] EXCEPT !.bin = "new", !.unit = TRUE]
  <2>1. m \in MachineType /\ m.ip = machine[s].ip /\ m.life = machine[s].life
    BY <1>0 DEF MachineType
  <2>2. machine' = [machine EXCEPT ![s] = m]
    BY <1>0, <1>3 DEF MachineType
  <2> QED
    BY <2>1, <2>2, SameLease
<1>4. ASSUME machine' = [machine EXCEPT ![s].backend = "RUNNING", ![s].db = "partial"]
      PROVE MachinesOK'
  <2> DEFINE m == [machine[s] EXCEPT !.backend = "RUNNING", !.db = "partial"]
  <2>1. m \in MachineType /\ m.ip = machine[s].ip /\ m.life = machine[s].life
    BY <1>0 DEF MachineType
  <2>2. machine' = [machine EXCEPT ![s] = m]
    BY <1>0, <1>4 DEF MachineType
  <2> QED
    BY <2>1, <2>2, SameLease
<1> QED
  BY <1>1, <1>2, <1>3, <1>4

\* What a daemon does to its machine leaves the lease alone.
LEMMA ServedTyped ==
  ASSUME NEW cmd, NEW m \in MachineType
  PROVE  /\ Served(cmd, m) \in MachineType
         /\ Served(cmd, m).ip = m.ip /\ Served(cmd, m).life = m.life
<1>1. CASE cmd \in {"up", "rebuild"}
  BY <1>1 DEF Served, MachineType
<1>2. CASE cmd = "down"
  BY <1>2 DEF Served, MachineType
<1>3. CASE cmd = "start"
  BY <1>3 DEF Served, MachineType
<1>4. CASE cmd = "stop"
  BY <1>4 DEF Served, MachineType
<1>5. CASE cmd \notin {"up", "rebuild", "down", "start", "stop"}
  BY <1>5 DEF Served, MachineType
<1> QED
  BY <1>1, <1>2, <1>3, <1>4, <1>5

-----------------------------------------------------------------------------
(* Commands *)

LEMMA CliTyped == ASSUME CliOK, NEW p \in Clis PROVE cli[p] \in CliType
  BY DEF CliOK

\* A command that goes to another step, ends, or takes an address along.
LEMMA GotoTyped ==
  ASSUME CliOK, NEW p \in Clis, NEW pc \in Pcs, Goto(p, pc)
  PROVE  CliOK' /\ cli'[p] = [cli[p] EXCEPT !.pc = pc]
<1> DEFINE c == [cli[p] EXCEPT !.pc = pc]
<1>1. c \in CliType
  BY CliTyped DEF CliType
<1>2. cli' = [cli EXCEPT ![p] = c]
  BY DEF CliOK, Goto
<1> QED
  BY <1>1, <1>2 DEF CliOK

LEMMA IdleTyped == Idle \in CliType
<1>1. <<>> \in Seq(Roles)
  OBVIOUS
<1> QED
  BY <1>1 DEF Idle, CliType, Pcs

LEMMA EndsTyped ==
  ASSUME CliOK, NEW p \in Clis, Ends(p)
  PROVE  CliOK' /\ cli'[p] = Idle
  BY IdleTyped DEF CliOK, Ends

Carried(c, pc, ip) == [c EXCEPT !.pc = pc, !.addr = ip]
Carries(p, pc, ip) == cli' = [cli EXCEPT ![p].pc = pc, ![p].addr = ip]

LEMMA CarryTyped ==
  ASSUME CliOK, NEW p \in Clis, NEW pc \in Pcs, NEW ip \in Addrs \cup {NoIp},
         Carries(p, pc, ip)
  PROVE  CliOK' /\ cli'[p] = Carried(cli[p], pc, ip)
<1> DEFINE c == [cli[p] EXCEPT !.pc = pc, !.addr = ip]
<1>1. c \in CliType
  BY CliTyped DEF CliType
<1>2. cli' = [cli EXCEPT ![p] = c]
  BY CliTyped DEF CliOK, CliType, Carries
<1> QED
  BY <1>1, <1>2 DEF CliOK, Carried

\* The next slot of a command, or what comes after the last one.
LEMMA NextSlotTyped ==
  ASSUME CliOK, NEW p \in Clis, NEW pc \in Pcs, NEW after \in Pcs, NextSlot(p, pc, after)
  PROVE  /\ CliOK'
         /\ \/ /\ Len(cli[p].todo) > 1 /\ Tail(cli[p].todo) # <<>>
               /\ cli'[p] = [cli[p] EXCEPT !.todo = Tail(cli[p].todo), !.pc = pc]
            \/ ~(Len(cli[p].todo) > 1) /\ after = "idle" /\ cli'[p] = Idle
            \/ ~(Len(cli[p].todo) > 1) /\ after # "idle" /\ cli'[p] = [cli[p] EXCEPT !.pc = after]
<1>0. cli[p] \in CliType
  BY CliTyped
<1>1. CASE Len(cli[p].todo) > 1
  <2> DEFINE c == [cli[p] EXCEPT !.todo = Tail(cli[p].todo), !.pc = pc]
  <2>1. cli[p].todo \in Seq(Roles) /\ cli[p].todo # <<>>
    <3>1. cli[p].todo \in Seq(Roles)
      BY <1>0 DEF CliType
    <3>2. Len(<<>>) = 0
      OBVIOUS
    <3> QED
      BY <1>1, <3>1, <3>2
  <2>2. Tail(cli[p].todo) \in Seq(Roles) /\ Len(Tail(cli[p].todo)) = Len(cli[p].todo) - 1
    BY <2>1, HeadTailProperties
  <2>5. Tail(cli[p].todo) # <<>>
    <3>1. Len(cli[p].todo) \in Nat
      BY <2>1
    <3>2. \A n \in Nat : n > 1 => n - 1 # 0
      OBVIOUS
    <3>3. Len(<<>>) = 0
      OBVIOUS
    <3> QED
      BY <1>1, <2>2, <3>1, <3>2, <3>3, Zenon
  <2>3. c \in CliType
    BY <1>0, <2>2 DEF CliType
  <2>4. cli' = [cli EXCEPT ![p] = c]
    BY <1>1 DEF NextSlot
  <2> QED
    BY <1>1, <2>3, <2>4, <2>5 DEF CliOK
<1>2. CASE ~(Len(cli[p].todo) > 1) /\ after = "idle"
  <2>1. cli' = [cli EXCEPT ![p] = Idle]
    BY <1>2 DEF NextSlot, CliOK
  <2> QED
    BY <1>2, <2>1, IdleTyped DEF CliOK
<1>3. CASE ~(Len(cli[p].todo) > 1) /\ after # "idle"
  <2> DEFINE c == [cli[p] EXCEPT !.pc = after]
  <2>1. c \in CliType
    BY <1>0 DEF CliType
  <2>2. cli' = [cli EXCEPT ![p] = c]
    BY <1>3 DEF NextSlot, CliOK
  <2> QED
    BY <1>3, <2>1, <2>2 DEF CliOK
<1> QED
  BY <1>1, <1>2, <1>3

\* Where a command starts.
Started(p, cmd) ==
  [cmd |-> cmd, addr |-> NoIp,
   todo |-> IF cmd = "rebuild" THEN <<Staging>> ELSE Todo[cmd],
   to |-> IF cmd = "promote" THEN Staging ELSE "none",
   pc |-> CASE cmd = "deploy" -> "ready" [] cmd = "rebuild" -> "confirm" [] OTHER -> "dial"]

LEMMA RunTyped ==
  ASSUME CliOK, NEW p \in Clis, NEW cmd \in Cmds, Run(p, cmd)
  PROVE  CliOK' /\ cli'[p] = Started(p, cmd)
<1>1. /\ \A x \in Roles : <<x>> \in Seq(Roles)
      /\ \A x, y \in Roles : <<x, y>> \in Seq(Roles)
  OBVIOUS
<1>2. (IF cmd = "rebuild" THEN <<Staging>> ELSE Todo[cmd]) \in Seq(Roles)
  <2>1. Staging \in Roles
    BY TwoRoles DEF Roles
  <2>2. CASE cmd = "rebuild"
    BY <2>1, <2>2, <1>1
  <2>3. CASE cmd # "rebuild"
    <3>1. Todo[cmd] \in {Both, <<"active", "staging">>, <<"staging">>}
      BY <2>3, HostAssumption DEF Todo, HostAssumption
    <3>2. {"a", "b", "active", "staging"} = Roles
      BY DEF Roles, Slots
    <3> QED
      BY <2>3, <3>1, <3>2, <1>1 DEF Both
  <2> QED
    BY <2>2, <2>3
<1>3. Started(p, cmd) \in CliType
  BY <1>2, TwoRoles DEF Started, CliType, Pcs
<1>4. cli' = [cli EXCEPT ![p] = Started(p, cmd)]
  BY DEF Run, Started, RebuildRoles
<1> QED
  BY <1>3, <1>4 DEF CliOK

LEMMA FaultTyped == ASSUME CountsOK, Fault PROVE faults' \in 0..MaxFaults
  BY HostAssumption DEF CountsOK, Fault, HostAssumption

\* What is written to the file is an address; only readings that fail are counted.
LEMMA LiveTyped ==
  ASSUME MachinesOK, CountsOK, NEW s \in Slots, NEW ip \in LiveIp(s), Missed(s, ip)
  PROVE  /\ ip \in Addrs \cup {NoIp} /\ misses' \in 0..MaxMisses
         /\ misses' >= misses /\ (misses' = 0 => ip = machine[s].ip)
<1>1. machine[s].ip \in Addrs \cup {NoIp}
  BY DEF MachinesOK, MachineType
<1>2. ip = machine[s].ip \/ (ip = NoIp /\ misses < MaxMisses)
  BY DEF LiveIp
<1>3. misses \in Nat /\ misses <= MaxMisses /\ MaxMisses \in Nat
  BY HostAssumption DEF CountsOK, HostAssumption
<1>4. CASE ip = machine[s].ip
  BY <1>1, <1>3, <1>4 DEF Missed
<1>5. CASE ip # machine[s].ip
  <2>1. misses' = misses + 1
    BY <1>5 DEF Missed
  <2> QED
    BY <1>2, <1>3, <1>5, <2>1
<1> QED
  BY <1>4, <1>5

LEMMA MachineIpTyped ==
  ASSUME MachinesOK, FilesOK, CountsOK, NEW s \in Slots, NEW ip, MachineIp(s, ip)
  PROVE  /\ ip \in Addrs \cup {NoIp} /\ misses' \in 0..MaxMisses /\ misses' >= misses
         /\ ipFile[s] # NoIp => ip = ipFile[s]
<1>1. CASE ipFile[s] # NoIp
  BY <1>1, HostAssumption DEF MachineIp, FilesOK, CountsOK, HostAssumption
<1>2. CASE ipFile[s] = NoIp
  BY <1>2, LiveTyped DEF MachineIp
<1> QED
  BY <1>1, <1>2

LEMMA WrittenTyped ==
  ASSUME FilesOK, NEW s \in Slots, NEW ip \in Addrs \cup {NoIp}, WriteMachineIpFile(s, ip),
         UNCHANGED pointer
  PROVE  FilesOK' /\ (ip # NoIp => ipFile'[s] = ip) /\ (\A t \in Slots : t # s => ipFile'[t] = ipFile[t])
  BY DEF FilesOK, WriteMachineIpFile

LEMMA SlotTyped ==
  ASSUME CliOK, NEW p \in Clis, cli[p].todo # <<>> PROVE Slot(p) \in Slots
<1>1. cli[p].todo \in Seq(Roles)
  BY CliTyped DEF CliType
<1>2. Head(cli[p].todo) \in Roles
  BY <1>1, HeadTailProperties
<1> QED
  BY <1>2, TwoRoles DEF Slot

-----------------------------------------------------------------------------
(* Types *)

\* The steps of a deploy; reading the address back is the one that does not fail.
Deployment == {"ready", "readip", "install", "restart", "client", "await"}

\* What a command is doing where it is: it has a slot or a role in hand, and only
\* a promote, which knows its slot, comes to the flip.
Known(c) ==
  /\ c.pc # "idle" => c.todo # <<>>
  /\ c.cmd = "promote" => c.to \in Slots
  /\ c.pc = "flip" => c.cmd = "promote"
  /\ c.pc \in {"stat", "set"} => c.cmd = "up"
  /\ c.pc \in Deployment => c.cmd \in {"deploy", "rebuild"}
  /\ c.pc \in {"confirm", "delete", "create", "boot"} => c.cmd = "rebuild"
  /\ c.pc \in {"dial", "call", "stat", "set", "flip"} => c.cmd # "deploy"
KnownInv == \A p \in Clis : Known(cli[p])

LEMMA KnownIdle == Known(Idle)
  BY DEF Known, Idle, Deployment

LEMMA TypeInit == Init => TypeOK /\ KnownInv
<1> SUFFICES ASSUME Init PROVE TypeOK /\ KnownInv
  OBVIOUS
<1> PICK f \in [Slots -> Addrs], provisioned \in BOOLEAN :
      /\ f["a"] # f["b"]
      /\ machine = [s \in Slots |->
           [life |-> "up", ip |-> f[s], bin |-> "old", unit |-> TRUE, serving |-> "old",
            backend |-> IF provisioned THEN "RUNNING" ELSE "absent",
            db |-> IF provisioned THEN "old" ELSE "none"]]
      /\ ipFile = f
      /\ pointer = IF provisioned THEN "a" ELSE "absent"
  BY DEF Init
<1>1. machine \in [Slots -> MachineType]
  BY DEF MachineType
<1>2. LeasesOK
  BY HostAssumption DEF LeasesOK, HostAssumption, Slots
<1>3. cli = [p \in Clis |-> Idle]
  BY DEF Init
<1>4. FilesOK
  BY DEF FilesOK, Slots
<1>5. CliOK
  BY <1>3, IdleTyped DEF CliOK
<1>6. CountsOK
  BY HostAssumption DEF Init, CountsOK, HostAssumption
<1>7. KnownInv
  BY <1>3, KnownIdle DEF KnownInv
<1> QED
  BY <1>1, <1>2, <1>4, <1>5, <1>6, <1>7, TypeParts DEF MachinesOK

LEMMA RunKnown ==
  ASSUME TypeOK, KnownInv, NEW p \in Clis, NEW cmd \in Cmds, Run(p, cmd)
  PROVE  TypeOK' /\ KnownInv'
<1> USE TypeParts, TypePartsNext
<1>1. CliOK' /\ cli'[p] = Started(p, cmd)
  BY RunTyped
<1>2. Known(cli'[p])
  <2>1. Len(<<Staging>>) = 1 /\ Len(Both) = 2 /\ Len(<<"staging">>) = 1
        /\ Len(<<"active", "staging">>) = 2 /\ Len(<<>>) = 0
    BY DEF Both
  <2>2. Todo[cmd] \in {Both, <<"active", "staging">>, <<"staging">>} \/ cmd = "rebuild"
    BY HostAssumption DEF Todo, HostAssumption
  <2>3. Started(p, cmd).todo # <<>>
    BY <2>1, <2>2 DEF Started
  <2> QED
    BY <1>1, <2>3, TwoRoles DEF Known, Started, Deployment
<1>3. \A q \in Clis : q # p => cli'[q] = cli[q]
  BY DEF Run, CliOK
<1> QED
  BY <1>1, <1>2, <1>3 DEF Run, KnownInv, MachinesOK, LeasesOK, FilesOK, CountsOK, bounds

LEMMA WorldKnown ==
  ASSUME TypeOK, KnownInv, (\E s \in Slots : DaemonServes(s)) \/ Reboot
  PROVE  TypeOK' /\ KnownInv'
<1> USE TypeParts, TypePartsNext
<1>1. ASSUME NEW s \in Slots, DaemonServes(s) PROVE TypeOK' /\ KnownInv'
  <2>1. machine[s].bin \in {"none", "old", "new"}
    BY DEF MachinesOK, MachineType
  <2>2. MachinesOK'
    BY <1>1, <2>1, FieldTyped DEF DaemonServes
  <2> QED
    BY <1>1, <2>2 DEF DaemonServes, FilesOK, CliOK, CountsOK, bounds, KnownInv
<1>2. CASE Reboot
  <2>0. PICK f \in [Slots -> Addrs] :
          /\ f["a"] # f["b"]
          /\ machine' = [s \in Slots |->
               IF machine[s].life = "up" THEN [machine[s] EXCEPT !.ip = f[s], !.serving = "none"]
               ELSE machine[s]]
    BY <1>2 DEF Reboot
  <2>1. ASSUME NEW s \in Slots
        PROVE  /\ machine'[s] \in MachineType /\ machine'[s].life = machine[s].life
               /\ machine'[s].ip = IF machine[s].life = "up" THEN f[s] ELSE NoIp
    <3>1. /\ machine[s] \in MachineType /\ f[s] \in Addrs \cup {NoIp}
          /\ machine[s].life # "up" => machine[s].ip = NoIp
      BY DEF MachinesOK, LeasesOK
    <3>2. CASE machine[s].life = "up"
      <4>1. machine'[s] = [machine[s] EXCEPT !.ip = f[s], !.serving = "none"]
        BY <2>0, <3>2
      <4> QED
        BY <3>1, <3>2, <4>1 DEF MachineType
    <3>3. CASE machine[s].life # "up"
      <4>1. machine'[s] = machine[s]
        BY <2>0, <3>3
      <4> QED
        BY <3>1, <3>3, <4>1
    <3> QED
      BY <3>2, <3>3
  <2>2. machine' \in [Slots -> MachineType]
    <3>1. machine' = [s \in Slots |-> machine'[s]]
      BY <2>0
    <3> QED
      BY <2>1, <3>1
  <2>3. LeasesOK'
    <3>1. "a" \in Slots /\ "b" \in Slots /\ \A s \in Slots : f[s] # NoIp
      BY HostAssumption DEF HostAssumption, Slots
    <3>2. \A s \in Slots : (machine'[s].ip # NoIp) = (machine'[s].life = "up")
      BY <2>1, <3>1
    <3>3. machine'["a"].ip # NoIp => machine'["a"].ip # machine'["b"].ip
      BY <2>0, <2>1, <3>1
    <3> QED
      BY <3>2, <3>3 DEF LeasesOK
  <2>4. CliOK' /\ KnownInv'
    <3>1. cli' = [q \in Clis |-> Idle]
      BY <1>2 DEF Reboot
    <3> QED
      BY <3>1, IdleTyped, KnownIdle DEF CliOK, KnownInv
  <2>5. CountsOK'
    <3>1. reboots < MaxReboots /\ reboots' = reboots + 1 /\ UNCHANGED faults /\ UNCHANGED misses
      BY <1>2 DEF Reboot
    <3> QED
      BY <3>1, HostAssumption DEF CountsOK, HostAssumption
  <2> QED
    BY <1>2, <2>2, <2>3, <2>4, <2>5 DEF Reboot, MachinesOK, FilesOK
<1> QED
  BY <1>1, <1>2

\* A command touches no other.
LEMMA StepOwn ==
  ASSUME TypeOK, NEW p \in Clis, Step(p)
  PROVE  \A q \in Clis : q # p => cli'[q] = cli[q]
<1> USE TypeParts
<1>1. CASE Calls(p)
  BY <1>1 DEF Calls, Dial, Call, CallFails, UpStat, UpSet, Flip, PointerFails, NextSlot,
     Goto, Ends, CliOK
<1>2. CASE Deploys(p)
  BY <1>2 DEF Deploys, DeployReady, DeployReadIp, DeployInstall, DeployRestart, AwaitClient,
     AwaitVersion, DeployFails, NextSlot, Ends, Goto, CliOK
<1>3. CASE Rebuilds(p)
  BY <1>3 DEF Rebuilds, Confirm, Delete, DeleteUnseen, Create, Boot, RecreateFails, Ends,
     Goto, CliOK
<1> QED
  BY <1>1, <1>2, <1>3 DEF Step

\* What a step of a call, of a deploy, of a rebuild does to the command.
LEMMA CallsKnown ==
  ASSUME TypeOK, KnownInv, NEW p \in Clis, Calls(p)
  PROVE  TypeOK' /\ Known(cli'[p])
<1> USE TypeParts, TypePartsNext, KnownIdle
<1>0. Known(cli[p]) /\ cli[p] \in CliType
  BY CliTyped DEF KnownInv
<1>1. CASE Dial(p)
  <2>1. Slot(p) \in Slots /\ cli[p].pc = "dial"
    BY <1>0, <1>1, SlotTyped DEF Dial, At, Known
  <2>2. PICK ip \in Addrs \cup {NoIp} :
          /\ MachineIp(Slot(p), ip)
          /\ IF cli[p].cmd \in {"refresh", "ip"} THEN WriteMachineIpFile(Slot(p), ip) ELSE UNCHANGED ipFile
          /\ \/ NextSlot(p, "dial", "idle")
             \/ Ends(p)
             \/ Carries(p, "call", ip)
    BY <1>1 DEF Dial, Carries
  <2>3. misses' \in 0..MaxMisses
    BY <2>1, <2>2, MachineIpTyped
  <2>4. FilesOK'
    BY <1>1, <2>1, <2>2, WrittenTyped DEF Dial, FilesOK
  <2>5. CliOK' /\ Known(cli'[p])
    <3>1. CASE NextSlot(p, "dial", "idle")
      <4>1. "dial" \in Pcs /\ "idle" \in Pcs
        BY DEF Pcs
      <4>2. /\ CliOK'
            /\ \/ Tail(cli[p].todo) # <<>>
                  /\ cli'[p] = [cli[p] EXCEPT !.todo = Tail(cli[p].todo), !.pc = "dial"]
               \/ cli'[p] = Idle
        BY <3>1, <4>1, NextSlotTyped
      <4> QED
        BY <1>0, <2>1, <4>2 DEF Known, CliType, Deployment
    <3>2. CASE Ends(p)
      BY <3>2, EndsTyped
    <3>3. CASE Carries(p, "call", ip)
      <4>0. "call" \in Pcs
        BY DEF Pcs
      <4>1. CliOK' /\ cli'[p] = Carried(cli[p], "call", ip)
        BY <3>3, <4>0, CarryTyped
      <4> QED
        BY <1>0, <2>1, <4>1 DEF Known, CliType, Deployment, Carried
    <3> QED
      BY <2>2, <3>1, <3>2, <3>3
  <2> QED
    BY <1>1, <2>3, <2>4, <2>5 DEF Dial, MachinesOK, LeasesOK, CountsOK
<1>2. CASE Call(p)
  <2>1. PICK s \in Answers(cli[p].addr) : machine' = [machine EXCEPT ![s] = Served(cli[p].cmd, machine[s])]
    BY <1>2 DEF Call
  <2>2. MachinesOK'
    <3>1. s \in Slots /\ machine[s] \in MachineType
      BY DEF Answers, MachinesOK
    <3> QED
      BY <2>1, <3>1, SameLease, ServedTyped
  <2>3. CliOK' /\ Known(cli'[p])
    <3> DEFINE after == CASE Doing(p, "up") -> "stat" [] Doing(p, "promote") -> "flip"
                          [] OTHER -> "idle"
    <3>1. NextSlot(p, "dial", after)
      BY <1>2 DEF Call
    <3>2. "dial" \in Pcs /\ after \in Pcs /\ cli[p].pc = "call"
      BY <1>2 DEF Pcs, Call, At
    <3>3. (after = "flip" => cli[p].cmd = "promote") /\ (after = "stat" => cli[p].cmd = "up")
      BY DEF Doing
    <3>4. after \in {"stat", "flip", "idle"}
      OBVIOUS
    <3> HIDE DEF after
    <3>5. /\ CliOK'
          /\ \/ Tail(cli[p].todo) # <<>>
                /\ cli'[p] = [cli[p] EXCEPT !.todo = Tail(cli[p].todo), !.pc = "dial"]
             \/ cli'[p] = Idle
             \/ cli'[p] = [cli[p] EXCEPT !.pc = after]
      BY <3>1, <3>2, NextSlotTyped
    <3> QED
      BY <1>0, <3>2, <3>3, <3>4, <3>5 DEF Known, CliType, Deployment
  <2> QED
    BY <1>2, <2>2, <2>3 DEF Call, FilesOK, CountsOK, bounds
<1>3. CASE CallFails(p)
  <2>1. MachinesOK'
    <3>1. \A s \in Answers(cli[p].addr) : s \in Slots
      BY DEF Answers
    <3>2. CASE UNCHANGED machine
      BY <3>2 DEF MachinesOK, LeasesOK
    <3> QED
      BY <1>3, <3>1, <3>2, FieldTyped DEF CallFails
  <2>2. CliOK' /\ Known(cli'[p])
    <3>1. CASE NextSlot(p, "dial", "idle")
      <4>1. "dial" \in Pcs /\ "idle" \in Pcs /\ cli[p].pc = "call"
        BY <1>3 DEF Pcs, CallFails, At
      <4>2. /\ CliOK'
            /\ \/ Tail(cli[p].todo) # <<>>
                  /\ cli'[p] = [cli[p] EXCEPT !.todo = Tail(cli[p].todo), !.pc = "dial"]
               \/ cli'[p] = Idle
        BY <3>1, <4>1, NextSlotTyped
      <4> QED
        BY <1>0, <4>1, <4>2 DEF Known, CliType, Deployment
    <3>2. CASE Ends(p)
      BY <3>2, EndsTyped
    <3> QED
      BY <1>3, <3>1, <3>2 DEF CallFails
  <2>3. faults' \in 0..MaxFaults
    BY <1>3, FaultTyped DEF CallFails, CountsOK
  <2> QED
    BY <1>3, <2>1, <2>2, <2>3 DEF CallFails, FilesOK, CountsOK
<1>4. CASE UpStat(p)
  <2>1. CliOK' /\ Known(cli'[p])
    <3>1. CASE Goto(p, "set")
      <4>0. "set" \in Pcs /\ cli[p].pc = "stat"
        BY <1>4 DEF Pcs, UpStat, At
      <4>1. CliOK' /\ cli'[p] = [cli[p] EXCEPT !.pc = "set"]
        BY <3>1, <4>0, GotoTyped
      <4> QED
        BY <1>0, <4>0, <4>1 DEF Known, CliType, Deployment
    <3>2. CASE Ends(p)
      BY <3>2, EndsTyped
    <3> QED
      BY <1>4, <3>1, <3>2 DEF UpStat
  <2> QED
    BY <1>4, <2>1 DEF UpStat, MachinesOK, LeasesOK, FilesOK, CountsOK, bounds
<1>6. CASE UpSet(p)
  <2>1. FilesOK'
    BY <1>6 DEF UpSet, FilesOK, Slots
  <2>2. CliOK' /\ Known(cli'[p])
    BY <1>6, EndsTyped DEF UpSet
  <2> QED
    BY <1>6, <2>1, <2>2 DEF UpSet, MachinesOK, LeasesOK, CountsOK, bounds
<1>7. CASE PointerFails(p)
  <2>1. CliOK' /\ Known(cli'[p])
    BY <1>7, EndsTyped DEF PointerFails
  <2>2. faults' \in 0..MaxFaults
    BY <1>7, FaultTyped DEF PointerFails
  <2> QED
    BY <1>7, <2>1, <2>2 DEF PointerFails, MachinesOK, LeasesOK, FilesOK, CountsOK
<1>5. CASE Flip(p)
  <2>1. FilesOK'
    BY <1>0, <1>5 DEF Flip, FilesOK, Known, At
  <2>2. CliOK' /\ Known(cli'[p])
    BY <1>5, EndsTyped DEF Flip
  <2> QED
    BY <1>5, <2>1, <2>2 DEF Flip, MachinesOK, LeasesOK, CountsOK, bounds
<1> QED
  BY <1>1, <1>2, <1>3, <1>4, <1>5, <1>6, <1>7 DEF Calls

\* A command that goes on to a step that is not a call.
LEMMA GoesOn ==
  ASSUME CliOK, NEW p \in Clis, Known(cli[p]), cli[p].pc # "idle",
         NEW pc \in Pcs, Goto(p, pc),
         pc \in Deployment => cli[p].cmd \in {"deploy", "rebuild"},
         pc \notin Deployment => cli[p].cmd = "rebuild" /\ pc \notin {"stat", "set", "flip"}
  PROVE  CliOK' /\ Known(cli'[p])
<1>1. CliOK' /\ cli'[p] = [cli[p] EXCEPT !.pc = pc] /\ cli[p] \in CliType
  BY GotoTyped, CliTyped
<1> QED
  BY <1>1 DEF Known, CliType, Deployment

LEMMA DeploysKnown ==
  ASSUME TypeOK, KnownInv, NEW p \in Clis, Deploys(p)
  PROVE  TypeOK' /\ Known(cli'[p])
<1> USE TypeParts, TypePartsNext, KnownIdle
<1>0. Known(cli[p]) /\ cli[p] \in CliType
  BY CliTyped DEF KnownInv
<1>1. cli[p].pc \in Deployment
  <2>1. CASE DeployReady(p) \/ DeployReadIp(p) \/ DeployInstall(p) \/ DeployRestart(p)
    BY <2>1 DEF DeployReady, DeployReadIp, DeployInstall, DeployRestart, At, Deployment
  <2>2. CASE AwaitClient(p) \/ AwaitVersion(p)
    BY <2>2 DEF AwaitClient, AwaitVersion, At, Deployment
  <2>3. CASE DeployFails(p)
    BY <2>3 DEF DeployFails, Deployment, Deploying
  <2> QED
    BY <2>1, <2>2, <2>3 DEF Deploys
<1>2. Slot(p) \in Slots /\ cli[p].cmd \in {"deploy", "rebuild"} /\ cli[p].pc # "idle"
  BY <1>0, <1>1, SlotTyped DEF Known, Deployment
<1>3. \A pc \in {"readip", "install", "restart", "client"} : Goto(p, pc) => CliOK' /\ Known(cli'[p])
  <2>1. {"readip", "install", "restart", "client"} \subseteq Pcs \cap Deployment
    BY DEF Pcs, Deployment
  <2> QED
    BY <1>0, <1>2, <2>1, GoesOn
<1>4. Ends(p) => CliOK' /\ Known(cli'[p])
  BY EndsTyped
<1>5. UNCHANGED machine => MachinesOK'
  BY DEF MachinesOK, LeasesOK
<1>6. CASE DeployReady(p)
  <2>1. MachinesOK'
    BY <1>2, <1>5, <1>6, Booted DEF DeployReady
  <2> QED
    BY <1>3, <1>6, <2>1 DEF DeployReady, FilesOK, CountsOK, bounds
<1>7. CASE DeployReadIp(p)
  <2>1. PICK ip \in LiveIp(Slot(p)) : RefreshIp(Slot(p), ip) /\ Missed(Slot(p), ip)
    BY <1>7 DEF DeployReadIp
  <2>2. ip \in Addrs \cup {NoIp} /\ misses' \in 0..MaxMisses
    BY <1>2, <2>1, LiveTyped
  <2>3. FilesOK'
    BY <1>2, <1>7, <2>1, <2>2, WrittenTyped DEF DeployReadIp, RefreshIp
  <2> QED
    BY <1>3, <1>5, <1>7, <2>2, <2>3 DEF DeployReadIp, CountsOK
<1>8. CASE DeployInstall(p)
  <2>1. MachinesOK'
    BY <1>2, <1>8, FieldTyped DEF DeployInstall
  <2> QED
    BY <1>3, <1>8, <2>1 DEF DeployInstall, FilesOK, CountsOK, bounds
<1>9. CASE DeployRestart(p)
  <2>1. MachinesOK'
    BY <1>2, <1>9, FieldTyped DEF DeployRestart
  <2> QED
    BY <1>3, <1>9, <2>1 DEF DeployRestart, FilesOK, CountsOK, bounds
<1>10. CASE AwaitClient(p)
  <2>1. PICK ip \in Addrs : MachineIp(Slot(p), ip) /\ Carries(p, "await", ip)
    BY <1>10 DEF AwaitClient, Carries
  <2>2. "await" \in Pcs
    BY DEF Pcs
  <2>3. CliOK' /\ cli'[p] = Carried(cli[p], "await", ip)
    BY <2>1, <2>2, CarryTyped
  <2>4. Known(cli'[p])
    BY <1>0, <1>2, <2>3 DEF Known, CliType, Deployment, Carried
  <2>5. misses' \in 0..MaxMisses
    BY <1>2, <2>1, MachineIpTyped
  <2> QED
    BY <1>5, <1>10, <2>3, <2>4, <2>5 DEF AwaitClient, FilesOK, CountsOK
<1>11. CASE AwaitVersion(p)
  <2>1. CASE Doing(p, "rebuild") /\ Goto(p, "dial")
    <3>1. "dial" \in Pcs /\ "dial" \notin Deployment
      BY DEF Pcs, Deployment
    <3>2. CliOK' /\ Known(cli'[p])
      BY <1>0, <1>2, <2>1, <3>1, GoesOn DEF Doing
    <3> QED
      BY <1>5, <1>11, <3>2 DEF AwaitVersion, FilesOK, CountsOK, bounds
  <2>2. CASE ~Doing(p, "rebuild") /\ NextSlot(p, "ready", "idle")
    <3>1. "ready" \in Pcs /\ "idle" \in Pcs
      BY DEF Pcs
    <3>2. /\ CliOK'
          /\ \/ Tail(cli[p].todo) # <<>>
                /\ cli'[p] = [cli[p] EXCEPT !.todo = Tail(cli[p].todo), !.pc = "ready"]
             \/ cli'[p] = Idle
      BY <2>2, <3>1, NextSlotTyped
    <3>3. Known(cli'[p])
      BY <1>0, <1>2, <3>2 DEF Known, CliType, Deployment
    <3> QED
      BY <1>5, <1>11, <3>2, <3>3 DEF AwaitVersion, FilesOK, CountsOK, bounds
  <2> QED
    BY <1>11, <2>1, <2>2 DEF AwaitVersion
<1>12. CASE DeployFails(p)
  <2>1. MachinesOK'
    BY <1>2, <1>5, <1>12, FieldTyped DEF DeployFails
  <2>2. misses' \in 0..MaxMisses
    BY <1>2, <1>12, MachineIpTyped DEF DeployFails, CountsOK
  <2>3. faults' \in 0..MaxFaults
    BY <1>12, FaultTyped DEF DeployFails, CountsOK
  <2> QED
    BY <1>4, <1>12, <2>1, <2>2, <2>3 DEF DeployFails, FilesOK, CountsOK
<1> QED
  BY <1>6, <1>7, <1>8, <1>9, <1>10, <1>11, <1>12 DEF Deploys

LEMMA RebuildsKnown ==
  ASSUME TypeOK, KnownInv, NEW p \in Clis, Rebuilds(p)
  PROVE  TypeOK' /\ Known(cli'[p])
<1> USE TypeParts, TypePartsNext, KnownIdle
<1>0. Known(cli[p]) /\ cli[p] \in CliType
  BY CliTyped DEF KnownInv
<1>1. cli[p].pc \in {"confirm", "delete", "create", "boot"}
  BY DEF Rebuilds, Confirm, Delete, DeleteUnseen, Create, Boot, RecreateFails, At
<1>2. Slot(p) \in Slots /\ cli[p].cmd = "rebuild" /\ cli[p].pc # "idle"
  BY <1>0, <1>1, SlotTyped DEF Known
<1>3. \A pc \in {"delete", "create", "boot", "ready"} : Goto(p, pc) => CliOK' /\ Known(cli'[p])
  BY <1>0, <1>2, GoesOn DEF Pcs
<1>4. Ends(p) => CliOK' /\ Known(cli'[p])
  BY EndsTyped
<1>5. UNCHANGED machine => MachinesOK'
  BY DEF MachinesOK, LeasesOK
<1>6. Blank \in MachineType /\ NoMachine \in MachineType
  BY DEF Blank, NoMachine, MachineType
<1>7. Blank.ip = NoIp /\ Blank.life # "up" /\ NoMachine.ip = NoIp /\ NoMachine.life # "up"
  BY DEF Blank, NoMachine
<1>8. CASE Confirm(p)
  BY <1>3, <1>4, <1>5, <1>8 DEF Confirm, FilesOK, CountsOK, bounds
<1>9. CASE Delete(p)
  <2>1. MachinesOK'
    BY <1>2, <1>5, <1>6, <1>7, <1>9, NoLease DEF Delete
  <2> QED
    BY <1>3, <1>4, <1>9, <2>1 DEF Delete, FilesOK, CountsOK, bounds
<1>10. CASE Create(p)
  <2>1. MachinesOK'
    BY <1>2, <1>6, <1>7, <1>10, NoLease DEF Create
  <2> QED
    BY <1>3, <1>10, <2>1 DEF Create, FilesOK, CountsOK, bounds
<1>11. CASE Boot(p)
  <2>1. MachinesOK'
    BY <1>2, <1>5, <1>11, Booted DEF Boot
  <2> QED
    BY <1>3, <1>11, <2>1 DEF Boot, FilesOK, CountsOK, bounds
<1>12. CASE RecreateFails(p)
  <2>1. faults' \in 0..MaxFaults
    BY <1>12, FaultTyped DEF RecreateFails, CountsOK
  <2>2. MachinesOK'
    BY <1>2, <1>5, <1>12, StopsTyped DEF RecreateFails
  <2> QED
    BY <1>4, <1>12, <2>1, <2>2 DEF RecreateFails, FilesOK, CountsOK
<1>13. CASE DeleteUnseen(p)
  <2>1. faults' \in 0..MaxFaults
    BY <1>13, FaultTyped DEF DeleteUnseen, CountsOK
  <2>2. MachinesOK'
    BY <1>2, <1>13, StopsTyped DEF DeleteUnseen
  <2> QED
    BY <1>3, <1>13, <2>1, <2>2 DEF DeleteUnseen, FilesOK, CountsOK
<1> QED
  BY <1>8, <1>9, <1>10, <1>11, <1>12, <1>13 DEF Rebuilds

LEMMA StepKnown ==
  ASSUME TypeOK, KnownInv, NEW p \in Clis, Step(p)
  PROVE  TypeOK' /\ KnownInv'
<1>1. TypeOK' /\ Known(cli'[p])
  BY CallsKnown, DeploysKnown, RebuildsKnown DEF Step
<1> QED
  BY <1>1, StepOwn DEF KnownInv

LEMMA NextKnown == TypeOK /\ KnownInv /\ [Next]_vars => TypeOK' /\ KnownInv'
<1>1. ASSUME TypeOK, KnownInv, UNCHANGED vars PROVE TypeOK' /\ KnownInv'
  <2>1. MachinesOK' /\ FilesOK' /\ CliOK' /\ CountsOK'
    BY <1>1, TypeParts DEF vars, bounds, MachinesOK, LeasesOK, FilesOK, CliOK, CountsOK
  <2> QED
    BY <1>1, <2>1, TypePartsNext DEF vars, KnownInv
<1>2. ASSUME TypeOK, KnownInv, Next PROVE TypeOK' /\ KnownInv'
  BY <1>2, StepKnown, RunKnown, WorldKnown DEF Next
<1> QED
  BY <1>1, <1>2

\* Whatever the commands are, how many of them run and what fails: no two
\* machines have an address in common, one has an address while it is up and only
\* then, and no command is anywhere with nothing left to do (deploy.go, commands.go).
THEOREM HostTyped == Spec => []TypeOK
<1>1. Spec => [](TypeOK /\ KnownInv)
  BY TypeInit, NextKnown, PTL DEF Spec
<1> QED
  BY <1>1, PTL

LEMMA AlwaysKnown == Spec => []KnownInv
<1>1. Spec => [](TypeOK /\ KnownInv)
  BY TypeInit, NextKnown, PTL DEF Spec
<1> QED
  BY <1>1, PTL

-----------------------------------------------------------------------------
(* One command at a time *)

\* The Makefile and a user run pgdev commands one after the other; nothing in the
\* code keeps a second one from flipping the pointer under a rebuild.
OneCommand == \A p, q \in Clis : p = q

Target(p) == Head(cli[p].todo)
M(p) == machine[Target(p)]

\* What a deploy has reached at each of its steps: a machine that is up, the file
\* with its address, the shipped daemon on it or on its way, and at last a client
\* of that daemon.  A rebuild goes on from there to the call.
Reached(p) ==
  /\ cli[p].pc \in {"readip", "install", "restart", "client", "await", "dial", "call"} =>
       M(p).life = "up"
  /\ misses = 0 /\ cli[p].pc \in {"install", "restart", "client", "await", "dial", "call"} =>
       ipFile[Target(p)] = M(p).ip
  /\ cli[p].pc = "restart" => M(p).bin = "new"
  /\ cli[p].pc \in {"client", "await"} => M(p).bin = "new" /\ M(p).serving # "old"
  /\ misses = 0 /\ cli[p].pc \in {"await", "call"} => cli[p].addr = M(p).ip
  /\ misses = 0 /\ cli[p].pc \in {"dial", "call"} => M(p).serving = "new"

\* The machine that a rebuild has made again has no backend until it asks for one.
Fresh(p) ==
  cli[p].pc \in {"boot", "ready", "readip", "install", "restart", "client", "await", "dial", "call"} =>
    M(p).backend = "absent" /\ M(p).db = "none"

\* A rebuild has the staging slot in hand from first to last.
Work(p) ==
  /\ cli[p].cmd = "rebuild" => cli[p].todo = <<Staging>> /\ Fresh(p)
  /\ cli[p].cmd = "deploy" => cli[p].todo \in Seq(Slots)
  /\ cli[p].cmd \in {"deploy", "rebuild"} => Reached(p)

WorkInv == \A p \in Clis : Work(p)

\* The slot in hand.
LEMMA InHand ==
  ASSUME TypeOK, KnownInv, NEW p \in Clis, Work(p), cli[p].cmd \in {"deploy", "rebuild"},
         cli[p].pc # "idle"
  PROVE  /\ Target(p) \in Slots /\ Slot(p) = Target(p) /\ M(p) \in MachineType
         /\ cli[p].cmd = "rebuild" => Target(p) = Staging
<1>1. CASE cli[p].cmd = "rebuild"
  <2>1. Target(p) = Staging
    BY <1>1 DEF Work, Target
  <2> QED
    BY <2>1, TwoRoles, TypeParts DEF Slot, Target, M, MachinesOK
<1>2. CASE cli[p].cmd = "deploy"
  <2>1. cli[p].todo \in Seq(Slots) /\ cli[p].todo # <<>>
    BY <1>2 DEF Work, KnownInv, Known
  <2>2. Target(p) \in Slots
    BY <2>1, HeadTailProperties DEF Target
  <2> QED
    BY <1>2, <2>2, TwoRoles, TypeParts DEF Slot, Target, M, MachinesOK
<1> QED
  BY <1>1, <1>2

\* The machine that is up at an address is the one that answers there.
LEMMA OneAnswers ==
  ASSUME TypeOK, NEW s \in Slots, machine[s].life = "up", NEW t \in Answers(machine[s].ip)
  PROVE  t = s
<1>1. t \in Slots /\ machine[t].ip = machine[s].ip
  BY DEF Answers
<1>2. machine[s].ip # NoIp
  BY TypeParts DEF MachinesOK, LeasesOK
<1>3. machine["a"].ip # NoIp => machine["a"].ip # machine["b"].ip
  BY TypeParts DEF MachinesOK, LeasesOK
<1> QED
  BY <1>1, <1>2, <1>3 DEF Slots

LEMMA WorkIdle == ASSUME NEW p \in Clis, cli'[p] = Idle PROVE Work(p)'
  BY DEF Work, Idle

LEMMA WorkInit == Init => WorkInv
  BY DEF Init, WorkInv, Work, Idle

LEMMA WorkRun ==
  ASSUME TypeOK, NEW p \in Clis, NEW cmd \in Cmds, Run(p, cmd)
  PROVE  Work(p)'
<1>1. cli'[p] = Started(p, cmd) /\ pointer' = pointer
  BY RunTyped, TypeParts DEF Run
<1>2. Both \in Seq(Slots)
  BY DEF Both, Slots
<1>3. Todo["deploy"] = Both
  BY DEF Todo
<1>4. Staging' = Staging
  BY <1>1 DEF Staging, Active
<1>5. CASE cmd = "rebuild"
  <2>1. /\ cli'[p].cmd = "rebuild" /\ cli'[p].todo = <<Staging>> /\ cli'[p].pc = "confirm"
    BY <1>1, <1>5 DEF Started
  <2> QED
    BY <1>4, <2>1 DEF Work, Fresh, Reached
<1>6. CASE cmd = "deploy"
  <2>1. /\ cli'[p].cmd = "deploy" /\ cli'[p].todo = Both /\ cli'[p].pc = "ready"
    BY <1>1, <1>3, <1>6 DEF Started
  <2> QED
    BY <1>2, <2>1 DEF Work, Reached
<1>7. CASE cmd \notin {"deploy", "rebuild"}
  <2>1. cli'[p].cmd = cmd
    BY <1>1 DEF Started
  <2> QED
    BY <1>7, <2>1 DEF Work
<1> QED
  BY <1>5, <1>6, <1>7

\* systemd starts what is installed, and starts it once.
LEMMA WorkServes ==
  ASSUME TypeOK, KnownInv, NEW p \in Clis, Work(p), NEW s \in Slots, DaemonServes(s)
  PROVE  Work(p)'
<1>1. cli' = cli /\ pointer' = pointer /\ ipFile' = ipFile /\ misses' = misses
  BY DEF DaemonServes, bounds
<1>2. Staging' = Staging /\ Target(p)' = Target(p)
  BY <1>1 DEF Staging, Active, Target
<1>3. CASE cli[p].cmd \notin {"deploy", "rebuild"} \/ cli[p].pc = "idle"
  <2>1. cli[p].cmd \notin {"deploy", "rebuild"} => Work(p)'
    BY <1>1 DEF Work
  <2>2. cli[p].pc = "idle" => Work(p)'
    BY <1>1, <1>2 DEF Work, Fresh, Reached
  <2> QED
    BY <1>3, <2>1, <2>2
<1>4. CASE cli[p].cmd \in {"deploy", "rebuild"} /\ cli[p].pc # "idle"
  <2>1. Target(p) \in Slots /\ M(p) \in MachineType
    BY <1>4, InHand
  <2>2. \/ M(p)' = M(p)
        \/ M(p).serving = "none" /\ M(p)' = [M(p) EXCEPT !.serving = M(p).bin]
    BY <1>2, <2>1, TypeParts DEF DaemonServes, M, MachinesOK
  <2>3. /\ M(p)'.life = M(p).life /\ M(p)'.ip = M(p).ip /\ M(p)'.bin = M(p).bin
        /\ M(p)'.backend = M(p).backend /\ M(p)'.db = M(p).db
        /\ \/ M(p)'.serving = M(p).serving
           \/ M(p).serving = "none" /\ M(p)'.serving = M(p).bin
    BY <2>1, <2>2 DEF MachineType
  <2>4. Fresh(p) => Fresh(p)'
    BY <1>1, <2>3 DEF Fresh
  <2>5. Reached(p) => Reached(p)'
    BY <1>1, <1>2, <2>3 DEF Reached
  <2> QED
    BY <1>1, <1>2, <1>4, <2>4, <2>5 DEF Work
<1> QED
  BY <1>3, <1>4

\* The steps of a deploy.
LEMMA WorkDeploys ==
  ASSUME TypeOK, TypeOK', KnownInv, NEW p \in Clis, Work(p), Deploys(p)
  PROVE  Work(p)'
<1>0. /\ Known(cli[p]) /\ cli[p] \in CliType /\ CliOK /\ MachinesOK /\ FilesOK /\ CountsOK
  BY CliTyped, TypeParts DEF KnownInv
<1>1. cli[p].cmd \in {"deploy", "rebuild"} /\ cli[p].pc # "idle"
  <2>1. cli[p].pc \in Deployment
    <3>1. CASE DeployReady(p) \/ DeployReadIp(p) \/ DeployInstall(p) \/ DeployRestart(p)
      BY <3>1 DEF DeployReady, DeployReadIp, DeployInstall, DeployRestart, At, Deployment
    <3>2. CASE AwaitClient(p) \/ AwaitVersion(p)
      BY <3>2 DEF AwaitClient, AwaitVersion, At, Deployment
    <3>3. CASE DeployFails(p)
      BY <3>3 DEF DeployFails, Deployment, Deploying
    <3> QED
      BY <3>1, <3>2, <3>3 DEF Deploys
  <2> QED
    BY <1>0, <2>1 DEF Known, Deployment
<1>2. /\ Target(p) \in Slots /\ Slot(p) = Target(p) /\ M(p) \in MachineType
      /\ Reached(p) /\ (cli[p].cmd = "rebuild" => Fresh(p))
  BY <1>1, InHand DEF Work
<1>3. /\ misses \in Nat /\ misses' \in Nat /\ M(p).ip \in Addrs \cup {NoIp}
      /\ (M(p).ip # NoIp) = (M(p).life = "up")
  BY <1>0, <1>2, HostAssumption DEF TypeOK, M, MachinesOK, LeasesOK, MachineType, HostAssumption
<1>4. pointer' = pointer
  BY DEF Deploys, DeployReady, DeployReadIp, DeployInstall, DeployRestart, AwaitClient,
     AwaitVersion, DeployFails
<1>5. Staging' = Staging
  BY <1>4 DEF Staging, Active
<1>6. ASSUME NEW pc \in Pcs, Goto(p, pc)
      PROVE  /\ cli'[p].pc = pc /\ cli'[p].cmd = cli[p].cmd /\ cli'[p].todo = cli[p].todo
             /\ cli'[p].addr = cli[p].addr /\ Target(p)' = Target(p) /\ M(p)' = machine'[Target(p)]
  <2>1. cli'[p] = [cli[p] EXCEPT !.pc = pc]
    BY <1>0, <1>6, GotoTyped
  <2> QED
    BY <1>0, <2>1 DEF CliType, Target, M
<1>7. ASSUME Fresh(p)', Reached(p)', cli'[p].cmd = cli[p].cmd, cli'[p].todo = cli[p].todo
      PROVE  Work(p)'
  BY <1>5, <1>7 DEF Work
<1>8. ASSUME cli[p].cmd = "deploy", Reached(p)', cli'[p].cmd = cli[p].cmd, cli'[p].todo = cli[p].todo
      PROVE  Work(p)'
  BY <1>8 DEF Work
<1>9. ASSUME cli[p].cmd = "rebuild" => Fresh(p)', Reached(p)', cli'[p].cmd = cli[p].cmd,
             cli'[p].todo = cli[p].todo
      PROVE  Work(p)'
  BY <1>1, <1>7, <1>8, <1>9
<1>10. CASE DeployReady(p)
  <2>1. /\ cli'[p].pc = "readip" /\ cli'[p].cmd = cli[p].cmd /\ cli'[p].todo = cli[p].todo
        /\ M(p)' = machine'[Target(p)] /\ cli[p].pc = "ready"
    BY <1>6, <1>10 DEF DeployReady, Pcs, At
  <2>2. M(p)'.life = "up" /\ M(p)'.backend = M(p).backend /\ M(p)'.db = M(p).db
    <3>1. CASE machine[Slot(p)].life = "up"
      BY <1>2, <1>10, <2>1, <3>1 DEF DeployReady, M
    <3>2. CASE machine[Slot(p)].life # "up"
      <4>1. Boots(Slot(p))
        BY <1>10, <3>2 DEF DeployReady
      <4>2. PICK ip \in Addrs : machine' = [machine EXCEPT ![Slot(p)] =
                                              [machine[Slot(p)] EXCEPT !.life = "up", !.ip = ip]]
        BY <1>0, <1>2, <4>1, Booted
      <4>3. M(p)' = [M(p) EXCEPT !.life = "up", !.ip = ip]
        BY <1>0, <1>2, <2>1, <4>2 DEF M, MachinesOK
      <4> QED
        BY <1>2, <4>3 DEF MachineType
    <3> QED
      BY <3>1, <3>2
  <2>3. Reached(p)'
    BY <2>1, <2>2 DEF Reached
  <2>4. cli[p].cmd = "rebuild" => Fresh(p)'
    BY <1>2, <2>1, <2>2 DEF Fresh
  <2> QED
    BY <1>9, <2>1, <2>3, <2>4
<1>11. CASE DeployReadIp(p)
  <2>1. /\ cli'[p].pc = "install" /\ cli'[p].cmd = cli[p].cmd /\ cli'[p].todo = cli[p].todo
        /\ M(p)' = M(p) /\ cli[p].pc = "readip" /\ Target(p)' = Target(p)
    BY <1>6, <1>11 DEF DeployReadIp, Pcs, At, M
  <2>2. PICK ip \in LiveIp(Slot(p)) : RefreshIp(Slot(p), ip) /\ Missed(Slot(p), ip)
    BY <1>11 DEF DeployReadIp
  <2>3. ip \in Addrs \cup {NoIp} /\ (misses' = 0 => ip = M(p).ip)
    BY <1>0, <1>2, <2>2, LiveTyped DEF M
  <2>4. ip # NoIp => ipFile'[Target(p)] = ip
    BY <1>0, <1>2, <1>11, <2>2, <2>3, WrittenTyped DEF DeployReadIp, RefreshIp
  <2>5. M(p).life = "up"
    BY <1>2, <2>1 DEF Reached
  <2>6. Reached(p)'
    BY <1>3, <2>1, <2>3, <2>4, <2>5 DEF Reached
  <2>7. cli[p].cmd = "rebuild" => Fresh(p)'
    BY <1>2, <2>1 DEF Fresh
  <2> QED
    BY <1>9, <2>1, <2>6, <2>7
<1>12. CASE DeployInstall(p)
  <2>1. /\ cli'[p].pc = "restart" /\ cli'[p].cmd = cli[p].cmd /\ cli'[p].todo = cli[p].todo
        /\ M(p)' = machine'[Target(p)] /\ cli[p].pc = "install" /\ Target(p)' = Target(p)
    BY <1>6, <1>12 DEF DeployInstall, Pcs, At
  <2>2. M(p)' = [M(p) EXCEPT !.bin = "new", !.unit = TRUE]
    BY <1>0, <1>2, <1>12, <2>1 DEF DeployInstall, M, MachinesOK, MachineType
  <2>3. /\ M(p)'.life = M(p).life /\ M(p)'.ip = M(p).ip /\ M(p)'.bin = "new"
        /\ M(p)'.backend = M(p).backend /\ M(p)'.db = M(p).db
    BY <1>2, <2>2 DEF MachineType
  <2>4. misses' = misses /\ ipFile' = ipFile
    BY <1>12 DEF DeployInstall, bounds
  <2>5. Reached(p)'
    BY <1>2, <2>1, <2>3, <2>4 DEF Reached
  <2>6. cli[p].cmd = "rebuild" => Fresh(p)'
    BY <1>2, <2>1, <2>3 DEF Fresh
  <2> QED
    BY <1>9, <2>1, <2>5, <2>6
<1>13. CASE DeployRestart(p)
  <2>1. /\ cli'[p].pc = "client" /\ cli'[p].cmd = cli[p].cmd /\ cli'[p].todo = cli[p].todo
        /\ M(p)' = machine'[Target(p)] /\ cli[p].pc = "restart" /\ Target(p)' = Target(p)
    BY <1>6, <1>13 DEF DeployRestart, Pcs, At
  <2>2. M(p)' = [M(p) EXCEPT !.serving = "none"]
    BY <1>0, <1>2, <1>13, <2>1 DEF DeployRestart, M, MachinesOK, MachineType
  <2>3. /\ M(p)'.life = M(p).life /\ M(p)'.ip = M(p).ip /\ M(p)'.bin = M(p).bin
        /\ M(p)'.backend = M(p).backend /\ M(p)'.db = M(p).db /\ M(p)'.serving = "none"
    BY <1>2, <2>2 DEF MachineType
  <2>4. misses' = misses /\ ipFile' = ipFile
    BY <1>13 DEF DeployRestart, bounds
  <2>5. Reached(p)'
    BY <1>2, <2>1, <2>3, <2>4 DEF Reached
  <2>6. cli[p].cmd = "rebuild" => Fresh(p)'
    BY <1>2, <2>1, <2>3 DEF Fresh
  <2> QED
    BY <1>9, <2>1, <2>5, <2>6
<1>14. CASE AwaitClient(p)
  <2>1. PICK ip \in Addrs : MachineIp(Slot(p), ip) /\ Carries(p, "await", ip)
    BY <1>14 DEF AwaitClient, Carries
  <2>2. "await" \in Pcs
    BY DEF Pcs
  <2>3. cli'[p] = Carried(cli[p], "await", ip)
    BY <1>0, <2>1, <2>2, CarryTyped
  <2>4. /\ cli'[p].pc = "await" /\ cli'[p].cmd = cli[p].cmd /\ cli'[p].todo = cli[p].todo
        /\ cli'[p].addr = ip /\ Target(p)' = Target(p) /\ cli[p].pc = "client"
    BY <1>0, <1>14, <2>3 DEF Carried, CliType, Target, AwaitClient, At
  <2>5. M(p)' = M(p) /\ ipFile' = ipFile
    BY <1>14, <2>4 DEF AwaitClient, M
  <2>6. misses' >= misses /\ (ipFile[Target(p)] # NoIp => ip = ipFile[Target(p)])
    BY <1>0, <1>2, <2>1, MachineIpTyped
  <2>7. misses' = 0 => misses = 0
    BY <1>3, <2>6
  <2>8. Reached(p)'
    BY <1>2, <1>3, <2>4, <2>5, <2>6, <2>7 DEF Reached
  <2>9. cli[p].cmd = "rebuild" => Fresh(p)'
    BY <1>2, <2>4, <2>5 DEF Fresh
  <2> QED
    BY <1>9, <2>4, <2>8, <2>9
<1>15. CASE AwaitVersion(p)
  <2>0. /\ cli[p].pc = "await" /\ misses' = misses /\ ipFile' = ipFile /\ machine' = machine
        /\ M(p).life = "up" /\ (misses = 0 => cli[p].addr = M(p).ip)
        /\ (misses = 0 => ipFile[Target(p)] = M(p).ip)
    BY <1>2, <1>15 DEF AwaitVersion, At, bounds, Reached
  <2>1. misses = 0 => M(p).serving = "new"
    <3>1. PICK t \in Answers(cli[p].addr) : machine[t].serving = "new"
      BY <1>15 DEF AwaitVersion, Shipped
    <3>2. misses = 0 => t = Target(p)
      BY <1>2, <2>0, <3>1, OneAnswers DEF M
    <3> QED
      BY <3>1, <3>2 DEF M
  <2>2. CASE cli[p].cmd = "rebuild"
    <3>1. /\ cli'[p].pc = "dial" /\ cli'[p].cmd = cli[p].cmd /\ cli'[p].todo = cli[p].todo
          /\ M(p)' = M(p) /\ Target(p)' = Target(p)
      BY <1>6, <1>15, <2>0, <2>2 DEF AwaitVersion, Doing, Pcs, M
    <3>2. Reached(p)'
      BY <2>0, <2>1, <3>1 DEF Reached
    <3>3. Fresh(p)'
      BY <1>2, <2>0, <2>2, <3>1 DEF Fresh
    <3> QED
      BY <1>9, <3>1, <3>2, <3>3
  <2>3. CASE cli[p].cmd = "deploy"
    <3>1. NextSlot(p, "ready", "idle") /\ "ready" \in Pcs /\ "idle" \in Pcs
      BY <1>15, <2>3 DEF AwaitVersion, Doing, Pcs
    <3>2. \/ cli'[p] = [cli[p] EXCEPT !.todo = Tail(cli[p].todo), !.pc = "ready"]
          \/ cli'[p] = Idle
      BY <1>0, <3>1, NextSlotTyped
    <3>3. cli[p].todo \in Seq(Slots) /\ cli[p].todo # <<>>
      BY <1>0, <1>1, <2>3 DEF Work, Known
    <3>4. Tail(cli[p].todo) \in Seq(Slots)
      BY <3>3, HeadTailProperties
    <3>5. CASE cli'[p] = [cli[p] EXCEPT !.todo = Tail(cli[p].todo), !.pc = "ready"]
      <4>1. cli'[p].pc = "ready" /\ cli'[p].cmd = "deploy" /\ cli'[p].todo \in Seq(Slots)
        BY <1>0, <2>3, <3>4, <3>5 DEF CliType
      <4>2. Reached(p)'
        BY <4>1 DEF Reached
      <4> QED
        BY <4>1, <4>2 DEF Work
    <3> QED
      BY <3>2, <3>5, WorkIdle
  <2> QED
    BY <1>1, <2>2, <2>3
<1>16. CASE DeployFails(p)
  BY <1>0, <1>16, EndsTyped, WorkIdle DEF DeployFails
<1> QED
  BY <1>10, <1>11, <1>12, <1>13, <1>14, <1>15, <1>16 DEF Deploys

\* The steps of a rebuild before its deploy.
LEMMA WorkRebuilds ==
  ASSUME TypeOK, TypeOK', KnownInv, NEW p \in Clis, Work(p), Rebuilds(p)
  PROVE  Work(p)'
<1>0. /\ Known(cli[p]) /\ cli[p] \in CliType /\ CliOK /\ MachinesOK
  BY CliTyped, TypeParts DEF KnownInv
<1>1. cli[p].cmd = "rebuild" /\ cli[p].pc \in {"confirm", "delete", "create", "boot"}
  <2>1. cli[p].pc \in {"confirm", "delete", "create", "boot"}
    BY DEF Rebuilds, Confirm, Delete, DeleteUnseen, Create, Boot, RecreateFails, At
  <2> QED
    BY <1>0, <2>1 DEF Known
<1>2. /\ Target(p) \in Slots /\ Slot(p) = Target(p) /\ M(p) \in MachineType
      /\ Fresh(p) /\ cli[p].todo = <<Staging>>
  BY <1>1, InHand DEF Work
<1>3. Staging' = Staging
  BY DEF Rebuilds, Confirm, Delete, DeleteUnseen, Create, Boot, RecreateFails, Staging, Active
<1>4. ASSUME NEW pc \in Pcs, Goto(p, pc)
      PROVE  /\ cli'[p].pc = pc /\ cli'[p].cmd = "rebuild" /\ cli'[p].todo = cli[p].todo
             /\ Target(p)' = Target(p) /\ M(p)' = machine'[Target(p)]
  <2>1. cli'[p] = [cli[p] EXCEPT !.pc = pc]
    BY <1>0, <1>4, GotoTyped
  <2> QED
    BY <1>0, <1>1, <2>1 DEF CliType, Target, M
<1>5. ASSUME NEW pc \in {"delete", "create"}, Goto(p, pc)
      PROVE  Work(p)'
  <2>1. cli'[p].pc = pc /\ cli'[p].cmd = "rebuild" /\ cli'[p].todo = cli[p].todo
    BY <1>4, <1>5 DEF Pcs
  <2>2. Fresh(p)' /\ Reached(p)'
    BY <2>1 DEF Fresh, Reached
  <2> QED
    BY <1>2, <1>3, <2>1, <2>2 DEF Work
<1>6. Ends(p) => Work(p)'
  BY <1>0, EndsTyped, WorkIdle
<1>7. CASE Confirm(p)
  BY <1>5, <1>6, <1>7 DEF Confirm
<1>8. CASE Delete(p)
  BY <1>5, <1>6, <1>8 DEF Delete
<1>9. CASE Create(p)
  <2>1. /\ cli'[p].pc = "boot" /\ cli'[p].cmd = "rebuild" /\ cli'[p].todo = cli[p].todo
        /\ M(p)' = machine'[Target(p)]
    BY <1>4, <1>9 DEF Create, Pcs
  <2>2. M(p)' = Blank
    BY <1>0, <1>2, <1>9, <2>1 DEF Create, MachinesOK
  <2>3. Fresh(p)' /\ Reached(p)'
    BY <2>1, <2>2 DEF Fresh, Reached, Blank
  <2> QED
    BY <1>2, <1>3, <2>1, <2>3 DEF Work
<1>10. CASE Boot(p)
  <2>1. /\ cli'[p].pc = "ready" /\ cli'[p].cmd = "rebuild" /\ cli'[p].todo = cli[p].todo
        /\ M(p)' = machine'[Target(p)] /\ cli[p].pc = "boot"
    BY <1>4, <1>10 DEF Boot, Pcs, At
  <2>2. M(p)'.backend = M(p).backend /\ M(p)'.db = M(p).db
    <3>1. CASE machine' = machine
      BY <2>1, <3>1 DEF M
    <3>2. CASE Boots(Slot(p))
      <4>1. PICK ip \in Addrs : machine' = [machine EXCEPT ![Slot(p)] =
                                              [machine[Slot(p)] EXCEPT !.life = "up", !.ip = ip]]
        BY <1>0, <1>2, <3>2, Booted
      <4>2. M(p)' = [M(p) EXCEPT !.life = "up", !.ip = ip]
        BY <1>0, <1>2, <2>1, <4>1 DEF M, MachinesOK
      <4> QED
        BY <1>2, <4>2 DEF MachineType
    <3> QED
      BY <1>10, <3>1, <3>2 DEF Boot
  <2>3. Fresh(p)' /\ Reached(p)'
    BY <1>2, <2>1, <2>2 DEF Fresh, Reached
  <2> QED
    BY <1>2, <1>3, <2>1, <2>3 DEF Work
<1>11. CASE RecreateFails(p)
  BY <1>6, <1>11 DEF RecreateFails
<1>12. CASE DeleteUnseen(p)
  BY <1>5, <1>12 DEF DeleteUnseen
<1> QED
  BY <1>7, <1>8, <1>9, <1>10, <1>11, <1>12 DEF Rebuilds

\* A rebuild takes the address from the file, and with its call it is over.
LEMMA WorkCalls ==
  ASSUME TypeOK, TypeOK', KnownInv, NEW p \in Clis, Work(p), Calls(p)
  PROVE  Work(p)'
<1>0. /\ Known(cli[p]) /\ cli[p] \in CliType /\ CliOK /\ MachinesOK /\ FilesOK /\ CountsOK
  BY CliTyped, TypeParts DEF KnownInv
<1>1. cli[p].pc \in {"dial", "call", "stat", "set", "flip"}
  BY DEF Calls, Dial, Call, CallFails, UpStat, UpSet, Flip, PointerFails, At
<1>2. cli[p].cmd # "deploy"
  BY <1>0, <1>1 DEF Known
<1>3. Ends(p) => Work(p)'
  BY <1>0, EndsTyped, WorkIdle
<1>4. ASSUME NEW after \in Pcs, NextSlot(p, "dial", after), cli[p].cmd = "rebuild" => after = "idle"
      PROVE  Work(p)'
  <2>0. "dial" \in Pcs
    BY DEF Pcs
  <2>1. \/ Len(cli[p].todo) > 1 /\ cli'[p] = [cli[p] EXCEPT !.todo = Tail(cli[p].todo), !.pc = "dial"]
        \/ ~(Len(cli[p].todo) > 1) /\ after = "idle" /\ cli'[p] = Idle
        \/ ~(Len(cli[p].todo) > 1) /\ after # "idle" /\ cli'[p] = [cli[p] EXCEPT !.pc = after]
    BY <1>0, <1>4, <2>0, NextSlotTyped
  <2>2. CASE cli[p].cmd = "rebuild"
    <3>1. cli[p].todo = <<Staging>>
      BY <2>2 DEF Work
    <3>2. ~(Len(cli[p].todo) > 1)
      BY <3>1
    <3> QED
      BY <1>4, <2>1, <2>2, <3>2, WorkIdle
  <2>3. CASE cli[p].cmd # "rebuild"
    <3>1. cli'[p] = Idle \/ cli'[p].cmd = cli[p].cmd
      BY <1>0, <2>1 DEF CliType
    <3> QED
      BY <1>2, <2>3, <3>1, WorkIdle DEF Work
  <2> QED
    BY <2>2, <2>3
<1>5. CASE Dial(p) /\ cli[p].cmd = "rebuild"
  <2>1. /\ Target(p) \in Slots /\ Slot(p) = Target(p) /\ M(p) \in MachineType
        /\ Reached(p) /\ Fresh(p) /\ cli[p].todo = <<Staging>> /\ cli[p].pc = "dial"
    BY <1>5, InHand DEF Work, Dial, At
  <2>2. PICK ip \in Addrs \cup {NoIp} :
          MachineIp(Slot(p), ip) /\ (Ends(p) \/ Carries(p, "call", ip))
    BY <1>5 DEF Dial, Doing, Carries
  <2>3. misses' >= misses /\ (ipFile[Target(p)] # NoIp => ip = ipFile[Target(p)])
    BY <1>0, <2>1, <2>2, MachineIpTyped
  <2>4. misses' = 0 => misses = 0
    BY <2>3, HostAssumption DEF TypeOK, HostAssumption
  <2>5. M(p).life = "up" /\ M(p).ip # NoIp /\ (misses = 0 => ipFile[Target(p)] = M(p).ip)
    BY <1>0, <2>1 DEF Reached, M, MachinesOK, LeasesOK
  <2>6. CASE Carries(p, "call", ip)
    <3>1. "call" \in Pcs
      BY DEF Pcs
    <3>2. cli'[p] = Carried(cli[p], "call", ip)
      BY <1>0, <2>6, <3>1, CarryTyped
    <3>3. /\ cli'[p].pc = "call" /\ cli'[p].cmd = "rebuild" /\ cli'[p].todo = cli[p].todo
          /\ cli'[p].addr = ip /\ Target(p)' = Target(p)
      BY <1>0, <1>5, <3>2 DEF Carried, CliType, Target
    <3>4. /\ M(p)' = M(p) /\ ipFile' = ipFile /\ Staging' = Staging
      BY <1>5, <3>3 DEF Dial, M, Staging, Active
    <3>5. Reached(p)'
      BY <2>1, <2>3, <2>4, <2>5, <3>3, <3>4 DEF Reached
    <3>6. Fresh(p)'
      BY <2>1, <3>3, <3>4 DEF Fresh
    <3> QED
      BY <2>1, <3>3, <3>4, <3>5, <3>6 DEF Work
  <2> QED
    BY <1>3, <2>2, <2>6
<1>6. CASE Dial(p) /\ cli[p].cmd # "rebuild"
  <2>1. PICK ip \in Addrs \cup {NoIp} :
          NextSlot(p, "dial", "idle") \/ Ends(p) \/ Carries(p, "call", ip)
    BY <1>6 DEF Dial, Carries
  <2>2. CASE Carries(p, "call", ip)
    <3>1. "call" \in Pcs
      BY DEF Pcs
    <3>2. cli'[p] = Carried(cli[p], "call", ip)
      BY <1>0, <2>2, <3>1, CarryTyped
    <3>3. cli'[p].cmd = cli[p].cmd
      BY <1>0, <3>2 DEF Carried, CliType
    <3> QED
      BY <1>2, <1>6, <3>3 DEF Work
  <2> QED
    BY <1>3, <1>4, <1>6, <2>1, <2>2 DEF Pcs
<1>7. CASE Call(p)
  <2> DEFINE after == CASE Doing(p, "up") -> "stat" [] Doing(p, "promote") -> "flip"
                        [] OTHER -> "idle"
  <2>1. NextSlot(p, "dial", after)
    BY <1>7 DEF Call
  <2>2. after \in Pcs /\ (cli[p].cmd = "rebuild" => after = "idle")
    BY DEF Pcs, Doing
  <2> QED
    BY <1>4, <2>1, <2>2
<1>8. CASE CallFails(p) \/ UpSet(p) \/ Flip(p) \/ PointerFails(p)
  <2>1. "idle" \in Pcs
    BY DEF Pcs
  <2> QED
    BY <1>3, <1>4, <1>8, <2>1 DEF CallFails, UpSet, Flip, PointerFails
<1>9. CASE UpStat(p)
  <2>1. cli[p].cmd \notin {"deploy", "rebuild"}
    BY <1>0, <1>9 DEF Known, UpStat, At
  <2>2. CASE Goto(p, "set")
    <3>1. cli'[p] = [cli[p] EXCEPT !.pc = "set"]
      BY <1>0, <2>2, GotoTyped DEF Pcs
    <3>2. cli'[p].cmd = cli[p].cmd
      BY <1>0, <3>1 DEF CliType
    <3> QED
      BY <2>1, <3>2 DEF Work
  <2> QED
    BY <1>3, <1>9, <2>2 DEF UpStat
<1> QED
  BY <1>5, <1>6, <1>7, <1>8, <1>9 DEF Calls

LEMMA WorkNext ==
  ASSUME OneCommand, TypeOK, TypeOK', KnownInv, WorkInv, [Next]_vars
  PROVE  WorkInv'
<1> SUFFICES ASSUME NEW p \in Clis PROVE Work(p)'
  BY DEF WorkInv
<1>0. Work(p)
  BY DEF WorkInv
<1>1. CASE UNCHANGED vars
  BY <1>0, <1>1 DEF vars, bounds, Work, Fresh, Reached, Target, M, Staging, Active
<1>2. CASE \E q \in Clis : Step(q) \/ \E cmd \in Cmds : Run(q, cmd)
  <2>1. Step(p) \/ \E cmd \in Cmds : Run(p, cmd)
    BY <1>2 DEF OneCommand
  <2> QED
    BY <1>0, <2>1, WorkRun, WorkCalls, WorkDeploys, WorkRebuilds DEF Step
<1>3. CASE \E s \in Slots : DaemonServes(s)
  BY <1>0, <1>3, WorkServes
<1>4. CASE Reboot
  <2>1. cli'[p] = Idle
    BY <1>4 DEF Reboot
  <2> QED
    BY <2>1, WorkIdle
<1> QED
  BY <1>1, <1>2, <1>3, <1>4 DEF Next

LEMMA AlwaysWork ==
  ASSUME OneCommand PROVE Spec => []WorkInv
<1>1. TypeOK /\ TypeOK' /\ KnownInv /\ WorkInv /\ [Next]_vars => WorkInv'
  BY WorkNext
<1> QED
  BY <1>1, WorkInit, HostTyped, AlwaysKnown, PTL DEF Spec

\* The machine a rebuild's call reaches: the staging machine as long as addresses
\* are read, and else one without a backend.
LEMMA CallReaches ==
  ASSUME TypeOK, KnownInv, NEW p \in Clis, Work(p), cli[p].cmd = "rebuild", At(p, "call"),
         NEW s \in Answers(cli[p].addr)
  PROVE  misses = 0 => s = Staging
<1>1. Target(p) \in Slots /\ Target(p) = Staging /\ Reached(p)
  BY InHand DEF Work, At
<1>2. M(p).life = "up" /\ (misses = 0 => cli[p].addr = M(p).ip)
  BY <1>1 DEF Reached, At
<1> QED
  BY <1>1, <1>2, OneAnswers DEF M

LEMMA RebuildStep ==
  ASSUME TypeOK, KnownInv, NEW p \in Clis, Work(p), Doing(p, "rebuild"), Step(p)
  PROVE  /\ misses = 0 => machine'[Active] = machine[Active]
         /\ machine'[Active].life = machine[Active].life
         /\ machine[Active].backend # "absent" => machine'[Active].db = machine[Active].db
<1>0. /\ MachinesOK /\ cli[p].cmd = "rebuild" /\ Active \in Slots /\ Staging \in Slots
      /\ Active # Staging
  BY TypeParts, TwoRoles DEF Doing
<1>1. cli[p].pc # "idle" => Slot(p) = Staging
  BY <1>0, InHand
<1>2. ASSUME machine'[Active] = machine[Active]
      PROVE  /\ misses = 0 => machine'[Active] = machine[Active]
             /\ machine'[Active].life = machine[Active].life
             /\ machine[Active].backend # "absent" => machine'[Active].db = machine[Active].db
  BY <1>2
<1>3. CASE Calls(p)
  <2>1. CASE Dial(p) \/ UpStat(p) \/ UpSet(p) \/ Flip(p) \/ PointerFails(p)
    BY <1>2, <2>1 DEF Dial, UpStat, UpSet, Flip, PointerFails
  <2>2. CASE Call(p)
    <3>1. PICK s \in Answers(cli[p].addr) :
            /\ Serves(cli[p].cmd, machine[s])
            /\ machine' = [machine EXCEPT ![s] = Served(cli[p].cmd, machine[s])]
      BY <2>2 DEF Call
    <3>2. s \in Slots /\ machine[s] \in MachineType /\ machine[s].backend = "absent"
      BY <1>0, <3>1 DEF Answers, MachinesOK, Serves
    <3>3. misses = 0 => s # Active
      BY <1>0, <2>2, CallReaches DEF Call
    <3>4. s # Active => machine'[Active] = machine[Active]
      BY <1>0, <3>1, <3>2 DEF MachinesOK
    <3>5. s = Active => machine'[Active] = Served(cli[p].cmd, machine[s])
      BY <1>0, <3>1, <3>2 DEF MachinesOK
    <3> QED
      BY <3>2, <3>3, <3>4, <3>5, ServedTyped
  <2>3. CASE CallFails(p)
    <3>1. CASE UNCHANGED machine
      BY <1>2, <3>1
    <3>2. CASE \E s \in Answers(cli[p].addr) :
                 /\ machine[s].backend = "absent"
                 /\ machine' = [machine EXCEPT ![s].backend = "RUNNING", ![s].db = "partial"]
      <4>1. PICK s \in Answers(cli[p].addr) :
              /\ machine[s].backend = "absent"
              /\ machine' = [machine EXCEPT ![s].backend = "RUNNING", ![s].db = "partial"]
        BY <3>2
      <4>2. s \in Slots /\ machine[s] \in MachineType
        BY <1>0 DEF Answers, MachinesOK
      <4>3. misses = 0 => s # Active
        BY <1>0, <2>3, CallReaches DEF CallFails
      <4>4. s # Active => machine'[Active] = machine[Active]
        BY <1>0, <4>1, <4>2 DEF MachinesOK
      <4>5. s = Active => machine'[Active].life = machine[Active].life
        BY <1>0, <4>1, <4>2 DEF MachinesOK, MachineType
      <4> QED
        BY <4>1, <4>3, <4>4, <4>5
    <3> QED
      BY <2>3, <3>1, <3>2 DEF CallFails
  <2> QED
    BY <1>3, <2>1, <2>2, <2>3 DEF Calls
<1>4. CASE Deploys(p)
  <2>1. CASE DeployReady(p)
    <3>1. CASE Boots(Slot(p))
      <4>1. Slot(p) = Staging
        BY <1>1, <2>1 DEF DeployReady, At
      <4>2. \E ip \in Addrs : machine' = [machine EXCEPT ![Staging] =
                                            [machine[Staging] EXCEPT !.life = "up", !.ip = ip]]
        BY <1>0, <3>1, <4>1, Booted
      <4> QED
        BY <1>0, <1>2, <4>2 DEF MachinesOK
    <3>2. CASE UNCHANGED machine
      BY <1>2, <3>2
    <3> QED
      BY <2>1, <3>1, <3>2 DEF DeployReady
  <2>2. CASE DeployInstall(p)
    <3>1. Slot(p) = Staging
      BY <1>1, <2>2 DEF DeployInstall, At
    <3> QED
      BY <1>0, <1>2, <2>2, <3>1 DEF DeployInstall, MachinesOK
  <2>3. CASE DeployRestart(p)
    <3>1. Slot(p) = Staging
      BY <1>1, <2>3 DEF DeployRestart, At
    <3> QED
      BY <1>0, <1>2, <2>3, <3>1 DEF DeployRestart, MachinesOK
  <2>4. CASE DeployFails(p)
    <3>1. Slot(p) = Staging
      BY <1>1, <2>4 DEF DeployFails, Deploying
    <3>2. \/ machine' = machine
          \/ machine' = [machine EXCEPT ![Staging].bin = "new"]
      BY <2>4, <3>1 DEF DeployFails
    <3> QED
      BY <1>0, <1>2, <3>2 DEF MachinesOK
  <2>5. CASE DeployReadIp(p) \/ AwaitClient(p) \/ AwaitVersion(p)
    BY <1>2, <2>5 DEF DeployReadIp, AwaitClient, AwaitVersion
  <2> QED
    BY <1>4, <2>1, <2>2, <2>3, <2>4, <2>5 DEF Deploys
<1>5. CASE Rebuilds(p)
  <2>1. CASE Confirm(p)
    BY <1>2, <2>1 DEF Confirm
  <2>5. CASE DeleteUnseen(p) \/ RecreateFails(p)
    <3>1. Slot(p) = Staging
      BY <1>1, <2>5 DEF DeleteUnseen, RecreateFails, At
    <3>2. machine' = machine \/ machine' = [machine EXCEPT ![Staging] = Stopped(Staging)]
      BY <2>5, <3>1 DEF DeleteUnseen, RecreateFails, StopsOrNot
    <3> QED
      BY <1>0, <1>2, <3>2 DEF MachinesOK
  <2>2. CASE Delete(p)
    <3>1. Slot(p) = Staging
      BY <1>1, <2>2 DEF Delete, At
    <3> QED
      BY <1>0, <1>2, <2>2, <3>1 DEF Delete, MachinesOK
  <2>3. CASE Create(p)
    <3>1. Slot(p) = Staging
      BY <1>1, <2>3 DEF Create, At
    <3> QED
      BY <1>0, <1>2, <2>3, <3>1 DEF Create, MachinesOK
  <2>4. CASE Boot(p)
    <3>1. CASE Boots(Slot(p))
      <4>1. Slot(p) = Staging
        BY <1>1, <2>4 DEF Boot, At
      <4>2. \E ip \in Addrs : machine' = [machine EXCEPT ![Staging] =
                                            [machine[Staging] EXCEPT !.life = "up", !.ip = ip]]
        BY <1>0, <3>1, <4>1, Booted
      <4> QED
        BY <1>0, <1>2, <4>2 DEF MachinesOK
    <3>2. CASE UNCHANGED machine
      BY <1>2, <3>2
    <3> QED
      BY <2>4, <3>1, <3>2 DEF Boot
  <2> QED
    BY <1>5, <2>1, <2>2, <2>3, <2>4, <2>5 DEF Rebuilds
<1> QED
  BY <1>3, <1>4, <1>5 DEF Step

\* A rebuild never touches the machine clients are on: what it deletes, makes,
\* deploys to and provisions is the staging machine of the pointer, as long as
\* addresses are read; and when one is not, the daemon it then talks to refuses to
\* provision over a backend (commands.go:507-570, ops/up.go).
THEOREM RebuildKeepsOff ==
  ASSUME OneCommand PROVE Spec => ActiveNeverTouched
<1>1. TypeOK /\ KnownInv /\ WorkInv /\ [Next]_vars =>
        [\A p \in Clis : Doing(p, "rebuild") /\ Step(p) =>
           /\ misses = 0 => machine'[Active] = machine[Active]
           /\ machine'[Active].life = machine[Active].life
           /\ machine[Active].backend # "absent" => machine'[Active].db = machine[Active].db]_vars
  BY RebuildStep DEF WorkInv
<1> QED
  BY <1>1, HostTyped, AlwaysKnown, AlwaysWork, PTL DEF Spec, ActiveNeverTouched

LEMMA DeployReport ==
  ASSUME TypeOK, KnownInv, NEW p \in Clis, Work(p), AwaitVersion(p), misses = 0
  PROVE  machine[Slot(p)].serving = "new" /\ machine[Slot(p)].ip = ipFile[Slot(p)]
<1>1. cli[p].pc = "await" /\ cli[p].cmd \in {"deploy", "rebuild"}
  BY DEF AwaitVersion, At, KnownInv, Known, Deployment
<1>2. Slot(p) = Target(p) /\ Target(p) \in Slots /\ Reached(p)
  BY <1>1, InHand DEF Work
<1>3. M(p).life = "up" /\ cli[p].addr = M(p).ip /\ ipFile[Target(p)] = M(p).ip
  BY <1>1, <1>2 DEF Reached
<1>4. PICK t \in Answers(cli[p].addr) : machine[t].serving = "new"
  BY DEF AwaitVersion, Shipped
<1>5. t = Target(p)
  BY <1>2, <1>3, <1>4, OneAnswers DEF M
<1> QED
  BY <1>2, <1>3, <1>4, <1>5 DEF M

LEMMA RebuildReport ==
  ASSUME TypeOK, KnownInv, NEW p \in Clis, Work(p), Doing(p, "rebuild"), Call(p), misses = 0,
         NEW s \in Slots, s = Slot(p)
  PROVE  Whole(s)'
<1>0. MachinesOK /\ cli[p].cmd = "rebuild" /\ cli[p].pc = "call"
  BY TypeParts DEF Doing, Call, At
<1>1. s = Target(p) /\ s = Staging /\ Reached(p) /\ Fresh(p) /\ machine[s] \in MachineType
  BY <1>0, InHand DEF Work, M
<1>2. /\ machine[s].life = "up" /\ ipFile[s] = machine[s].ip /\ machine[s].serving = "new"
      /\ machine[s].db = "none"
  BY <1>0, <1>1 DEF Reached, Fresh, M
<1>3. machine' = [machine EXCEPT ![s] = Served("rebuild", machine[s])] /\ ipFile' = ipFile
  BY <1>0, <1>1, CallReaches DEF Call, At
<1>4. machine'[s] = [machine[s] EXCEPT !.backend = "RUNNING", !.db = "fresh"]
  BY <1>0, <1>2, <1>3 DEF MachinesOK, Served
<1>5. /\ machine'[s].life = "up" /\ machine'[s].serving = "new" /\ machine'[s].ip = machine[s].ip
      /\ machine'[s].backend = "RUNNING" /\ machine'[s].db = "fresh"
  BY <1>1, <1>2, <1>4 DEF MachineType
<1> QED
  BY <1>2, <1>3, <1>5 DEF Whole

\* As long as addresses are read, "live" is true when it is said: the daemon whose
\* version deploy has seen is the one it shipped, on the machine it shipped it to,
\* and a rebuild that ends well leaves the staging machine whole, at the address
\* that the other commands and the forwarder use (deploy.go:190-215,
\* commands.go:507-570).
THEOREM ReportsAreTrue ==
  ASSUME OneCommand PROVE Spec => ReportedIsDone
<1>1. ASSUME TypeOK, KnownInv, WorkInv, Next, NEW p \in Clis, NEW s \in Slots, misses = 0
      PROVE  /\ AwaitVersion(p) /\ s = Slot(p) =>
                  machine[s].serving = "new" /\ machine[s].ip = ipFile[s]
             /\ Doing(p, "rebuild") /\ Call(p) /\ s = Slot(p) => Whole(s)'
  BY <1>1, DeployReport, RebuildReport DEF WorkInv
<1>2. TypeOK /\ KnownInv /\ WorkInv /\ [Next]_vars =>
        [\A p \in Clis, s \in Slots : misses = 0 =>
           /\ AwaitVersion(p) /\ s = Slot(p) =>
                machine[s].serving = "new" /\ machine[s].ip = ipFile[s]
           /\ Doing(p, "rebuild") /\ Call(p) /\ s = Slot(p) => Whole(s)']_vars
  BY <1>1
<1> QED
  BY <1>2, HostTyped, AlwaysKnown, AlwaysWork, PTL DEF Spec, ReportedIsDone
-----------------------------------------------------------------------------
(* Promote *)

\* The files are never emptied: an address that could not be read is not written.
FilesKept == \A s \in Slots : ipFile[s] # NoIp

\* There is a machine at ip, and it has a running backend.
Runs(ip) == \E s \in Slots : machine[s].ip = ip /\ machine[s].backend = "RUNNING"

\* What a promote has seen at each of its steps.
Seen(p) ==
  cli[p].cmd = "promote" =>
    /\ cli[p].pc \in {"dial", "call", "flip"}
    /\ cli[p].todo = Both \/ (cli[p].todo = <<"b">> /\ Runs(ipFile["a"]))
    /\ cli[p].pc = "call" => cli[p].addr = ipFile[Target(p)]
    /\ cli[p].pc = "flip" => Runs(ipFile["a"]) /\ Runs(ipFile["b"])

SeenInv == FilesKept /\ \A p \in Clis : Seen(p)

LEMMA KeptFiles ==
  ASSUME TypeOK, FilesKept, Next
  PROVE  FilesKept'
<1>1. ipFile' = ipFile \/ \E s, ip : WriteMachineIpFile(s, ip)
  <2>1. ASSUME NEW p \in Clis, Step(p)
        PROVE  \/ ipFile' = ipFile
               \/ \E ip : WriteMachineIpFile(Slot(p), ip)
    <3>1. CASE Calls(p)
      <4>1. CASE Dial(p)
        <5>1. PICK ip \in Addrs \cup {NoIp} :
                IF cli[p].cmd \in {"refresh", "ip"} THEN WriteMachineIpFile(Slot(p), ip)
                ELSE UNCHANGED ipFile
          BY <4>1 DEF Dial
        <5> QED
          BY <5>1
      <4> QED
        BY <3>1, <4>1 DEF Calls, Call, CallFails, UpStat, UpSet, Flip, PointerFails
    <3>2. CASE Deploys(p) /\ ~DeployReadIp(p)
      BY <3>2 DEF Deploys, DeployReady, DeployInstall, DeployRestart, AwaitClient, AwaitVersion,
         DeployFails
    <3>3. CASE DeployReadIp(p)
      <4>1. PICK ip \in LiveIp(Slot(p)) : WriteMachineIpFile(Slot(p), ip)
        BY <3>3 DEF DeployReadIp, RefreshIp
      <4> QED
        BY <4>1
    <3>4. CASE Rebuilds(p)
      BY <3>4 DEF Rebuilds, Confirm, Delete, DeleteUnseen, Create, Boot, RecreateFails
    <3> QED
      BY <2>1, <3>1, <3>2, <3>3, <3>4 DEF Step
  <2>2. ASSUME NEW p \in Clis, NEW cmd \in Cmds, Run(p, cmd) PROVE ipFile' = ipFile
    BY <2>2 DEF Run
  <2>3. ((\E s \in Slots : DaemonServes(s)) \/ Reboot) => ipFile' = ipFile
    BY DEF DaemonServes, Reboot
  <2> QED
    BY <2>1, <2>2, <2>3 DEF Next
<1>2. ASSUME NEW s, NEW ip, WriteMachineIpFile(s, ip), NEW t \in Slots
      PROVE  ipFile'[t] # NoIp
  <2>1. ipFile[t] # NoIp /\ ipFile \in [Slots -> Addrs \cup {NoIp}]
    BY TypeParts DEF FilesKept, FilesOK
  <2>2. CASE ip = NoIp
    BY <1>2, <2>1, <2>2 DEF WriteMachineIpFile
  <2>3. CASE ip # NoIp
    <3>1. ipFile' = [ipFile EXCEPT ![s] = ip]
      BY <1>2, <2>3 DEF WriteMachineIpFile
    <3>2. ipFile'[t] = IF t = s THEN ip ELSE ipFile[t]
      BY <2>1, <3>1
    <3> QED
      BY <2>1, <2>3, <3>2
  <2> QED
    BY <2>2, <2>3
<1> QED
  BY <1>1, <1>2 DEF FilesKept

\* Two addresses at which there are running backends are those of both machines.
LEMMA BothRun ==
  ASSUME NEW x, NEW y, x # y, Runs(x), Runs(y), NEW s \in Slots
  PROVE  machine[s].backend = "RUNNING" /\ machine[s].ip \in {x, y}
<1>1. PICK t \in Slots : machine[t].ip = x /\ machine[t].backend = "RUNNING"
  BY DEF Runs
<1>2. PICK u \in Slots : machine[u].ip = y /\ machine[u].backend = "RUNNING"
  BY DEF Runs
<1>3. t # u
  BY <1>1, <1>2
<1> QED
  BY <1>1, <1>2, <1>3 DEF Slots

\* A step that changes neither the command nor what it has seen.
LEMMA SeenKept ==
  ASSUME NEW p \in Clis, Seen(p), cli' = cli, ipFile' = ipFile, \A ip : Runs(ip) => Runs(ip)'
  PROVE  Seen(p)'
  BY DEF Seen, Target

LEMMA SeenIdle == ASSUME NEW p \in Clis, cli'[p] = Idle PROVE Seen(p)'
  BY DEF Seen, Idle

LEMMA SeenOther ==
  ASSUME NEW p \in Clis, cli'[p].cmd # "promote" PROVE Seen(p)'
  BY DEF Seen

\* A step of a command does not make it another one.
LEMMA StepCmd ==
  ASSUME TypeOK, KnownInv, NEW p \in Clis, Step(p)
  PROVE  cli'[p] = Idle \/ cli'[p].cmd = cli[p].cmd
<1>0. cli[p] \in CliType /\ CliOK
  BY CliTyped, TypeParts
<1>1. ASSUME NEW pc, Goto(p, pc) PROVE cli'[p].cmd = cli[p].cmd
  <2>1. cli'[p] = [cli[p] EXCEPT !.pc = pc]
    BY <1>0, <1>1 DEF Goto, CliOK
  <2> QED
    BY <1>0, <2>1 DEF CliType
<1>2. ASSUME NEW pc, NEW ip, Carries(p, pc, ip) PROVE cli'[p].cmd = cli[p].cmd
  <2>1. cli' = [cli EXCEPT ![p] = [cli[p] EXCEPT !.pc = pc, !.addr = ip]]
    BY <1>0, <1>2 DEF Carries, CliType
  <2>2. cli'[p] = [cli[p] EXCEPT !.pc = pc, !.addr = ip]
    BY <1>0, <2>1 DEF CliOK
  <2> QED
    BY <1>0, <2>2 DEF CliType
<1>3. ASSUME NEW pc, NEW after, NextSlot(p, pc, after) PROVE cli'[p] = Idle \/ cli'[p].cmd = cli[p].cmd
  <2>1. \/ cli'[p] = [cli[p] EXCEPT !.todo = Tail(cli[p].todo), !.pc = pc]
        \/ cli'[p] = Idle
        \/ cli'[p] = [cli[p] EXCEPT !.pc = after]
    BY <1>0, <1>3 DEF NextSlot, CliOK
  <2> QED
    BY <1>0, <2>1 DEF CliType
<1>4. Ends(p) => cli'[p] = Idle
  BY <1>0 DEF Ends, CliOK
<1>5. CASE Calls(p)
  <2>1. CASE Dial(p)
    <3>1. PICK ip \in Addrs \cup {NoIp} : NextSlot(p, "dial", "idle") \/ Ends(p) \/ Carries(p, "call", ip)
      BY <2>1 DEF Dial, Carries
    <3> QED
      BY <1>2, <1>3, <1>4, <3>1
  <2>2. CASE ~Dial(p)
    BY <1>1, <1>3, <1>4, <1>5, <2>2 DEF Calls, Call, CallFails, UpStat, UpSet, Flip, PointerFails
  <2> QED
    BY <2>1, <2>2
<1>6. CASE Deploys(p)
  <2>1. CASE AwaitClient(p)
    <3>1. PICK ip \in Addrs : Carries(p, "await", ip)
      BY <2>1 DEF AwaitClient, Carries
    <3> QED
      BY <1>2, <3>1
  <2>2. CASE ~AwaitClient(p)
    BY <1>1, <1>3, <1>4, <1>6, <2>2 DEF Deploys, DeployReady, DeployReadIp, DeployInstall,
       DeployRestart, AwaitVersion, DeployFails
  <2> QED
    BY <2>1, <2>2
<1>7. CASE Rebuilds(p)
  BY <1>1, <1>4, <1>7 DEF Rebuilds, Confirm, Delete, DeleteUnseen, Create, Boot, RecreateFails
<1> QED
  BY <1>5, <1>6, <1>7 DEF Step

\* A promote begins with both slots to ask.
LEMMA SeenRun ==
  ASSUME TypeOK, NEW p \in Clis, NEW cmd \in Cmds, Run(p, cmd)
  PROVE  Seen(p)'
<1>1. cli'[p] = Started(p, cmd)
  BY RunTyped, TypeParts
<1>2. CASE cmd = "promote"
  <2>1. cli'[p].pc = "dial" /\ cli'[p].todo = Both
    BY <1>1, <1>2 DEF Started, Todo
  <2> QED
    BY <2>1 DEF Seen
<1>3. CASE cmd # "promote"
  <2>1. cli'[p].cmd # "promote"
    BY <1>1, <1>3 DEF Started
  <2> QED
    BY <2>1, SeenOther
<1> QED
  BY <1>2, <1>3

\* It asks one slot after the other, each at the address of its file, and goes on
\* when what answers there is running.
LEMMA SeenCalls ==
  ASSUME TypeOK, KnownInv, FilesKept, NEW p \in Clis, Seen(p), Calls(p), cli[p].cmd = "promote"
  PROVE  Seen(p)'
<1>0. /\ Known(cli[p]) /\ cli[p] \in CliType /\ CliOK /\ MachinesOK /\ FilesOK /\ CountsOK
  BY CliTyped, TypeParts DEF KnownInv
<1>1. Ends(p) => Seen(p)'
  BY <1>0, EndsTyped, SeenIdle
<1>2. /\ cli[p].todo \in {Both, <<"b">>}
      /\ cli[p].todo = <<"b">> => Runs(ipFile["a"])
  <2>1. Both # <<"b">>
    BY DEF Both
  <2> QED
    BY <2>1 DEF Seen
<1>3. /\ Target(p) \in Slots /\ Slot(p) = Target(p)
      /\ cli[p].todo = Both => Target(p) = "a" /\ Len(cli[p].todo) = 2 /\ Tail(cli[p].todo) = <<"b">>
      /\ cli[p].todo = <<"b">> => Target(p) = "b" /\ Len(cli[p].todo) = 1
  <2>1. CASE cli[p].todo = Both
    <3>1. Head(Both) = "a" /\ Len(Both) = 2 /\ Tail(Both) = <<"b">> /\ Both # <<"b">>
      BY DEF Both
    <3> QED
      BY <2>1, <3>1, TwoRoles DEF Target, Slot, Slots
  <2>2. CASE cli[p].todo = <<"b">>
    <3>1. Head(<<"b">>) = "b" /\ Len(<<"b">>) = 1 /\ Both # <<"b">>
      BY DEF Both
    <3> QED
      BY <2>2, <3>1, TwoRoles DEF Target, Slot, Slots
  <2> QED
    BY <1>2, <2>1, <2>2
<1>4. CASE Dial(p)
  <2>1. PICK ip \in Addrs \cup {NoIp} :
          /\ MachineIp(Slot(p), ip)
          /\ Ends(p) \/ Carries(p, "call", ip)
    BY <1>4 DEF Dial, Doing, Carries
  <2>2. ip = ipFile[Target(p)]
    BY <1>3, <2>1 DEF MachineIp, FilesKept
  <2>3. ipFile' = ipFile /\ machine' = machine
    BY <1>4 DEF Dial
  <2>4. CASE Carries(p, "call", ip)
    <3>0. "call" \in Pcs
      BY DEF Pcs
    <3>1. cli'[p] = Carried(cli[p], "call", ip)
      BY <1>0, <2>4, <3>0, CarryTyped
    <3>2. cli'[p].pc = "call" /\ cli'[p].addr = ip /\ cli'[p].todo = cli[p].todo
      BY <1>0, <3>1 DEF Carried, CliType
    <3>3. Runs(ipFile["a"]) => Runs(ipFile["a"])'
      BY <2>3 DEF Runs
    <3>4. Target(p)' = Target(p)
      BY <3>2 DEF Target
    <3>5. cli'[p].addr = ipFile'[Target(p)']
      BY <2>2, <2>3, <3>2, <3>4
    <3>6. cli'[p].todo = Both \/ (cli'[p].todo = <<"b">> /\ Runs(ipFile["a"])')
      BY <1>2, <3>2, <3>3
    <3> QED
      BY <3>2, <3>5, <3>6 DEF Seen
  <2> QED
    BY <1>1, <2>1, <2>4
<1>5. CASE Call(p)
  <2>1. NextSlot(p, "dial", "flip")
    BY <1>5 DEF Call, Doing
  <2>2. PICK s \in Answers(cli[p].addr) :
          machine[s].backend = "RUNNING" /\ machine' = [machine EXCEPT ![s] = machine[s]]
    BY <1>5 DEF Call, Serves, Served
  <2>3. ipFile' = ipFile /\ machine' = machine /\ cli[p].pc = "call"
    BY <1>0, <1>5, <2>2 DEF Call, MachinesOK, At
  <2>4. Runs(ipFile[Target(p)])
    <3>1. cli[p].addr = ipFile[Target(p)]
      BY <2>3 DEF Seen
    <3> QED
      BY <2>2, <3>1 DEF Runs, Answers
  <2>5. \A ip : Runs(ip) => Runs(ip)'
    BY <2>3 DEF Runs
  <2>6. Runs(ipFile["a"])' /\ (Target(p) = "b" => Runs(ipFile["b"])')
    <3>1. Runs(ipFile["a"])
      BY <1>2, <1>3, <2>4
    <3> QED
      BY <2>3, <2>4, <3>1 DEF Runs
  <2>8. \/ /\ Len(cli[p].todo) > 1
           /\ cli'[p] = [cli[p] EXCEPT !.todo = Tail(cli[p].todo), !.pc = "dial"]
        \/ ~(Len(cli[p].todo) > 1) /\ cli'[p] = [cli[p] EXCEPT !.pc = "flip"]
    BY <1>0, <2>1 DEF NextSlot, CliOK
  <2>9. CASE cli[p].todo = Both
    <3>0. Len(cli[p].todo) > 1
      BY <1>3, <2>9
    <3>1. cli'[p] = [cli[p] EXCEPT !.todo = Tail(cli[p].todo), !.pc = "dial"]
      BY <2>8, <3>0, Zenon
    <3>2. cli'[p].pc = "dial" /\ cli'[p].todo = <<"b">>
      BY <1>0, <1>3, <2>9, <3>1 DEF CliType
    <3> QED
      BY <2>6, <3>2 DEF Seen
  <2>10. CASE cli[p].todo = <<"b">>
    <3>0. ~(Len(cli[p].todo) > 1)
      BY <1>3, <2>10
    <3>1. cli'[p] = [cli[p] EXCEPT !.pc = "flip"]
      BY <2>8, <3>0, Zenon
    <3>2. cli'[p].pc = "flip" /\ cli'[p].todo = <<"b">>
      BY <1>0, <2>10, <3>1 DEF CliType
    <3> QED
      BY <1>3, <2>6, <2>10, <3>2 DEF Seen
  <2> QED
    BY <1>2, <2>9, <2>10
<1>6. CASE CallFails(p)
  BY <1>1, <1>6 DEF CallFails
<1>7. CASE UpStat(p) \/ UpSet(p) \/ Flip(p) \/ PointerFails(p)
  BY <1>0, <1>1, <1>7 DEF UpStat, UpSet, Flip, PointerFails, Known, At
<1> QED
  BY <1>4, <1>5, <1>6, <1>7 DEF Calls

\* Between the two answers and the flip nothing else happens to the machines, but
\* that systemd starts a daemon: the Mac does not restart without ending the command.
LEMMA SeenNext ==
  ASSUME OneCommand, TypeOK, KnownInv, SeenInv, [Next]_vars
  PROVE  SeenInv'
<1>1. CASE UNCHANGED vars
  BY <1>1 DEF vars, bounds, SeenInv, FilesKept, Seen, Runs, Target
<1>2. CASE Next
  <2>1. FilesKept'
    BY <1>2, KeptFiles DEF SeenInv
  <2>2. ASSUME NEW p \in Clis PROVE Seen(p)'
    <3>0. Seen(p) /\ FilesKept
      BY DEF SeenInv
    <3>1. ASSUME NEW q \in Clis, Step(q) \/ \E cmd \in Cmds : Run(q, cmd) PROVE Seen(p)'
      <4>0. q = p
        BY DEF OneCommand
      <4>1. CASE \E cmd \in Cmds : Run(p, cmd)
        BY <4>1, SeenRun
      <4>2. CASE Step(p) /\ cli[p].cmd # "promote"
        <5>1. cli'[p] = Idle \/ cli'[p].cmd = cli[p].cmd
          BY <4>2, StepCmd
        <5> QED
          BY <4>2, <5>1, SeenIdle, SeenOther
      <4>3. CASE Step(p) /\ cli[p].cmd = "promote"
        <5>1. cli[p].pc \in {"dial", "call", "flip"}
          BY <3>0, <4>3 DEF Seen
        <5>2. ~Deploys(p)
          BY <5>1 DEF Deploys, DeployReady, DeployReadIp, DeployInstall, DeployRestart,
             AwaitClient, AwaitVersion, DeployFails, Deploying, At
        <5>3. ~Rebuilds(p)
          BY <5>1 DEF Rebuilds, Confirm, Delete, DeleteUnseen, Create, Boot, RecreateFails, At
        <5> QED
          BY <3>0, <4>3, <5>2, <5>3, SeenCalls DEF Step
      <4> QED
        BY <3>1, <4>0, <4>1, <4>2, <4>3
    <3>2. ASSUME NEW s \in Slots, DaemonServes(s) PROVE Seen(p)'
      <4>1. \A t \in Slots : machine'[t].ip = machine[t].ip /\ machine'[t].backend = machine[t].backend
        BY <3>2, TypeParts DEF DaemonServes, MachinesOK, MachineType
      <4>2. \A ip : Runs(ip) => Runs(ip)'
        BY <4>1 DEF Runs
      <4> QED
        BY <3>0, <3>2, <4>2, SeenKept DEF DaemonServes
    <3>3. CASE Reboot
      <4>1. cli'[p] = Idle
        BY <3>3 DEF Reboot
      <4> QED
        BY <4>1, SeenIdle
    <3> QED
      BY <1>2, <3>1, <3>2, <3>3 DEF Next
  <2> QED
    BY <2>1, <2>2 DEF SeenInv
<1> QED
  BY <1>1, <1>2

LEMMA SeenInit == Init => SeenInv
<1> SUFFICES ASSUME Init PROVE SeenInv
  OBVIOUS
<1>1. FilesKept
  BY HostAssumption DEF Init, FilesKept, HostAssumption
<1>2. \A p \in Clis : Seen(p)
  BY DEF Init, Seen, Idle
<1> QED
  BY <1>1, <1>2 DEF SeenInv

LEMMA AlwaysSeen ==
  ASSUME OneCommand PROVE Spec => []SeenInv
<1>1. TypeOK /\ KnownInv /\ SeenInv /\ [Next]_vars => SeenInv'
  BY SeenNext
<1> QED
  BY <1>1, SeenInit, HostTyped, AlwaysKnown, PTL DEF Spec

LEMMA FlipRuns ==
  ASSUME TypeOK, KnownInv, SeenInv, NEW p \in Clis, Flip(p), ipFile["a"] # ipFile["b"]
  PROVE  machine'[Active'].life = "up" /\ machine'[Active'].backend = "RUNNING"
<1>1. cli[p].cmd = "promote" /\ cli[p].pc = "flip" /\ machine' = machine
  BY DEF Flip, At, KnownInv, Known
<1>2. Runs(ipFile["a"]) /\ Runs(ipFile["b"])
  BY <1>1 DEF SeenInv, Seen
<1>3. Active' \in Slots
  BY DEF Active, Slots
<1>4. machine[Active'].backend = "RUNNING" /\ machine[Active'].ip \in {ipFile["a"], ipFile["b"]}
  BY <1>2, <1>3, BothRun
<1>5. machine[Active'].ip # NoIp
  BY <1>4 DEF SeenInv, FilesKept, Slots
<1> QED
  BY <1>1, <1>3, <1>4, <1>5, TypeParts DEF MachinesOK, LeasesOK

\* The machine a promote makes the active one is up and has a running backend, as
\* long as the two files hold two addresses, and be they stale or those of each
\* other's machine: what answers there is the two machines, and both answers count
\* (commands.go:263-303).
THEOREM PromoteHandsOver ==
  ASSUME OneCommand PROVE Spec => PromotedIsRunning
<1>1. TypeOK /\ KnownInv /\ SeenInv /\ [Next]_vars =>
        [\A p \in Clis : Flip(p) /\ ipFile["a"] # ipFile["b"] =>
           machine'[Active'].life = "up" /\ machine'[Active'].backend = "RUNNING"]_vars
  BY FlipRuns
<1> QED
  BY <1>1, HostTyped, AlwaysKnown, AlwaysSeen, PTL DEF Spec, PromotedIsRunning
=============================================================================
