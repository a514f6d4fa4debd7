--------------------------- MODULE ForwarderProofs ---------------------------
(***************************************************************************)
(* Proofs about Forwarder, and about Promote on top of it: for every set   *)
(* of clients, every set of addresses, any number of writes, promotes,     *)
(* reloads, crashes and restarts.                                          *)
(***************************************************************************)
EXTENDS Promote, TLAPS

Known == Addrs \cup {NoAddr}
ConnType == [pc : {"none", "accepted", "dialing", "dialed", "live", "dropped"},
             role : Roles, target : Known]

-----------------------------------------------------------------------------
(* Helpers *)

\* The slots named by the pointer, and the mappings made of known addresses.
LEMMA GetType == \A p : Get(p) \in Slots /\ Other(Get(p)) \in Slots
  BY DEF Get, Other, Slots

LEMMA TargetsType ==
  ASSUME NEW s, NEW x \in Known, NEW y \in Known
  PROVE  /\ Targets(s, x, y) \in [Roles -> Known]
         /\ Targets(s, x, y).active \in Known /\ Targets(s, x, y).staging \in Known
  BY DEF Targets, Roles

\* A slot's addresses are addresses.
LEMMA AddrsIn == \A s \in Slots : AddrsOf[s] \subseteq Addrs
  BY DEF Addrs

\* One record of the connection table replaced by another of its type.
LEMMA ConnUpdate ==
  ASSUME conn \in [Conns -> ConnType], NEW c \in Conns, NEW v \in ConnType,
         conn' = [conn EXCEPT ![c] = v]
  PROVE  /\ conn' \in [Conns -> ConnType]
         /\ conn'[c] = v
         /\ \A d \in Conns : d # c => conn'[d] = conn[d]
  OBVIOUS

LEMMA NoConnType == NoConn \in ConnType
  BY DEF NoConn, ConnType, Known, Roles

\* What each handler step does to the record of its client.
LEMMA HandlerSteps ==
  ASSUME conn \in [Conns -> ConnType], targets \in [Roles -> Known], NEW c \in Conns
  PROVE  /\ \A r \in Roles : Accept(c, r) =>
              \E v \in ConnType : conn' = [conn EXCEPT ![c] = v] /\ v.pc = "accepted"
         /\ ReadTarget(c) =>
              \E v \in ConnType : conn' = [conn EXCEPT ![c] = v]
                /\ \/ v = NoConn
                   \/ v.pc = "dialing" /\ v.role = conn[c].role /\ v.target = targets[v.role]
                      /\ v.target # NoAddr
         /\ Dial(c) =>
              \E v \in ConnType : conn' = [conn EXCEPT ![c] = v]
                /\ \/ v = NoConn
                   \/ v.pc = "dialed" /\ v.role = conn[c].role /\ v.target = conn[c].target
         /\ Register(c) =>
              \E v \in ConnType : conn' = [conn EXCEPT ![c] = v]
                /\ v.pc = "live" /\ v.role = conn[c].role /\ v.target = conn[c].target
         /\ CloseDropped(c) \/ HangUp(c) => conn' = [conn EXCEPT ![c] = NoConn]
  <1> DEFINE set(q) == [conn[c] EXCEPT !.pc = q]
  <1>1. conn[c] \in ConnType
    OBVIOUS
  <1>2. \A q \in {"dialed", "live"} :
          set(q) \in ConnType /\ set(q).pc = q /\ set(q).role = conn[c].role
          /\ set(q).target = conn[c].target
    BY <1>1 DEF ConnType
  <1>3. ASSUME NEW r \in Roles, Accept(c, r)
        PROVE  \E v \in ConnType : conn' = [conn EXCEPT ![c] = v] /\ v.pc = "accepted"
    <2> DEFINE v == [NoConn EXCEPT !.pc = "accepted", !.role = r]
    <2>1. v \in ConnType /\ v.pc = "accepted"
      BY DEF NoConn, ConnType, Known
    <2>2. conn' = [conn EXCEPT ![c] = v]
      BY <1>3 DEF Accept
    <2>3. QED
      BY <2>1, <2>2
  <1>4. ASSUME ReadTarget(c)
        PROVE  \E v \in ConnType : conn' = [conn EXCEPT ![c] = v]
                /\ \/ v = NoConn
                   \/ v.pc = "dialing" /\ v.role = conn[c].role /\ v.target = targets[v.role]
                      /\ v.target # NoAddr
    <2> DEFINE t == targets[conn[c].role]
               v == [conn[c] EXCEPT !.pc = "dialing", !.target = t]
    <2>1. t \in Known
      BY <1>1 DEF ConnType
    <2>2. v \in ConnType /\ v.pc = "dialing" /\ v.role = conn[c].role /\ v.target = t
      BY <1>1, <2>1 DEF ConnType
    <2>3. conn' = [conn EXCEPT ![c] = IF t = NoAddr THEN NoConn ELSE v]
      BY <1>4 DEF ReadTarget
    <2>4. CASE t = NoAddr
      BY <2>3, <2>4, NoConnType
    <2>5. CASE t # NoAddr
      BY <2>2, <2>3, <2>5
    <2>6. QED
      BY <2>4, <2>5
  <1>5. ASSUME Dial(c)
        PROVE  \E v \in ConnType : conn' = [conn EXCEPT ![c] = v]
                /\ \/ v = NoConn
                   \/ v.pc = "dialed" /\ v.role = conn[c].role /\ v.target = conn[c].target
    <2>1. CASE conn' = [conn EXCEPT ![c].pc = "dialed"]
      <3>1. conn' = [conn EXCEPT ![c] = set("dialed")]
        BY <2>1
      <3>2. QED
        BY <1>2, <3>1
    <2>2. CASE conn' = [conn EXCEPT ![c] = NoConn]
      BY <2>2, NoConnType
    <2>3. QED
      BY <1>5, <2>1, <2>2 DEF Dial
  <1>6. ASSUME Register(c)
        PROVE  \E v \in ConnType : conn' = [conn EXCEPT ![c] = v]
                /\ v.pc = "live" /\ v.role = conn[c].role /\ v.target = conn[c].target
    <2>1. conn' = [conn EXCEPT ![c] = set("live")]
      BY <1>6 DEF Register
    <2>2. QED
      BY <1>2, <2>1
  <1>7. CloseDropped(c) \/ HangUp(c) => conn' = [conn EXCEPT ![c] = NoConn]
    BY DEF CloseDropped, HangUp
  <1>8. QED
    BY <1>3, <1>4, <1>5, <1>6, <1>7

\* A step that marks some of the registered sessions as dropped.
LEMMA MarkDropped ==
  ASSUME conn \in [Conns -> ConnType], NEW D \in SUBSET Conns,
         conn' = [d \in Conns |-> IF d \in D THEN [conn[d] EXCEPT !.pc = "dropped"] ELSE conn[d]]
  PROVE  /\ conn' \in [Conns -> ConnType]
         /\ \A d \in D : conn'[d].pc = "dropped"
         /\ \A d \in Conns \ D : conn'[d] = conn[d]
  <1>1. \A d \in Conns : [conn[d] EXCEPT !.pc = "dropped"] \in ConnType
                         /\ [conn[d] EXCEPT !.pc = "dropped"].pc = "dropped"
    BY DEF ConnType
  <1>2. QED
    BY <1>1

-----------------------------------------------------------------------------
(* Type correctness. *)

\* TypeOK by the name of its connection type.
LEMMA TypeOKConn == TypeOK => /\ conn \in [Conns -> ConnType]
                              /\ targets \in [Roles -> Known]
                              /\ reload.ipA \in Known /\ reload.ipB \in Known
                              /\ reload.slot \in Slots
  BY DEF TypeOK, ConnType, Known

\* The end of the process leaves the initial values behind.
LEMMA ExitType ==
  ASSUME TypeOK, Exit, faults' \in Nat
  PROVE  TypeOK'
  <1>1. /\ reload' \in [pc : {"idle", "ipA", "ipB", "swap", "close"}, slot : Slots,
                       misread : BOOLEAN, ipA : Known, ipB : Known]
        /\ targets' \in [Roles -> Known] /\ late' \subseteq Conns /\ fallback' \in BOOLEAN
    BY DEF Exit, NoReload, Nowhere, Known, Slots
  <1>2. conn' \in [Conns -> ConnType]
    BY NoConnType DEF Exit
  <1>3. QED
    BY <1>1, <1>2 DEF TypeOK, Exit, fileVars, ConnType, Known

LEMMA InitType == Init => TypeOK
  <1> SUFFICES ASSUME Init PROVE TypeOK
    OBVIOUS
  <1>1. /\ reload \in [pc : {"idle", "ipA", "ipB", "swap", "close"}, slot : Slots,
                      misread : BOOLEAN, ipA : Known, ipB : Known]
        /\ targets \in [Roles -> Known] /\ late \subseteq Conns /\ fallback \in BOOLEAN
    BY DEF Init, NoReload, Nowhere, Known, Slots
  <1>2. conn \in [Conns -> ConnType]
    BY NoConnType DEF Init
  <1>3. report \in [slot : Slots \cup {"none"}, active : Known, staging : Known, fresh : BOOLEAN]
    BY DEF Init, NoReport, Known
  <1>4. QED
    BY <1>1, <1>2, <1>3 DEF Init, TypeOK, ConnType, Known

LEMMA NextType == TypeOK /\ [Next]_vars => TypeOK'
  <1> SUFFICES ASSUME TypeOK, [Next]_vars PROVE TypeOK'
    OBVIOUS
  <1>0. /\ conn \in [Conns -> ConnType] /\ targets \in [Roles -> Known]
        /\ reload.ipA \in Known /\ reload.ipB \in Known
    BY TypeOKConn
  <1>m. Mapping \in [Roles -> Known] /\ Mapping.active \in Known /\ Mapping.staging \in Known
    BY <1>0, TargetsType DEF Mapping
  <1>1. ASSUME NEW s \in Slots, SetPointer(s) PROVE TypeOK'
    BY <1>1 DEF TypeOK, SetPointer, reloadVars, ForwarderAssumption
  <1>2. ASSUME NEW s \in Slots, NEW ip \in AddrsOf[s], TruncateIP(s, ip) PROVE TypeOK'
    <2>1. ip \in Known
      BY AddrsIn DEF Known
    <2>2. QED
      BY <1>2, <2>1 DEF TypeOK, TruncateIP, reloadVars, Known
  <1>3. ASSUME NEW s \in Slots, WriteIP(s) PROVE TypeOK'
    BY <1>3 DEF TypeOK, WriteIP, reloadVars
  <1>4. CASE ReadPointer
    BY <1>4, GetType DEF TypeOK, ReadPointer, NoReload, fileVars
  <1>5. CASE ReadA
    <2>1. ipFile["a"] \in Known
      BY DEF TypeOK, Known, Slots
    <2>2. QED
      BY <1>5, <2>1 DEF TypeOK, ReadA, fileVars, Known
  <1>6. CASE ReadB
    <2>1. ipFile["b"] \in Known
      BY DEF TypeOK, Known, Slots
    <2>2. QED
      BY <1>6, <2>1 DEF TypeOK, ReadB, fileVars, Known
  <1>7. CASE Swap
    <2> DEFINE D == {d \in Conns : conn[d].pc = "live" /\ Drops(d, targets')}
    <2>1. conn' = [d \in Conns |-> IF d \in D THEN [conn[d] EXCEPT !.pc = "dropped"] ELSE conn[d]]
      BY <1>7 DEF Swap
    <2>2. conn' \in [Conns -> ConnType]
      BY <1>0, <2>1, MarkDropped
    <2>3. targets' \in [Roles -> Known]
      BY <1>7, <1>m DEF Swap
    <2>4. reload' \in [pc : {"idle", "ipA", "ipB", "swap", "close"}, slot : Slots,
                       misread : BOOLEAN, ipA : Known, ipB : Known]
      BY <1>7 DEF Swap, TypeOK, Known
    <2>5. late' \subseteq Conns /\ fallback' \in BOOLEAN
      BY <1>7 DEF Swap, TypeOK
    <2>6. QED
      BY <1>7, <2>2, <2>3, <2>4, <2>5 DEF Swap, TypeOK, fileVars, ConnType, Known
  <1>8. CASE WriteReport
    <2>1. report' \in [slot : Slots \cup {"none"}, active : Known, staging : Known, fresh : BOOLEAN]
      BY <1>8, <1>m, TypeOKConn DEF WriteReport
    <2>2. reload' \in [pc : {"idle", "ipA", "ipB", "swap", "close"}, slot : Slots,
                       misread : BOOLEAN, ipA : Known, ipB : Known]
      BY <1>8 DEF WriteReport, NoReload, Slots, Known
    <2>3. server' \in {"down", "seeding", "binding", "serving", "stopping"}
      BY <1>8 DEF WriteReport, TypeOK
    <2>4. QED
      BY <1>8, <2>1, <2>2, <2>3 DEF WriteReport, TypeOK, fileVars, Known
  <1>9. CASE ReportAges
    BY <1>9 DEF TypeOK, ReportAges, fileVars
  <1>10. ASSUME NEW c \in Conns,
                (\E r \in Roles : Accept(c, r)) \/ Handles(c) \/ HangUp(c)
         PROVE  TypeOK'
    <2>1. \E v \in ConnType : conn' = [conn EXCEPT ![c] = v]
      BY <1>0, <1>10, HandlerSteps, NoConnType DEF Handles
    <2>2. conn' \in [Conns -> ConnType]
      BY <1>0, <2>1, ConnUpdate
    <2>3. UNCHANGED <<fileVars, server, reloadVars, faults>>
      BY <1>10 DEF Accept, Handles, ReadTarget, Dial, Register, CloseDropped, HangUp
    <2>4. QED
      BY <2>2, <2>3 DEF TypeOK, fileVars, reloadVars, ConnType, Known
  <1>11. CASE Launch \/ Listen
    BY <1>11 DEF TypeOK, Launch, Listen, fileVars, reloadVars
  <1>12. CASE BindFails \/ Crash \/ Return
    <2>1. faults' \in Nat
      BY <1>12 DEF TypeOK, BindFails, Crash, Return
    <2>2. Exit
      BY <1>12 DEF BindFails, Crash, Return
    <2>3. QED
      BY <2>1, <2>2, ExitType
  <1>13. CASE Stop
    <2> DEFINE D == {d \in Conns : conn[d].pc = "live"}
    <2>1. conn' = [d \in Conns |-> IF d \in D THEN [conn[d] EXCEPT !.pc = "dropped"] ELSE conn[d]]
      BY <1>13 DEF Stop
    <2>2. conn' \in [Conns -> ConnType]
      BY <1>0, <2>1, MarkDropped
    <2>3. QED
      BY <1>13, <2>2 DEF Stop, TypeOK, fileVars, reloadVars, ConnType, Known
  <1>14. CASE PointerUnread
    <2>1. faults' \in Nat
      BY <1>14 DEF TypeOK, PointerUnread, Unread
    <2>2. QED
      BY <1>14, <2>1 DEF TypeOK, PointerUnread, Unread, NoReload, Slots, fileVars
  <1>15. CASE AddressUnread
    <2>1. faults' \in Nat
      BY <1>15 DEF TypeOK, AddressUnread, Unread
    <2>2. reload' \in [pc : {"idle", "ipA", "ipB", "swap", "close"}, slot : Slots,
                       misread : BOOLEAN, ipA : Known, ipB : Known]
      BY <1>15 DEF AddressUnread, TypeOK, Known
    <2>3. QED
      BY <1>15, <2>1, <2>2 DEF TypeOK, AddressUnread, Unread, fileVars, Known
  <1>16. CASE UNCHANGED vars
    BY <1>16 DEF vars, TypeOK, fileVars, reloadVars
  <1>17. QED
    BY <1>1, <1>2, <1>3, <1>4, <1>5, <1>6, <1>7, <1>8, <1>9, <1>10, <1>11, <1>12, <1>13, <1>14,
       <1>15, <1>16
    DEF Next, Server, IPFiles, Reloads, Misreads, Process

\* The files, the table, the reload in progress, every handler and the report
\* keep to their types.
THEOREM ForwarderTypeCorrect == Spec => []TypeOK
  BY InitType, NextType, PTL DEF Spec

-----------------------------------------------------------------------------
(* Stale sessions.  A client that has read the table and leads elsewhere than *)
(* its role does now was in flight at the last swap: this is inductive, and   *)
(* what it says of registered sessions is StaleOnlyIfLate.                    *)

InFlight(c) == conn[c].pc \in {"dialing", "dialed", "live"}
LateInv == \A c \in Conns :
  InFlight(c) /\ conn[c].target # targets[conn[c].role] => c \in late

\* One handler step: only its own client can become stale, and it cannot.
LEMMA HandlerLate ==
  ASSUME TypeOK, LateInv, NEW c \in Conns,
         (\E r \in Roles : Accept(c, r)) \/ Handles(c) \/ HangUp(c)
  PROVE  LateInv'
  <1>1. conn \in [Conns -> ConnType] /\ targets \in [Roles -> Known]
    BY TypeOKConn
  <1>2. targets' = targets /\ late' = late
    BY DEF Accept, Handles, ReadTarget, Dial, Register, CloseDropped, HangUp, reloadVars
  <1>3. PICK v \in ConnType : /\ conn' = [conn EXCEPT ![c] = v]
                              /\ v.pc \in {"dialing", "dialed", "live"} =>
                                   \/ v.target = targets[v.role]
                                   \/ /\ InFlight(c) /\ v.role = conn[c].role
                                      /\ v.target = conn[c].target
    <2>1. CASE \E r \in Roles : Accept(c, r)
      BY <1>1, <2>1, HandlerSteps
    <2>2. CASE ReadTarget(c)
      BY <1>1, <2>2, HandlerSteps, NoConnType DEF NoConn
    <2>3. CASE Dial(c)
      BY <1>1, <2>3, HandlerSteps, NoConnType DEF NoConn, Dial, InFlight
    <2>4. CASE Register(c)
      BY <1>1, <2>4, HandlerSteps DEF Register, InFlight
    <2>5. CASE CloseDropped(c) \/ HangUp(c)
      BY <1>1, <2>5, HandlerSteps, NoConnType DEF NoConn
    <2>6. QED
      BY <2>1, <2>2, <2>3, <2>4, <2>5 DEF Handles
  <1>4. conn'[c] = v /\ \A d \in Conns : d # c => conn'[d] = conn[d]
    BY <1>1, <1>3, ConnUpdate
  <1>5. QED
    BY <1>2, <1>3, <1>4 DEF LateInv, InFlight

LEMMA NextLate == TypeOK /\ LateInv /\ [Next]_vars => LateInv'
  <1> SUFFICES ASSUME TypeOK, LateInv, [Next]_vars PROVE LateInv'
    OBVIOUS
  <1>0. conn \in [Conns -> ConnType] /\ targets \in [Roles -> Known]
    BY TypeOKConn
  <1>1. CASE UNCHANGED <<conn, targets, late>>
    BY <1>1 DEF LateInv, InFlight
  <1>2. CASE Swap
    <2> DEFINE D == {d \in Conns : conn[d].pc = "live" /\ Drops(d, targets')}
    <2>1. conn' = [d \in Conns |-> IF d \in D THEN [conn[d] EXCEPT !.pc = "dropped"] ELSE conn[d]]
      BY <1>2 DEF Swap
    <2>2. /\ \A d \in D : conn'[d].pc = "dropped"
          /\ \A d \in Conns \ D : conn'[d] = conn[d]
      BY <1>0, <2>1, MarkDropped
    <2>3. ASSUME NEW c \in Conns, InFlight(c)',
                 (conn[c].target # targets[conn[c].role])'
          PROVE  c \in late'
      <3>1. c \notin D /\ conn'[c] = conn[c]
        BY <2>2, <2>3 DEF InFlight
      <3>2. Drops(c, targets')
        BY <2>3, <3>1 DEF Drops
      <3>3. conn[c].pc \in {"dialing", "dialed"}
        BY <2>3, <3>1, <3>2 DEF InFlight
      <3>4. QED
        BY <1>2, <3>3 DEF Swap
    <2>4. QED
      BY <2>3 DEF LateInv
  <1>3. ASSUME NEW c \in Conns,
               (\E r \in Roles : Accept(c, r)) \/ Handles(c) \/ HangUp(c)
        PROVE  LateInv'
    BY <1>3, HandlerLate
  <1>4. CASE BindFails \/ Crash \/ Return
    BY <1>4 DEF BindFails, Crash, Return, Exit, LateInv, InFlight, NoConn
  <1>5. CASE Stop
    <2> DEFINE D == {d \in Conns : conn[d].pc = "live"}
    <2>1. conn' = [d \in Conns |-> IF d \in D THEN [conn[d] EXCEPT !.pc = "dropped"] ELSE conn[d]]
      BY <1>5 DEF Stop
    <2>2. /\ \A d \in D : conn'[d].pc = "dropped"
          /\ \A d \in Conns \ D : conn'[d] = conn[d]
      BY <1>0, <2>1, MarkDropped
    <2>3. targets' = targets /\ late' = late
      BY <1>5 DEF Stop, reloadVars
    <2>4. QED
      BY <2>2, <2>3 DEF LateInv, InFlight
  <1>6. CASE (\E s \in Slots : SetPointer(s)) \/ IPFiles
    <2>1. UNCHANGED <<conn, targets, late>>
      BY <1>6 DEF SetPointer, IPFiles, TruncateIP, WriteIP, reloadVars
    <2>2. QED
      BY <1>1, <2>1
  <1>7. CASE ReadPointer \/ ReadA \/ ReadB \/ Misreads \/ WriteReport \/ ReportAges \/ Launch \/ Listen
    <2>1. UNCHANGED <<conn, targets, late>>
      BY <1>7 DEF ReadPointer, ReadA, ReadB, Misreads, PointerUnread, AddressUnread, Unread,
         WriteReport, ReportAges, Launch, Listen, reloadVars
    <2>2. QED
      BY <1>1, <2>1
  <1>8. CASE UNCHANGED vars
    BY <1>1, <1>8 DEF vars, reloadVars
  <1>9. QED
    BY <1>2, <1>3, <1>4, <1>5, <1>6, <1>7, <1>8 DEF Next, Server, Reloads, Process

\* A registered session that leads to a target its role no longer has was in
\* flight when the table was last swapped: the next swap drops it.
THEOREM StaleSessions == Spec => []StaleOnlyIfLate
  <1>1. Init => LateInv
    BY DEF Init, LateInv, InFlight, NoConn
  <1>2. LateInv => StaleOnlyIfLate
    BY DEF LateInv, InFlight, StaleOnlyIfLate, Stale
  <1>3. QED
    BY <1>1, <1>2, InitType, NextType, NextLate, PTL DEF Spec

-----------------------------------------------------------------------------
(* The two roles.  Every IP file, every half-written one and every address a *)
(* reload has read is one of its own machine.                                *)

Own(s) == AddrsOf[s] \cup {NoAddr}
FilesInv == \A s \in Slots : ipFile[s] \in Own(s) /\ writing[s] \in Own(s)
ReloadInv == reload.ipA \in Own("a") /\ reload.ipB \in Own("b")
TableInv == \E s \in Slots : targets["active"] \in Own(s) /\ targets["staging"] \in Own(Other(s))
ReportInv == \A s \in Slots :
  report.slot = s => report.active \in Own(s) /\ report.staging \in Own(Other(s))
ApartInv == FilesInv /\ ReloadInv /\ TableInv /\ ReportInv

\* What a reload makes of what it read.
LEMMA MappingOwn ==
  ASSUME TypeOK, ReloadInv
  PROVE  /\ reload.slot \in Slots
         /\ Mapping["active"] \in Own(reload.slot)
         /\ Mapping["staging"] \in Own(Other(reload.slot))
  <1>1. reload.slot \in Slots
    BY TypeOKConn
  <1>2. QED
    BY <1>1 DEF ReloadInv, Mapping, Targets, Other, Slots

LEMMA NextApart == TypeOK /\ ApartInv /\ [Next]_vars => ApartInv'
  <1> SUFFICES ASSUME TypeOK, ApartInv, [Next]_vars PROVE ApartInv'
    OBVIOUS
  <1>0. NoAddr \in Own("a") /\ NoAddr \in Own("b") /\ \A s \in Slots : NoAddr \in Own(s)
    BY DEF Own
  <1>f. CASE UNCHANGED fileVars
    <2>1. FilesInv'
      BY <1>f DEF ApartInv, FilesInv, fileVars, Own
    <2>2. CASE UNCHANGED reloadVars
      BY <2>1, <2>2 DEF ApartInv, ReloadInv, TableInv, ReportInv, reloadVars, Own
    <2>3. CASE ReadPointer
      BY <1>0, <2>1, <2>3 DEF ReadPointer, NoReload, ApartInv, ReloadInv, TableInv, ReportInv, Own
    <2>4. CASE ReadA
      <3>1. reload' = [reload EXCEPT !.pc = "ipB", !.ipA = ipFile["a"]] /\ ipFile["a"] \in Own("a")
        BY <2>4 DEF ReadA, ApartInv, FilesInv, Slots
      <3>2. ReloadInv'
        BY <3>1 DEF TypeOK, ApartInv, ReloadInv, Own
      <3>3. QED
        BY <2>1, <2>4, <3>2 DEF ReadA, ApartInv, TableInv, ReportInv, Own
    <2>5. CASE ReadB
      <3>1. reload' = [reload EXCEPT !.pc = "swap", !.ipB = ipFile["b"]] /\ ipFile["b"] \in Own("b")
        BY <2>5 DEF ReadB, ApartInv, FilesInv, Slots
      <3>2. ReloadInv'
        BY <3>1 DEF TypeOK, ApartInv, ReloadInv, Own
      <3>3. QED
        BY <2>1, <2>5, <3>2 DEF ReadB, ApartInv, TableInv, ReportInv, Own
    <2>6. CASE Swap
      <3>1. ReloadInv'
        BY <2>6 DEF Swap, TypeOK, ApartInv, ReloadInv, Own
      <3>2. TableInv'
        <4>1. targets' = Mapping
          BY <2>6 DEF Swap
        <4>2. QED
          BY <4>1, MappingOwn DEF ApartInv, TableInv, Own
      <3>3. QED
        BY <2>1, <2>6, <3>1, <3>2 DEF Swap, ApartInv, ReportInv, Own
    <2>7. CASE WriteReport
      <3>1. ReloadInv'
        BY <1>0, <2>7 DEF WriteReport, NoReload, ReloadInv, Own
      <3>2. ReportInv'
        <4>1. report'.slot = reload.slot /\ report'.active = Mapping["active"]
              /\ report'.staging = Mapping["staging"]
          BY <2>7 DEF WriteReport
        <4>2. QED
          BY <4>1, MappingOwn DEF ApartInv, ReportInv, Own
      <3>3. QED
        BY <2>1, <2>7, <3>1, <3>2 DEF WriteReport, ApartInv, TableInv, Own
    <2>8. CASE ReportAges
      <3>1. /\ report'.slot = report.slot /\ report'.active = report.active
            /\ report'.staging = report.staging
        BY <2>8 DEF ReportAges, TypeOK
      <3>2. QED
        BY <2>1, <2>8, <3>1 DEF ReportAges, ApartInv, ReloadInv, TableInv, ReportInv, Own
    <2>9. CASE Exit
      <3>1. TableInv'
        <4>1. targets'["active"] = NoAddr /\ targets'["staging"] = NoAddr
          BY <2>9 DEF Exit, Nowhere, Roles
        <4>2. QED
          BY <4>1, GetType DEF TableInv, Own
      <3>2. QED
        BY <1>0, <2>1, <2>9, <3>1 DEF Exit, NoReload, ApartInv, ReloadInv, ReportInv, Own
    <2>10. CASE UNCHANGED vars
      BY <2>2, <2>10 DEF vars
    <2>m. CASE Misreads
      <3>1. reload'.ipA \in {NoAddr, reload.ipA} /\ reload'.ipB \in {NoAddr, reload.ipB}
        BY <2>m DEF Misreads, PointerUnread, AddressUnread, NoReload, TypeOK
      <3>2. UNCHANGED <<targets, report>>
        BY <2>m DEF Misreads, PointerUnread, AddressUnread, Unread
      <3>3. QED
        BY <1>0, <2>1, <3>1, <3>2 DEF ApartInv, ReloadInv, TableInv, ReportInv, Own
    <2>11. ASSUME ~UNCHANGED reloadVars
           PROVE  ReadPointer \/ ReadA \/ ReadB \/ Misreads \/ Swap \/ WriteReport \/ ReportAges
                    \/ Exit \/ UNCHANGED vars
      <3>1. CASE UNCHANGED vars
        BY <3>1
      <3>2. CASE Server
        BY <2>11, <3>2 DEF Server, Reloads, Process, Launch, Listen, BindFails, Crash, Stop, Return,
           Accept, Handles, ReadTarget, Dial, Register, CloseDropped, HangUp
      <3>3. CASE IPFiles \/ \E s \in Slots : SetPointer(s)
        BY <2>11, <3>3 DEF IPFiles, TruncateIP, WriteIP, SetPointer
      <3>4. QED
        BY <3>1, <3>2, <3>3 DEF Next
    <2>12. QED
      BY <2>2, <2>3, <2>4, <2>5, <2>6, <2>7, <2>8, <2>9, <2>10, <2>11, <2>m
  <1>1. ASSUME FilesInv', UNCHANGED reloadVars PROVE ApartInv'
    BY <1>1 DEF ApartInv, ReloadInv, TableInv, ReportInv, reloadVars, Own
  <1>2. ASSUME NEW s \in Slots, SetPointer(s) PROVE ApartInv'
    <2>1. FilesInv'
      BY <1>2 DEF SetPointer, ApartInv, FilesInv, Own
    <2>2. QED
      BY <1>1, <1>2, <2>1 DEF SetPointer
  <1>3. ASSUME NEW s \in Slots, NEW ip \in AddrsOf[s], TruncateIP(s, ip) PROVE ApartInv'
    <2>1. FilesInv'
      BY <1>3 DEF TruncateIP, TypeOK, ApartInv, FilesInv, Own
    <2>2. QED
      BY <1>1, <1>3, <2>1 DEF TruncateIP
  <1>4. ASSUME NEW s \in Slots, WriteIP(s) PROVE ApartInv'
    <2>1. FilesInv'
      BY <1>4 DEF WriteIP, TypeOK, ApartInv, FilesInv, Own
    <2>2. QED
      BY <1>1, <1>4, <2>1 DEF WriteIP
  <1>5. CASE Server
    <2>1. UNCHANGED fileVars
      BY <1>5 DEF Server, Reloads, Process, ReadPointer, ReadA, ReadB, Swap, WriteReport, ReportAges,
         Misreads, PointerUnread, AddressUnread, Unread,
         Launch, Listen, BindFails, Crash, Stop, Return, Exit,
         Accept, Handles, ReadTarget, Dial, Register, CloseDropped, HangUp
    <2>2. QED
      BY <1>f, <2>1
  <1>6. CASE UNCHANGED vars
    BY <1>f, <1>6 DEF vars
  <1>7. QED
    BY <1>2, <1>3, <1>4, <1>5, <1>6 DEF Next, IPFiles

LEMMA InitApart == Init => ApartInv
  <1> SUFFICES ASSUME Init PROVE ApartInv
    OBVIOUS
  <1>1. FilesInv
    BY DEF Init, FilesInv, Own
  <1>2. ReloadInv
    BY DEF Init, NoReload, ReloadInv, Own
  <1>3. TableInv
    BY GetType DEF Init, Nowhere, Roles, TableInv, Own
  <1>4. ReportInv
    BY DEF Init, NoReport, ReportInv, Slots
  <1>5. QED
    BY <1>1, <1>2, <1>3, <1>4 DEF ApartInv

\* The two roles lead by the files of two slots and the report says so of the
\* slot it names, whatever addresses the files hold and whichever reads fail.
THEOREM RolesStayApart == Spec => []RolesApart
  <1>1. ApartInv => RolesApart
    BY DEF ApartInv, TableInv, ReportInv, RolesApart, By, Own
  <1>2. QED
    BY <1>1, InitType, InitApart, NextType, NextApart, PTL DEF Spec

-----------------------------------------------------------------------------
(* The promote command.  What it waits for is a report of its own slot, and   *)
(* when the report named another slot at the flip that is news: it was        *)
(* written by a reload of the new slot, after which there is none of the old  *)
(* but those that could not read the pointer.                                 *)

Flipped == {"await", "confirmed", "unconfirmed"}

PromoteType ==
  promote \in [pc : {"idle", "checkA", "checkB", "set", "await",
                     "refused", "confirmed", "unconfirmed"},
               to : Slots, news : BOOLEAN]
PointerInv == promote.pc \in Flipped => pointer = promote.to
CloseInv == reload.pc = "close" => targets = Mapping /\ fallback = reload.misread

\* The table leads where slot s makes it lead, or nowhere.
LedBy(s) == targets["active"] \in Own(s) /\ targets["staging"] \in Own(Other(s))

\* The command has been told of its slot, and that was news.
Heard ==
  /\ promote.news
  /\ promote.pc = "confirmed" \/ (promote.pc = "await" /\ report.slot = promote.to)
NewsInv ==
  Heard =>
    /\ ~fallback => LedBy(promote.to)
    /\ reload.pc # "idle" /\ ~reload.misread => reload.slot = promote.to

RouteInv == PromoteType /\ PointerInv /\ CloseInv /\ NewsInv

\* The slots, and what Get makes of one.
LEMMA GetSlot == \A s \in Slots : Get(s) = s
  BY DEF Get, Slots

LEMMA NowhereLed == ASSUME targets' = Nowhere, NEW s PROVE LedBy(s)'
  BY DEF LedBy, Nowhere, Roles, Own

\* The command's own steps change neither the table nor a reload nor the report.
LEMMA CommandRoute ==
  ASSUME TypeOK, RouteInv, Start \/ Checks \/ Flip \/ Confirm \/ GiveUp
  PROVE  RouteInv'
  <1>1. CASE Start
    <2>1. Stagings(pointer) \subseteq Slots
      BY GetType DEF Stagings, Staging, Other, Slots
    <2>2. PromoteType' /\ promote'.pc = "checkA" /\ UNCHANGED vars
      BY <1>1, <2>1 DEF Start, PromoteType
    <2>3. QED
      BY <2>2 DEF RouteInv, PointerInv, CloseInv, NewsInv, Heard, Flipped, Mapping, vars, reloadVars
  <1>2. CASE Checks
    <2>1. PromoteType' /\ promote'.pc \in {"checkB", "set", "refused"} /\ UNCHANGED vars
      BY <1>2 DEF Checks, Check, RouteInv, PromoteType
    <2>2. QED
      BY <2>1 DEF RouteInv, PointerInv, CloseInv, NewsInv, Heard, Flipped, Mapping, vars, reloadVars
  <1>3. CASE Flip
    <2>1. /\ PromoteType' /\ promote'.pc = "await" /\ promote'.to = promote.to
          /\ promote'.news = (report.slot # promote.to)
      BY <1>3 DEF Flip, RouteInv, PromoteType
    <2>2. pointer' = promote.to /\ UNCHANGED reloadVars
      BY <1>3 DEF Flip, SetPointer
    <2>3. QED
      BY <2>1, <2>2 DEF RouteInv, PointerInv, CloseInv, NewsInv, Heard, Mapping, reloadVars
  <1>4. CASE Confirm \/ GiveUp
    <2>1. /\ PromoteType' /\ promote'.pc \in {"confirmed", "unconfirmed"} /\ promote.pc = "await"
          /\ promote'.to = promote.to /\ promote'.news = promote.news /\ UNCHANGED vars
          /\ promote'.pc = "confirmed" => report.slot = promote.to
      BY <1>4 DEF Confirm, GiveUp, RouteInv, PromoteType, Reported
    <2>2. PointerInv' /\ CloseInv'
      BY <2>1 DEF RouteInv, PointerInv, CloseInv, Flipped, Mapping, vars, fileVars, reloadVars
    <2>3. NewsInv'
      BY <2>1 DEF RouteInv, NewsInv, Heard, LedBy, vars, reloadVars
    <2>4. QED
      BY <2>1, <2>2, <2>3 DEF RouteInv
  <1>5. QED
    BY <1>1, <1>2, <1>3, <1>4

\* While it waits the forwarder goes on.
LEMMA ServerRoute ==
  ASSUME TypeOK, ReloadInv, RouteInv, Server \/ IPFiles, UNCHANGED promote
  PROVE  RouteInv'
  <1>0. PromoteType' /\ PointerInv'
    <2>1. UNCHANGED pointer
      BY DEF Server, Reloads, Process, ReadPointer, ReadA, ReadB, Swap, WriteReport, ReportAges,
         Misreads, PointerUnread, AddressUnread, Unread,
         Launch, Listen, BindFails, Crash, Stop, Return, Exit, fileVars,
         Accept, Handles, ReadTarget, Dial, Register, CloseDropped, HangUp,
         IPFiles, TruncateIP, WriteIP
    <2>2. QED
      BY <2>1 DEF RouteInv, PromoteType, PointerInv
  <1>1. ASSUME CloseInv', NewsInv' PROVE RouteInv'
    BY <1>0, <1>1 DEF RouteInv
  <1>2. ASSUME UNCHANGED reloadVars PROVE RouteInv'
    BY <1>1, <1>2 DEF RouteInv, CloseInv, NewsInv, Heard, LedBy, Mapping, reloadVars
  <1>3. CASE ReadPointer
    <2>1. reload'.pc = "ipA" /\ reload'.slot = Get(pointer) /\ UNCHANGED <<targets, fallback, report, pointer>>
      BY <1>3 DEF ReadPointer, NoReload, fileVars
    <2>2. NewsInv'
      BY <2>1, GetSlot DEF RouteInv, PromoteType, PointerInv, Flipped, NewsInv, Heard, LedBy
    <2>3. QED
      BY <1>1, <2>1, <2>2 DEF RouteInv, CloseInv
  <1>4. CASE ReadA \/ ReadB
    <2>1. /\ reload.pc # "idle" /\ reload'.pc \in {"ipB", "swap"} /\ reload'.slot = reload.slot
          /\ reload'.misread = reload.misread /\ UNCHANGED <<targets, fallback, report>>
      BY <1>4 DEF ReadA, ReadB, TypeOK
    <2>2. QED
      BY <1>1, <2>1 DEF RouteInv, CloseInv, NewsInv, Heard, LedBy
  <1>m. CASE Misreads
    <2>0. UNCHANGED <<targets, fallback, report>>
      BY <1>m DEF Misreads, PointerUnread, AddressUnread, Unread
    <2>1. /\ reload'.pc \in {"ipA", "ipB", "swap"}
          /\ ~reload'.misread =>
               ~reload.misread /\ reload.pc # "idle" /\ reload'.slot = reload.slot
      <3>1. CASE PointerUnread
        BY <3>1 DEF PointerUnread, NoReload
      <3>2. CASE AddressUnread
        BY <3>2 DEF AddressUnread, TypeOK
      <3>3. QED
        BY <1>m, <3>1, <3>2 DEF Misreads
    <2>2. QED
      BY <1>1, <2>0, <2>1 DEF RouteInv, CloseInv, NewsInv, Heard, LedBy
  <1>5. CASE Swap
    <2>1. /\ reload.pc = "swap" /\ targets' = Mapping /\ UNCHANGED report /\ reload'.slot = reload.slot
          /\ fallback' = reload.misread /\ reload'.misread = reload.misread
          /\ reload'.ipA = reload.ipA /\ reload'.ipB = reload.ipB
      BY <1>5 DEF Swap, TypeOK
    <2>2. CloseInv'
      BY <2>1 DEF CloseInv, Mapping
    <2>3. NewsInv'
      BY <2>1, MappingOwn DEF RouteInv, NewsInv, Heard, LedBy, Own
    <2>4. QED
      BY <1>1, <2>1, <2>2, <2>3 DEF RouteInv
  <1>6. CASE WriteReport
    <2>1. /\ reload.pc = "close" /\ report'.slot = reload.slot /\ reload'.pc = "idle"
          /\ UNCHANGED <<targets, fallback>>
      BY <1>6 DEF WriteReport, NoReload
    <2>2. LedBy(reload.slot)
      BY <2>1, MappingOwn DEF RouteInv, CloseInv, LedBy
    <2>3. NewsInv'
      BY <2>1, <2>2 DEF RouteInv, NewsInv, Heard, LedBy, Own
    <2>4. QED
      BY <1>1, <2>1, <2>3 DEF CloseInv
  <1>7. CASE ReportAges
    <2>1. report'.slot = report.slot /\ UNCHANGED <<reload, targets, fallback>>
      BY <1>7 DEF ReportAges, TypeOK
    <2>2. QED
      BY <1>1, <2>1 DEF RouteInv, CloseInv, NewsInv, Heard, LedBy, Mapping
  <1>8. CASE Exit
    <2>1. targets' = Nowhere /\ reload'.pc = "idle" /\ UNCHANGED report
      BY <1>8 DEF Exit, NoReload
    <2>2. NewsInv'
      BY <2>1, NowhereLed DEF NewsInv, Heard
    <2>3. QED
      BY <1>1, <2>1, <2>2 DEF RouteInv, CloseInv
  <1>9. CASE IPFiles
    <2>1. UNCHANGED reloadVars
      BY <1>9 DEF IPFiles, TruncateIP, WriteIP
    <2>2. QED
      BY <1>2, <2>1
  <1>10. CASE Server
    <2>1. ASSUME ~UNCHANGED reloadVars
          PROVE  ReadPointer \/ ReadA \/ ReadB \/ Misreads \/ Swap \/ WriteReport \/ ReportAges \/ Exit
      BY <1>10, <2>1 DEF Server, Reloads, Process, Launch, Listen, BindFails, Crash, Stop, Return,
         Accept, Handles, ReadTarget, Dial, Register, CloseDropped, HangUp
    <2>2. QED
      BY <1>2, <1>3, <1>4, <1>5, <1>6, <1>7, <1>8, <1>m, <2>1
  <1>11. QED
    BY <1>9, <1>10

\* To the forwarder a step of the command is a write of the pointer or nothing.
LEMMA CommandNext ==
  ASSUME PromoteType, [PromoteNext]_promoteVars
  PROVE  [Next]_vars
  <1>1. CASE Flip
    BY <1>1 DEF Flip, PromoteType, Next
  <1>2. QED
    BY <1>1 DEF PromoteNext, Start, Checks, Check, Confirm, GiveUp, StagingBackend, promoteVars, Next

LEMMA NextRoute ==
  ASSUME TypeOK, ApartInv, RouteInv, [PromoteNext]_promoteVars
  PROVE  TypeOK' /\ ApartInv' /\ RouteInv'
  <1>1. TypeOK' /\ ApartInv'
    BY CommandNext, NextType, NextApart DEF RouteInv
  <1>2. CASE StagingBackend \/ UNCHANGED promoteVars
    <2>1. UNCHANGED <<pointer, reload, targets, fallback, report, promote>>
      BY <1>2 DEF StagingBackend, promoteVars, vars, fileVars, reloadVars
    <2>2. PromoteType' /\ PointerInv' /\ CloseInv'
      BY <2>1 DEF RouteInv, PromoteType, PointerInv, CloseInv, Mapping
    <2>3. NewsInv'
      BY <2>1 DEF RouteInv, NewsInv, Heard, LedBy, Own
    <2>4. QED
      BY <1>1, <2>2, <2>3 DEF RouteInv
  <1>3. QED
    BY <1>1, <1>2, CommandRoute, ServerRoute DEF PromoteNext, ApartInv

\* A promote that waited for news and is confirmed routes by the promoted slot,
\* whatever addresses the files hold, but for a table whose reload could not
\* read the pointer.
THEOREM ConfirmedPromotesRoute == PromoteSpec => []ConfirmedRouted
  <1>1. PromoteInit => TypeOK /\ ApartInv /\ RouteInv
    <2> SUFFICES ASSUME PromoteInit PROVE TypeOK /\ ApartInv /\ RouteInv
      OBVIOUS
    <2>1. TypeOK /\ ApartInv
      BY InitType, InitApart DEF PromoteInit
    <2>2. RouteInv
      BY DEF PromoteInit, Init, RouteInv, PromoteType, PointerInv, CloseInv, NewsInv, Heard,
         Flipped, NoReload, Slots
    <2>3. QED
      BY <2>1, <2>2
  <1>2. RouteInv => ConfirmedRouted
    <2> SUFFICES ASSUME RouteInv, promote.news, ~fallback, promote.pc = "confirmed"
        PROVE  By(promote.to, targets["active"]) /\ By(Other(promote.to), targets["staging"])
      BY DEF ConfirmedRouted, Promoted
    <2>1. LedBy(promote.to)
      BY DEF RouteInv, NewsInv, Heard
    <2>2. QED
      BY <2>1 DEF LedBy, Own, By
  <1>3. QED
    BY <1>1, <1>2, NextRoute, PTL DEF PromoteSpec

-----------------------------------------------------------------------------
(* Refinement of Routing: every step of the forwarder is one of Routing's or *)
(* leaves what a client can tell unchanged.                                  *)

\* How a record of the connection table looks from outside.
View(v) ==
  CASE v.pc \in {"none", "accepted", "dropped"} -> R!Closed
    [] v.pc \in {"dialing", "dialed"} -> [state |-> "admitted", role |-> v.role, target |-> v.target]
    [] v.pc = "live" -> [state |-> "open", role |-> v.role, target |-> v.target]

LEMMA SessionView ==
  /\ session = [c \in Conns |-> View(conn[c])]
  /\ session' = [c \in Conns |-> View(conn'[c])]
  BY DEF session, View, R!Closed, R!NoAddr, NoAddr

LEMMA ViewCases ==
  ASSUME NEW v \in ConnType
  PROVE  /\ v.pc \in {"none", "accepted", "dropped"} => View(v) = R!Closed
         /\ v.pc \in {"dialing", "dialed"} =>
              View(v) = [state |-> "admitted", role |-> v.role, target |-> v.target]
         /\ v.pc = "live" => View(v) = [state |-> "open", role |-> v.role, target |-> v.target]
         /\ View(v).state = "open" <=> v.pc = "live"
         /\ View(v) # R!Closed <=> v.pc \in {"dialing", "dialed", "live"}
  BY DEF View, ConnType, R!Closed

\* A step that changes one record changes one view.
LEMMA SessionUpdate ==
  ASSUME conn \in [Conns -> ConnType], NEW c \in Conns, NEW v \in ConnType,
         conn' = [conn EXCEPT ![c] = v]
  PROVE  session' = [session EXCEPT ![c] = View(v)]
  BY SessionView, ConnUpdate

LEMMA HandlerStep ==
  ASSUME TypeOK, NEW c \in Conns,
         (\E r \in Roles : Accept(c, r)) \/ Handles(c) \/ HangUp(c)
  PROVE  R!Next \/ UNCHANGED R!routingVars
  <1>1. conn \in [Conns -> ConnType] /\ targets \in [Roles -> Known] /\ conn[c] \in ConnType
    BY TypeOKConn
  <1>2. targets' = targets
    BY DEF Accept, Handles, ReadTarget, Dial, Register, CloseDropped, HangUp, reloadVars
  <1>3. session[c] = View(conn[c]) /\ DOMAIN session = Conns
    BY SessionView
  <1>4. View(NoConn) = R!Closed
    BY NoConnType, ViewCases DEF NoConn
  <1>n. R!NoAddr = NoAddr /\ R!Roles = Roles
    BY DEF R!NoAddr, NoAddr, R!Roles, Roles
  <1>s. ASSUME session' = [session EXCEPT ![c] = session[c]]
        PROVE  UNCHANGED R!routingVars
    BY <1>2, <1>3, <1>s, SessionView DEF R!routingVars
  <1>e. ASSUME session' = [session EXCEPT ![c] = R!Closed]
        PROVE  R!Next \/ UNCHANGED R!routingVars
    <2>1. CASE session[c] = R!Closed
      BY <1>e, <1>s, <2>1
    <2>2. CASE session[c] # R!Closed
      <3>1. R!End(c)
        BY <1>2, <1>e, <2>2 DEF R!End
      <3>2. QED
        BY <3>1 DEF R!Next
    <2>3. QED
      BY <2>1, <2>2
  <1>5. CASE \E r \in Roles : Accept(c, r)
    <2>1. PICK v \in ConnType : conn' = [conn EXCEPT ![c] = v] /\ v.pc = "accepted"
      BY <1>1, <1>5, HandlerSteps
    <2>2. session' = [session EXCEPT ![c] = R!Closed]
      <3>1. View(v) = R!Closed
        BY <2>1, ViewCases
      <3>2. session' = [session EXCEPT ![c] = View(v)]
        BY <1>1, <2>1, SessionUpdate
      <3>3. QED
        BY <3>1, <3>2
    <2>3. QED
      BY <1>e, <2>2
  <1>6. CASE ReadTarget(c)
    <2>1. PICK v \in ConnType : conn' = [conn EXCEPT ![c] = v]
                /\ \/ v = NoConn
                   \/ v.pc = "dialing" /\ v.role = conn[c].role /\ v.target = targets[v.role]
                      /\ v.target # NoAddr
      BY <1>1, <1>6, HandlerSteps
    <2>2. session' = [session EXCEPT ![c] = View(v)]
      BY <1>1, <2>1, SessionUpdate
    <2>3. CASE v = NoConn
      BY <1>4, <1>e, <2>2, <2>3
    <2>4. CASE v.pc = "dialing" /\ v.role = conn[c].role /\ v.target = targets[v.role]
                 /\ v.target # NoAddr
      <3>1. session[c] = R!Closed
        BY <1>1, <1>3, <1>6, ViewCases DEF ReadTarget
      <3>2. View(v) = [state |-> "admitted", role |-> v.role, target |-> targets[v.role]]
        BY <2>4, ViewCases
      <3>3. v.role \in R!Roles
        BY <1>n DEF ConnType
      <3>4. R!Admit(c, v.role)
        BY <1>2, <1>n, <2>2, <2>4, <3>1, <3>2 DEF R!Admit
      <3>5. QED
        BY <3>3, <3>4 DEF R!Next
    <2>5. QED
      BY <2>1, <2>3, <2>4
  <1>7. CASE Dial(c)
    <2>1. PICK v \in ConnType : conn' = [conn EXCEPT ![c] = v]
                /\ \/ v = NoConn
                   \/ v.pc = "dialed" /\ v.role = conn[c].role /\ v.target = conn[c].target
      BY <1>1, <1>7, HandlerSteps
    <2>2. session' = [session EXCEPT ![c] = View(v)]
      BY <1>1, <2>1, SessionUpdate
    <2>3. CASE v = NoConn
      BY <1>4, <1>e, <2>2, <2>3
    <2>4. CASE v.pc = "dialed" /\ v.role = conn[c].role /\ v.target = conn[c].target
      <3>1. View(v) = session[c]
        BY <1>1, <1>3, <1>7, <2>4, ViewCases DEF Dial
      <3>2. QED
        BY <1>s, <2>2, <3>1
    <2>5. QED
      BY <2>1, <2>3, <2>4
  <1>8. CASE Register(c)
    <2>1. PICK v \in ConnType : conn' = [conn EXCEPT ![c] = v]
                /\ v.pc = "live" /\ v.role = conn[c].role /\ v.target = conn[c].target
      BY <1>1, <1>8, HandlerSteps
    <2>2. session' = [session EXCEPT ![c] = View(v)]
      BY <1>1, <2>1, SessionUpdate
    <2>3. session[c] = [state |-> "admitted", role |-> v.role, target |-> v.target]
      BY <1>1, <1>3, <1>8, <2>1, ViewCases DEF Register
    <2>4. View(v) = [session[c] EXCEPT !.state = "open"]
      BY <2>1, <2>3, ViewCases
    <2>5. R!Open(c)
      BY <1>2, <2>2, <2>3, <2>4 DEF R!Open
    <2>6. QED
      BY <2>5 DEF R!Next
  <1>9. CASE CloseDropped(c) \/ HangUp(c)
    <2>1. session' = [session EXCEPT ![c] = R!Closed]
      BY <1>1, <1>4, <1>9, HandlerSteps, NoConnType, SessionUpdate
    <2>2. QED
      BY <1>e, <2>1
  <1>10. QED
    BY <1>5, <1>6, <1>7, <1>8, <1>9 DEF Handles

LEMMA RoutingStep == TypeOK /\ [Next]_vars => [R!Next]_(R!routingVars)
  <1> SUFFICES ASSUME TypeOK, [Next]_vars PROVE R!Next \/ UNCHANGED R!routingVars
    OBVIOUS
  <1>0. conn \in [Conns -> ConnType] /\ targets \in [Roles -> Known]
        /\ reload.ipA \in Known /\ reload.ipB \in Known
    BY TypeOKConn
  <1>n. R!NoAddr = NoAddr /\ R!Roles = Roles
    BY DEF R!NoAddr, NoAddr, R!Roles, Roles
  <1>1. ASSUME UNCHANGED <<conn, targets>> PROVE UNCHANGED R!routingVars
    BY <1>1, SessionView DEF R!routingVars
  <1>2. CASE Swap
    <2> DEFINE D == {d \in Conns : conn[d].pc = "live" /\ Drops(d, targets')}
    <2>1. conn' = [d \in Conns |-> IF d \in D THEN [conn[d] EXCEPT !.pc = "dropped"] ELSE conn[d]]
      BY <1>2 DEF Swap
    <2>2. /\ conn' \in [Conns -> ConnType]
          /\ \A d \in D : conn'[d].pc = "dropped"
          /\ \A d \in Conns \ D : conn'[d] = conn[d]
      BY <1>0, <2>1, MarkDropped
    <2>3. targets' = Mapping /\ Mapping \in [R!Roles -> Addrs \cup {R!NoAddr}]
      BY <1>0, <1>2, <1>n, TargetsType DEF Swap, Mapping, Known
    <2>4. ASSUME NEW c \in Conns
          PROVE  View(conn'[c]) = IF session[c].state = "open"
                                       /\ session[c].target # Mapping[session[c].role]
                                    THEN R!Closed ELSE session[c]
      <3>1. session[c] = View(conn[c]) /\ conn[c] \in ConnType /\ conn'[c] \in ConnType
        BY <1>0, <2>2, SessionView
      <3>2. CASE conn[c].pc = "live"
        <4>1. session[c] = [state |-> "open", role |-> conn[c].role, target |-> conn[c].target]
          BY <3>1, <3>2, ViewCases
        <4>2. c \in D <=> session[c].target # Mapping[session[c].role]
          BY <2>3, <3>2, <4>1 DEF Drops
        <4>3. CASE c \in D
          BY <2>2, <3>1, <4>1, <4>2, <4>3, ViewCases
        <4>4. CASE c \notin D
          BY <2>2, <3>1, <4>2, <4>4
        <4>5. QED
          BY <4>3, <4>4
      <3>3. CASE conn[c].pc # "live"
        <4>1. session[c].state # "open" /\ c \notin D
          BY <3>1, <3>3, ViewCases
        <4>2. QED
          BY <2>2, <3>1, <4>1
      <3>4. QED
        BY <3>2, <3>3
    <2>5. R!Repoint(Mapping)
      BY <2>3, <2>4, SessionView DEF R!Repoint
    <2>6. QED
      BY <2>3, <2>5 DEF R!Next
  <1>3. ASSUME NEW c \in Conns,
               (\E r \in Roles : Accept(c, r)) \/ Handles(c) \/ HangUp(c)
        PROVE  R!Next \/ UNCHANGED R!routingVars
    BY <1>3, HandlerStep
  <1>4. CASE BindFails \/ Crash \/ Return
    <2>1. targets' = [r \in R!Roles |-> R!NoAddr] /\ conn' = [c \in Conns |-> NoConn]
      BY <1>4, <1>n DEF BindFails, Crash, Return, Exit, Nowhere
    <2>2. View(NoConn) = R!Closed
      BY NoConnType, ViewCases DEF NoConn
    <2>3. session' = [c \in Conns |-> R!Closed]
      BY <2>1, <2>2, SessionView
    <2>4. R!Gone
      BY <2>1, <2>3 DEF R!Gone
    <2>5. QED
      BY <2>4 DEF R!Next
  <1>5. CASE Stop
    <2> DEFINE D == {d \in Conns : conn[d].pc = "live"}
    <2>1. conn' = [d \in Conns |-> IF d \in D THEN [conn[d] EXCEPT !.pc = "dropped"] ELSE conn[d]]
      BY <1>5 DEF Stop
    <2>2. /\ conn' \in [Conns -> ConnType]
          /\ \A d \in D : conn'[d].pc = "dropped"
          /\ \A d \in Conns \ D : conn'[d] = conn[d]
      BY <1>0, <2>1, MarkDropped
    <2>3. targets' = targets
      BY <1>5 DEF Stop, reloadVars
    <2>4. \A d \in Conns : View(conn'[d]) = IF d \in D THEN R!Closed ELSE session[d]
      BY <2>2, SessionView, ViewCases
    <2>5. session' = [d \in Conns |-> IF d \in D THEN R!Closed ELSE session[d]] /\ D \in SUBSET Conns
      BY <2>4, SessionView
    <2>6. R!CutOff
      BY <2>3, <2>5 DEF R!CutOff
    <2>7. QED
      BY <2>6 DEF R!Next
  <1>6. CASE (\E s \in Slots : SetPointer(s)) \/ IPFiles
    <2>1. UNCHANGED <<conn, targets>>
      BY <1>6 DEF SetPointer, IPFiles, TruncateIP, WriteIP, reloadVars
    <2>2. QED
      BY <1>1, <2>1
  <1>7. CASE ReadPointer \/ ReadA \/ ReadB \/ Misreads \/ WriteReport \/ ReportAges \/ Launch \/ Listen
    <2>1. UNCHANGED <<conn, targets>>
      BY <1>7 DEF ReadPointer, ReadA, ReadB, Misreads, PointerUnread, AddressUnread, Unread,
         WriteReport, ReportAges, Launch, Listen, reloadVars
    <2>2. QED
      BY <1>1, <2>1
  <1>8. CASE UNCHANGED vars
    BY <1>1, <1>8 DEF vars, reloadVars
  <1>9. QED
    BY <1>2, <1>3, <1>4, <1>5, <1>6, <1>7, <1>8 DEF Next, Server, Reloads, Process

\* The forwarder keeps the promise of Routing: re-pointing a role cuts off, in
\* one instant, every open session that leads elsewhere.
THEOREM ForwarderRefinesRouting == Spec => Routes
  <1>1. Init => R!Init
    <2> SUFFICES ASSUME Init PROVE R!Init
      OBVIOUS
    <2>1. View(NoConn) = R!Closed
      BY NoConnType, ViewCases DEF NoConn
    <2>2. session = [c \in Conns |-> R!Closed]
      BY <2>1, SessionView DEF Init
    <2>3. targets = [r \in R!Roles |-> R!NoAddr]
      BY DEF Init, Nowhere, Roles, R!Roles, NoAddr, R!NoAddr
    <2>4. QED
      BY <2>2, <2>3 DEF R!Init
  <1>2. QED
    BY <1>1, InitType, NextType, RoutingStep, PTL DEF Spec, Routes, R!Spec
=============================================================================
