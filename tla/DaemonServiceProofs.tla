------------------------- MODULE DaemonServiceProofs -------------------------
(***************************************************************************)
(* Proofs about DaemonService: for any number of requests and one-shot     *)
(* processes, any operations, faults and cancellations.                    *)
(***************************************************************************)
EXTENDS DaemonService, TLAPS

-----------------------------------------------------------------------------
(* The inductive invariant.  A request beyond the mutex holds it, and there   *)
(* is none when the daemon does not serve: what one request has seen of the   *)
(* machine is still so when it goes on.                                       *)

\* Where a request can be, by its operation.
Positions(op) ==
  CASE op = "up"        -> {"lock"} \cup Building \cup Provisioning \cup {"begin", "task", "forward"}
    [] op = "down"      -> {"lock", "delete", "wipe"}
    [] op = "start"     -> {"lock", "start", "forward"}
    [] op = "stop"      -> {"lock", "stop"}
    [] op = "reconcile" -> {"lock", "forward"}
    [] op \in {"snapshot", "restore"} -> {"lock", "recover", "begin", "task", "stopped"}
    [] OTHER            -> {"idle"}

PlaceInv == \A r \in All :
  /\ req[r].pc \in Positions(req[r].op)
  /\ r \in OneShots => req[r].op \in {None, "snapshot", "restore"} /\ req[r].pc # "lock"

ServedInv == daemon # "serving" => \A r \in Reqs : req[r].pc = "idle"

\* A build container that has got as far as being stopped has PostgreSQL.
BuildInv ==
  /\ golden # "bare"
  /\ \A r \in All : req[r].pc \in {"gstop", "galias", "gpublish"} => build.pg

AbsentInv == cont.state = "absent" => cont = NoContainer

\* Data is there under a container that has some, and Up has made its place.
DataInv ==
  /\ ~missed => DataUnderContainer
  /\ \A r \in All :
       /\ req[r].pc \in {"launch", "disk", "cluster", "role"} /\ mounted => slot # "none"
       /\ req[r].pc = "wipe" /\ mounted /\ ~missed => cont.cluster # "slot"

IInv == PlaceInv /\ ServedInv /\ BuildInv /\ AbsentInv /\ DataInv

\* How far an Up has come, when nobody works on the slot but the daemon.
UpAt(r) ==
  LET pc == req[r].pc
      up == req[r].op = "up"
  IN /\ pc \in {"cluster", "role"} => cont.disk
     /\ pc = "role" => cont.state = "RUNNING" /\ cont.cluster = "slot" /\ slot \in {"cluster", "db"}
     /\ up /\ pc \in {"begin", "task", "forward"} =>
          cont.state = "RUNNING" /\ cont.disk /\ cont.cluster = "slot" /\ slot = "db"
     /\ up /\ pc = "forward" => initial
UpInv == OneShots = {} => \A r \in Reqs : UpAt(r)

-----------------------------------------------------------------------------
(* What a step does to the request that takes it. *)

Pcs == {"idle", "lock"} \cup Building \cup Provisioning \cup Simple \cup Tasking
ReqType == [op : Ops \cup {None}, live : BOOLEAN, pc : Pcs]

LEMMA ReqTypes == TypeOK => req \in [All -> ReqType]
  BY DEF TypeOK, ReqType, Pcs

LEMMA IdleType == Idle \in ReqType /\ Idle.pc = "idle" /\ Idle.op = None /\ Idle.live
  BY DEF Idle, ReqType, Pcs

\* Only request r has a new place, a new operation or a client that is gone.
Only(r) ==
  /\ req' \in [All -> ReqType]
  /\ \A q \in All \ {r} : req'[q] = req[q]

LEMMA SetFacts ==
  ASSUME TypeOK, NEW r \in All, NEW v \in ReqType, req' = [req EXCEPT ![r] = v]
  PROVE  Only(r) /\ req'[r] = v
  BY ReqTypes DEF Only

LEMMA PcFacts ==
  ASSUME TypeOK, NEW r \in All, NEW pc \in Pcs, req' = [req EXCEPT ![r].pc = pc]
  PROVE  Only(r) /\ req'[r].pc = pc /\ req'[r].op = req[r].op /\ req'[r].live = req[r].live
  BY ReqTypes DEF Only, ReqType

LEMMA GotoFacts ==
  ASSUME TypeOK, NEW r \in All, NEW pc \in Pcs, Goto(r, pc)
  PROVE  /\ Only(r) /\ req'[r].pc = pc /\ req'[r].op = req[r].op /\ req'[r].live = req[r].live
         /\ lock' = lock
  BY PcFacts DEF Goto

LEMMA EndsFacts ==
  ASSUME TypeOK, NEW r \in All, Ends(r)
  PROVE  Only(r) /\ req'[r] = Idle /\ lock' = IF lock = r THEN None ELSE lock
  BY SetFacts, IdleType DEF Ends

\* Nobody else is beyond the mutex.
LEMMA Sole ==
  ASSUME TypeOK, NEW r \in Reqs, NEW q \in Reqs, q # r, req[r].pc \notin {"idle", "lock"}
  PROVE  req[q].pc \in {"idle", "lock"} /\ lock = r
  BY DEF TypeOK

-----------------------------------------------------------------------------
(* Type correctness. *)

\* The parts of TypeOK about the requests and about the rest.
Held ==
  /\ lock \in Reqs \cup {None}
  /\ req \in [All -> ReqType]
  /\ \A r \in Reqs : req[r].pc \notin {"idle", "lock"} => lock = r
ContType == [state : {"absent", "RUNNING", "STOPPED"}, disk : BOOLEAN, proxy : BOOLEAN,
             cluster : {"none", "rootfs", "slot"}]
WorldOK == mounted \in BOOLEAN /\ cont \in ContType
           /\ slot \in {"none", "empty", "cluster", "db"} /\ initial \in BOOLEAN
BuildType == [state : {"absent", "RUNNING", "STOPPED"}, pg : BOOLEAN]
ImageOK == golden \in {"none", "bare", "full"} /\ build \in BuildType
JournalOK == records \subseteq {"snapshot", "restore"} /\ wasRunning \in BOOLEAN
BoundsOK == faults \in 0..MaxFaults /\ unresolved \in 0..MaxUnresolved /\ cancels \in 0..MaxCancels
DaemonOK == daemon \in {"down", "recovering", "serving"} /\ missed \in BOOLEAN

LEMMA TypeParts == TypeOK <=> Held /\ WorldOK /\ ImageOK /\ JournalOK /\ BoundsOK /\ DaemonOK
  <1>1. TypeOK => Held
    BY DEF TypeOK, Held, ReqType, Pcs
  <1>2. TypeOK => WorldOK /\ ImageOK /\ JournalOK /\ BoundsOK /\ DaemonOK
    BY DEF TypeOK, WorldOK, ContType, ImageOK, BuildType, JournalOK, BoundsOK, DaemonOK
  <1>3. ASSUME Held, WorldOK, ImageOK, JournalOK, BoundsOK, DaemonOK
        PROVE  TypeOK
    <2>1. req \in [All -> [op : Ops \cup {None}, live : BOOLEAN,
                      pc : {"idle", "lock"} \cup Building \cup Provisioning \cup Simple \cup Tasking]]
      BY <1>3 DEF Held, ReqType, Pcs
    <2>2. QED
      BY <1>3, <2>1 DEF TypeOK, Held, WorldOK, ContType, ImageOK, BuildType, JournalOK, BoundsOK, DaemonOK
  <1>4. QED
    BY <1>1, <1>2, <1>3

LEMMA GotoHolds ==
  ASSUME TypeOK, NEW r \in All, req[r].pc \notin {"idle", "lock"},
         NEW pc \in Pcs, Goto(r, pc)
  PROVE  Held'
  BY GotoFacts, TypeParts DEF Held, Only, All

LEMMA EndsHolds ==
  ASSUME TypeOK, NEW r \in All, req[r].pc \notin {"idle", "lock"}, Ends(r)
  PROVE  Held'
  <1>1. Only(r) /\ req'[r].pc = "idle" /\ lock' = IF lock = r THEN None ELSE lock
    BY EndsFacts, IdleType
  <1>2. CASE r \in Reqs
    <2>1. lock = r /\ lock' = None
      BY <1>1, <1>2, TypeParts DEF Held
    <2>2. \A q \in Reqs \ {r} : req[q].pc \in {"idle", "lock"} /\ req'[q] = req[q]
      BY <1>1, <1>2, Sole DEF Only, All
    <2>3. \A q \in Reqs : req'[q].pc \in {"idle", "lock"}
      BY <1>1, <2>2
    <2>4. QED
      BY <1>1, <2>1, <2>3 DEF Held, Only
  <1>3. CASE r \notin Reqs
    <2>1. lock # r
      BY <1>3, TypeParts, DaemonAssumption DEF Held, All
    <2>2. QED
      BY <1>1, <1>3, <2>1, TypeParts DEF Held, Only, All
  <1>4. QED
    BY <1>2, <1>3

\* The container changes its state and nothing else.
LEMMA ContState ==
  ASSUME cont \in ContType, NEW s \in {"absent", "RUNNING", "STOPPED"},
         cont' = [cont EXCEPT !.state = s]
  PROVE  /\ cont' \in ContType /\ cont'.state = s
         /\ cont'.disk = cont.disk /\ cont'.proxy = cont.proxy /\ cont'.cluster = cont.cluster
  BY DEF ContType

LEMMA NoContainerType ==
  /\ NoContainer \in ContType /\ NoContainer.state = "absent" /\ NoContainer.cluster = "none"
  /\ NoContainer.disk = FALSE
  BY DEF NoContainer, ContType

LEMMA InitTypes == Init => TypeOK
  <1> SUFFICES ASSUME Init PROVE TypeOK
    OBVIOUS
  <1>1. Held
    BY IdleType DEF Init, Held, All
  <1>2. WorldOK
    BY NoContainerType DEF Init, WorldOK
  <1>3. ImageOK
    BY DEF Init, ImageOK, NoBuild, BuildType
  <1>4. JournalOK /\ DaemonOK
    BY DEF Init, JournalOK, DaemonOK
  <1>5. BoundsOK
    BY DaemonAssumption DEF Init, BoundsOK
  <1>6. QED
    BY <1>1, <1>2, <1>3, <1>4, <1>5, TypeParts

\* The states a container can be left in, and what resolving a record leaves.
LEMMA ResolveFacts ==
  ASSUME TypeOK, NEW kinds, NEW works \in BOOLEAN, NEW nil \in BOOLEAN, NEW fault \in BOOLEAN,
         Resolve(kinds, works, nil, fault)
  PROVE  /\ cont' \in ContType /\ (cont'.state = "absent") = (cont.state = "absent")
         /\ cont'.disk = cont.disk /\ cont'.proxy = cont.proxy /\ cont'.cluster = cont.cluster
         /\ records' \in {records, records \ kinds}
         /\ unresolved' \in 0..MaxUnresolved
  <1>1. PICK state \in Resolved(kinds, works, fault) :
          /\ cont' = [cont EXCEPT !.state = state]
          /\ \/ records' = records \ kinds /\ UNCHANGED unresolved
             \/ unresolved < MaxUnresolved /\ UNCHANGED records /\ unresolved' = unresolved + 1
    BY DEF Resolve
  <1>2. cont \in ContType
    BY TypeParts DEF WorldOK
  <1>3. cont.state \in {"absent", "RUNNING", "STOPPED"}
    BY <1>2 DEF ContType
  <1>4. state \in {"absent", "RUNNING", "STOPPED"} /\ (state = "absent" <=> cont.state = "absent")
    BY <1>1, <1>3 DEF Resolved, Unwound
  <1>5. unresolved \in 0..MaxUnresolved /\ MaxUnresolved \in Nat
    BY TypeParts, DaemonAssumption DEF BoundsOK
  <1>6. unresolved' \in 0..MaxUnresolved
    BY <1>1, <1>5
  <1>7. QED
    BY <1>1, <1>2, <1>4, <1>6, ContState

LEMMA FaultyFacts ==
  ASSUME TypeOK, NEW fault \in BOOLEAN, Faulty(fault)
  PROVE  faults' \in 0..MaxFaults
  BY TypeParts, DaemonAssumption DEF Faulty, BoundsOK

-----------------------------------------------------------------------------
(* Places.  Where a request goes next is a place of its operation. *)

Places == Held /\ PlaceInv /\ ServedInv
Ups1 == Building \cup Provisioning

\* The operation of a request by its position, and the other way round.
LEMMA PlaceOps ==
  ASSUME TypeOK, PlaceInv, NEW r \in All
  PROVE  /\ req[r].pc \in Ups1 => req[r].op = "up"
         /\ req[r].pc \in {"delete", "wipe"} => req[r].op = "down"
         /\ req[r].pc \in {"recover", "stopped"} => req[r].op \in {"snapshot", "restore"}
         /\ req[r].pc \in {"begin", "task"} => req[r].op \in {"up", "snapshot", "restore"}
         /\ req[r].pc = "start" => req[r].op = "start"
         /\ req[r].pc = "stop" => req[r].op = "stop"
         /\ req[r].pc = "forward" => req[r].op \in {"up", "start", "reconcile"}
         /\ req[r].pc = "lock" => req[r].op \in AllOps /\ r \in Reqs
         /\ req[r].pc \in Ups1 \cup Simple => r \in Reqs
  <1> DEFINE op == req[r].op
             pc == req[r].pc
  <1>1. op \in AllOps \cup {None}
    BY TypeParts, DaemonAssumption DEF Held, ReqType
  <1>2. pc \in Positions(op) /\ (r \in OneShots => op \in {None, "snapshot", "restore"} /\ pc # "lock")
    BY DEF PlaceInv
  <1>3. op = "up" => pc \in {"lock", "begin", "task", "forward"} \cup Ups1
    BY <1>2 DEF Positions, Ups1
  <1>4. op = "down" => pc \in {"lock", "delete", "wipe"}
    BY <1>2 DEF Positions
  <1>5. op = "start" => pc \in {"lock", "start", "forward"}
    BY <1>2 DEF Positions
  <1>6. op = "stop" => pc \in {"lock", "stop"}
    BY <1>2 DEF Positions
  <1>7. op = "reconcile" => pc \in {"lock", "forward"}
    BY <1>2 DEF Positions
  <1>8. op \in {"snapshot", "restore"} => pc \in {"lock", "recover", "begin", "task", "stopped"}
    BY <1>2 DEF Positions
  <1>9. op = None => pc = "idle"
    BY <1>2 DEF Positions, None
  <1>10. Ups1 \cap {"idle", "lock", "begin", "task", "forward", "delete", "wipe", "start", "stop",
                     "recover", "stopped"} = {}
    BY DEF Ups1, Building, Provisioning
  <1> HIDE DEF op, pc
  <1>11. op \in {"up", "down", "start", "stop", "reconcile", "snapshot", "restore", None}
    BY <1>1 DEF AllOps
  <1>12. /\ pc \in Ups1 => op = "up"
         /\ pc \in {"delete", "wipe"} => op = "down"
         /\ pc \in {"recover", "stopped"} => op \in {"snapshot", "restore"}
         /\ pc \in {"begin", "task"} => op \in {"up", "snapshot", "restore"}
         /\ pc = "start" => op = "start"
         /\ pc = "stop" => op = "stop"
         /\ pc = "forward" => op \in {"up", "start", "reconcile"}
    BY <1>3, <1>4, <1>5, <1>6, <1>7, <1>8, <1>9, <1>10, <1>11
  <1>13. pc = "lock" => op \in AllOps /\ r \in Reqs
    BY <1>1, <1>2, <1>9 DEF All
  <1>14. pc \in Ups1 \cup Simple => r \in Reqs
    BY <1>2, <1>12 DEF Simple, All, None
  <1>15. QED
    BY <1>12, <1>13, <1>14 DEF op, pc

\* A request that goes on inside its operation.
LEMMA GotoPlaces ==
  ASSUME TypeOK, Places, NEW r \in All, req[r].pc \notin {"idle", "lock"},
         NEW pc \in Pcs, pc \notin {"idle", "lock"}, pc \in Positions(req[r].op),
         Goto(r, pc), UNCHANGED daemon
  PROVE  Places'
  <1>1. Held'
    BY GotoHolds
  <1>2. Only(r) /\ req'[r].pc = pc /\ req'[r].op = req[r].op /\ req'[r].live = req[r].live
    BY GotoFacts
  <1>3. PlaceInv'
    BY <1>2 DEF Places, PlaceInv, Only
  <1>4. ServedInv'
    BY <1>2 DEF Places, ServedInv, Only, All
  <1>5. QED
    BY <1>1, <1>3, <1>4 DEF Places

\* A request that ends.
LEMMA EndsPlaces ==
  ASSUME TypeOK, Places, NEW r \in All, req[r].pc \notin {"idle", "lock"},
         Ends(r), UNCHANGED daemon
  PROVE  Places'
  <1>1. Held'
    BY EndsHolds
  <1>2. Only(r) /\ req'[r].pc = "idle" /\ req'[r].op = None /\ req'[r].live
    BY EndsFacts, IdleType
  <1>3. Positions(None) = {"idle"}
    BY DEF Positions, None
  <1>4. PlaceInv'
    BY <1>2, <1>3 DEF Places, PlaceInv, Only
  <1>5. ServedInv'
    BY <1>2 DEF Places, ServedInv, Only, All
  <1>6. QED
    BY <1>1, <1>4, <1>5 DEF Places

\* The requests of a set that are gone with the daemon.
LEMMA DropsPlaces ==
  ASSUME TypeOK, Places, NEW R, Reqs \subseteq R, Drops(R)
  PROVE  /\ Places' /\ daemon' = "down"
         /\ \A r \in All : req'[r] = req[r] \/ req'[r].pc = "idle"
         /\ \A r \in Reqs : req'[r].pc = "idle"
  <1>1. \A r \in All : req'[r] = IF r \in R THEN Idle ELSE req[r]
    BY DEF Drops
  <1>2. req' \in [All -> ReqType]
    BY IdleType, ReqTypes DEF Drops
  <1>3. \A r \in Reqs : req'[r] = Idle
    BY <1>1 DEF All
  <1>4. Held'
    BY <1>2, <1>3, IdleType DEF Drops, Held
  <1>5. Positions(None) = {"idle"}
    BY DEF Positions, None
  <1>6. PlaceInv'
    BY <1>1, <1>5, IdleType DEF Places, PlaceInv
  <1>7. ServedInv'
    BY <1>3, IdleType DEF ServedInv
  <1>8. QED
    BY <1>1, <1>3, <1>4, <1>6, <1>7, IdleType DEF Places, Drops

-----------------------------------------------------------------------------
(* The data a request works on is touched by nobody else. *)

Touchy == {"gstop", "galias", "gpublish", "launch", "disk", "cluster", "role", "wipe"}
Data == BuildInv /\ AbsentInv /\ DataInv

LEMMA Others ==
  ASSUME TypeOK, PlaceInv, NEW r \in Reqs, req[r].pc \notin {"idle", "lock"},
         NEW q \in All, q # r
  PROVE  req[q].pc \notin Touchy
  <1>1. CASE q \in Reqs
    BY <1>1, Sole DEF Touchy
  <1>2. CASE q \in OneShots
    <2>1. Touchy \subseteq Ups1 \cup Simple
      BY DEF Touchy, Ups1, Simple, Building, Provisioning
    <2>2. QED
      BY <1>2, <2>1, PlaceOps, DaemonAssumption
  <1>3. QED
    BY <1>1, <1>2 DEF All

\* Steps that leave the data alone and take nobody to where it matters.
LEMMA Frame ==
  ASSUME Data, UNCHANGED <<mounted, slot, golden, build>>, cont'.cluster = cont.cluster,
         ~missed' => ~missed,
         \A q \in All : req'[q].pc = req[q].pc \/ req'[q].pc \notin Touchy
  PROVE  BuildInv' /\ DataInv'
  BY DEF Data, BuildInv, DataInv, DataUnderContainer, Touchy

\* The same of the request that has the mutex: what the others have is no concern.
LEMMA Mine ==
  ASSUME TypeOK, PlaceInv, NEW r \in Reqs, req[r].pc \notin {"idle", "lock"}, Only(r)
  PROVE  \A q \in All \ {r} : req'[q].pc \notin Touchy
  BY Others DEF Only

LEMMA EndsFrame ==
  ASSUME TypeOK, Data, NEW r \in All, Ends(r), UNCHANGED <<mounted, slot, golden, build, missed>>,
         cont'.cluster = cont.cluster
  PROVE  BuildInv' /\ DataInv'
  BY Frame, EndsFacts, IdleType DEF Only, Touchy

LEMMA GotoFrame ==
  ASSUME TypeOK, Data, NEW r \in All, NEW pc \in Pcs \ Touchy, Goto(r, pc),
         UNCHANGED <<mounted, slot, golden, build, missed>>,
         cont'.cluster = cont.cluster
  PROVE  BuildInv' /\ DataInv'
  BY Frame, GotoFacts DEF Only

Good == TypeOK /\ IInv

\* The parts again, for the steps that leave most of them alone.
LEMMA Parts == Good <=> /\ Places /\ Data
                        /\ WorldOK /\ ImageOK /\ JournalOK /\ BoundsOK /\ DaemonOK
  BY TypeParts DEF Good, IInv, Places, Data

LEMMA NextParts == (Good <=> /\ Places /\ Data
                             /\ WorldOK /\ ImageOK /\ JournalOK /\ BoundsOK /\ DaemonOK)'
  BY Parts, PTL

LEMMA AbsentSame ==
  ASSUME AbsentInv, UNCHANGED cont
  PROVE  AbsentInv' /\ cont'.cluster = cont.cluster
  BY DEF AbsentInv

LEMMA WorldSame ==
  /\ WorldOK /\ UNCHANGED world => WorldOK'
  /\ ImageOK /\ UNCHANGED image => ImageOK'
  /\ JournalOK /\ UNCHANGED journal => JournalOK'
  /\ BoundsOK /\ UNCHANGED bounds => BoundsOK'
  /\ DaemonOK /\ UNCHANGED <<daemon, missed>> => DaemonOK'
  BY DEF WorldOK, world, ImageOK, image, JournalOK, journal, BoundsOK, bounds, DaemonOK

-----------------------------------------------------------------------------
(* Up, step by step. *)

\* The only request beyond the mutex: the invariants are about where it is.
LEMMA Lone ==
  ASSUME NEW r \in All, \A q \in All \ {r} : req'[q].pc \notin Touchy,
         golden' # "bare", ~missed' => DataUnderContainer',
         req'[r].pc \in {"gstop", "galias", "gpublish"} => build'.pg,
         req'[r].pc \in {"launch", "disk", "cluster", "role"} /\ mounted' => slot' # "none",
         req'[r].pc = "wipe" /\ mounted' /\ ~missed' => cont'.cluster # "slot"
  PROVE  BuildInv' /\ DataInv'
  BY DEF BuildInv, DataInv, Touchy

LEMMA UpPlace ==
  ASSUME Good, NEW r \in All, req[r].pc \in Ups1
  PROVE  r \in Reqs /\ req[r].op = "up" /\ req[r].pc \notin {"idle", "lock"}
  <1>1. TypeOK /\ PlaceInv
    BY DEF Good, IInv
  <1>2. QED
    BY <1>1, PlaceOps DEF Ups1, Building, Provisioning

LEMMA UpGoto ==
  ASSUME Good, NEW r \in All, req[r].pc \in Ups1, NEW pc \in Ups1 \cup {"begin"}, Goto(r, pc),
         UNCHANGED daemon
  PROVE  Places' /\ req'[r].pc = pc /\ \A q \in All \ {r} : req'[q].pc \notin Touchy
  <1>0. TypeOK /\ Places /\ PlaceInv
    BY Parts, TypeParts DEF Places, Good
  <1>1. r \in Reqs /\ req[r].op = "up" /\ req[r].pc \notin {"idle", "lock"}
    BY UpPlace
  <1>2. pc \in Positions("up") /\ pc \in Pcs /\ pc \notin {"idle", "lock"}
    BY DEF Positions, Ups1, Pcs, Building, Provisioning, Tasking
  <1>3. Only(r) /\ req'[r].pc = pc
    BY <1>0, <1>2, GotoFacts
  <1>4. Places'
    BY <1>0, <1>1, <1>2, GotoPlaces
  <1>5. QED
    BY <1>0, <1>1, <1>3, <1>4, Mine

\* The request that has the mutex ends.
LEMMA MineEnds ==
  ASSUME Good, NEW r \in Reqs, req[r].pc \notin {"idle", "lock"}, Ends(r),
         UNCHANGED daemon
  PROVE  Places' /\ req'[r].pc = "idle" /\ \A q \in All : req'[q].pc \notin Touchy
  <1>0. TypeOK /\ Places /\ PlaceInv /\ r \in All
    BY Parts, TypeParts DEF Places, Good, All
  <1>1. Places'
    BY <1>0, EndsPlaces
  <1>2. Only(r) /\ req'[r].pc = "idle"
    BY <1>0, EndsFacts, IdleType
  <1>3. QED
    BY <1>0, <1>1, <1>2, Mine DEF Touchy

\* The deferred delete of the build container, done or not.
LEMMA DropsFacts ==
  ASSUME ImageOK, BoundsOK, DropsBuild, UNCHANGED <<unresolved, cancels>>
  PROVE  build' \in BuildType /\ BoundsOK'
  <1>1. NoBuild \in BuildType
    BY DEF NoBuild, BuildType
  <1>2. build' \in BuildType
    BY <1>1 DEF DropsBuild, ImageOK
  <1>3. faults' \in 0..MaxFaults
    BY DaemonAssumption DEF DropsBuild, BoundsOK
  <1>4. QED
    BY <1>2, <1>3 DEF BoundsOK

\* The golden image is built, or is there already.
LEMMA BuildsGood ==
  ASSUME Good, NEW r \in All,
         \/ UpCheck(r) \/ ClearBuild(r) \/ LaunchBuild(r) \/ BuildScript(r) \/ StopBuild(r)
         \/ DropAlias(r) \/ PublishGolden(r) \/ CleanBuild(r)
  PROVE  Good'
  <1>0. /\ TypeOK /\ BuildInv /\ AbsentInv /\ DataInv
        /\ WorldOK /\ ImageOK /\ JournalOK /\ BoundsOK /\ DaemonOK
    BY Parts, TypeParts DEF Data, Places
  <1>1. req[r].pc \in Ups1
    BY DEF UpCheck, ClearBuild, LaunchBuild, BuildScript, StopBuild, DropAlias, PublishGolden, CleanBuild,
       At, Ups1, Building, Provisioning
  <1>2. r \in Reqs /\ req[r].pc \notin {"idle", "lock"}
    BY <1>1, UpPlace
  <1>3. \A pc \in {"gdelete", "glaunch", "gscript", "gstop", "galias", "gpublish", "layout"} :
          pc \in Ups1 \cup {"begin"}
    BY DEF Ups1, Building, Provisioning
  <1>4. UNCHANGED <<world, journal, daemon, unresolved, cancels, missed>>
    BY DEF UpCheck, ClearBuild, LaunchBuild, BuildScript, StopBuild, DropAlias, PublishGolden,
       CleanBuild, bounds
  <1>5. UNCHANGED <<mounted, cont, slot, missed, daemon>>
    BY <1>4 DEF world
  <1>6. ~missed' => DataUnderContainer'
    BY <1>0, <1>5 DEF DataInv, DataUnderContainer
  <1>7. AbsentInv' /\ WorldOK' /\ JournalOK' /\ DaemonOK'
    BY <1>0, <1>4, <1>5, AbsentSame, WorldSame
  <1>8. NoBuild \in BuildType
    BY DEF NoBuild, BuildType
  <1>9. ImageOK' /\ BoundsOK' /\ Places' /\ BuildInv' /\ DataInv'
    <2>1. CASE UpCheck(r)
      <3>1. UNCHANGED <<image, bounds>>
        BY <2>1 DEF UpCheck
      <3>2. Places' /\ \A q \in All : req'[q].pc \notin Touchy
        <4>1. CASE Goto(r, IF Works(r) /\ golden # "none" THEN "layout" ELSE "gdelete")
          BY <1>1, <1>3, <1>5, <4>1, UpGoto DEF Touchy
        <4>2. CASE Ends(r)
          BY <1>2, <1>5, <4>2, MineEnds
        <4>3. QED
          BY <2>1, <4>1, <4>2 DEF UpCheck
      <3>3. BuildInv' /\ DataInv'
        BY <1>0, <1>6, <3>1, <3>2, Lone DEF Touchy, image, BuildInv
      <3>4. QED
        BY <1>0, <3>1, <3>2, <3>3, WorldSame
    <2>2. CASE ClearBuild(r)
      <3>1. Places' /\ \A q \in All : req'[q].pc \notin Touchy
        BY <1>1, <1>3, <1>5, <2>2, UpGoto DEF ClearBuild, AfterClear, Touchy
      <3>2. BuildInv' /\ DataInv'
        BY <1>0, <1>6, <2>2, <3>1, Lone DEF ClearBuild, Touchy, BuildInv
      <3>3. ImageOK' /\ BoundsOK'
        BY <1>0, <1>8, <2>2, DaemonAssumption DEF ClearBuild, ImageOK, BoundsOK
      <3>4. QED
        BY <3>1, <3>2, <3>3
    <2>3. CASE LaunchBuild(r)
      <3>1. Places' /\ \A q \in All : req'[q].pc \notin Touchy
        BY <1>1, <1>3, <1>5, <2>3, UpGoto DEF LaunchBuild, Touchy
      <3>2. BuildInv' /\ DataInv'
        BY <1>0, <1>6, <2>3, <3>1, Lone DEF LaunchBuild, Touchy, BuildInv
      <3>3. ImageOK'
        BY <1>0, <2>3 DEF LaunchBuild, ImageOK, BuildType
      <3>4. QED
        BY <1>0, <2>3, <3>1, <3>2, <3>3, WorldSame DEF LaunchBuild
    <2>4. CASE BuildScript(r)
      <3>1. Places' /\ req'[r].pc = "gstop" /\ \A q \in All \ {r} : req'[q].pc \notin Touchy
        BY <1>1, <1>3, <1>5, <2>4, UpGoto DEF BuildScript
      <3>2. build' \in BuildType /\ build'.pg
        BY <1>0, <2>4 DEF BuildScript, ImageOK, BuildType
      <3>3. BuildInv' /\ DataInv'
        BY <1>0, <1>6, <2>4, <3>1, <3>2, Lone DEF BuildScript, BuildInv
      <3>4. QED
        BY <1>0, <2>4, <3>1, <3>2, <3>3, WorldSame DEF BuildScript, ImageOK
    <2>5. CASE StopBuild(r)
      <3>1. Places' /\ req'[r].pc = "galias" /\ \A q \in All \ {r} : req'[q].pc \notin Touchy
        BY <1>1, <1>3, <1>5, <2>5, UpGoto DEF StopBuild
      <3>2. build.pg
        BY <1>0, <2>5 DEF StopBuild, BuildInv, At
      <3>3. build' \in BuildType /\ build'.pg
        BY <1>0, <2>5, <3>2 DEF StopBuild, ImageOK, BuildType
      <3>4. BuildInv' /\ DataInv'
        BY <1>0, <1>6, <2>5, <3>1, <3>3, Lone DEF StopBuild, BuildInv
      <3>5. QED
        BY <1>0, <2>5, <3>1, <3>3, <3>4, WorldSame DEF StopBuild, ImageOK
    <2>6. CASE PublishGolden(r)
      <3>1. Places' /\ \A q \in All : req'[q].pc \notin Touchy
        BY <1>1, <1>3, <1>5, <2>6, UpGoto DEF PublishGolden, Touchy
      <3>2. build.pg
        BY <1>0, <2>6 DEF PublishGolden, BuildInv, At
      <3>3. golden' = "full" /\ DropsBuild
        BY <2>6, <3>2 DEF PublishGolden
      <3>4. BuildInv' /\ DataInv'
        BY <1>6, <3>1, <3>3, Lone DEF Touchy
      <3>5. QED
        BY <1>0, <1>4, <3>1, <3>3, <3>4, DropsFacts DEF ImageOK
    <2>7. CASE CleanBuild(r)
      <3>1. Places' /\ \A q \in All : req'[q].pc \notin Touchy
        BY <1>2, <1>5, <2>7, MineEnds DEF CleanBuild
      <3>2. BuildInv' /\ DataInv'
        BY <1>0, <1>6, <2>7, <3>1, Lone DEF CleanBuild, Touchy, BuildInv
      <3>3. golden' = golden /\ DropsBuild
        BY <2>7 DEF CleanBuild
      <3>4. QED
        BY <1>0, <1>4, <3>1, <3>2, <3>3, DropsFacts DEF ImageOK
    <2>8. CASE DropAlias(r)
      <3>1. Places' /\ req'[r].pc = "gpublish" /\ \A q \in All \ {r} : req'[q].pc \notin Touchy
        BY <1>1, <1>3, <1>5, <2>8, UpGoto DEF DropAlias
      <3>2. build.pg /\ build' = build /\ golden' \in {"none", golden}
        BY <1>0, <2>8 DEF DropAlias, BuildInv, At
      <3>3. BuildInv' /\ DataInv'
        BY <1>0, <1>6, <3>1, <3>2, Lone DEF BuildInv
      <3>4. ImageOK'
        BY <1>0, <3>2 DEF ImageOK
      <3>5. faults' \in 0..MaxFaults
        BY <1>0, <2>8, DaemonAssumption DEF DropAlias, BoundsOK
      <3>6. QED
        BY <1>0, <1>4, <3>1, <3>3, <3>4, <3>5 DEF BoundsOK
    <2>9. QED
      BY <2>1, <2>2, <2>3, <2>4, <2>5, <2>6, <2>7, <2>8
  <1>10. QED
    BY <1>7, <1>9, NextParts DEF Data

\* The container is made: its place, the container, its disk, the cluster in it.
LEMMA MakesGood ==
  ASSUME Good, NEW r \in All,
         EnsureLayout(r) \/ Launch(r) \/ AddDiskDevice(r) \/ ClusterScript(r) \/ RoleScript(r)
  PROVE  Good'
  <1>0. /\ TypeOK /\ BuildInv /\ AbsentInv /\ DataInv
        /\ WorldOK /\ ImageOK /\ JournalOK /\ BoundsOK /\ DaemonOK
    BY Parts, TypeParts DEF Data, Places
  <1>1. req[r].pc \in Ups1
    BY DEF EnsureLayout, Launch, AddDiskDevice, ClusterScript, RoleScript, At, Ups1, Building, Provisioning
  <1>2. UNCHANGED <<mounted, initial, image, journal, daemon, bounds, missed>>
    BY DEF EnsureLayout, Launch, AddDiskDevice, ClusterScript, RoleScript
  <1>3. ImageOK' /\ JournalOK' /\ DaemonOK' /\ BoundsOK'
    BY <1>0, <1>2, WorldSame
  <1>4. UNCHANGED <<mounted, golden, missed, daemon>> /\ golden' # "bare"
    BY <1>0, <1>2 DEF image, bounds, BuildInv
  <1>5. \A pc \in {"launch", "disk", "cluster", "role", "begin"} : pc \in Ups1 \cup {"begin"}
    BY DEF Ups1, Provisioning
  <1>6. /\ cont \in ContType /\ slot \in {"none", "empty", "cluster", "db"}
        /\ mounted \in BOOLEAN /\ initial' \in BOOLEAN
    BY <1>0, <1>2 DEF WorldOK
  <1>7. ASSUME NEW pc \in {"launch", "disk", "cluster", "role", "begin"}, Goto(r, pc),
               cont' \in ContType, cont'.state = "absent" => cont' = NoContainer,
               slot' \in {"none", "empty", "cluster", "db"}, mounted => slot' # "none",
               ~missed => DataUnderContainer'
        PROVE  Good'
    <2>1. Places' /\ req'[r].pc = pc /\ \A q \in All \ {r} : req'[q].pc \notin Touchy
      BY <1>1, <1>4, <1>5, <1>7, UpGoto
    <2>2. BuildInv' /\ DataInv'
      BY <1>4, <1>7, <2>1, Lone
    <2>3. AbsentInv' /\ WorldOK'
      BY <1>4, <1>6, <1>7 DEF AbsentInv, WorldOK
    <2>4. QED
      BY <1>3, <2>1, <2>2, <2>3, NextParts DEF Data
  <1>8. ~missed => DataUnderContainer
    BY <1>0 DEF DataInv
  <1>9. req[r].pc \in {"launch", "disk", "cluster", "role"} /\ mounted => slot # "none"
    BY <1>0 DEF DataInv
  <1>10. CASE EnsureLayout(r)
    <2>1. Goto(r, "launch") /\ cont' = cont
      BY <1>10 DEF EnsureLayout
    <2>2. slot' \in {"none", "empty", "cluster", "db"} /\ (mounted => slot' # "none")
      BY <1>6, <1>10 DEF EnsureLayout
    <2>3. ~missed => DataUnderContainer'
      BY <1>8, <1>10 DEF EnsureLayout, DataUnderContainer
    <2>4. QED
      BY <1>0, <1>6, <1>7, <2>1, <2>2, <2>3 DEF AbsentInv
  <1>11. CASE Launch(r)
    <2>1. Goto(r, "disk") /\ slot' = slot
      BY <1>11 DEF Launch
    <2>2. cont' \in ContType /\ cont'.state # "absent" /\ (cont'.cluster = cont.cluster \/ cont'.cluster = "none")
      BY <1>6, <1>11 DEF Launch, ContType, NoContainer
    <2>3. ~missed => DataUnderContainer'
      BY <1>8, <2>1, <2>2 DEF DataUnderContainer
    <2>4. mounted => slot' # "none"
      BY <1>9, <1>11, <2>1 DEF Launch, At
    <2>5. QED
      BY <1>6, <1>7, <2>1, <2>2, <2>3, <2>4
  <1>12. CASE AddDiskDevice(r)
    <2>1. Goto(r, "cluster") /\ slot' = slot
      BY <1>12 DEF AddDiskDevice
    <2>2. cont' \in ContType /\ cont'.state # "absent" /\ cont'.cluster = cont.cluster
      BY <1>6, <1>12 DEF AddDiskDevice, ContType
    <2>3. ~missed => DataUnderContainer'
      BY <1>8, <2>1, <2>2 DEF DataUnderContainer
    <2>4. mounted => slot' # "none"
      BY <1>9, <1>12, <2>1 DEF AddDiskDevice, At
    <2>5. QED
      BY <1>6, <1>7, <2>1, <2>2, <2>3, <2>4
  <1>13. CASE ClusterScript(r)
    <2>1. Goto(r, "role")
      BY <1>13 DEF ClusterScript
    <2>2. /\ cont' \in ContType /\ cont'.state # "absent"
          /\ cont'.cluster = IF cont.disk THEN "slot" ELSE "rootfs"
      BY <1>6, <1>13 DEF ClusterScript, ContType
    <2>3. mounted /\ slot # "none"
      BY <1>9, <1>13 DEF ClusterScript, At, Works
    <2>4. slot' = IF cont.disk /\ slot = "empty" THEN "cluster" ELSE slot
      BY <1>13 DEF ClusterScript
    <2>5. DataUnderContainer'
      BY <1>6, <2>2, <2>3, <2>4 DEF DataUnderContainer
    <2>6. QED
      BY <1>6, <1>7, <2>1, <2>2, <2>3, <2>4, <2>5
  <1>14. CASE RoleScript(r)
    <2>1. Goto(r, "begin") /\ cont' = cont /\ slot' = IF slot = "cluster" THEN "db" ELSE slot
      BY <1>14 DEF RoleScript
    <2>2. ~missed => DataUnderContainer'
      BY <1>8, <2>1 DEF DataUnderContainer
    <2>3. mounted => slot # "none"
      BY <1>9, <1>14 DEF RoleScript, At
    <2>4. QED
      BY <1>0, <1>6, <1>7, <2>1, <2>2, <2>3 DEF AbsentInv
  <1>15. QED
    BY <1>10, <1>11, <1>12, <1>13, <1>14

-----------------------------------------------------------------------------
(* The steps that leave the data alone: a request ends, or goes on to where    *)
(* it does not touch them either.                                              *)

LEMMA Calm ==
  ASSUME Good, NEW r \in All, req[r].pc \notin {"idle", "lock"},
         \/ Ends(r)
         \/ \E pc \in Positions(req[r].op) \ (Touchy \cup {"idle", "lock"}) : Goto(r, pc),
         UNCHANGED <<mounted, slot, image, daemon, cancels, missed>>,
         cont' \in ContType, cont'.cluster = cont.cluster, cont'.state = "absent" => cont' = cont,
         initial' \in BOOLEAN, JournalOK', faults' \in 0..MaxFaults, unresolved' \in 0..MaxUnresolved
  PROVE  Good'
  <1>0. /\ TypeOK /\ Places /\ Data /\ AbsentInv
        /\ WorldOK /\ ImageOK /\ JournalOK /\ BoundsOK /\ DaemonOK
    BY Parts, TypeParts DEF Data, Places
  <1>1. UNCHANGED <<golden, build>>
    BY DEF image
  <1>2. Places' /\ BuildInv' /\ DataInv'
    <2>1. CASE Ends(r)
      BY <1>0, <1>1, <2>1, EndsPlaces, EndsFrame
    <2>2. ASSUME NEW pc \in Positions(req[r].op) \ (Touchy \cup {"idle", "lock"}), Goto(r, pc)
          PROVE  Places' /\ BuildInv' /\ DataInv'
      <3>1. pc \in Pcs
        BY <2>2 DEF Positions, Pcs, Simple, Tasking
      <3>2. QED
        BY <1>0, <1>1, <2>2, <3>1, GotoPlaces, GotoFrame
    <2>3. QED
      BY <2>1, <2>2
  <1>3. AbsentInv'
    BY <1>0 DEF AbsentInv
  <1>4. WorldOK' /\ ImageOK' /\ BoundsOK' /\ DaemonOK'
    BY <1>0, <1>1 DEF WorldOK, ImageOK, BoundsOK, DaemonOK
  <1>5. QED
    BY <1>2, <1>3, <1>4, NextParts DEF Data

\* What resolving records leaves of the container, as Calm asks for it.
LEMMA ResolveCalm ==
  ASSUME TypeOK, AbsentInv, NEW kinds, NEW works \in BOOLEAN, NEW nil \in BOOLEAN, NEW fault \in BOOLEAN,
         Resolve(kinds, works, nil, fault)
  PROVE  /\ cont' \in ContType /\ cont'.cluster = cont.cluster
         /\ cont'.state = "absent" => cont' = cont
         /\ records' \subseteq records /\ unresolved' \in 0..MaxUnresolved
  <1>1. /\ cont' \in ContType /\ (cont'.state = "absent") = (cont.state = "absent")
        /\ cont'.disk = cont.disk /\ cont'.proxy = cont.proxy /\ cont'.cluster = cont.cluster
        /\ records' \in {records, records \ kinds}
        /\ unresolved' \in 0..MaxUnresolved
    BY ResolveFacts
  <1>2. cont \in ContType
    BY TypeParts DEF WorldOK
  <1>3. QED
    BY <1>1, <1>2 DEF ContType

LEMMA TasksGood ==
  ASSUME Good, NEW r \in All, Tasks(r)
  PROVE  Good'
  <1>0. /\ TypeOK /\ PlaceInv /\ AbsentInv
        /\ WorldOK /\ ImageOK /\ JournalOK /\ BoundsOK
    BY Parts, TypeParts DEF Data, Places
  <1>1. /\ cont \in ContType /\ initial \in BOOLEAN /\ faults \in 0..MaxFaults
        /\ unresolved \in 0..MaxUnresolved /\ wasRunning \in BOOLEAN
        /\ records \subseteq {"snapshot", "restore"}
    BY <1>0 DEF WorldOK, BoundsOK, JournalOK
  <1>2. req[r].pc \in {"recover", "begin", "task", "stopped"}
    BY DEF Tasks, Recover, Begin, TaskDone, RestoreStops, RestoreDone, TaskFails, At
  <1>3. req[r].pc \notin {"idle", "lock"}
    BY <1>2
  <1>4. req[r].op \in {"up", "snapshot", "restore"}
    BY <1>0, <1>2, PlaceOps
  <1>5. {"begin", "task"} \subseteq Positions(req[r].op)
    BY <1>4 DEF Positions
  <1>6. req[r].op # "up" => "stopped" \in Positions(req[r].op)
    BY <1>4 DEF Positions
  <1>7. req[r].op = "up" => "forward" \in Positions(req[r].op)
    BY DEF Positions
  <1>8. Kind(r) \in {"snapshot", "restore"} /\ Works(r) \in BOOLEAN
    BY DEF Kind, Works
  <1>9. CASE Recover(r)
    <2>1. UNCHANGED <<mounted, slot, initial, image, wasRunning, daemon, cancels, missed>>
      BY <1>9 DEF Recover
    <2>2. /\ Ends(r) \/ Goto(r, "begin")
          /\ cont' \in ContType /\ cont'.cluster = cont.cluster
          /\ cont'.state = "absent" => cont' = cont
          /\ records' \subseteq records /\ unresolved' \in 0..MaxUnresolved /\ faults' \in 0..MaxFaults
      <3>1. CASE mounted /\ records # {}
        <4>1. PICK nil \in BOOLEAN, fault \in BOOLEAN :
                /\ Resolve(records, Works(r), nil, fault) /\ Faulty(fault)
                /\ Ends(r) \/ Goto(r, "begin")
          BY <1>9, <3>1 DEF Recover
        <4>2. QED
          BY <1>0, <1>8, <4>1, ResolveCalm, FaultyFacts
      <3>2. CASE ~(mounted /\ records # {})
        BY <1>1, <1>9, <3>2 DEF Recover
      <3>3. QED
        BY <3>1, <3>2
    <2>3. Ends(r) \/ \E pc \in Positions(req[r].op) \ (Touchy \cup {"idle", "lock"}) : Goto(r, pc)
      BY <1>5, <2>2 DEF Touchy
    <2>4. JournalOK' /\ initial' \in BOOLEAN
      BY <1>1, <2>1, <2>2 DEF JournalOK
    <2>5. QED
      BY <1>3, <2>1, <2>2, <2>3, <2>4, Calm
  <1>10. CASE Begin(r)
    <2>1. UNCHANGED <<mounted, cont, slot, initial, image, daemon, faults, unresolved, cancels, missed>>
      BY <1>10 DEF Begin, world, bounds
    <2>2. Ends(r) \/ \E pc \in Positions(req[r].op) \ (Touchy \cup {"idle", "lock"}) : Goto(r, pc)
      BY <1>5, <1>10 DEF Begin, Touchy
    <2>3. JournalOK'
      BY <1>1, <1>8, <1>10 DEF Begin, journal, JournalOK
    <2>4. QED
      BY <1>1, <1>3, <2>1, <2>2, <2>3, Calm
  <1>11. CASE TaskDone(r)
    <2>1. UNCHANGED <<mounted, cont, slot, image, daemon, faults, unresolved, cancels, missed>>
      BY <1>11 DEF TaskDone, bounds
    <2>2. Ends(r) \/ \E pc \in Positions(req[r].op) \ (Touchy \cup {"idle", "lock"}) : Goto(r, pc)
      BY <1>7, <1>11 DEF TaskDone, Touchy
    <2>3. JournalOK' /\ initial' \in BOOLEAN
      BY <1>1, <1>11 DEF TaskDone, JournalOK
    <2>4. QED
      BY <1>1, <1>3, <2>1, <2>2, <2>3, Calm
  <1>12. CASE RestoreStops(r)
    <2>1. UNCHANGED <<mounted, slot, initial, image, records, wasRunning, daemon, faults, unresolved, cancels, missed>>
      BY <1>12 DEF RestoreStops, bounds, journal
    <2>2. req[r].op # "up"
      BY <1>12 DEF RestoreStops, Kind
    <2>3. \E pc \in Positions(req[r].op) \ (Touchy \cup {"idle", "lock"}) : Goto(r, pc)
      BY <1>6, <1>12, <2>2 DEF RestoreStops, Touchy
    <2>4. cont' \in ContType /\ cont'.cluster = cont.cluster /\ cont'.state # "absent"
      BY <1>1, <1>12 DEF RestoreStops, ContType
    <2>5. QED
      BY <1>1, <1>3, <2>1, <2>3, <2>4, Calm DEF JournalOK
  <1>13. CASE RestoreDone(r)
    <2>1. UNCHANGED <<mounted, slot, initial, image, wasRunning, daemon, faults, unresolved, cancels, missed>>
      BY <1>13 DEF RestoreDone, bounds
    <2>2. Ends(r) /\ records' \subseteq records
      BY <1>13 DEF RestoreDone
    <2>3. cont' \in ContType /\ cont'.cluster = cont.cluster /\ cont'.state # "absent"
      BY <1>1, <1>13 DEF RestoreDone, ContType
    <2>4. JournalOK'
      BY <1>1, <2>1, <2>2 DEF JournalOK
    <2>5. QED
      BY <1>1, <1>3, <2>1, <2>2, <2>3, <2>4, Calm
  <1>14. CASE TaskFails(r)
    <2>1. UNCHANGED <<mounted, slot, image, wasRunning, daemon, cancels, missed>> /\ Ends(r)
      BY <1>14 DEF TaskFails
    <2>2. PICK nil \in BOOLEAN, fault \in BOOLEAN :
            Resolve({Kind(r)}, Works(r), nil, fault) /\ Faulty(fault \/ ~Lacks(r))
      BY <1>14 DEF TaskFails
    <2>3. (fault \/ ~Lacks(r)) \in BOOLEAN
      OBVIOUS
    <2>4. /\ cont' \in ContType /\ cont'.cluster = cont.cluster
          /\ cont'.state = "absent" => cont' = cont
          /\ records' \subseteq records /\ unresolved' \in 0..MaxUnresolved
      BY <1>0, <1>8, <2>2, ResolveCalm
    <2>5. faults' \in 0..MaxFaults
      BY <1>0, <2>2, <2>3, FaultyFacts
    <2>6. initial' \in BOOLEAN
      BY <1>1, <1>14 DEF TaskFails
    <2>7. JournalOK'
      BY <1>1, <2>1, <2>4 DEF JournalOK
    <2>8. QED
      BY <1>3, <2>1, <2>4, <2>5, <2>6, <2>7, Calm
  <1>15. QED
    BY <1>9, <1>10, <1>11, <1>12, <1>13, <1>14 DEF Tasks

LEMMA HandlesGood ==
  ASSUME Good, NEW r \in All, Handles(r)
  PROVE  Good'
  <1>0. /\ TypeOK /\ Places /\ PlaceInv /\ BuildInv /\ AbsentInv /\ DataInv
        /\ WorldOK /\ ImageOK /\ JournalOK /\ BoundsOK /\ DaemonOK
    BY Parts, TypeParts DEF Data, Places
  <1>1. /\ cont \in ContType /\ initial \in BOOLEAN /\ mounted \in BOOLEAN
        /\ slot \in {"none", "empty", "cluster", "db"}
        /\ faults \in 0..MaxFaults /\ unresolved \in 0..MaxUnresolved
    BY <1>0 DEF WorldOK, BoundsOK
  <1>2. req[r].pc \in Simple
    BY DEF Handles, Delete, DeleteFails, Wipe, Start, Stop, Forward, At, Simple
  <1>3. req[r].pc \notin {"idle", "lock"}
    BY <1>2 DEF Simple
  <1>4. r \in Reqs
    BY <1>0, <1>2, PlaceOps
  <1>5. CASE Delete(r)
    <2>1. UNCHANGED <<mounted, slot, initial, golden, build, daemon>> /\ Goto(r, "wipe")
      BY <1>5 DEF Delete, image
    <2>2. req[r].op = "down"
      BY <1>0, <1>5, PlaceOps DEF Delete, At
    <2>3. "wipe" \in Positions(req[r].op) /\ "wipe" \in Pcs
      BY <2>2 DEF Positions, Pcs, Simple
    <2>4. Places'
      BY <1>0, <1>3, <2>1, <2>3, GotoPlaces
    <2>5. Only(r) /\ req'[r].pc = "wipe"
      BY <1>0, <2>1, <2>3, GotoFacts
    <2>6. \A q \in All \ {r} : req'[q].pc \notin Touchy
      BY <1>0, <1>3, <1>4, <2>5, Mine
    <2>7. cont' = NoContainer \/ (cont' = cont /\ ~Exists(r))
      BY <1>5 DEF Delete
    <2>8. missed' = (missed \/ (mounted /\ cont'.state # "absent"))
      BY <1>5 DEF Delete
    <2>9. ~missed' /\ mounted => cont'.cluster # "slot"
      BY <1>0, <2>7, <2>8, NoContainerType DEF AbsentInv
    <2>10. ~missed' => DataUnderContainer'
      BY <1>0, <2>1, <2>7, <2>8, NoContainerType DEF DataInv, DataUnderContainer
    <2>11. BuildInv' /\ DataInv'
      BY <1>0, <2>1, <2>5, <2>6, <2>9, <2>10, Lone DEF BuildInv
    <2>12. AbsentInv' /\ WorldOK'
      BY <1>0, <1>1, <2>1, <2>7, NoContainerType DEF AbsentInv, WorldOK
    <2>13. ImageOK' /\ JournalOK' /\ BoundsOK'
      BY <1>0, <1>5, WorldSame DEF Delete
    <2>14. DaemonOK'
      BY <1>0, <2>1, <2>8 DEF DaemonOK
    <2>15. QED
      BY <2>4, <2>11, <2>12, <2>13, <2>14, NextParts DEF Data
  <1>6. CASE Wipe(r)
    <2>1. UNCHANGED <<mounted, cont, golden, build, daemon, cancels, missed>> /\ Ends(r)
      BY <1>6 DEF Wipe, image, bounds
    <2>2. Places' /\ req'[r].pc = "idle" /\ \A q \in All : req'[q].pc \notin Touchy
      BY <1>3, <1>4, <2>1, MineEnds
    <2>3. ~missed' => DataUnderContainer'
      BY <1>0, <1>6, <2>1 DEF Wipe, DataInv, DataUnderContainer, At
    <2>4. BuildInv' /\ DataInv'
      BY <1>0, <2>1, <2>2, <2>3, Lone DEF BuildInv
    <2>5. WorldOK'
      BY <1>1, <1>6, <2>1 DEF Wipe, WorldOK
    <2>6. AbsentInv' /\ ImageOK' /\ JournalOK' /\ BoundsOK' /\ DaemonOK'
      BY <1>0, <1>6, WorldSame DEF Wipe, AbsentInv
    <2>7. QED
      BY <2>2, <2>4, <2>5, <2>6, NextParts DEF Data
  <1>7. CASE DeleteFails(r)
    <2>1. UNCHANGED <<mounted, cont, slot, initial, image, daemon, unresolved, cancels, missed>> /\ Ends(r)
      BY <1>7 DEF DeleteFails, AfterFailedDelete, world
    <2>2. faults' \in 0..MaxFaults
      BY <1>1, <1>7, DaemonAssumption DEF DeleteFails
    <2>3. JournalOK'
      BY <1>0, <1>7, WorldSame DEF DeleteFails
    <2>4. QED
      BY <1>1, <1>3, <2>1, <2>2, <2>3, Calm
  <1>8. CASE Start(r) \/ Stop(r)
    <2>1. UNCHANGED <<mounted, slot, initial, image, daemon, faults, unresolved, cancels, missed>>
      BY <1>8 DEF Start, Stop, bounds
    <2>2. req[r].pc = "start" => req[r].op = "start"
      BY <1>0, PlaceOps
    <2>3. Ends(r) \/ \E pc \in Positions(req[r].op) \ (Touchy \cup {"idle", "lock"}) : Goto(r, pc)
      BY <1>8, <2>2 DEF Start, Stop, At, Positions, Touchy
    <2>4. cont' \in ContType /\ cont'.cluster = cont.cluster /\ cont'.state # "absent"
      BY <1>1, <1>8 DEF Start, Stop, ContType
    <2>5. JournalOK'
      BY <1>0, <1>8, WorldSame DEF Start, Stop
    <2>6. QED
      BY <1>1, <1>3, <2>1, <2>3, <2>4, <2>5, Calm
  <1>9. CASE Forward(r)
    <2>1. UNCHANGED <<mounted, slot, initial, image, daemon, faults, unresolved, cancels, missed>> /\ Ends(r)
      BY <1>9 DEF Forward, bounds
    <2>2. cont' \in ContType /\ cont'.cluster = cont.cluster /\ (cont'.state = "absent" => cont' = cont)
      BY <1>1, <1>9 DEF Forward, ContType
    <2>3. JournalOK'
      BY <1>0, <1>9, WorldSame DEF Forward
    <2>4. QED
      BY <1>1, <1>3, <2>1, <2>2, <2>3, Calm
  <1>10. QED
    BY <1>5, <1>6, <1>7, <1>8, <1>9 DEF Handles

LEMMA FailsGood ==
  ASSUME Good, NEW r \in All, CommandFails(r)
  PROVE  Good'
  <1>0. TypeOK /\ PlaceInv /\ WorldOK /\ BoundsOK /\ JournalOK
    BY Parts, TypeParts DEF Data, Places
  <1>1. UNCHANGED <<mounted, cont, slot, initial, image, daemon, unresolved, cancels, missed>>
    BY DEF CommandFails, world
  <1>2. req[r].pc \notin {"idle", "lock"}
    BY DEF CommandFails, Building
  <1>3. Ends(r) \/ \E pc \in Positions(req[r].op) \ (Touchy \cup {"idle", "lock"}) : Goto(r, pc)
    <2>1. CASE req[r].pc \in Building
      <3>1. req[r].op = "up"
        BY <1>0, <2>1, PlaceOps DEF Ups1
      <3>2. "gclean" \in Positions(req[r].op) \ (Touchy \cup {"idle", "lock"})
        BY <3>1 DEF Positions, Provisioning, Touchy
      <3>3. QED
        BY <2>1, <3>2 DEF CommandFails
    <2>2. CASE req[r].pc \notin Building
      BY <2>2 DEF CommandFails
    <2>3. QED
      BY <2>1, <2>2
  <1>4. faults' \in 0..MaxFaults /\ unresolved \in 0..MaxUnresolved
    BY <1>0, DaemonAssumption DEF CommandFails, BoundsOK
  <1>5. JournalOK'
    BY <1>0, WorldSame DEF CommandFails
  <1>6. QED
    BY <1>0, <1>1, <1>2, <1>3, <1>4, <1>5, Calm DEF WorldOK

\* A question that fails sends Up on over a container, and Down on to the data:
\* the one step after which the data may go under a container.
LEMMA UnansweredGood ==
  ASSUME Good, NEW r \in All, Unanswered(r)
  PROVE  Good'
  <1>0. /\ TypeOK /\ Places /\ PlaceInv /\ BuildInv /\ AbsentInv /\ DataInv
        /\ WorldOK /\ ImageOK /\ JournalOK /\ BoundsOK /\ DaemonOK
    BY Parts, TypeParts DEF Data, Places
  <1>1. UNCHANGED <<mounted, cont, slot, initial, golden, build, image, journal, daemon, unresolved, cancels>>
    BY DEF Unanswered, world, image
  <1>2. faults' \in 0..MaxFaults
    BY <1>0, DaemonAssumption DEF Unanswered, BoundsOK
  <1>3. JournalOK'
    BY <1>0, <1>1, WorldSame
  <1>4. CASE At(r, "check")
    <2>1. UNCHANGED missed /\ \E pc \in {"layout", "gdelete"} : Goto(r, pc)
      BY <1>4 DEF Unanswered, At
    <2>2. req[r].pc \notin {"idle", "lock"} /\ req[r].op = "up"
      BY <1>0, <1>4, PlaceOps DEF At, Ups1, Provisioning
    <2>3. {"layout", "gdelete"} \subseteq Positions(req[r].op) \ (Touchy \cup {"idle", "lock"})
      BY <2>2 DEF Positions, Touchy, Building, Provisioning
    <2>4. /\ cont' \in ContType /\ cont'.cluster = cont.cluster
          /\ initial' \in BOOLEAN /\ unresolved' \in 0..MaxUnresolved
      BY <1>0, <1>1 DEF WorldOK, BoundsOK
    <2>5. QED
      BY <1>1, <1>2, <1>3, <2>1, <2>2, <2>3, <2>4, Calm
  <1>5. CASE At(r, "delete")
    <2>1. missed' = TRUE /\ Goto(r, "wipe")
      BY <1>5 DEF Unanswered, At
    <2>2. req[r].pc \notin {"idle", "lock"} /\ req[r].op = "down" /\ r \in Reqs
      BY <1>0, <1>5, PlaceOps DEF At, Simple
    <2>3. "wipe" \in Positions(req[r].op) /\ "wipe" \in Pcs
      BY <2>2 DEF Positions, Pcs, Simple
    <2>4. Places'
      BY <1>0, <1>1, <2>1, <2>2, <2>3, GotoPlaces
    <2>5. Only(r) /\ req'[r].pc = "wipe"
      BY <1>0, <2>1, <2>3, GotoFacts
    <2>6. \A q \in All \ {r} : req'[q].pc \notin Touchy
      BY <1>0, <2>2, <2>5, Mine
    <2>7. BuildInv' /\ DataInv'
      BY <1>0, <1>1, <2>1, <2>5, <2>6, Lone DEF BuildInv
    <2>8. AbsentInv' /\ WorldOK' /\ ImageOK' /\ DaemonOK'
      BY <1>0, <1>1, <2>1 DEF AbsentInv, WorldOK, ImageOK, DaemonOK
    <2>9. BoundsOK'
      BY <1>0, <1>1, <1>2 DEF BoundsOK
    <2>10. QED
      BY <1>3, <2>4, <2>7, <2>8, <2>9, NextParts DEF Data
  <1>6. QED
    BY <1>4, <1>5 DEF Unanswered

-----------------------------------------------------------------------------
(* Clients, the daemon and the machine. *)

\* Nobody is where the data matters.
LEMMA Nobody ==
  ASSUME \A q \in All : req'[q].pc \notin Touchy,
         golden' # "bare", ~missed' => DataUnderContainer'
  PROVE  BuildInv' /\ DataInv'
  BY DEF BuildInv, DataInv, Touchy

LEMMA EnterGood ==
  ASSUME Good, NEW r \in All, Enter(r)
  PROVE  Good'
  <1>0. /\ TypeOK /\ Held /\ PlaceInv /\ ServedInv /\ Data /\ AbsentInv
        /\ WorldOK /\ ImageOK /\ JournalOK /\ BoundsOK /\ DaemonOK
    BY Parts, TypeParts DEF Data, Places
  <1>1. /\ UNCHANGED <<world, image, journal, daemon, bounds, missed>>
        /\ req[r].pc = "lock" /\ lock = None /\ lock' = r
        /\ req' = [req EXCEPT ![r].pc = First[req[r].op]]
    BY DEF Enter, At, MayEnter
  <1>2. r \in Reqs /\ req[r].op \in AllOps
    BY <1>0, <1>1, PlaceOps
  <1>3. /\ First[req[r].op] \in Positions(req[r].op)
        /\ First[req[r].op] \in {"check", "delete", "start", "stop", "forward", "recover"}
    BY <1>2 DEF First, Positions, AllOps, Provisioning
  <1>4. First[req[r].op] \in Pcs
    BY <1>3 DEF Pcs, Provisioning, Simple, Tasking
  <1>5. /\ Only(r) /\ req'[r].pc = First[req[r].op]
        /\ req'[r].op = req[r].op /\ req'[r].live = req[r].live
    BY <1>0, <1>1, <1>4, PcFacts
  <1>6. \A q \in Reqs \ {r} : req'[q].pc \in {"idle", "lock"}
    BY <1>0, <1>1, <1>2, <1>5, DaemonAssumption DEF Held, Only, All
  <1>7. Held'
    BY <1>1, <1>2, <1>5, <1>6 DEF Held, Only
  <1>8. PlaceInv'
    BY <1>0, <1>2, <1>3, <1>5, DaemonAssumption DEF PlaceInv, Only
  <1>9. ServedInv'
    BY <1>0, <1>1, <1>2, <1>5 DEF ServedInv, Only, All, bounds
  <1>10. UNCHANGED <<mounted, cont, slot, golden, build, missed>>
    BY <1>1 DEF world, image, bounds
  <1>11. AbsentInv' /\ BuildInv' /\ DataInv'
    BY <1>0, <1>3, <1>5, <1>10, Frame, AbsentSame DEF Only, Touchy
  <1>12. QED
    BY <1>0, <1>1, <1>7, <1>8, <1>9, <1>11, WorldSame, NextParts DEF Data, Places

LEMMA CallGood ==
  ASSUME Good, NEW r \in All, NEW op \in Ops, Call(r, op)
  PROVE  Good'
  <1>0. /\ TypeOK /\ Held /\ PlaceInv /\ ServedInv /\ Data /\ AbsentInv
        /\ WorldOK /\ ImageOK /\ JournalOK /\ BoundsOK /\ DaemonOK
    BY Parts, TypeParts DEF Data, Places
  <1> DEFINE v == [op |-> op, live |-> TRUE, pc |-> IF r \in OneShots THEN "recover" ELSE "lock"]
  <1>1. /\ UNCHANGED <<world, image, journal, daemon, lock, bounds, missed>>
        /\ req' = [req EXCEPT ![r] = v]
        /\ r \in OneShots => op \in OneShotOps
        /\ r \notin OneShots => daemon = "serving"
    BY DEF Call
  <1>2. v \in ReqType
    BY DEF ReqType, Pcs, Tasking
  <1>3. v.op = op /\ v.live = TRUE /\ v.pc = IF r \in OneShots THEN "recover" ELSE "lock"
    OBVIOUS
  <1> HIDE DEF v
  <1>4. Only(r) /\ req'[r] = v
    BY <1>0, <1>1, <1>2, SetFacts
  <1>5. Held'
    BY <1>0, <1>1, <1>3, <1>4, DaemonAssumption DEF Held, Only, All
  <1>6. op \in AllOps /\ (r \in OneShots => op \in {"snapshot", "restore"})
    BY <1>1, DaemonAssumption
  <1>7. v.pc \in Positions(v.op)
    BY <1>3, <1>6 DEF Positions, AllOps
  <1>8. PlaceInv'
    BY <1>0, <1>3, <1>4, <1>6, <1>7 DEF PlaceInv, Only
  <1>9. ServedInv'
    BY <1>0, <1>1, <1>3, <1>4, DaemonAssumption DEF ServedInv, Only, All, bounds
  <1>10. UNCHANGED <<mounted, cont, slot, golden, build, missed>>
    BY <1>1 DEF world, image, bounds
  <1>11. AbsentInv' /\ BuildInv' /\ DataInv'
    BY <1>0, <1>3, <1>4, <1>10, Frame, AbsentSame DEF Only, Touchy
  <1>12. QED
    BY <1>0, <1>1, <1>5, <1>8, <1>9, <1>11, WorldSame, NextParts DEF Data, Places

LEMMA CancelGood ==
  ASSUME Good, NEW r \in All, Cancel(r)
  PROVE  Good'
  <1>0. /\ TypeOK /\ Held /\ PlaceInv /\ ServedInv /\ Data /\ AbsentInv
        /\ WorldOK /\ ImageOK /\ JournalOK /\ BoundsOK /\ DaemonOK
    BY Parts, TypeParts DEF Data, Places
  <1>1. UNCHANGED <<world, image, journal, daemon, lock, faults, missed, unresolved>>
    BY DEF Cancel
  <1>2. req' = [req EXCEPT ![r].live = FALSE] /\ cancels < MaxCancels /\ cancels' = cancels + 1
    BY DEF Cancel
  <1>3. cancels' \in 0..MaxCancels
    BY <1>0, <1>2, DaemonAssumption DEF BoundsOK
  <1>4. /\ req' \in [All -> ReqType]
        /\ \A q \in All : req'[q].pc = req[q].pc /\ req'[q].op = req[q].op
    BY <1>0, <1>2, ReqTypes DEF ReqType
  <1>5. Held' /\ PlaceInv' /\ ServedInv'
    BY <1>0, <1>1, <1>3, <1>4 DEF Held, PlaceInv, ServedInv, All
  <1>6. UNCHANGED <<mounted, cont, slot, golden, build>>
    BY <1>1 DEF world, image
  <1>7. AbsentInv' /\ BuildInv' /\ DataInv'
    BY <1>0, <1>1, <1>4, <1>6, Frame, AbsentSame
  <1>8. BoundsOK'
    BY <1>0, <1>1, <1>3 DEF BoundsOK
  <1>9. QED
    BY <1>0, <1>1, <1>5, <1>7, <1>8, WorldSame, NextParts DEF Data, Places

LEMMA MachineGood ==
  ASSUME Good, Kill \/ Reboot \/ Redeploy \/ DaemonStart \/ DaemonRecovers
  PROVE  Good'
  <1>0. /\ TypeOK /\ Places /\ PlaceInv /\ Data /\ BuildInv /\ AbsentInv /\ DataInv
        /\ WorldOK /\ ImageOK /\ JournalOK /\ BoundsOK /\ DaemonOK
    BY Parts, TypeParts DEF Data, Places
  <1>1. \A q \in All : q \notin Reqs => req[q].pc \notin Touchy
    <2>1. Touchy \subseteq Ups1 \cup Simple
      BY DEF Touchy, Ups1, Simple, Building, Provisioning
    <2>2. QED
      BY <1>0, <2>1, PlaceOps
  <1>2. /\ cont \in ContType /\ faults \in 0..MaxFaults /\ unresolved \in 0..MaxUnresolved
        /\ records \subseteq {"snapshot", "restore"} /\ wasRunning \in BOOLEAN
    BY <1>0 DEF WorldOK, BoundsOK, JournalOK
  <1>3. Reqs \subseteq All
    BY DEF All
  <1>4. UNCHANGED <<slot, initial, golden, build, wasRunning, cancels, missed>>
    BY DEF Kill, Reboot, Redeploy, DaemonStart, DaemonRecovers, world, image, journal, bounds
  <1>5. CASE Kill \/ Reboot \/ Redeploy
    <2>1. PICK R : Reqs \subseteq R /\ Drops(R)
      BY <1>3, <1>5 DEF Kill, Reboot, Redeploy
    <2>2. /\ Places' /\ daemon' = "down"
          /\ \A q \in All : req'[q] = req[q] \/ req'[q].pc = "idle"
          /\ \A q \in Reqs : req'[q].pc = "idle"
      BY <1>0, <1>4, <2>1, DropsPlaces
    <2>3. \A q \in All : req'[q].pc \notin Touchy
      BY <1>1, <2>2 DEF Touchy
    <2>4. UNCHANGED <<cont, journal, unresolved>> /\ mounted' \in BOOLEAN /\ faults' \in 0..MaxFaults
      BY <1>0, <1>2, <1>5, DaemonAssumption DEF Kill, Reboot, Redeploy, world, bounds, WorldOK
    <2>5. BuildInv' /\ DataInv'
      BY <1>0, <1>4, <2>3, <2>4, Nobody DEF BuildInv, DataInv, DataUnderContainer
    <2>6. AbsentInv' /\ WorldOK' /\ ImageOK' /\ BoundsOK' /\ DaemonOK'
      BY <1>0, <1>4, <2>2, <2>4 DEF AbsentInv, WorldOK, ImageOK, BoundsOK, DaemonOK
    <2>7. JournalOK'
      BY <1>0, <2>4, WorldSame
    <2>8. QED
      BY <2>2, <2>5, <2>6, <2>7, NextParts DEF Data
  <1>6. CASE DaemonStart \/ DaemonRecovers
    <2>1. UNCHANGED <<lock, req>> /\ daemon # "serving"
      BY <1>6 DEF DaemonStart, DaemonRecovers
    <2>2. \A q \in Reqs : req[q].pc = "idle"
      BY <1>0, <2>1 DEF Places, ServedInv
    <2>3. Places'
      BY <1>0, <1>4, <2>1, <2>2 DEF Places, Held, PlaceInv, ServedInv
    <2>4. \A q \in All : req'[q].pc \notin Touchy
      BY <1>1, <2>1, <2>2 DEF Touchy
    <2>5. /\ cont' \in ContType /\ cont'.cluster = cont.cluster
          /\ cont'.state = "absent" => cont' = cont
          /\ records' \subseteq records /\ unresolved' \in 0..MaxUnresolved /\ faults' \in 0..MaxFaults
          /\ mounted' \in BOOLEAN /\ daemon' \in {"down", "recovering", "serving"}
      <3>1. CASE DaemonStart
        <4>1. UNCHANGED <<cont, records, unresolved>> /\ daemon' = "recovering"
          BY <3>1 DEF DaemonStart, journal
        <4>2. faults' \in 0..MaxFaults
          BY <1>2, <3>1, DaemonAssumption DEF DaemonStart
        <4>3. mounted' \in BOOLEAN
          <5>1. mounted \in BOOLEAN
            BY <1>0 DEF WorldOK
          <5>2. mounted' = TRUE \/ mounted' = mounted
            BY <3>1 DEF DaemonStart
          <5>3. QED
            BY <5>1, <5>2
        <4>4. QED
          BY <1>2, <4>1, <4>2, <4>3
      <3>2. CASE DaemonRecovers /\ mounted /\ records # {}
        <4>1. PICK nil \in BOOLEAN, fault \in BOOLEAN :
                /\ Resolve(records, TRUE, nil, fault) /\ Faulty(fault)
                /\ daemon' = IF nil THEN "serving" ELSE "down"
          BY <3>2 DEF DaemonRecovers
        <4>2. mounted' \in BOOLEAN
          BY <1>0, <3>2 DEF DaemonRecovers, WorldOK
        <4>3. QED
          BY <1>0, <4>1, <4>2, ResolveCalm, FaultyFacts
      <3>3. CASE DaemonRecovers /\ ~(mounted /\ records # {})
        BY <1>0, <1>2, <3>3 DEF DaemonRecovers, WorldOK
      <3>4. QED
        BY <1>6, <3>1, <3>2, <3>3
    <2>6. BuildInv' /\ DataInv'
      BY <1>0, <1>4, <2>4, <2>5, Nobody DEF BuildInv, DataInv, DataUnderContainer
    <2>7. AbsentInv' /\ WorldOK' /\ ImageOK' /\ JournalOK' /\ BoundsOK' /\ DaemonOK'
      BY <1>0, <1>2, <1>4, <2>5 DEF AbsentInv, WorldOK, ImageOK, JournalOK, BoundsOK, DaemonOK
    <2>8. QED
      BY <2>3, <2>6, <2>7, NextParts DEF Data
  <1>7. QED
    BY <1>5, <1>6

-----------------------------------------------------------------------------
(* The theorems. *)

LEMMA InitGood == Init => Good
  <1> SUFFICES ASSUME Init PROVE Good
    OBVIOUS
  <1>1. TypeOK
    BY InitTypes
  <1>2. \A r \in All : req[r] = Idle
    BY DEF Init
  <1>3. Positions(None) = {"idle"}
    BY DEF Positions, None
  <1>4. PlaceInv /\ ServedInv
    BY <1>2, <1>3, IdleType DEF PlaceInv, ServedInv, All
  <1>5. BuildInv /\ AbsentInv /\ DataInv
    BY <1>2, IdleType, NoContainerType DEF Init, BuildInv, AbsentInv, DataInv, DataUnderContainer
  <1>6. QED
    BY <1>1, <1>4, <1>5 DEF Good, IInv

LEMMA NextGood == Good /\ [Next]_vars => Good'
  <1> SUFFICES ASSUME Good, [Next]_vars PROVE Good'
    OBVIOUS
  <1>1. ASSUME NEW r \in All, Step(r) PROVE Good'
    BY <1>1, EnterGood, BuildsGood, MakesGood, UnansweredGood, TasksGood, HandlesGood, FailsGood DEF Step, Ups
  <1>2. CASE UNCHANGED vars
    <2>1. Places /\ Data /\ WorldOK /\ ImageOK /\ JournalOK /\ BoundsOK /\ DaemonOK
      BY Parts
    <2>2. UNCHANGED <<world, image, journal, bounds, missed, daemon, lock, req, mounted, cont, slot, golden, build>>
      BY <1>2 DEF vars, world, image, bounds
    <2>3. Places'
      BY <2>1, <2>2 DEF Places, Held, PlaceInv, ServedInv
    <2>4. Data'
      BY <2>1, <2>2 DEF Data, BuildInv, AbsentInv, DataInv, DataUnderContainer
    <2>5. QED
      BY <2>1, <2>2, <2>3, <2>4, WorldSame, NextParts
  <1>3. QED
    BY <1>1, <1>2, CancelGood, CallGood, MachineGood DEF Next

LEMMA AlwaysGood == Spec => []Good
  BY InitGood, NextGood, PTL DEF Spec

\* Every variable keeps its type, and only the holder of the mutex is beyond it:
\* the methods of service.go lock it first.
THEOREM DaemonTyped == Spec => []TypeOK
  BY AlwaysGood, PTL DEF Good

\* A published golden image has PostgreSQL in it (provision.go ensureGolden),
\* whatever build failed, was cancelled or was killed before.
THEOREM GoldenIsComplete == Spec => []GoldenComplete
  <1>1. Good => GoldenComplete
    BY DEF Good, IInv, BuildInv, GoldenComplete
  <1>2. QED
    BY <1>1, AlwaysGood, PTL

\* Whatever fails, is killed or runs beside the daemon, the data of a container
\* is not removed under it unless a Down could not ask about the container and
\* took it for absent (provision.go Down).
THEOREM DataKeptUnderContainer == Spec => []KeptUnderContainer
  <1>1. Good => KeptUnderContainer
    BY DEF Good, IInv, DataInv, KeptUnderContainer
  <1>2. QED
    BY <1>1, AlwaysGood, PTL

-----------------------------------------------------------------------------
(* Nobody works on the slot but the daemon.  What Up has found or made is      *)
(* there when it goes on: the container was absent, so it is its own.          *)

Alone == OneShots = {}

\* A request that is no Up, or has found nothing yet.
LEMMA UpNone ==
  ASSUME NEW q,
         \/ req'[q].pc \in {"idle", "lock", "check", "gclean", "layout", "launch", "disk", "recover",
                            "delete", "wipe", "start", "stop", "stopped"} \cup Building
         \/ req'[q].pc \in {"begin", "task", "forward"} /\ req'[q].op # "up"
  PROVE  UpAt(q)'
  BY DEF UpAt, Building

LEMMA UpWaits ==
  ASSUME UpInv, NEW q \in Reqs, Alone, UNCHANGED <<cont, slot, initial, mounted>>,
         req'[q].pc = req[q].pc, req'[q].op = req[q].op, req'[q].live => req[q].live
  PROVE  UpAt(q)'
  BY DEF UpInv, Alone, UpAt, Works

\* The request that has the mutex is the only one to look at.
LEMMA UpOne ==
  ASSUME TypeOK, NEW r \in Reqs, req[r].pc \notin {"idle", "lock"}, Only(r), UpAt(r)'
  PROVE  UpInv'
  BY Sole, UpNone DEF UpInv, Only, All

LEMMA UpEnds ==
  ASSUME TypeOK, NEW r \in Reqs, req[r].pc \notin {"idle", "lock"}, Ends(r)
  PROVE  UpInv'
  <1>1. r \in All
    BY DEF All
  <1>2. Only(r) /\ req'[r].pc = "idle"
    BY <1>1, EndsFacts, IdleType
  <1>3. QED
    BY <1>2, UpOne, UpNone

LEMMA UpGoes ==
  ASSUME TypeOK, NEW r \in Reqs, req[r].pc \notin {"idle", "lock"}, NEW pc \in Pcs, Goto(r, pc),
         req'[r].pc = pc /\ req'[r].op = req[r].op /\ req'[r].live = req[r].live => UpAt(r)'
  PROVE  UpInv'
  <1>1. r \in All
    BY DEF All
  <1>2. Only(r) /\ req'[r].pc = pc /\ req'[r].op = req[r].op /\ req'[r].live = req[r].live
    BY <1>1, GotoFacts
  <1>3. QED
    BY <1>2, UpOne

LEMMA UpInvUps ==
  ASSUME Good, UpInv, Alone, NEW r \in Reqs, Ups(r)
  PROVE  UpInv'
  <1>0. TypeOK /\ DataInv /\ UpAt(r) /\ r \in All
    BY DEF Good, IInv, UpInv, Alone, All
  <1>1. req[r].pc \in Ups1
    BY DEF Ups, UpCheck, ClearBuild, LaunchBuild, BuildScript, StopBuild, DropAlias, PublishGolden,
       CleanBuild, EnsureLayout, Launch, AddDiskDevice, ClusterScript, RoleScript, At, Ups1, Building,
       Provisioning
  <1>2. req[r].pc \notin {"idle", "lock"}
    BY <1>0, <1>1, UpPlace
  <1>3. \A pc \in Building \cup {"layout", "launch", "disk", "cluster", "role", "begin"} : pc \in Pcs
    BY DEF Pcs, Provisioning, Tasking
  <1>4. cont \in ContType /\ slot \in {"none", "empty", "cluster", "db"}
    BY <1>0, TypeParts DEF WorldOK
  <1>5. ASSUME NEW pc \in Building \cup {"layout", "launch", "disk"}, Goto(r, pc) PROVE UpInv'
    BY <1>0, <1>2, <1>3, <1>5, UpGoes, UpNone
  <1>6. CASE UpCheck(r)
    <2>1. Ends(r) \/ Goto(r, "layout") \/ Goto(r, "gdelete")
      BY <1>6 DEF UpCheck
    <2>2. "gdelete" \in Building
      BY DEF Building
    <2>3. QED
      BY <1>0, <1>2, <1>5, <2>1, <2>2, UpEnds
  <1>7. CASE \/ ClearBuild(r) \/ LaunchBuild(r) \/ BuildScript(r) \/ StopBuild(r) \/ DropAlias(r)
             \/ PublishGolden(r) \/ EnsureLayout(r) \/ Launch(r)
    <2>1. \E pc \in {"glaunch", "gscript", "gstop", "galias", "gpublish", "layout", "launch", "disk"} : Goto(r, pc)
      BY <1>7 DEF ClearBuild, LaunchBuild, BuildScript, StopBuild, DropAlias, PublishGolden, EnsureLayout,
         Launch, AfterClear
    <2>2. {"glaunch", "gscript", "gstop", "galias", "gpublish"} \subseteq Building
      BY DEF Building
    <2>3. QED
      BY <1>5, <2>1, <2>2
  <1>8. CASE CleanBuild(r)
    BY <1>0, <1>2, <1>8, UpEnds DEF CleanBuild
  <1>10. CASE AddDiskDevice(r)
    <2>1. Goto(r, "cluster") /\ cont'.disk
      BY <1>4, <1>10 DEF AddDiskDevice, ContType
    <2>2. ASSUME req'[r].pc = "cluster" PROVE UpAt(r)'
      BY <2>1, <2>2 DEF UpAt
    <2>3. QED
      BY <1>0, <1>2, <1>3, <2>1, <2>2, UpGoes
  <1>11. CASE ClusterScript(r)
    <2>1. cont.state = "RUNNING" /\ cont.disk /\ slot # "none" /\ Goto(r, "role")
      BY <1>0, <1>11 DEF ClusterScript, UpAt, At, Works, DataInv
    <2>2. /\ cont'.state = "RUNNING" /\ cont'.disk /\ cont'.cluster = "slot"
          /\ slot' \in {"cluster", "db"}
      BY <1>4, <1>11, <2>1 DEF ClusterScript, ContType
    <2>3. ASSUME req'[r].pc = "role" PROVE UpAt(r)'
      BY <2>2, <2>3 DEF UpAt
    <2>4. QED
      BY <1>0, <1>2, <1>3, <2>1, <2>3, UpGoes
  <1>12. CASE RoleScript(r)
    <2>1. /\ cont.state = "RUNNING" /\ cont.disk /\ cont.cluster = "slot" /\ slot \in {"cluster", "db"}
          /\ Goto(r, "begin")
      BY <1>0, <1>12 DEF RoleScript, UpAt, At
    <2>2. cont' = cont /\ slot' = "db"
      BY <1>12, <2>1 DEF RoleScript
    <2>3. ASSUME req'[r].pc = "begin" PROVE UpAt(r)'
      BY <2>1, <2>2, <2>3 DEF UpAt
    <2>4. QED
      BY <1>0, <1>2, <1>3, <2>1, <2>3, UpGoes
  <1>13. QED
    BY <1>6, <1>7, <1>8, <1>10, <1>11, <1>12 DEF Ups

LEMMA UpInvStep ==
  ASSUME Good, UpInv, Alone, NEW r \in Reqs, Step(r)
  PROVE  UpInv'
  <1>0. TypeOK /\ PlaceInv /\ UpAt(r) /\ r \in All
    BY DEF Good, IInv, UpInv, Alone, All
  <1>1. \A pc \in {"begin", "task", "stopped", "wipe", "forward", "gclean"} : pc \in Pcs
    BY DEF Pcs, Provisioning, Simple, Tasking
  <1>2. CASE Enter(r)
    <2>1. req[r].pc = "lock" /\ lock = None /\ req' = [req EXCEPT ![r].pc = First[req[r].op]]
      BY <1>2 DEF Enter, At, MayEnter
    <2>2. req[r].op \in AllOps
      BY <1>0, <2>1, PlaceOps
    <2>3. \/ First[req[r].op] \in {"check", "delete", "start", "stop", "recover"}
          \/ First[req[r].op] = "forward" /\ req[r].op # "up"
      BY <2>2 DEF First, AllOps
    <2>4. First[req[r].op] \in Pcs
      BY <2>3 DEF Pcs, Provisioning, Simple, Tasking
    <2>5. Only(r) /\ req'[r].pc = First[req[r].op] /\ req'[r].op = req[r].op
      BY <1>0, <2>1, <2>4, PcFacts
    <2>6. UpAt(r)'
      BY <2>3, <2>5, UpNone
    <2>7. \A q \in Reqs \ {r} : UpAt(q)'
      BY <1>0, <2>1, <2>5, UpNone, TypeParts, DaemonAssumption DEF Held, Only, All
    <2>8. QED
      BY <2>6, <2>7 DEF UpInv
  <1>3. CASE Ups(r)
    BY <1>3, UpInvUps
  <1>4. CASE Tasks(r)
    <2>1. req[r].pc \notin {"idle", "lock"}
      BY <1>4 DEF Tasks, Recover, Begin, TaskDone, RestoreStops, RestoreDone, TaskFails, At
    <2>2. CASE Ends(r)
      BY <1>0, <2>1, <2>2, UpEnds
    <2>3. CASE Recover(r) /\ Goto(r, "begin")
      <3>1. req[r].op # "up"
        BY <1>0, <2>3, PlaceOps DEF Recover, At
      <3>2. QED
        BY <1>0, <1>1, <2>1, <2>3, <3>1, UpGoes, UpNone
    <2>4. CASE Begin(r) /\ Goto(r, "task")
      <3>1. req[r].pc = "begin" /\ UNCHANGED <<cont, slot, initial>>
        BY <2>4 DEF Begin, At, world
      <3>2. ASSUME req'[r].pc = "task", req'[r].op = req[r].op PROVE UpAt(r)'
        BY <1>0, <3>1, <3>2 DEF UpAt, Building
      <3>3. QED
        BY <1>0, <1>1, <2>1, <2>4, <3>2, UpGoes
    <2>5. CASE TaskDone(r) /\ Goto(r, "forward") /\ initial' = TRUE
      <3>1. req[r].pc = "task" /\ UNCHANGED <<cont, slot>>
        BY <2>5 DEF TaskDone, At
      <3>2. ASSUME req'[r].pc = "forward", req'[r].op = req[r].op PROVE UpAt(r)'
        BY <1>0, <2>5, <3>1, <3>2 DEF UpAt, Building
      <3>3. QED
        BY <1>0, <1>1, <2>1, <2>5, <3>2, UpGoes
    <2>6. CASE RestoreStops(r)
      BY <1>0, <1>1, <2>1, <2>6, UpGoes, UpNone DEF RestoreStops
    <2>7. QED
      BY <1>4, <2>2, <2>3, <2>4, <2>5, <2>6 DEF Tasks, Recover, Begin, TaskDone, RestoreDone, TaskFails
  <1>5. CASE Handles(r)
    <2>1. req[r].pc \notin {"idle", "lock"}
      BY <1>5 DEF Handles, Delete, DeleteFails, Wipe, Start, Stop, Forward, At
    <2>2. CASE Ends(r)
      BY <1>0, <2>1, <2>2, UpEnds
    <2>3. CASE Delete(r)
      BY <1>0, <1>1, <2>1, <2>3, UpGoes, UpNone DEF Delete
    <2>4. CASE Start(r)
      <3>1. req[r].op # "up"
        BY <1>0, <2>4, PlaceOps DEF Start, At
      <3>2. QED
        BY <1>0, <1>1, <2>1, <2>4, <3>1, UpGoes, UpNone DEF Start
    <2>5. QED
      BY <1>5, <2>2, <2>3, <2>4 DEF Handles, DeleteFails, AfterFailedDelete, Wipe, Stop, Forward
  <1>6. CASE CommandFails(r)
    <2>1. req[r].pc \notin {"idle", "lock"}
      BY <1>6 DEF CommandFails, Building
    <2>2. Ends(r) \/ Goto(r, "gclean")
      BY <1>6 DEF CommandFails
    <2>3. QED
      BY <1>0, <1>1, <2>1, <2>2, UpEnds, UpGoes, UpNone
  <1>7. CASE Unanswered(r)
    <2>1. req[r].pc \in {"check", "delete"} /\ \E pc \in {"layout", "gdelete", "wipe"} : Goto(r, pc)
      BY <1>7 DEF Unanswered, At
    <2>2. {"layout", "gdelete", "wipe"} \subseteq Pcs /\ "gdelete" \in Building
      BY DEF Pcs, Building, Provisioning, Simple
    <2>3. QED
      BY <1>0, <2>1, <2>2, UpGoes, UpNone
  <1>8. QED
    BY <1>2, <1>3, <1>4, <1>5, <1>6, <1>7 DEF Step

LEMMA UpInvNext == Good /\ UpInv /\ [Next]_vars => UpInv'
  <1> SUFFICES ASSUME Good, UpInv, [Next]_vars, Alone PROVE UpInv'
    BY DEF UpInv, Alone
  <1>0. TypeOK /\ ServedInv /\ All = Reqs
    BY DEF Good, IInv, All, Alone
  <1>1. ASSUME NEW r \in All, Cancel(r) PROVE UpInv'
    <2>1. UNCHANGED <<mounted, cont, slot, initial>> /\ req' = [req EXCEPT ![r].live = FALSE]
      BY <1>1 DEF Cancel, world
    <2>2. \A q \in Reqs : /\ req'[q].pc = req[q].pc /\ req'[q].op = req[q].op
                          /\ req'[q].live => req[q].live
      BY <1>0, <2>1, ReqTypes DEF ReqType
    <2>3. QED
      BY <2>1, <2>2, UpWaits DEF UpInv
  <1>2. ASSUME NEW r \in All, NEW op \in Ops, Call(r, op) PROVE UpInv'
    <2> DEFINE v == [op |-> op, live |-> TRUE, pc |-> IF r \in OneShots THEN "recover" ELSE "lock"]
    <2>1. UNCHANGED <<mounted, cont, slot, initial>> /\ req' = [req EXCEPT ![r] = v]
      BY <1>2 DEF Call, world
    <2>2. v \in ReqType /\ v.pc \in {"lock", "recover"}
      BY DEF ReqType, Pcs, Tasking
    <2> HIDE DEF v
    <2>3. Only(r) /\ req'[r] = v
      BY <1>0, <2>1, <2>2, SetFacts
    <2>4. QED
      BY <1>0, <2>1, <2>2, <2>3, UpWaits, UpNone DEF Only, UpInv
  <1>3. CASE Kill \/ Reboot \/ Redeploy
    <2>1. \A q \in Reqs : req'[q].pc = "idle"
      BY <1>3, IdleType DEF Kill, Reboot, Redeploy, Drops, All
    <2>2. QED
      BY <2>1, UpNone DEF UpInv
  <1>4. CASE DaemonStart \/ DaemonRecovers
    <2>1. \A q \in Reqs : req'[q].pc = "idle"
      BY <1>0, <1>4 DEF DaemonStart, DaemonRecovers, ServedInv
    <2>2. QED
      BY <2>1, UpNone DEF UpInv
  <1>5. CASE UNCHANGED vars
    BY <1>5, UpWaits DEF vars, world, UpInv
  <1>6. QED
    BY <1>0, <1>1, <1>2, <1>3, <1>4, <1>5, UpInvStep DEF Next

\* When Up returns nil the machine serves (provision.go Up), as long as no
\* `pgdevd snapshot` or `pgdevd restore` works on the slot beside the daemon.
THEOREM UpIsReady ==
  ASSUME OneShots = {}
  PROVE  Spec => UpLeavesReady
  <1>1. Init => UpInv
    BY IdleType DEF Init, UpInv, UpAt, All
  <1>2. ASSUME Good, UpInv, NEW r \in Reqs, req[r].op = "up", Forward(r) PROVE Ready'
    <2>1. /\ cont \in ContType /\ mounted /\ UNCHANGED <<mounted, slot, initial>>
          /\ cont' = [cont EXCEPT !.proxy = @ \/ cont.state = "RUNNING"]
      BY <1>2, TypeParts DEF Good, WorldOK, Forward, Works
    <2>2. cont.state = "RUNNING" /\ cont.disk /\ cont.cluster = "slot" /\ slot = "db" /\ initial
      BY <1>2 DEF UpInv, UpAt, Forward, At
    <2>3. cont'.state = "RUNNING" /\ cont'.disk /\ cont'.cluster = "slot" /\ cont'.proxy
      BY <2>1, <2>2 DEF ContType
    <2>4. QED
      BY <2>1, <2>2, <2>3 DEF Ready
  <1>3. Good /\ UpInv => [\A r \in Reqs : req[r].op = "up" /\ Forward(r) => Ready']_vars
    BY <1>2
  <1>4. QED
    BY <1>1, <1>3, AlwaysGood, UpInvNext, PTL DEF Spec, UpLeavesReady

\* A record is replayed only when nobody works on it (cmd/pgdevd/main.go:129),
\* under the same condition: the mutex is the daemon's.
THEOREM OnlyInterruptedReplayed ==
  ASSUME OneShots = {}
  PROVE  Spec => ReplaysOnlyInterrupted
  <1>1. ASSUME Good, NEW r \in All, Recover(r), NEW q \in All \ {r}, req[q].pc \in {"task", "stopped"}
        PROVE  FALSE
    BY <1>1, Sole DEF Good, Recover, At, All
  <1>2. Good => [\A r \in All : Recover(r) =>
                   \A q \in All \ {r} : req[q].pc \in {"task", "stopped"} => Kind(q) \notin records]_vars
    BY <1>1
  <1>3. QED
    BY <1>2, AlwaysGood, PTL DEF ReplaysOnlyInterrupted
=============================================================================
