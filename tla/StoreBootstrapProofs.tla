------------------------ MODULE StoreBootstrapProofs ------------------------
(***************************************************************************)
(* Proofs about StoreBootstrap: for every set of sizes, any number of      *)
(* kills, failed commands, restarts and changes of the size.  All of them  *)
(* but type correctness are about one bootstrap at a time, as the systemd  *)
(* unit runs it; two at a time lose data (see the run bootstrap_two).     *)
(***************************************************************************)
EXTENDS StoreBootstrap, TLAPS

SizeType == Sizes \cup {0}
PcType == {"idle"} \cup Creating \cup Mounting \cup Growing \cup Finishing
FileType == [size : SizeType, fs : SizeType, data : BOOLEAN]
ProcType == [pc : PcType, size : SizeType, loop : Inodes \cup {None}]
Ref == Inodes \cup {None}

Steps(p) == Start(p) \/ Bootstrap(p) \/ CommandFails(p) \/ Kill(p)

-----------------------------------------------------------------------------
(* Helpers *)

LEMMA Types == TypeOK <=>
  /\ name \in [{"tmp", "image"} -> Ref]
  /\ disk \in [Inodes -> FileType]
  /\ mounted \in Ref
  /\ loopSize \in SizeType
  /\ fstab \in BOOLEAN /\ layout \in BOOLEAN /\ ordered \in BOOLEAN
  /\ topology \in BOOLEAN /\ served \in BOOLEAN
  /\ want \in Sizes
  /\ proc \in [Procs -> ProcType]
  /\ faults \in Nat /\ resizes \in Nat
  BY DEF TypeOK, Ref, FileType, SizeType, ProcType, PcType

LEMMA Literals ==
  /\ Empty \in FileType /\ Empty.size = 0 /\ Empty.fs = 0 /\ Empty.data = FALSE
  /\ Idle \in ProcType /\ Idle.pc = "idle" /\ Idle.loop = None
  /\ 0 \notin Sizes /\ Sizes \subseteq Nat
  BY BootstrapAssumption, Zenon DEF Empty, FileType, SizeType, Idle, ProcType, PcType

LEMMA SizeNat == SizeType \subseteq Nat /\ \A n \in SizeType : 0 <= n /\ n <= n
  <1>1. ASSUME NEW n \in SizeType PROVE n \in Nat
    BY BootstrapAssumption DEF SizeType
  <1>2. \A n \in Nat : 0 <= n /\ n <= n
    OBVIOUS
  <1>3. QED
    BY <1>1, <1>2, Zenon

\* One file's record replaced by another.
LEMMA DiskUpdate ==
  ASSUME disk \in [Inodes -> FileType], NEW i \in Inodes, NEW f \in FileType,
         disk' = [disk EXCEPT ![i] = f]
  PROVE  /\ disk' \in [Inodes -> FileType]
         /\ disk'[i] = f
         /\ \A j \in Inodes : j # i => disk'[j] = disk[j]
  OBVIOUS

LEMMA FileFields ==
  ASSUME disk \in [Inodes -> FileType], NEW i \in Inodes, NEW n \in SizeType
  PROVE  /\ [disk[i] EXCEPT !.size = n] \in FileType
         /\ [disk[i] EXCEPT !.size = n].size = n
         /\ [disk[i] EXCEPT !.size = n].fs = disk[i].fs
         /\ [disk[i] EXCEPT !.size = n].data = disk[i].data
         /\ [disk[i] EXCEPT !.fs = n] \in FileType
         /\ [disk[i] EXCEPT !.fs = n].fs = n
         /\ [disk[i] EXCEPT !.fs = n].size = disk[i].size
         /\ [disk[i] EXCEPT !.fs = n].data = disk[i].data
         /\ [disk[i] EXCEPT !.data = TRUE] \in FileType
         /\ [disk[i] EXCEPT !.data = TRUE].fs = disk[i].fs
         /\ [disk[i] EXCEPT !.data = TRUE].size = disk[i].size
  BY DEF FileType
\* One process's record replaced by another.
LEMMA ProcUpdate ==
  ASSUME proc \in [Procs -> ProcType], NEW p \in Procs, NEW v \in ProcType,
         proc' = [proc EXCEPT ![p] = v]
  PROVE  proc' \in [Procs -> ProcType] /\ proc'[p] = v
  OBVIOUS

LEMMA GotoType ==
  ASSUME proc \in [Procs -> ProcType], NEW p \in Procs, NEW q \in PcType, Goto(p, q)
  PROVE  /\ proc' \in [Procs -> ProcType]
         /\ proc'[p].pc = q /\ proc'[p].size = proc[p].size /\ proc'[p].loop = proc[p].loop
  BY DEF Goto, ProcType

-----------------------------------------------------------------------------
(* What holds between the steps of a bootstrap that is alone.  The image is  *)
(* made while no file has its name, and everything after that works on the   *)
(* file of that name.                                                        *)

Alone == \A p, q \in Procs : p = q

StoreInv ==
  /\ name["tmp"] # None => name["tmp"] # name["image"] /\ ~disk[name["tmp"]].data
  /\ name["image"] # None => disk[name["image"]].fs # 0
  /\ mounted # None =>
       mounted = name["image"] /\ disk[mounted].fs <= loopSize /\ loopSize <= disk[mounted].size
  /\ \A i \in Inodes : disk[i].data => i = name["image"]
  /\ \A i \in Inodes : disk[i].fs <= disk[i].size
  /\ topology => fstab /\ ordered /\ layout /\ name["image"] # None

Making(p) ==
  /\ proc[p].pc \in Creating => name["image"] = None
  /\ At(p, "truncate") => name["tmp"] = None
  /\ At(p, "attach") => name["tmp"] # None /\ disk[name["tmp"]].size # 0
  /\ At(p, "mkfs") =>
       name["tmp"] # None /\ proc[p].loop = name["tmp"] /\ disk[name["tmp"]].size # 0
  /\ proc[p].pc \in {"detach", "rename"} => name["tmp"] # None /\ disk[name["tmp"]].fs # 0
  /\ ~At(p, "idle") => proc[p].size # 0

Using(p) ==
  /\ proc[p].pc \in Mounting \cup Growing \cup Finishing => name["image"] # None
  /\ proc[p].pc \in (Mounting \ {"fstab"}) \cup Growing \cup Finishing => fstab
  /\ proc[p].pc \in Growing \cup Finishing => mounted # None
  /\ proc[p].pc \in {"ordering", "topology"} => layout
  /\ At(p, "topology") => ordered

IInv == StoreInv /\ \A p \in Procs : Making(p) /\ Using(p)
Inv == TypeOK /\ IInv

LEMMA Fold == Inv <=> TypeOK /\ StoreInv /\ \A p \in Procs : Making(p) /\ Using(p)
  BY DEF Inv, IInv

\* The step of a bootstrap that is alone: nobody else's position matters.
LEMMA Sole ==
  ASSUME Alone, NEW p \in Procs, TypeOK', StoreInv', Making(p)', Using(p)'
  PROVE  Inv'
  <1>1. \A q \in Procs : q = p
    BY DEF Alone
  <1>2. \A q \in Procs : Making(q)' /\ Using(q)'
    BY <1>1
  <1>3. QED
    BY <1>2 DEF Inv, IInv

USE DEF At

LEMMA Parts ==
  ASSUME Inv, NEW p \in Procs
  PROVE  /\ TypeOK /\ StoreInv /\ Making(p) /\ Using(p)
         /\ name \in [{"tmp", "image"} -> Ref] /\ disk \in [Inodes -> FileType]
         /\ proc \in [Procs -> ProcType] /\ proc[p] \in ProcType
         /\ mounted \in Ref /\ loopSize \in SizeType
         /\ None \notin Inodes
  BY Types, BootstrapAssumption DEF Inv, IInv

\* What a step leaves of the types, by the variables it may write.
LEMMA TypesAfter ==
  ASSUME TypeOK,
         name' \in [{"tmp", "image"} -> Ref], disk' \in [Inodes -> FileType],
         proc' \in [Procs -> ProcType], mounted' \in Ref, loopSize' \in SizeType,
         fstab' \in BOOLEAN, layout' \in BOOLEAN, ordered' \in BOOLEAN,
         topology' \in BOOLEAN, served' \in BOOLEAN, UNCHANGED bounds
  PROVE  TypeOK'
  BY DEF TypeOK, bounds, Ref, FileType, SizeType, ProcType, PcType

\* A step of p that only moves p.
LEMMA MovesOnly ==
  ASSUME Inv, NEW p \in Procs, NEW v \in ProcType, proc' = [proc EXCEPT ![p] = v],
         served' \in {served, FALSE}, UNCHANGED <<store, system, bounds>>
  PROVE  /\ TypeOK' /\ StoreInv' /\ proc'[p] = v
         /\ UNCHANGED <<name, disk, mounted, loopSize, fstab, layout, ordered, topology>>
  <1>t. /\ TypeOK /\ StoreInv /\ proc \in [Procs -> ProcType]
    BY Parts
  <1>1. proc' \in [Procs -> ProcType] /\ proc'[p] = v
    BY <1>t, ProcUpdate
  <1>2. UNCHANGED <<name, disk, mounted, loopSize, fstab, layout, ordered, topology>>
    BY DEF store, system
  <1>3. TypeOK'
    BY <1>t, <1>1 DEF TypeOK, store, system, bounds, ProcType, PcType, SizeType
  <1>4. StoreInv'
    BY <1>t, <1>2 DEF StoreInv
  <1>5. QED
    BY <1>1, <1>2, <1>3, <1>4

\* p ends, and with it what it was doing.
LEMMA Ends ==
  ASSUME Alone, Inv, NEW p \in Procs, proc' = [proc EXCEPT ![p] = Idle],
         UNCHANGED <<store, system, served, want, resizes>>, faults' \in Nat
  PROVE  Inv'
  <1>t. TypeOK /\ StoreInv /\ proc \in [Procs -> ProcType]
    BY Parts
  <1>1. proc' \in [Procs -> ProcType] /\ proc'[p] = Idle
    BY <1>t, ProcUpdate, Literals
  <1>2. TypeOK'
    BY <1>t, <1>1 DEF TypeOK, store, system, ProcType, PcType, SizeType
  <1>3. StoreInv'
    BY <1>t DEF StoreInv, store, system
  <1>4. Making(p)' /\ Using(p)'
    BY <1>1, Literals DEF Making, Using, Creating, Mounting, Growing, Finishing
  <1>5. QED
    BY <1>2, <1>3, <1>4, Sole

LEMMA StartStep ==
  ASSUME Alone, Inv, NEW p \in Procs, Start(p)
  PROVE  Inv'
  <1> DEFINE v == [pc |-> First, size |-> want, loop |-> None]
  <1>t. TypeOK /\ StoreInv
    BY Parts
  <1>1. want \in Sizes /\ want # 0 /\ v \in ProcType
    BY <1>t, Literals DEF First, TypeOK, ProcType, PcType, Creating, Mounting, SizeType
  <1>2. /\ TypeOK' /\ StoreInv' /\ proc'[p] = v
        /\ UNCHANGED <<name, disk, mounted, loopSize, fstab, layout, ordered, topology>>
    <2>1. /\ proc' = [proc EXCEPT ![p] = v] /\ served' = FALSE
          /\ UNCHANGED <<store, system, bounds>>
      BY DEF Start
    <2> HIDE DEF v
    <2>2. QED
      BY <1>1, <2>1, MovesOnly
  <1>3. Making(p)' /\ Using(p)'
    <2>1. CASE name["image"] = None
      BY <1>1, <1>2, <2>1 DEF First, NeedsImage, Making, Using, Creating, Mounting, Growing, Finishing
    <2>2. CASE name["image"] # None
      BY <1>1, <1>2, <2>2 DEF First, NeedsImage, Making, Using, Creating, Mounting, Growing, Finishing
    <2>3. QED
      BY <2>1, <2>2
  <1>4. QED
    BY <1>2, <1>3, Sole

\* Remove and Unmake take the name of the staging file away.
LEMMA UnnameStep ==
  ASSUME Alone, Inv, NEW p \in Procs, Remove(p) \/ Unmake(p)
  PROVE  Inv'
  <1>t. /\ TypeOK /\ StoreInv /\ Making(p) /\ proc[p] \in ProcType
        /\ name \in [{"tmp", "image"} -> Ref] /\ disk \in [Inodes -> FileType]
        /\ proc \in [Procs -> ProcType]
        /\ mounted \in Ref /\ loopSize \in SizeType
    BY Parts
  <1>1. name' \in [{"tmp", "image"} -> Ref] /\ name'["tmp"] = None /\ name'["image"] = name["image"]
    BY <1>t DEF Remove, Unmake, StagingName, Ref
  <1>2. UNCHANGED <<disk, mounted, loopSize, fstab, layout, ordered, topology, served, bounds>>
    BY DEF Remove, Unmake, system
  <1>3. /\ proc' \in [Procs -> ProcType]
        /\ \/ proc'[p] = Idle
           \/ proc'[p].pc = "truncate" /\ proc'[p].size = proc[p].size /\ At(p, "remove")
    <2>1. CASE Remove(p)
      BY <1>t, <2>1, GotoType DEF Remove, PcType, Creating
    <2>2. CASE Unmake(p)
      BY <1>t, <2>2, ProcUpdate, Literals DEF Unmake
    <2>3. QED
      BY <2>1, <2>2
  <1>4. TypeOK'
    BY <1>t, <1>1, <1>2, <1>3, TypesAfter DEF TypeOK
  <1>5. StoreInv'
    BY <1>t, <1>1, <1>2 DEF StoreInv
  <1>6. Making(p)' /\ Using(p)'
    BY <1>t, <1>1, <1>3, Literals DEF Making, Using, Creating, Mounting, Growing, Finishing
  <1>7. QED
    BY <1>4, <1>5, <1>6, Sole

LEMMA TruncateStep ==
  ASSUME Alone, Inv, NEW p \in Procs, Truncate(p)
  PROVE  Inv'
  <1>t. /\ TypeOK /\ StoreInv /\ Making(p) /\ proc[p] \in ProcType
        /\ name \in [{"tmp", "image"} -> Ref] /\ disk \in [Inodes -> FileType]
        /\ proc \in [Procs -> ProcType]
        /\ mounted \in Ref /\ loopSize \in SizeType /\ None \notin Inodes
    BY Parts
  <1>1. /\ name["tmp"] = None /\ name["image"] = None /\ mounted = None /\ ~topology
        /\ proc[p].size # 0 /\ proc[p].size \in SizeType
    BY <1>t DEF Truncate, Making, StoreInv, Creating, ProcType
  <1>2. proc' \in [Procs -> ProcType] /\ proc'[p].pc = "attach" /\ proc'[p].size = proc[p].size
    BY <1>t, GotoType DEF Truncate, PcType, Creating
  <1>3. PICK i \in Inodes : /\ name' = [name EXCEPT !["tmp"] = i]
                            /\ disk' = [disk EXCEPT ![i] = [Empty EXCEPT !.size = proc[p].size]]
    <2>1. PICK i \in Inodes :
            /\ \/ disk' = [disk EXCEPT ![i] = [Empty EXCEPT !.size = proc[p].size]]
               \/ name["tmp"] = i
            /\ name' = [name EXCEPT !["tmp"] = i]
      BY Zenon DEF Truncate, StagingName
    <2>2. name["tmp"] # i
      BY <1>t, <1>1
    <2>3. QED
      BY <2>1, <2>2
  <1>4. /\ disk' \in [Inodes -> FileType]
        /\ disk'[i].size = proc[p].size /\ disk'[i].fs = 0 /\ disk'[i].data = FALSE
        /\ \A j \in Inodes : j # i => disk'[j] = disk[j]
    <2> DEFINE f == [Empty EXCEPT !.size = proc[p].size]
    <2>1. f \in FileType /\ f.size = proc[p].size /\ f.fs = 0 /\ f.data = FALSE
      BY <1>1 DEF Empty, FileType, SizeType
    <2>2. disk' = [disk EXCEPT ![i] = f]
      BY <1>3
    <2> HIDE DEF f
    <2>3. QED
      BY <1>t, <2>1, <2>2, DiskUpdate
  <1>5. name' \in [{"tmp", "image"} -> Ref] /\ name'["tmp"] = i /\ name'["image"] = None /\ i # None
    BY <1>t, <1>1, <1>3 DEF Ref
  <1>6. UNCHANGED <<mounted, loopSize, fstab, layout, ordered, topology, served, bounds>>
    BY DEF Truncate, system
  <1>7. TypeOK'
    BY <1>t, <1>2, <1>4, <1>5, <1>6, TypesAfter DEF TypeOK
  <1>8. StoreInv'
    <2>1. 0 <= proc[p].size
      BY <1>1, SizeNat
    <2>2. QED
      BY <1>t, <1>1, <1>4, <1>5, <1>6, <2>1 DEF StoreInv
  <1>9. Making(p)' /\ Using(p)'
    BY <1>1, <1>2, <1>4, <1>5 DEF Making, Using, Creating, Mounting, Growing, Finishing
  <1>10. QED
    BY <1>7, <1>8, <1>9, Sole

LEMMA AttachStep ==
  ASSUME Alone, Inv, NEW p \in Procs, Attach(p)
  PROVE  Inv'
  <1> DEFINE v == [proc[p] EXCEPT !.pc = "mkfs", !.loop = name["tmp"]]
  <1>t. /\ Making(p) /\ proc[p] \in ProcType /\ name \in [{"tmp", "image"} -> Ref]
    BY Parts
  <1>1. v \in ProcType /\ v.pc = "mkfs" /\ v.loop = name["tmp"] /\ v.size = proc[p].size
    BY <1>t DEF ProcType, PcType, Creating, Ref
  <1>2. proc' = [proc EXCEPT ![p] = v] /\ UNCHANGED <<store, system, served, bounds>>
    BY DEF Attach, StagingName
  <1> HIDE DEF v
  <1>3. /\ TypeOK' /\ StoreInv' /\ proc'[p] = v
        /\ UNCHANGED <<name, disk, mounted, loopSize, fstab, layout, ordered, topology>>
    BY <1>1, <1>2, MovesOnly
  <1>4. Making(p)' /\ Using(p)'
    BY <1>t, <1>1, <1>3 DEF Making, Using, Attach, Creating, Mounting, Growing, Finishing
  <1>5. QED
    BY <1>3, <1>4, Sole

LEMMA MakeFsStep ==
  ASSUME Alone, Inv, NEW p \in Procs, MakeFs(p)
  PROVE  Inv'
  <1> DEFINE i == name["tmp"]
  <1>t. /\ TypeOK /\ StoreInv /\ Making(p) /\ proc[p] \in ProcType
        /\ name \in [{"tmp", "image"} -> Ref] /\ disk \in [Inodes -> FileType]
        /\ proc \in [Procs -> ProcType]
        /\ mounted \in Ref /\ loopSize \in SizeType /\ None \notin Inodes
    BY Parts
  <1>1. /\ name["image"] = None /\ mounted = None /\ ~topology
        /\ i \in Inodes /\ proc[p].loop = i /\ disk[i].size # 0 /\ disk[i].size \in SizeType
        /\ proc[p].size # 0
    BY <1>t DEF MakeFs, Making, StoreInv, Creating, Ref, FileType
  <1>2. UNCHANGED <<name, mounted, loopSize, fstab, layout, ordered, topology, served, bounds>>
    BY DEF MakeFs, system
  <1>3. CASE disk[i].fs = 0
    <2> DEFINE f == [disk[i] EXCEPT !.fs = disk[i].size]
    <2>1. /\ f \in FileType /\ f.fs = disk[i].size /\ f.size = disk[i].size
          /\ f.data = disk[i].data
      BY <1>t, <1>1, FileFields
    <2>2. disk' = [disk EXCEPT ![i] = f] /\ Goto(p, "detach")
      <3>1. /\ disk' = [disk EXCEPT ![proc[p].loop].fs = disk[proc[p].loop].size]
            /\ Goto(p, "detach")
        BY <1>1, <1>3, Zenon DEF MakeFs
      <3>2. disk' = [disk EXCEPT ![i].fs = disk[i].size]
        BY <1>1, <3>1, Zenon
      <3>3. QED
        BY <3>1, <3>2
    <2> HIDE DEF f
    <2>3. /\ disk' \in [Inodes -> FileType] /\ disk'[i] = f
          /\ \A j \in Inodes : j # i => disk'[j] = disk[j]
      BY <1>t, <1>1, <2>1, <2>2, DiskUpdate
    <2>4. proc' \in [Procs -> ProcType] /\ proc'[p].pc = "detach" /\ proc'[p].size = proc[p].size
      BY <1>t, <2>2, GotoType DEF PcType, Creating
    <2>5. TypeOK'
      BY <1>t, <1>2, <2>3, <2>4, TypesAfter DEF TypeOK
    <2>6. StoreInv'
      <3>1. disk[i].size <= disk[i].size
        BY <1>1, SizeNat
      <3>2. QED
        BY <1>t, <1>1, <1>2, <2>1, <2>3, <3>1 DEF StoreInv
    <2>7. Making(p)' /\ Using(p)'
      BY <1>t, <1>1, <1>2, <2>1, <2>3, <2>4 DEF Making, Using, Creating, Mounting, Growing, Finishing
    <2>8. QED
      BY <2>5, <2>6, <2>7, Sole
  <1>4. CASE disk[i].fs # 0
    <2>1. UNCHANGED disk /\ Goto(p, "unmake")
      BY <1>1, <1>4 DEF MakeFs
    <2>2. proc' \in [Procs -> ProcType] /\ proc'[p].pc = "unmake" /\ proc'[p].size = proc[p].size
      BY <1>t, <2>1, GotoType DEF PcType, Creating
    <2>3. TypeOK'
      BY <1>t, <1>2, <2>1, <2>2, TypesAfter DEF TypeOK
    <2>4. StoreInv'
      BY <1>t, <1>2, <2>1 DEF StoreInv
    <2>5. Making(p)' /\ Using(p)'
      BY <1>1, <1>2, <2>2 DEF Making, Using, Creating, Mounting, Growing, Finishing
    <2>6. QED
      BY <2>3, <2>4, <2>5, Sole
  <1>5. QED
    BY <1>3, <1>4

LEMMA DetachStep ==
  ASSUME Alone, Inv, NEW p \in Procs, Detach(p)
  PROVE  Inv'
  <1> DEFINE v == [proc[p] EXCEPT !.pc = "rename", !.loop = None]
  <1>t. Making(p) /\ proc[p] \in ProcType
    BY Parts
  <1>1. v \in ProcType /\ v.pc = "rename" /\ v.size = proc[p].size
    BY <1>t DEF ProcType, PcType, Creating
  <1>2. proc' = [proc EXCEPT ![p] = v] /\ UNCHANGED <<store, system, served, bounds>>
    BY DEF Detach
  <1> HIDE DEF v
  <1>3. /\ TypeOK' /\ StoreInv' /\ proc'[p] = v
        /\ UNCHANGED <<name, disk, mounted, loopSize, fstab, layout, ordered, topology>>
    BY <1>1, <1>2, MovesOnly
  <1>4. Making(p)' /\ Using(p)'
    BY <1>t, <1>1, <1>3 DEF Making, Using, Detach, Creating, Mounting, Growing, Finishing
  <1>5. QED
    BY <1>3, <1>4, Sole

LEMMA RenameStep ==
  ASSUME Alone, Inv, NEW p \in Procs, Rename(p)
  PROVE  Inv'
  <1>t. /\ TypeOK /\ StoreInv /\ Making(p) /\ proc[p] \in ProcType
        /\ name \in [{"tmp", "image"} -> Ref] /\ disk \in [Inodes -> FileType]
        /\ proc \in [Procs -> ProcType]
        /\ mounted \in Ref /\ loopSize \in SizeType
    BY Parts
  <1>1. /\ name["image"] = None /\ mounted = None /\ name["tmp"] # None
        /\ disk[name["tmp"]].fs # 0 /\ proc[p].size # 0
        /\ \A i \in Inodes : ~disk[i].data
    BY <1>t, BootstrapAssumption DEF Rename, Making, StoreInv, Creating
  <1>2. name' \in [{"tmp", "image"} -> Ref] /\ name'["tmp"] = None /\ name'["image"] = name["tmp"]
    BY <1>t DEF Rename, Ref
  <1>3. proc' \in [Procs -> ProcType] /\ proc'[p].pc = "fstab" /\ proc'[p].size = proc[p].size
    BY <1>t, GotoType DEF Rename, PcType, Mounting
  <1>4. UNCHANGED <<disk, mounted, loopSize, fstab, layout, ordered, topology, served, bounds>>
    BY DEF Rename, system
  <1>5. TypeOK'
    BY <1>t, <1>2, <1>3, <1>4, TypesAfter DEF TypeOK
  <1>6. StoreInv'
    BY <1>t, <1>1, <1>2, <1>4 DEF StoreInv
  <1>7. Making(p)' /\ Using(p)'
    BY <1>1, <1>2, <1>3 DEF Making, Using, Creating, Mounting, Growing, Finishing
  <1>8. QED
    BY <1>5, <1>6, <1>7, Sole

\* The steps that only move p on, and stay with the image they work on.
LEMMA LookSteps ==
  ASSUME Alone, Inv, NEW p \in Procs, Mountpoint(p) \/ Probe(p) \/ VerifyReflink(p)
  PROVE  Inv'
  <1>t. /\ Making(p) /\ Using(p) /\ StoreInv /\ proc[p] \in ProcType
    BY Parts
  <1>1. PICK q \in {"probe", "verify", "mount", "idle", "stat"} :
          /\ Goto(p, q)
          /\ q \in {"verify", "stat"} => mounted # None
          /\ proc[p].pc \in {"mountpoint", "probe", "verify"}
    BY DEF Mountpoint, Probe, VerifyReflink
  <1> DEFINE v == [proc[p] EXCEPT !.pc = q]
  <1>2. v \in ProcType /\ v.pc = q /\ v.size = proc[p].size
    BY <1>t DEF ProcType, PcType, Creating, Mounting, Growing
  <1>3. proc' = [proc EXCEPT ![p] = v] /\ UNCHANGED <<store, system, served, bounds>>
    BY <1>1 DEF Mountpoint, Probe, VerifyReflink, Goto
  <1> HIDE DEF v
  <1>4. /\ TypeOK' /\ StoreInv' /\ proc'[p] = v
        /\ UNCHANGED <<name, disk, mounted, loopSize, fstab, layout, ordered, topology>>
    BY <1>2, <1>3, MovesOnly
  <1>5. Making(p)' /\ Using(p)'
    BY <1>t, <1>1, <1>2, <1>4 DEF Making, Using, Creating, Mounting, Growing, Finishing
  <1>6. QED
    BY <1>4, <1>5, Sole

\* fstab, layout and boot order only ever come on.
LEMMA EnsureSteps ==
  ASSUME Alone, Inv, NEW p \in Procs,
         EnsureFstab(p) \/ EnsureLayout(p) \/ EnsureIncusOrdering(p) \/ EnsureTopology(p)
  PROVE  Inv'
  <1>t. /\ TypeOK /\ StoreInv /\ Making(p) /\ Using(p) /\ proc[p] \in ProcType
        /\ name \in [{"tmp", "image"} -> Ref] /\ disk \in [Inodes -> FileType]
        /\ proc \in [Procs -> ProcType]
        /\ mounted \in Ref /\ loopSize \in SizeType
        /\ fstab \in BOOLEAN /\ layout \in BOOLEAN /\ ordered \in BOOLEAN /\ topology \in BOOLEAN
        /\ served \in BOOLEAN
    BY Parts, Types
  <1>1. UNCHANGED <<name, disk, mounted, loopSize, bounds>>
    BY DEF EnsureFstab, EnsureLayout, EnsureIncusOrdering, EnsureTopology, store
  <1>2. /\ fstab' \in {TRUE, fstab} /\ layout' \in {TRUE, layout}
        /\ ordered' \in {TRUE, ordered} /\ served' \in {TRUE, served}
        /\ \/ topology' = topology
           \/ topology' = TRUE /\ At(p, "topology") /\ UNCHANGED <<fstab, layout, ordered>>
    BY DEF EnsureFstab, EnsureLayout, EnsureIncusOrdering, EnsureTopology, store, system
  <1>3. /\ proc' \in [Procs -> ProcType]
        /\ \/ proc'[p] = Idle
           \/ /\ proc'[p].size = proc[p].size
              /\ \/ proc'[p].pc = "mountpoint" /\ At(p, "fstab") /\ fstab' = TRUE
                 \/ proc'[p].pc = "ordering" /\ At(p, "layout") /\ layout' = TRUE /\ fstab' = fstab
                 \/ /\ proc'[p].pc = "topology" /\ At(p, "ordering") /\ ordered' = TRUE
                    /\ fstab' = fstab /\ layout' = layout
    <2>1. CASE EnsureFstab(p)
      BY <1>t, <2>1, GotoType DEF EnsureFstab, PcType, Mounting
    <2>2. CASE EnsureLayout(p)
      BY <1>t, <2>2, GotoType DEF EnsureLayout, PcType, Finishing, store
    <2>3. CASE EnsureIncusOrdering(p)
      BY <1>t, <2>3, GotoType DEF EnsureIncusOrdering, PcType, Finishing, store
    <2>4. CASE EnsureTopology(p)
      BY <1>t, <2>4, ProcUpdate, Literals DEF EnsureTopology
    <2>5. QED
      BY <2>1, <2>2, <2>3, <2>4
  <1>4. TypeOK'
    BY <1>t, <1>1, <1>2, <1>3, TypesAfter DEF TypeOK
  <1>5. StoreInv'
    <2>1. topology' => fstab' /\ ordered' /\ layout' /\ name["image"] # None
      <3>1. CASE topology' = topology
        <4>1. topology => fstab /\ ordered /\ layout /\ name["image"] # None
          BY <1>t, Zenon DEF StoreInv
        <4>2. (fstab => fstab') /\ (layout => layout') /\ (ordered => ordered')
          BY <1>1, <1>2, <1>t, Zenon
        <4>3. QED
          BY <3>1, <4>1, <4>2, Zenon
      <3>2. CASE topology' = TRUE /\ At(p, "topology") /\ UNCHANGED <<fstab, layout, ordered>>
        <4>1. proc[p].pc \in Finishing /\ proc[p].pc \in (Mounting \ {"fstab"}) \cup Growing \cup Finishing
          BY <3>2 DEF Mounting, Growing, Finishing
        <4>2. fstab /\ layout /\ ordered /\ name["image"] # None
          BY <1>t, <3>2, <4>1 DEF Using, Finishing
        <4>3. QED
          BY <3>2, <4>2, Zenon
      <3>3. QED
        BY <1>2, <3>1, <3>2
    <2>2. QED
      BY <1>t, <1>1, <2>1 DEF StoreInv
  <1>6. Making(p)' /\ Using(p)'
    BY <1>t, <1>1, <1>3, Literals DEF Making, Using, Creating, Mounting, Growing, Finishing
  <1>7. QED
    BY <1>4, <1>5, <1>6, Sole

LEMMA MountStep ==
  ASSUME Alone, Inv, NEW p \in Procs, Mount(p)
  PROVE  Inv'
  <1>t. /\ TypeOK /\ StoreInv /\ Making(p) /\ Using(p) /\ proc[p] \in ProcType
        /\ name \in [{"tmp", "image"} -> Ref] /\ disk \in [Inodes -> FileType]
        /\ proc \in [Procs -> ProcType]
    BY Parts
  <1>1. /\ name["image"] \in Inodes /\ mounted' = name["image"] /\ loopSize' = disk[name["image"]].size
        /\ loopSize' \in SizeType /\ loopSize' <= loopSize' /\ mounted' \in Ref
    <2>1. name["image"] \in Inodes /\ disk[name["image"]].size \in SizeType
      BY <1>t DEF Mount, Ref, FileType
    <2>2. QED
      BY <2>1, SizeNat DEF Mount, MountImage, Ref
  <1>2. UNCHANGED <<name, disk, fstab, layout, ordered, topology, served, bounds>>
    BY DEF Mount, system
  <1>3. proc' \in [Procs -> ProcType] /\ proc'[p].pc = "verify" /\ proc'[p].size = proc[p].size
    BY <1>t, GotoType DEF Mount, PcType, Growing
  <1>4. TypeOK'
    BY <1>t, <1>1, <1>2, <1>3, TypesAfter DEF TypeOK
  <1>5. StoreInv'
    BY <1>t, <1>1, <1>2 DEF StoreInv
  <1>6. Making(p)' /\ Using(p)'
    BY <1>t, <1>1, <1>2, <1>3, BootstrapAssumption DEF Making, Using, Mount, Creating, Mounting, Growing, Finishing
  <1>7. QED
    BY <1>4, <1>5, <1>6, Sole

LEMMA GrowSteps ==
  ASSUME Alone, Inv, NEW p \in Procs, StatAndExtend(p) \/ GrowFs(p)
  PROVE  Inv'
  <1>t. /\ TypeOK /\ StoreInv /\ Making(p) /\ Using(p) /\ proc[p] \in ProcType
        /\ name \in [{"tmp", "image"} -> Ref] /\ disk \in [Inodes -> FileType]
        /\ proc \in [Procs -> ProcType]
        /\ mounted \in Ref /\ loopSize \in SizeType /\ None \notin Inodes
    BY Parts
  <1>1. UNCHANGED <<name, mounted, loopSize, fstab, layout, ordered, topology, served, bounds>>
    BY DEF StatAndExtend, GrowFs, system
  <1>2. /\ name["image"] # None /\ name["image"] \in Inodes /\ mounted = name["image"]
        /\ proc[p].size # 0 /\ proc[p].size \in SizeType /\ fstab
        /\ proc[p].pc \in {"stat", "growfs"}
    BY <1>t DEF StatAndExtend, GrowFs, Making, Using, StoreInv, Growing, Ref, ProcType
  <1> DEFINE i == name["image"]
  <1>3. /\ disk[i].size \in SizeType /\ disk[i].fs \in SizeType
        /\ disk[i].fs # 0 /\ disk[i].fs <= loopSize /\ loopSize <= disk[i].size
    BY <1>t, <1>2 DEF StoreInv, FileType
  <1> DEFINE Change == \/ UNCHANGED disk
                       \/ proc[p].size > disk[i].size /\ disk' = [disk EXCEPT ![i].size = proc[p].size]
                       \/ disk' = [disk EXCEPT ![i].fs = loopSize]
  <1>4. Change /\ (Goto(p, "refresh") \/ Goto(p, "layout"))
    <2>1. CASE StatAndExtend(p)
      <3>1. \/ /\ proc[p].size > disk[i].size /\ Goto(p, "refresh")
               /\ disk' = [disk EXCEPT ![i].size = proc[p].size]
            \/ UNCHANGED disk /\ Goto(p, "layout")
        BY <2>1, Zenon DEF StatAndExtend, Extends, Grown, AfterGrow
      <3>2. QED
        BY <3>1, Zenon
    <2>2. CASE GrowFs(p)
      <3>1. Goto(p, "layout") /\ disk' = [disk EXCEPT ![i].fs = loopSize]
        BY <1>2, <2>2, Zenon DEF GrowFs, AfterGrow
      <3>2. QED
        BY <3>1, Zenon
    <2>3. QED
      BY <2>1, <2>2, Zenon
  <1>5. /\ proc' \in [Procs -> ProcType] /\ proc'[p].pc \in {"refresh", "layout"}
        /\ proc'[p].size = proc[p].size
    <2>1. "refresh" \in PcType /\ "layout" \in PcType
      BY DEF PcType, Growing, Finishing
    <2>2. CASE Goto(p, "refresh")
      BY <1>t, <2>1, <2>2, GotoType
    <2>3. CASE Goto(p, "layout")
      BY <1>t, <2>1, <2>3, GotoType
    <2>4. QED
      BY <1>4, <2>2, <2>3
  <1>6. PICK f \in FileType :
          /\ disk' = [disk EXCEPT ![i] = f]
          /\ f.data = disk[i].data /\ f.fs # 0 /\ f.fs <= loopSize /\ loopSize <= f.size
          /\ f.fs <= f.size
    <2> DEFINE big == [disk[i] EXCEPT !.size = proc[p].size]
               grown == [disk[i] EXCEPT !.fs = loopSize]
    <2>1. /\ big \in FileType /\ big.size = proc[p].size /\ big.fs = disk[i].fs
          /\ big.data = disk[i].data
      BY <1>t, <1>2, FileFields
    <2>2. /\ grown \in FileType /\ grown.fs = loopSize /\ grown.size = disk[i].size
          /\ grown.data = disk[i].data
      BY <1>t, <1>2, FileFields
    <2>3. disk[i] \in FileType
      BY <1>t, <1>2
    <2>4. loopSize \in Nat /\ disk[i].size \in Nat /\ disk[i].fs \in Nat /\ proc[p].size \in Nat
      BY <1>t, <1>2, <1>3, SizeNat
    <2>5. CASE UNCHANGED disk
      <3>1. disk' = [disk EXCEPT ![i] = disk[i]]
        BY <1>t, <1>2, <2>5
      <3>2. disk[i].fs <= disk[i].size
        BY <1>3, <2>4
      <3>3. QED
        BY <1>3, <2>3, <3>1, <3>2
    <2>6. CASE proc[p].size > disk[i].size /\ disk' = [disk EXCEPT ![i].size = proc[p].size]
      <3>1. disk' = [disk EXCEPT ![i] = big]
        BY <2>6
      <3> HIDE DEF big
      <3>2. loopSize <= big.size /\ big.fs <= big.size /\ big.fs <= loopSize /\ big.fs # 0
        BY <1>3, <2>1, <2>4, <2>6
      <3>3. QED
        BY <2>1, <3>1, <3>2
    <2>7. CASE disk' = [disk EXCEPT ![i].fs = loopSize]
      <3>1. disk' = [disk EXCEPT ![i] = grown]
        BY <2>7
      <3> HIDE DEF grown
      <3>2. grown.fs # 0 /\ grown.fs <= loopSize /\ loopSize <= grown.size
        BY <1>3, <2>2, <2>4
      <3>3. QED
        BY <2>2, <3>1, <3>2
    <2>8. QED
      BY <1>4, <2>5, <2>6, <2>7
  <1>7. /\ disk' \in [Inodes -> FileType] /\ disk'[i] = f
        /\ \A j \in Inodes : j # i => disk'[j] = disk[j]
    BY <1>t, <1>2, <1>6, DiskUpdate
  <1>8. TypeOK'
    BY <1>t, <1>1, <1>5, <1>7, TypesAfter DEF TypeOK
  <1>9. StoreInv'
    BY <1>t, <1>1, <1>2, <1>6, <1>7, Types DEF StoreInv, Ref
  <1>10. Making(p)' /\ Using(p)'
    BY <1>t, <1>1, <1>2, <1>5, BootstrapAssumption DEF Making, Using, Creating, Mounting, Growing, Finishing
  <1>11. QED
    BY <1>8, <1>9, <1>10, Sole

LEMMA RefreshStep ==
  ASSUME Alone, Inv, NEW p \in Procs, RefreshLoop(p)
  PROVE  Inv'
  <1>t. /\ TypeOK /\ StoreInv /\ Making(p) /\ Using(p) /\ proc[p] \in ProcType
        /\ name \in [{"tmp", "image"} -> Ref] /\ disk \in [Inodes -> FileType]
        /\ proc \in [Procs -> ProcType] /\ mounted \in Ref
    BY Parts
  <1>1. /\ mounted \in Inodes /\ loopSize' = disk[mounted].size /\ loopSize' \in SizeType
        /\ disk[mounted].fs <= loopSize' /\ loopSize' <= loopSize'
    <2>1. mounted \in Inodes /\ disk[mounted].size \in SizeType /\ loopSize' = disk[mounted].size
      BY <1>t DEF RefreshLoop, Ref, FileType
    <2>2. QED
      BY <1>t, <2>1, SizeNat DEF StoreInv
  <1>2. UNCHANGED <<name, disk, mounted, fstab, layout, ordered, topology, served, bounds>>
    BY DEF RefreshLoop, system
  <1>3. /\ proc' \in [Procs -> ProcType] /\ proc'[p].pc = "growfs" /\ proc'[p].size = proc[p].size
        /\ At(p, "refresh")
    BY <1>t, GotoType DEF RefreshLoop, PcType, Growing
  <1>4. TypeOK'
    BY <1>t, <1>1, <1>2, <1>3, TypesAfter DEF TypeOK
  <1>5. StoreInv'
    BY <1>t, <1>1, <1>2 DEF StoreInv
  <1>6. Making(p)' /\ Using(p)'
    BY <1>t, <1>2, <1>3 DEF Making, Using, Creating, Mounting, Growing, Finishing
  <1>7. QED
    BY <1>4, <1>5, <1>6, Sole

LEMMA FailSteps ==
  ASSUME Alone, Inv, NEW p \in Procs, CommandFails(p) \/ Kill(p)
  PROVE  Inv'
  <1>t. /\ TypeOK /\ StoreInv /\ Making(p) /\ Using(p) /\ proc[p] \in ProcType
        /\ proc \in [Procs -> ProcType] /\ faults \in Nat
    BY Parts, Types
  <1>1. faults' \in Nat /\ UNCHANGED <<store, system, served, want, resizes>>
    BY <1>t DEF CommandFails, Kill, bounds
  <1>2. CASE proc' = [proc EXCEPT ![p] = Idle]
    BY <1>1, <1>2, Ends
  <1>3. CASE At(p, "mkfs") /\ proc' = [proc EXCEPT ![p] = [proc[p] EXCEPT !.pc = "unmake"]]
    <2> DEFINE v == [proc[p] EXCEPT !.pc = "unmake"]
    <2>1. v \in ProcType /\ v.pc = "unmake" /\ v.size = proc[p].size
      BY <1>t DEF ProcType, PcType, Creating
    <2> HIDE DEF v
    <2>2. proc' \in [Procs -> ProcType] /\ proc'[p] = v
      BY <1>t, <1>3, <2>1, ProcUpdate DEF v
    <2>3. TypeOK'
      BY <1>t, <1>1, <2>2 DEF TypeOK, store, system, ProcType, PcType, SizeType
    <2>4. StoreInv'
      BY <1>t, <1>1 DEF StoreInv, store, system
    <2>5. Making(p)' /\ Using(p)'
      BY <1>t, <1>1, <1>3, <2>1, <2>2 DEF Making, Using, store, Creating, Mounting, Growing, Finishing
    <2>6. QED
      BY <2>3, <2>4, <2>5, Sole
  <1>4. QED
    BY <1>2, <1>3 DEF CommandFails, Kill

LEMMA RebootStep ==
  ASSUME Inv, Reboot
  PROVE  Inv'
  <1>t. /\ TypeOK /\ StoreInv
        /\ name \in [{"tmp", "image"} -> Ref] /\ disk \in [Inodes -> FileType]
        /\ faults \in Nat
    BY Types DEF Inv, IInv
  <1>1. UNCHANGED <<name, disk, fstab, layout, ordered, topology, want, resizes>> /\ served' = FALSE
    BY DEF Reboot, system
  <1>2. /\ mounted' \in Ref /\ loopSize' \in SizeType
        /\ mounted' # None =>
             /\ mounted' = name["image"] /\ disk[mounted'].fs <= loopSize'
             /\ loopSize' <= disk[mounted'].size
    <2>1. CASE mounted' = None /\ loopSize' = 0
      BY <2>1 DEF Ref, SizeType
    <2>2. CASE name["image"] # None /\ MountImage
      <3>1. name["image"] \in Inodes /\ disk[name["image"]].size \in SizeType
        BY <1>t, <2>2 DEF Ref, FileType
      <3>2. disk[name["image"]].size <= disk[name["image"]].size
        BY <3>1, SizeNat
      <3>3. QED
        BY <1>t, <2>2, <3>1, <3>2 DEF MountImage, StoreInv, Ref
    <2>3. QED
      BY <2>1, <2>2 DEF Reboot
  <1>3. /\ proc' \in [Procs -> ProcType]
        /\ \A p \in Procs : proc'[p] = Idle
    BY Literals DEF Reboot
  <1>4. TypeOK'
    <2>1. faults' \in Nat
      BY <1>t DEF Reboot
    <2>2. QED
      BY <1>t, <1>1, <1>2, <1>3, <2>1 DEF TypeOK, Ref, SizeType, ProcType, PcType
  <1>5. StoreInv'
    BY <1>t, <1>1, <1>2 DEF StoreInv
  <1>6. \A p \in Procs : Making(p)' /\ Using(p)'
    BY <1>3, Literals DEF Making, Using, Creating, Mounting, Growing, Finishing
  <1>7. QED
    BY <1>4, <1>5, <1>6 DEF Inv, IInv

LEMMA StoreDataStep ==
  ASSUME Inv, StoreData
  PROVE  Inv'
  <1>t. /\ TypeOK /\ StoreInv /\ disk \in [Inodes -> FileType] /\ mounted \in Ref
        /\ \A p \in Procs : Making(p) /\ Using(p)
    BY Types DEF Inv, IInv
  <1> DEFINE f == [disk[mounted] EXCEPT !.data = TRUE]
  <1>1. mounted \in Inodes /\ mounted = name["image"] /\ 0 \in SizeType
    BY <1>t DEF StoreData, StoreInv, Ref, SizeType
  <1>2. f \in FileType /\ f.fs = disk[mounted].fs /\ f.size = disk[mounted].size
    BY <1>t, <1>1, FileFields
  <1>3. disk' = [disk EXCEPT ![mounted] = f]
    BY DEF StoreData
  <1> HIDE DEF f
  <1>4. /\ disk' \in [Inodes -> FileType] /\ disk'[mounted] = f
        /\ \A j \in Inodes : j # mounted => disk'[j] = disk[j]
    BY <1>t, <1>1, <1>2, <1>3, DiskUpdate
  <1>5. UNCHANGED <<name, mounted, loopSize, fstab, layout, ordered, topology, proc, served, bounds>>
    BY DEF StoreData, system
  <1>6. TypeOK'
    BY <1>t, <1>4, <1>5, TypesAfter DEF TypeOK, Ref, FileType, SizeType, ProcType, PcType
  <1>7. \A j \in Inodes : disk'[j].fs = disk[j].fs /\ disk'[j].size = disk[j].size
    BY <1>2, <1>4
  <1>8. \A j \in Inodes : j # mounted => disk'[j].data = disk[j].data
    BY <1>4
  <1>9. StoreInv'
    BY <1>t, <1>1, <1>5, <1>7, <1>8, Types DEF StoreInv, Ref
  <1>10. \A p \in Procs : Making(p)' /\ Using(p)'
    BY <1>t, <1>5, <1>7, Types, BootstrapAssumption DEF Making, Using, Ref
  <1>11. QED
    BY <1>6, <1>9, <1>10 DEF Inv, IInv

-----------------------------------------------------------------------------
(* The invariant, and what it says *)

LEMMA InvInit ==
  ASSUME Init
  PROVE  Inv
  <1>1. /\ \A p \in Procs : proc[p] = Idle
        /\ \A i \in Inodes : disk[i] = Empty
        /\ name["tmp"] = None /\ name["image"] = None /\ mounted = None /\ ~topology
    BY DEF Init
  <1>2. TypeOK
    BY Literals, Types DEF Init, Ref, SizeType
  <1>3. StoreInv
    BY <1>1, Literals DEF StoreInv
  <1>4. \A p \in Procs : Making(p) /\ Using(p)
    BY <1>1, Literals DEF Making, Using, Creating, Mounting, Growing, Finishing
  <1>5. QED
    BY <1>2, <1>3, <1>4 DEF Inv, IInv

LEMMA InvNext ==
  ASSUME Alone, Inv, [Next]_vars
  PROVE  Inv'
  <1>1. CASE UNCHANGED vars
    BY <1>1 DEF Inv, IInv, TypeOK, StoreInv, Making, Using, vars, store, system, bounds
  <1>2. CASE Resize
    BY <1>2 DEF Resize, Inv, IInv, TypeOK, StoreInv, Making, Using, store, system
  <1>3. CASE Reboot
    BY <1>3, RebootStep
  <1>4. CASE StoreData
    BY <1>4, StoreDataStep
  <1>5. ASSUME NEW p \in Procs, Start(p) \/ Bootstrap(p) \/ CommandFails(p) \/ Kill(p)
        PROVE  Inv'
    <2>1. CASE Creates(p)
      BY <2>1, UnnameStep, TruncateStep, AttachStep, MakeFsStep, DetachStep, RenameStep DEF Creates
    <2>2. CASE Mounts(p)
      BY <2>2, EnsureSteps, LookSteps, MountStep DEF Mounts
    <2>3. CASE Grows(p)
      BY <2>3, GrowSteps, RefreshStep DEF Grows
    <2>4. CASE Finishes(p)
      BY <2>4, EnsureSteps DEF Finishes
    <2>5. CASE CommandFails(p) \/ Kill(p)
      BY <2>5, FailSteps
    <2>6. QED
      BY <1>5, <2>1, <2>2, <2>3, <2>4, <2>5, StartStep DEF Bootstrap
  <1>6. QED
    BY <1>1, <1>2, <1>3, <1>4, <1>5 DEF Next

LEMMA InvHolds == Alone => (Spec => []Inv)
  <1>1. Alone /\ Inv /\ [Next]_vars => Inv'
    BY InvNext
  <1>2. Init => Inv
    BY InvInit
  <1>3. ASSUME Alone PROVE Spec => []Inv
    <2>1. Inv /\ [Next]_vars => Inv'
      BY <1>1, <1>3
    <2>2. QED
      BY <1>2, <2>1, PTL DEF Spec
  <1>4. QED
    BY <1>3

\* Whatever is killed or restarted when, the file under the image's name is a
\* complete filesystem, for a bootstrap that runs alone (bootstrap.go createImage).
THEOREM ImageAlwaysComplete == Alone => (Spec => []ImageComplete)
  <1>1. Inv => ImageComplete
    BY DEF Inv, IInv, StoreInv, ImageComplete
  <1>2. QED
    BY <1>1, InvHolds, PTL

\* No bootstrap that runs alone replaces or formats the file a database is on.
THEOREM DataAlwaysKept == Alone => (Spec => []DataKept)
  <1>1. Inv => DataKept
    <2>1. ASSUME Inv, NEW i \in Inodes, disk[i].data
          PROVE  name["image"] = i /\ disk[i].fs # 0
      BY <2>1, BootstrapAssumption DEF Inv, IInv, StoreInv
    <2>2. QED
      BY <2>1 DEF DataKept
  <1>2. QED
    BY <1>1, InvHolds, PTL

\* Containers exist only on a machine that mounts the store before incusd.
THEOREM BootOrderKept == Alone => (Spec => []BootOrder)
  <1>1. Inv => BootOrder
    BY DEF Inv, IInv, StoreInv, BootOrder
  <1>2. QED
    BY <1>1, InvHolds, PTL

\* The mounted filesystem fits its device, and the device the file (grow).
THEOREM GrowsOutsideIn == Alone => (Spec => []GrownOutsideIn)
  <1>1. Inv => GrownOutsideIn
    BY DEF Inv, IInv, StoreInv, GrownOutsideIn
  <1>2. QED
    BY <1>1, InvHolds, PTL
=============================================================================
