--------------------------- MODULE StoreBootstrap ---------------------------
(***************************************************************************)
(* `pgdevd bootstrap` (store/bootstrap.go, daemon/provision.go Bootstrap): *)
(* one image file holding an XFS filesystem is created, mounted over a     *)
(* loop device, grown, and then the slot directories, the boot order and   *)
(* the Incus topology are put in place.  Every step is a command that may  *)
(* fail or be killed, and the next bootstrap starts over on what is there. *)
(*                                                                         *)
(* Files are inodes under two names, so that a rename over a mounted image *)
(* is what it is: the mounted file lives on without a name, until the      *)
(* machine restarts.                                                       *)
(***************************************************************************)
EXTENDS Naturals, FiniteSets

CONSTANTS
  Procs,     \* bootstraps that may run at the same time
  Inodes,    \* the files the machine's disk can hold
  Sizes,     \* the sizes PG_DATA_DISK_SIZE takes, positive and ordered
  MaxFaults, \* bound: commands that fail, kills and machine restarts
  MaxSizes   \* bound: changes of the configured size

None == "none"

ASSUME BootstrapAssumption ==
  /\ Sizes \subseteq Nat \ {0}
  /\ None \notin Inodes
  /\ MaxFaults \in Nat /\ MaxSizes \in Nat

VARIABLES
  name,      \* [{"tmp", "image"} -> the inode of image.creating and of image]
  disk,      \* [Inodes -> size of the file, of the XFS on it (0: none), data on it]
  mounted,   \* the inode mounted at the data root, or None
  loopSize,  \* the size its loop device has taken notice of
  fstab,     \* the entry is in /etc/fstab
  layout,    \* the slot directories are on the mounted filesystem
  ordered,   \* the incus.service drop-in is on disk
  topology,  \* pool, network and profile of Incus exist: it can have containers
  want,      \* PG_DATA_DISK_SIZE
  proc,      \* [Procs -> a running bootstrap: pc, its size, its loop device]
  served,    \* the last bootstrap returned nil, and the machine has not restarted
  faults, resizes

store == <<name, disk, mounted, loopSize, fstab>>
system == <<layout, ordered, topology>>
bounds == <<want, faults, resizes>>
vars == <<store, system, proc, served, bounds>>

Empty == [size |-> 0, fs |-> 0, data |-> FALSE]
Idle == [pc |-> "idle", size |-> 0, loop |-> None]
Creating == {"remove", "truncate", "attach", "mkfs", "unmake", "detach", "rename"}
Mounting == {"fstab", "mountpoint", "probe", "mount"}
Growing == {"verify", "stat", "refresh", "growfs"}
Finishing == {"layout", "ordering", "topology"}

TypeOK ==
  /\ name \in [{"tmp", "image"} -> Inodes \cup {None}]
  /\ disk \in [Inodes -> [size : Sizes \cup {0}, fs : Sizes \cup {0}, data : BOOLEAN]]
  /\ mounted \in Inodes \cup {None}
  /\ loopSize \in Sizes \cup {0}
  /\ fstab \in BOOLEAN /\ layout \in BOOLEAN /\ ordered \in BOOLEAN
  /\ topology \in BOOLEAN /\ served \in BOOLEAN
  /\ want \in Sizes
  /\ proc \in [Procs -> [pc : {"idle"} \cup Creating \cup Mounting \cup Growing \cup Finishing,
                         size : Sizes \cup {0}, loop : Inodes \cup {None}]]
  /\ faults \in Nat /\ resizes \in Nat

Init ==
  /\ name = [n \in {"tmp", "image"} |-> None]
  /\ disk = [i \in Inodes |-> Empty]
  /\ mounted = None /\ loopSize = 0
  /\ fstab = FALSE /\ layout = FALSE /\ ordered = FALSE /\ topology = FALSE
  /\ want \in Sizes
  /\ proc = [p \in Procs |-> Idle]
  /\ served = FALSE
  /\ faults = 0 /\ resizes = 0

-----------------------------------------------------------------------------
(* Steps of a bootstrap *)

At(p, pc) == proc[p].pc = pc
Goto(p, pc) == proc' = [proc EXCEPT ![p].pc = pc]

\* A file that is gone: no name, no mount, no loop device.  One with a database
\* on it is kept, to show the loss.
Unused(i) ==
  /\ \A n \in DOMAIN name : name[n] # i
  /\ mounted # i /\ \A p \in Procs : proc[p].loop # i
  /\ ~disk[i].data

\* An image is made only if there is no file of that name, mounted or not.
BadNeedsImage == mounted = None
NeedsImage == name["image"] = None

\* The image is made from its leftovers on, or mounted.
BadFirst == IF NeedsImage THEN "truncate" ELSE "fstab"
First == IF NeedsImage THEN "remove" ELSE "fstab"

\* Somebody starts the daemon, or runs the command: the unit runs a bootstrap
\* first, and serves without another one if that fails.  The process reads its
\* configuration.
Start(p) ==
  /\ At(p, "idle")
  /\ proc' = [proc EXCEPT ![p] = [pc |-> First, size |-> want, loop |-> None]]
  /\ served' = FALSE
  /\ UNCHANGED <<store, system, bounds>>

\* The image is made under another name.
BadStaging == "image"
StagingName == "tmp"

\* os.Remove of a leftover.
Remove(p) ==
  /\ At(p, "remove")
  /\ Goto(p, "truncate")
  /\ name' = [name EXCEPT ![StagingName] = None]
  /\ UNCHANGED <<disk, mounted, loopSize, fstab, system, served, bounds>>

\* truncate -s creates the file, or resizes the one that is there.
Truncate(p) ==
  /\ At(p, "truncate")
  /\ Goto(p, "attach")
  /\ \E i \in Inodes :
       /\ \/ /\ name[StagingName] = None /\ Unused(i)
             /\ disk' = [disk EXCEPT ![i] = [Empty EXCEPT !.size = proc[p].size]]
          \/ /\ name[StagingName] = i
             /\ disk' = [disk EXCEPT ![i].size = proc[p].size]
       /\ name' = [name EXCEPT ![StagingName] = i]
  /\ UNCHANGED <<mounted, loopSize, fstab, system, served, bounds>>

\* losetup on the name: the loop device holds whatever file that is now.
Attach(p) ==
  /\ At(p, "attach") /\ name[StagingName] # None
  /\ proc' = [proc EXCEPT ![p].pc = "mkfs", ![p].loop = name[StagingName]]
  /\ UNCHANGED <<store, system, served, bounds>>

\* mkfs.xfs refuses a device that holds a filesystem.
MakeFs(p) ==
  /\ At(p, "mkfs")
  /\ LET i == proc[p].loop IN
       IF disk[i].fs = 0
         THEN /\ disk' = [disk EXCEPT ![i].fs = disk[i].size]
              /\ Goto(p, "detach")
         ELSE UNCHANGED disk /\ Goto(p, "unmake")
  /\ UNCHANGED <<name, mounted, loopSize, fstab, system, served, bounds>>

\* mkfs failed: the loop device is detached and the leftover removed.
Unmake(p) ==
  /\ At(p, "unmake")
  /\ proc' = [proc EXCEPT ![p] = Idle]
  /\ name' = [name EXCEPT ![StagingName] = None]
  /\ UNCHANGED <<disk, mounted, loopSize, fstab, system, served, bounds>>

Detach(p) ==
  /\ At(p, "detach")
  /\ proc' = [proc EXCEPT ![p].pc = "rename", ![p].loop = None]
  /\ UNCHANGED <<store, system, served, bounds>>

\* The file gets its name, and takes it from whatever had it.
Rename(p) ==
  /\ At(p, "rename") /\ name["tmp"] # None
  /\ Goto(p, "fstab")
  /\ name' = [name EXCEPT !["tmp"] = None, !["image"] = name["tmp"]]
  /\ UNCHANGED <<disk, mounted, loopSize, fstab, system, served, bounds>>

EnsureFstab(p) ==
  /\ At(p, "fstab")
  /\ fstab' = TRUE
  /\ Goto(p, "mountpoint")
  /\ UNCHANGED <<name, disk, mounted, loopSize, system, served, bounds>>

Mountpoint(p) ==
  /\ At(p, "mountpoint")
  /\ Goto(p, IF mounted = None THEN "probe" ELSE "verify")
  /\ UNCHANGED <<store, system, served, bounds>>

\* mountChecked: a foreign or torn image is refused.
Probe(p) ==
  /\ At(p, "probe") /\ name["image"] # None
  /\ Goto(p, IF disk[name["image"]].fs # 0 THEN "mount" ELSE "idle")
  /\ UNCHANGED <<store, system, served, bounds>>

\* A mount sets up a loop device of the size the file has now.
MountImage ==
  /\ mounted' = name["image"]
  /\ loopSize' = disk[name["image"]].size

Mount(p) ==
  /\ At(p, "mount") /\ fstab /\ name["image"] # None /\ disk[name["image"]].fs # 0
  /\ MountImage
  /\ Goto(p, "verify")
  /\ UNCHANGED <<name, disk, fstab, system, served, bounds>>

VerifyReflink(p) ==
  /\ At(p, "verify") /\ mounted # None
  /\ Goto(p, "stat")
  /\ UNCHANGED <<store, system, served, bounds>>

\* grow compares the configured size with the FILE; a smaller one only warns.
BadExtends(p, i) == proc[p].size # disk[i].size
Extends(p, i) == proc[p].size > disk[i].size

\* truncate -s takes the size the file is to have.
BadGrown(p, i) == disk[i].size + proc[p].size
Grown(p, i) == proc[p].size

BadAfterGrow == "topology"
AfterGrow == "layout"

StatAndExtend(p) ==
  /\ At(p, "stat") /\ name["image"] # None
  /\ LET i == name["image"] IN
       IF Extends(p, i)
         THEN disk' = [disk EXCEPT ![i].size = Grown(p, i)] /\ Goto(p, "refresh")
         ELSE UNCHANGED disk /\ Goto(p, AfterGrow)
  /\ UNCHANGED <<name, mounted, loopSize, fstab, system, served, bounds>>

\* losetup -j finds the loop device of the named image, -c makes it look again.
RefreshLoop(p) ==
  /\ At(p, "refresh") /\ mounted # None /\ mounted = name["image"]
  /\ loopSize' = disk[mounted].size
  /\ Goto(p, "growfs")
  /\ UNCHANGED <<name, disk, mounted, fstab, system, served, bounds>>

GrowFs(p) ==
  /\ At(p, "growfs") /\ mounted # None
  /\ disk' = [disk EXCEPT ![mounted].fs = loopSize]
  /\ Goto(p, AfterGrow)
  /\ UNCHANGED <<name, mounted, loopSize, fstab, system, served, bounds>>

EnsureLayout(p) ==
  /\ At(p, "layout")
  /\ layout' = TRUE
  /\ Goto(p, "ordering")
  /\ UNCHANGED <<store, ordered, topology, served, bounds>>

EnsureIncusOrdering(p) ==
  /\ At(p, "ordering")
  /\ ordered' = TRUE
  /\ Goto(p, "topology")
  /\ UNCHANGED <<store, layout, topology, served, bounds>>

\* WaitReady, then the pool, the network and the profile; bootstrap returns nil.
EnsureTopology(p) ==
  /\ At(p, "topology")
  /\ topology' = TRUE /\ served' = TRUE
  /\ proc' = [proc EXCEPT ![p] = Idle]
  /\ UNCHANGED <<store, layout, ordered, bounds>>

-----------------------------------------------------------------------------
(* What goes wrong, and what goes on *)

\* A command fails and bootstrap returns its error.  A failed mkfs cleans up
\* first; a loop device that could not be detached is left behind.
CommandFails(p) ==
  /\ faults < MaxFaults
  /\ proc[p].pc \notin {"idle", "remove", "unmake"}
  /\ faults' = faults + 1
  /\ proc' = [proc EXCEPT ![p] = IF At(p, "mkfs") THEN [proc[p] EXCEPT !.pc = "unmake"] ELSE Idle]
  /\ UNCHANGED <<store, system, served, want, resizes>>

\* A step whose command finds nothing to work on: what a bootstrap has made, one
\* beside it has renamed, removed or replaced.
NothingThere(p) ==
  /\ \/ At(p, "attach") /\ name[StagingName] = None
     \/ At(p, "rename") /\ name["tmp"] = None
     \/ proc[p].pc \in {"probe", "mount", "stat"} /\ name["image"] = None
     \/ At(p, "mount") /\ disk[name["image"]].fs = 0
     \/ proc[p].pc \in {"verify", "refresh", "growfs"} /\ mounted = None
     \/ At(p, "refresh") /\ mounted # name["image"]
  /\ proc' = [proc EXCEPT ![p] = Idle]
  /\ UNCHANGED <<store, system, served, bounds>>

Kill(p) ==
  /\ faults < MaxFaults /\ ~At(p, "idle")
  /\ faults' = faults + 1
  /\ proc' = [proc EXCEPT ![p] = Idle]
  /\ UNCHANGED <<store, system, served, want, resizes>>

\* The machine restarts.  systemd mounts what fstab says; the entry is nofail,
\* so the boot goes on when that does not work.
Reboot ==
  /\ faults < MaxFaults
  /\ faults' = faults + 1
  /\ \/ fstab /\ name["image"] # None /\ disk[name["image"]].fs # 0 /\ MountImage
     \/ mounted' = None /\ loopSize' = 0
  /\ proc' = [p \in Procs |-> Idle]
  /\ served' = FALSE
  /\ UNCHANGED <<name, disk, fstab, system, want, resizes>>

\* The user sets another PG_DATA_DISK_SIZE.
Resize ==
  /\ resizes < MaxSizes
  /\ want' \in Sizes \ {want} /\ resizes' = resizes + 1
  /\ UNCHANGED <<store, system, proc, served, faults>>

\* Up creates a cluster once Incus can have its container, and clients fill it.
StoreData ==
  /\ topology /\ mounted # None
  /\ disk' = [disk EXCEPT ![mounted].data = TRUE]
  /\ UNCHANGED <<name, mounted, loopSize, fstab, system, proc, served, bounds>>

Creates(p) == Remove(p) \/ Truncate(p) \/ Attach(p) \/ MakeFs(p) \/ Unmake(p) \/ Detach(p) \/ Rename(p)
Mounts(p) == EnsureFstab(p) \/ Mountpoint(p) \/ Probe(p) \/ Mount(p) \/ VerifyReflink(p)
Grows(p) == StatAndExtend(p) \/ RefreshLoop(p) \/ GrowFs(p)
Finishes(p) == EnsureLayout(p) \/ EnsureIncusOrdering(p) \/ EnsureTopology(p)
Bootstrap(p) == Creates(p) \/ Mounts(p) \/ Grows(p) \/ Finishes(p)

Next ==
  \/ \E p \in Procs : Start(p) \/ Bootstrap(p) \/ CommandFails(p) \/ Kill(p)
  \/ Reboot \/ Resize \/ StoreData

Spec == Init /\ [][Next]_vars
PairSpec == Init /\ [][Next \/ \E p \in Procs : NothingThere(p)]_vars

\* A bootstrap that began goes on.  Nobody has to start one.
Fairness == \A p \in Procs : WF_vars(Bootstrap(p))
FairSpec == Spec /\ Fairness

-----------------------------------------------------------------------------
(* Properties *)

\* Whatever was killed when, the file under the image's name is a complete XFS
\* filesystem: one that is not would be refused for ever (mountChecked).
ImageComplete == name["image"] # None => disk[name["image"]].fs # 0

\* A file with a database on it keeps its name and its filesystem: no bootstrap
\* ever replaces, unmounts or formats it (bootstrap.go: exists, createImage).
DataKept == \A i \in Inodes : disk[i].data => name["image"] = i /\ disk[i].fs # 0

\* Containers can exist only on a machine whose data root is mounted before
\* incusd starts at the next boot (ensureIncusOrdering), and from its own image.
BootOrder == topology => fstab /\ ordered /\ layout /\ name["image"] # None

\* A mounted filesystem is never larger than its device, nor the device than
\* the file: growing goes outside in.
GrownOutsideIn == mounted # None => disk[mounted].fs <= loopSize /\ loopSize <= disk[mounted].size

\* However many bootstraps failed or were killed, and wherever, the next one that
\* meets no fault of its own returns nil, with the store mounted: what they left
\* behind never has to be repaired by hand (bootstrap.go: createImage, mountChecked).
Undisturbed(p) == proc[p].pc \notin {"idle", "unmake"}
NextServes ==
  \A p \in Procs : \A n \in 0..MaxFaults :
    Undisturbed(p) /\ faults = n ~>
      faults > n \/ (served /\ mounted # None /\ mounted = name["image"])

\* A bootstrap that returned nil has grown the filesystem to the configured
\* size (bootstrap.go:14-17).
ServedGrown ==
  [][\A p \in Procs : EnsureTopology(p) => disk[mounted].fs >= proc[p].size]_vars
=============================================================================
