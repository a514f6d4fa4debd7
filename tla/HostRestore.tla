----------------------------- MODULE HostRestore -----------------------------
(***************************************************************************)
(* Snapshots and restores as the user sees them (cmd/pgdev/commands.go):   *)
(* a restore lists the snapshots, shows what it will discard, asks, and    *)
(* sends the daemon a name and a force flag.  Between any two of these     *)
(* other commands may snapshot, restore or promote, and the daemon looks   *)
(* at the snapshots again for itself (daemon/service.go).                  *)
(***************************************************************************)
EXTENDS Naturals, Sequences, SequencesExt

CONSTANTS
  Clis,        \* pgdev commands that may run at the same time
  Names,       \* names snapshots get
  MaxSnaps,    \* bound: snapshots ever taken
  MaxPromotes  \* bound: promotes

Slots == {"a", "b"}
None == "none"

ASSUME RestoreAssumption == None \notin Names /\ MaxSnaps \in Nat /\ MaxPromotes \in Nat

VARIABLES
  timeline, \* each machine's snapshots, oldest first, as a listing shows them
  work,     \* the task the daemon is running: the listing before it and after it
  active,   \* the active slot
  cli,      \* the commands
  taken, promotes

vars == <<timeline, work, active, cli, taken, promotes>>

Snap == [name : Names, n : 1..MaxSnaps]
NoWork == [who |-> None, before |-> <<>>, after |-> <<>>]
Idle == [pc |-> "idle", role |-> None, name |-> None, last |-> FALSE, force |-> FALSE, eff |-> FALSE,
         shown |-> None, slot |-> None, target |-> None, agreed |-> {}, seen |-> {}]

TypeOK ==
  /\ \A s \in Slots :
       /\ timeline[s] \in Seq(Snap)
       /\ \A i, j \in DOMAIN timeline[s] : i < j =>
            timeline[s][i].n < timeline[s][j].n /\ timeline[s][i].name # timeline[s][j].name
       /\ work[s].who \in Clis \cup {None}
  /\ active \in Slots
  /\ \A p \in Clis :
       /\ cli[p].pc \in {"idle", "client", "list", "confirm", "send", "runs"}
       /\ cli[p].shown \in Slots \cup {None} /\ cli[p].slot \in Slots \cup {None}
  /\ taken \in 0..MaxSnaps /\ promotes \in 0..MaxPromotes

Init ==
  /\ timeline = [s \in Slots |-> <<>>]
  /\ work = [s \in Slots |-> NoWork]
  /\ active = "a"
  /\ cli = [p \in Clis |-> Idle]
  /\ taken = 0 /\ promotes = 0

-----------------------------------------------------------------------------
(* Timelines *)

Has(snaps, name) == \E i \in DOMAIN snaps : snaps[i].name = name

Place(snaps, name) == CHOOSE i \in DOMAIN snaps : snaps[i].name = name

\* What is left of a timeline without what is newer than a snapshot in it, and
\* without that snapshot.
Upto(snaps, name) == SubSeq(snaps, 1, Place(snaps, name))
Without(snaps, name) == IF Has(snaps, name) THEN RemoveAt(snaps, Place(snaps, name)) ELSE snaps

LastName(snaps) == IF snaps = <<>> THEN None ELSE snaps[Len(snaps)].name

\* store.After: what is strictly newer than name; nothing for a name that is
\* not there.
After(snaps, name) ==
  {snaps[j] : j \in {k \in DOMAIN snaps : \E i \in 1..k - 1 : snaps[i].name = name}}

\* The host's own copy of it, and one that skips the first.
BadSnapshotsAfter(snaps, name) ==
  {snaps[j] : j \in {k \in DOMAIN snaps : \E i \in 1..k - 2 : snaps[i].name = name}}
SnapshotsAfter(snaps, name) == After(snaps, name)

\* The host takes the end of the list it is sent, which is oldest first.
BadMostRecent(snaps) == IF snaps = <<>> THEN None ELSE snaps[1].name
MostRecent(snaps) == LastName(snaps)

\* A snapshot is as old as its directory says, which is touched when it is made;
\* without that a replaced one keeps its place.
BadAdded(snaps, new) ==
  IF Has(snaps, new.name) THEN [i \in DOMAIN snaps |-> IF snaps[i].name = new.name THEN new ELSE snaps[i]]
  ELSE Append(snaps, new)
Added(snaps, new) == Append(Without(snaps, new.name), new)

-----------------------------------------------------------------------------
(* The host's commands *)

At(p, pc) == cli[p].pc = pc
RoleSlot(role) == IF role = "active" THEN active ELSE CHOOSE s \in Slots : s # active
Ends(p) == cli' = [cli EXCEPT ![p] = Idle]
world == <<timeline, work, taken>>

\* runRestore finds the machine it is going to talk about ...
Restore(p, role, name, force) ==
  /\ At(p, "idle")
  /\ cli' = [cli EXCEPT ![p] =
       [Idle EXCEPT !.pc = "client", !.role = role, !.name = name, !.last = (name = None),
                    !.force = force, !.eff = force, !.shown = RoleSlot(role)]]
  /\ UNCHANGED <<world, active, promotes>>

\* ... and then, again from the role, the daemon it talks to.
Client(p) ==
  /\ At(p, "client")
  /\ cli' = [cli EXCEPT ![p].pc = "list", ![p].slot = RoleSlot(cli[p].role)]
  /\ UNCHANGED <<world, active, promotes>>

\* The flag the daemon gets when the user was not asked.
BadEffForce(force) == TRUE
EffForce(force) == force

ListSnapshots(p) ==
  LET snaps == timeline[cli[p].slot]
      target == IF cli[p].last THEN MostRecent(snaps) ELSE cli[p].name
      lost == SnapshotsAfter(snaps, target)
  IN /\ At(p, "list")
     /\ IF target = None THEN Ends(p)
        ELSE cli' = [cli EXCEPT ![p].target = target, ![p].agreed = lost,
                                ![p].seen = ToSet(snaps),
                                ![p].eff = EffForce(cli[p].force),
                                ![p].pc = IF lost = {} \/ cli[p].force THEN "send" ELSE "confirm"]
     /\ UNCHANGED <<world, active, promotes>>

Confirm(p) ==
  /\ At(p, "confirm")
  /\ \/ cli' = [cli EXCEPT ![p].pc = "send", ![p].eff = TRUE]
     \/ Ends(p)
  /\ UNCHANGED <<world, active, promotes>>

-----------------------------------------------------------------------------
(* The daemon: one task at a time; a listing meanwhile sees the task's work *)

Begins(p, s, before, during, after) ==
  /\ timeline' = [timeline EXCEPT ![s] = during]
  /\ work' = [work EXCEPT ![s] = [who |-> p, before |-> before, after |-> after]]

\* The daemon resolves `last` for itself, refuses to lose what force does not
\* cover, and moves what is newer out of the timeline.
Send(p) ==
  LET s == cli[p].slot
      name == IF cli[p].last THEN LastName(timeline[s]) ELSE cli[p].name
      kept == Upto(timeline[s], name)
  IN /\ At(p, "send") /\ work[s] = NoWork
     /\ IF Has(timeline[s], name) /\ (cli[p].eff \/ After(timeline[s], name) = {})
          THEN /\ Begins(p, s, timeline[s], kept, kept)
               /\ cli' = [cli EXCEPT ![p].pc = "runs"]
          ELSE Ends(p) /\ UNCHANGED <<timeline, work>>
     /\ UNCHANGED <<active, taken, promotes>>

\* pgdev snapshot; --force replaces the snapshot of the same name, which is out
\* of the timeline until the new one is in.
Snapshot(p, role, name, force) ==
  LET s == RoleSlot(role)
  IN /\ At(p, "idle") /\ work[s] = NoWork /\ taken < MaxSnaps
     /\ Has(timeline[s], name) => force
     /\ taken' = taken + 1
     /\ Begins(p, s, timeline[s], Without(timeline[s], name),
               Added(timeline[s], [name |-> name, n |-> taken + 1]))
     /\ cli' = [cli EXCEPT ![p] = [Idle EXCEPT !.pc = "runs", !.slot = s]]
     /\ UNCHANGED <<active, promotes>>

\* The task commits, or is rolled back (TaskContract).
TaskEnds(p) ==
  LET s == cli[p].slot
  IN /\ At(p, "runs") /\ work[s].who = p
     /\ timeline' \in {[timeline EXCEPT ![s] = work[s].before], [timeline EXCEPT ![s] = work[s].after]}
     /\ work' = [work EXCEPT ![s] = NoWork]
     /\ Ends(p)
     /\ UNCHANGED <<active, taken, promotes>>

Promote ==
  /\ promotes < MaxPromotes
  /\ promotes' = promotes + 1
  /\ active' = RoleSlot("staging")
  /\ UNCHANGED <<world, cli>>

Next ==
  \/ \E p \in Clis :
       \/ Client(p) \/ ListSnapshots(p) \/ Confirm(p) \/ Send(p) \/ TaskEnds(p)
       \/ \E role \in {"active", "staging"}, force \in BOOLEAN :
            \/ \E name \in Names \cup {None} : Restore(p, role, name, force)
            \/ \E name \in Names : Snapshot(p, role, name, force)
  \/ Promote

Spec == Init /\ [][Next]_vars

-----------------------------------------------------------------------------
(* Properties *)

Lost(s) == ToSet(timeline[s]) \ ToSet(timeline'[s])

\* A restore discards the snapshots it has shown, on the machine it has named,
\* and no other (commands.go:405-406).
ConfirmedOnly ==
  [][\A p \in Clis, s \in Slots : Send(p) /\ ~cli[p].force /\ Lost(s) # {} =>
       s = cli[p].shown /\ Lost(s) \subseteq cli[p].agreed]_vars

\* The same when the machine has gained no snapshot since it was listed: it may
\* have lost some to other commands, or a task that was running may have ended.
ConfirmedUnlessNew ==
  [][\A p \in Clis :
       Send(p) /\ ~cli[p].force /\ ToSet(timeline[cli[p].slot]) \subseteq cli[p].seen =>
         Lost(cli[p].slot) \subseteq cli[p].agreed]_vars

\* A restore the user neither forced nor was asked about discards nothing, whatever
\* other commands did after it looked (service.go:230-240).
NothingLostUnasked ==
  [][\A p \in Clis, s \in Slots : Send(p) /\ ~cli[p].force /\ cli[p].agreed = {} => Lost(s) = {}]_vars

\* The machine goes back to the snapshot the user was told, which is there when
\* the restore begins (commands.go:424).
RestoresWhatItSaid ==
  [][\A p \in Clis : Send(p) /\ cli'[p].pc = "runs" =>
       /\ cli[p].slot = cli[p].shown
       /\ LastName(timeline'[cli[p].slot]) = cli[p].target]_vars

\* It does for a snapshot the user named, whatever other commands did, and for the
\* last one unless another is the last by now.
RestoresUnlessMoved ==
  [][\A p \in Clis :
       LET s == cli[p].slot
           there == ToSet(timeline[s])
           latest == \E x \in there \cap cli[p].seen : \A y \in there \cup cli[p].seen : y.n <= x.n
       IN Send(p) /\ cli'[p].pc = "runs" /\ (cli[p].last => latest) =>
            LastName(timeline'[s]) = cli[p].target]_vars
=============================================================================
