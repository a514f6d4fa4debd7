------------------------------- MODULE PgOps --------------------------------
(***************************************************************************)
(* Snapshot and restore of one slot: the step lists of internal/ops, the   *)
(* file-system primitives of internal/store they call, the container and   *)
(* its PostgreSQL as internal/backend drives them, and the entry points of *)
(* daemon.Service, run by the engine of TaskEngine.                        *)
(*                                                                         *)
(* A step is a list of primitive calls; the first that fails ends it, and  *)
(* the process can be killed between any two of them and inside a copy or  *)
(* a removal.  PostgreSQL clients write whenever it is up.                 *)
(***************************************************************************)
EXTENDS Integers, FiniteSets, SequencesExt

CONSTANTS
  Names,        \* snapshot names a client may use
  Timelines,    \* the snapshots that may exist when the model starts, oldest first
  MayReplace,   \* whether a snapshot request may carry Force
  EngineFaults, \* TaskEngine's Faults
  WorldFaults,  \* what the world may do to a step, a subset of WorldFaultKinds
  MaxTasks,     \* bound: mutations begun
  MaxWrites,    \* bound: contents the live data goes through
  MaxCrashes    \* bound: kills of the daemon

WorldFaultKinds ==
  {"cancel",    \* the client goes away: the context of the request is cancelled
   "backend",   \* an incus command fails
   "clone",     \* the reflink copy fails, e.g. on a full disk
   "reboot"}    \* a kill may take the container down as well

ASSUME OpsAssumption ==
  /\ IsFiniteSet(Names)
  /\ \A taken \in Timelines : taken \in Seq(Names) /\ taken # <<>> /\ IsInjective(taken)
  /\ MayReplace \in BOOLEAN
  /\ WorldFaults \subseteq WorldFaultKinds
  /\ MaxTasks \in Nat /\ MaxCrashes \in Nat
  /\ MaxWrites \in Nat /\ \A taken \in Timelines : MaxWrites >= Len(taken)

-----------------------------------------------------------------------------
(* The data tree of the slot: a directory per path, known by its content and *)
(* its modification time.                                                    *)

Gone == -3    \* no such path
Empty == -2   \* a fresh directory without a cluster
Torn == -1    \* an incomplete copy or a half-removed tree
Contents == 0..MaxWrites
Missing == [data |-> Gone, mtime |-> 0]

Current == <<"current", "">>
NewDir == <<"restore-new", "">>
OldDir == <<"restore-old", "">>
PruneDir == <<"restore-prune", "">>
Snap(n) == <<"snapshot", n>>
Staging(n) == <<"stage", n>>
Replaced(n) == <<"replaced", n>>
Pruned(n) == <<"pruned", n>>

Paths ==
  {Current, NewDir, OldDir, PruneDir}
    \cup UNION {{Snap(n), Staging(n), Replaced(n), Pruned(n)} : n \in Names}

Data == Contents \cup {Gone, Empty, Torn}
Directories == [data : Data, mtime : 0..(Cardinality(Names) + MaxTasks)]
Views == [current : Data, snaps : [Names -> Data], order : SUBSET (Names \X Names)]

Exists(fs, p) == fs[p] # Missing
With(fs, p, d) == [fs EXCEPT ![p] = d]

\* store.After over the listing ordered by mtime; hidden artifacts are not listed.
BadAfter(fs, n) ==
  {m \in Names : Exists(fs, Snap(m)) /\ fs[Snap(m)].mtime >= fs[Snap(n)].mtime}
After(fs, n) ==
  {m \in Names : Exists(fs, Snap(m)) /\ fs[Snap(m)].mtime > fs[Snap(n)].mtime}

-----------------------------------------------------------------------------
(* The tasks of ops, with the arguments captured when they were built. *)

SnapshotTasks == [kind : {"snapshot"}, name : Names, replaced : BOOLEAN]
RestoreTasks ==
  [kind : {"restore"}, name : Names, wasRunning : BOOLEAN, after : SUBSET Names]
Tasks == SnapshotTasks \cup RestoreTasks

Call(op) == [op |-> op, from |-> Current, to |-> Current]
Prim(op, from, to) == [op |-> op, from |-> from, to |-> to]
Move(from, to) == Prim("move", from, to)
RemoveAll(p) == Prim("remove", p, p)
StageClone(from, to) == <<RemoveAll(to), Prim("clone", from, to)>>
TouchNow(p) == Prim("touch", p, p)
MatchTopMode(ref, p) == Prim("chmod", ref, p)
EnsureDir(p) == Prim("mkdir", p, p)
ReturnUnless(p) == Prim("unless", p, p)

Step(do, undo) == [do |-> do, undo |-> undo]

\* buildSnapshot
BadStopPostgres == Step(<<>>, <<>>)
StopPostgres == Step(<<Call("StopPG")>>, <<>>)
StageSnapshot(n) ==
  Step(StageClone(Current, Staging(n)) \o <<TouchNow(Staging(n))>>,
       <<RemoveAll(Staging(n))>>)
BadAsideExisting(n) == Step(<<RemoveAll(Snap(n))>>, <<Move(Replaced(n), Snap(n))>>)
AsideExisting(n) ==
  Step(<<Move(Snap(n), Replaced(n))>>, <<Move(Replaced(n), Snap(n))>>)
Install(n) == Step(<<Move(Staging(n), Snap(n))>>, <<Move(Snap(n), Staging(n))>>)
DropReplaced(n) == Step(<<RemoveAll(Replaced(n))>>, <<>>)

SnapshotSteps(t) ==
  IF t.replaced
    THEN <<StopPostgres, StageSnapshot(t.name), AsideExisting(t.name),
           Install(t.name), DropReplaced(t.name)>>
    ELSE <<StopPostgres, StageSnapshot(t.name), Install(t.name)>>

\* buildRestore, with prune and unprune
BadStageRestore(n) ==
  Step(StageClone(Snap(n), NewDir) \o <<MatchTopMode(Current, NewDir)>>, <<>>)
StageRestore(n) ==
  Step(StageClone(Snap(n), NewDir) \o <<MatchTopMode(Current, NewDir)>>,
       <<RemoveAll(NewDir)>>)
StopTheContainer == Step(<<Call("StopContainer")>>, <<>>)
RepairIP == Step(<<Call("RepairIP")>>, <<>>)

SwapData ==
  Step(<<Move(Current, OldDir), Move(NewDir, Current)>>,
       <<ReturnUnless(OldDir), Call("StopContainerForce"),
         Move(Current, NewDir), Move(OldDir, Current)>>)

Listed(after) == SetToSeq(after)
Prune(after) ==
  IF after = {} THEN <<>>
  ELSE <<EnsureDir(PruneDir)>>
         \o [i \in 1..Len(Listed(after)) |->
               Move(Snap(Listed(after)[i]), Pruned(Listed(after)[i]))]
BadUnprune(after) == <<ReturnUnless(PruneDir), RemoveAll(PruneDir)>>
Unprune(after) ==
  <<ReturnUnless(PruneDir)>>
    \o [i \in 1..Len(Listed(after)) |->
          Move(Pruned(Listed(after)[i]), Snap(Listed(after)[i]))]
    \o <<RemoveAll(PruneDir)>>
PruneNewer(after) == Step(Prune(after), Unprune(after))

StartTheContainer ==
  Step(<<Call("StartContainerAndWait")>>, <<Call("StopContainerForce")>>)
CommitCleanup == Step(<<RemoveAll(OldDir), RemoveAll(PruneDir)>>, <<>>)

RestoreSteps(t) ==
  <<StageRestore(t.name), StopTheContainer, RepairIP, SwapData,
    PruneNewer(t.after), StartTheContainer, CommitCleanup>>

StepsOf(t) == IF t.kind = "snapshot" THEN SnapshotSteps(t) ELSE RestoreSteps(t)

BadCommit(t) == Len(StepsOf(t))
\* The commit point: "install" of a snapshot, "start-container" of a restore.
Commit(t) == IF t.kind = "restore" THEN 6 ELSE IF t.replaced THEN 4 ELSE 3

VARIABLES
  task, record, pc, caller, phase, at, err, reply,   \* TaskEngine
  fs,         \* [Paths -> Directories]
  ctr,        \* the container runs
  pg,         \* PostgreSQL answers in it
  sub,        \* the primitives of the running Do or Undo already executed
  cancelled,  \* the context of the request in progress is cancelled
  begun, written, crashes,   \* counters for the bounds
  before,     \* history: the slot as it was when the task began
  after,      \* history: the slot as the task is to leave it
  swapped,    \* history: the live data is the copy the restore made
  undone,     \* history: a rollback of this task has begun to undo
  marred      \* history: what has happened that the engine does not withstand

INSTANCE TaskEngine WITH
  Faults <- EngineFaults,
  StepCount <- [t \in Tasks |-> Len(StepsOf(t))],
  CommitAt <- [t \in Tasks |-> Commit(t)]

engine == <<task, record, pc, caller, phase, at, err, reply>>
counters == <<begun, written, crashes>>
history == <<before, after, swapped, undone, marred>>
world == <<fs, ctr, pg>>
vars == <<engine, world, sub, cancelled, counters, history>>

Place(seq, n) == CHOOSE i \in DOMAIN seq : seq[i] = n

\* store.List: the snapshots in the order of their stamps, as what comes before what.
Older(f, m, n) == Exists(f, Snap(m)) /\ Exists(f, Snap(n)) /\ f[Snap(m)].mtime < f[Snap(n)].mtime
List(f) == {e \in Names \X Names : Older(f, e[1], e[2])}

\* What a user can see of the slot.
View(f) == [current |-> f[Current].data,
            snaps |-> [n \in Names |-> f[Snap(n)].data],
            order |-> List(f)]

\* time.Now: later than every stamp on disk, for a task makes one at most.
Now == Cardinality(Names) + begun

\* The events after which a mutation may end between its two states: an undo
\* or an ensure that failed has its record cleared all the same, the undos of a
\* snapshot that replaces another are run a second time, a record lags behind
\* the commit point, a restart finds no live directory and makes an empty one
\* where the undo is to put it back, and the next mutation finds what those left
\* over.
Marrings == {"undo", "ensure", "again", "advance", "layout", "leftover"}
Mars(what) == marred' = marred \cup what

\* The record stays behind a rollback that has undone something: the next
\* recovery undoes it once more.
Again ==
  IF undone /\ record' # NoRecord /\ task.kind = "snapshot" /\ task.replaced THEN {"again"} ELSE {}

\* The slot keeps to its types; PostgreSQL only answers in a running container.
TypeOK ==
  /\ EngineTypeOK
  /\ fs \in [Paths -> Directories]
  /\ swapped \in BOOLEAN /\ undone \in BOOLEAN /\ marred \subseteq Marrings
  /\ ctr \in BOOLEAN /\ pg \in BOOLEAN /\ (pg => ctr)
  /\ sub \in 0..(3 + Cardinality(Names))
  /\ cancelled \in BOOLEAN
  /\ begun \in 0..MaxTasks /\ written \in 0..MaxWrites /\ crashes \in 0..MaxCrashes
  /\ {before, after} \subseteq Views

\* A running backend with some snapshots of its cluster, each of them older
\* than what is in the live data; Up leaves one, `initial`.
Init ==
  /\ EngineInit
  /\ \E taken \in Timelines :
       /\ task = [kind |-> "snapshot", name |-> taken[1], replaced |-> FALSE]
       /\ fs = [p \in Paths |->
            CASE p = Current -> [data |-> Len(taken), mtime |-> 0]
              [] p[1] = "snapshot" /\ Contains(taken, p[2]) ->
                   [data |-> Place(taken, p[2]) - 1, mtime |-> Place(taken, p[2])]
              [] OTHER -> Missing]
       /\ written = Len(taken)
  /\ ctr = TRUE /\ pg = TRUE
  /\ sub = 0 /\ cancelled = FALSE
  /\ begun = 0 /\ crashes = 0
  /\ before = View(fs) /\ after = View(fs) /\ swapped = FALSE
  /\ undone = FALSE /\ marred = {}

-----------------------------------------------------------------------------
(* The primitives.  An outcome is the world they leave and whether they       *)
(* returned nil.                                                              *)

Outcome(f, c, p, nil) == [fs |-> f, ctr |-> c, pg |-> p, nil |-> nil, cancel |-> cancelled]
FsOutcome(f, nil) == Outcome(f, ctr, pg, nil)

\* PostgreSQL comes up on a complete cluster only.
Bootable == fs[Current].data \in Contents

\* store.Move: refuses "both exist" and "neither exists".
MoveOutcome(a, b) ==
  CASE Exists(fs, a) /\ ~Exists(fs, b) -> FsOutcome(With(With(fs, b, fs[a]), a, Missing), TRUE)
    [] ~Exists(fs, a) /\ Exists(fs, b) -> FsOutcome(fs, TRUE)
    [] OTHER -> FsOutcome(fs, FALSE)

\* os.RemoveAll; removing the directory of pruned snapshots removes them too.
Removed(p) ==
  IF p = PruneDir
    THEN [q \in Paths |-> IF q = p \/ \E n \in Names : q = Pruned(n) THEN Missing ELSE fs[q]]
    ELSE With(fs, p, Missing)

\* A tree that is being removed or copied into is torn.
TornBy(prim) ==
  CASE prim.op = "clone" -> {With(fs, prim.to, [data |-> Torn, mtime |-> 0])}
    [] prim.op = "remove" /\ prim.from # PruneDir /\ Exists(fs, prim.from) ->
         {With(fs, prim.from, [fs[prim.from] EXCEPT !.data = Torn])}
    [] prim.op = "remove" /\ prim.from = PruneDir ->
         {With(fs, Pruned(n), [fs[Pruned(n)] EXCEPT !.data = Torn]) :
            n \in {m \in Names : Exists(fs, Pruned(m))}}
    [] OTHER -> {}

FsPrim(prim) ==
  CASE prim.op = "move"   -> MoveOutcome(prim.from, prim.to)
    [] prim.op = "remove" -> FsOutcome(Removed(prim.from), TRUE)
    [] prim.op = "clone"  ->
         IF Exists(fs, prim.from)
           THEN FsOutcome(With(fs, prim.to, fs[prim.from]), TRUE)
           ELSE FsOutcome(fs, FALSE)
    [] prim.op = "touch"  -> FsOutcome([fs EXCEPT ![prim.to].mtime = Now], TRUE)
    [] prim.op = "chmod"  -> FsOutcome(fs, Exists(fs, prim.from) /\ Exists(fs, prim.to))
    [] prim.op = "mkdir"  ->
         FsOutcome(IF Exists(fs, prim.to) THEN fs
                   ELSE With(fs, prim.to, [data |-> Empty, mtime |-> 0]), TRUE)
    [] OTHER -> FsOutcome(fs, TRUE)

\* The calls of internal/backend, when the incus commands they issue succeed.
BackendCall(op) ==
  CASE op = "StopPG"                -> Outcome(fs, ctr, FALSE, ctr)
    [] op = "StopContainer"         -> Outcome(fs, FALSE, FALSE, TRUE)
    [] op = "StopContainerForce"    -> Outcome(fs, FALSE, FALSE, TRUE)
    [] op = "StartContainerAndWait" -> Outcome(fs, TRUE, Bootable, Bootable)
    [] op = "EnsurePGRunning"       -> Outcome(fs, ctr, ctr /\ Bootable, ctr /\ Bootable)
    [] OTHER                        -> Outcome(fs, ctr, pg, TRUE)

BackendOps ==
  {"StopPG", "StopContainer", "StopContainerForce", "StartContainerAndWait",
   "EnsurePGRunning", "RepairIP"}

Failed(o) == Outcome(o.fs, o.ctr, o.pg, FALSE)
Cancelled(o) == [o EXCEPT !.cancel = TRUE]
Nothing == FsOutcome(fs, FALSE)

\* Only the handler of a request runs under the context of its client.
ByClient == caller \in {"request", "run"}
MayCancel == "cancel" \in WorldFaults /\ ByClient /\ ~cancelled

\* With the context cancelled no command starts; one that runs when the
\* cancellation arrives, or that fails, may or may not have had its effect.
BackendOutcomes(op) ==
  LET done == BackendCall(op) IN
  IF cancelled THEN {Nothing}
  ELSE {done}
         \cup {o \in {Failed(done), Nothing} : "backend" \in WorldFaults}
         \cup {Cancelled(o) : o \in {x \in {Failed(done), Nothing} : MayCancel}}

\* cp -a runs under the context as well.
CloneOutcomes(prim) ==
  LET torn == {FsOutcome(f, FALSE) : f \in TornBy(prim) \cup {fs}} IN
  IF cancelled THEN {Nothing}
  ELSE {FsPrim(prim)}
         \cup {o \in torn : "clone" \in WorldFaults}
         \cup {Cancelled(o) : o \in {x \in torn : MayCancel}}

Outcomes(prim) ==
  CASE prim.op \in BackendOps -> BackendOutcomes(prim.op)
    [] prim.op = "clone" -> CloneOutcomes(prim)
    [] OTHER -> {FsPrim(prim)}

Becomes(o) == fs' = o.fs /\ ctr' = o.ctr /\ pg' = o.pg

-----------------------------------------------------------------------------
(* Running the steps. *)

StepNow == StepsOf(task)[at + 1]
Program == IF pc = "do" THEN StepNow.do ELSE StepNow.undo

\* The next primitive of the running Do or Undo.  ReturnUnless(p) ends the
\* callback with nil when p does not exist.
RunPrim ==
  /\ pc \in {"do", "undo"} /\ sub < Len(Program)
  /\ LET prim == Program[sub + 1] IN
       \E o \in Outcomes(prim) :
         /\ Becomes(o) /\ cancelled' = o.cancel
         /\ IF o.nil
              THEN /\ sub' = IF prim.op = "unless" /\ ~Exists(fs, prim.from)
                               THEN Len(Program) ELSE sub + 1
                   /\ UNCHANGED engine
              ELSE /\ sub' = 0
                   /\ IF pc = "do" THEN StepFails ELSE UndoStep(TRUE)
         /\ LET moves(a, b) == prim = Move(a, b) /\ o.fs # fs IN
            swapped' = (moves(NewDir, Current) \/ (swapped /\ ~moves(Current, NewDir)))
         /\ undone' = (undone \/ pc = "undo")
         /\ Mars(IF pc = "undo" /\ ~o.nil THEN {"undo"} ELSE {})
  /\ UNCHANGED <<counters, before, after>>

\* The callback returns nil.
StepEnds ==
  /\ pc \in {"do", "undo"} /\ sub = Len(Program)
  /\ IF pc = "do" THEN StepDone ELSE UndoStep(FALSE)
  /\ sub' = 0
  /\ UNCHANGED <<world, cancelled, counters, history>>

Idles == UNCHANGED <<world, sub, counters, before, after, swapped, undone>>
Still == Idles /\ UNCHANGED marred

Advances ==
  /\ \/ AdvanceDone /\ UNCHANGED marred
     \/ AdvanceFails /\ Mars(IF record' < Commit(task) /\ at + 1 >= Commit(task) THEN {"advance"} ELSE {})
  /\ Idles /\ UNCHANGED cancelled

\* The ensures: PostgreSQL of a snapshotted slot, the container of a restored
\* one that was running.
EnsureOp(t) ==
  IF t.kind = "snapshot" THEN "EnsurePGRunning"
  ELSE IF t.wasRunning THEN "StartContainerAndWait" ELSE "none"

Ensures ==
  /\ pc = "ensure"
  /\ \E o \in IF EnsureOp(task) = "none" THEN {FsOutcome(fs, TRUE)}
                ELSE BackendOutcomes(EnsureOp(task)) :
       /\ Becomes(o) /\ cancelled' = o.cancel /\ RunEnsures(~o.nil)
       /\ Mars(IF o.nil \/ phase = "kept" THEN {} ELSE {"ensure"})
  /\ UNCHANGED <<sub, counters, before, after, swapped, undone>>

Clears == (ClearDone \/ ClearFails) /\ Mars(Again) /\ Idles /\ cancelled' = FALSE

-----------------------------------------------------------------------------
(* The service. *)

\* store.EnsureLayout makes the data directory when it is not there.
EnsureLayout ==
  IF Exists(fs, Current) THEN fs ELSE With(fs, Current, [data |-> Empty, mtime |-> 0])

\* ExecStartPre of the daemon's unit: Service.Bootstrap makes the layout before
\* the daemon recovers.  It may fail first, and the daemon starts all the same.
Bootstrap ==
  /\ pc = "down"
  /\ fs' = EnsureLayout
  /\ Mars(IF fs' = fs THEN {} ELSE {"layout"})
  /\ UNCHANGED <<engine, ctr, pg, sub, cancelled, counters, before, after, swapped, undone>>

Starts == (Startup \/ StartupFails) /\ Still /\ UNCHANGED cancelled

\* A mutation request, under the mutex: RecoverPending comes first.
Requests ==
  /\ begun < MaxTasks
  /\ Request \/ RequestFails
  /\ Still /\ UNCHANGED cancelled

\* Service.Snapshot: ops.Snapshot inspects the world and builds the task.
SnapshotTask(n) ==
  [kind |-> "snapshot", name |-> n, replaced |-> Exists(fs, Snap(n))]
SnapshotRefused(n, force) ==
  (Exists(fs, Snap(n)) /\ ~force) \/ ~ctr \/ ~Bootable \/ cancelled

\* Service.Restore: ops.Restore captures the snapshots to discard and whether
\* the container runs; without force nothing newer may be discarded.
RestoreTask(n) ==
  [kind |-> "restore", name |-> n, wasRunning |-> ctr, after |-> After(fs, n)]
RestoreRefused(n, force) ==
  ~Exists(fs, Snap(n)) \/ cancelled \/ (~force /\ After(fs, n) # {})

\* History: what the two operations are to do, whatever steps they take.
SnapshotView(v, n) ==
  [current |-> v.current,
   snaps |-> [v.snaps EXCEPT ![n] = v.current],
   order |-> {e \in v.order : n \notin {e[1], e[2]}}
               \cup {<<m, n>> : m \in {k \in Names \ {n} : v.snaps[k] # Gone}}]
RestoreView(v, n) ==
  LET newer == {m \in Names : <<n, m>> \in v.order} IN
  [current |-> v.snaps[n],
   snaps |-> [m \in Names |-> IF m \in newer THEN Gone ELSE v.snaps[m]],
   order |-> {e \in v.order : {e[1], e[2]} \cap newer = {}}]

BeginTask(t, promised) ==
  /\ \/ Begin(t)
     \/ BeginFails(t)
  /\ before' = View(fs')
  /\ after' = IF record' # NoRecord THEN promised
              ELSE IF View(fs) = after THEN View(fs') ELSE after
  /\ begun' = begun + 1 /\ swapped' = FALSE /\ undone' = FALSE
  /\ Mars(IF marred \subseteq {"ensure"} THEN {} ELSE {"leftover"})
  /\ UNCHANGED <<ctr, sub, cancelled, written, crashes>>

Snapshot(n, force) ==
  /\ pc = "begin" /\ ~SnapshotRefused(n, force)
  /\ fs' = EnsureLayout /\ pg' = TRUE
  /\ BeginTask(SnapshotTask(n), SnapshotView(View(fs'), n))

Restore(n, force) ==
  /\ pc = "begin" /\ ~RestoreRefused(n, force)
  /\ UNCHANGED <<fs, pg>>
  /\ BeginTask(RestoreTask(n), RestoreView(View(fs), n))

\* A refused request; a snapshot's prechecks make the layout first.
Refuses ==
  /\ Refuse
  /\ \E n \in Names :
       \/ SnapshotRefused(n, FALSE) /\ fs' = EnsureLayout
       \/ RestoreRefused(n, FALSE) /\ UNCHANGED fs
       \/ "backend" \in WorldFaults /\ UNCHANGED fs
  /\ begun' = begun + 1 /\ cancelled' = FALSE
  /\ UNCHANGED <<ctr, pg, sub, written, crashes, history>>

\* Service.Start and Service.Stop take the mutex and do not look at the journal.
Start ==
  /\ pc = "idle" /\ ~ctr
  /\ ctr' = TRUE /\ pg' = Bootable
  /\ UNCHANGED <<engine, fs, sub, cancelled, counters, history>>

Stop ==
  /\ pc = "idle" /\ ctr
  /\ ctr' = FALSE /\ pg' = FALSE
  /\ UNCHANGED <<engine, fs, sub, cancelled, counters, history>>

\* The daemon is killed, in the middle of a primitive when one is running.
Killed ==
  /\ crashes < MaxCrashes
  /\ Crash
  /\ fs' \in {fs} \cup (IF pc \in {"do", "undo"} /\ sub < Len(Program)
                          THEN TornBy(Program[sub + 1]) ELSE {})
  /\ \/ UNCHANGED <<ctr, pg>>
     \/ "reboot" \in WorldFaults /\ ctr' = FALSE /\ pg' = FALSE
  /\ sub' = 0 /\ cancelled' = FALSE /\ crashes' = crashes + 1
  /\ Mars(Again)
  /\ UNCHANGED <<begun, written, before, after, swapped, undone>>

\* A client of PostgreSQL commits a write.  It goes to the restored data once
\* the swap has happened, and into a snapshot only before the quiesce.
Write ==
  /\ pg /\ written < MaxWrites
  /\ LET new == written + 1 IN
       /\ written' = new
       /\ fs' = [fs EXCEPT ![Current].data = new]
       /\ before' = IF \/ record = NoRecord /\ View(fs) = before
                       \/ record # NoRecord /\ ~swapped
                      THEN [before EXCEPT !.current = new] ELSE before
       /\ after' =
            CASE record = NoRecord /\ View(fs) # after -> after
              [] record # NoRecord /\ task.kind = "restore" /\ ~swapped -> after
              [] record # NoRecord /\ task.kind = "snapshot" /\ pc = "do" /\ at = 0 ->
                   SnapshotView([after EXCEPT !.current = new], task.name)
              [] OTHER -> [after EXCEPT !.current = new]
  /\ UNCHANGED <<engine, ctr, pg, sub, cancelled, begun, crashes, swapped, undone, marred>>

Next ==
  \/ Bootstrap \/ Starts \/ Requests \/ Refuses
  \/ \E n \in Names : \/ \E force \in {FALSE, MayReplace} : Snapshot(n, force)
                      \/ \E force \in BOOLEAN : Restore(n, force)
  \/ RunPrim \/ StepEnds \/ Advances \/ Ensures \/ Clears
  \/ Start \/ Stop \/ Killed \/ Write

Spec == Init /\ [][Next]_vars

-----------------------------------------------------------------------------
(* Properties *)

Artifacts == Paths \ ({Current} \cup {Snap(n) : n \in Names})

\* With no journal record the slot is as it was before the last mutation or as
\* that mutation promised, and no transaction directory is left behind: what the
\* code promises of every interruption (task.go:15).
NeverBetween ==
  record = NoRecord =>
    /\ View(fs) \in {before, after}
    /\ \A p \in Artifacts : ~Exists(fs, p)

\* It keeps that promise through every kill, restart of the machine, failing
\* command, full disk, failing journal and client that goes away, but for the
\* Marrings.
Converged == marred \subseteq {"ensure"} => NeverBetween

OnDisk == {fs[p].data : p \in Paths}
Held(v) == {v.current} \cup {v.snaps[n] : n \in Names}

\* Until a mutation is durable on disk, everything it could have to put back
\* still exists whole somewhere, at every instant; from then on, everything it
\* promised does.  A mutation that ended otherwise than applied destroyed
\* nothing, not even when its rollback failed and was given up, or when a
\* restart made an empty live directory in its way.
NothingLost ==
  LET kept(v) == Held(v) \subseteq OnDisk \cup {Gone} IN
  marred \subseteq {"undo", "ensure", "layout"} =>
    CASE record = NoRecord      -> View(fs) = after \/ kept(before)
      [] record >= Commit(task) -> kept(after)
      [] OTHER                  -> kept(before)

\* The caller is told of success only when the slot is what it asked for.
NilMeansApplied ==
  pc = "idle" /\ caller = "run" /\ reply = "nil" /\ record = NoRecord
    => View(fs) = after

\* A copy of the live data is only ever taken while PostgreSQL is down.
CopiedQuiesced ==
  [][\A n \in Names :
       /\ fs'[Staging(n)].data \in Contents /\ ~Exists(fs, Staging(n))
       /\ fs'[Snap(n)] = fs[Snap(n)]
       => ~pg]_vars

\* A record goes only when PostgreSQL is up, unless the slot was down before a restore.
Restarted == record # NoRecord /\ record' = NoRecord /\ EnsureOp(task) # "none" => pg

\* The record goes only once PostgreSQL is up again (ops.go:99), however often the
\* mutation was interrupted, unless it is marred.
RunningWhenCleared == [][marred = {} => Restarted]_vars

\* Refinement: a snapshot or a restore is one AtomicTask.
AbstractStatus == IF record = NoRecord THEN "closed" ELSE "open"
AbstractOutcome ==
  IF \/ record = NoRecord /\ View(fs) = after
     \/ record # NoRecord /\ record >= Commit(task)
    THEN "applied" ELSE "unapplied"
Abstract == INSTANCE AtomicTask WITH status <- AbstractStatus, outcome <- AbstractOutcome

Atomic == Abstract!Spec
=============================================================================
