---------------------------- MODULE PgOpsProofs -----------------------------
(***************************************************************************)
(* Proofs about PgOps: for any names, timelines, bounds, kills, failures,  *)
(* cancellations and client writes.                                        *)
(***************************************************************************)
EXTENDS PgOps, SequenceTheorems, FiniteSetTheorems, TLAPS

-----------------------------------------------------------------------------
(* What a user sees, of the live content c and of the snapshots s. *)

Show(c, s) ==
  [current |-> c,
   snaps |-> [m \in Names |-> s[m].data],
   order |-> {e \in Names \X Names :
                s[e[1]] # Missing /\ s[e[2]] # Missing /\ s[e[1]].mtime < s[e[2]].mtime}]
Snaps(f) == [m \in Names |-> f[Snap(m)]]

Count(t) == IF t.kind = "restore" THEN 7 ELSE IF t.replaced THEN 5 ELSE 3
Installs(t) == IF t.replaced THEN 3 ELSE 2

Opened == record # NoRecord
Forward == phase = "run"
\* The forward run has executed k primitives of step i.
Past(i, k) == at > i \/ (at = i /\ (pc = "advance" \/ sub >= k))

-----------------------------------------------------------------------------
(* The engine *)

\* What pc, phase, at, record, caller and err say of each other.
EngineInv ==
  /\ pc \in {"down", "idle", "begin"} => phase = "none"
  /\ pc \in {"do", "advance"} =>
       /\ phase \in {"run", "rollforward"}
       /\ at \in 0..(Count(task) - 1)
  /\ phase = "run" => pc \in {"do", "advance"} /\ record = at /\ caller = "run"
  /\ pc = "undo" => phase = "rollback" /\ at >= 0
  /\ pc \in {"ensure", "clear"} => phase \in {"rollforward", "rollback", "kept"}
  /\ pc = "clear" => phase # "kept"
  /\ phase # "none" => Opened
  /\ phase = "none" => pc \in {"down", "idle", "begin"} /\ at = 0
  /\ phase = "rollback" => /\ record < Commit(task) /\ at < Commit(task)
                           /\ pc \in {"undo", "ensure", "clear"}
                           /\ pc # "undo" => at = -1
                           /\ caller = "run" => err
  /\ phase = "rollforward" => /\ at >= Commit(task) /\ pc \in {"do", "advance", "ensure", "clear"}
                              /\ pc \in {"ensure", "clear"} => at = Count(task)
                              /\ record >= Commit(task) \/ "advance" \in marred
                              /\ record <= at
  /\ phase = "kept" => /\ pc = "ensure"
                       /\ record >= Commit(task) \/ "advance" \in marred
                       /\ at = Count(task) - 1
  /\ pc = "begin" => ~Opened
  /\ sub > 0 => pc \in {"do", "undo"} /\ sub <= Len(Program)

-----------------------------------------------------------------------------
(* The world *)

\* What is there has a content, and no content or stamp comes from the future.
Sound(d) == (d # Missing => d.data # Gone) /\ d.data <= written /\ d.mtime <= Now
FsSound == \A p \in Paths : Sound(fs[p])
\* PostgreSQL runs on a complete cluster only.
PgUp == pg => Bootable
\* Only the live directory is ever made afresh.
Named == UNION {{Snap(m), Staging(m), Replaced(m), Pruned(m)} : m \in Names}
NoEmpties == \A p \in Named : fs[p].data # Empty
\* The state a mutation promises has a live directory that is no fresh one.
AfterSound == after.current \notin {Gone, Empty} /\ after.current <= written
\* The undo of swap-data moves the data of a stopped container.
StoppedUndo == pc = "undo" /\ task.kind = "restore" /\ at = 3 /\ sub \in {2, 3} => ~ctr
WorldInv == FsSound /\ PgUp /\ NoEmpties /\ AfterSound /\ StoppedUndo

\* The snapshots of f, with d put under the name n.
Put(f, n, d) == [m \in Names |-> IF m = n THEN d ELSE f[Snap(m)]]
\* A snapshot that runs forward: when nothing is staged yet, then with the
\* staged clone, then with the installed one, the promised state can be read
\* off the directories, and PostgreSQL is down from the first step on.
SnapshotForward ==
  LET n == task.name
      last == Installs(task)
  IN Forward /\ task.kind = "snapshot" =>
     /\ Bootable
     /\ Past(0, 1) => ~pg
     /\ ~Past(1, 3) => \A p \in Paths : fs[p].mtime < Now
     /\ Past(1, 2) /\ ~Past(last, 1) => /\ Exists(fs, Staging(n))
                                        /\ fs[Staging(n)].data = fs[Current].data
     /\ ~Past(last, 1) =>
          after = Show(fs[Current].data,
                       Put(fs, n, IF Past(1, 3) THEN fs[Staging(n)]
                                  ELSE [data |-> fs[Current].data, mtime |-> Now]))
     /\ ~Past(last, 1) => (Exists(fs, Snap(n)) <=> task.replaced /\ ~Past(2, 1))
     /\ Past(last, 1) => after = View(fs) /\ ~Exists(fs, Staging(n))

\* The snapshots of f without those a restore discards.
Cut(f) == [m \in Names |-> IF m \in task.after THEN Missing ELSE f[Snap(m)]]
Pruning == Listed(task.after)
\* A restore that runs forward: the promised state is the target first, then
\* its clone, then the live directory, each with the snapshots it keeps; the
\* container is stopped while the data are swapped.
RestoreForward ==
  LET n == task.name
  IN Forward /\ task.kind = "restore" =>
     /\ Past(1, 1) /\ ~Past(5, 1) => ~ctr
     /\ swapped <=> Past(3, 2)
     /\ n \notin task.after /\ Exists(fs, Snap(n))
     /\ ~Past(0, 2) => after = Show(fs[Snap(n)].data, Cut(fs))
     /\ Past(0, 2) /\ ~Past(3, 2) => Exists(fs, NewDir) /\ after = Show(fs[NewDir].data, Cut(fs))
     /\ Past(3, 2) => after = Show(fs[Current].data, Cut(fs)) /\ ~Exists(fs, NewDir)
     /\ Past(3, 1) /\ ~Past(3, 2) => ~Exists(fs, Current)
     /\ at = 4 /\ pc = "do" => \A i \in 1..(sub - 1) : ~Exists(fs, Snap(Pruning[i]))
     /\ Past(4, Len(Pruning) + 1) => \A m \in task.after : ~Exists(fs, Snap(m))

\* Beyond its commit point.
Applied == record >= Commit(task) \/ phase \in {"rollforward", "kept"}
\* Beyond the commit point a user sees the promised state, and so does the
\* client of a mutation that returned nil.
AppliedInv ==
  /\ Applied => View(fs) = after /\ (task.kind = "restore" => swapped)
  /\ pc = "idle" /\ caller = "run" /\ reply = "nil" /\ ~Opened => View(fs) = after

-----------------------------------------------------------------------------
(* Sequences *)

\* A concatenation SMT does not compute by itself.
LEMMA TwoAndOne == ASSUME NEW a, NEW b, NEW c PROVE <<a, b>> \o <<c>> = <<a, b, c>>
  <1> DEFINE S == {a, b, c}
  <1>1. <<a, b>> \in Seq(S) /\ <<c>> \in Seq(S) /\ <<a, b, c>> \in Seq(S)
    OBVIOUS
  <1>2. Len(<<a, b>>) = 2 /\ Len(<<c>>) = 1 /\ Len(<<a, b, c>>) = 3 OBVIOUS
  <1> HIDE DEF S
  <1>3. <<a, b>> \o <<c>> \in Seq(S) /\ Len(<<a, b>> \o <<c>>) = 3
        /\ \A i \in 1..3 : (<<a, b>> \o <<c>>)[i] = IF i <= 2 THEN <<a, b>>[i] ELSE <<c>>[i - 2]
    BY <1>1, <1>2, ConcatProperties
  <1>4. \A i \in 1..3 : (<<a, b>> \o <<c>>)[i] = <<a, b, c>>[i] BY <1>3
  <1>5. QED BY <1>1, <1>2, <1>3, <1>4, SeqEqual

\* A function on 1..k is a sequence of length k.
LEMMA FunctionSeq ==
  ASSUME NEW S, NEW k \in Nat, NEW g \in [1..k -> S]
  PROVE  g \in Seq(S) /\ Len(g) = k
  <1>1. g \in Seq(S) OBVIOUS
  <1>2. Len(g) \in Nat /\ DOMAIN g = 1..Len(g) /\ DOMAIN g = 1..k
    BY <1>1, LenProperties
  <1>3. k \in DOMAIN g \/ k = 0 BY <1>2
  <1>4. Len(g) \in DOMAIN g \/ Len(g) = 0 BY <1>2
  <1>5. QED BY <1>1, <1>2, <1>3, <1>4

-----------------------------------------------------------------------------
(* Paths *)

\* The two components of each path.
LEMMA PathKinds ==
  /\ Current[1] = "current" /\ NewDir[1] = "restore-new" /\ OldDir[1] = "restore-old"
  /\ PruneDir[1] = "restore-prune"
  /\ \A m : /\ Snap(m)[1] = "snapshot" /\ Snap(m)[2] = m
            /\ Staging(m)[1] = "stage" /\ Staging(m)[2] = m
            /\ Replaced(m)[1] = "replaced" /\ Replaced(m)[2] = m
            /\ Pruned(m)[1] = "pruned" /\ Pruned(m)[2] = m
  BY DEF Current, NewDir, OldDir, PruneDir, Snap, Staging, Replaced, Pruned

LEMMA PathTypes ==
  /\ Current \in Paths /\ NewDir \in Paths /\ OldDir \in Paths /\ PruneDir \in Paths
  /\ \A m \in Names : /\ Snap(m) \in Paths /\ Staging(m) \in Paths
                      /\ Replaced(m) \in Paths /\ Pruned(m) \in Paths
  BY DEF Paths

\* A path is one of these, and what kind it is tells which.
LEMMA PathCases ==
  ASSUME NEW p \in Paths
  PROVE  \/ p = Current \/ p = NewDir \/ p = OldDir \/ p = PruneDir
         \/ \E m \in Names : p = Snap(m) \/ p = Staging(m) \/ p = Replaced(m) \/ p = Pruned(m)
  BY DEF Paths

LEMMA ArtifactFacts ==
  /\ Artifacts \subseteq Paths
  /\ Current \notin Artifacts /\ NewDir \in Artifacts /\ OldDir \in Artifacts /\ PruneDir \in Artifacts
  /\ \A m \in Names : /\ Snap(m) \notin Artifacts /\ Staging(m) \in Artifacts
                      /\ Replaced(m) \in Artifacts /\ Pruned(m) \in Artifacts
  BY PathKinds, PathTypes DEF Artifacts

-----------------------------------------------------------------------------
(* The order in which snapshots are pruned *)

\* Every pruned name is listed, and nothing else.
LEMMA ListedFacts ==
  ASSUME NEW S \in SUBSET Names
  PROVE  /\ Listed(S) \in Seq(S) /\ Len(Listed(S)) \in 0..Cardinality(Names)
         /\ Listed(S) \in [1..Len(Listed(S)) -> S]
         /\ \A m \in S : \E i \in 1..Len(Listed(S)) : Listed(S)[i] = m
         /\ S = {} => Len(Listed(S)) = 0
  <1> DEFINE n == Cardinality(S)
  <1>1. IsFiniteSet(S) /\ n \in Nat /\ n <= Cardinality(Names) /\ Cardinality(Names) \in Nat
    BY OpsAssumption, FS_Subset, FS_CardinalityType
  <1>2. PICK f \in Bijection(1..n, S) : TRUE
    BY <1>1, FS_CardinalityType DEF ExistsBijection
  <1>3. f \in [1..n -> S] /\ IsInjective(f)
    BY <1>2 DEF Bijection, Injection, IsInjective
  <1>4. Listed(S) \in [1..n -> S] /\ IsInjective(Listed(S))
    BY <1>3 DEF Listed, SetToSeq
  <1>5. Listed(S) \in Injection(1..n, S) BY <1>4 DEF Injection, IsInjective
  <1>6. IsFiniteSet(1..n) /\ Cardinality(1..n) = n BY <1>1, FS_Interval
  <1>7. Listed(S) \in Surjection(1..n, S) BY <1>1, <1>5, <1>6, FS_Injection
  <1>8. Listed(S) \in Seq(S) /\ Len(Listed(S)) = n BY <1>1, <1>4, FunctionSeq
  <1>9. S = {} => n = 0 BY FS_EmptySet
  <1>10. \A m \in S : \E i \in 1..n : Listed(S)[i] = m BY <1>7 DEF Surjection
  <1>11. QED BY <1>1, <1>4, <1>8, <1>9, <1>10

-----------------------------------------------------------------------------
(* Tasks and their steps *)

DoOf(t, i) == StepsOf(t)[i + 1].do
UndoOf(t, i) == StepsOf(t)[i + 1].undo

\* How many steps a task has and where it commits.
LEMMA TaskFacts ==
  ASSUME NEW t \in Tasks
  PROVE  /\ t.name \in Names /\ t.kind \in {"snapshot", "restore"}
         /\ t.kind = "snapshot" => t.replaced \in BOOLEAN /\ t \in SnapshotTasks
         /\ t.kind = "restore" => t.after \in SUBSET Names /\ t.wasRunning \in BOOLEAN
                                  /\ t \in RestoreTasks
         /\ Count(t) \in {3, 5, 7} /\ Commit(t) \in {3, 4, 6}
         /\ Commit(t) <= Count(t) /\ Count(t) <= Commit(t) + 1
         /\ Len(StepsOf(t)) = Count(t)
  BY DEF Tasks, SnapshotTasks, RestoreTasks, StepsOf, SnapshotSteps, RestoreSteps, Count, Commit

\* The Do and Undo of each step, primitive by primitive.
LEMMA SnapshotProgram ==
  ASSUME NEW t \in SnapshotTasks
  PROVE  LET new == Staging(t.name)
             at_ == Snap(t.name)
             aside == Replaced(t.name)
         IN /\ DoOf(t, 0) = <<Call("StopPG")>>
            /\ DoOf(t, 1) = <<RemoveAll(new), Prim("clone", Current, new), TouchNow(new)>>
            /\ t.replaced => DoOf(t, 2) = <<Move(at_, aside)>> /\ DoOf(t, 4) = <<RemoveAll(aside)>>
            /\ DoOf(t, Installs(t)) = <<Move(new, at_)>>
            /\ UndoOf(t, 0) = <<>> /\ UndoOf(t, 1) = <<RemoveAll(new)>>
            /\ t.replaced => UndoOf(t, 2) = <<Move(aside, at_)>>
            /\ UndoOf(t, Installs(t)) = <<Move(at_, new)>>
  <1>1. StepsOf(t) = SnapshotSteps(t) BY DEF StepsOf, SnapshotTasks
  <1>2. <<RemoveAll(Staging(t.name)), Prim("clone", Current, Staging(t.name))>>
          \o <<TouchNow(Staging(t.name))>>
        = <<RemoveAll(Staging(t.name)), Prim("clone", Current, Staging(t.name)),
            TouchNow(Staging(t.name))>>
    BY TwoAndOne
  <1>3. t.replaced \in BOOLEAN BY DEF SnapshotTasks
  <1>4. QED
    BY <1>1, <1>2, <1>3
    DEF SnapshotSteps, StopPostgres, StageSnapshot, StageClone, AsideExisting, Install, DropReplaced,
        Step, DoOf, UndoOf, Installs

LEMMA RestoreProgram ==
  ASSUME NEW t \in RestoreTasks
  PROVE  /\ DoOf(t, 0) = <<RemoveAll(NewDir), Prim("clone", Snap(t.name), NewDir),
                           MatchTopMode(Current, NewDir)>>
         /\ DoOf(t, 1) = <<Call("StopContainer")>> /\ DoOf(t, 2) = <<Call("RepairIP")>>
         /\ DoOf(t, 3) = <<Move(Current, OldDir), Move(NewDir, Current)>>
         /\ DoOf(t, 4) = Prune(t.after)
         /\ DoOf(t, 5) = <<Call("StartContainerAndWait")>>
         /\ DoOf(t, 6) = <<RemoveAll(OldDir), RemoveAll(PruneDir)>>
         /\ UndoOf(t, 0) = <<RemoveAll(NewDir)>> /\ UndoOf(t, 1) = <<>> /\ UndoOf(t, 2) = <<>>
         /\ UndoOf(t, 3) = <<ReturnUnless(OldDir), Call("StopContainerForce"),
                             Move(Current, NewDir), Move(OldDir, Current)>>
         /\ UndoOf(t, 4) = Unprune(t.after)
         /\ UndoOf(t, 5) = <<Call("StopContainerForce")>>
  <1>1. StepsOf(t) = RestoreSteps(t) BY DEF StepsOf, RestoreTasks
  <1>2. <<RemoveAll(NewDir), Prim("clone", Snap(t.name), NewDir)>> \o <<MatchTopMode(Current, NewDir)>>
        = <<RemoveAll(NewDir), Prim("clone", Snap(t.name), NewDir), MatchTopMode(Current, NewDir)>>
    BY TwoAndOne
  <1>3. QED
    BY <1>1, <1>2
    DEF RestoreSteps, StageRestore, StageClone, StopTheContainer, RepairIP, SwapData, PruneNewer,
        StartTheContainer, CommitCleanup, Step, DoOf, UndoOf

\* The primitives of prune and unprune: a rename per listed name, and one more.
LEMMA PruneProgram ==
  ASSUME NEW S \in SUBSET Names
  PROVE  LET l == Listed(S) IN
         /\ Len(Prune(S)) = IF S = {} THEN 0 ELSE Len(l) + 1
         /\ S # {} => /\ Prune(S)[1] = EnsureDir(PruneDir)
                      /\ \A i \in 1..Len(l) : Prune(S)[i + 1] = Move(Snap(l[i]), Pruned(l[i]))
         /\ Len(Unprune(S)) = Len(l) + 2
         /\ Unprune(S)[1] = ReturnUnless(PruneDir)
         /\ \A i \in 1..Len(l) : Unprune(S)[i + 1] = Move(Pruned(l[i]), Snap(l[i]))
         /\ Unprune(S)[Len(l) + 2] = RemoveAll(PruneDir)
  <1> DEFINE l == Listed(S)
             moves == [i \in 1..Len(l) |-> Move(Snap(l[i]), Pruned(l[i]))]
             backs == [i \in 1..Len(l) |-> Move(Pruned(l[i]), Snap(l[i]))]
             P == [op : {"move", "mkdir", "unless", "remove"}, from : Paths, to : Paths]
  <1>1. Len(l) \in Nat /\ \A i \in 1..Len(l) : l[i] \in Names BY ListedFacts
  <1>2. moves \in [1..Len(l) -> P] /\ backs \in [1..Len(l) -> P]
    BY <1>1, PathTypes DEF Move, Prim
  <1>4. moves \in Seq(P) /\ Len(moves) = Len(l) /\ backs \in Seq(P) /\ Len(backs) = Len(l)
    BY <1>1, <1>2, FunctionSeq
  <1>5. /\ <<EnsureDir(PruneDir)>> \in Seq(P) /\ <<ReturnUnless(PruneDir)>> \in Seq(P)
        /\ <<RemoveAll(PruneDir)>> \in Seq(P)
    BY PathTypes DEF EnsureDir, ReturnUnless, RemoveAll, Prim
  <1> HIDE DEF l, moves, backs, P
  <1>6. /\ Len(<<EnsureDir(PruneDir)>> \o moves) = Len(l) + 1
        /\ (<<EnsureDir(PruneDir)>> \o moves)[1] = EnsureDir(PruneDir)
        /\ \A i \in 1..Len(l) : (<<EnsureDir(PruneDir)>> \o moves)[i + 1] = moves[i]
    BY <1>1, <1>4, <1>5, ConcatProperties
  <1>7. LET s == <<ReturnUnless(PruneDir)>> \o backs IN
        /\ s \in Seq(P) /\ Len(s) = Len(l) + 1
        /\ s[1] = ReturnUnless(PruneDir)
        /\ \A i \in 1..Len(l) : s[i + 1] = backs[i]
    BY <1>1, <1>4, <1>5, ConcatProperties
  <1>8. LET s == <<ReturnUnless(PruneDir)>> \o backs \o <<RemoveAll(PruneDir)>> IN
        /\ Len(s) = Len(l) + 2
        /\ s[1] = ReturnUnless(PruneDir)
        /\ \A i \in 1..Len(l) : s[i + 1] = backs[i]
        /\ s[Len(l) + 2] = RemoveAll(PruneDir)
    BY <1>1, <1>5, <1>7, ConcatProperties
  <1>9. /\ S # {} => Prune(S) = <<EnsureDir(PruneDir)>> \o moves
        /\ S = {} => Prune(S) = <<>>
        /\ Unprune(S) = <<ReturnUnless(PruneDir)>> \o backs \o <<RemoveAll(PruneDir)>>
    BY DEF Prune, Unprune, l, moves, backs
  <1>10. \A i \in 1..Len(l) : /\ moves[i] = Move(Snap(l[i]), Pruned(l[i]))
                              /\ backs[i] = Move(Pruned(l[i]), Snap(l[i]))
    BY DEF moves, backs
  <1>11. Len(<<>>) = 0 OBVIOUS
  <1>12. Len(Prune(S)) = IF S = {} THEN 0 ELSE Len(l) + 1 BY <1>6, <1>9, <1>11
  <1>13. S # {} => /\ Prune(S)[1] = EnsureDir(PruneDir)
                   /\ \A i \in 1..Len(l) : Prune(S)[i + 1] = Move(Snap(l[i]), Pruned(l[i]))
    BY <1>6, <1>9, <1>10
  <1>14. /\ Len(Unprune(S)) = Len(l) + 2
         /\ Unprune(S)[1] = ReturnUnless(PruneDir)
         /\ \A i \in 1..Len(l) : Unprune(S)[i + 1] = Move(Pruned(l[i]), Snap(l[i]))
         /\ Unprune(S)[Len(l) + 2] = RemoveAll(PruneDir)
    BY <1>8, <1>9, <1>10
  <1>15. QED BY <1>12, <1>13, <1>14 DEF l

-----------------------------------------------------------------------------
(* What a primitive does *)

Ran(prim, nil) == \E o \in Outcomes(prim) : Becomes(o) /\ cancelled' = o.cancel /\ o.nil = nil
Around == UNCHANGED <<ctr, pg, cancelled>>

Moved(a, b, nil) ==
  \/ nil /\ Exists(fs, a) /\ ~Exists(fs, b) /\ fs' = With(With(fs, b, fs[a]), a, Missing)
  \/ nil /\ ~Exists(fs, a) /\ Exists(fs, b) /\ fs' = fs
  \/ ~nil /\ (Exists(fs, a) <=> Exists(fs, b)) /\ fs' = fs
Cloned(a, b, nil) ==
  \/ nil /\ Exists(fs, a) /\ fs' = With(fs, b, fs[a])
  \/ ~nil /\ fs' \in {fs, With(fs, b, [data |-> Torn, mtime |-> 0])}
Made(p) == fs' = IF Exists(fs, p) THEN fs ELSE With(fs, p, [data |-> Empty, mtime |-> 0])
Called(op, nil) ==
  /\ fs' = fs
  /\ nil => BackendCall(op).nil
  /\ \/ ctr' = BackendCall(op).ctr /\ pg' = BackendCall(op).pg
     \/ ~nil /\ UNCHANGED <<ctr, pg>>

\* What each kind of primitive leaves of the directories, as an action.
LEMMA RanMove ==
  ASSUME NEW a, NEW b, NEW nil \in BOOLEAN, Ran(Move(a, b), nil)
  PROVE  Moved(a, b, nil) /\ Around
  <1>1. Move(a, b).op = "move" /\ Move(a, b).from = a /\ Move(a, b).to = b
    BY DEF Move, Prim
  <1>2. Outcomes(Move(a, b)) = {MoveOutcome(a, b)}
    BY <1>1 DEF Outcomes, BackendOps, FsPrim
  <1>3. fs' = MoveOutcome(a, b).fs /\ ctr' = MoveOutcome(a, b).ctr /\ pg' = MoveOutcome(a, b).pg
        /\ cancelled' = MoveOutcome(a, b).cancel /\ MoveOutcome(a, b).nil = nil
    BY <1>2 DEF Ran, Becomes
  <1>4. QED BY <1>3 DEF MoveOutcome, FsOutcome, Outcome, Moved, Around, Exists

LEMMA RanRemove ==
  ASSUME NEW p, NEW nil \in BOOLEAN, Ran(RemoveAll(p), nil)
  PROVE  nil /\ fs' = Removed(p) /\ Around
  <1>1. RemoveAll(p).op = "remove" /\ RemoveAll(p).from = p
    BY DEF RemoveAll, Prim
  <1>2. Outcomes(RemoveAll(p)) = {FsOutcome(Removed(p), TRUE)}
    BY <1>1 DEF Outcomes, BackendOps, FsPrim
  <1>3. QED BY <1>2 DEF Ran, Becomes, FsOutcome, Outcome, Around

LEMMA RanClone ==
  ASSUME NEW a, NEW b, NEW nil \in BOOLEAN, Ran(Prim("clone", a, b), nil)
  PROVE  Cloned(a, b, nil) /\ UNCHANGED <<ctr, pg>> /\ cancelled' \in {cancelled, TRUE}
  <1> DEFINE prim == Prim("clone", a, b)
             torn == {FsOutcome(f, FALSE) : f \in TornBy(prim) \cup {fs}}
  <1>1. prim.op = "clone" /\ prim.from = a /\ prim.to = b BY DEF Prim
  <1>2. TornBy(prim) = {With(fs, b, [data |-> Torn, mtime |-> 0])}
    BY <1>1 DEF TornBy
  <1>3. FsPrim(prim) = IF Exists(fs, a) THEN FsOutcome(With(fs, b, fs[a]), TRUE)
                       ELSE FsOutcome(fs, FALSE)
    BY <1>1 DEF FsPrim
  <1>4. PICK o \in CloneOutcomes(prim) : Becomes(o) /\ cancelled' = o.cancel /\ o.nil = nil
    BY <1>1 DEF Ran, Outcomes, BackendOps
  <1>5. \/ o = Nothing \/ o = FsPrim(prim)
        \/ \E x \in torn : o = x \/ o = Cancelled(x)
    BY <1>4 DEF CloneOutcomes
  <1>6. ASSUME NEW f, o = FsOutcome(f, FALSE) \/ o = Cancelled(FsOutcome(f, FALSE)),
               f \in TornBy(prim) \cup {fs}
        PROVE  Cloned(a, b, nil) /\ UNCHANGED <<ctr, pg>> /\ cancelled' \in {cancelled, TRUE}
    <2>1. o.fs = f /\ o.nil = FALSE /\ o.ctr = ctr /\ o.pg = pg /\ o.cancel \in {cancelled, TRUE}
      <3>1. CASE o = FsOutcome(f, FALSE) BY <3>1 DEF FsOutcome, Outcome
      <3>2. CASE o = Cancelled(FsOutcome(f, FALSE))
        BY <3>2 DEF FsOutcome, Outcome, Cancelled
      <3>3. QED BY <1>6, <3>1, <3>2
    <2>2. nil = FALSE /\ fs' = f /\ ctr' = ctr /\ pg' = pg /\ cancelled' = o.cancel
      BY <1>4, <2>1 DEF Becomes
    <2>3. f \in {fs, With(fs, b, [data |-> Torn, mtime |-> 0])} BY <1>2, <1>6
    <2>4. QED BY <2>1, <2>2, <2>3 DEF Cloned
  <1>7. CASE Exists(fs, a) /\ o = FsOutcome(With(fs, b, fs[a]), TRUE)
    <2>1. o.fs = With(fs, b, fs[a]) /\ o.nil = TRUE /\ o.ctr = ctr /\ o.pg = pg /\ o.cancel = cancelled
      BY <1>7 DEF FsOutcome, Outcome
    <2>2. nil /\ fs' = With(fs, b, fs[a]) /\ ctr' = ctr /\ pg' = pg /\ cancelled' = cancelled
      BY <1>4, <2>1 DEF Becomes
    <2>3. QED BY <1>7, <2>2 DEF Cloned
  <1>8. o = Nothing => o = FsOutcome(fs, FALSE) BY DEF Nothing
  <1>9. ASSUME NEW x \in torn, o = x \/ o = Cancelled(x)
        PROVE  Cloned(a, b, nil) /\ UNCHANGED <<ctr, pg>> /\ cancelled' \in {cancelled, TRUE}
    <2>1. PICK f \in TornBy(prim) \cup {fs} : x = FsOutcome(f, FALSE)
      OBVIOUS
    <2>2. QED BY <1>6, <1>9, <2>1
  <1>10. QED BY <1>3, <1>5, <1>6, <1>7, <1>8, <1>9

LEMMA RanTouch ==
  ASSUME NEW p, NEW nil \in BOOLEAN, Ran(TouchNow(p), nil)
  PROVE  nil /\ fs' = [fs EXCEPT ![p].mtime = Now] /\ Around
  <1>1. TouchNow(p).op = "touch" /\ TouchNow(p).to = p BY DEF TouchNow, Prim
  <1>2. Outcomes(TouchNow(p)) = {FsOutcome([fs EXCEPT ![p].mtime = Now], TRUE)}
    BY <1>1 DEF Outcomes, BackendOps, FsPrim
  <1>3. QED BY <1>2 DEF Ran, Becomes, FsOutcome, Outcome, Around

LEMMA RanChmod ==
  ASSUME NEW a, NEW p, NEW nil \in BOOLEAN, Ran(MatchTopMode(a, p), nil)
  PROVE  fs' = fs /\ Around
  <1>1. MatchTopMode(a, p).op = "chmod" /\ MatchTopMode(a, p).from = a /\ MatchTopMode(a, p).to = p
    BY DEF MatchTopMode, Prim
  <1>2. Outcomes(MatchTopMode(a, p)) = {FsOutcome(fs, Exists(fs, a) /\ Exists(fs, p))}
    BY <1>1 DEF Outcomes, BackendOps, FsPrim
  <1>3. QED BY <1>2 DEF Ran, Becomes, FsOutcome, Outcome, Around

LEMMA RanMkdir ==
  ASSUME NEW p, NEW nil \in BOOLEAN, Ran(EnsureDir(p), nil)
  PROVE  nil /\ Made(p) /\ Around
  <1>1. EnsureDir(p).op = "mkdir" /\ EnsureDir(p).to = p BY DEF EnsureDir, Prim
  <1>2. Outcomes(EnsureDir(p)) =
          {FsOutcome(IF Exists(fs, p) THEN fs ELSE With(fs, p, [data |-> Empty, mtime |-> 0]), TRUE)}
    BY <1>1 DEF Outcomes, BackendOps, FsPrim
  <1>3. QED BY <1>2 DEF Ran, Becomes, FsOutcome, Outcome, Around, Made

LEMMA RanUnless ==
  ASSUME NEW p, NEW nil \in BOOLEAN, Ran(ReturnUnless(p), nil)
  PROVE  nil /\ fs' = fs /\ Around
  <1>1. ReturnUnless(p).op = "unless" BY DEF ReturnUnless, Prim
  <1>2. Outcomes(ReturnUnless(p)) = {FsOutcome(fs, TRUE)}
    BY <1>1 DEF Outcomes, BackendOps, FsPrim
  <1>3. QED BY <1>2 DEF Ran, Becomes, FsOutcome, Outcome, Around

\* What a command of the backend leaves, whether it is a step or an ensure.
LEMMA BackendFacts ==
  ASSUME NEW op, NEW o \in BackendOutcomes(op), Becomes(o), cancelled' = o.cancel, o.nil \in BOOLEAN
  PROVE  Called(op, o.nil) /\ cancelled' \in {cancelled, TRUE}
  <1> DEFINE done == BackendCall(op)
  <1>1. PICK c, p, r : done = Outcome(fs, c, p, r)
    BY DEF BackendCall
  <1>2. done = [fs |-> fs, ctr |-> c, pg |-> p, nil |-> r, cancel |-> cancelled]
    BY <1>1 DEF Outcome
  <1> DEFINE failed == Outcome(fs, c, p, FALSE)
             nothing == Outcome(fs, ctr, pg, FALSE)
  <1>4. Failed(done) = failed /\ Nothing = nothing
    <2>1. done.fs = fs /\ done.ctr = c /\ done.pg = p BY <1>2
    <2>2. QED BY <2>1 DEF Failed, Nothing, FsOutcome
  <1>5. o \in {done, nothing, failed, Cancelled(nothing), Cancelled(failed)}
    BY <1>4 DEF BackendOutcomes
  <1>6. PICK nil, cancel : /\ nil => r
                           /\ cancel \in {cancelled, TRUE}
                           /\ \/ o = [fs |-> fs, ctr |-> c, pg |-> p, nil |-> nil, cancel |-> cancel]
                              \/ /\ ~nil
                                 /\ o = [fs |-> fs, ctr |-> ctr, pg |-> pg, nil |-> nil, cancel |-> cancel]
    <2>1. CASE o = done BY <1>2, <2>1
    <2>2. CASE o = nothing
      <3>1. o = [fs |-> fs, ctr |-> ctr, pg |-> pg, nil |-> FALSE, cancel |-> cancelled]
        BY <2>2 DEF Outcome
      <3>2. QED BY <3>1
    <2>3. CASE o = failed
      <3>1. o = [fs |-> fs, ctr |-> c, pg |-> p, nil |-> FALSE, cancel |-> cancelled]
        BY <2>3 DEF Outcome
      <3>2. QED BY <3>1
    <2>4. CASE o = Cancelled(nothing)
      <3>1. o = [fs |-> fs, ctr |-> ctr, pg |-> pg, nil |-> FALSE, cancel |-> TRUE]
        BY <2>4 DEF Cancelled, Outcome
      <3>2. QED BY <3>1
    <2>5. CASE o = Cancelled(failed)
      <3>1. o = [fs |-> fs, ctr |-> c, pg |-> p, nil |-> FALSE, cancel |-> TRUE]
        BY <2>5 DEF Cancelled, Outcome
      <3>2. QED BY <3>1
    <2>6. QED BY <1>5, <2>1, <2>2, <2>3, <2>4, <2>5
  <1> HIDE DEF done
  <1>7. BackendCall(op).ctr = c /\ BackendCall(op).pg = p /\ BackendCall(op).nil = r
    BY <1>2 DEF done
  <1>8. CASE o = [fs |-> fs, ctr |-> c, pg |-> p, nil |-> nil, cancel |-> cancel]
    BY <1>6, <1>7, <1>8 DEF Becomes, Called
  <1>9. CASE ~nil /\ o = [fs |-> fs, ctr |-> ctr, pg |-> pg, nil |-> nil, cancel |-> cancel]
    BY <1>6, <1>9 DEF Becomes, Called
  <1>10. QED BY <1>6, <1>8, <1>9

\* The same of the calls of the backend.
LEMMA RanCall ==
  ASSUME NEW op \in BackendOps, NEW nil \in BOOLEAN, Ran(Call(op), nil)
  PROVE  Called(op, nil) /\ cancelled' \in {cancelled, TRUE}
  <1>1. Call(op).op = op BY DEF Call
  <1>2. Call(op).op \in BackendOps /\ Call(op).op # "clone"
    BY <1>1 DEF BackendOps
  <1>3. Outcomes(Call(op)) = BackendOutcomes(op) BY <1>1, <1>2 DEF Outcomes
  <1>4. QED BY <1>3, BackendFacts DEF Ran

LEMMA CallFacts ==
  /\ BackendCall("StopPG") = Outcome(fs, ctr, FALSE, ctr)
  /\ BackendCall("StopContainer") = Outcome(fs, FALSE, FALSE, TRUE)
  /\ BackendCall("StopContainerForce") = Outcome(fs, FALSE, FALSE, TRUE)
  /\ BackendCall("StartContainerAndWait") = Outcome(fs, TRUE, Bootable, Bootable)
  /\ BackendCall("EnsurePGRunning") = Outcome(fs, ctr, ctr /\ Bootable, ctr /\ Bootable)
  /\ BackendCall("RepairIP") = Outcome(fs, ctr, pg, TRUE)
  BY DEF BackendCall

\* An outcome returns nil or an error.
LEMMA OutcomeTyped ==
  ASSUME NEW prim, NEW o \in Outcomes(prim), ctr \in BOOLEAN
  PROVE  o.nil \in BOOLEAN
  <1>1. \A f, r : r \in BOOLEAN => FsOutcome(f, r).nil \in BOOLEAN /\ Cancelled(FsOutcome(f, r)).nil \in BOOLEAN
    BY DEF FsOutcome, Outcome, Cancelled
  <1>2. \A f, c, p, r : r \in BOOLEAN => Outcome(f, c, p, r).nil \in BOOLEAN /\ Cancelled(Outcome(f, c, p, r)).nil \in BOOLEAN
    BY DEF Outcome, Cancelled
  <1>3. FsPrim(prim).nil \in BOOLEAN
    <2>1. \A a, b : MoveOutcome(a, b).nil \in BOOLEAN BY <1>1 DEF MoveOutcome
    <2>2. (Exists(fs, prim.from) /\ Exists(fs, prim.to)) \in BOOLEAN OBVIOUS
    <2>3. QED BY <1>1, <2>1, <2>2 DEF FsPrim
  <1>4. ASSUME NEW op, o \in BackendOutcomes(op)
        PROVE  o.nil \in BOOLEAN
    <2>1. BackendCall(op).nil \in BOOLEAN
      <3>1. Bootable \in BOOLEAN /\ (ctr /\ Bootable) \in BOOLEAN
        BY DEF Bootable
      <3>2. \/ BackendCall(op) = Outcome(fs, ctr, FALSE, ctr)
            \/ BackendCall(op) = Outcome(fs, TRUE, Bootable, Bootable)
            \/ BackendCall(op) = Outcome(fs, ctr, ctr /\ Bootable, ctr /\ Bootable)
            \/ \E c, p : BackendCall(op) = Outcome(fs, c, p, TRUE)
        <4>1. \/ op \in {"StopPG", "StopContainer", "StopContainerForce", "StartContainerAndWait",
                          "EnsurePGRunning"}
              \/ BackendCall(op) = Outcome(fs, ctr, pg, TRUE)
          BY DEF BackendCall
        <4>2. QED BY <4>1, CallFacts
      <3>3. \A c, p, r : r \in BOOLEAN => Outcome(fs, c, p, r).nil \in BOOLEAN
        BY DEF Outcome
      <3>4. CASE BackendCall(op) = Outcome(fs, ctr, ctr /\ Bootable, ctr /\ Bootable)
        <4>1. \A r \in BOOLEAN : BackendCall(op) = Outcome(fs, ctr, r, r) => BackendCall(op).nil \in BOOLEAN
          BY <3>3
        <4>2. QED BY <3>1, <3>4, <4>1
      <3>5. QED BY <3>1, <3>2, <3>3, <3>4
    <2>2. o = BackendCall(op) \/ \E c, p : o = Outcome(fs, c, p, FALSE) \/ o = Cancelled(Outcome(fs, c, p, FALSE))
      <3>1. o \in {BackendCall(op), Failed(BackendCall(op)), Nothing, Cancelled(Failed(BackendCall(op))), Cancelled(Nothing)}
        BY <1>4 DEF BackendOutcomes
      <3>2. \E c, p : Failed(BackendCall(op)) = Outcome(fs, c, p, FALSE)
        <4>1. BackendCall(op).fs = fs BY DEF BackendCall, Outcome
        <4>2. QED BY <4>1 DEF Failed
      <3>3. \E c, p : Nothing = Outcome(fs, c, p, FALSE)
        BY DEF Nothing, FsOutcome
      <3>4. QED BY <3>1, <3>2, <3>3
    <2>3. QED BY <1>2, <2>1, <2>2
  <1>5. ASSUME o \in CloneOutcomes(prim)
        PROVE  o.nil \in BOOLEAN
    <2>1. o = FsPrim(prim) \/ \E f : o = FsOutcome(f, FALSE) \/ o = Cancelled(FsOutcome(f, FALSE))
      <3> DEFINE torn == {FsOutcome(f, FALSE) : f \in TornBy(prim) \cup {fs}}
      <3>1. o \in {Nothing, FsPrim(prim)} \/ \E x \in torn : o = x \/ o = Cancelled(x)
        BY <1>5 DEF CloneOutcomes
      <3>2. QED BY <3>1 DEF Nothing
    <2>2. QED BY <1>1, <1>3, <2>1
  <1>6. o \in BackendOutcomes(prim.op) \/ o \in CloneOutcomes(prim) \/ o = FsPrim(prim)
    <2>1. CASE prim.op \in BackendOps
      <3>1. prim.op # "clone" BY <2>1 DEF BackendOps
      <3>2. QED BY <2>1, <3>1 DEF Outcomes
    <2>2. CASE prim.op \notin BackendOps BY <2>2 DEF Outcomes
    <2>3. QED BY <2>1, <2>2
  <1>7. QED BY <1>3, <1>4, <1>5, <1>6

-----------------------------------------------------------------------------
(* The same, path by path *)

FsTyped == fs \in [Paths -> Directories]
Keeps(S) == \A p \in Paths \ S : fs'[p] = fs[p]

\* What a primitive leaves where, of the paths it is about and of all others.
LEMMA MoveFacts ==
  ASSUME FsTyped, NEW a \in Paths, NEW b \in Paths, a # b, NEW nil \in BOOLEAN, Ran(Move(a, b), nil)
  PROVE  /\ Around
         /\ nil => /\ fs'[a] = Missing /\ fs'[b] = (IF Exists(fs, a) THEN fs[a] ELSE fs[b])
                   /\ fs'[b] # Missing
                   /\ Exists(fs, a) <=> ~Exists(fs, b)
                   /\ Keeps({a, b})
         /\ ~nil => fs' = fs /\ (Exists(fs, a) <=> Exists(fs, b))
  BY RanMove DEF Moved, With, Keeps, FsTyped, Exists

LEMMA RemoveFacts ==
  ASSUME FsTyped, NEW p \in Paths, p # PruneDir, NEW nil \in BOOLEAN, Ran(RemoveAll(p), nil)
  PROVE  Around /\ nil /\ fs'[p] = Missing /\ Keeps({p})
  BY RanRemove DEF Removed, With, Keeps, FsTyped

LEMMA RemovePruneFacts ==
  ASSUME FsTyped, NEW nil \in BOOLEAN, Ran(RemoveAll(PruneDir), nil)
  PROVE  /\ Around /\ nil /\ fs'[PruneDir] = Missing /\ \A m \in Names : fs'[Pruned(m)] = Missing
         /\ Keeps({PruneDir} \cup {Pruned(m) : m \in Names})
  BY RanRemove, PathTypes DEF Removed, Keeps

LEMMA CloneFacts ==
  ASSUME FsTyped, NEW a \in Paths, NEW b \in Paths, NEW nil \in BOOLEAN, Ran(Prim("clone", a, b), nil)
  PROVE  /\ UNCHANGED <<ctr, pg>>
         /\ nil => Exists(fs, a) /\ fs'[b] = fs[a]
         /\ ~nil => fs'[b] \in {fs[b], [data |-> Torn, mtime |-> 0]}
         /\ Keeps({b})
  <1>1. Cloned(a, b, nil) /\ UNCHANGED <<ctr, pg>> BY RanClone
  <1>2. \A d : With(fs, b, d)[b] = d /\ \A p \in Paths \ {b} : With(fs, b, d)[p] = fs[p]
    BY DEF With, FsTyped
  <1>3. QED BY <1>1, <1>2 DEF Cloned, Keeps

LEMMA TouchFacts ==
  ASSUME FsTyped, NEW p \in Paths, NEW nil \in BOOLEAN, Ran(TouchNow(p), nil)
  PROVE  Around /\ nil /\ fs'[p] = [data |-> fs[p].data, mtime |-> Now] /\ Keeps({p})
  <1>1. fs[p] \in Directories BY DEF FsTyped
  <1>2. fs[p] = [data |-> fs[p].data, mtime |-> fs[p].mtime]
    BY <1>1 DEF Directories
  <1>3. fs' = [fs EXCEPT ![p] = [fs[p] EXCEPT !.mtime = Now]] BY RanTouch
  <1>4. [fs[p] EXCEPT !.mtime = Now] = [data |-> fs[p].data, mtime |-> Now]
    BY <1>1 DEF Directories
  <1>5. QED BY <1>3, <1>4, RanTouch DEF FsTyped, Keeps

LEMMA MkdirFacts ==
  ASSUME FsTyped, NEW p \in Paths, NEW nil \in BOOLEAN, Ran(EnsureDir(p), nil)
  PROVE  /\ Around /\ nil /\ Keeps({p})
         /\ fs'[p] = IF Exists(fs, p) THEN fs[p] ELSE [data |-> Empty, mtime |-> 0]
  BY RanMkdir DEF Made, With, Keeps, FsTyped

-----------------------------------------------------------------------------
(* The running Do or Undo *)

NextPrim == Program[sub + 1]
EngineSame == UNCHANGED <<task, record, pc, caller, phase, at, err, reply>>
Is(i, k, prim) == at = i /\ sub = k /\ NextPrim = prim
Swaps(a, b) == NextPrim = Move(a, b) /\ fs' # fs

\* A step of the running Do or Undo is a primitive of it that returned.
LEMMA RunPrimFacts ==
  ASSUME RunPrim, ctr \in BOOLEAN
  PROVE  /\ pc \in {"do", "undo"} /\ sub < Len(Program)
         /\ UNCHANGED <<begun, written, crashes, before, after>>
         /\ undone' = (undone \/ pc = "undo")
         /\ swapped' = (Swaps(NewDir, Current) \/ (swapped /\ ~Swaps(Current, NewDir)))
         /\ \E nil \in BOOLEAN :
              /\ Ran(NextPrim, nil)
              /\ nil => /\ sub' = IF NextPrim.op = "unless" /\ ~Exists(fs, NextPrim.from)
                                    THEN Len(Program) ELSE sub + 1
                        /\ EngineSame /\ marred' = marred
              /\ ~nil => /\ sub' = 0
                         /\ pc = "do" => StepFails /\ marred' = marred
                         /\ pc = "undo" => UndoStep(TRUE) /\ marred' = marred \cup {"undo"}
  <1>1. PICK o \in Outcomes(NextPrim) :
          /\ Becomes(o) /\ cancelled' = o.cancel
          /\ IF o.nil
               THEN /\ sub' = IF NextPrim.op = "unless" /\ ~Exists(fs, NextPrim.from)
                                THEN Len(Program) ELSE sub + 1
                    /\ UNCHANGED engine
               ELSE /\ sub' = 0
                    /\ IF pc = "do" THEN StepFails ELSE UndoStep(TRUE)
          /\ LET moves(a, b) == NextPrim = Move(a, b) /\ o.fs # fs IN
             swapped' = (moves(NewDir, Current) \/ (swapped /\ ~moves(Current, NewDir)))
          /\ undone' = (undone \/ pc = "undo")
          /\ Mars(IF pc = "undo" /\ ~o.nil THEN {"undo"} ELSE {})
    BY DEF RunPrim, NextPrim
  <1>2. o.nil \in BOOLEAN BY OutcomeTyped
  <1>3. Ran(NextPrim, o.nil) BY <1>1 DEF Ran
  <1>4. swapped' = (Swaps(NewDir, Current) \/ (swapped /\ ~Swaps(Current, NewDir)))
    BY <1>1 DEF Swaps, Becomes
  <1>5. pc \in {"do", "undo"} /\ sub < Len(Program) /\ UNCHANGED <<begun, written, crashes, before, after>>
    BY DEF RunPrim, counters
  <1>6. o.nil => EngineSame BY <1>1 DEF engine, EngineSame
  <1>7. marred' = marred \cup (IF pc = "undo" /\ ~o.nil THEN {"undo"} ELSE {})
    BY <1>1 DEF Mars
  <1>8. QED BY <1>1, <1>2, <1>3, <1>4, <1>5, <1>6, <1>7

\* Where the running Do or Undo is in its step list.
LEMMA ProgramIs ==
  /\ pc = "do" => Program = DoOf(task, at)
  /\ pc = "undo" => Program = UndoOf(task, at)
  BY DEF Program, StepNow, DoOf, UndoOf

\* The calls a snapshot makes, and the first of the step they belong to.
LEMMA SnapshotDo ==
  ASSUME task \in SnapshotTasks, pc = "do", at \in 0..(Count(task) - 1), sub \in Nat, sub < Len(Program)
  PROVE  LET n == task.name IN
            \/ Is(0, 0, Call("StopPG")) /\ Len(Program) = 1
            \/ Is(1, 0, RemoveAll(Staging(n))) /\ Len(Program) = 3
            \/ Is(1, 1, Prim("clone", Current, Staging(n))) /\ Len(Program) = 3
            \/ Is(1, 2, TouchNow(Staging(n))) /\ Len(Program) = 3
            \/ task.replaced /\ Is(2, 0, Move(Snap(n), Replaced(n))) /\ Len(Program) = 1
            \/ Is(Installs(task), 0, Move(Staging(n), Snap(n))) /\ Len(Program) = 1
            \/ task.replaced /\ Is(4, 0, RemoveAll(Replaced(n))) /\ Len(Program) = 1
  <1>1. task.replaced \in BOOLEAN /\ Program = DoOf(task, at)
    BY ProgramIs DEF SnapshotTasks
  <1>2. \/ at = 0 \/ at = 1 \/ at = Installs(task) \/ (task.replaced /\ at \in {2, 4})
    BY <1>1 DEF Count, Installs, SnapshotTasks
  <1>3. \A a : Len(<<a>>) = 1 /\ <<a>>[1] = a OBVIOUS
  <1>4. \A a, b, c : Len(<<a, b, c>>) = 3 /\ <<a, b, c>>[1] = a /\ <<a, b, c>>[2] = b /\ <<a, b, c>>[3] = c
    OBVIOUS
  <1>5. CASE at = 1
    <2>1. Program = <<RemoveAll(Staging(task.name)), Prim("clone", Current, Staging(task.name)),
                      TouchNow(Staging(task.name))>>
      BY <1>1, <1>5, SnapshotProgram
    <2>2. Len(Program) = 3 /\ sub \in {0, 1, 2} BY <1>4, <2>1
    <2>3. QED BY <1>4, <1>5, <2>1, <2>2 DEF NextPrim, Is
  <1>6. ASSUME NEW prim, Program = <<prim>>
        PROVE  Len(Program) = 1 /\ sub = 0 /\ NextPrim = prim
    <2>1. Len(Program) = 1 /\ sub = 0 BY <1>3, <1>6
    <2>2. QED BY <1>3, <1>6, <2>1 DEF NextPrim
  <1>7. CASE at = 0 BY <1>1, <1>6, <1>7, SnapshotProgram DEF Is
  <1>8. CASE at = Installs(task) BY <1>1, <1>6, <1>8, SnapshotProgram DEF Is
  <1>9. CASE task.replaced /\ at = 2 BY <1>1, <1>6, <1>9, SnapshotProgram DEF Is
  <1>10. CASE task.replaced /\ at = 4
    BY <1>1, <1>6, <1>10, SnapshotProgram DEF Is
  <1>11. QED BY <1>2, <1>5, <1>7, <1>8, <1>9, <1>10

\* The undos of a snapshot: only staging, aside and install have one.
LEMMA SnapshotUndo ==
  ASSUME task \in SnapshotTasks, pc = "undo", at \in 0..(Commit(task) - 1), sub \in Nat, sub < Len(Program)
  PROVE  LET n == task.name IN
            /\ sub = 0 /\ Len(Program) = 1
            /\ \/ Is(1, 0, RemoveAll(Staging(n)))
               \/ task.replaced /\ Is(2, 0, Move(Replaced(n), Snap(n)))
               \/ Is(Installs(task), 0, Move(Snap(n), Staging(n)))
  <1>1. task.replaced \in BOOLEAN /\ Program = UndoOf(task, at)
    BY ProgramIs DEF SnapshotTasks
  <1>2. \/ at = 0 \/ at = 1 \/ at = Installs(task) \/ (task.replaced /\ at = 2)
    BY <1>1 DEF Commit, Installs, SnapshotTasks
  <1>3. \A a : Len(<<a>>) = 1 /\ <<a>>[1] = a OBVIOUS
  <1>4. Len(<<>>) = 0 OBVIOUS
  <1>5. at # 0 BY <1>1, <1>4, SnapshotProgram
  <1>6. ASSUME NEW prim, Program = <<prim>>
        PROVE  Len(Program) = 1 /\ sub = 0 /\ NextPrim = prim
    <2>1. Len(Program) = 1 /\ sub = 0 BY <1>3, <1>6
    <2>2. QED BY <1>3, <1>6, <2>1 DEF NextPrim
  <1>7. CASE at = 1 BY <1>1, <1>6, <1>7, SnapshotProgram DEF Is
  <1>8. CASE at = Installs(task) BY <1>1, <1>6, <1>8, SnapshotProgram DEF Is
  <1>9. CASE task.replaced /\ at = 2 BY <1>1, <1>6, <1>9, SnapshotProgram DEF Is
  <1>10. QED BY <1>2, <1>5, <1>7, <1>8, <1>9

\* The calls a restore makes.
LEMMA RestoreDo ==
  ASSUME task \in RestoreTasks, pc = "do", at \in 0..(Count(task) - 1), sub \in Nat, sub < Len(Program)
  PROVE  LET l == Listed(task.after) IN
         \/ Is(0, 0, RemoveAll(NewDir)) /\ Len(Program) = 3
         \/ Is(0, 1, Prim("clone", Snap(task.name), NewDir)) /\ Len(Program) = 3
         \/ Is(0, 2, MatchTopMode(Current, NewDir)) /\ Len(Program) = 3
         \/ Is(1, 0, Call("StopContainer")) /\ Len(Program) = 1
         \/ Is(2, 0, Call("RepairIP")) /\ Len(Program) = 1
         \/ Is(3, 0, Move(Current, OldDir)) /\ Len(Program) = 2
         \/ Is(3, 1, Move(NewDir, Current)) /\ Len(Program) = 2
         \/ Is(4, 0, EnsureDir(PruneDir)) /\ Len(Program) = Len(l) + 1
         \/ sub \in 1..Len(l) /\ Is(4, sub, Move(Snap(l[sub]), Pruned(l[sub]))) /\ Len(Program) = Len(l) + 1
         \/ Is(5, 0, Call("StartContainerAndWait")) /\ Len(Program) = 1
         \/ Is(6, 0, RemoveAll(OldDir)) /\ Len(Program) = 2
         \/ Is(6, 1, RemoveAll(PruneDir)) /\ Len(Program) = 2
  <1>1. task.after \in SUBSET Names /\ Program = DoOf(task, at) /\ at \in 0..6
    BY ProgramIs DEF RestoreTasks, Count
  <1>2. \A a : Len(<<a>>) = 1 /\ <<a>>[1] = a OBVIOUS
  <1>3. \A a, b : Len(<<a, b>>) = 2 /\ <<a, b>>[1] = a /\ <<a, b>>[2] = b
    OBVIOUS
  <1>4. \A a, b, c : Len(<<a, b, c>>) = 3 /\ <<a, b, c>>[1] = a /\ <<a, b, c>>[2] = b /\ <<a, b, c>>[3] = c
    OBVIOUS
  <1>5. ASSUME NEW prim, Program = <<prim>>
        PROVE  Len(Program) = 1 /\ sub = 0 /\ NextPrim = prim
    <2>1. Len(Program) = 1 /\ sub = 0 BY <1>2, <1>5
    <2>2. QED BY <1>2, <1>5, <2>1 DEF NextPrim
  <1>6. ASSUME NEW prim, NEW prim2, Program = <<prim, prim2>>
        PROVE  Len(Program) = 2 /\ ((sub = 0 /\ NextPrim = prim) \/ (sub = 1 /\ NextPrim = prim2))
    <2>1. Len(Program) = 2 /\ sub \in {0, 1} BY <1>3, <1>6
    <2>2. CASE sub = 0 BY <1>3, <1>6, <2>1, <2>2 DEF NextPrim
    <2>3. CASE sub = 1 BY <1>3, <1>6, <2>1, <2>3 DEF NextPrim
    <2>4. QED BY <2>1, <2>2, <2>3
  <1>7. CASE at = 0
    <2>1. Program = <<RemoveAll(NewDir), Prim("clone", Snap(task.name), NewDir),
                      MatchTopMode(Current, NewDir)>>
      BY <1>1, <1>7, RestoreProgram
    <2>2. Len(Program) = 3 /\ sub \in {0, 1, 2} BY <1>4, <2>1
    <2>3. QED BY <1>4, <1>7, <2>1, <2>2 DEF NextPrim, Is
  <1>8. CASE at \in {1, 2, 5} BY <1>1, <1>5, <1>8, RestoreProgram DEF Is
  <1>9. CASE at = 3 BY <1>1, <1>6, <1>9, RestoreProgram DEF Is
  <1>10. CASE at = 6 BY <1>1, <1>6, <1>10, RestoreProgram DEF Is
  <1>11. CASE at = 4
    <2> DEFINE l == Listed(task.after)
    <2>1. Len(l) \in Nat /\ Program = Prune(task.after)
      BY <1>1, <1>11, ListedFacts, RestoreProgram
    <2>2. task.after # {}
      <3>1. Len(<<>>) = 0 OBVIOUS
      <3>2. QED BY <2>1, <3>1 DEF Prune
    <2>3. Len(Program) = Len(l) + 1 /\ Program[1] = EnsureDir(PruneDir)
          /\ \A i \in 1..Len(l) : Program[i + 1] = Move(Snap(l[i]), Pruned(l[i]))
      BY <1>1, <2>1, <2>2, PruneProgram
    <2> HIDE DEF l
    <2>4. sub = 0 \/ sub \in 1..Len(l) BY <2>1, <2>3
    <2>5. QED BY <1>11, <2>3, <2>4 DEF NextPrim, Is, l
  <1>12. QED BY <1>1, <1>7, <1>8, <1>9, <1>10, <1>11

\* The undos of a restore.
LEMMA RestoreUndo ==
  ASSUME task \in RestoreTasks, pc = "undo", at \in 0..(Commit(task) - 1), sub \in Nat, sub < Len(Program)
  PROVE  LET l == Listed(task.after) IN
         \/ Is(0, 0, RemoveAll(NewDir)) /\ Len(Program) = 1
         \/ Is(3, 0, ReturnUnless(OldDir)) /\ Len(Program) = 4
         \/ Is(3, 1, Call("StopContainerForce")) /\ Len(Program) = 4
         \/ Is(3, 2, Move(Current, NewDir)) /\ Len(Program) = 4
         \/ Is(3, 3, Move(OldDir, Current)) /\ Len(Program) = 4
         \/ Is(4, 0, ReturnUnless(PruneDir)) /\ Len(Program) = Len(l) + 2
         \/ sub \in 1..Len(l) /\ Is(4, sub, Move(Pruned(l[sub]), Snap(l[sub]))) /\ Len(Program) = Len(l) + 2
         \/ Is(4, Len(l) + 1, RemoveAll(PruneDir)) /\ Len(Program) = Len(l) + 2
         \/ Is(5, 0, Call("StopContainerForce")) /\ Len(Program) = 1
  <1>1. task.after \in SUBSET Names /\ Program = UndoOf(task, at) /\ at \in 0..5
    BY ProgramIs DEF RestoreTasks, Commit
  <1>2. \A a : Len(<<a>>) = 1 /\ <<a>>[1] = a OBVIOUS
  <1>3. \A a, b, c, d : /\ Len(<<a, b, c, d>>) = 4 /\ <<a, b, c, d>>[1] = a /\ <<a, b, c, d>>[2] = b
                        /\ <<a, b, c, d>>[3] = c /\ <<a, b, c, d>>[4] = d
    OBVIOUS
  <1>4. ASSUME NEW prim, Program = <<prim>>
        PROVE  Len(Program) = 1 /\ sub = 0 /\ NextPrim = prim
    <2>1. Len(Program) = 1 /\ sub = 0 BY <1>2, <1>4
    <2>2. QED BY <1>2, <1>4, <2>1 DEF NextPrim
  <1>5. at \notin {1, 2}
    <2>1. Len(<<>>) = 0 OBVIOUS
    <2>2. QED BY <1>1, <2>1, RestoreProgram
  <1>6. CASE at \in {0, 5} BY <1>1, <1>4, <1>6, RestoreProgram DEF Is
  <1>7. CASE at = 3
    <2>1. Program = <<ReturnUnless(OldDir), Call("StopContainerForce"),
                      Move(Current, NewDir), Move(OldDir, Current)>>
      BY <1>1, <1>7, RestoreProgram
    <2>2. Len(Program) = 4 /\ sub \in {0, 1, 2, 3} BY <1>3, <2>1
    <2>3. QED BY <1>3, <1>7, <2>1, <2>2 DEF NextPrim, Is
  <1>8. CASE at = 4
    <2> DEFINE l == Listed(task.after)
    <2>1. Len(l) \in Nat /\ Program = Unprune(task.after)
      BY <1>1, <1>8, ListedFacts, RestoreProgram
    <2>2. Len(Program) = Len(l) + 2 /\ Program[1] = ReturnUnless(PruneDir)
          /\ Program[Len(l) + 2] = RemoveAll(PruneDir)
          /\ \A i \in 1..Len(l) : Program[i + 1] = Move(Pruned(l[i]), Snap(l[i]))
      BY <1>1, <2>1, PruneProgram
    <2> HIDE DEF l
    <2>3. sub = 0 \/ sub \in 1..Len(l) \/ sub = Len(l) + 1 BY <2>1, <2>2
    <2>4. QED BY <1>8, <2>1, <2>2, <2>3 DEF NextPrim, Is, l
  <1>9. QED BY <1>1, <1>5, <1>6, <1>7, <1>8

\* Whatever is running, its next call is one of these, on paths of the slot.
Kinded ==
  \/ \E a, b \in Paths : a # b /\ NextPrim = Move(a, b)
  \/ \E p \in Paths : \/ NextPrim = RemoveAll(p) \/ NextPrim = TouchNow(p)
                      \/ NextPrim = EnsureDir(p) \/ NextPrim = ReturnUnless(p)
  \/ \E a, b \in Paths : NextPrim = Prim("clone", a, b) \/ NextPrim = MatchTopMode(a, b)
  \/ \E op \in BackendOps : NextPrim = Call(op)

\* A primitive is of one of these kinds, with these arguments.
LEMMA PrimKinds ==
  ASSUME task \in Tasks, pc \in {"do", "undo"}, sub \in Nat, sub < Len(Program), at \in Nat,
         pc = "do" => at <= Count(task) - 1, pc = "undo" => at <= Commit(task) - 1
  PROVE  Kinded
  <1>1. task.name \in Names /\ Commit(task) \in {3, 4, 6} /\ Count(task) \in {3, 5, 7}
    BY TaskFacts
  <1>2. CASE task \in SnapshotTasks
    <2>1. CASE pc = "do"
      BY <1>1, <1>2, <2>1, SnapshotDo, PathTypes, PathKinds DEF Is, BackendOps, Kinded
    <2>2. CASE pc = "undo"
      BY <1>1, <1>2, <2>2, SnapshotUndo, PathTypes, PathKinds DEF Is, BackendOps, Kinded
    <2>3. QED BY <2>1, <2>2
  <1>3. CASE task \in RestoreTasks
    <2>1. \A i \in 1..Len(Listed(task.after)) : Listed(task.after)[i] \in Names
      BY <1>3, ListedFacts DEF RestoreTasks
    <2>2. CASE pc = "do"
      BY <1>1, <1>3, <2>1, <2>2, RestoreDo, PathTypes, PathKinds DEF Is, BackendOps, Kinded
    <2>3. CASE pc = "undo"
      BY <1>1, <1>3, <2>1, <2>3, RestoreUndo, PathTypes, PathKinds DEF Is, BackendOps, Kinded
    <2>4. QED BY <2>2, <2>3
  <1>4. QED BY <1>2, <1>3 DEF Tasks

-----------------------------------------------------------------------------
(* Types of the world *)

WorldTyped == FsTyped /\ ctr \in BOOLEAN /\ pg \in BOOLEAN /\ (pg => ctr)

LEMMA MissingTyped ==
  /\ Missing \in Directories
  /\ begun \in 0..MaxTasks => Now \in 0..(Cardinality(Names) + MaxTasks)
  /\ \A d \in {Gone, Empty, Torn} : [data |-> d, mtime |-> 0] \in Directories
  <1>1. Cardinality(Names) \in Nat /\ MaxTasks \in Nat
    BY OpsAssumption, FS_CardinalityType
  <1>2. QED BY <1>1 DEF Missing, Directories, Data, Now

\* No call of the backend leaves PostgreSQL running in a stopped container.
LEMMA CalledTyped ==
  ASSUME WorldTyped, NEW op, NEW nil \in BOOLEAN, Called(op, nil)
  PROVE  WorldTyped'
  <1>1. BackendCall(op).ctr \in BOOLEAN /\ BackendCall(op).pg \in BOOLEAN
        /\ (BackendCall(op).pg => BackendCall(op).ctr)
    <2>1. Bootable \in BOOLEAN /\ (ctr /\ Bootable) \in BOOLEAN BY DEF Bootable
    <2>2. \A c, p, r : Outcome(fs, c, p, r).ctr = c /\ Outcome(fs, c, p, r).pg = p
      BY DEF Outcome
    <2>3. CASE op = "EnsurePGRunning"
      <3>1. BackendCall(op).ctr = ctr /\ BackendCall(op).pg = (ctr /\ Bootable)
        BY <2>2, <2>3, CallFacts
      <3>2. QED BY <2>1, <3>1 DEF WorldTyped
    <2>4. CASE op # "EnsurePGRunning"
      <3>1. \/ op \in {"StopPG", "StopContainer", "StopContainerForce", "StartContainerAndWait"}
            \/ BackendCall(op) = Outcome(fs, ctr, pg, TRUE)
        BY <2>4 DEF BackendCall
      <3>2. op = "StopPG" => BackendCall(op).ctr = ctr /\ BackendCall(op).pg = FALSE
        BY CallFacts DEF Outcome
      <3>3. op \in {"StopContainer", "StopContainerForce"} =>
              BackendCall(op).ctr = FALSE /\ BackendCall(op).pg = FALSE
        BY CallFacts DEF Outcome
      <3>4. op = "StartContainerAndWait" => BackendCall(op).ctr = TRUE /\ BackendCall(op).pg = Bootable
        BY CallFacts DEF Outcome
      <3>5. BackendCall(op) = Outcome(fs, ctr, pg, TRUE) =>
              BackendCall(op).ctr = ctr /\ BackendCall(op).pg = pg
        BY DEF Outcome
      <3>6. QED BY <2>1, <3>1, <3>2, <3>3, <3>4, <3>5 DEF WorldTyped
    <2>5. QED BY <2>3, <2>4
  <1>2. QED BY <1>1 DEF Called, WorldTyped, FsTyped

\* A primitive keeps the world to its types.
LEMMA RanTyped ==
  ASSUME WorldTyped, begun \in 0..MaxTasks, NEW nil \in BOOLEAN, Ran(NextPrim, nil),
         Kinded
  PROVE  WorldTyped'
  <1>1. \A p \in Paths, d \in Directories : With(fs, p, d) \in [Paths -> Directories]
    BY DEF With, WorldTyped, FsTyped
  <1>2. ASSUME NEW a \in Paths, NEW b \in Paths, a # b, NextPrim = Move(a, b)
        PROVE  WorldTyped'
    <2>1. Moved(a, b, nil) /\ Around BY <1>2, RanMove
    <2>2. fs' \in [Paths -> Directories]
      BY <2>1, MissingTyped DEF Moved, With, WorldTyped, FsTyped
    <2>3. QED BY <2>1, <2>2 DEF Around, WorldTyped, FsTyped
  <1>3. ASSUME NEW p \in Paths, NextPrim = RemoveAll(p)
        PROVE  WorldTyped'
    <2>1. fs' = Removed(p) /\ Around BY <1>3, RanRemove
    <2>2. p = PruneDir => fs' \in [Paths -> Directories]
      BY <2>1, MissingTyped DEF Removed, WorldTyped, FsTyped
    <2>3. p # PruneDir => fs' \in [Paths -> Directories]
      BY <1>1, <2>1, MissingTyped DEF Removed
    <2>4. QED BY <2>1, <2>2, <2>3 DEF Around, WorldTyped, FsTyped
  <1>4. ASSUME NEW p \in Paths, NextPrim = TouchNow(p)
        PROVE  WorldTyped'
    <2>1. fs' = [fs EXCEPT ![p].mtime = Now] /\ Around BY <1>4, RanTouch
    <2>2. fs[p] \in Directories BY DEF WorldTyped, FsTyped
    <2>3. fs' \in [Paths -> Directories]
      <3> DEFINE d == [data |-> fs[p].data, mtime |-> Now]
      <3>1. d \in Directories BY <2>2, MissingTyped DEF Directories
      <3>2. [fs[p] EXCEPT !.mtime = Now] = d BY <2>2 DEF Directories
      <3>3. fs' = [fs EXCEPT ![p] = d] BY <2>1, <3>2
      <3>4. QED BY <3>1, <3>3 DEF WorldTyped, FsTyped
    <2>4. QED BY <2>1, <2>3 DEF Around, WorldTyped, FsTyped
  <1>5. ASSUME NEW p \in Paths, NextPrim = EnsureDir(p)
        PROVE  WorldTyped'
    <2>1. Made(p) /\ Around BY <1>5, RanMkdir
    <2>2. fs' = fs \/ fs' = With(fs, p, [data |-> Empty, mtime |-> 0])
      BY <2>1 DEF Made
    <2>3. [data |-> Empty, mtime |-> 0] \in Directories BY MissingTyped
    <2>4. fs' \in [Paths -> Directories]
      BY <1>1, <2>2, <2>3 DEF WorldTyped, FsTyped
    <2>5. QED BY <2>1, <2>4 DEF Around, WorldTyped, FsTyped
  <1>6. ASSUME NEW p \in Paths, NextPrim = ReturnUnless(p)
        PROVE  WorldTyped'
    BY <1>6, RanUnless DEF Around, WorldTyped, FsTyped
  <1>7. ASSUME NEW a \in Paths, NEW b \in Paths, NextPrim = Prim("clone", a, b)
        PROVE  WorldTyped'
    <2>1. Cloned(a, b, nil) /\ UNCHANGED <<ctr, pg>> BY <1>7, RanClone
    <2>2. \/ fs' = fs \/ fs' = With(fs, b, fs[a])
          \/ fs' = With(fs, b, [data |-> Torn, mtime |-> 0])
      BY <2>1 DEF Cloned
    <2>3. fs[a] \in Directories /\ [data |-> Torn, mtime |-> 0] \in Directories
      BY MissingTyped DEF WorldTyped, FsTyped
    <2>4. fs' \in [Paths -> Directories]
      BY <1>1, <2>2, <2>3 DEF WorldTyped, FsTyped
    <2>5. QED BY <2>1, <2>4 DEF WorldTyped, FsTyped
  <1>8. ASSUME NEW a \in Paths, NEW b \in Paths, NextPrim = MatchTopMode(a, b)
        PROVE  WorldTyped'
    BY <1>8, RanChmod DEF Around, WorldTyped, FsTyped
  <1>9. ASSUME NEW op \in BackendOps, NextPrim = Call(op)
        PROVE  WorldTyped'
    BY <1>9, RanCall, CalledTyped
  <1>10. QED BY <1>2, <1>3, <1>4, <1>5, <1>6, <1>7, <1>8, <1>9 DEF Kinded

-----------------------------------------------------------------------------
(* The engine, with the numbers of steps in place *)

EngineTyped ==
  /\ task \in Tasks
  /\ record \in -1..Count(task)
  /\ pc \in {"down", "idle", "begin", "do", "advance", "undo", "ensure", "clear"}
  /\ caller \in {"startup", "request", "run"}
  /\ phase \in {"none", "run", "rollforward", "kept", "rollback"}
  /\ at \in -1..Count(task)
  /\ err \in BOOLEAN
  /\ reply \in {"none", "nil", "error"}
Top(n) == IF n < Count(task) THEN "do" ELSE "ensure"
Resolved(n) ==
  \/ /\ n >= Commit(task)
     /\ phase' = "rollforward" /\ at' = n /\ pc' = Top(n) /\ err' = FALSE /\ err' \in BOOLEAN
  \/ /\ n < Commit(task)
     /\ phase' = "rollback" /\ at' = n /\ pc' = "undo" /\ err' \in BOOLEAN /\ (err' <=> phase = "run")

\* The type invariant of the engine with the numbers of steps in place.
LEMMA EngineTypedIs == EngineTypeOK <=> EngineTyped
  <1>1. task \in Tasks => Count(task) \in Nat /\ Len(StepsOf(task)) = Count(task)
    BY TaskFacts
  <1>2. QED BY <1>1 DEF EngineTypeOK, EngineTyped, NoRecord

\* Where resolve goes from a record that says n.
LEMMA ResolveFacts ==
  ASSUME task \in Tasks, NEW n \in Nat, Resolve(n)
  PROVE  Resolved(n)
  <1>1. Count(task) \in Nat /\ Len(StepsOf(task)) = Count(task) /\ Commit(task) <= Count(task) /\ Commit(task) \in Nat
    BY TaskFacts
  <1>2. Durable(task, n) <=> n >= Commit(task) BY DEF Durable
  <1>3. n < Commit(task) => RollbackStart(task, n) = n BY <1>1 DEF RollbackStart
  <1>4. LoopTop(task, n) = Top(n) BY <1>1 DEF LoopTop, Top
  <1>5. CASE n >= Commit(task) BY <1>1, <1>2, <1>4, <1>5 DEF Resolve, Resolved
  <1>6. CASE n < Commit(task)
    <2>1. phase' = "rollback" /\ at' = n /\ pc' = "undo" /\ err' = (phase = "run")
      BY <1>1, <1>2, <1>3, <1>6 DEF Resolve
    <2>2. err' \in BOOLEAN BY <2>1
    <2>3. QED BY <1>6, <2>1, <2>2 DEF Resolved
  <1>7. QED BY <1>1, <1>5, <1>6

LEMMA LoopTopFacts ==
  ASSUME task \in Tasks, NEW n
  PROVE  LoopTop(task, n) = Top(n)
  BY TaskFacts DEF LoopTop, Top

LEMMA AdvanceFacts ==
  ASSUME task \in Tasks, AdvanceDone
  PROVE  /\ pc = "advance" /\ record' = at + 1 /\ at' = at + 1 /\ pc' = Top(at + 1)
         /\ phase' = (IF at + 1 = Count(task) THEN "rollforward" ELSE phase)
         /\ UNCHANGED <<task, caller, err, reply>>
  BY TaskFacts, LoopTopFacts DEF AdvanceDone

LEMMA RecoverFacts ==
  ASSUME task \in Tasks, record \in {NoRecord} \cup Nat, NEW who, Recover(who)
  PROVE  /\ caller' = who /\ UNCHANGED <<task, record>>
         /\ \/ record = NoRecord /\ pc' = AfterReturn(who, FALSE) /\ reply' = "nil" /\ UNCHANGED <<phase, at, err>>
            \/ record # NoRecord /\ Resolved(record) /\ reply' = "none"
  BY ResolveFacts DEF Recover

LEMMA ForwardFailsFacts ==
  ASSUME task \in Tasks, NEW n \in Nat, ForwardFails(n)
  PROVE  /\ \/ phase = "run" /\ Resolved(n)
            \/ phase = "rollforward" /\ phase' = "kept" /\ pc' = "ensure" /\ err' = TRUE /\ UNCHANGED at
         /\ UNCHANGED <<caller, reply>>
  BY ResolveFacts DEF ForwardFails

LEMMA BeginFacts ==
  ASSUME NEW t \in Tasks, Begin(t)
  PROVE  /\ pc = "begin" /\ task' = t /\ record' = 0 /\ caller' = "run" /\ phase' = "run" /\ at' = 0
         /\ pc' = "do" /\ err' = FALSE /\ reply' = "none"
  BY TaskFacts DEF Begin, LoopTop

-----------------------------------------------------------------------------
(* Every step keeps the engine consistent *)

EngineOK == EngineTyped /\ EngineInv /\ sub \in Nat

LEMMA CountSame == task' = task => Count(task)' = Count(task) /\ Commit(task)' = Commit(task)
  BY DEF Count, Commit

\* The actions of the engine, one by one, keep it consistent.
LEMMA EngineStarts ==
  ASSUME EngineOK, Starts \/ Requests
  PROVE  EngineOK'
  <1>1. PICK who \in {"startup", "request"} :
          /\ pc = (IF who = "startup" THEN "down" ELSE "idle")
          /\ Recover(who) \/ RecoverFails(who)
          /\ UNCHANGED <<sub, marred>>
    BY DEF Starts, Requests, Startup, StartupFails, Request, RequestFails, Still, Idles
  <1>2. task \in Tasks /\ record \in {NoRecord} \cup Nat /\ sub = 0 /\ phase = "none"
    BY <1>1 DEF EngineOK, EngineTyped, EngineInv, NoRecord
  <1>3. Commit(task) \in Nat /\ Count(task) \in Nat /\ Commit(task) <= Count(task)
    BY <1>2, TaskFacts
  <1>4. CASE Recover(who)
    <2>1. /\ caller' = who /\ UNCHANGED <<task, record>>
          /\ \/ record = NoRecord /\ pc' = AfterReturn(who, FALSE) /\ reply' = "nil" /\ UNCHANGED <<phase, at, err>>
             \/ record # NoRecord /\ Resolved(record) /\ reply' = "none"
      BY <1>2, <1>4, RecoverFacts
    <2>2. CASE record = NoRecord
      BY <1>1, <1>2, <1>3, <2>1, <2>2, CountSame
      DEF EngineOK, EngineTyped, EngineInv, AfterReturn, Opened, Resolved, Top
    <2>3. CASE record # NoRecord
      <3>1. /\ record \in 0..Count(task) /\ Resolved(record) /\ task' = task /\ record' = record
            /\ caller' = who /\ reply' = "none" /\ sub' = 0 /\ marred' = marred
        <4>1. record \in 0..Count(task)
          BY <1>3, <2>3 DEF EngineOK, EngineTyped, NoRecord
        <4>2. QED BY <1>1, <1>2, <2>1, <2>3, <4>1
      <3>2. Count(task)' = Count(task) /\ Commit(task)' = Commit(task)
        BY <3>1, CountSame
      <3>3. CASE record >= Commit(task)
        <4>1. phase' = "rollforward" /\ at' = record /\ pc' = Top(record) /\ err' = FALSE /\ err' \in BOOLEAN
          BY <1>3, <3>1, <3>3 DEF Resolved
        <4>2. EngineTyped'
          BY <1>1, <1>2, <1>3, <3>1, <3>2, <4>1 DEF EngineTyped, Top
        <4>3. EngineInv'
          BY <1>1, <1>2, <1>3, <3>1, <3>2, <3>3, <4>1 DEF EngineInv, Top, Opened, NoRecord
        <4>4. QED BY <3>1, <4>2, <4>3 DEF EngineOK
      <3>4. CASE record < Commit(task)
        <4>1. phase' = "rollback" /\ at' = record /\ pc' = "undo" /\ err' \in BOOLEAN
          BY <1>2, <1>3, <3>1, <3>4 DEF Resolved
        <4>2. EngineTyped' BY <1>1, <1>2, <1>3, <3>1, <3>2, <4>1 DEF EngineTyped
        <4>3. EngineInv'
          BY <1>1, <1>2, <1>3, <3>1, <3>2, <3>4, <4>1 DEF EngineInv, Opened, NoRecord
        <4>4. QED BY <3>1, <4>2, <4>3 DEF EngineOK
      <3>5. QED BY <1>3, <3>1, <3>3, <3>4
    <2>4. QED BY <2>2, <2>3
  <1>5. CASE RecoverFails(who)
    BY <1>1, <1>2, <1>3, <1>5, CountSame
    DEF EngineOK, EngineTyped, EngineInv, RecoverFails, AfterReturn, Opened
  <1>6. QED BY <1>1, <1>4, <1>5

LEMMA EngineRefuses ==
  ASSUME EngineOK, Refuses
  PROVE  EngineOK'
  <1>1. Refuse /\ sub' = sub /\ marred' = marred /\ sub = 0 /\ phase = "none"
    BY DEF Refuses, Refuse, history, EngineOK, EngineInv
  <1>2. QED BY <1>1, CountSame DEF Refuse, EngineOK, EngineTyped, EngineInv, Opened

LEMMA EngineBegins ==
  ASSUME EngineOK, NEW t \in Tasks, NEW promised, BeginTask(t, promised)
  PROVE  EngineOK'
  <1>1. pc = "begin" /\ sub' = sub /\ sub = 0 /\ phase = "none" /\ record = NoRecord
    BY DEF BeginTask, Begin, BeginFails, EngineOK, EngineInv, Opened
  <1>2. Commit(t) \in Nat \ {0} /\ Count(t) \in Nat \ {0} /\ Commit(t) <= Count(t)
    BY TaskFacts
  <1>3. task' = t => Count(task)' = Count(t) /\ Commit(task)' = Commit(t)
    BY DEF Count, Commit
  <1>4. CASE Begin(t)
    <2>1. /\ task' = t /\ record' = 0 /\ caller' = "run" /\ phase' = "run" /\ at' = 0
          /\ pc' = "do" /\ err' \in BOOLEAN /\ reply' = "none" /\ sub' = 0
      BY <1>1, <1>4, BeginFacts
    <2>2. EngineTyped' BY <1>2, <1>3, <2>1 DEF EngineTyped
    <2>3. EngineInv' BY <1>2, <1>3, <2>1 DEF EngineInv, Opened, NoRecord
    <2>4. QED BY <2>1, <2>2, <2>3 DEF EngineOK
  <1>5. CASE BeginFails(t)
    <2>1. /\ caller' = "run" /\ pc' = "idle" /\ reply' = "error" /\ UNCHANGED <<phase, at, err>> /\ sub' = 0
          /\ (task' = t /\ record' = 0) \/ UNCHANGED <<task, record>>
      BY <1>1, <1>5 DEF BeginFails
    <2>2. EngineTyped'
      <3>1. CASE task' = t /\ record' = 0
        <4>1. at' = 0 /\ phase' = phase /\ err' = err
          BY <1>1, <2>1 DEF EngineOK, EngineInv
        <4>2. QED BY <1>2, <1>3, <2>1, <3>1, <4>1 DEF EngineTyped, EngineOK
      <3>2. CASE UNCHANGED <<task, record>>
        BY <2>1, <3>2, CountSame DEF EngineTyped, EngineOK
      <3>3. QED BY <2>1, <3>1, <3>2
    <2>3. EngineInv' BY <1>1, <2>1 DEF EngineInv, EngineOK
    <2>4. QED BY <2>1, <2>2, <2>3 DEF EngineOK
  <1>6. QED BY <1>4, <1>5 DEF BeginTask

\* A step that fails, or an advance, wherever the engine is.
LEMMA EngineFails ==
  ASSUME EngineOK, NEW n \in Nat, ForwardFails(n), sub' = 0, task' = task,
         \/ pc = "do" /\ n = at /\ record' = record
         \/ pc = "advance" /\ n = at + 1 /\ record' \in {record, at + 1},
         marred \subseteq marred',
         phase = "run" /\ record' < Commit(task) /\ n >= Commit(task) => "advance" \in marred'
  PROVE  EngineOK'
  <1>1. Commit(task) \in Nat \ {0} /\ Count(task) \in Nat \ {0} /\ Commit(task) <= Count(task)
    BY TaskFacts DEF EngineOK, EngineTyped
  <1>2. /\ \/ phase = "run" /\ Resolved(n)
           \/ phase = "rollforward" /\ phase' = "kept" /\ pc' = "ensure" /\ err' = TRUE /\ UNCHANGED at
        /\ UNCHANGED <<caller, reply>>
    BY ForwardFailsFacts DEF EngineOK, EngineTyped
  <1>3. CASE phase = "run"
    <2>1. /\ record \in Nat /\ n \in 0..Count(task) /\ record' \in 0..Count(task) /\ record' <= n
          /\ Count(task)' = Count(task) /\ Commit(task)' = Commit(task)
          /\ record' < Commit(task) \/ record' >= Commit(task)
      BY <1>1, <1>3, CountSame DEF EngineOK, EngineTyped, EngineInv
    <2>2. CASE n >= Commit(task)
      <3>1. phase' = "rollforward" /\ at' = n /\ pc' = Top(n) /\ err' = FALSE /\ err' \in BOOLEAN
        BY <1>1, <1>2, <1>3, <2>1, <2>2 DEF Resolved
      <3>2. EngineTyped'
        BY <1>1, <1>2, <2>1, <3>1 DEF EngineTyped, EngineOK, Top
      <3>3. EngineInv'
        BY <1>1, <1>3, <2>1, <2>2, <3>1 DEF EngineInv, Top, Opened, NoRecord
      <3>4. QED BY <3>2, <3>3 DEF EngineOK
    <2>3. CASE n < Commit(task)
      <3>1. phase' = "rollback" /\ at' = n /\ pc' = "undo" /\ err' = TRUE /\ err' \in BOOLEAN
        BY <1>1, <1>2, <1>3, <2>1, <2>3 DEF Resolved
      <3>2. EngineTyped' BY <1>1, <1>2, <2>1, <3>1 DEF EngineTyped, EngineOK
      <3>3. EngineInv'
        BY <1>1, <1>3, <2>1, <2>3, <3>1 DEF EngineInv, Opened, NoRecord
      <3>4. QED BY <3>2, <3>3 DEF EngineOK
    <2>4. QED BY <1>1, <2>1, <2>2, <2>3
  <1>4. CASE phase = "rollforward"
    <2>1. at = Count(task) - 1
      BY <1>1, <1>4, TaskFacts DEF EngineOK, EngineTyped, EngineInv
    <2>2. QED
      BY <1>1, <1>2, <1>4, <2>1, CountSame DEF EngineOK, EngineTyped, EngineInv, Opened, NoRecord
  <1>5. QED BY <1>2, <1>3, <1>4

LEMMA EngineStepEnds ==
  ASSUME EngineOK, StepEnds
  PROVE  EngineOK'
  <1>1. Commit(task) \in Nat \ {0} /\ Count(task) \in Nat \ {0} /\ Commit(task) <= Count(task)
    BY TaskFacts DEF EngineOK, EngineTyped
  <1>2. marred' = marred /\ sub' = 0 BY DEF StepEnds, history
  <1>3. CASE pc = "do"
    <2>1. pc' = "advance" /\ UNCHANGED <<task, record, caller, phase, at, err, reply>>
      BY <1>3 DEF StepEnds, StepDone
    <2>2. EngineTyped' BY <2>1, CountSame DEF EngineTyped, EngineOK
    <2>3. EngineInv'
      BY <1>1, <1>2, <1>3, <2>1, CountSame DEF EngineInv, EngineOK, Opened
    <2>4. QED BY <1>2, <2>2, <2>3 DEF EngineOK
  <1>4. CASE pc = "undo"
    <2>1. UndoStep(FALSE) BY <1>4 DEF StepEnds
    <2>2. at \in 0..(Commit(task) - 1)
      BY <1>1, <1>4 DEF EngineOK, EngineTyped, EngineInv
    <2>3. /\ at' = at - 1 /\ pc' = (IF at > 0 THEN "undo" ELSE "ensure") /\ err' = err /\ err \in BOOLEAN
          /\ UNCHANGED <<task, record, caller, phase, reply>>
      BY <2>1 DEF UndoStep, AfterUndo, EngineOK, EngineTyped
    <2>4. EngineTyped' BY <1>1, <2>2, <2>3, CountSame DEF EngineTyped, EngineOK
    <2>5. EngineInv'
      BY <1>1, <1>2, <1>4, <2>2, <2>3, CountSame DEF EngineInv, EngineOK, Opened
    <2>6. QED BY <1>2, <2>4, <2>5 DEF EngineOK
  <1>5. QED BY <1>3, <1>4 DEF StepEnds

LEMMA EngineAdvances ==
  ASSUME EngineOK, Advances
  PROVE  EngineOK'
  <1>1. Commit(task) \in Nat \ {0} /\ Count(task) \in Nat \ {0} /\ Commit(task) <= Count(task)
        /\ Count(task) <= Commit(task) + 1
    BY TaskFacts DEF EngineOK, EngineTyped
  <1>2. pc = "advance" /\ sub' = 0 /\ at \in 0..(Count(task) - 1) /\ phase \in {"run", "rollforward"} /\ Opened
    BY DEF Advances, AdvanceDone, AdvanceFails, Idles, EngineOK, EngineInv
  <1>3. CASE AdvanceDone /\ UNCHANGED marred
    <2>1. /\ record' = at + 1 /\ at' = at + 1 /\ pc' = Top(at + 1)
          /\ phase' = (IF at + 1 = Count(task) THEN "rollforward" ELSE phase)
          /\ UNCHANGED <<task, caller, err, reply>>
      BY <1>3, AdvanceFacts DEF EngineOK, EngineTyped
    <2>2. EngineTyped'
      BY <1>1, <1>2, <2>1, CountSame DEF EngineTyped, EngineOK, Top
    <2>3. EngineInv'
      BY <1>1, <1>2, <1>3, <2>1, CountSame DEF EngineInv, EngineOK, EngineTyped, Opened, Top, NoRecord
    <2>4. QED BY <1>2, <2>2, <2>3 DEF EngineOK
  <1>4. CASE AdvanceFails /\ Mars(IF record' < Commit(task) /\ at + 1 >= Commit(task) THEN {"advance"} ELSE {})
    <2>1. ForwardFails(at + 1) /\ record' \in {record, at + 1} /\ task' = task
      BY <1>4 DEF AdvanceFails
    <2>2. marred \subseteq marred'
          /\ (record' < Commit(task) /\ at + 1 >= Commit(task) => "advance" \in marred')
      BY <1>4 DEF Mars
    <2>3. at + 1 \in Nat BY <1>2
    <2>4. QED BY <1>2, <2>1, <2>2, <2>3, EngineFails
  <1>5. QED BY <1>3, <1>4 DEF Advances

LEMMA EngineEnsures ==
  ASSUME EngineOK, Ensures
  PROVE  EngineOK'
  <1>1. pc = "ensure" /\ sub = 0 /\ sub' = 0 /\ marred \subseteq marred'
    BY DEF Ensures, Mars, EngineOK, EngineInv
  <1>2. PICK failed : RunEnsures(failed)
    BY DEF Ensures
  <1>3. /\ UNCHANGED <<task, record, caller>>
        /\ \/ phase = "kept" /\ Return(TRUE)
           \/ phase # "kept" /\ pc' = "clear" /\ err' = (err \/ failed) /\ UNCHANGED <<phase, at, reply>>
    BY <1>2 DEF RunEnsures, Return
  <1>4. CASE phase = "kept"
    <2>1. /\ phase' = "none" /\ at' = 0 /\ err' = FALSE /\ err' \in BOOLEAN /\ pc' \in {"down", "idle"}
          /\ reply' = "error"
      BY <1>3, <1>4 DEF Return, AfterReturn, EngineOK, EngineTyped
    <2>2. EngineTyped'
      BY <1>3, <2>1, CountSame, TaskFacts DEF EngineOK, EngineTyped
    <2>3. EngineInv' BY <1>1, <2>1 DEF EngineInv
    <2>4. QED BY <1>1, <2>2, <2>3 DEF EngineOK
  <1>5. CASE phase # "kept"
    <2>1. pc' = "clear" /\ (err' <=> (err \/ failed)) /\ err' \in BOOLEAN /\ UNCHANGED <<phase, at, reply>>
      BY <1>3, <1>5
    <2>2. EngineTyped' BY <1>3, <2>1, CountSame DEF EngineOK, EngineTyped
    <2>3. EngineInv'
      BY <1>1, <1>3, <1>5, <2>1, CountSame DEF EngineInv, EngineOK, Opened
    <2>4. QED BY <1>1, <2>2, <2>3 DEF EngineOK
  <1>6. QED BY <1>4, <1>5

LEMMA EngineClears ==
  ASSUME EngineOK, Clears
  PROVE  EngineOK'
  <1>1. pc = "clear" /\ sub' = 0 /\ marred \subseteq marred' /\ record' \in {record, NoRecord} /\ UNCHANGED <<task, caller>>
    <2>1. pc = "clear" /\ record' \in {record, NoRecord} /\ UNCHANGED <<task, caller>>
      BY DEF Clears, ClearDone, ClearFails, Return
    <2>2. sub' = sub /\ marred' = marred \cup Again BY DEF Clears, Idles, Mars
    <2>3. sub = 0 BY <2>1 DEF EngineOK, EngineInv
    <2>4. QED BY <2>1, <2>2, <2>3
  <1>2. PICK failed : Return(failed)
    BY DEF Clears, ClearDone, ClearFails
  <1>3. /\ phase' = "none" /\ at' = 0 /\ err' = FALSE /\ err' \in BOOLEAN /\ pc' \in {"down", "idle", "begin"}
        /\ reply' \in {"nil", "error"}
    BY <1>2 DEF Return, AfterReturn, EngineOK, EngineTyped
  <1>4. caller = "request" /\ pc' = "begin" => record' = NoRecord
    BY <1>1 DEF Clears, ClearDone, ClearFails, Return, AfterReturn
  <1>5. EngineTyped'
    BY <1>1, <1>3, CountSame, TaskFacts DEF EngineOK, EngineTyped, NoRecord
  <1>6. pc' = "begin" => caller = "request"
    BY <1>2 DEF Return, AfterReturn, EngineOK, EngineTyped
  <1>7. EngineInv' BY <1>1, <1>3, <1>4, <1>6 DEF EngineInv, Opened
  <1>8. QED BY <1>1, <1>5, <1>7 DEF EngineOK

LEMMA EngineKilled ==
  ASSUME EngineOK, Killed
  PROVE  EngineOK'
  <1>1. /\ pc' = "down" /\ caller' = "startup" /\ phase' = "none" /\ at' = 0 /\ err' = FALSE /\ err' \in BOOLEAN
        /\ reply' = "none" /\ UNCHANGED <<task, record>> /\ sub' = 0
    BY DEF Killed, Crash
  <1>2. EngineTyped' BY <1>1, CountSame, TaskFacts DEF EngineOK, EngineTyped
  <1>3. EngineInv' BY <1>1 DEF EngineInv
  <1>4. QED BY <1>1, <1>2, <1>3 DEF EngineOK

LEMMA EngineStays ==
  ASSUME EngineOK, EngineSame, sub' = sub, marred \subseteq marred'
  PROVE  EngineOK'
  <1>1. Program' = Program BY DEF Program, StepNow, EngineSame
  <1>2. Count(task)' = Count(task) /\ Commit(task)' = Commit(task)
    BY CountSame DEF EngineSame
  <1>3. EngineTyped' BY <1>2 DEF EngineOK, EngineTyped, EngineSame
  <1>4. EngineInv' BY <1>1, <1>2 DEF EngineOK, EngineInv, EngineSame, Opened
  <1>5. QED BY <1>3, <1>4 DEF EngineOK

LEMMA EngineRuns ==
  ASSUME EngineOK, RunPrim, ctr \in BOOLEAN
  PROVE  EngineOK'
  <1>1. PICK nil \in BOOLEAN :
              /\ Ran(NextPrim, nil)
              /\ nil => /\ sub' = IF NextPrim.op = "unless" /\ ~Exists(fs, NextPrim.from)
                                    THEN Len(Program) ELSE sub + 1
                        /\ EngineSame /\ marred' = marred
              /\ ~nil => /\ sub' = 0
                         /\ pc = "do" => StepFails /\ marred' = marred
                         /\ pc = "undo" => UndoStep(TRUE) /\ marred' = marred \cup {"undo"}
    BY RunPrimFacts
  <1>2. pc \in {"do", "undo"} /\ sub < Len(Program) /\ sub \in Nat
    BY RunPrimFacts DEF EngineOK
  <1>3. Commit(task) \in Nat \ {0} /\ Count(task) \in Nat \ {0} /\ Commit(task) <= Count(task)
    BY TaskFacts DEF EngineOK, EngineTyped
  <1>4. CASE nil
    <2>1. Program' = Program /\ EngineSame /\ marred' = marred
      BY <1>1, <1>4 DEF Program, StepNow, EngineSame
    <2>2. Count(task)' = Count(task) /\ Commit(task)' = Commit(task)
      BY <2>1, CountSame DEF EngineSame
    <2>3. EngineTyped' BY <2>1, <2>2 DEF EngineOK, EngineTyped, EngineSame
    <2>4. Len(Program) \in Nat
      <3>1. \/ pc = "do" /\ at \in 0..(Count(task) - 1)
            \/ pc = "undo" /\ at \in 0..(Commit(task) - 1)
        BY <1>2, <1>3 DEF EngineOK, EngineInv, EngineTyped
      <3>2. \A S \in SUBSET Names : Len(Listed(S)) \in Nat BY ListedFacts
      <3>3. CASE task \in SnapshotTasks
        BY <1>2, <3>1, <3>3, SnapshotDo, SnapshotUndo
      <3>4. CASE task \in RestoreTasks
        <4>1. Len(Listed(task.after)) \in Nat BY <3>2, <3>4 DEF RestoreTasks
        <4>2. QED BY <1>2, <3>1, <3>4, <4>1, RestoreDo, RestoreUndo
      <3>5. QED BY <3>3, <3>4 DEF Tasks, EngineOK, EngineTyped
    <2>5. sub' \in Nat /\ sub' <= Len(Program) BY <1>1, <1>2, <1>4, <2>4
    <2>6. EngineInv'
      BY <1>2, <2>1, <2>2, <2>5 DEF EngineOK, EngineInv, EngineSame, Opened
    <2>7. QED BY <2>3, <2>5, <2>6 DEF EngineOK
  <1>5. CASE ~nil /\ pc = "do"
    <2>1. ForwardFails(at) /\ UNCHANGED <<task, record>> /\ sub' = 0 /\ marred' = marred
      BY <1>1, <1>5 DEF StepFails
    <2>2. at \in Nat /\ (phase = "run" => record = at)
      BY <1>3, <1>5 DEF EngineOK, EngineInv
    <2>3. phase = "run" /\ record' < Commit(task) /\ at >= Commit(task) => "advance" \in marred'
      BY <1>3, <2>1, <2>2
    <2>4. QED BY <1>5, <2>1, <2>2, <2>3, EngineFails
  <1>6. CASE ~nil /\ pc = "undo"
    <2>1. UndoStep(TRUE) /\ sub' = 0 /\ marred \subseteq marred' BY <1>1, <1>6
    <2>2. at \in 0..(Commit(task) - 1)
      BY <1>3, <1>6 DEF EngineOK, EngineTyped, EngineInv
    <2>3. /\ at' = at - 1 /\ pc' = (IF at > 0 THEN "undo" ELSE "ensure") /\ err' = TRUE /\ err' \in BOOLEAN
          /\ UNCHANGED <<task, record, caller, phase, reply>>
      BY <2>1 DEF UndoStep, AfterUndo
    <2>4. EngineTyped' BY <1>3, <2>2, <2>3, CountSame DEF EngineTyped, EngineOK
    <2>5. EngineInv'
      BY <1>3, <1>6, <2>1, <2>2, <2>3, CountSame DEF EngineInv, EngineOK, Opened
    <2>6. QED BY <2>1, <2>4, <2>5 DEF EngineOK
  <1>7. QED BY <1>2, <1>4, <1>5, <1>6

\* And so does every step of PgOps.
LEMMA EngineNext ==
  ASSUME EngineOK, ctr \in BOOLEAN, [Next]_vars
  PROVE  EngineOK'
  <1>1. CASE Starts \/ Requests BY <1>1, EngineStarts
  <1>2. CASE Refuses BY <1>2, EngineRefuses
  <1>3. ASSUME NEW n \in Names, NEW force \in BOOLEAN, Snapshot(n, force)
        PROVE  EngineOK'
    <2>1. SnapshotTask(n) \in Tasks
      BY DEF SnapshotTask, Tasks, SnapshotTasks, Exists
    <2>2. QED BY <1>3, <2>1, EngineBegins DEF Snapshot
  <1>4. ASSUME NEW n \in Names, NEW force \in BOOLEAN, Restore(n, force)
        PROVE  EngineOK'
    <2>1. RestoreTask(n) \in Tasks
      BY DEF RestoreTask, Tasks, RestoreTasks, After
    <2>2. QED BY <1>4, <2>1, EngineBegins DEF Restore
  <1>5. CASE RunPrim BY <1>5, EngineRuns
  <1>6. CASE StepEnds BY <1>6, EngineStepEnds
  <1>7. CASE Advances BY <1>7, EngineAdvances
  <1>8. CASE Ensures BY <1>8, EngineEnsures
  <1>9. CASE Clears BY <1>9, EngineClears
  <1>10. CASE Killed BY <1>10, EngineKilled
  <1>11. CASE Start \/ Stop \/ Bootstrap
    BY <1>11, EngineStays DEF Start, Stop, Bootstrap, Mars, engine, history, EngineSame
  <1>12. CASE Write BY <1>12, EngineStays DEF Write, engine, EngineSame
  <1>13. CASE UNCHANGED vars
    BY <1>13, EngineStays DEF vars, engine, history, EngineSame
  <1>14. MayReplace \in BOOLEAN BY OpsAssumption
  <1>15. QED
    BY <1>1, <1>2, <1>3, <1>4, <1>5, <1>6, <1>7, <1>8, <1>9, <1>10, <1>11, <1>12, <1>13, <1>14 DEF Next

-----------------------------------------------------------------------------
(* Views *)

\* What a user sees is a view, before and after a snapshot or a restore.
LEMMA ViewTyped ==
  ASSUME NEW f \in [Paths -> Directories]
  PROVE  /\ View(f) \in Views /\ View(f).current = f[Current].data
         /\ View(f) = Show(f[Current].data, Snaps(f))
  <1>1. f[Current] \in Directories /\ \A m \in Names : f[Snap(m)] \in Directories
    BY PathTypes
  <1>2. f[Current].data \in Data /\ \A m \in Names : f[Snap(m)].data \in Data
    BY <1>1 DEF Directories
  <1>3. List(f) \in SUBSET (Names \X Names) BY DEF List
  <1>4. View(f) \in Views BY <1>2, <1>3 DEF View, Views
  <1>5. \A m \in Names : Snaps(f)[m] = f[Snap(m)] BY DEF Snaps
  <1>6. [n \in Names |-> f[Snap(n)].data] = [m \in Names |-> Snaps(f)[m].data]
    BY <1>5
  <1>7. List(f) = {e \in Names \X Names :
                     /\ Snaps(f)[e[1]] # Missing /\ Snaps(f)[e[2]] # Missing
                     /\ Snaps(f)[e[1]].mtime < Snaps(f)[e[2]].mtime}
    <2>1. \A e \in Names \X Names : e[1] \in Names /\ e[2] \in Names OBVIOUS
    <2>2. QED BY <1>5, <2>1 DEF List, Older, Exists
  <1>8. QED BY <1>4, <1>6, <1>7 DEF View, Show

LEMMA SnapshotViewTyped ==
  ASSUME NEW v \in Views, NEW n \in Names
  PROVE  SnapshotView(v, n) \in Views
  <1>1. v.current \in Data /\ v.snaps \in [Names -> Data] /\ v.order \in SUBSET (Names \X Names)
    BY DEF Views
  <1>2. [v.snaps EXCEPT ![n] = v.current] \in [Names -> Data] BY <1>1
  <1>3. {e \in v.order : n \notin {e[1], e[2]}}
               \cup {<<m, n>> : m \in {k \in Names \ {n} : v.snaps[k] # Gone}} \in SUBSET (Names \X Names)
    BY <1>1
  <1>4. QED BY <1>1, <1>2, <1>3 DEF SnapshotView, Views

LEMMA RestoreViewTyped ==
  ASSUME NEW v \in Views, NEW n \in Names
  PROVE  RestoreView(v, n) \in Views
  <1> DEFINE newer == {m \in Names : <<n, m>> \in v.order}
  <1>1. v.current \in Data /\ v.snaps \in [Names -> Data] /\ v.order \in SUBSET (Names \X Names)
    BY DEF Views
  <1>2. [m \in Names |-> IF m \in newer THEN Gone ELSE v.snaps[m]] \in [Names -> Data]
    BY <1>1 DEF Data
  <1>3. {e \in v.order : {e[1], e[2]} \cap newer = {}} \in SUBSET (Names \X Names)
    BY <1>1
  <1>4. v.snaps[n] \in Data BY <1>1
  <1>5. QED BY <1>2, <1>3, <1>4 DEF RestoreView, Views

\* After a write only the live content differs.
LEMMA NewCurrent ==
  ASSUME NEW v \in Views, NEW new \in Contents
  PROVE  /\ [v EXCEPT !.current = new] \in Views
         /\ [v EXCEPT !.current = new] = [current |-> new, snaps |-> v.snaps, order |-> v.order]
  BY DEF Views, Data

-----------------------------------------------------------------------------
(* A kill in the middle of a call *)

\* A kill in a copy or a removal tears one tree or leaves it as it was.
LEMMA TornIs ==
  ASSUME FsTyped, NEW prim, prim.from \in Paths, prim.to \in Paths, NEW f \in TornBy(prim)
  PROVE  /\ f \in [Paths -> Directories]
         /\ \E p \in Paths :
              /\ \/ prim.op = "clone" /\ p = prim.to
                 \/ prim.op = "remove" /\ prim.from # PruneDir /\ p = prim.from /\ Exists(fs, p)
                 \/ prim.op = "remove" /\ prim.from = PruneDir /\ \E n \in Names : p = Pruned(n) /\ Exists(fs, p)
              /\ f[p].data = Torn /\ f[p].mtime \in {0, fs[p].mtime}
              /\ \A q \in Paths \ {p} : f[q] = fs[q]
  <1>1. ASSUME NEW p \in Paths, NEW x \in {0, fs[p].mtime}, f = With(fs, p, [data |-> Torn, mtime |-> x])
        PROVE  /\ f \in [Paths -> Directories] /\ f[p].data = Torn /\ f[p].mtime \in {0, fs[p].mtime}
               /\ \A q \in Paths \ {p} : f[q] = fs[q]
    <2>1. fs[p] \in Directories BY DEF FsTyped
    <2>2. [data |-> Torn, mtime |-> x] \in Directories
      BY <2>1, MissingTyped DEF Directories, Data
    <2>3. QED BY <1>1, <2>2 DEF With, FsTyped
  <1>2. \A p \in Paths : [fs[p] EXCEPT !.data = Torn] = [data |-> Torn, mtime |-> fs[p].mtime]
    BY DEF FsTyped, Directories
  <1>3. CASE prim.op = "clone"
    <2>1. f = With(fs, prim.to, [data |-> Torn, mtime |-> 0]) BY <1>3 DEF TornBy
    <2>2. QED BY <1>1, <1>3, <2>1
  <1>4. CASE prim.op = "remove" /\ prim.from # PruneDir
    <2>1. Exists(fs, prim.from) /\ f = With(fs, prim.from, [fs[prim.from] EXCEPT !.data = Torn])
      BY <1>4 DEF TornBy
    <2>2. f = With(fs, prim.from, [data |-> Torn, mtime |-> fs[prim.from].mtime])
      BY <1>2, <2>1
    <2>3. QED BY <1>1, <1>4, <2>1, <2>2
  <1>5. CASE prim.op = "remove" /\ prim.from = PruneDir
    <2>1. PICK n \in Names : Exists(fs, Pruned(n)) /\ f = With(fs, Pruned(n), [fs[Pruned(n)] EXCEPT !.data = Torn])
      BY <1>5 DEF TornBy
    <2>2. Pruned(n) \in Paths BY PathTypes
    <2>3. f = With(fs, Pruned(n), [data |-> Torn, mtime |-> fs[Pruned(n)].mtime])
      BY <1>2, <2>1, <2>2
    <2>4. QED BY <1>1, <1>5, <2>1, <2>2, <2>3
  <1>6. prim.op = "clone" \/ prim.op = "remove" BY DEF TornBy
  <1>7. QED BY <1>3, <1>4, <1>5, <1>6

LEMMA PrimPaths ==
  ASSUME EngineOK, pc \in {"do", "undo"}, sub < Len(Program)
  PROVE  NextPrim.from \in Paths /\ NextPrim.to \in Paths
  <1>1. /\ task \in Tasks /\ sub \in Nat /\ at \in Nat
        /\ (pc = "do" => at <= Count(task) - 1) /\ (pc = "undo" => at <= Commit(task) - 1)
    <2>1. Commit(task) \in Nat /\ Count(task) \in Nat
      BY TaskFacts DEF EngineOK, EngineTyped
    <2>2. QED BY <2>1 DEF EngineOK, EngineTyped, EngineInv
  <1>2. Kinded BY <1>1, PrimKinds
  <1>3. QED
    BY <1>2, PathTypes DEF Kinded, Move, RemoveAll, TouchNow, EnsureDir, ReturnUnless, Prim, MatchTopMode, Call

\* The directory a kill tears is never the live one, nor a snapshot.
LEMMA KilledFacts ==
  ASSUME EngineOK, FsTyped, Killed
  PROVE  /\ fs' \in [Paths -> Directories]
         /\ \/ fs' = fs
            \/ /\ pc \in {"do", "undo"} /\ sub < Len(Program)
               /\ \E p \in Paths :
                    /\ \/ NextPrim.op = "clone" /\ p = NextPrim.to
                       \/ NextPrim.op = "remove" /\ NextPrim.from # PruneDir /\ p = NextPrim.from /\ Exists(fs, p)
                       \/ /\ NextPrim.op = "remove" /\ NextPrim.from = PruneDir
                          /\ \E n \in Names : p = Pruned(n) /\ Exists(fs, p)
                    /\ fs'[p].data = Torn /\ fs'[p].mtime \in {0, fs[p].mtime}
                    /\ \A q \in Paths \ {p} : fs'[q] = fs[q]
  <1>1. CASE fs' = fs BY <1>1 DEF FsTyped
  <1>2. CASE fs' # fs
    <2>1. pc \in {"do", "undo"} /\ sub < Len(Program) /\ fs' \in TornBy(NextPrim)
      BY <1>2 DEF Killed, NextPrim
    <2>2. QED BY <2>1, PrimPaths, TornIs
  <1>3. QED BY <1>1, <1>2

LEMMA LayoutFacts ==
  ASSUME FsTyped
  PROVE  /\ EnsureLayout \in [Paths -> Directories]
         /\ Exists(fs, Current) => EnsureLayout = fs
         /\ ~Exists(fs, Current) => /\ EnsureLayout[Current] = [data |-> Empty, mtime |-> 0]
                                    /\ \A p \in Paths \ {Current} : EnsureLayout[p] = fs[p]
  <1>1. [data |-> Empty, mtime |-> 0] \in Directories /\ Current \in Paths
    BY MissingTyped, PathTypes
  <1>2. QED BY <1>1 DEF EnsureLayout, With, FsTyped

LEMMA BootableFacts ==
  Bootable => Exists(fs, Current) /\ EnsureLayout = fs
  BY DEF Bootable, Exists, Contents, Missing, Gone, EnsureLayout

\* What an ensure leaves.
LEMMA EnsureFacts ==
  ASSUME Ensures, ctr \in BOOLEAN
  PROVE  /\ pc = "ensure" /\ fs' = fs /\ cancelled' \in {cancelled, TRUE}
         /\ \E nil \in BOOLEAN :
              /\ RunEnsures(~nil)
              /\ marred' = marred \cup (IF nil \/ phase = "kept" THEN {} ELSE {"ensure"})
              /\ \/ EnsureOp(task) = "none" /\ nil /\ UNCHANGED <<ctr, pg>>
                 \/ EnsureOp(task) \in BackendOps /\ Called(EnsureOp(task), nil)
  <1>1. EnsureOp(task) = "none" \/ EnsureOp(task) \in BackendOps
    BY DEF EnsureOp, BackendOps
  <1>2. PICK o \in IF EnsureOp(task) = "none" THEN {FsOutcome(fs, TRUE)} ELSE BackendOutcomes(EnsureOp(task)) :
               /\ Becomes(o) /\ cancelled' = o.cancel /\ RunEnsures(~o.nil)
               /\ Mars(IF o.nil \/ phase = "kept" THEN {} ELSE {"ensure"})
    BY DEF Ensures
  <1>3. CASE EnsureOp(task) = "none"
    <2>1. o.nil = TRUE /\ fs' = fs /\ UNCHANGED <<ctr, pg>> /\ cancelled' = cancelled
      BY <1>2, <1>3 DEF FsOutcome, Outcome, Becomes
    <2>2. QED BY <1>2, <1>3, <2>1 DEF Mars, Ensures
  <1>4. CASE EnsureOp(task) # "none"
    <2> DEFINE op == EnsureOp(task)
    <2>1. o \in BackendOutcomes(op) /\ op \in BackendOps BY <1>1, <1>2, <1>4
    <2>2. [op |-> op].op = op /\ Outcomes([op |-> op]) = BackendOutcomes(op)
      <3>1. op # "clone" BY <2>1 DEF BackendOps
      <3>2. QED BY <2>1, <3>1 DEF Outcomes
    <2>3. o.nil \in BOOLEAN BY <2>1, <2>2, OutcomeTyped
    <2>4. Called(op, o.nil) /\ cancelled' \in {cancelled, TRUE}
      BY <1>2, <2>1, <2>3, BackendFacts
    <2>5. QED BY <1>2, <2>1, <2>3, <2>4 DEF Mars, Ensures, Called
  <1>5. QED BY <1>3, <1>4

-----------------------------------------------------------------------------
(* Types *)

\* A mutation request is let in while the bound allows one more.
\* A request on its way may begin one more mutation.
Turn ==
  /\ pc = "begin" => caller = "request"
  /\ caller = "request" /\ pc # "idle" => begun < MaxTasks

\* The types, as they are inductive.
Typed ==
  /\ EngineOK /\ WorldTyped /\ Turn
  /\ swapped \in BOOLEAN /\ undone \in BOOLEAN /\ marred \subseteq Marrings
  /\ sub \in 0..(3 + Cardinality(Names))
  /\ cancelled \in BOOLEAN
  /\ begun \in 0..MaxTasks /\ written \in 0..MaxWrites /\ crashes \in 0..MaxCrashes
  /\ before \in Views /\ after \in Views

\* No Do or Undo is longer than a rename for each name and three more.
LEMMA SubBound ==
  ASSUME EngineOK, pc \in {"do", "undo"}, sub < Len(Program)
  PROVE  Len(Program) \in 0..(3 + Cardinality(Names))
  <1>1. /\ task \in Tasks /\ sub \in Nat /\ at \in Nat
        /\ (pc = "do" => at \in 0..(Count(task) - 1)) /\ (pc = "undo" => at \in 0..(Commit(task) - 1))
    <2>1. Commit(task) \in Nat /\ Count(task) \in Nat
      BY TaskFacts DEF EngineOK, EngineTyped
    <2>2. QED BY <2>1 DEF EngineOK, EngineTyped, EngineInv
  <1>2. Cardinality(Names) \in Nat /\ Cardinality(Names) # 0
    BY <1>1, OpsAssumption, FS_CardinalityType, FS_EmptySet, TaskFacts
  <1>3. CASE task \in SnapshotTasks
    <2>1. Len(Program) \in {1, 3} BY <1>1, <1>3, SnapshotDo, SnapshotUndo
    <2>2. \A k \in Nat \ {0} : \A x \in {1, 3} : x \in 0..(3 + k) OBVIOUS
    <2>3. QED BY <1>2, <2>1, <2>2
  <1>4. CASE task \in RestoreTasks
    <2> DEFINE l == Len(Listed(task.after))
    <2>1. l \in 0..Cardinality(Names) BY <1>4, ListedFacts DEF RestoreTasks
    <2>2. Len(Program) \in {1, 2, 3, 4, l + 1, l + 2}
      <3>1. CASE pc = "do" BY <1>1, <1>4, <3>1, RestoreDo
      <3>2. CASE pc = "undo" BY <1>1, <1>4, <3>2, RestoreUndo
      <3>3. QED BY <3>1, <3>2
    <2> HIDE DEF l
    <2>3. \A k \in Nat \ {0} : \A y \in 0..k : \A x \in {1, 2, 3, 4, y + 1, y + 2} : x \in 0..(3 + k)
      OBVIOUS
    <2>4. QED BY <1>2, <2>1, <2>2, <2>3
  <1>5. QED BY <1>1, <1>3, <1>4 DEF Tasks

\* Every step keeps the directories and the container to their types.
LEMMA WorldNext ==
  ASSUME Typed, [Next]_vars
  PROVE  WorldTyped'
  <1>1. CASE Starts \/ Requests \/ StepEnds \/ Advances \/ Clears \/ UNCHANGED vars
    <2>1. UNCHANGED <<fs, ctr, pg>>
      BY <1>1 DEF Starts, Requests, StepEnds, Advances, Clears, Still, Idles, world, vars
    <2>2. QED BY <2>1 DEF Typed, WorldTyped, FsTyped
  <1>2. CASE Refuses \/ Bootstrap
    <2>1. fs' \in {fs, EnsureLayout} /\ UNCHANGED <<ctr, pg>>
      BY <1>2 DEF Refuses, Bootstrap
    <2>2. QED BY <2>1, LayoutFacts DEF Typed, WorldTyped, FsTyped
  <1>3. ASSUME NEW n \in Names, NEW force \in BOOLEAN, Snapshot(n, force)
        PROVE  WorldTyped'
    <2>1. fs' = EnsureLayout /\ pg' = TRUE /\ ctr' = TRUE
      BY <1>3 DEF Snapshot, SnapshotRefused, BeginTask, Typed, WorldTyped
    <2>2. QED BY <2>1, LayoutFacts DEF Typed, WorldTyped, FsTyped
  <1>4. ASSUME NEW n \in Names, NEW force \in BOOLEAN, Restore(n, force)
        PROVE  WorldTyped'
    BY <1>4 DEF Restore, BeginTask, Typed, WorldTyped, FsTyped
  <1>5. CASE RunPrim
    <2>1. PICK nil \in BOOLEAN : Ran(NextPrim, nil)
      BY <1>5, RunPrimFacts DEF Typed, WorldTyped
    <2>2. pc \in {"do", "undo"} /\ sub < Len(Program) BY <1>5 DEF RunPrim
    <2>3. /\ task \in Tasks /\ sub \in Nat /\ at \in Nat
          /\ (pc = "do" => at <= Count(task) - 1) /\ (pc = "undo" => at <= Commit(task) - 1)
      <3>1. Commit(task) \in Nat /\ Count(task) \in Nat
        BY TaskFacts DEF Typed, EngineOK, EngineTyped
      <3>2. QED BY <2>2, <3>1 DEF Typed, EngineOK, EngineTyped, EngineInv
    <2>4. Kinded BY <2>2, <2>3, PrimKinds
    <2>5. QED BY <2>1, <2>4, RanTyped DEF Typed
  <1>6. CASE Ensures
    <2>1. fs' = fs /\ (UNCHANGED <<ctr, pg>> \/ \E nil \in BOOLEAN, op \in BackendOps : Called(op, nil))
      BY <1>6, EnsureFacts DEF Typed, WorldTyped
    <2>2. QED BY <2>1, CalledTyped DEF Typed, WorldTyped, FsTyped
  <1>7. CASE Start \/ Stop
    <2>1. Bootable \in BOOLEAN BY DEF Bootable
    <2>2. fs' = fs /\ ctr' \in BOOLEAN /\ pg' \in BOOLEAN /\ (pg' => ctr')
      BY <1>7, <2>1 DEF Start, Stop
    <2>3. QED BY <2>2 DEF Typed, WorldTyped, FsTyped
  <1>8. CASE Killed
    <2>1. ctr' \in BOOLEAN /\ pg' \in BOOLEAN /\ (pg' => ctr')
      <3>1. UNCHANGED <<ctr, pg>> \/ (ctr' = FALSE /\ pg' = FALSE)
        BY <1>8 DEF Killed
      <3>2. CASE UNCHANGED <<ctr, pg>> BY <3>2 DEF Typed, WorldTyped
      <3>3. CASE ctr' = FALSE /\ pg' = FALSE BY <3>3
      <3>4. QED BY <3>1, <3>2, <3>3
    <2>2. fs' \in [Paths -> Directories]
      BY <1>8, KilledFacts DEF Typed, WorldTyped
    <2>3. QED BY <2>1, <2>2 DEF Typed, WorldTyped, FsTyped
  <1>9. CASE Write
    <2>1. written + 1 \in Contents /\ fs' = [fs EXCEPT ![Current].data = written + 1] /\ UNCHANGED <<ctr, pg>>
      BY <1>9, OpsAssumption DEF Write, Typed, Contents
    <2>2. fs[Current] \in Directories
      BY PathTypes DEF Typed, WorldTyped, FsTyped
    <2>3. [fs[Current] EXCEPT !.data = written + 1] \in Directories
      BY <2>1, <2>2 DEF Directories, Data
    <2>4. fs' \in [Paths -> Directories]
      BY <2>1, <2>3, PathTypes DEF Typed, WorldTyped, FsTyped
    <2>5. QED BY <2>1, <2>4 DEF Typed, WorldTyped, FsTyped
  <1>10. MayReplace \in BOOLEAN BY OpsAssumption
  <1>11. QED BY <1>1, <1>2, <1>3, <1>4, <1>5, <1>6, <1>7, <1>8, <1>9, <1>10 DEF Next

LEMMA RanCancel ==
  ASSUME Kinded, NEW nil \in BOOLEAN, Ran(NextPrim, nil)
  PROVE  cancelled' \in {cancelled, TRUE}
  <1>1. ASSUME NEW a \in Paths, NEW b \in Paths,
               NextPrim = Move(a, b) \/ NextPrim = Prim("clone", a, b) \/ NextPrim = MatchTopMode(a, b)
        PROVE  cancelled' \in {cancelled, TRUE}
    BY <1>1, RanMove, RanClone, RanChmod DEF Around
  <1>2. ASSUME NEW p \in Paths, \/ NextPrim = RemoveAll(p) \/ NextPrim = TouchNow(p)
                                \/ NextPrim = EnsureDir(p) \/ NextPrim = ReturnUnless(p)
        PROVE  cancelled' \in {cancelled, TRUE}
    BY <1>2, RanRemove, RanTouch, RanMkdir, RanUnless DEF Around
  <1>3. ASSUME NEW op \in BackendOps, NextPrim = Call(op)
        PROVE  cancelled' \in {cancelled, TRUE}
    BY <1>3, RanCall
  <1>4. QED BY <1>1, <1>2, <1>3 DEF Kinded

LEMMA KindedNow ==
  ASSUME EngineOK, pc \in {"do", "undo"}, sub < Len(Program)
  PROVE  /\ Kinded /\ task \in Tasks /\ sub \in Nat /\ at \in Nat
         /\ pc = "do" => at \in 0..(Count(task) - 1)
         /\ pc = "undo" => at \in 0..(Commit(task) - 1)
  <1>1. /\ task \in Tasks /\ sub \in Nat /\ at \in Nat
        /\ (pc = "do" => at \in 0..(Count(task) - 1)) /\ (pc = "undo" => at \in 0..(Commit(task) - 1))
    <2>1. Commit(task) \in Nat /\ Count(task) \in Nat
      BY TaskFacts DEF EngineOK, EngineTyped
    <2>2. QED BY <2>1 DEF EngineOK, EngineTyped, EngineInv
  <1>2. Kinded BY <1>1, PrimKinds
  <1>3. QED BY <1>1, <1>2

LEMMA BeginMarks ==
  ASSUME NEW t, NEW promised, BeginTask(t, promised)
  PROVE  /\ swapped' = FALSE /\ undone' = FALSE /\ begun' = begun + 1 /\ pc = "begin" /\ caller' = "run"
         /\ marred' = marred \cup (IF marred \subseteq {"ensure"} THEN {} ELSE {"leftover"})
         /\ before' = View(fs') /\ UNCHANGED <<ctr, sub, cancelled, written, crashes>>
         /\ after' \in {promised, View(fs'), after}
  BY DEF BeginTask, Mars, Begin, BeginFails

\* Every step keeps Turn.
LEMMA TurnNext ==
  ASSUME Typed, [Next]_vars
  PROVE  Turn'
  <1> DEFINE Kept == caller' = caller /\ begun' = begun /\ pc # "idle" /\ (pc' = "begin" => caller = "request")
  <1>1. Kept => Turn' BY DEF Turn, Typed
  <1>2. CASE Starts
    BY <1>2 DEF Starts, Startup, StartupFails, Recover, RecoverFails, Resolve, LoopTop, AfterReturn, Turn
  <1>3. CASE Requests
    BY <1>3 DEF Requests, Request, RequestFails, Recover, RecoverFails, Still, Idles, counters, Turn
  <1>4. CASE Refuses BY <1>4 DEF Refuses, Refuse, Turn
  <1>5. ASSUME NEW n \in Names, NEW force \in BOOLEAN, Snapshot(n, force) \/ Restore(n, force)
        PROVE  Turn'
    <2>1. PICK t, promised : BeginTask(t, promised)
      BY <1>5 DEF Snapshot, Restore
    <2>2. caller' = "run" /\ pc' # "begin"
      BY <2>1 DEF BeginTask, Begin, BeginFails, LoopTop
    <2>3. QED BY <2>2 DEF Turn
  <1>6. CASE RunPrim
    <2>1. begun' = begun /\ pc \in {"do", "undo"} BY <1>6 DEF RunPrim, counters
    <2>2. EngineSame \/ StepFails \/ UndoStep(TRUE)
      BY <1>6, RunPrimFacts DEF Typed, WorldTyped
    <2>3. caller' = caller /\ pc' # "begin"
      BY <2>1, <2>2 DEF EngineSame, StepFails, ForwardFails, Resolve, LoopTop, UndoStep, AfterUndo
    <2>4. QED BY <1>1, <2>1, <2>3
  <1>7. CASE StepEnds
    <2>1. caller' = caller /\ pc' # "begin" /\ begun' = begun /\ pc # "idle"
      BY <1>7 DEF StepEnds, StepDone, UndoStep, AfterUndo, counters
    <2>2. QED BY <1>1, <2>1
  <1>8. CASE Advances
    <2>1. caller' = caller /\ pc' # "begin" /\ begun' = begun /\ pc # "idle"
      BY <1>8 DEF Advances, AdvanceDone, AdvanceFails, ForwardFails, Resolve, LoopTop, Idles, counters
    <2>2. QED BY <1>1, <2>1
  <1>9. ASSUME NEW failed, Return(failed)
        PROVE  caller' = caller /\ (pc' = "begin" => caller = "request")
    BY <1>9 DEF Return, AfterReturn, Typed, EngineOK, EngineTyped
  <1>10. CASE Ensures
    <2>1. PICK failed : RunEnsures(failed) /\ begun' = begun
      BY <1>10 DEF Ensures, counters
    <2>2. caller' = caller /\ (pc' = "begin" => caller = "request") /\ pc # "idle"
      BY <1>9, <2>1 DEF RunEnsures
    <2>3. QED BY <1>1, <2>1, <2>2
  <1>11. CASE Clears
    <2>1. PICK failed : Return(failed) /\ begun' = begun /\ pc = "clear"
      BY <1>11 DEF Clears, ClearDone, ClearFails, Idles, counters
    <2>2. QED BY <1>1, <1>9, <2>1
  <1>12. CASE Start \/ Stop \/ Write \/ Bootstrap \/ UNCHANGED vars
    BY <1>12 DEF Start, Stop, Write, Bootstrap, vars, engine, counters, Turn, Typed
  <1>13. CASE Killed BY <1>13 DEF Killed, Crash, Turn
  <1>14. MayReplace \in BOOLEAN BY OpsAssumption
  <1>15. QED
    BY <1>2, <1>3, <1>4, <1>5, <1>6, <1>7, <1>8, <1>10, <1>11, <1>12, <1>13, <1>14 DEF Next

\* Every step keeps the history variables to their types.
LEMMA MarksNext ==
  ASSUME Typed, [Next]_vars
  PROVE  /\ swapped' \in BOOLEAN /\ undone' \in BOOLEAN /\ marred \subseteq marred' /\ marred' \subseteq Marrings
         /\ sub' \in 0..(3 + Cardinality(Names)) /\ cancelled' \in BOOLEAN
         /\ begun' \in 0..MaxTasks /\ written' \in 0..MaxWrites /\ crashes' \in 0..MaxCrashes
  <1>1. Cardinality(Names) \in Nat /\ MaxTasks \in Nat /\ MaxWrites \in Nat /\ MaxCrashes \in Nat
    BY OpsAssumption, FS_CardinalityType
  <1>2. pc = "begin" => begun + 1 \in 0..MaxTasks BY <1>1 DEF Typed, Turn
  <1> DEFINE Marks ==
          /\ swapped' \in BOOLEAN /\ undone' \in BOOLEAN /\ marred \subseteq marred' /\ marred' \subseteq Marrings
             Rest == 
          /\ sub' \in 0..(3 + Cardinality(Names)) /\ cancelled' \in BOOLEAN
          /\ begun' \in 0..MaxTasks /\ written' \in 0..MaxWrites /\ crashes' \in 0..MaxCrashes
  <1>3. CASE Starts \/ Requests \/ Start \/ Stop \/ UNCHANGED vars
    BY <1>3 DEF Starts, Requests, Start, Stop, Still, Idles, counters, history, vars, Typed
  <1>15. CASE Bootstrap
    <2>1. UNCHANGED <<swapped, undone, sub, cancelled, begun, written, crashes>>
      BY <1>15 DEF Bootstrap, counters
    <2>2. marred' = marred \/ marred' = marred \cup {"layout"}
      BY <1>15 DEF Bootstrap, Mars
    <2>3. marred \subseteq marred' /\ marred' \subseteq Marrings
      BY <2>2 DEF Typed, Marrings
    <2>4. QED BY <2>1, <2>3 DEF Typed
  <1>4. CASE Refuses
    <2>1. UNCHANGED <<swapped, undone, marred, sub, written, crashes>> /\ begun' = begun + 1 /\ cancelled' = FALSE
          /\ pc = "begin"
      BY <1>4 DEF Refuses, Refuse, history
    <2>2. cancelled' \in BOOLEAN BY <2>1
    <2>3. QED BY <1>2, <2>1, <2>2 DEF Typed
  <1>5. ASSUME NEW n \in Names, NEW force \in BOOLEAN, Snapshot(n, force) \/ Restore(n, force)
        PROVE  Marks /\ Rest
    <2>1. PICK t, promised : BeginTask(t, promised)
      BY <1>5 DEF Snapshot, Restore
    <2>2. /\ swapped' \in BOOLEAN /\ undone' \in BOOLEAN /\ begun' \in 0..MaxTasks
          /\ marred' = marred \cup (IF marred \subseteq {"ensure"} THEN {} ELSE {"leftover"})
          /\ UNCHANGED <<sub, cancelled, written, crashes>>
      <3>1. swapped' = FALSE /\ undone' = FALSE /\ begun' = begun + 1 /\ pc = "begin"
        BY <2>1, BeginMarks
      <3>2. swapped' \in BOOLEAN /\ undone' \in BOOLEAN BY <3>1
      <3>3. QED BY <1>2, <2>1, <3>1, <3>2, BeginMarks
    <2>3. QED BY <2>2 DEF Typed, Marrings
  <1>6. CASE RunPrim
    <2>1. PICK nil \in BOOLEAN :
              /\ Ran(NextPrim, nil)
              /\ nil => /\ sub' = IF NextPrim.op = "unless" /\ ~Exists(fs, NextPrim.from)
                                    THEN Len(Program) ELSE sub + 1
                        /\ marred' = marred
              /\ ~nil => /\ sub' = 0 /\ marred' \in {marred, marred \cup {"undo"}}
      BY <1>6, RunPrimFacts DEF Typed, WorldTyped
    <2>2. /\ UNCHANGED <<begun, written, crashes, before, after>>
          /\ undone' \in BOOLEAN /\ swapped' \in BOOLEAN /\ pc \in {"do", "undo"} /\ sub < Len(Program)
      <3>1. undone' = (undone \/ pc = "undo")
            /\ swapped' = (Swaps(NewDir, Current) \/ (swapped /\ ~Swaps(Current, NewDir)))
        BY <1>6, RunPrimFacts DEF Typed, WorldTyped
      <3>2. undone' \in BOOLEAN BY <3>1
      <3>3. swapped' \in BOOLEAN BY <3>1
      <3>4. QED BY <1>6, <3>2, <3>3, RunPrimFacts DEF Typed, WorldTyped
    <2>3. sub' \in 0..(3 + Cardinality(Names))
      <3>1. Len(Program) \in 0..(3 + Cardinality(Names)) /\ sub \in Nat /\ sub < Len(Program)
        BY <2>2, SubBound DEF Typed, EngineOK
      <3>2. nil => sub' = sub + 1 \/ sub' = Len(Program) BY <2>1
      <3>3. ~nil => sub' = 0 BY <2>1
      <3>4. QED BY <1>1, <3>1, <3>2, <3>3
    <2>4. cancelled' \in BOOLEAN
      <3>1. cancelled' \in {cancelled, TRUE}
        BY <2>1, <2>2, KindedNow, RanCancel DEF Typed
      <3>2. QED BY <3>1 DEF Typed
    <2>5. marred' \in {marred, marred \cup {"undo"}}
      <3>1. nil => marred' = marred BY <2>1
      <3>2. ~nil => marred' \in {marred, marred \cup {"undo"}} BY <2>1
      <3>3. QED BY <3>1, <3>2
    <2>6. marred' \subseteq Marrings /\ marred \subseteq marred'
      BY <2>5 DEF Typed, Marrings
    <2>7. QED BY <2>2, <2>3, <2>4, <2>6 DEF Typed
  <1>7. CASE StepEnds
    <2>1. UNCHANGED <<swapped, undone, marred, begun, written, crashes, cancelled>> /\ sub' = 0
      BY <1>7 DEF StepEnds, counters, history
    <2>2. QED BY <1>1, <2>1 DEF Typed
  <1>8. CASE Advances
    <2>1. UNCHANGED <<swapped, undone, begun, written, crashes, cancelled, sub>>
          /\ (marred' = marred \/ marred' = marred \cup {} \/ marred' = marred \cup {"advance"})
      BY <1>8 DEF Advances, counters, Idles, Mars
    <2>2. QED BY <2>1 DEF Typed, Marrings
  <1>9. CASE Ensures
    <2>1. UNCHANGED <<swapped, undone, begun, written, crashes, sub>>
          /\ (marred' = marred \cup {} \/ marred' = marred \cup {"ensure"})
      BY <1>9 DEF Ensures, counters, Mars
    <2>2. cancelled' \in BOOLEAN
      <3>1. cancelled' \in {cancelled, TRUE}
        BY <1>9, EnsureFacts DEF Typed, WorldTyped
      <3>2. QED BY <3>1 DEF Typed
    <2>3. QED BY <2>1, <2>2 DEF Typed, Marrings
  <1>10. CASE Clears
    <2>1. /\ UNCHANGED <<swapped, undone, begun, written, crashes, sub>> /\ cancelled' = FALSE
          /\ (marred' = marred \cup {} \/ marred' = marred \cup {"again"})
      BY <1>10 DEF Clears, counters, Idles, Mars, Again
    <2>2. cancelled' \in BOOLEAN BY <2>1
    <2>3. QED BY <2>1, <2>2 DEF Typed, Marrings
  <1>11. CASE Killed
    <2>1. /\ UNCHANGED <<swapped, undone, begun, written>> /\ cancelled' = FALSE /\ sub' = 0
          /\ crashes < MaxCrashes /\ crashes' = crashes + 1
          /\ (marred' = marred \cup {} \/ marred' = marred \cup {"again"})
      BY <1>11 DEF Killed, Mars, Again
    <2>2. cancelled' \in BOOLEAN BY <2>1
    <2>3. marred \subseteq marred' /\ marred' \subseteq Marrings
      BY <2>1 DEF Typed, Marrings
    <2>4. crashes' \in 0..MaxCrashes /\ sub' \in 0..(3 + Cardinality(Names))
      BY <1>1, <2>1 DEF Typed
    <2>5. QED BY <2>1, <2>2, <2>3, <2>4 DEF Typed
  <1>12. CASE Write
    <2>1. /\ UNCHANGED <<swapped, undone, marred, begun, crashes, sub, cancelled>>
          /\ written < MaxWrites /\ written' = written + 1
      BY <1>12 DEF Write
    <2>2. QED BY <1>1, <2>1 DEF Typed
  <1>13. MayReplace \in BOOLEAN BY OpsAssumption
  <1>14. QED
    BY <1>3, <1>4, <1>5, <1>6, <1>7, <1>8, <1>9, <1>10, <1>11, <1>12, <1>13, <1>15 DEF Next

LEMMA ViewsNext ==
  ASSUME Typed, [Next]_vars
  PROVE  before' \in Views /\ after' \in Views
  <1>1. fs' \in [Paths -> Directories] /\ fs \in [Paths -> Directories]
    BY WorldNext DEF WorldTyped, FsTyped, Typed
  <1>2. View(fs') \in Views /\ View(fs) \in Views BY <1>1, ViewTyped
  <1>3. ASSUME NEW n \in Names, NEW force \in BOOLEAN, Snapshot(n, force)
        PROVE  before' \in Views /\ after' \in Views
    <2>1. BeginTask(SnapshotTask(n), SnapshotView(View(fs'), n))
      BY <1>3 DEF Snapshot
    <2>2. SnapshotView(View(fs'), n) \in Views BY <1>2, SnapshotViewTyped
    <2>3. QED BY <1>2, <2>1, <2>2, BeginMarks DEF Typed
  <1>4. ASSUME NEW n \in Names, NEW force \in BOOLEAN, Restore(n, force)
        PROVE  before' \in Views /\ after' \in Views
    <2>1. BeginTask(RestoreTask(n), RestoreView(View(fs), n))
      BY <1>4 DEF Restore
    <2>2. RestoreView(View(fs), n) \in Views BY <1>2, RestoreViewTyped
    <2>3. QED BY <1>2, <2>1, <2>2, BeginMarks DEF Typed
  <1>5. CASE Write
    <2> DEFINE new == written + 1
    <2>1. new \in Contents /\ new \in Data
      BY <1>5, OpsAssumption DEF Write, Typed, Contents, Data
    <2> HIDE DEF new
    <2>2. [before EXCEPT !.current = new] \in Views /\ [after EXCEPT !.current = new] \in Views
      BY <2>1, NewCurrent DEF Typed
    <2>3. task.name \in Names BY TaskFacts DEF Typed, EngineOK, EngineTyped
    <2>4. SnapshotView([after EXCEPT !.current = new], task.name) \in Views
      BY <2>2, <2>3, SnapshotViewTyped
    <2>5. before' \in {before, [before EXCEPT !.current = new]}
      BY <1>5 DEF Write, new
    <2>6. after' \in {after, [after EXCEPT !.current = new],
                     SnapshotView([after EXCEPT !.current = new], task.name)}
      BY <1>5 DEF Write, new
    <2>7. QED BY <2>2, <2>4, <2>5, <2>6 DEF Typed
  <1>6. CASE RunPrim BY <1>6, RunPrimFacts DEF Typed, WorldTyped
  <1>7. CASE Starts \/ Requests \/ Refuses \/ StepEnds \/ Advances \/ Ensures \/ Clears \/ Start \/ Stop
             \/ Killed \/ Bootstrap \/ UNCHANGED vars
    BY <1>7 DEF Bootstrap, Starts, Requests, Refuses, StepEnds, Advances, Ensures, Clears, Start, Stop, Killed,
                Still, Idles, history, vars, Typed
  <1>8. MayReplace \in BOOLEAN BY OpsAssumption
  <1>9. QED BY <1>3, <1>4, <1>5, <1>6, <1>7, <1>8 DEF Next

\* Every step keeps the state to its types.
LEMMA TypedNext ==
  ASSUME Typed, [Next]_vars
  PROVE  Typed'
  <1>1. EngineOK' BY EngineNext DEF Typed, WorldTyped
  <1>2. QED BY <1>1, WorldNext, TurnNext, MarksNext, ViewsNext DEF Typed

-----------------------------------------------------------------------------
(* The world *)

LEMMA NamedFacts ==
  /\ Named \subseteq Paths
  /\ \A m \in Names : Snap(m) \in Named /\ Staging(m) \in Named /\ Replaced(m) \in Named /\ Pruned(m) \in Named
  /\ Current \notin Named /\ NewDir \notin Named /\ OldDir \notin Named /\ PruneDir \notin Named
  BY PathTypes, PathKinds DEF Named

LEMMA DataOrder ==
  ASSUME NEW f \in [Paths -> Directories], NEW p \in Paths
  PROVE  f[p].data \in Data /\ f[p].data \in Int /\ f[p].mtime \in Nat
         /\ f[p] = [data |-> f[p].data, mtime |-> f[p].mtime]
  <1>1. f[p] \in Directories /\ MaxWrites \in Nat /\ MaxTasks \in Nat /\ Cardinality(Names) \in Nat
    BY OpsAssumption, FS_CardinalityType
  <1>2. QED BY <1>1 DEF Directories, Data, Contents, Gone, Empty, Torn

\* The clock never goes back.
LEMMA ClockGrows ==
  ASSUME Typed, [Next]_vars
  PROVE  /\ written' \in Nat /\ written \in Nat /\ written <= written'
         /\ Now \in Nat /\ Now' \in Nat /\ Now <= Now'
         /\ begun' \in {begun, begun + 1} /\ begun \in Nat
  <1>1. written' \in {written, written + 1} /\ begun' \in {begun, begun + 1}
    <2>1. CASE Starts \/ Requests \/ StepEnds \/ Advances \/ Clears \/ Ensures \/ Start \/ Stop \/ UNCHANGED vars
      BY <2>1 DEF Starts, Requests, StepEnds, Advances, Clears, Ensures, Start, Stop, Still, Idles, counters, vars
    <2>2. CASE RunPrim BY <2>2 DEF RunPrim, counters
    <2>3. CASE Refuses \/ Killed \/ Write \/ Bootstrap
      BY <2>3 DEF Refuses, Killed, Write, Bootstrap, counters
    <2>4. ASSUME NEW n \in Names, NEW force \in BOOLEAN, Snapshot(n, force) \/ Restore(n, force)
          PROVE  written' \in {written, written + 1} /\ begun' \in {begun, begun + 1}
      BY <2>4 DEF Snapshot, Restore, BeginTask
    <2>5. MayReplace \in BOOLEAN BY OpsAssumption
    <2>6. QED BY <2>1, <2>2, <2>3, <2>4, <2>5 DEF Next
  <1>2. Cardinality(Names) \in Nat /\ begun \in Nat /\ written \in Nat
    BY OpsAssumption, FS_CardinalityType DEF Typed
  <1>3. QED BY <1>1, <1>2 DEF Now

\* What a primitive leaves at a path was somewhere before, or is a stub.
LEMMA RanSources ==
  ASSUME FsTyped, Kinded, NEW nil \in BOOLEAN, Ran(NextPrim, nil), NEW p \in Paths
  PROVE  \/ \E q \in Paths : fs'[p] = fs[q]
         \/ fs'[p] \in {Missing, [data |-> Torn, mtime |-> 0], [data |-> Empty, mtime |-> 0]}
         \/ NextPrim = TouchNow(p) /\ fs'[p] = [data |-> fs[p].data, mtime |-> Now]
  <1> DEFINE Goal == \/ \E q \in Paths : fs'[p] = fs[q]
                     \/ fs'[p] \in {Missing, [data |-> Torn, mtime |-> 0], [data |-> Empty, mtime |-> 0]}
                     \/ NextPrim = TouchNow(p) /\ fs'[p] = [data |-> fs[p].data, mtime |-> Now]
  <1>1. ASSUME NEW a \in Paths, NEW b \in Paths, a # b, NextPrim = Move(a, b)
        PROVE  Goal
    BY <1>1, MoveFacts DEF Keeps
  <1>2. ASSUME NEW a \in Paths, NEW b \in Paths, NextPrim = Prim("clone", a, b)
        PROVE  Goal
    BY <1>2, CloneFacts DEF Keeps
  <1>3. ASSUME NEW a \in Paths, NEW b \in Paths, NextPrim = MatchTopMode(a, b)
        PROVE  Goal
    BY <1>3, RanChmod
  <1>4. ASSUME NEW a \in Paths, NextPrim = RemoveAll(a)
        PROVE  Goal
    <2>1. CASE a = PruneDir BY <1>4, <2>1, RemovePruneFacts, PathTypes DEF Keeps
    <2>2. CASE a # PruneDir BY <1>4, <2>2, RemoveFacts DEF Keeps
    <2>3. QED BY <2>1, <2>2
  <1>5. ASSUME NEW a \in Paths, NextPrim = TouchNow(a)
        PROVE  Goal
    BY <1>5, TouchFacts DEF Keeps
  <1>6. ASSUME NEW a \in Paths, NextPrim = EnsureDir(a)
        PROVE  Goal
    BY <1>6, MkdirFacts DEF Keeps
  <1>7. ASSUME NEW a \in Paths, NextPrim = ReturnUnless(a)
        PROVE  Goal
    BY <1>7, RanUnless
  <1>8. ASSUME NEW op \in BackendOps, NextPrim = Call(op)
        PROVE  Goal
    BY <1>8, RanCall DEF Called
  <1>9. QED BY <1>1, <1>2, <1>3, <1>4, <1>5, <1>6, <1>7, <1>8 DEF Kinded

-----------------------------------------------------------------------------
(* The initial states *)

\* The initial timelines.
LEMMA PlaceFacts ==
  ASSUME NEW taken \in Timelines, NEW n, Contains(taken, n)
  PROVE  n \in Names /\ Place(taken, n) \in 1..Len(taken) /\ taken[Place(taken, n)] = n
  <1>1. taken \in Seq(Names) /\ DOMAIN taken = 1..Len(taken) BY OpsAssumption
  <1>2. \E i \in DOMAIN taken : taken[i] = n BY DEF Contains
  <1>3. Place(taken, n) \in DOMAIN taken /\ taken[Place(taken, n)] = n
    BY <1>2 DEF Place
  <1>4. QED BY <1>1, <1>3

LEMMA TimelineFacts ==
  ASSUME NEW taken \in Timelines
  PROVE  /\ Len(taken) \in 1..MaxWrites /\ Len(taken) <= Cardinality(Names) /\ taken[1] \in Names
         /\ Cardinality(Names) \in Nat
  <1>1. taken \in Seq(Names) /\ taken # <<>> /\ IsInjective(taken) /\ MaxWrites >= Len(taken)
        /\ IsFiniteSet(Names) /\ MaxWrites \in Nat
    BY OpsAssumption
  <1>2. Len(taken) \in Nat /\ taken \in [1..Len(taken) -> Names] BY <1>1
  <1>3. taken \in Injection(1..Len(taken), Names)
    BY <1>1, <1>2 DEF Injection, IsInjective
  <1>4. Cardinality(1..Len(taken)) = Len(taken) BY <1>2, FS_Interval
  <1>5. Cardinality(1..Len(taken)) <= Cardinality(Names) /\ Cardinality(Names) \in Nat
    BY <1>1, <1>3, FS_Injection, FS_CardinalityType
  <1>6. Len(taken) # 0 BY <1>1
  <1>7. QED BY <1>1, <1>2, <1>4, <1>5, <1>6

\* What every initial state has.
LEMMA InitFacts ==
  ASSUME Init
  PROVE  /\ EngineInit /\ task \in Tasks /\ FsTyped
         /\ written \in 0..MaxWrites /\ ctr = TRUE /\ pg = TRUE /\ sub = 0 /\ cancelled = FALSE
         /\ begun = 0 /\ crashes = 0 /\ before = View(fs) /\ after = View(fs)
         /\ swapped = FALSE /\ undone = FALSE /\ marred = {}
         /\ fs[Current].data = written /\ \A p \in Artifacts : fs[p] = Missing
         /\ \A p \in Paths : Sound(fs[p]) /\ fs[p].data # Empty
  <1>1. PICK taken \in Timelines :
          /\ task = [kind |-> "snapshot", name |-> taken[1], replaced |-> FALSE]
          /\ fs = [p \in Paths |->
               CASE p = Current -> [data |-> Len(taken), mtime |-> 0]
                 [] p[1] = "snapshot" /\ Contains(taken, p[2]) ->
                      [data |-> Place(taken, p[2]) - 1, mtime |-> Place(taken, p[2])]
                 [] OTHER -> Missing]
          /\ written = Len(taken)
    BY DEF Init
  <1>2. /\ Len(taken) \in 1..MaxWrites /\ Len(taken) <= Cardinality(Names) /\ taken[1] \in Names
        /\ Cardinality(Names) \in Nat /\ MaxWrites \in Nat /\ MaxTasks \in Nat
    BY TimelineFacts, OpsAssumption
  <1>3. task \in Tasks BY <1>1, <1>2 DEF Tasks, SnapshotTasks
  <1>10. Current[1] # "snapshot" BY PathKinds
  <1>4. ASSUME NEW p \in Paths
        PROVE  /\ fs[p] \in Directories
               /\ Sound(fs[p]) /\ fs[p].data # Empty
    <2>1. begun = 0 /\ Now = Cardinality(Names) BY <1>2 DEF Init, Now
    <2>2. CASE p = Current
      <3>1. fs[p] = [data |-> Len(taken), mtime |-> 0] BY <1>1, <2>2, <1>10
      <3>2. QED
        BY <1>1, <1>2, <2>1, <3>1 DEF Directories, Data, Contents, Sound, Missing, Gone, Empty
    <2>3. CASE p # Current /\ p[1] = "snapshot" /\ Contains(taken, p[2])
      <3>1. fs[p] = [data |-> Place(taken, p[2]) - 1, mtime |-> Place(taken, p[2])]
        BY <1>1, <2>3
      <3>2. Place(taken, p[2]) \in 1..Len(taken) BY <2>3, PlaceFacts
      <3>3. QED
        BY <1>1, <1>2, <2>1, <3>1, <3>2 DEF Directories, Data, Contents, Sound, Missing, Gone, Empty
    <2>4. CASE p # Current /\ ~(p[1] = "snapshot" /\ Contains(taken, p[2]))
      <3>1. fs[p] = Missing BY <1>1, <2>4
      <3>2. QED
        BY <1>1, <1>2, <2>1, <3>1 DEF Directories, Data, Contents, Sound, Missing, Gone, Empty
    <2>5. QED BY <2>2, <2>3, <2>4
  <1>5. FsTyped BY <1>1, <1>4 DEF FsTyped
  <1>6. fs[Current].data = written BY <1>1, <1>10, PathTypes
  <1>7. ASSUME NEW p \in Artifacts
        PROVE  fs[p] = Missing
    <2>1. p \in Paths /\ p # Current /\ p[1] # "snapshot"
      BY PathKinds, PathCases DEF Artifacts
    <2>2. QED BY <1>1, <2>1
  <1>8. written \in 0..MaxWrites BY <1>1, <1>2
  <1>9. QED BY <1>3, <1>4, <1>5, <1>6, <1>7, <1>8 DEF Init

\* The initial states are typed.
LEMMA TypedInit ==
  ASSUME Init
  PROVE  Typed
  <1>1. /\ task \in Tasks /\ record = -1 /\ pc = "down" /\ caller = "startup" /\ phase = "none"
        /\ at = 0 /\ err = FALSE /\ reply = "none" /\ sub = 0
    BY InitFacts DEF EngineInit, NoRecord
  <1>2. EngineTyped
    <2>1. Count(task) \in Nat BY <1>1, TaskFacts
    <2>2. record \in -1..Count(task) /\ at \in -1..Count(task) BY <1>1, <2>1
    <2>3. err \in BOOLEAN BY <1>1
    <2>4. QED BY <1>1, <2>2, <2>3 DEF EngineTyped
  <1>3. EngineInv BY <1>1 DEF EngineInv, Opened, NoRecord
  <1>4. Turn BY <1>1 DEF Turn
  <1>5. View(fs) \in Views BY InitFacts, ViewTyped DEF FsTyped
  <1>6. MaxTasks \in Nat /\ MaxCrashes \in Nat /\ Cardinality(Names) \in Nat
    BY OpsAssumption, FS_CardinalityType
  <1>7. QED
    BY <1>1, <1>2, <1>3, <1>4, <1>5, <1>6, InitFacts DEF Typed, EngineOK, WorldTyped

LEMMA TypedOK == Typed => TypeOK
  BY EngineTypedIs DEF Typed, EngineOK, WorldTyped, FsTyped, TypeOK

\* The strengthened type invariant: the engine is consistent, and a container
\* that is down runs no PostgreSQL, whatever fails and wherever pgdevd is killed.
THEOREM AlwaysTyped == Spec => []Typed
  <1>1. Init => Typed BY TypedInit
  <1>2. Typed /\ [Next]_vars => Typed' BY TypedNext
  <1>3. QED BY <1>1, <1>2, PTL DEF Spec

\* Every variable keeps to its type, for any names, timelines and bounds.
THEOREM SlotTyped == Spec => []TypeOK
  BY AlwaysTyped, TypedOK, PTL

-----------------------------------------------------------------------------
(* Which paths a primitive of a task is about *)

\* Which directory a primitive of a task may change.
LEMMA PrimTargets ==
  ASSUME EngineOK, pc \in {"do", "undo"}, sub < Len(Program)
  PROVE  LET n == task.name IN
         /\ NextPrim.op = "touch" =>
              /\ task.kind = "snapshot" /\ pc = "do" /\ at = 1 /\ sub = 2
              /\ NextPrim = TouchNow(Staging(n))
         /\ NextPrim.op = "clone" =>
              /\ pc = "do"
              /\ \/ task.kind = "snapshot" /\ at = 1 /\ sub = 1 /\ NextPrim = Prim("clone", Current, Staging(n))
                 \/ task.kind = "restore" /\ at = 0 /\ sub = 1 /\ NextPrim = Prim("clone", Snap(n), NewDir)
         /\ NextPrim.op = "remove" => NextPrim.from \in Artifacts /\ NextPrim = RemoveAll(NextPrim.from)
         /\ NextPrim.op = "mkdir" => NextPrim = EnsureDir(PruneDir)
         /\ NextPrim.op = "move" =>
              /\ NextPrim = Move(NextPrim.from, NextPrim.to) /\ NextPrim.from # NextPrim.to
              /\ \/ task.kind = "restore" /\ at = 3
                    /\ NextPrim.from \notin Named /\ NextPrim.to \notin Named
                 \/ NextPrim.from \in Named /\ NextPrim.to \in Named /\ at # 3
                 \/ NextPrim.from \in Named /\ NextPrim.to \in Named /\ task.kind = "snapshot"
  <1> DEFINE n == task.name
             l == Listed(task.after)
  <1>1. /\ task \in Tasks /\ sub \in Nat
        /\ pc = "do" => at \in 0..(Count(task) - 1)
        /\ pc = "undo" => at \in 0..(Commit(task) - 1)
    BY KindedNow
  <1>2. n \in Names /\ task \in SnapshotTasks \cup RestoreTasks
    BY <1>1, TaskFacts DEF Tasks
  <1>3. CASE task \in SnapshotTasks
    <2>1. /\ task.kind = "snapshot"
          /\ Staging(n) \in Named /\ Snap(n) \in Named /\ Replaced(n) \in Named
          /\ Staging(n) \in Artifacts /\ Replaced(n) \in Artifacts
          /\ Staging(n) # Snap(n) /\ Snap(n) # Replaced(n)
      BY <1>2, <1>3, NamedFacts, ArtifactFacts, PathKinds DEF SnapshotTasks
    <2>2. CASE pc = "do"
      BY <1>1, <1>3, <2>1, <2>2, SnapshotDo
      DEF Is, Call, RemoveAll, Prim, Move, TouchNow, MatchTopMode, EnsureDir, ReturnUnless
    <2>3. CASE pc = "undo"
      BY <1>1, <1>3, <2>1, <2>3, SnapshotUndo
      DEF Is, Call, RemoveAll, Prim, Move, TouchNow, MatchTopMode, EnsureDir, ReturnUnless
    <2>4. QED BY <2>2, <2>3
  <1>4. CASE task \in RestoreTasks
    <2>1. /\ task.kind = "restore" /\ task.after \in SUBSET Names
          /\ NewDir \in Artifacts /\ OldDir \in Artifacts /\ PruneDir \in Artifacts
          /\ NewDir # Current /\ NewDir # OldDir /\ OldDir # Current
          /\ Current \notin Named /\ NewDir \notin Named /\ OldDir \notin Named
          /\ \A m \in Names : Snap(m) \in Named /\ Pruned(m) \in Named /\ Snap(m) # Pruned(m)
      BY <1>4, NamedFacts, ArtifactFacts, PathKinds DEF RestoreTasks
    <2>2. l \in [1..Len(l) -> Names]
      <3>1. l \in [1..Len(l) -> task.after] BY <2>1, ListedFacts
      <3>2. QED BY <2>1, <3>1
    <2>3. \A i \in 1..Len(l) : Snap(l[i]) \in Named /\ Pruned(l[i]) \in Named /\ Snap(l[i]) # Pruned(l[i])
      BY <2>1, <2>2
    <2>4. CASE pc = "do"
      BY <1>1, <1>4, <2>1, <2>3, <2>4, RestoreDo
      DEF Is, Call, RemoveAll, Prim, Move, TouchNow, MatchTopMode, EnsureDir, ReturnUnless
    <2>5. CASE pc = "undo"
      BY <1>1, <1>4, <2>1, <2>3, <2>5, RestoreUndo
      DEF Is, Call, RemoveAll, Prim, Move, TouchNow, MatchTopMode, EnsureDir, ReturnUnless
    <2>6. QED BY <2>4, <2>5
  <1>5. QED BY <1>2, <1>3, <1>4

-----------------------------------------------------------------------------
(* What the actions that only run the engine leave alone *)

Quiet == Starts \/ Requests \/ StepEnds \/ Advances \/ Clears \/ UNCHANGED vars
LEMMA QuietFacts ==
  ASSUME Quiet
  PROVE  /\ UNCHANGED <<fs, ctr, pg, before, after, begun, written, crashes, swapped, undone>>
         /\ sub' \in {sub, 0}
  BY DEF Quiet, Starts, Requests, StepEnds, Advances, Clears, Still, Idles, world, counters, history, vars

\* A step is one of these; the quiet ones only run the engine.
LEMMA NextCases ==
  ASSUME [Next]_vars
  PROVE  \/ Quiet \/ RunPrim \/ Ensures \/ Refuses \/ Start \/ Stop \/ Killed \/ Write \/ Bootstrap
         \/ \E n \in Names, force \in BOOLEAN : Snapshot(n, force) \/ Restore(n, force)
  <1>1. MayReplace \in BOOLEAN BY OpsAssumption
  <1>2. QED BY <1>1 DEF Next, Quiet

\* What the bootstrap before a start leaves alone: all but a live directory that
\* is not there.
LEMMA BootFacts ==
  ASSUME Bootstrap
  PROVE  /\ EngineSame /\ UNCHANGED <<ctr, pg, sub, cancelled, begun, written, crashes, before, after, swapped, undone>>
         /\ pc = "down" /\ (fs' = fs \/ fs' = EnsureLayout)
         /\ fs' # fs => fs' = EnsureLayout /\ ~Exists(fs, Current) /\ "layout" \in marred'
         /\ marred \subseteq marred' /\ marred' \subseteq marred \cup {"layout"}
  BY DEF Bootstrap, Mars, engine, counters, EngineSame, EnsureLayout

\* What was sound stays so as the clock and the versions go on.
LEMMA SoundGrows ==
  ASSUME Typed, [Next]_vars, NEW d \in Directories, Sound(d)
  PROVE  Sound(d)'
  <1>1. d.data \in Int /\ d.mtime \in Nat
    <2>1. MaxWrites \in Nat /\ MaxTasks \in Nat /\ Cardinality(Names) \in Nat
      BY OpsAssumption, FS_CardinalityType
    <2>2. QED BY <2>1 DEF Directories, Data, Contents, Gone, Empty, Torn
  <1>2. QED BY <1>1, ClockGrows DEF Sound

\* The path of a kill is a copy being made or a tree being removed.
LEMMA KilledPaths ==
  ASSUME EngineOK, FsTyped, Killed, fs' # fs
  PROVE  \E p \in Artifacts :
           /\ fs'[p].data = Torn /\ fs'[p].mtime \in {0, fs[p].mtime}
           /\ \A q \in Paths \ {p} : fs'[q] = fs[q]
           /\ pc \in {"do", "undo"} /\ sub < Len(Program)
           /\ \/ NextPrim.op = "clone" /\ p = NextPrim.to
              \/ NextPrim.op = "remove" /\ NextPrim.from # PruneDir /\ p = NextPrim.from /\ Exists(fs, p)
              \/ NextPrim.op = "remove" /\ NextPrim.from = PruneDir
                 /\ \E m \in Names : p = Pruned(m) /\ Exists(fs, p)
  <1>1. PICK p \in Paths :
           /\ fs'[p].data = Torn /\ fs'[p].mtime \in {0, fs[p].mtime}
           /\ \A q \in Paths \ {p} : fs'[q] = fs[q]
           /\ pc \in {"do", "undo"} /\ sub < Len(Program)
           /\ \/ NextPrim.op = "clone" /\ p = NextPrim.to
              \/ NextPrim.op = "remove" /\ NextPrim.from # PruneDir /\ p = NextPrim.from /\ Exists(fs, p)
              \/ NextPrim.op = "remove" /\ NextPrim.from = PruneDir
                 /\ \E m \in Names : p = Pruned(m) /\ Exists(fs, p)
    BY KilledFacts
  <1>2. p \in Artifacts
    <2>1. CASE NextPrim.op = "clone"
      <3>1. NextPrim.to = Staging(task.name) \/ NextPrim.to = NewDir
        BY <1>1, <2>1, PrimTargets DEF Prim
      <3>2. task.name \in Names BY TaskFacts DEF EngineOK, EngineTyped
      <3>3. QED BY <1>1, <2>1, <3>1, <3>2, ArtifactFacts
    <2>2. CASE NextPrim.op = "remove" BY <1>1, <2>2, PrimTargets, ArtifactFacts
    <2>3. QED BY <1>1, <2>1, <2>2
  <1>3. QED BY <1>1, <1>2

\* The live directory is no transaction directory.
LEMMA CurrentApart == Current \in Paths /\ Current \notin Artifacts /\ Current \notin Named
  BY PathTypes, ArtifactFacts, NamedFacts

\* The live directory only changes by the two moves of the swap.
LEMMA RunKeepsCurrent ==
  ASSUME EngineOK, FsTyped, NEW nil \in BOOLEAN, Ran(NextPrim, nil),
         pc \in {"do", "undo"}, sub < Len(Program), ~(task.kind = "restore" /\ at = 3)
  PROVE  fs'[Current] = fs[Current]
  <1>1. Kinded BY KindedNow
  <1>2. ASSUME NEW a \in Paths, NEW b \in Paths, a # b, NextPrim = Move(a, b)
        PROVE  fs'[Current] = fs[Current]
    <2>1. a \in Named /\ b \in Named BY <1>2, PrimTargets DEF Move, Prim
    <2>2. QED BY <1>2, <2>1, MoveFacts, CurrentApart DEF Keeps
  <1>3. ASSUME NEW a \in Paths, NEW b \in Paths, NextPrim = Prim("clone", a, b)
        PROVE  fs'[Current] = fs[Current]
    <2>1. b # Current
      <3>1. b = Staging(task.name) \/ b = NewDir BY <1>3, PrimTargets DEF Prim
      <3>2. QED BY <3>1, PathKinds
    <2>2. QED BY <1>3, <2>1, CloneFacts, CurrentApart DEF Keeps
  <1>4. ASSUME NEW p \in Paths, NextPrim = RemoveAll(p)
        PROVE  fs'[Current] = fs[Current]
    <2>1. p \in Artifacts BY <1>4, PrimTargets DEF RemoveAll, Prim
    <2>2. CASE p = PruneDir
      BY <1>4, <2>2, RemovePruneFacts, CurrentApart, ArtifactFacts DEF Keeps
    <2>3. CASE p # PruneDir
      BY <1>4, <2>1, <2>3, RemoveFacts, CurrentApart DEF Keeps
    <2>4. QED BY <2>2, <2>3
  <1>5. ASSUME NEW p \in Paths, NextPrim = TouchNow(p)
        PROVE  fs'[Current] = fs[Current]
    <2>1. p = Staging(task.name) BY <1>5, PrimTargets DEF TouchNow, Prim
    <2>2. p # Current BY <2>1, PathKinds
    <2>3. Keeps({p}) BY <1>5, TouchFacts
    <2>4. QED BY <2>2, <2>3, CurrentApart DEF Keeps
  <1>6. ASSUME NEW p \in Paths, NextPrim = EnsureDir(p)
        PROVE  fs'[Current] = fs[Current]
    <2>1. p = PruneDir BY <1>6, PrimTargets DEF EnsureDir, Prim
    <2>2. QED BY <1>6, <2>1, MkdirFacts, CurrentApart, PathKinds DEF Keeps
  <1>7. ASSUME NEW a \in Paths, NEW b \in Paths, NextPrim = MatchTopMode(a, b) \/ NextPrim = ReturnUnless(a)
        PROVE  fs'[Current] = fs[Current]
    BY <1>7, RanChmod, RanUnless
  <1>8. ASSUME NEW op \in BackendOps, NextPrim = Call(op)
        PROVE  fs'[Current] = fs[Current]
    BY <1>8, RanCall DEF Called
  <1>9. QED BY <1>1, <1>2, <1>3, <1>4, <1>5, <1>6, <1>7, <1>8 DEF Kinded

-----------------------------------------------------------------------------
(* The world is sound *)

\* No step leaves a content or a stamp that comes from the future.
LEMMA SoundNext ==
  ASSUME Typed, WorldInv, SnapshotForward, [Next]_vars
  PROVE  FsSound'
  <1>1. \A p \in Paths : fs[p] \in Directories /\ Sound(fs[p])
    BY DEF Typed, WorldTyped, FsTyped, WorldInv, FsSound
  <1>2. \A p \in Paths : Sound(fs[p])'
    <2> SUFFICES ASSUME NEW p \in Paths PROVE Sound(fs[p])'
      OBVIOUS
    <2>1. \A d \in Directories : Sound(d) => Sound(d)' BY SoundGrows
    <2>2. ASSUME NEW q \in Paths, fs'[p] = fs[q] PROVE Sound(fs[p])'
      <3>1. Sound(fs[q]) /\ fs[q] \in Directories BY <1>1
      <3>2. fs[q].data \in Int /\ fs[q].mtime \in Nat
        BY DataOrder DEF Typed, WorldTyped, FsTyped
      <3>3. QED BY <2>2, <3>1, <3>2, ClockGrows DEF Sound
    <2>3. ASSUME fs'[p] \in {Missing, [data |-> Torn, mtime |-> 0], [data |-> Empty, mtime |-> 0]}
          PROVE  Sound(fs[p])'
      <3>1. written' \in Nat /\ Now' \in Nat BY ClockGrows
      <3>2. QED BY <2>3, <3>1 DEF Sound, Missing, Gone, Torn, Empty
    <2>4. CASE RunPrim
      <3>1. pc \in {"do", "undo"} /\ sub < Len(Program) /\ Kinded
            /\ UNCHANGED <<begun, written>> /\ \E nil \in BOOLEAN : Ran(NextPrim, nil)
        BY <2>4, RunPrimFacts, KindedNow DEF Typed, WorldTyped
      <3>2. PICK nil \in BOOLEAN : Ran(NextPrim, nil)
        BY <3>1
      <3>3. CASE NextPrim = TouchNow(p) /\ fs'[p] = [data |-> fs[p].data, mtime |-> Now]
        <4>1. task.kind = "snapshot" /\ pc = "do" /\ at = 1 /\ sub = 2 /\ p = Staging(task.name)
          BY <3>1, <3>3, PrimTargets DEF TouchNow, Prim, Typed
        <4>2. Installs(task) \in {2, 3} /\ Commit(task) \in {3, 4}
          BY <4>1, TaskFacts DEF Installs, Commit, Typed, EngineOK, EngineTyped
        <4>3. phase = "run" BY <4>1, <4>2 DEF Typed, EngineOK, EngineInv
        <4>4. Past(1, 2) /\ ~Past(Installs(task), 1) BY <4>1, <4>2 DEF Past
        <4>5. Exists(fs, p) BY <4>1, <4>3, <4>4 DEF SnapshotForward, Forward
        <4>6. fs[p].data # Gone /\ fs[p].data <= written /\ Now \in Nat
          BY <1>1, <4>5, ClockGrows DEF Sound, Exists
        <4>7. fs'[p].data = fs[p].data /\ fs'[p].mtime = Now /\ Now' = Now
          BY <3>1, <3>3 DEF Now
        <4>8. QED BY <3>1, <4>6, <4>7 DEF Sound
      <3>4. \/ \E q \in Paths : fs'[p] = fs[q]
            \/ fs'[p] \in {Missing, [data |-> Torn, mtime |-> 0], [data |-> Empty, mtime |-> 0]}
            \/ NextPrim = TouchNow(p) /\ fs'[p] = [data |-> fs[p].data, mtime |-> Now]
        BY <3>1, <3>2, RanSources DEF Typed, WorldTyped
      <3>5. QED BY <2>2, <2>3, <3>3, <3>4
    <2>5. CASE Killed
      <3>1. CASE fs' = fs BY <2>2, <3>1
      <3>2. CASE fs' # fs
        <4>1. PICK k \in Artifacts :
                /\ fs'[k].data = Torn /\ fs'[k].mtime \in {0, fs[k].mtime}
                /\ \A q \in Paths \ {k} : fs'[q] = fs[q]
          BY <2>5, <3>2, KilledPaths DEF Typed, WorldTyped
        <4>2. CASE p # k BY <2>2, <4>1, <4>2
        <4>3. CASE p = k
          <5>1. fs[p].mtime \in Nat /\ fs[p].mtime <= Now /\ Now \in Nat /\ Now <= Now' /\ Now' \in Nat
                /\ written' \in Nat
            BY <1>1, ClockGrows, DataOrder DEF Sound, Typed, WorldTyped, FsTyped
          <5>2. fs'[p].mtime <= Now' /\ fs'[p].data <= written' /\ fs'[p].data # Gone
            BY <4>1, <4>3, <5>1 DEF Torn, Gone
          <5>3. QED BY <5>2 DEF Sound
        <4>4. QED BY <4>2, <4>3
      <3>3. QED BY <3>1, <3>2
    <2>6. CASE Write
      <3>1. fs' = [fs EXCEPT ![Current].data = written + 1] /\ written' = written + 1 /\ begun' = begun
        BY <2>6 DEF Write
      <3>2. CASE p = Current
        <4>1. fs'[p].data = written' /\ fs'[p].mtime = fs[p].mtime
          BY <3>1, <3>2 DEF Typed, WorldTyped, FsTyped, Directories
        <4>2. fs[p].mtime <= Now /\ Now' = Now /\ written' \in Nat
          BY <1>1, <3>1, ClockGrows DEF Sound, Now
        <4>3. QED BY <4>1, <4>2 DEF Sound, Gone
      <3>3. CASE p # Current
        <4>1. fs'[p] = fs[p] BY <3>1, <3>3 DEF Typed, WorldTyped, FsTyped
        <4>2. QED BY <2>2, <4>1
      <3>4. QED BY <3>2, <3>3
    <2>7. ASSUME NEW n \in Names, NEW force \in BOOLEAN, Snapshot(n, force) \/ Restore(n, force)
          PROVE  Sound(fs[p])'
      <3>1. fs' = fs \/ fs' = EnsureLayout BY <2>7 DEF Snapshot, Restore
      <3>2. QED BY <2>2, <2>3, <3>1, LayoutFacts DEF Typed, WorldTyped
    <2>8. CASE Refuses \/ Bootstrap
      <3>1. fs' = fs \/ fs' = EnsureLayout BY <2>8, BootFacts DEF Refuses
      <3>2. QED BY <2>2, <2>3, <3>1, LayoutFacts DEF Typed, WorldTyped
    <2>9. CASE Quiet \/ Ensures \/ Start \/ Stop
      <3>1. fs' = fs
        BY <2>9, QuietFacts, EnsureFacts DEF Start, Stop, Typed, WorldTyped
      <3>2. QED BY <2>2, <3>1
    <2>10. QED BY <2>4, <2>5, <2>6, <2>7, <2>8, <2>9, NextCases
  <1>3. QED BY <1>2 DEF FsSound

\* A call of the backend starts PostgreSQL on a complete cluster only.
LEMMA CalledUp ==
  ASSUME WorldTyped, PgUp, NEW op \in BackendOps, NEW nil \in BOOLEAN, Called(op, nil)
  PROVE  PgUp' /\ fs' = fs
  <1>1. fs' = fs /\ (pg' = BackendCall(op).pg \/ pg' = pg) BY DEF Called
  <1>2. pg => Bootable BY DEF PgUp
  <1>3. CASE pg' = pg BY <1>1, <1>2, <1>3 DEF PgUp, Bootable
  <1>4. CASE pg' = BackendCall(op).pg
    <2>1. BackendCall(op).pg = FALSE \/ BackendCall(op).pg = Bootable
          \/ BackendCall(op).pg = (ctr /\ Bootable) \/ BackendCall(op).pg = pg
      BY CallFacts DEF BackendOps, Outcome
    <2>2. pg' => Bootable BY <1>2, <1>4, <2>1
    <2>3. QED BY <1>1, <2>2 DEF PgUp, Bootable
  <1>5. QED BY <1>1, <1>3, <1>4

\* No step changes the data under a running PostgreSQL.
LEMMA PgUpNext ==
  ASSUME Typed, WorldInv, RestoreForward, [Next]_vars
  PROVE  PgUp'
  <1>1. pg => fs[Current].data \in Contents BY DEF WorldInv, PgUp, Bootable
  <1>2. ASSUME fs'[Current] = fs[Current], pg' => pg
        PROVE  PgUp'
    BY <1>1, <1>2 DEF PgUp, Bootable
  <1>3. ASSUME fs' = fs, pg' => Bootable
        PROVE  PgUp'
    BY <1>3 DEF PgUp, Bootable
  <1>4. ASSUME pg' = FALSE
        PROVE  PgUp'
    BY <1>4 DEF PgUp
  <1>5. CASE RunPrim
    <2>1. pc \in {"do", "undo"} /\ sub < Len(Program) /\ Kinded /\ task \in Tasks
          /\ \E nil \in BOOLEAN : Ran(NextPrim, nil)
      BY <1>5, RunPrimFacts, KindedNow DEF Typed, WorldTyped
    <2>2. PICK nil \in BOOLEAN : Ran(NextPrim, nil)
      BY <2>1
    <2>3. ASSUME NEW op \in BackendOps, NextPrim = Call(op)
          PROVE  PgUp'
      <3>1. Called(op, nil) BY <2>2, <2>3, RanCall
      <3>2. QED BY <3>1, CalledUp DEF Typed, WorldInv
    <2>4. CASE \A op \in BackendOps : NextPrim # Call(op)
      <3>1. pg' = pg
        <4>1. ASSUME NEW a \in Paths, NEW b \in Paths,
                     \/ a # b /\ NextPrim = Move(a, b)
                     \/ NextPrim = Prim("clone", a, b)
                     \/ NextPrim = MatchTopMode(a, b)
                     \/ NextPrim = RemoveAll(a)
                     \/ NextPrim = TouchNow(a)
                     \/ NextPrim = EnsureDir(a)
                     \/ NextPrim = ReturnUnless(a)
              PROVE  pg' = pg
          BY <2>2, <4>1, RanMove, RanClone, RanChmod, RanRemove, RanTouch, RanMkdir, RanUnless DEF Around
        <4>2. QED BY <2>1, <2>4, <4>1 DEF Kinded
      <3>2. CASE ~(task.kind = "restore" /\ at = 3)
        <4>1. fs'[Current] = fs[Current]
          BY <2>1, <2>2, <3>2, RunKeepsCurrent DEF Typed, WorldTyped
        <4>2. QED BY <1>2, <3>1, <4>1
      <3>3. CASE task.kind = "restore" /\ at = 3 /\ pc = "do"
        <4>1. Commit(task) = 6 BY <3>3 DEF Commit
        <4>2. phase = "run" BY <3>3, <4>1 DEF Typed, EngineOK, EngineInv
        <4>3. ~ctr BY <3>3, <4>2 DEF RestoreForward, Forward, Past
        <4>4. QED BY <1>4, <3>1, <4>3 DEF Typed, WorldTyped
      <3>4. CASE task.kind = "restore" /\ at = 3 /\ pc = "undo"
        <4>1. CASE sub \in {2, 3}
          BY <1>4, <3>1, <3>4, <4>1 DEF Typed, WorldTyped, WorldInv, StoppedUndo
        <4>2. CASE sub \notin {2, 3}
          <5>1. NextPrim = ReturnUnless(OldDir) \/ NextPrim = Call("StopContainerForce")
            <6>1. task \in RestoreTasks /\ at \in 0..(Commit(task) - 1) /\ sub \in Nat
              BY <2>1, <3>4, TaskFacts, KindedNow DEF Typed
            <6>2. QED BY <2>1, <3>4, <4>2, <6>1, RestoreUndo DEF Is
          <5>2. NextPrim = ReturnUnless(OldDir) BY <2>4, <5>1 DEF BackendOps
          <5>3. fs' = fs BY <2>2, <5>2, RanUnless
          <5>4. QED BY <1>2, <3>1, <5>3
        <4>3. QED BY <4>1, <4>2
      <3>5. QED BY <2>1, <3>2, <3>3, <3>4
    <2>5. QED BY <2>3, <2>4
  <1>6. CASE Killed
    <2>1. fs'[Current] = fs[Current]
      <3>1. CASE fs' # fs
        BY <1>6, <3>1, KilledPaths, CurrentApart DEF Typed, WorldTyped
      <3>2. QED BY <3>1
    <2>2. pg' => pg BY <1>6 DEF Killed
    <2>3. QED BY <1>2, <2>1, <2>2
  <1>7. CASE Write
    <2>1. fs'[Current].data = written + 1
      BY <1>7, CurrentApart DEF Write, Typed, WorldTyped, FsTyped, Directories
    <2>2. written + 1 \in Contents
      BY <1>7, OpsAssumption DEF Write, Typed, Contents
    <2>3. QED BY <2>1, <2>2 DEF PgUp, Bootable
  <1>8. ASSUME NEW n \in Names, NEW force \in BOOLEAN, Snapshot(n, force)
        PROVE  PgUp'
    <2>1. Bootable /\ fs' = fs
      BY <1>8, BootableFacts DEF Snapshot, SnapshotRefused
    <2>2. QED BY <1>3, <2>1
  <1>9. ASSUME NEW n \in Names, NEW force \in BOOLEAN, Restore(n, force)
        PROVE  PgUp'
    BY <1>2, <1>9 DEF Restore
  <1>10. CASE Refuses \/ Bootstrap
    <2>1. pg' = pg /\ (fs' = fs \/ fs' = EnsureLayout)
      BY <1>10, BootFacts DEF Refuses
    <2>2. CASE ~pg BY <1>4, <2>1, <2>2 DEF Typed, WorldTyped
    <2>3. CASE pg BY <1>1, <1>2, <2>1, <2>3, BootableFacts DEF Bootable
    <2>4. QED BY <2>2, <2>3 DEF Typed, WorldTyped
  <1>11. CASE Ensures
    <2>1. fs' = fs /\ \E nil \in BOOLEAN :
              \/ UNCHANGED <<ctr, pg>>
              \/ EnsureOp(task) \in BackendOps /\ Called(EnsureOp(task), nil)
      BY <1>11, EnsureFacts DEF Typed, WorldTyped
    <2>2. QED BY <1>2, <2>1, CalledUp DEF Typed, WorldInv
  <1>12. CASE Quiet BY <1>2, <1>12, QuietFacts
  <1>13. CASE Start \/ Stop BY <1>3, <1>13 DEF Start, Stop
  <1>14. QED BY <1>5, <1>6, <1>7, <1>8, <1>9, <1>10, <1>11, <1>12, <1>13, NextCases

\* What is moved or cloned to a snapshot path is no fresh directory.
LEMMA NamedSources ==
  ASSUME EngineOK, FsTyped, pc \in {"do", "undo"}, sub < Len(Program),
         NEW nil \in BOOLEAN, Ran(NextPrim, nil), NEW p \in Named
  PROVE  \/ \E q \in Named : fs'[p].data = fs[q].data
         \/ fs'[p].data \in {Gone, Torn}
         \/ /\ fs'[p].data = fs[Current].data /\ task.kind = "snapshot" /\ pc = "do" /\ at = 1
            /\ NextPrim = Prim("clone", Current, Staging(task.name))
  <1> DEFINE Goal == \/ \E q \in Named : fs'[p].data = fs[q].data
                     \/ fs'[p].data \in {Gone, Torn}
                     \/ /\ fs'[p].data = fs[Current].data /\ task.kind = "snapshot" /\ pc = "do" /\ at = 1
                        /\ NextPrim = Prim("clone", Current, Staging(task.name))
  <1>1. Kinded /\ p \in Paths /\ p # Current /\ p # NewDir /\ p # PruneDir /\ p # OldDir
    BY KindedNow, NamedFacts
  <1>2. Missing.data = Gone BY DEF Missing
  <1>3. ASSUME NEW a \in Paths, NEW b \in Paths, a # b, NextPrim = Move(a, b)
        PROVE  Goal
    <2>1. (a \in Named /\ b \in Named) \/ (a \notin Named /\ b \notin Named)
      BY <1>3, PrimTargets DEF Move, Prim
    <2>2. CASE a \in Named /\ b \in Named
      BY <1>1, <1>2, <1>3, <2>2, MoveFacts DEF Keeps
    <2>3. CASE a \notin Named /\ b \notin Named
      BY <1>1, <1>2, <1>3, <2>3, MoveFacts DEF Keeps
    <2>4. QED BY <2>1, <2>2, <2>3
  <1>4. ASSUME NEW a \in Paths, NEW b \in Paths, NextPrim = Prim("clone", a, b)
        PROVE  Goal
    <2>1. \/ task.kind = "snapshot" /\ pc = "do" /\ at = 1 /\ a = Current /\ b = Staging(task.name)
          \/ b = NewDir
      BY <1>4, PrimTargets DEF Prim
    <2>2. p # b => fs'[p] = fs[p] BY <1>1, <1>4, CloneFacts DEF Keeps
    <2>3. fs'[b] = fs[a] \/ fs'[b] = fs[b] \/ fs'[b] = [data |-> Torn, mtime |-> 0]
      BY <1>4, CloneFacts
    <2>4. QED BY <1>1, <1>4, <2>1, <2>2, <2>3
  <1>5. ASSUME NEW a \in Paths, NextPrim = RemoveAll(a)
        PROVE  Goal
    <2>1. CASE a = PruneDir
      <3>1. CASE \E m \in Names : p = Pruned(m)
        BY <1>2, <1>5, <2>1, <3>1, RemovePruneFacts
      <3>2. CASE ~\E m \in Names : p = Pruned(m)
        BY <1>1, <1>5, <2>1, <3>2, RemovePruneFacts DEF Keeps
      <3>3. QED BY <3>1, <3>2
    <2>2. CASE a # PruneDir BY <1>1, <1>2, <1>5, <2>2, RemoveFacts DEF Keeps
    <2>3. QED BY <2>1, <2>2
  <1>6. ASSUME NEW a \in Paths, NextPrim = TouchNow(a)
        PROVE  Goal
    <2>1. p # a => fs'[p] = fs[p] BY <1>1, <1>6, TouchFacts DEF Keeps
    <2>2. fs'[a].data = fs[a].data
      <3>1. fs'[a] = [data |-> fs[a].data, mtime |-> Now] BY <1>6, TouchFacts
      <3>2. QED BY <3>1
    <2>3. QED BY <2>1, <2>2
  <1>7. ASSUME NEW a \in Paths, NextPrim = EnsureDir(a)
        PROVE  Goal
    <2>1. a = PruneDir BY <1>7, PrimTargets DEF EnsureDir, Prim
    <2>2. fs'[p] = fs[p] BY <1>1, <1>7, <2>1, MkdirFacts DEF Keeps
    <2>3. QED BY <2>2
  <1>8. ASSUME NEW a \in Paths, NEW b \in Paths, NextPrim = MatchTopMode(a, b) \/ NextPrim = ReturnUnless(a)
        PROVE  Goal
    BY <1>8, RanChmod, RanUnless
  <1>9. ASSUME NEW op \in BackendOps, NextPrim = Call(op)
        PROVE  Goal
    BY <1>9, RanCall DEF Called
  <1>10. QED BY <1>1, <1>3, <1>4, <1>5, <1>6, <1>7, <1>8, <1>9 DEF Kinded

\* No fresh directory gets a name of its own.
LEMMA EmptiesNext ==
  ASSUME Typed, WorldInv, SnapshotForward, [Next]_vars
  PROVE  NoEmpties'
  <1> SUFFICES ASSUME NEW p \in Named PROVE fs'[p].data # Empty
    BY DEF NoEmpties, Named
  <1>1. \A q \in Named : fs[q].data # Empty BY DEF WorldInv, NoEmpties
  <1>2. p \in Paths /\ p # Current BY NamedFacts
  <1>3. CASE RunPrim
    <2>1. pc \in {"do", "undo"} /\ sub < Len(Program) /\ \E nil \in BOOLEAN : Ran(NextPrim, nil)
      BY <1>3, RunPrimFacts DEF Typed, WorldTyped
    <2>2. CASE fs'[p].data = fs[Current].data /\ task.kind = "snapshot" /\ pc = "do" /\ at = 1
      <3>1. Commit(task) \in {3, 4} BY <2>2 DEF Commit
      <3>2. phase = "run" BY <2>2, <3>1 DEF Typed, EngineOK, EngineInv
      <3>3. fs[Current].data \in Contents
        BY <2>2, <3>2 DEF SnapshotForward, Forward, Bootable
      <3>4. fs[Current].data # Empty BY <3>3, OpsAssumption DEF Contents, Empty
      <3>5. QED BY <2>2, <3>4
    <2>3. \/ \E q \in Named : fs'[p].data = fs[q].data
          \/ fs'[p].data \in {Gone, Torn}
          \/ fs'[p].data = fs[Current].data /\ task.kind = "snapshot" /\ pc = "do" /\ at = 1
      BY <2>1, NamedSources DEF Typed, WorldTyped
    <2>4. QED BY <1>1, <2>2, <2>3 DEF Gone, Torn, Empty
  <1>4. CASE Killed
    <2>1. CASE fs' # fs
      BY <1>1, <1>2, <1>4, <2>1, KilledPaths DEF Typed, WorldTyped, Torn, Empty
    <2>2. QED BY <1>1, <2>1
  <1>5. CASE Write
    BY <1>1, <1>2, <1>5, CurrentApart DEF Write, Typed, WorldTyped, FsTyped, Directories
  <1>6. ASSUME fs' = fs \/ fs' = EnsureLayout
        PROVE  fs'[p].data # Empty
    BY <1>1, <1>2, <1>6, LayoutFacts DEF Typed, WorldTyped
  <1>7. ASSUME NEW n \in Names, NEW force \in BOOLEAN, Snapshot(n, force) \/ Restore(n, force)
        PROVE  fs'[p].data # Empty
    BY <1>6, <1>7 DEF Snapshot, Restore
  <1>8. CASE Quiet \/ Ensures \/ Refuses \/ Start \/ Stop \/ Bootstrap
    BY <1>6, <1>8, QuietFacts, EnsureFacts, BootFacts DEF Refuses, Start, Stop, Typed, WorldTyped
  <1>9. QED BY <1>3, <1>4, <1>5, <1>7, <1>8, NextCases

\* Nothing starts the container during the undo of swap-data.
LEMMA StoppedNext ==
  ASSUME Typed, WorldInv, [Next]_vars
  PROVE  StoppedUndo'
  <1> SUFFICES ASSUME pc' = "undo", (task.kind = "restore")', at' = 3, sub' \in {2, 3} PROVE ctr' = FALSE
    BY DEF StoppedUndo
  <1>1. sub \in Nat /\ (sub > 0 => pc \in {"do", "undo"}) /\ ctr \in BOOLEAN
    BY DEF Typed, EngineOK, EngineInv, WorldTyped
  <1>2. ASSUME sub' = 0 PROVE FALSE
    BY <1>2
  <1>3. ASSUME EngineSame, sub' = sub, ctr' = ctr PROVE ctr' = FALSE
    BY <1>1, <1>3 DEF EngineSame, WorldInv, StoppedUndo
  <1>4. CASE RunPrim
    <2>1. pc \in {"do", "undo"} /\ sub < Len(Program)
      BY <1>4, RunPrimFacts DEF Typed, WorldTyped
    <2>2. PICK nil \in BOOLEAN :
              /\ Ran(NextPrim, nil)
              /\ nil => /\ sub' = IF NextPrim.op = "unless" /\ ~Exists(fs, NextPrim.from)
                                    THEN Len(Program) ELSE sub + 1
                        /\ EngineSame
              /\ ~nil => sub' = 0
      BY <1>4, RunPrimFacts DEF Typed, WorldTyped
    <2>3. nil /\ pc = "undo" /\ task.kind = "restore" /\ at = 3
      BY <1>2, <2>2 DEF EngineSame
    <2>4. task \in RestoreTasks /\ at \in 0..(Commit(task) - 1)
      BY <2>1, <2>3, KindedNow, TaskFacts DEF Typed
    <2>5. \/ sub = 0 /\ NextPrim = ReturnUnless(OldDir) /\ Len(Program) = 4
          \/ sub = 1 /\ NextPrim = Call("StopContainerForce")
          \/ sub = 2 /\ NextPrim = Move(Current, NewDir)
          \/ sub = 3 /\ NextPrim = Move(OldDir, Current)
      BY <1>1, <2>1, <2>3, <2>4, RestoreUndo DEF Is
    <2>6. CASE sub = 0 /\ NextPrim = ReturnUnless(OldDir) /\ Len(Program) = 4
      BY <2>2, <2>3, <2>6
    <2>7. CASE sub = 1 /\ NextPrim = Call("StopContainerForce")
      <3>1. Called("StopContainerForce", nil)
        BY <2>2, <2>7, RanCall DEF BackendOps
      <3>2. ctr' = BackendCall("StopContainerForce").ctr
        BY <2>3, <3>1 DEF Called
      <3>3. QED BY <3>2, CallFacts DEF Outcome
    <2>8. CASE sub = 2 /\ NextPrim = Move(Current, NewDir)
      <3>1. ctr' = ctr BY <2>2, <2>8, RanMove DEF Around
      <3>2. ~ctr BY <2>3, <2>8 DEF WorldInv, StoppedUndo
      <3>3. QED BY <1>1, <3>1, <3>2
    <2>9. CASE sub = 3 /\ NextPrim = Move(OldDir, Current)
      <3>1. sub' = 4 BY <2>2, <2>3, <2>9 DEF Move, Prim
      <3>2. QED BY <3>1
    <2>10. QED BY <2>5, <2>6, <2>7, <2>8, <2>9
  <1>5. CASE StepEnds \/ Killed BY <1>2, <1>5 DEF StepEnds, Killed
  <1>6. CASE Starts \/ Requests \/ Advances \/ Clears
    <2>1. pc \notin {"do", "undo"} /\ sub' = sub
      BY <1>6 DEF Starts, Requests, Advances, Clears, Startup, StartupFails, Request, RequestFails,
                  AdvanceDone, AdvanceFails, ClearDone, ClearFails, Still, Idles
    <2>2. QED BY <1>1, <2>1
  <1>7. CASE Ensures \/ Refuses
    <2>1. pc \notin {"do", "undo"} /\ sub' = sub
      BY <1>7 DEF Ensures, Refuses, Refuse
    <2>2. QED BY <1>1, <2>1
  <1>8. ASSUME NEW n \in Names, NEW force \in BOOLEAN, Snapshot(n, force) \/ Restore(n, force)
        PROVE  FALSE
    <2>1. pc = "begin" /\ sub' = sub BY <1>8 DEF Snapshot, Restore, BeginTask
    <2>2. QED BY <1>1, <2>1
  <1>9. CASE Start \/ Stop
    <2>1. pc = "idle" /\ pc' = pc BY <1>9 DEF Start, Stop, engine
    <2>2. QED BY <2>1
  <1>10. CASE Write \/ Bootstrap
    BY <1>3, <1>10, BootFacts DEF Write, engine, EngineSame
  <1>11. CASE UNCHANGED vars BY <1>3, <1>11 DEF vars, engine, world, EngineSame
  <1>12. QED BY <1>4, <1>5, <1>6, <1>7, <1>8, <1>9, <1>10, <1>11, NextCases DEF Quiet

\* The promised state stays sound.
LEMMA AfterNext ==
  ASSUME Typed, WorldInv, [Next]_vars
  PROVE  AfterSound'
  <1>1. after.current \notin {Gone, Empty} /\ after.current <= written /\ after \in Views
        /\ after.current \in Int
    <2>1. after.current \in Data /\ MaxWrites \in Nat
      BY OpsAssumption DEF Typed, Views
    <2>2. QED BY <2>1 DEF WorldInv, AfterSound, Typed, Data, Contents, Gone, Empty, Torn
  <1>2. written' \in Nat /\ written \in Nat /\ written <= written' BY ClockGrows
  <1>3. ASSUME after' = after PROVE AfterSound'
    BY <1>1, <1>2, <1>3 DEF AfterSound
  <1>4. ASSUME after'.current = written' PROVE AfterSound'
    BY <1>2, <1>4 DEF AfterSound, Gone, Empty
  <1>5. CASE RunPrim BY <1>3, <1>5, RunPrimFacts DEF Typed, WorldTyped
  <1>6. CASE Quiet \/ Ensures \/ Refuses \/ Start \/ Stop \/ Killed \/ Bootstrap
    BY <1>3, <1>6, QuietFacts, BootFacts DEF Ensures, Refuses, Start, Stop, Killed, history
  <1>7. CASE Write
    <2> DEFINE new == written + 1
    <2>1. new \in Contents /\ written' = new
      BY <1>7, OpsAssumption DEF Write, Typed, Contents
    <2>2. after' \in {after, [after EXCEPT !.current = new],
                     SnapshotView([after EXCEPT !.current = new], task.name)}
      BY <1>7 DEF Write
    <2> HIDE DEF new
    <2>3. [after EXCEPT !.current = new].current = new BY <1>1, <2>1, NewCurrent
    <2>4. SnapshotView([after EXCEPT !.current = new], task.name).current = new
      BY <2>3 DEF SnapshotView
    <2>5. QED BY <1>3, <1>4, <2>1, <2>2, <2>3, <2>4
  <1>8. \A p \in Paths : Sound(fs[p]) BY DEF WorldInv, FsSound
  <1>9. ASSUME NEW n \in Names, NEW force \in BOOLEAN, Snapshot(n, force)
        PROVE  AfterSound'
    <2>1. Bootable /\ fs' = fs /\ after' \in {SnapshotView(View(fs'), n), View(fs'), after}
      BY <1>9, BootableFacts, BeginMarks DEF Snapshot, SnapshotRefused
    <2>2. View(fs).current = fs[Current].data BY DEF View
    <2>3. SnapshotView(View(fs), n).current = fs[Current].data
      BY <2>2 DEF SnapshotView
    <2>4. fs[Current].data \in Nat /\ fs[Current].data <= written
      BY <1>8, <2>1, CurrentApart, OpsAssumption DEF Sound, Bootable, Contents
    <2>5. ASSUME after'.current = fs[Current].data PROVE AfterSound'
      BY <1>2, <2>4, <2>5 DEF AfterSound, Gone, Empty
    <2>6. QED BY <1>3, <2>1, <2>2, <2>3, <2>5
  <1>10. ASSUME NEW n \in Names, NEW force \in BOOLEAN, Restore(n, force)
        PROVE  AfterSound'
    <2>1. Exists(fs, Snap(n)) /\ fs' = fs /\ after' \in {RestoreView(View(fs), n), after}
      BY <1>10 DEF Restore, RestoreRefused, BeginTask
    <2>2. RestoreView(View(fs), n).current = fs[Snap(n)].data
      BY DEF RestoreView, View
    <2>3. Snap(n) \in Named /\ Snap(n) \in Paths BY PathTypes, NamedFacts
    <2>4. fs[Snap(n)].data # Gone /\ fs[Snap(n)].data <= written
      BY <1>8, <2>1, <2>3 DEF Sound, Exists
    <2>5. fs[Snap(n)].data # Empty BY <2>3 DEF WorldInv, NoEmpties
    <2>6. fs[Snap(n)].data \in Int
      BY <2>3, DataOrder DEF Typed, WorldTyped, FsTyped
    <2>7. ASSUME after'.current = fs[Snap(n)].data PROVE AfterSound'
      BY <1>2, <2>4, <2>5, <2>6, <2>7 DEF AfterSound
    <2>8. QED BY <1>3, <2>1, <2>2, <2>7
  <1>11. QED BY <1>5, <1>6, <1>7, <1>9, <1>10, NextCases

\* The world stays sound.
LEMMA WorldInvNext ==
  ASSUME Typed, WorldInv, SnapshotForward, RestoreForward, [Next]_vars
  PROVE  WorldInv'
  BY SoundNext, PgUpNext, EmptiesNext, AfterNext, StoppedNext DEF WorldInv

LEMMA WorldInvInit ==
  ASSUME Init
  PROVE  WorldInv
  <1>1. FsSound /\ NoEmpties BY InitFacts, NamedFacts DEF FsSound, NoEmpties
  <1>2. fs[Current].data = written /\ written \in 0..MaxWrites /\ View(fs).current = fs[Current].data
        /\ after = View(fs) /\ MaxWrites \in Nat
    BY InitFacts, OpsAssumption DEF View
  <1>3. AfterSound
    BY <1>2 DEF AfterSound, Gone, Empty
  <1>4. PgUp BY <1>2 DEF PgUp, Bootable, Contents
  <1>5. pc = "down" BY InitFacts DEF EngineInit
  <1>6. QED BY <1>1, <1>3, <1>4, <1>5 DEF WorldInv, StoppedUndo

-----------------------------------------------------------------------------
(* Views *)

\* What is shown depends on the snapshot paths only.
LEMMA ShowSame ==
  ASSUME NEW c, NEW s, NEW t, \A m \in Names : s[m] = t[m]
  PROVE  Show(c, s) = Show(c, t)
  BY DEF Show

\* A change elsewhere is not seen.
LEMMA ViewKeeps ==
  ASSUME fs'[Current] = fs[Current], \A m \in Names : fs'[Snap(m)] = fs[Snap(m)]
  PROVE  View(fs') = View(fs)
  BY DEF View, List, Older, Exists

\* A snapshot of what is live, made now.
LEMMA SnapshotShown ==
  ASSUME NEW c, NEW s, NEW n \in Names, NEW t \in Int, c # Gone,
         \A m \in Names : s[m].mtime \in Int /\ (s[m] # Missing <=> s[m].data # Gone),
         \A m \in Names \ {n} : s[m].mtime < t
  PROVE  SnapshotView(Show(c, s), n)
           = Show(c, [m \in Names |-> IF m = n THEN [data |-> c, mtime |-> t] ELSE s[m]])
  <1> DEFINE d == [data |-> c, mtime |-> t]
             u == [m \in Names |-> IF m = n THEN d ELSE s[m]]
             v == Show(c, s)
             o == {e \in v.order : n \notin {e[1], e[2]}}
                    \cup {<<m, n>> : m \in {k \in Names \ {n} : v.snaps[k] # Gone}}
             Rel(f, e) == f[e[1]] # Missing /\ f[e[2]] # Missing /\ f[e[1]].mtime < f[e[2]].mtime
  <1>1. d # Missing /\ d.data = c /\ d.mtime = t BY DEF Missing
  <1>2. \A m \in Names : u[m] = IF m = n THEN d ELSE s[m] OBVIOUS
  <1>3. v.current = c /\ v.snaps = [m \in Names |-> s[m].data]
        /\ v.order = {e \in Names \X Names : Rel(s, e)}
    BY DEF Show
  <1>4. Show(c, u) = [current |-> c, snaps |-> [m \in Names |-> u[m].data],
                      order |-> {e \in Names \X Names : Rel(u, e)}]
    BY DEF Show
  <1>5. SnapshotView(v, n) = [current |-> v.current, snaps |-> [v.snaps EXCEPT ![n] = v.current], order |-> o]
    BY DEF SnapshotView
  <1>6. [v.snaps EXCEPT ![n] = v.current] = [m \in Names |-> u[m].data]
    <2> HIDE DEF u, d
    <2>1. [v.snaps EXCEPT ![n] = v.current] = [m \in Names |-> IF m = n THEN c ELSE s[m].data]
      BY <1>3
    <2>2. \A m \in Names : u[m].data = IF m = n THEN c ELSE s[m].data
      BY <1>1, <1>2
    <2>3. QED BY <2>1, <2>2
  <1>7. o = {e \in Names \X Names : Rel(u, e)}
    <2>1. ASSUME NEW a \in Names, NEW b \in Names
          PROVE  <<a, b>> \in o <=> Rel(u, <<a, b>>)
      <3>1. v.snaps[a] = s[a].data BY <1>3
      <3>2. <<a, b>> \in v.order <=> Rel(s, <<a, b>>) BY <1>3
      <3> HIDE DEF u, d, v
      <3>3. <<a, b>> \in o <=> \/ Rel(s, <<a, b>>) /\ n # a /\ n # b
                               \/ b = n /\ a # n /\ s[a] # Missing
        BY <3>1, <3>2
      <3>4. CASE a = n
        <4>1. u[a].mtime = t BY <1>1, <1>2, <3>4
        <4>2. b = n => u[b].mtime = t BY <1>1, <1>2
        <4>3. b # n => u[b].mtime < t /\ u[b].mtime \in Int BY <1>2
        <4>4. ~Rel(u, <<a, b>>) BY <4>1, <4>2, <4>3
        <4>5. QED BY <3>3, <3>4, <4>4
      <3>5. CASE a # n /\ b = n
        <4>1. u[a] = s[a] /\ u[b] = d /\ s[a].mtime < t BY <1>2, <3>5
        <4>2. QED BY <1>1, <3>3, <3>5, <4>1
      <3>6. CASE a # n /\ b # n
        <4>1. u[a] = s[a] /\ u[b] = s[b] BY <1>2, <3>6
        <4>2. QED BY <3>3, <3>6, <4>1
      <3>7. QED BY <3>4, <3>5, <3>6
    <2>2. o \subseteq Names \X Names BY <1>3
    <2>3. QED BY <2>1, <2>2
  <1>8. QED BY <1>3, <1>4, <1>5, <1>6, <1>7

\* A new content of the live directory.
LEMMA CurrentShown ==
  ASSUME NEW c, NEW d, NEW s
  PROVE  [Show(c, s) EXCEPT !.current = d] = Show(d, s)
  <1>1. ASSUME NEW S, NEW O
        PROVE  [[current |-> c, snaps |-> S, order |-> O] EXCEPT !.current = d]
                 = [current |-> d, snaps |-> S, order |-> O]
    OBVIOUS
  <1>2. QED BY <1>1 DEF Show

\* What is put back, and what of the snapshots it leaves.
LEMMA RestoreShown ==
  ASSUME NEW n \in Names, Exists(fs, Snap(n))
  PROVE  RestoreView(View(fs), n)
           = Show(fs[Snap(n)].data, [m \in Names |-> IF m \in After(fs, n) THEN Missing ELSE fs[Snap(m)]])
  <1> DEFINE v == View(fs)
             newer == {m \in Names : <<n, m>> \in v.order}
             c == [m \in Names |-> IF m \in After(fs, n) THEN Missing ELSE fs[Snap(m)]]
             Rel(f, e) == f[e[1]] # Missing /\ f[e[2]] # Missing /\ f[e[1]].mtime < f[e[2]].mtime
  <1>1. v.order = {e \in Names \X Names : Older(fs, e[1], e[2])} /\ v.snaps = [m \in Names |-> fs[Snap(m)].data]
    BY DEF View, List
  <1>2. newer = After(fs, n) BY <1>1 DEF After, Older
  <1>3. RestoreView(v, n) = [current |-> v.snaps[n],
                             snaps |-> [m \in Names |-> IF m \in newer THEN Gone ELSE v.snaps[m]],
                             order |-> {e \in v.order : {e[1], e[2]} \cap newer = {}}]
    BY DEF RestoreView
  <1>4. Show(fs[Snap(n)].data, c) = [current |-> fs[Snap(n)].data, snaps |-> [m \in Names |-> c[m].data],
                                     order |-> {e \in Names \X Names : Rel(c, e)}]
    BY DEF Show
  <1>5. \A m \in Names : c[m] = IF m \in After(fs, n) THEN Missing ELSE fs[Snap(m)]
    OBVIOUS
  <1> HIDE DEF c, newer
  <1>6. [m \in Names |-> IF m \in newer THEN Gone ELSE v.snaps[m]] = [m \in Names |-> c[m].data]
    BY <1>1, <1>2, <1>5 DEF Missing
  <1>7. {e \in v.order : {e[1], e[2]} \cap newer = {}} = {e \in Names \X Names : Rel(c, e)}
    <2>1. ASSUME NEW a \in Names, NEW b \in Names
          PROVE  <<a, b>> \in {e \in v.order : {e[1], e[2]} \cap newer = {}} <=> Rel(c, <<a, b>>)
      BY <1>1, <1>2, <1>5 DEF Older, Exists
    <2>2. QED BY <1>1, <2>1
  <1>8. v.snaps[n] = fs[Snap(n)].data BY <1>1
  <1>9. RestoreView(v, n) = Show(fs[Snap(n)].data, c)
    BY <1>3, <1>4, <1>6, <1>7, <1>8
  <1>10. QED BY <1>9 DEF c

-----------------------------------------------------------------------------
(* The steps of a forward run *)

\* The steps of a forward run, and the one it starts with.
Ends == /\ pc = "do" /\ sub = Len(Program) /\ pc' = "advance" /\ sub' = 0
        /\ UNCHANGED <<task, record, phase, at, err>>
        /\ UNCHANGED <<fs, ctr, pg, begun, written, before, after, swapped, undone, marred>>
Goes == /\ pc = "advance" /\ pc' = "do" /\ record' = at + 1 /\ at' = at + 1 /\ at + 1 < Count(task)
        /\ sub = 0 /\ sub' = 0 /\ UNCHANGED <<task, phase, err>>
        /\ UNCHANGED <<fs, ctr, pg, begun, written, before, after, swapped, undone, marred>>
Does == /\ pc = "do" /\ sub < Len(Program) /\ Ran(NextPrim, TRUE) /\ EngineSame
        /\ sub' = sub + 1
        /\ UNCHANGED <<begun, written, before, after, undone, marred>>
        /\ swapped' = (Swaps(NewDir, Current) \/ (swapped /\ ~Swaps(Current, NewDir)))
Starting(t, promised) ==
  /\ pc = "begin" /\ record = NoRecord /\ task' = t /\ record' = 0 /\ phase' = "run" /\ pc' = "do" /\ at' = 0
  /\ sub = 0 /\ sub' = 0 /\ after' = promised /\ begun' = begun + 1 /\ written' = written
  /\ before' = View(fs') /\ swapped' = FALSE /\ undone' = FALSE /\ ctr' = ctr

\* No Do returns early.
LEMMA NotUnless ==
  ASSUME EngineOK, pc = "do", sub < Len(Program)
  PROVE  NextPrim.op # "unless"
  <1>1. /\ task \in Tasks /\ sub \in Nat /\ at \in 0..(Count(task) - 1)
    BY KindedNow
  <1>2. task \in SnapshotTasks \cup RestoreTasks BY <1>1 DEF Tasks
  <1>3. CASE task \in SnapshotTasks
    BY <1>1, <1>3, SnapshotDo
    DEF Is, Call, RemoveAll, Prim, Move, TouchNow, MatchTopMode, EnsureDir, ReturnUnless
  <1>4. CASE task \in RestoreTasks
    BY <1>1, <1>4, RestoreDo
    DEF Is, Call, RemoveAll, Prim, Move, TouchNow, MatchTopMode, EnsureDir, ReturnUnless
  <1>5. QED BY <1>2, <1>3, <1>4

\* A step that leaves a run going forward is one of these.
LEMMA StillForward ==
  ASSUME Typed, [Next]_vars, phase' = "run"
  PROVE  \/ phase = "run" /\ (Does \/ Ends \/ Goes \/ Write \/ UNCHANGED vars)
         \/ \E n \in Names, force \in BOOLEAN :
              \/ Snapshot(n, force) /\ Starting(SnapshotTask(n), SnapshotView(View(fs'), n))
              \/ Restore(n, force) /\ Starting(RestoreTask(n), RestoreView(View(fs), n))
  <1>1. /\ task \in Tasks /\ sub \in Nat /\ at \in -1..Count(task) /\ record \in -1..Count(task)
        /\ Count(task) \in Nat /\ ctr \in BOOLEAN
        /\ sub > 0 => pc \in {"do", "undo"}
    BY TaskFacts DEF Typed, WorldTyped, EngineOK, EngineTyped, EngineInv
  <1>2. /\ phase = "run" => pc \in {"do", "advance"}
        /\ pc \in {"down", "idle", "begin"} => phase = "none"
        /\ pc \in {"do", "advance"} => at \in 0..(Count(task) - 1)
        /\ pc = "undo" => phase = "rollback"
        /\ pc = "begin" => record = NoRecord
        /\ pc = "ensure" => phase # "run"
    BY DEF Typed, EngineOK, EngineInv, Opened
  <1>3. CASE RunPrim
    <2>1. PICK nil \in BOOLEAN :
              /\ Ran(NextPrim, nil)
              /\ nil => /\ sub' = IF NextPrim.op = "unless" /\ ~Exists(fs, NextPrim.from)
                                    THEN Len(Program) ELSE sub + 1
                        /\ EngineSame /\ marred' = marred
              /\ ~nil => /\ sub' = 0
                         /\ pc = "do" => StepFails
                         /\ pc = "undo" => UndoStep(TRUE)
      BY <1>1, <1>3, RunPrimFacts
    <2>2. pc \in {"do", "undo"} /\ sub < Len(Program)
          /\ UNCHANGED <<begun, written, crashes, before, after>>
          /\ undone' = (undone \/ pc = "undo")
          /\ swapped' = (Swaps(NewDir, Current) \/ (swapped /\ ~Swaps(Current, NewDir)))
      BY <1>1, <1>3, RunPrimFacts
    <2>3. CASE nil
      <3>1. pc = "do" /\ phase = "run" BY <1>2, <2>1, <2>2, <2>3 DEF EngineSame
      <3>2. sub' = sub + 1 BY <2>1, <2>2, <2>3, <3>1, NotUnless DEF Typed
      <3>3. undone' = undone BY <2>2, <3>1 DEF Typed
      <3>4. Ran(NextPrim, TRUE) BY <2>1, <2>3
      <3>5. QED BY <2>1, <2>2, <2>3, <3>1, <3>2, <3>3, <3>4 DEF Does
    <2>4. CASE ~nil /\ pc = "do"
      <3>1. ForwardFails(at) /\ at \in Nat BY <1>2, <2>1, <2>4 DEF StepFails
      <3>2. FALSE BY <1>1, <3>1, ForwardFailsFacts DEF Resolved
      <3>3. QED BY <3>2
    <2>5. CASE ~nil /\ pc = "undo" BY <1>2, <2>1, <2>5 DEF UndoStep
    <2>6. QED BY <2>2, <2>3, <2>4, <2>5
  <1>4. CASE StepEnds
    <2>1. CASE pc = "do"
      BY <1>2, <1>4, <2>1 DEF StepEnds, StepDone, Ends, world, counters, history
    <2>2. CASE pc # "do" BY <1>2, <1>4, <2>2 DEF StepEnds, UndoStep
    <2>3. QED BY <2>1, <2>2
  <1>5. CASE Advances
    <2>1. CASE AdvanceDone /\ marred' = marred
      <3>1. /\ pc = "advance" /\ record' = at + 1 /\ at' = at + 1 /\ pc' = Top(at + 1)
            /\ phase' = (IF at + 1 = Count(task) THEN "rollforward" ELSE phase)
            /\ UNCHANGED <<task, caller, err, reply>>
        BY <1>1, <2>1, AdvanceFacts
      <3>2. at \in 0..(Count(task) - 1) /\ at + 1 # Count(task) /\ sub = 0 /\ phase = "run"
        BY <1>1, <1>2, <3>1
      <3>3. pc' = "do" /\ at + 1 < Count(task) BY <1>1, <3>1, <3>2 DEF Top
      <3>4. UNCHANGED <<fs, ctr, pg, begun, written, before, after, swapped, undone, marred>> /\ sub' = sub
        BY <1>5, <2>1 DEF Advances, Idles, world, counters
      <3>5. QED BY <3>1, <3>2, <3>3, <3>4 DEF Goes
    <2>2. CASE AdvanceFails
      <3>1. ForwardFails(at + 1) /\ at + 1 \in Nat
        BY <1>2, <2>2 DEF AdvanceFails
      <3>2. FALSE BY <1>1, <3>1, ForwardFailsFacts DEF Resolved
      <3>3. QED BY <3>2
    <2>3. QED BY <1>5, <2>1, <2>2 DEF Advances
  <1>6. CASE Starts \/ Requests
    <2>1. pc \in {"down", "idle"}
      BY <1>6 DEF Starts, Requests, Startup, StartupFails, Request, RequestFails
    <2>2. phase = "none" /\ record \in {NoRecord} \cup Nat
      BY <1>1, <1>2, <2>1 DEF NoRecord
    <2>3. CASE \E who : Recover(who)
      BY <1>1, <2>2, <2>3, RecoverFacts DEF Resolved
    <2>4. CASE \E who : RecoverFails(who) BY <2>2, <2>4 DEF RecoverFails
    <2>5. QED
      BY <1>6, <2>3, <2>4 DEF Starts, Requests, Startup, StartupFails, Request, RequestFails
  <1>7. CASE Ensures BY <1>2, <1>7 DEF Ensures, RunEnsures, Return
  <1>8. CASE Clears BY <1>8 DEF Clears, ClearDone, ClearFails, Return
  <1>9. CASE Refuses BY <1>2, <1>9 DEF Refuses, Refuse
  <1>10. CASE Killed BY <1>10 DEF Killed, Crash
  <1>11. CASE Start \/ Stop \/ Bootstrap
    BY <1>2, <1>11 DEF Start, Stop, Bootstrap, engine
  <1>12. CASE Write \/ UNCHANGED vars BY <1>12 DEF Write, vars, engine
  <1>13. ASSUME NEW t \in Tasks, NEW promised, BeginTask(t, promised), NEW f, f = View(fs)
         PROVE  Starting(t, promised)
    <2>1. pc = "begin" BY <1>13, BeginMarks
    <2>2. Begin(t)
      <3>1. ~BeginFails(t) BY <1>2, <2>1 DEF BeginFails
      <3>2. QED BY <1>13, <3>1 DEF BeginTask
    <2>3. /\ task' = t /\ record' = 0 /\ caller' = "run" /\ phase' = "run" /\ at' = 0
          /\ pc' = "do"
      BY <1>13, <2>2, BeginFacts
    <2>4. after' = promised /\ before' = View(fs') /\ begun' = begun + 1 /\ swapped' = FALSE /\ undone' = FALSE
          /\ UNCHANGED <<ctr, sub, cancelled, written, crashes>>
      BY <1>13, <2>3 DEF BeginTask, NoRecord
    <2>5. sub = 0 BY <1>1, <2>1
    <2>6. QED BY <1>2, <2>1, <2>3, <2>4, <2>5 DEF Starting
  <1>14. ASSUME NEW n \in Names, NEW force \in BOOLEAN, Snapshot(n, force)
         PROVE  Starting(SnapshotTask(n), SnapshotView(View(fs'), n))
    <2>1. SnapshotTask(n) \in Tasks
      BY DEF SnapshotTask, Tasks, SnapshotTasks, Exists
    <2>2. QED BY <1>13, <1>14, <2>1 DEF Snapshot
  <1>15. ASSUME NEW n \in Names, NEW force \in BOOLEAN, Restore(n, force)
         PROVE  Starting(RestoreTask(n), RestoreView(View(fs), n))
    <2>1. RestoreTask(n) \in Tasks
      BY DEF RestoreTask, Tasks, RestoreTasks, After, Typed, WorldTyped
    <2>2. QED BY <1>13, <1>15, <2>1 DEF Restore
  <1>16. QED
    BY <1>3, <1>4, <1>5, <1>6, <1>7, <1>8, <1>9, <1>10, <1>11, <1>12, <1>14, <1>15, NextCases DEF Quiet

\* How far a run has come, before and after such a step.
LEMMA PastFacts ==
  ASSUME NEW i \in Nat, NEW k \in Nat, at \in Nat, sub \in Nat
  PROVE  /\ Ends /\ (at = i => k <= Len(Program)) => (Past(i, k)' <=> Past(i, k))
         /\ Goes /\ k > 0 => (Past(i, k)' <=> Past(i, k))
         /\ Does => (Past(i, k)' <=> at > i \/ (at = i /\ sub + 1 >= k))
         /\ pc = "do" => (Past(i, k) <=> at > i \/ (at = i /\ sub >= k))
  <1>1. Ends /\ (at = i => k <= Len(Program)) => (Past(i, k)' <=> Past(i, k))
    BY DEF Past, Ends
  <1>2. Goes /\ k > 0 => (Past(i, k)' <=> Past(i, k)) BY DEF Past, Goes
  <1>3. Does => (Past(i, k)' <=> at > i \/ (at = i /\ sub + 1 >= k))
    BY DEF Past, Does, EngineSame
  <1>4. pc = "do" => (Past(i, k) <=> at > i \/ (at = i /\ sub >= k)) BY DEF Past
  <1>5. QED BY <1>1, <1>2, <1>3, <1>4

\* The lengths of the Dos of a snapshot.
LEMMA SnapshotLengths ==
  ASSUME task \in SnapshotTasks, pc = "do", at \in 0..(Count(task) - 1)
  PROVE  Len(Program) = IF at = 1 THEN 3 ELSE 1
  <1>1. task.replaced \in BOOLEAN /\ Count(task) = (IF task.replaced THEN 5 ELSE 3)
        /\ Installs(task) = (IF task.replaced THEN 3 ELSE 2)
    BY DEF SnapshotTasks, Count, Installs
  <1>2. Program = DoOf(task, at) BY ProgramIs
  <1>3. at = 0 \/ at = 1 \/ at = Installs(task) \/ (task.replaced /\ at = 2) \/ (task.replaced /\ at = 4)
    BY <1>1
  <1>4. CASE at = 1 BY <1>2, <1>4, SnapshotProgram
  <1>5. CASE at = 0 BY <1>2, <1>5, SnapshotProgram
  <1>6. CASE task.replaced /\ at \in {2, 4} BY <1>2, <1>6, SnapshotProgram
  <1>7. CASE at = Installs(task) BY <1>1, <1>2, <1>7, SnapshotProgram
  <1>8. QED BY <1>3, <1>4, <1>5, <1>6, <1>7

\* Going from one step to the next keeps SnapshotForward.
LEMMA SnapshotStays ==
  ASSUME Typed, SnapshotForward, phase = "run", task.kind = "snapshot", Ends \/ Goes
  PROVE  SnapshotForward'
  <1>1. /\ task \in SnapshotTasks /\ sub \in Nat /\ at \in 0..(Count(task) - 1) /\ at \in Nat
        /\ Installs(task) \in {2, 3}
        /\ ~task.replaced => Installs(task) = 2
    <2>1. task \in SnapshotTasks /\ sub \in Nat /\ Count(task) \in Nat
      BY TaskFacts DEF Typed, EngineOK, EngineTyped
    <2>2. at \in 0..(Count(task) - 1)
      BY DEF Ends, Goes, Typed, EngineOK, EngineInv
    <2>3. QED BY <2>1, <2>2 DEF Installs, SnapshotTasks
  <1>2. Ends => Len(Program) = IF at = 1 THEN 3 ELSE 1
    BY <1>1, SnapshotLengths DEF Ends
  <1>3. /\ Past(0, 1)' <=> Past(0, 1)
        /\ Past(1, 2)' <=> Past(1, 2)
        /\ Past(1, 3)' <=> Past(1, 3)
        /\ Past(2, 1)' <=> Past(2, 1)
        /\ Past(3, 1)' <=> Past(3, 1)
    <2>1. ASSUME NEW i \in Nat, NEW k \in Nat, k > 0, at = i /\ Ends => k <= Len(Program)
          PROVE  Past(i, k)' <=> Past(i, k)
      BY <1>1, <2>1, PastFacts
    <2>2. Ends => /\ at = 0 => 1 <= Len(Program)
                  /\ at = 1 => 2 <= Len(Program) /\ 3 <= Len(Program)
                  /\ at = 2 => 1 <= Len(Program)
                  /\ at = 3 => 1 <= Len(Program)
      <3>1. ASSUME Ends PROVE (at = 1 => Len(Program) = 3) /\ (at # 1 => Len(Program) = 1)
        BY <1>2, <3>1
      <3>2. \A a, l : (a = 1 => l = 3) /\ (a # 1 => l = 1) =>
              /\ a = 0 => 1 <= l
              /\ a = 1 => 2 <= l /\ 3 <= l
              /\ a = 2 => 1 <= l
              /\ a = 3 => 1 <= l
        OBVIOUS
      <3>3. QED BY <3>1, <3>2
    <2>3. QED BY <2>1, <2>2
  <1>4. /\ task' = task /\ fs' = fs /\ pg' = pg /\ after' = after /\ Now' = Now /\ phase' = phase
    BY DEF Ends, Goes, Now
  <1>5. View(fs)' = View(fs) /\ Installs(task)' = Installs(task)
    BY <1>4 DEF View, List, Older, Exists, Installs
  <1>6. Past(Installs(task), 1)' <=> Past(Installs(task), 1)
    <2>1. CASE Installs(task) = 2 BY <1>3, <1>5, <2>1 DEF Past
    <2>2. CASE Installs(task) = 3 BY <1>3, <1>5, <2>2 DEF Past
    <2>3. QED BY <1>1, <2>1, <2>2
  <1>7. \A d : (Put(fs, task.name, d)') = Put(fs, task.name, d) BY <1>4 DEF Put
  <1>8. QED BY <1>3, <1>4, <1>5, <1>6, <1>7 DEF SnapshotForward, Forward, Bootable, Exists

\* The same slot, as far as a snapshot goes.
LEMMA PutSame ==
  ASSUME NEW n \in Names, NEW d, \A m \in Names \ {n} : fs'[Snap(m)] = fs[Snap(m)]
  PROVE  Put(fs', n, d) = Put(fs, n, d)
  BY DEF Put

\* Each primitive of a snapshot keeps SnapshotForward.
LEMMA SnapshotDoes ==
  ASSUME Typed, WorldInv, SnapshotForward, phase = "run", task.kind = "snapshot", Does
  PROVE  SnapshotForward'
  <1> DEFINE n == task.name
             new == Staging(n)
             last == Installs(task)
             made == [data |-> fs[Current].data, mtime |-> Now]
  <1>1. /\ task \in SnapshotTasks /\ sub \in Nat /\ at \in 0..(Count(task) - 1) /\ at \in Nat
        /\ n \in Names /\ task.replaced \in BOOLEAN
        /\ last = (IF task.replaced THEN 3 ELSE 2)
        /\ sub < Len(Program) /\ pc = "do" /\ Ran(NextPrim, TRUE) /\ EngineOK /\ FsTyped
        /\ Count(task) = (IF task.replaced THEN 5 ELSE 3)
    <2>0. pc = "do" /\ sub < Len(Program) /\ Ran(NextPrim, TRUE) /\ EngineOK /\ FsTyped
      BY DEF Typed, WorldTyped, Does
    <2>1. task \in SnapshotTasks /\ sub \in Nat /\ n \in Names /\ pc = "do" /\ sub < Len(Program)
          /\ Ran(NextPrim, TRUE) /\ EngineOK /\ FsTyped
      <3>1. task \in Tasks /\ sub \in Nat BY <2>0 DEF EngineOK, EngineTyped
      <3>2. task \in SnapshotTasks /\ task.name \in Names BY <3>1, TaskFacts
      <3>3. QED BY <2>0, <3>1, <3>2
    <2>2. at \in 0..(Count(task) - 1) /\ Count(task) \in Nat /\ task.replaced \in BOOLEAN
      BY <2>1, TaskFacts DEF Typed, EngineOK, EngineTyped, EngineInv
    <2>3. last = (IF task.replaced THEN 3 ELSE 2) /\ Count(task) = (IF task.replaced THEN 5 ELSE 3)
      BY DEF Installs, Count
    <2>4. at \in Nat BY <2>2
    <2> HIDE DEF n, last
    <2>5. QED BY <2>1, <2>2, <2>3, <2>4
  <1>2. /\ UNCHANGED <<task, after, at, phase>> /\ Now' = Now /\ n' = n /\ last' = last /\ Now \in Nat
    <2>1. UNCHANGED <<task, after, at, phase>> /\ Now' = Now
      BY DEF Does, EngineSame, Now
    <2>2. Now \in Nat BY OpsAssumption, FS_CardinalityType DEF Now, Typed
    <2>3. QED BY <2>1, <2>2 DEF Installs
  <1>3. /\ Current \in Paths /\ new \in Paths /\ Snap(n) \in Paths /\ Replaced(n) \in Paths
        /\ Current # new /\ Current # Snap(n) /\ Current # Replaced(n)
        /\ new # Snap(n) /\ new # Replaced(n) /\ Snap(n) # Replaced(n)
        /\ new # PruneDir /\ Replaced(n) # PruneDir
        /\ \A m \in Names : /\ Snap(m) \in Paths /\ Snap(m) # new /\ Snap(m) # Replaced(n)
                            /\ m # n => Snap(m) # Snap(n)
    BY <1>1, PathTypes, PathKinds
  <1>4. \A p \in Paths : fs[p] \in Directories BY <1>1 DEF FsTyped
  <1>5. \A i, k \in Nat : /\ Past(i, k)' <=> at > i \/ (at = i /\ sub + 1 >= k)
                          /\ Past(i, k) <=> at > i \/ (at = i /\ sub >= k)
    BY <1>1, PastFacts
  <1>6. /\ Past(0, 1)' <=> at > 0 \/ (at = 0 /\ sub + 1 >= 1)
        /\ Past(1, 2)' <=> at > 1 \/ (at = 1 /\ sub + 1 >= 2)
        /\ Past(1, 3)' <=> at > 1 \/ (at = 1 /\ sub + 1 >= 3)
        /\ Past(2, 1)' <=> at > 2 \/ (at = 2 /\ sub + 1 >= 1)
        /\ Past(last, 1)' <=> at > last \/ (at = last /\ sub + 1 >= 1)
        /\ Past(0, 1) <=> at > 0 \/ (at = 0 /\ sub >= 1)
        /\ Past(1, 2) <=> at > 1 \/ (at = 1 /\ sub >= 2)
        /\ Past(1, 3) <=> at > 1 \/ (at = 1 /\ sub >= 3)
        /\ Past(2, 1) <=> at > 2 \/ (at = 2 /\ sub >= 1)
        /\ Past(last, 1) <=> at > last \/ (at = last /\ sub >= 1)
    <2>1. last \in Nat BY <1>1
    <2>2. Past(last, 1)' <=> (at > last \/ (at = last /\ sub + 1 >= 1))
      BY <1>1, <1>2, <2>1, <1>5 DEF Past
    <2> HIDE DEF last
    <2>3. QED BY <1>5, <2>1, <2>2
  \* What holds now...
  <1>7. /\ Bootable
        /\ Past(0, 1) => ~pg
        /\ ~Past(1, 3) => \A p \in Paths : fs[p].mtime < Now
        /\ Past(1, 2) /\ ~Past(last, 1) => Exists(fs, new) /\ fs[new].data = fs[Current].data
        /\ ~Past(last, 1) /\ Past(1, 3) => after = Show(fs[Current].data, Put(fs, n, fs[new]))
        /\ ~Past(last, 1) /\ ~Past(1, 3) => after = Show(fs[Current].data, Put(fs, n, made))
        /\ ~Past(last, 1) => (Exists(fs, Snap(n)) <=> task.replaced /\ ~Past(2, 1))
        /\ Past(last, 1) => after = View(fs) /\ ~Exists(fs, new)
    BY DEF SnapshotForward, Forward
  \* ... and what is to hold next.
  <1> DEFINE Next1 == fs'[Current].data \in Contents
             Next2 == Past(0, 1)' => ~pg'
             Next3 == ~Past(1, 3)' => \A p \in Paths : fs'[p].mtime < Now
             Next4 == Past(1, 2)' /\ ~Past(last, 1)' => fs'[new] # Missing /\ fs'[new].data = fs'[Current].data
             Next5 == ~Past(last, 1)' => after = Show(fs'[Current].data,
                        Put(fs', n, IF Past(1, 3)' THEN fs'[new]
                                    ELSE [data |-> fs'[Current].data, mtime |-> Now]))
             Next6 == ~Past(last, 1)' => (fs'[Snap(n)] # Missing <=> task.replaced /\ ~Past(2, 1)')
             Next7 == Past(last, 1)' => after = View(fs') /\ fs'[new] = Missing
             Held1 == Next1 /\ Next2 /\ Next3 /\ Next4 /\ Next5 /\ Next6 /\ Next7
  <1>8. Held1 => SnapshotForward'
    BY <1>2 DEF SnapshotForward, Forward, Bootable, Exists
  <1>9. fs[Current].data \in Contents /\ Exists(fs, Current) /\ fs[Current].data # Gone
    BY <1>7, OpsAssumption DEF Bootable, Exists, Missing, Gone, Contents
  <1> HIDE DEF n, new, last, made
  <1>10. CASE Is(0, 0, Call("StopPG"))
    <2>1. fs' = fs /\ pg' = FALSE
      <3>1. Called("StopPG", TRUE) BY <1>1, <1>10, RanCall DEF BackendOps, Is
      <3>2. QED BY <3>1, CallFacts DEF Called, Outcome
    <2>2. QED BY <1>1, <1>6, <1>7, <1>8, <1>10, <2>1 DEF Is, made, Exists, Bootable
  <1>11. CASE Is(1, 0, RemoveAll(new))
    <2>1. pg' = pg /\ fs'[new] = Missing /\ \A p \in Paths \ {new} : fs'[p] = fs[p]
      BY <1>1, <1>3, <1>11, RemoveFacts DEF Is, Keeps, Around
    <2>2. Put(fs', n, made) = Put(fs, n, made) BY <1>1, <1>3, <2>1, PutSame
    <2>3. fs[Current].mtime < Now /\ fs[Current].mtime \in Nat
      <3>1. ~Past(1, 3) BY <1>6, <1>11 DEF Is
      <3>2. fs[Current].mtime \in Nat BY <1>1, <1>3, DataOrder DEF FsTyped
      <3>3. QED BY <1>3, <1>7, <3>1, <3>2
    <2>4. \A p \in Paths : fs'[p].mtime < Now
      BY <1>2, <1>6, <1>7, <1>11, <2>1, <2>3 DEF Is, Missing
    <2>5. fs'[Current] = fs[Current] /\ fs'[Snap(n)] = fs[Snap(n)]
      BY <1>1, <1>3, <2>1
    <2>6. QED
      BY <1>1, <1>6, <1>7, <1>8, <1>9, <1>11, <2>1, <2>2, <2>4, <2>5 DEF Is, made, Exists
  <1>12. CASE Is(1, 1, Prim("clone", Current, new))
    <2>1. pg' = pg /\ fs'[new] = fs[Current] /\ \A p \in Paths \ {new} : fs'[p] = fs[p]
      BY <1>1, <1>3, <1>12, CloneFacts DEF Is, Keeps
    <2>2. Put(fs', n, made) = Put(fs, n, made) BY <1>1, <1>3, <2>1, PutSame
    <2>3. \A p \in Paths : fs'[p].mtime < Now
      BY <1>3, <1>6, <1>7, <1>12, <2>1 DEF Is
    <2>4. fs'[Current] = fs[Current] /\ fs'[Snap(n)] = fs[Snap(n)]
      BY <1>1, <1>3, <2>1
    <2>5. QED
      BY <1>1, <1>6, <1>7, <1>8, <1>9, <1>12, <2>1, <2>2, <2>3, <2>4 DEF Is, made, Exists
  <1>13. CASE Is(1, 2, TouchNow(new))
    <2>1. pg' = pg /\ fs'[new] = [data |-> fs[new].data, mtime |-> Now]
          /\ \A p \in Paths \ {new} : fs'[p] = fs[p]
      BY <1>1, <1>3, <1>13, TouchFacts DEF Is, Keeps, Around
    <2>2. fs'[new] = made BY <1>1, <1>6, <1>7, <1>13, <2>1 DEF Is, made
    <2>3. Put(fs', n, made) = Put(fs, n, made) BY <1>1, <1>3, <2>1, PutSame
    <2>4. made # Missing /\ made.data = fs[Current].data
      BY <1>9 DEF made, Missing
    <2>5. fs'[Current] = fs[Current] /\ fs'[Snap(n)] = fs[Snap(n)]
      BY <1>1, <1>3, <2>1
    <2>6. after = Show(fs[Current].data, Put(fs, n, made))
      BY <1>1, <1>6, <1>7, <1>13 DEF Is
    <2>7. Past(1, 3)' /\ ~Past(last, 1)' /\ Past(0, 1)' /\ ~Past(2, 1)' /\ ~Past(2, 1)
      BY <1>1, <1>6, <1>13 DEF Is
    <2>8. Next5 BY <2>2, <2>3, <2>5, <2>6, <2>7
    <2>9. Next2 /\ Next6
      BY <1>1, <1>6, <1>7, <1>13, <2>1, <2>5, <2>7 DEF Is, Exists
    <2>10. QED BY <1>8, <1>9, <2>2, <2>4, <2>5, <2>7, <2>8, <2>9
  <1>14. CASE task.replaced /\ Is(2, 0, Move(Snap(n), Replaced(n)))
    <2>1. /\ pg' = pg /\ fs'[Snap(n)] = Missing
          /\ \A p \in Paths \ {Snap(n), Replaced(n)} : fs'[p] = fs[p]
      BY <1>1, <1>3, <1>14, MoveFacts DEF Is, Keeps, Around
    <2>2. \A d : Put(fs', n, d) = Put(fs, n, d) BY <1>1, <1>3, <2>1, PutSame
    <2>3. fs'[Current] = fs[Current] /\ fs'[new] = fs[new] BY <1>1, <1>3, <2>1
    <2>4. Past(1, 3)' /\ ~Past(last, 1)' /\ Past(0, 1)' /\ Past(2, 1)' /\ Past(1, 3) /\ Past(0, 1)
          /\ ~Past(last, 1) /\ Past(1, 2)
      BY <1>1, <1>6, <1>14 DEF Is
    <2>5. QED BY <1>7, <1>8, <1>9, <2>1, <2>2, <2>3, <2>4 DEF Exists
  <1>15. CASE Is(last, 0, Move(new, Snap(n)))
    <2>1. /\ Past(1, 3)' /\ Past(last, 1)' /\ Past(0, 1)' /\ Past(1, 3) /\ Past(0, 1)
          /\ ~Past(last, 1) /\ Past(1, 2)
      BY <1>1, <1>6, <1>15 DEF Is
    <2>2. /\ pg' = pg /\ fs'[new] = Missing /\ fs'[Snap(n)] = fs[new]
          /\ \A p \in Paths \ {Snap(n), new} : fs'[p] = fs[p]
      <3>1. Exists(fs, new) BY <1>7, <2>1
      <3>2. Ran(Move(new, Snap(n)), TRUE) BY <1>1, <1>15 DEF Is
      <3>3. /\ Around /\ fs'[new] = Missing /\ fs'[Snap(n)] = fs[new] /\ Keeps({new, Snap(n)})
        BY <1>1, <1>3, <3>1, <3>2, MoveFacts
      <3>4. QED BY <3>3 DEF Keeps, Around
    <2>3. \A m \in Names : Put(fs, n, fs[new])[m] = Snaps(fs')[m]
      BY <1>1, <1>3, <2>2 DEF Put, Snaps
    <2>4. Show(fs[Current].data, Put(fs, n, fs[new])) = Show(fs[Current].data, Snaps(fs'))
      BY <2>3, ShowSame
    <2>5. fs'[Current] = fs[Current] BY <1>3, <2>2
    <2>6. fs' \in [Paths -> Directories]
      BY RanTyped, KindedNow, <1>1 DEF Typed, WorldTyped, FsTyped
    <2>7. View(fs') = Show(fs'[Current].data, Snaps(fs')) BY <2>6, ViewTyped
    <2>8. after = View(fs') BY <1>7, <2>1, <2>4, <2>5, <2>7
    <2>9. QED BY <1>7, <1>8, <1>9, <2>1, <2>2, <2>5, <2>8
  <1>16. CASE task.replaced /\ Is(4, 0, RemoveAll(Replaced(n)))
    <2>1. /\ Past(1, 3)' /\ Past(last, 1)' /\ Past(0, 1)' /\ Past(last, 1) /\ Past(0, 1)
      BY <1>1, <1>6, <1>16 DEF Is
    <2>2. pg' = pg /\ \A p \in Paths \ {Replaced(n)} : fs'[p] = fs[p]
      BY <1>1, <1>3, <1>16, RemoveFacts DEF Is, Keeps, Around
    <2>3. fs'[Current] = fs[Current] /\ fs'[new] = fs[new] /\ \A m \in Names : fs'[Snap(m)] = fs[Snap(m)]
      BY <1>1, <1>3, <2>2
    <2>4. View(fs') = View(fs) BY <2>3, ViewKeeps
    <2>5. QED BY <1>7, <1>8, <1>9, <2>1, <2>2, <2>3, <2>4 DEF Exists
  <1>17. \/ Is(0, 0, Call("StopPG"))
         \/ Is(1, 0, RemoveAll(new))
         \/ Is(1, 1, Prim("clone", Current, new))
         \/ Is(1, 2, TouchNow(new))
         \/ task.replaced /\ Is(2, 0, Move(Snap(n), Replaced(n)))
         \/ Is(last, 0, Move(new, Snap(n)))
         \/ task.replaced /\ Is(4, 0, RemoveAll(Replaced(n)))
    BY <1>1, SnapshotDo DEF n, new, last
  <1>18. QED BY <1>10, <1>11, <1>12, <1>13, <1>14, <1>15, <1>16, <1>17

\* A client's write: what is live has a new content, everything else is as it was.
LEMMA WriteFacts ==
  ASSUME Typed, Write
  PROVE  /\ EngineSame /\ pg /\ ctr /\ written' = written + 1 /\ written + 1 \in Contents
         /\ UNCHANGED <<ctr, pg, sub, swapped, undone, marred, begun>>
         /\ fs' \in [Paths -> Directories] /\ fs'[Current].data = written + 1
         /\ fs'[Current].mtime = fs[Current].mtime
         /\ \A p \in Paths \ {Current} : fs'[p] = fs[p]
         /\ \A m \in Names : fs'[Snap(m)] = fs[Snap(m)]
         /\ View(fs') = Show(written + 1, Snaps(fs))
  <1>1. EngineSame /\ pg /\ written' = written + 1 /\ UNCHANGED <<ctr, pg, sub, swapped, undone, marred, begun>>
        /\ fs' = [fs EXCEPT ![Current].data = written + 1]
    BY DEF Write, engine, EngineSame
  <1>2. written + 1 \in Contents /\ ctr
    BY OpsAssumption DEF Typed, WorldTyped, Contents, Write
  <1>3. fs'[Current].data = written + 1 /\ fs'[Current].mtime = fs[Current].mtime
        /\ \A p \in Paths \ {Current} : fs'[p] = fs[p]
    BY <1>1, CurrentApart DEF Typed, WorldTyped, FsTyped, Directories
  <1>4. fs' \in [Paths -> Directories]
    <2>1. [Next]_vars BY DEF Next
    <2>2. QED BY <2>1, WorldNext DEF WorldTyped, FsTyped
  <1>5. \A m \in Names : fs'[Snap(m)] = fs[Snap(m)]
    BY <1>3, PathTypes, PathKinds
  <1>6. View(fs') = Show(fs'[Current].data, Snaps(fs')) BY <1>4, ViewTyped
  <1>7. Snaps(fs') = Snaps(fs) BY <1>5 DEF Snaps
  <1>8. QED BY <1>1, <1>2, <1>3, <1>4, <1>5, <1>6, <1>7

\* A snapshot is never younger than the clock.
LEMMA SnapsSound ==
  ASSUME FsTyped, FsSound, NEW m \in Names
  PROVE  /\ fs[Snap(m)].mtime \in Nat /\ fs[Snap(m)].mtime <= Now
         /\ (fs[Snap(m)] # Missing <=> fs[Snap(m)].data # Gone)
         /\ Snap(m) \in Paths /\ Snaps(fs)[m] = fs[Snap(m)]
  <1>1. Snap(m) \in Paths BY PathTypes
  <1>2. Sound(fs[Snap(m)]) /\ fs[Snap(m)].mtime \in Nat
    BY <1>1, DataOrder DEF FsSound, FsTyped
  <1>3. QED BY <1>1, <1>2 DEF Sound, Missing, Snaps

\* A write during a snapshot is in what the snapshot promises: nothing is copied yet.
LEMMA SnapshotWrites ==
  ASSUME Typed, WorldInv, SnapshotForward, phase = "run", task.kind = "snapshot", Write
  PROVE  SnapshotForward'
  <1> DEFINE n == task.name
             new == Staging(n)
             last == Installs(task)
             c == written + 1
             d == [data |-> c, mtime |-> Now]
             d0 == [data |-> fs[Current].data, mtime |-> Now]
  <1>1. /\ EngineSame /\ pg /\ c \in Contents /\ UNCHANGED <<ctr, pg, sub, begun>> /\ written' = written + 1
        /\ fs' \in [Paths -> Directories] /\ fs'[Current].data = c /\ fs'[Current].mtime = fs[Current].mtime
        /\ \A p \in Paths \ {Current} : fs'[p] = fs[p]
        /\ \A m \in Names : fs'[Snap(m)] = fs[Snap(m)]
    BY WriteFacts
  <1>2. n \in Names /\ last \in {2, 3} /\ at \in -1..Count(task) /\ Count(task) \in Nat /\ sub \in Nat
        /\ (pc \in {"do", "advance"} => at >= 0)
    <2>1. n \in Names /\ Count(task) \in Nat /\ sub \in Nat /\ at \in -1..Count(task)
      BY TaskFacts DEF Typed, EngineOK, EngineTyped
    <2>2. last \in {2, 3} BY DEF Installs
    <2>3. pc \in {"do", "advance"} => at >= 0
      BY <2>1 DEF Typed, EngineOK, EngineInv
    <2>4. QED BY <2>1, <2>2, <2>3
  <1>3. pc = "do" /\ at = 0 /\ sub = 0 /\ record = 0
    <2>1. ~Past(0, 1) BY <1>1 DEF SnapshotForward, Forward
    <2>2. pc \in {"do", "advance"} /\ record = at
      BY DEF Typed, EngineOK, EngineInv
    <2>3. QED BY <1>2, <2>1, <2>2 DEF Past
  <1>4. ~Past(1, 3) /\ ~Past(1, 2) /\ ~Past(last, 1) /\ ~Past(2, 1) /\ ~Past(0, 1)
    BY <1>2, <1>3 DEF Past
  <1>5. /\ Past(0, 1)' <=> Past(0, 1)
        /\ Past(1, 3)' <=> Past(1, 3)
        /\ Past(1, 2)' <=> Past(1, 2)
        /\ Past(2, 1)' <=> Past(2, 1)
        /\ Past(last, 1)' <=> Past(last, 1)
    BY <1>1 DEF EngineSame, Past, Installs
  <1>6. task' = task /\ last' = last /\ Now' = Now /\ phase' = phase
    BY <1>1 DEF EngineSame, Installs, Now
  <1>7. /\ after = Show(fs[Current].data, Put(fs, n, d0))
        /\ Exists(fs, Snap(n)) <=> task.replaced
        /\ \A p \in Paths : fs[p].mtime < Now
    BY <1>4 DEF SnapshotForward, Forward
  <1>8. after' = SnapshotView([after EXCEPT !.current = c], n)
    BY <1>3 DEF Write, NoRecord
  <1>9. [after EXCEPT !.current = c] = Show(c, Put(fs, n, d0))
    BY <1>7, CurrentShown
  <1>10. after' = Show(c, [m \in Names |-> IF m = n THEN d ELSE Put(fs, n, d0)[m]])
    <2>1. c # Gone /\ d0 # Missing /\ d0.data # Gone /\ d0.mtime = Now /\ Now \in Nat
      <3>1. fs[Current].data \in Contents
        BY DEF SnapshotForward, Forward, Bootable
      <3>2. fs[Current].data # Gone /\ c # Gone
        BY <1>1, <3>1, OpsAssumption DEF Contents, Gone
      <3>3. Now \in Nat BY OpsAssumption, FS_CardinalityType DEF Now, Typed
      <3>4. QED BY <3>2, <3>3 DEF Missing
    <2>2. \A m \in Names : Put(fs, n, d0)[m] = IF m = n THEN d0 ELSE fs[Snap(m)]
      BY DEF Put
    <2>3. \A m \in Names : /\ fs[Snap(m)].mtime \in Nat /\ fs[Snap(m)].mtime < Now
                           /\ (fs[Snap(m)] # Missing <=> fs[Snap(m)].data # Gone)
      BY <1>7, SnapsSound, PathTypes DEF Typed, WorldTyped, WorldInv
    <2> DEFINE s == Put(fs, n, d0)
    <2> HIDE DEF s, d0, c
    <2>4. \A m \in Names : s[m].mtime \in Int /\ (s[m] # Missing <=> s[m].data # Gone)
      BY <2>1, <2>2, <2>3 DEF s
    <2>5. \A m \in Names \ {n} : s[m].mtime < Now BY <2>2, <2>3 DEF s
    <2>6. SnapshotView(Show(c, s), n) = Show(c, [m \in Names |-> IF m = n THEN [data |-> c, mtime |-> Now] ELSE s[m]])
      BY <1>2, <2>1, <2>4, <2>5, SnapshotShown
    <2>7. QED BY <1>8, <1>9, <2>6 DEF s
  <1>11. after' = Show(c, Put(fs', n, d))
    <2>1. \A m \in Names : (IF m = n THEN d ELSE Put(fs, n, d0)[m]) = Put(fs', n, d)[m]
      BY <1>1 DEF Put
    <2> HIDE DEF d, d0
    <2>2. QED BY <1>10, <2>1, ShowSame
  <1>12. \A p \in Paths : fs'[p].mtime < Now BY <1>1, <1>7, CurrentApart
  <1>13. fs'[Current].data \in Contents /\ (Exists(fs', Snap(n)) <=> task.replaced)
    <2>1. fs'[Snap(n)] = fs[Snap(n)] BY <1>1, <1>2
    <2>2. Exists(fs', Snap(n)) <=> task.replaced
      <3>1. Exists(fs, Snap(n)) <=> task.replaced BY <1>7
      <3>2. Exists(fs', Snap(n)) <=> Exists(fs, Snap(n)) BY <2>1 DEF Exists
      <3>3. QED BY <3>1, <3>2
    <2>3. fs'[Current].data \in Contents BY <1>1
    <2>4. QED BY <2>2, <2>3
  <1>14. QED
    BY <1>1, <1>4, <1>5, <1>6, <1>11, <1>12, <1>13 DEF SnapshotForward, Forward, Bootable

\* SnapshotForward holds when a snapshot begins.
LEMMA SnapshotStarts ==
  ASSUME Typed, WorldInv, NEW n \in Names, NEW force \in BOOLEAN, Snapshot(n, force),
         Starting(SnapshotTask(n), SnapshotView(View(fs'), n))
  PROVE  SnapshotForward'
  <1> DEFINE c == fs[Current].data
             d == [data |-> c, mtime |-> Now + 1]
  <1>1. Bootable /\ fs' = fs BY BootableFacts DEF Snapshot, SnapshotRefused
  <1>2. /\ task' = [kind |-> "snapshot", name |-> n, replaced |-> Exists(fs, Snap(n))]
        /\ pc' = "do" /\ at' = 0 /\ sub' = 0 /\ begun' = begun + 1
        /\ after' = SnapshotView(View(fs), n)
    BY <1>1 DEF Starting, SnapshotTask
  <1>3. c \in Contents /\ c # Gone
    BY <1>1, OpsAssumption DEF Bootable, Contents, Gone
  <1>4. Now' = Now + 1 /\ Now \in Nat
    <2>1. Cardinality(Names) \in Nat /\ begun \in Nat
      BY OpsAssumption, FS_CardinalityType DEF Typed
    <2>2. QED BY <1>2, <2>1 DEF Now
  <1>5. \A p \in Paths : fs[p].mtime < Now + 1
    <2>1. \A p \in Paths : fs[p].mtime <= Now /\ fs[p].mtime \in Nat
      BY DataOrder DEF WorldInv, FsSound, Sound, Typed, WorldTyped, FsTyped
    <2>2. QED BY <1>4, <2>1
  <1>6. View(fs) = Show(c, Snaps(fs))
    BY ViewTyped DEF Typed, WorldTyped, FsTyped
  <1>7. \A m \in Names : /\ fs[Snap(m)].mtime \in Nat /\ Snaps(fs)[m] = fs[Snap(m)]
                         /\ (fs[Snap(m)] # Missing <=> fs[Snap(m)].data # Gone)
                         /\ fs[Snap(m)].mtime < Now + 1
    BY <1>5, SnapsSound DEF Typed, WorldTyped, WorldInv
  <1> DEFINE s == Snaps(fs)
  <1>8. \A m \in Names : s[m].mtime \in Int /\ (s[m] # Missing <=> s[m].data # Gone) /\ s[m].mtime < Now + 1
    BY <1>7
  <1> HIDE DEF s, c
  <1>9. SnapshotView(Show(c, s), n)
          = Show(c, [m \in Names |-> IF m = n THEN [data |-> c, mtime |-> Now + 1] ELSE s[m]])
    BY <1>3, <1>4, <1>8, SnapshotShown
  <1>10. \A m \in Names : (IF m = n THEN d ELSE s[m]) = Put(fs, n, d)[m]
    BY <1>7 DEF Put, s
  <1>11. after' = Show(c, Put(fs, n, d))
    <2>1. Show(c, [m \in Names |-> IF m = n THEN d ELSE s[m]]) = Show(c, Put(fs, n, d))
      <3> HIDE DEF d
      <3>1. QED BY <1>10, ShowSame
    <2>2. QED BY <1>2, <1>6, <1>9, <2>1 DEF s
  <1>12. Installs(task)' \in {2, 3} BY DEF Installs
  <1>13. ~Past(0, 1)' /\ ~Past(1, 2)' /\ ~Past(1, 3)' /\ ~Past(2, 1)' /\ ~Past(Installs(task), 1)'
    BY <1>2, <1>12 DEF Past
  <1>14. task'.name = n /\ task'.replaced = Exists(fs, Snap(n)) /\ fs'[Current].data = c
    BY <1>1, <1>2 DEF c
  <1>15. (Exists(fs, Snap(n)))' <=> task'.replaced BY <1>1, <1>14 DEF Exists
  <1>16. after' = Show(fs'[Current].data, Put(fs', task'.name, [data |-> fs'[Current].data, mtime |-> Now']))
    BY <1>1, <1>4, <1>11, <1>14
  <1>17. QED
    BY <1>1, <1>4, <1>5, <1>13, <1>14, <1>15, <1>16 DEF SnapshotForward, Forward, Bootable

\* Every step keeps SnapshotForward.
LEMMA SnapshotForwardNext ==
  ASSUME Typed, WorldInv, SnapshotForward, [Next]_vars
  PROVE  SnapshotForward'
  <1> SUFFICES ASSUME phase' = "run", (task.kind = "snapshot")' PROVE SnapshotForward'
    BY DEF SnapshotForward, Forward
  <1>1. CASE phase = "run" /\ (Does \/ Ends \/ Goes)
    <2>1. task' = task BY <1>1 DEF Does, Ends, Goes, EngineSame
    <2>2. QED BY <1>1, <2>1, SnapshotDoes, SnapshotStays
  <1>2. CASE phase = "run" /\ Write
    <2>1. task' = task BY <1>2, WriteFacts DEF EngineSame
    <2>2. QED BY <1>2, <2>1, SnapshotWrites
  <1>3. CASE UNCHANGED vars
    BY <1>3 DEF vars, engine, world, counters, history, SnapshotForward, Forward, Bootable, Past, Exists,
                Show, Put, View, List, Older, Now, Installs
  <1>4. ASSUME NEW n \in Names, NEW force \in BOOLEAN, Snapshot(n, force),
               Starting(SnapshotTask(n), SnapshotView(View(fs'), n))
        PROVE  SnapshotForward'
    BY <1>4, SnapshotStarts
  <1>5. ASSUME NEW n \in Names, Starting(RestoreTask(n), RestoreView(View(fs), n))
        PROVE  FALSE
    BY <1>5 DEF Starting, RestoreTask
  <1>6. QED BY <1>1, <1>2, <1>3, <1>4, <1>5, StillForward

-----------------------------------------------------------------------------
(* The forward run of a restore *)

\* The lengths of the Dos of a restore.
LEMMA RestoreLengths ==
  ASSUME task \in RestoreTasks, pc = "do", at \in 0..(Count(task) - 1)
  PROVE  /\ Len(Pruning) \in Nat
         /\ Len(Program) = IF at = 0 THEN 3 ELSE IF at \in {3, 6} THEN 2
                           ELSE IF at = 4 THEN (IF task.after = {} THEN 0 ELSE Len(Pruning) + 1) ELSE 1
  <1>1. Count(task) = 7 /\ task.after \in SUBSET Names
    BY DEF RestoreTasks, Count
  <1>2. Program = DoOf(task, at) BY ProgramIs
  <1>3. Len(Pruning) \in Nat BY <1>1, ListedFacts DEF Pruning
  <1>4. Len(Prune(task.after)) = IF task.after = {} THEN 0 ELSE Len(Pruning) + 1
    BY <1>1, PruneProgram DEF Pruning
  <1>5. CASE at = 4 BY <1>2, <1>3, <1>4, <1>5, RestoreProgram
  <1>6. CASE at \in {3, 6} BY <1>2, <1>3, <1>6, RestoreProgram
  <1>7. CASE at = 0 BY <1>2, <1>3, <1>7, RestoreProgram
  <1>8. CASE at \in {1, 2, 5} BY <1>2, <1>3, <1>8, RestoreProgram
  <1>9. QED BY <1>1, <1>5, <1>6, <1>7, <1>8

RestoreNow ==
  /\ task \in RestoreTasks /\ sub \in Nat /\ at \in 0..(Count(task) - 1) /\ at \in Nat
  /\ task.name \in Names /\ task.after \in SUBSET Names /\ Count(task) = 7
  /\ EngineOK /\ FsTyped /\ WorldTyped
LEMMA RestoreIs ==
  ASSUME Typed, task.kind = "restore", pc \in {"do", "advance"}
  PROVE  RestoreNow
  <1>1. task \in Tasks /\ sub \in Nat /\ EngineOK /\ FsTyped /\ WorldTyped
    BY DEF Typed, EngineOK, EngineTyped, WorldTyped
  <1>2. task \in RestoreTasks /\ task.name \in Names /\ task.after \in SUBSET Names
    BY <1>1, TaskFacts
  <1>3. Count(task) = 7 BY DEF Count
  <1>4. at \in 0..(Count(task) - 1) BY <1>1 DEF EngineOK, EngineInv
  <1>5. at \in Nat BY <1>3, <1>4
  <1>6. QED BY <1>1, <1>2, <1>3, <1>4, <1>5 DEF RestoreNow

\* Going from one step to the next keeps RestoreForward.
LEMMA RestoreStays ==
  ASSUME Typed, RestoreForward, phase = "run", task.kind = "restore", Ends \/ Goes
  PROVE  RestoreForward'
  <1>1. RestoreNow BY RestoreIs DEF Ends, Goes
  <1>2. Ends => Len(Program) = IF at = 0 THEN 3 ELSE IF at \in {3, 6} THEN 2
                           ELSE IF at = 4 THEN (IF task.after = {} THEN 0 ELSE Len(Pruning) + 1) ELSE 1
    BY <1>1, RestoreLengths DEF Ends, RestoreNow
  <1>3. Len(Pruning) \in Nat BY <1>1, ListedFacts DEF RestoreNow, Pruning
  <1>4. ASSUME NEW i \in Nat, NEW k \in Nat, k > 0, at = i /\ Ends => k <= Len(Program)
        PROVE  Past(i, k)' <=> Past(i, k)
    BY <1>1, <1>4, PastFacts DEF RestoreNow
  <1>5. ASSUME Ends
        PROVE  /\ at = 0 => 2 <= Len(Program)
               /\ at = 1 => 1 <= Len(Program)
               /\ at = 3 => 1 <= Len(Program) /\ 2 <= Len(Program)
               /\ at = 5 => 1 <= Len(Program)
               /\ at = 4 /\ task.after # {} => Len(Pruning) + 1 <= Len(Program)
    <2>1. at = 0 => 2 <= Len(Program)
      <3>1. at = 0 => Len(Program) = 3 BY <1>2, <1>5
      <3>2. \A n : n = 3 => 2 <= n OBVIOUS
      <3>3. QED BY ONLY <3>1, <3>2
    <2>2. at \in {1, 5} => 1 <= Len(Program)
      <3>1. at \in {1, 5} => Len(Program) = 1 BY <1>2, <1>5
      <3>2. \A n : n = 1 => 1 <= n OBVIOUS
      <3>3. QED BY ONLY <3>1, <3>2
    <2>3. at = 3 => 1 <= Len(Program) /\ 2 <= Len(Program)
      <3>1. at = 3 => Len(Program) = 2 BY <1>2, <1>5
      <3>2. \A n : n = 2 => 1 <= n /\ 2 <= n OBVIOUS
      <3>3. QED BY ONLY <3>1, <3>2
    <2>4. at = 4 /\ task.after # {} => Len(Program) = Len(Pruning) + 1
      BY <1>2, <1>5
    <2>5. \A n \in Nat: n + 1 <= n + 1 OBVIOUS
    <2>6. at = 4 /\ task.after # {} => Len(Pruning) + 1 <= Len(Program)
      BY ONLY <1>3, <2>4, <2>5
    <2>7. at = 1 \/ at = 5 => at \in {1, 5} OBVIOUS
    <2>8. QED BY ONLY <2>1, <2>2, <2>3, <2>6, <2>7
  <1>6. /\ Past(1, 1)' <=> Past(1, 1)
        /\ Past(5, 1)' <=> Past(5, 1)
        /\ Past(3, 1)' <=> Past(3, 1)
        /\ Past(3, 2)' <=> Past(3, 2)
        /\ Past(0, 2)' <=> Past(0, 2)
    BY <1>4, <1>5
  <1>7. task.after # {} => (Past(4, Len(Pruning) + 1)' <=> Past(4, Len(Pruning) + 1))
    <2>1. task' = task BY DEF Ends, Goes
    <2>2. Len(Pruning)' = Len(Pruning) BY <2>1 DEF Pruning
    <2>3. Len(Pruning) + 1 \in Nat /\ Len(Pruning) + 1 > 0 BY <1>3
    <2>4. ASSUME NEW k \in Nat, k = Len(Pruning) + 1, task.after # {}
          PROVE  Past(4, k)' <=> Past(4, k)
      BY <1>4, <1>5, <2>3, <2>4
    <2>5. task.after # {} => (at' > 4 \/ (at' = 4 /\ (pc' = "advance" \/ sub' >= Len(Pruning) + 1))
                              <=> Past(4, Len(Pruning) + 1))
      BY <2>3, <2>4 DEF Past
    <2>6. QED BY <2>2, <2>5 DEF Past
  <1>8. /\ task' = task /\ fs' = fs /\ ctr' = ctr /\ after' = after /\ phase' = phase /\ swapped' = swapped
    BY DEF Ends, Goes
  <1>9. ~(at' = 4 /\ pc' = "do" /\ sub' > 0) BY DEF Ends, Goes
  <1>10. Cut(fs)' = Cut(fs) /\ Pruning' = Pruning BY <1>8 DEF Cut, Pruning
  <1>11. at' = 4 /\ pc' = "do" => \A i \in 1..(sub' - 1) : ~Exists(fs', Snap(Pruning'[i]))
    BY <1>9 DEF Ends, Goes
  <1>12. Past(4, Len(Pruning) + 1)' => \A m \in task'.after : ~Exists(fs', Snap(m))
    <2>1. CASE task.after = {} BY <1>8, <2>1
    <2>2. CASE task.after # {} BY <1>7, <1>8, <2>2 DEF RestoreForward, Forward
    <2>3. QED BY <2>1, <2>2
  <1>13. /\ Past(1, 1)' /\ ~Past(5, 1)' => ~ctr'
         /\ swapped' <=> Past(3, 2)'
         /\ task'.name \notin task'.after /\ Exists(fs', Snap(task'.name))
    BY <1>6, <1>8 DEF RestoreForward, Forward
  <1>14. /\ ~Past(0, 2)' => after' = Show(fs'[Snap(task'.name)].data, Cut(fs)')
         /\ Past(0, 2)' /\ ~Past(3, 2)' => Exists(fs', NewDir) /\ after' = Show(fs'[NewDir].data, Cut(fs)')
         /\ Past(3, 2)' => after' = Show(fs'[Current].data, Cut(fs)') /\ ~Exists(fs', NewDir)
         /\ Past(3, 1)' /\ ~Past(3, 2)' => ~Exists(fs', Current)
    BY <1>6, <1>8, <1>10 DEF RestoreForward, Forward
  <1>15. QED BY <1>11, <1>12, <1>13, <1>14 DEF RestoreForward

\* The same snapshots are left of directories that differ elsewhere.
LEMMA CutSame ==
  ASSUME task' = task, task.after \in SUBSET Names,
         \A m \in Names : m \notin task.after => fs'[Snap(m)] = fs[Snap(m)]
  PROVE  Cut(fs)' = Cut(fs)
  BY DEF Cut

\* Each primitive of a restore keeps RestoreForward.
LEMMA RestoreDoes ==
  ASSUME Typed, WorldInv, RestoreForward, phase = "run", task.kind = "restore", Does
  PROVE  RestoreForward'
  <1> DEFINE n == task.name
             l == Pruning
             t == Len(Pruning)
             c == Cut(fs)
  <1>1. RestoreNow BY RestoreIs DEF Does
  <1>2. /\ task \in RestoreTasks /\ sub \in Nat /\ at \in 0..6 /\ at \in Nat
        /\ n \in Names /\ task.after \in SUBSET Names /\ FsTyped
        /\ pc = "do" /\ sub < Len(Program) /\ Ran(NextPrim, TRUE) /\ sub' = sub + 1 /\ pc' = "do"
        /\ UNCHANGED <<task, after, at, phase>>
        /\ swapped' = (Swaps(NewDir, Current) \/ (swapped /\ ~Swaps(Current, NewDir)))
        /\ ctr \in BOOLEAN
    <2>1. /\ pc = "do" /\ sub < Len(Program) /\ Ran(NextPrim, TRUE) /\ sub' = sub + 1 /\ pc' = "do"
          /\ UNCHANGED <<task, after, at, phase>>
          /\ swapped' = (Swaps(NewDir, Current) \/ (swapped /\ ~Swaps(Current, NewDir)))
      BY DEF Does, EngineSame
    <2>2. /\ task \in RestoreTasks /\ sub \in Nat /\ at \in 0..6 /\ at \in Nat
          /\ n \in Names /\ task.after \in SUBSET Names /\ FsTyped /\ ctr \in BOOLEAN
      BY <1>1 DEF RestoreNow, WorldTyped
    <2> HIDE DEF n
    <2>3. QED BY <2>1, <2>2
  <1>3. t \in Nat /\ l \in [1..t -> task.after] /\ \A m \in task.after : \E i \in 1..t : l[i] = m
    BY <1>2, ListedFacts DEF Pruning
  <1>4. /\ Current \in Paths /\ NewDir \in Paths /\ OldDir \in Paths /\ PruneDir \in Paths
        /\ Current # NewDir /\ Current # OldDir /\ Current # PruneDir /\ NewDir # OldDir /\ NewDir # PruneDir
        /\ OldDir # PruneDir
        /\ \A m \in Names : /\ Snap(m) \in Paths /\ Snap(m) # Current /\ Snap(m) # NewDir /\ Snap(m) # OldDir
                            /\ Snap(m) # PruneDir /\ Pruned(m) \in Paths
                            /\ Pruned(m) # Current /\ Pruned(m) # NewDir /\ Pruned(m) # OldDir
                            /\ \A k \in Names : /\ Snap(m) # Pruned(k)
                                                /\ m # k => Snap(m) # Snap(k) /\ Pruned(m) # Pruned(k)
    BY PathTypes, PathKinds
  <1>5. \A i, k \in Nat : /\ Past(i, k)' <=> at > i \/ (at = i /\ sub + 1 >= k)
                          /\ Past(i, k) <=> at > i \/ (at = i /\ sub >= k)
    BY <1>2, PastFacts
  <1>6. /\ Past(0, 2)' <=> at > 0 \/ (at = 0 /\ sub + 1 >= 2)
        /\ Past(1, 1)' <=> at > 1 \/ (at = 1 /\ sub + 1 >= 1)
        /\ Past(3, 1)' <=> at > 3 \/ (at = 3 /\ sub + 1 >= 1)
        /\ Past(3, 2)' <=> at > 3 \/ (at = 3 /\ sub + 1 >= 2)
        /\ Past(5, 1)' <=> at > 5 \/ (at = 5 /\ sub + 1 >= 1)
        /\ Past(4, t + 1)' <=> at > 4 \/ (at = 4 /\ sub + 1 >= t + 1)
        /\ Past(0, 2) <=> at > 0 \/ (at = 0 /\ sub >= 2)
        /\ Past(1, 1) <=> at > 1 \/ (at = 1 /\ sub >= 1)
        /\ Past(3, 1) <=> at > 3 \/ (at = 3 /\ sub >= 1)
        /\ Past(3, 2) <=> at > 3 \/ (at = 3 /\ sub >= 2)
        /\ Past(5, 1) <=> at > 5 \/ (at = 5 /\ sub >= 1)
        /\ Past(4, t + 1) <=> at > 4 \/ (at = 4 /\ sub >= t + 1)
    <2>1. t' = t BY <1>2 DEF Pruning
    <2>2. Past(4, t + 1)' <=> (at > 4 \/ (at = 4 /\ sub + 1 >= t + 1))
      BY <1>2, <2>1 DEF Past
    <2>3. t + 1 \in Nat BY <1>3
    <2> HIDE DEF t
    <2>4. QED BY <1>5, <2>2, <2>3
  \* What holds now...
  <1>7. /\ Past(1, 1) /\ ~Past(5, 1) => ~ctr
        /\ swapped <=> Past(3, 2)
        /\ n \notin task.after /\ Exists(fs, Snap(n))
        /\ ~Past(0, 2) => after = Show(fs[Snap(n)].data, c)
        /\ Past(0, 2) /\ ~Past(3, 2) => Exists(fs, NewDir) /\ after = Show(fs[NewDir].data, c)
        /\ Past(3, 2) => after = Show(fs[Current].data, c) /\ ~Exists(fs, NewDir)
        /\ Past(3, 1) /\ ~Past(3, 2) => ~Exists(fs, Current)
        /\ at = 4 => \A i \in 1..(sub - 1) : ~Exists(fs, Snap(l[i]))
        /\ Past(4, t + 1) => \A m \in task.after : ~Exists(fs, Snap(m))
    BY <1>2 DEF RestoreForward, Forward
  \* ... and what is to hold next.
  <1> DEFINE Next1 == Past(1, 1)' /\ ~Past(5, 1)' => ~ctr'
             Next2 == swapped' <=> Past(3, 2)'
             Next3 == fs'[Snap(n)] # Missing
             Next4 == ~Past(0, 2)' => after = Show(fs'[Snap(n)].data, Cut(fs)')
             Next5 == Past(0, 2)' /\ ~Past(3, 2)' => fs'[NewDir] # Missing /\ after = Show(fs'[NewDir].data, Cut(fs)')
             Next6 == Past(3, 2)' => after = Show(fs'[Current].data, Cut(fs)') /\ fs'[NewDir] = Missing
             Next7 == Past(3, 1)' /\ ~Past(3, 2)' => fs'[Current] = Missing
             Next8 == at = 4 => \A i \in 1..sub : fs'[Snap(l[i])] = Missing
             Next9 == Past(4, t + 1)' => \A m \in task.after : fs'[Snap(m)] = Missing
  <1>8. ASSUME Next1, Next2, Next3, Next4, Next5, Next6, Next7, Next8, Next9
        PROVE  RestoreForward'
    <2>1. sub' - 1 = sub /\ l' = l BY <1>2 DEF Pruning
    <2>2. /\ Past(1, 1)' /\ ~Past(5, 1)' => ~ctr'
          /\ swapped' <=> Past(3, 2)'
          /\ task'.name \notin task'.after /\ Exists(fs', Snap(task'.name))
      BY <1>2, <1>7, <1>8 DEF Exists
    <2>3. /\ ~Past(0, 2)' => after' = Show(fs'[Snap(task'.name)].data, Cut(fs)')
          /\ Past(0, 2)' /\ ~Past(3, 2)' => Exists(fs', NewDir) /\ after' = Show(fs'[NewDir].data, Cut(fs)')
          /\ Past(3, 2)' => after' = Show(fs'[Current].data, Cut(fs)') /\ ~Exists(fs', NewDir)
          /\ Past(3, 1)' /\ ~Past(3, 2)' => ~Exists(fs', Current)
      BY <1>2, <1>8 DEF Exists
    <2>4. at' = 4 /\ pc' = "do" => \A i \in 1..(sub' - 1) : ~Exists(fs', Snap(Pruning'[i]))
      BY <1>2, <1>8, <2>1 DEF Exists
    <2>5. Past(4, Len(Pruning) + 1)' => \A m \in task'.after : ~Exists(fs', Snap(m))
      BY <1>2, <1>8 DEF Exists
    <2>6. QED BY <2>2, <2>3, <2>4, <2>5 DEF RestoreForward
  <1>9. (\A m \in Names : m \notin task.after => fs'[Snap(m)] = fs[Snap(m)]) => Cut(fs)' = c
    BY <1>2, CutSame
  <1> HIDE DEF n, l, t, c
  \* A primitive that touches none of what is restored.
  <1>10. ASSUME \A m \in Names : fs'[Snap(m)] = fs[Snap(m)], fs'[Current] = fs[Current],
                fs'[NewDir] = fs[NewDir], swapped' = swapped,
                Past(1, 1)' /\ ~Past(5, 1)' => ~ctr',
                Past(0, 2)' <=> Past(0, 2), Past(3, 1)' <=> Past(3, 1), Past(3, 2)' <=> Past(3, 2),
                at = 4 => sub = 0,
                Past(4, t + 1)' => Past(4, t + 1) \/ task.after = {}
         PROVE  RestoreForward'
    <2>1. Cut(fs)' = c BY <1>9, <1>10
    <2>2. fs'[Snap(n)] = fs[Snap(n)] BY <1>2, <1>10
    <2>3. Next4 /\ Next5 /\ Next6 /\ Next7 BY <1>7, <1>10, <2>1, <2>2 DEF Exists
    <2>4. Next1 /\ Next2 /\ Next3 BY <1>7, <1>10, <2>2 DEF Exists
    <2>5. Next8 BY <1>10
    <2>6. Next9 BY <1>2, <1>7, <1>10 DEF Exists
    <2>7. QED BY <1>8, <2>3, <2>4, <2>5, <2>6
  <1>11. NextPrim # Move(NewDir, Current) /\ NextPrim # Move(Current, NewDir) => swapped' = swapped
    BY <1>2 DEF Swaps, Typed
  <1>12. t >= 0 /\ t \in Nat /\ (t = 0 => task.after = {}) BY <1>3
  <1>13. CASE Is(0, 0, RemoveAll(NewDir))
    <2>1. ctr' = ctr /\ \A p \in Paths \ {NewDir} : fs'[p] = fs[p]
      BY <1>2, <1>4, <1>13, RemoveFacts DEF Is, Keeps, Around
    <2>2. \A m \in Names : fs'[Snap(m)] = fs[Snap(m)] BY <1>4, <2>1
    <2>3. Cut(fs)' = c /\ fs'[Snap(n)] = fs[Snap(n)] BY <1>2, <1>9, <2>2
    <2>4. swapped' = swapped BY <1>11, <1>13 DEF Is, RemoveAll, Move, Prim
    <2>5. ~Past(0, 2)' /\ ~Past(1, 1)' /\ ~Past(3, 1)' /\ ~Past(3, 2)' /\ ~Past(4, t + 1)' /\ at = 0
          /\ ~Past(0, 2) /\ ~Past(3, 2)
      BY <1>6, <1>12, <1>13 DEF Is
    <2>6. QED BY <1>7, <1>8, <2>3, <2>4, <2>5 DEF Exists
  <1>14. CASE Is(0, 1, Prim("clone", Snap(n), NewDir))
    <2>1. \A p \in Paths \ {NewDir} : fs'[p] = fs[p]
      BY <1>2, <1>4, <1>14, CloneFacts DEF Is, Keeps
    <2>2. fs'[NewDir] = fs[Snap(n)] BY <1>2, <1>4, <1>14, CloneFacts DEF Is
    <2>3. \A m \in Names : fs'[Snap(m)] = fs[Snap(m)] BY <1>4, <2>1
    <2>4. Cut(fs)' = c /\ fs'[Snap(n)] = fs[Snap(n)] BY <1>2, <1>9, <2>3
    <2>5. swapped' = swapped BY <1>11, <1>14 DEF Is, Move, Prim
    <2>6. Past(0, 2)' /\ ~Past(1, 1)' /\ ~Past(3, 1)' /\ ~Past(3, 2)' /\ ~Past(4, t + 1)' /\ at = 0
          /\ ~Past(0, 2) /\ ~Past(3, 2)
      BY <1>6, <1>12, <1>14 DEF Is
    <2>7. QED BY <1>7, <1>8, <2>2, <2>4, <2>5, <2>6 DEF Exists
  <1>15. CASE Is(0, 2, MatchTopMode(Current, NewDir))
    <2>1. fs' = fs /\ ctr' = ctr BY <1>2, <1>15, RanChmod DEF Is, Around
    <2>2. swapped' = swapped BY <1>11, <1>15 DEF Is, Move, MatchTopMode, Prim
    <2>3. QED BY <1>6, <1>10, <1>12, <1>15, <2>1, <2>2 DEF Is
  <1>16. CASE Is(1, 0, Call("StopContainer"))
    <2>1. fs' = fs /\ ctr' = FALSE
      <3>1. Called("StopContainer", TRUE)
        BY <1>2, <1>16, RanCall DEF BackendOps, Is
      <3>2. QED BY <3>1, CallFacts DEF Called, Outcome
    <2>2. swapped' = swapped BY <1>11, <1>16 DEF Is, Move, Call, Prim
    <2>3. QED BY <1>6, <1>10, <1>12, <1>16, <2>1, <2>2 DEF Is
  <1>17. CASE Is(2, 0, Call("RepairIP"))
    <2>1. fs' = fs /\ ctr' = ctr
      <3>1. Called("RepairIP", TRUE) BY <1>2, <1>17, RanCall DEF BackendOps, Is
      <3>2. QED BY <3>1, CallFacts DEF Called, Outcome
    <2>2. swapped' = swapped BY <1>11, <1>17 DEF Is, Move, Call, Prim
    <2>3. QED BY <1>6, <1>7, <1>10, <1>12, <1>17, <2>1, <2>2 DEF Is
  <1>18. CASE Is(3, 0, Move(Current, OldDir))
    <2>1. /\ ctr' = ctr /\ fs'[Current] = Missing
          /\ \A p \in Paths \ {Current, OldDir} : fs'[p] = fs[p]
      <3>1. Ran(Move(Current, OldDir), TRUE) BY <1>2, <1>18 DEF Is
      <3>2. QED BY <1>2, <1>4, <3>1, MoveFacts DEF Keeps, Around
    <2>2. \A m \in Names : fs'[Snap(m)] = fs[Snap(m)] BY <1>4, <2>1
    <2>3. Cut(fs)' = c /\ fs'[Snap(n)] = fs[Snap(n)] /\ fs'[NewDir] = fs[NewDir]
      BY <1>2, <1>4, <1>9, <2>1, <2>2
    <2>4. swapped' = swapped BY <1>4, <1>11, <1>18 DEF Is, Move, Prim
    <2>5. Past(0, 2)' /\ ~Past(3, 2)' /\ ~Past(4, t + 1)' /\ at = 3 /\ Past(0, 2) /\ ~Past(3, 2)
          /\ Past(1, 1) /\ ~Past(5, 1)
      BY <1>6, <1>12, <1>18 DEF Is
    <2>6. QED BY <1>7, <1>8, <2>1, <2>3, <2>4, <2>5 DEF Exists
  <1>19. CASE Is(3, 1, Move(NewDir, Current))
    <2>1. Past(0, 2)' /\ Past(3, 2)' /\ ~Past(4, t + 1)' /\ at = 3 /\ Past(0, 2) /\ ~Past(3, 2)
          /\ Past(1, 1) /\ ~Past(5, 1) /\ Past(3, 1)
      BY <1>6, <1>12, <1>19 DEF Is
    <2>2. Exists(fs, NewDir) /\ ~Exists(fs, Current) /\ after = Show(fs[NewDir].data, c)
      BY <1>7, <2>1
    <2>3. /\ ctr' = ctr /\ fs'[NewDir] = Missing /\ fs'[Current] = fs[NewDir]
          /\ \A p \in Paths \ {Current, NewDir} : fs'[p] = fs[p]
      <3>1. Ran(Move(NewDir, Current), TRUE) BY <1>2, <1>19 DEF Is
      <3>2. QED BY <1>2, <1>4, <2>2, <3>1, MoveFacts DEF Keeps, Around
    <2>4. \A m \in Names : fs'[Snap(m)] = fs[Snap(m)] BY <1>4, <2>3
    <2>5. Cut(fs)' = c /\ fs'[Snap(n)] = fs[Snap(n)] BY <1>2, <1>4, <1>9, <2>4
    <2>6. fs' # fs BY <2>2, <2>3 DEF Exists
    <2>7. swapped' = TRUE BY <1>2, <1>19, <2>6 DEF Is, Swaps
    <2>8. QED BY <1>7, <1>8, <2>1, <2>2, <2>3, <2>5, <2>7 DEF Exists
  <1>20. CASE Is(4, 0, EnsureDir(PruneDir)) /\ task.after # {}
    <2>1. ctr' = ctr /\ \A p \in Paths \ {PruneDir} : fs'[p] = fs[p]
      BY <1>2, <1>4, <1>20, MkdirFacts DEF Is, Keeps, Around
    <2>2. \A m \in Names : fs'[Snap(m)] = fs[Snap(m)] BY <1>4, <2>1
    <2>3. fs'[Current] = fs[Current] /\ fs'[NewDir] = fs[NewDir] BY <1>4, <2>1
    <2>4. swapped' = swapped BY <1>11, <1>20 DEF Is, Move, EnsureDir, Prim
    <2>5. Past(0, 2)' /\ Past(3, 2)' /\ at = 4 /\ sub = 0 /\ Past(0, 2) /\ Past(3, 2)
          /\ Past(1, 1) /\ ~Past(5, 1) /\ Past(3, 1) /\ Past(3, 1)' /\ ~Past(4, t + 1)'
      BY <1>6, <1>12, <1>20 DEF Is
    <2>6. QED BY <1>7, <1>10, <2>1, <2>2, <2>3, <2>4, <2>5
  <1>21. CASE sub \in 1..t /\ Is(4, sub, Move(Snap(l[sub]), Pruned(l[sub])))
    <2> DEFINE a == Snap(l[sub])
               b == Pruned(l[sub])
    <2>1. l[sub] \in task.after /\ l[sub] \in Names
      BY <1>2, <1>3, <1>21 DEF l, t
    <2>2. a \in Paths /\ b \in Paths /\ a # b BY <1>4, <2>1
    <2>3. ctr' = ctr /\ fs'[a] = Missing /\ Keeps({a, b})
      <3>1. Ran(Move(a, b), TRUE) BY <1>2, <1>21 DEF Is
      <3>2. QED BY <1>2, <2>2, <3>1, MoveFacts DEF Around
    <2>4. \A m \in Names : m # l[sub] => fs'[Snap(m)] = fs[Snap(m)]
      BY <1>4, <2>1, <2>3 DEF Keeps
    <2>5. fs'[Current] = fs[Current] /\ fs'[NewDir] = fs[NewDir]
      BY <1>4, <2>1, <2>3 DEF Keeps
    <2>6. Cut(fs)' = c /\ fs'[Snap(n)] = fs[Snap(n)]
      BY <1>2, <1>7, <1>9, <2>1, <2>4
    <2>7. swapped' = swapped BY <1>4, <1>11, <1>21, <2>1 DEF Is, Move, Prim
    <2>8. Past(0, 2)' /\ Past(3, 2)' /\ at = 4 /\ Past(0, 2) /\ Past(3, 2)
          /\ Past(1, 1) /\ ~Past(5, 1) /\ Past(3, 1) /\ Past(3, 1)'
      BY <1>6, <1>12, <1>21 DEF Is
    <2>9. \A i \in 1..sub : fs'[Snap(l[i])] = Missing
      <3> SUFFICES ASSUME NEW i \in 1..sub PROVE fs'[Snap(l[i])] = Missing
        OBVIOUS
      <3>1. l[i] \in Names /\ (i # sub => i \in 1..(sub - 1))
        <4>1. i \in 1..t BY <1>2, <1>12, <1>21
        <4>2. l[i] \in task.after BY <1>3, <4>1 DEF l, t
        <4>3. QED BY <1>2, <4>2
      <3>2. CASE l[i] = l[sub] BY <2>3, <3>2
      <3>3. CASE l[i] # l[sub]
        <4>1. i \in 1..(sub - 1) /\ fs'[Snap(l[i])] = fs[Snap(l[i])]
          BY <2>4, <3>1, <3>3
        <4>2. QED BY <1>7, <2>8, <4>1 DEF Exists
      <3>4. QED BY <3>2, <3>3
    <2>10. Next9
      <3>1. CASE sub = t BY <1>3, <2>9, <3>1 DEF l, t
      <3>2. CASE sub # t
        <4>1. ~Past(4, t + 1)' BY <1>2, <1>6, <1>12, <1>21, <3>2 DEF Is
        <4>2. QED BY <4>1
      <3>3. QED BY <3>1, <3>2
    <2> HIDE DEF a, b
    <2>11. Next1 /\ Next2 /\ Next3 BY <1>7, <2>3, <2>6, <2>7, <2>8 DEF Exists
    <2>12. Next4 /\ Next5 /\ Next6 /\ Next7 BY <1>7, <2>5, <2>6, <2>8 DEF Exists
    <2>13. QED BY <1>8, <2>9, <2>10, <2>11, <2>12
  <1>22. CASE Is(5, 0, Call("StartContainerAndWait"))
    <2>1. fs' = fs BY <1>2, <1>22, RanCall DEF BackendOps, Is, Called
    <2>2. swapped' = swapped BY <1>11, <1>22 DEF Is, Move, Call, Prim
    <2>3. QED BY <1>6, <1>10, <1>12, <1>22, <2>1, <2>2 DEF Is
  <1>23. CASE \E p \in {OldDir, PruneDir} : at = 6 /\ NextPrim = RemoveAll(p)
    <2>1. \A p \in {OldDir, PruneDir} : at = 6 /\ NextPrim = RemoveAll(p) =>
             \A q \in {Current, NewDir} \cup {Snap(m) : m \in Names} : fs'[q] = fs[q]
      <3>1. CASE NextPrim = RemoveAll(OldDir)
        <4>1. \A q \in Paths \ {OldDir} : fs'[q] = fs[q]
          BY <1>2, <1>4, <3>1, RemoveFacts DEF Keeps
        <4>2. QED BY <1>4, <4>1
      <3>2. CASE NextPrim = RemoveAll(PruneDir)
        <4>1. Keeps({PruneDir} \cup {Pruned(m) : m \in Names})
          BY <1>2, <3>2, RemovePruneFacts
        <4>2. QED BY <1>4, <4>1 DEF Keeps
      <3>3. QED BY <3>1, <3>2
    <2>2. swapped' = swapped BY <1>11, <1>23 DEF Move, RemoveAll, Prim
    <2>3. Past(0, 2)' /\ Past(3, 2)' /\ at = 6 /\ Past(0, 2) /\ Past(3, 2)
          /\ Past(5, 1)' /\ Past(3, 1) /\ Past(3, 1)' /\ Past(4, t + 1)
      BY <1>6, <1>23
    <2>4. \A m \in Names : fs'[Snap(m)] = fs[Snap(m)] BY <1>23, <2>1
    <2>5. fs'[Current] = fs[Current] /\ fs'[NewDir] = fs[NewDir] BY <1>23, <2>1
    <2>6. QED BY <1>10, <2>2, <2>3, <2>4, <2>5
  <1>24. \/ Is(0, 0, RemoveAll(NewDir))
         \/ Is(0, 1, Prim("clone", Snap(n), NewDir))
         \/ Is(0, 2, MatchTopMode(Current, NewDir))
         \/ Is(1, 0, Call("StopContainer"))
         \/ Is(2, 0, Call("RepairIP"))
         \/ Is(3, 0, Move(Current, OldDir))
         \/ Is(3, 1, Move(NewDir, Current))
         \/ Is(4, 0, EnsureDir(PruneDir)) /\ task.after # {}
         \/ sub \in 1..t /\ Is(4, sub, Move(Snap(l[sub]), Pruned(l[sub])))
         \/ Is(5, 0, Call("StartContainerAndWait"))
         \/ Is(6, 0, RemoveAll(OldDir))
         \/ Is(6, 1, RemoveAll(PruneDir))
    <2>1. at \in 0..(Count(task) - 1) BY <1>1 DEF RestoreNow
    <2>2. at = 4 => task.after # {}
      <3>1. at = 4 /\ task.after = {} => Len(Program) = 0
        BY <1>2, <2>1, RestoreLengths
      <3>2. QED BY <1>2, <3>1
    <2>3. QED BY <1>2, <2>1, <2>2, RestoreDo DEF Is, n, t, l, Pruning
  <1>25. QED
    BY <1>13, <1>14, <1>15, <1>16, <1>17, <1>18, <1>19, <1>20, <1>21, <1>22, <1>23, <1>24 DEF Is

\* A write during a restore is lost with the live directory, or comes after it.
LEMMA RestoreWrites ==
  ASSUME Typed, WorldInv, RestoreForward, phase = "run", task.kind = "restore", Write
  PROVE  RestoreForward'
  <1> DEFINE n == task.name
             c == written + 1
             k == Len(Pruning) + 1
  <1>1. /\ EngineSame /\ pg /\ ctr /\ UNCHANGED <<ctr, pg, sub, swapped>>
        /\ fs'[Current].data = c /\ c \in Contents
        /\ fs'[NewDir] = fs[NewDir]
        /\ \A m \in Names : fs'[Snap(m)] = fs[Snap(m)]
    BY WriteFacts, PathTypes, PathKinds
  <1>2. RestoreNow /\ pc \in {"do", "advance"} /\ record = at
    <2>1. pc \in {"do", "advance"} /\ record = at
      BY DEF Typed, EngineOK, EngineInv
    <2>2. QED BY <2>1, RestoreIs
  <1>3. task' = task /\ phase' = phase /\ pc' = pc /\ at' = at /\ sub' = sub /\ Pruning' = Pruning
    BY <1>1 DEF EngineSame, Pruning
  <1>4. \A i, j : Past(i, j)' <=> Past(i, j) BY <1>3 DEF Past
  <1>5. Past(4, Len(Pruning) + 1)' <=> Past(4, Len(Pruning) + 1)
    BY <1>3 DEF Past
  <1>6. Cut(fs)' = Cut(fs) BY <1>1, <1>2, <1>3, CutSame DEF RestoreNow
  <1>7. n \in Names /\ fs'[Snap(n)] = fs[Snap(n)] BY <1>1, <1>2 DEF RestoreNow
  <1>8. /\ n \notin task.after /\ Exists(fs, Snap(n))
        /\ swapped <=> Past(3, 2)
        /\ ~Past(1, 1) \/ Past(5, 1)
        /\ ~Past(0, 2) => after = Show(fs[Snap(n)].data, Cut(fs))
        /\ Past(0, 2) /\ ~Past(3, 2) => Exists(fs, NewDir) /\ after = Show(fs[NewDir].data, Cut(fs))
        /\ Past(3, 2) => after = Show(fs[Current].data, Cut(fs)) /\ ~Exists(fs, NewDir)
        /\ at = 4 /\ pc = "do" => \A i \in 1..(sub - 1) : ~Exists(fs, Snap(Pruning[i]))
        /\ Past(4, k) => \A m \in task.after : ~Exists(fs, Snap(m))
    BY <1>1 DEF RestoreForward, Forward
  <1>9. /\ ~Past(1, 1) => ~Past(3, 2) /\ ~Past(3, 1)
        /\ Past(5, 1) => Past(3, 2) /\ Past(0, 2)
    BY <1>2 DEF Past, RestoreNow
  <1>10. /\ ~swapped => after' = after
         /\ swapped => after' = [after EXCEPT !.current = c]
    BY <1>2 DEF Write, NoRecord, RestoreNow
  <1>11. swapped => after' = Show(c, Cut(fs)) BY <1>8, <1>10, CurrentShown
  <1>13. at' = 4 /\ pc' = "do" => \A i \in 1..(sub' - 1) : ~Exists(fs', Snap(Pruning'[i]))
    <2> SUFFICES ASSUME at = 4, pc = "do", NEW i \in 1..(sub - 1) PROVE ~Exists(fs', Snap(Pruning[i]))
      BY <1>3
    <2>1. Len(Program) = (IF task.after = {} THEN 0 ELSE Len(Pruning) + 1) /\ Len(Pruning) \in Nat
      BY <1>2, RestoreLengths DEF RestoreNow
    <2>2. sub <= Len(Program) \/ sub = 0
      BY <1>2 DEF Typed, EngineOK, EngineInv, RestoreNow
    <2>3. i \in 1..Len(Pruning) BY <1>2, <2>1, <2>2 DEF RestoreNow
    <2>4. Pruning[i] \in Names
      BY <1>2, <2>3, ListedFacts DEF Pruning, RestoreNow
    <2>5. QED BY <1>1, <1>8, <2>4 DEF Exists
  <1>14. Past(4, Len(Pruning) + 1)' => \A m \in task'.after : ~Exists(fs', Snap(m))
    BY <1>1, <1>2, <1>3, <1>5, <1>8 DEF Exists, RestoreNow
  <1>15. /\ Past(1, 1)' /\ ~Past(5, 1)' => ~ctr'
         /\ swapped' <=> Past(3, 2)'
         /\ task'.name \notin task'.after /\ Exists(fs', Snap(task'.name))
    BY <1>1, <1>3, <1>4, <1>7, <1>8 DEF Exists
  <1>16. /\ ~Past(0, 2)' => after' = Show(fs'[Snap(task'.name)].data, Cut(fs)')
         /\ Past(0, 2)' /\ ~Past(3, 2)' => Exists(fs', NewDir) /\ after' = Show(fs'[NewDir].data, Cut(fs)')
         /\ Past(3, 2)' => after' = Show(fs'[Current].data, Cut(fs)') /\ ~Exists(fs', NewDir)
         /\ Past(3, 1)' /\ ~Past(3, 2)' => ~Exists(fs', Current)
    <2>1. CASE ~Past(1, 1)
      <3>1. ~swapped /\ ~Past(3, 2) /\ ~Past(3, 1) /\ after' = after
        BY <1>8, <1>9, <1>10, <2>1
      <3>2. QED BY <1>1, <1>3, <1>4, <1>6, <1>7, <1>8, <3>1 DEF Exists
    <2>2. CASE Past(5, 1)
      <3>1. swapped /\ Past(3, 2) /\ Past(0, 2) /\ after' = Show(c, Cut(fs))
        BY <1>8, <1>9, <1>11, <2>2
      <3>2. QED BY <1>1, <1>3, <1>4, <1>6, <1>8, <3>1 DEF Exists
    <2>3. QED BY <1>8, <2>1, <2>2
  <1>17. QED BY <1>13, <1>14, <1>15, <1>16 DEF RestoreForward

\* RestoreForward holds when a restore begins.
LEMMA RestoreStarts ==
  ASSUME Typed, WorldInv, NEW n \in Names, NEW force \in BOOLEAN, Restore(n, force),
         Starting(RestoreTask(n), RestoreView(View(fs), n))
  PROVE  RestoreForward'
  <1>1. Exists(fs, Snap(n)) /\ fs' = fs BY DEF Restore, RestoreRefused
  <1>2. /\ task' = [kind |-> "restore", name |-> n, wasRunning |-> ctr, after |-> After(fs, n)]
        /\ pc' = "do" /\ at' = 0 /\ sub' = 0 /\ swapped' = FALSE
        /\ after' = RestoreView(View(fs), n)
    BY DEF Starting, RestoreTask
  <1>3. task'.name = n /\ task'.after = After(fs, n) BY <1>2
  <1>4. n \notin After(fs, n)
    <2>1. fs[Snap(n)].mtime \in Nat
      BY DataOrder, PathTypes DEF Typed, WorldTyped, FsTyped
    <2>2. QED BY <2>1 DEF After
  <1>5. after' = Show(fs[Snap(n)].data, [m \in Names |-> IF m \in After(fs, n) THEN Missing ELSE fs[Snap(m)]])
    BY <1>1, <1>2, RestoreShown
  <1>6. Cut(fs)' = [m \in Names |-> IF m \in After(fs, n) THEN Missing ELSE fs[Snap(m)]]
    BY <1>1, <1>3 DEF Cut
  <1>7. ~Past(0, 2)' /\ ~Past(1, 1)' /\ ~Past(3, 1)' /\ ~Past(3, 2)'
    BY <1>2 DEF Past
  <1>8. ~Past(4, Len(Pruning) + 1)' BY <1>2 DEF Past
  <1>9. after' = Show(fs'[Snap(task'.name)].data, Cut(fs)')
    BY <1>1, <1>3, <1>5, <1>6
  <1>10. /\ task'.name \notin task'.after /\ Exists(fs', Snap(task'.name))
         /\ ~(at' = 4)
    BY <1>1, <1>2, <1>3, <1>4 DEF Exists
  <1>11. QED BY <1>2, <1>7, <1>8, <1>9, <1>10 DEF RestoreForward

\* Every step keeps RestoreForward.
LEMMA RestoreForwardNext ==
  ASSUME Typed, WorldInv, RestoreForward, [Next]_vars
  PROVE  RestoreForward'
  <1> SUFFICES ASSUME phase' = "run", (task.kind = "restore")' PROVE RestoreForward'
    BY DEF RestoreForward, Forward
  <1>1. CASE phase = "run" /\ (Does \/ Ends \/ Goes)
    <2>1. task' = task BY <1>1 DEF Does, Ends, Goes, EngineSame
    <2>2. QED BY <1>1, <2>1, RestoreDoes, RestoreStays
  <1>2. CASE phase = "run" /\ Write
    <2>1. task' = task BY <1>2, WriteFacts DEF EngineSame
    <2>2. QED BY <1>2, <2>1, RestoreWrites
  <1>3. CASE UNCHANGED vars
    BY <1>3 DEF vars, engine, world, counters, history, RestoreForward, Forward, Past, Exists,
                Show, Cut, Pruning
  <1>4. ASSUME NEW n \in Names, NEW force \in BOOLEAN, Restore(n, force),
               Starting(RestoreTask(n), RestoreView(View(fs), n))
        PROVE  RestoreForward'
    BY <1>4, RestoreStarts
  <1>5. ASSUME NEW n \in Names, Starting(SnapshotTask(n), SnapshotView(View(fs'), n))
        PROVE  FALSE
    BY <1>5 DEF Starting, SnapshotTask
  <1>6. QED BY <1>1, <1>2, <1>3, <1>4, <1>5, StillForward

-----------------------------------------------------------------------------
(* Beyond the commit point *)

\* A removal of what is hidden is not seen.
LEMMA RemovalUnseen ==
  ASSUME FsTyped, NEW p \in Artifacts, NEW nil \in BOOLEAN, Ran(RemoveAll(p), nil)
  PROVE  /\ nil /\ Around /\ fs'[p] = Missing /\ View(fs') = View(fs) /\ fs'[Current] = fs[Current]
         /\ \A m \in Names : fs'[Snap(m)] = fs[Snap(m)]
  <1>1. p \in Paths /\ p # Current /\ \A m \in Names : p # Snap(m)
    BY ArtifactFacts
  <1>2. CASE p = PruneDir
    <2>1. Around /\ nil /\ fs'[PruneDir] = Missing
          /\ Keeps({PruneDir} \cup {Pruned(m) : m \in Names})
      BY <1>2, RemovePruneFacts
    <2>2. fs'[Current] = fs[Current] /\ \A m \in Names : fs'[Snap(m)] = fs[Snap(m)]
      BY <2>1, PathTypes, PathKinds DEF Keeps
    <2>3. QED BY <1>2, <2>1, <2>2, ViewKeeps
  <1>3. CASE p # PruneDir
    <2>1. Around /\ nil /\ fs'[p] = Missing /\ Keeps({p})
      BY <1>1, <1>3, RemoveFacts
    <2>2. fs'[Current] = fs[Current] /\ \A m \in Names : fs'[Snap(m)] = fs[Snap(m)]
      BY <1>1, <2>1, PathTypes DEF Keeps
    <2>3. QED BY <2>1, <2>2, ViewKeeps
  <1>4. QED BY <1>2, <1>3

\* From the commit point on only transaction directories are removed.
LEMMA CleanupPrims ==
  ASSUME EngineOK, pc = "do", sub < Len(Program), at >= Commit(task)
  PROVE  \E p \in Artifacts :
           /\ NextPrim = RemoveAll(p)
           /\ \/ task.kind = "snapshot" /\ task.replaced /\ p = Replaced(task.name) /\ at = 4 /\ sub = 0
                 /\ Len(Program) = 1
              \/ task.kind = "restore" /\ at = 6 /\ Len(Program) = 2
                 /\ ((sub = 0 /\ p = OldDir) \/ (sub = 1 /\ p = PruneDir))
  <1>1. /\ task \in Tasks /\ sub \in Nat /\ at \in 0..(Count(task) - 1)
    BY KindedNow
  <1>2. task.name \in Names /\ task \in SnapshotTasks \cup RestoreTasks
    BY <1>1, TaskFacts DEF Tasks
  <1>3. CASE task \in SnapshotTasks
    <2>1. task.kind = "snapshot" /\ task.replaced \in BOOLEAN
      BY <1>3 DEF SnapshotTasks
    <2>2. task.replaced /\ at = 4 BY <1>1, <2>1 DEF Commit, Count
    <2>3. Is(4, 0, RemoveAll(Replaced(task.name))) /\ Len(Program) = 1
      BY <1>1, <1>3, <2>1, <2>2, SnapshotDo DEF Is, Installs
    <2>4. QED BY <1>2, <2>1, <2>2, <2>3, ArtifactFacts DEF Is
  <1>4. CASE task \in RestoreTasks
    <2>1. task.kind = "restore" BY <1>4 DEF RestoreTasks
    <2>2. at = 6 BY <1>1, <2>1 DEF Commit, Count
    <2>3. (Is(6, 0, RemoveAll(OldDir)) \/ Is(6, 1, RemoveAll(PruneDir))) /\ Len(Program) = 2
      BY <1>1, <1>4, <2>2, RestoreDo DEF Is
    <2>4. CASE Is(6, 0, RemoveAll(OldDir))
      <3>1. OldDir \in Artifacts /\ sub = 0 /\ NextPrim = RemoveAll(OldDir)
        BY <2>4, ArtifactFacts DEF Is
      <3>2. QED BY <2>1, <2>2, <2>3, <3>1
    <2>5. CASE Is(6, 1, RemoveAll(PruneDir))
      <3>1. PruneDir \in Artifacts /\ sub = 1 /\ NextPrim = RemoveAll(PruneDir)
        BY <2>5, ArtifactFacts DEF Is
      <3>2. QED BY <2>1, <2>2, <2>3, <3>1
    <2>6. QED BY <2>3, <2>4, <2>5
  <1>5. QED BY <1>2, <1>3, <1>4

\* The last step before the commit point has left what the task is to leave.
LEMMA CommitReached ==
  ASSUME Typed, SnapshotForward, RestoreForward, phase = "run", pc = "advance", at + 1 >= Commit(task)
  PROVE  View(fs) = after /\ (task.kind = "restore" => swapped)
  <1>1. task \in Tasks /\ at \in 0..(Count(task) - 1)
    BY DEF Typed, EngineOK, EngineTyped, EngineInv
  <1>2. CASE task.kind = "snapshot"
    <2>1. task.replaced \in BOOLEAN BY <1>1, <1>2, TaskFacts
    <2>2. Commit(task) = Installs(task) + 1 /\ Installs(task) \in {2, 3} /\ at \in Nat
      BY <1>1, <1>2, <2>1 DEF Commit, Installs, Count
    <2>3. Past(Installs(task), 1) BY <2>2 DEF Past
    <2>4. QED BY <1>2, <2>3 DEF SnapshotForward, Forward
  <1>3. CASE task.kind = "restore"
    <2>1. RestoreNow BY <1>3, RestoreIs
    <2>2. at \in {5, 6} BY <1>1, <1>3 DEF Commit, Count
    <2>3. Past(3, 2) /\ Past(4, Len(Pruning) + 1) BY <2>2 DEF Past
    <2>4. swapped /\ after = Show(fs[Current].data, Cut(fs)) /\ \A m \in task.after : ~Exists(fs, Snap(m))
      BY <1>3, <2>3 DEF RestoreForward, Forward
    <2>5. \A m \in Names : Cut(fs)[m] = Snaps(fs)[m]
      BY <2>1, <2>4 DEF Cut, Snaps, Exists, RestoreNow
    <2>6. QED BY <2>1, <2>4, <2>5, ShowSame, ViewTyped DEF RestoreNow, FsTyped
  <1>4. QED BY <1>1, <1>2, <1>3, TaskFacts

\* What a client's write does to both ends of the comparison.
LEMMA WriteShown ==
  ASSUME Typed, Write, View(fs) = after, record = NoRecord \/ (task.kind = "restore" => swapped),
         ~(record # NoRecord /\ task.kind = "snapshot" /\ pc = "do" /\ at = 0)
  PROVE  View(fs') = after'
  <1> DEFINE c == written + 1
  <1>1. after' = [after EXCEPT !.current = c] BY DEF Write
  <1>2. View(fs) = Show(fs[Current].data, Snaps(fs)) /\ View(fs') = Show(c, Snaps(fs))
    BY ViewTyped, WriteFacts DEF Typed, WorldTyped, FsTyped
  <1>3. QED BY <1>1, <1>2, CurrentShown

\* What is beyond its commit point, in the states of the engine.
LEMMA AppliedFacts ==
  ASSUME Typed
  PROVE  /\ Commit(task) \in {3, 4, 6} /\ Count(task) \in {3, 5, 7} /\ Commit(task) <= Count(task)
         /\ task \in Tasks /\ record \in -1..Count(task) /\ at \in -1..Count(task)
         /\ pc \in {"do", "advance"} /\ Applied => at >= Commit(task)
         /\ Applied => pc # "undo" /\ phase # "rollback" /\ pc # "begin" /\ Opened
         /\ pc = "undo" => phase = "rollback"
         /\ pc \in {"do", "advance"} => phase \in {"run", "rollforward"} /\ at \in 0..(Count(task) - 1)
         /\ phase = "run" => record = at
         /\ pc = "do" /\ ~Applied => phase = "run" /\ at < Commit(task)
         /\ phase = "rollback" => record < Commit(task)
         /\ pc \in {"down", "idle", "begin"} => phase = "none"
  <1>1. task \in Tasks /\ EngineInv /\ record \in -1..Count(task) /\ at \in -1..Count(task)
    BY DEF Typed, EngineOK, EngineTyped
  <1>2. Commit(task) \in {3, 4, 6} /\ Count(task) \in {3, 5, 7} /\ Commit(task) <= Count(task)
    BY <1>1, TaskFacts
  <1>3. QED BY <1>1, <1>2 DEF EngineInv, Applied, Opened, NoRecord

\* A primitive beyond the commit point is not seen.
LEMMA AppliedRuns ==
  ASSUME Typed, AppliedInv, RunPrim
  PROVE  AppliedInv'
  <1>1. ctr \in BOOLEAN /\ FsTyped /\ EngineOK BY DEF Typed, WorldTyped
  <1>2. PICK nil \in BOOLEAN :
          /\ Ran(NextPrim, nil)
          /\ nil => EngineSame
          /\ ~nil => /\ pc = "do" => StepFails
                     /\ pc = "undo" => UndoStep(TRUE)
    BY <1>1, RunPrimFacts
  <1>3. /\ pc \in {"do", "undo"} /\ sub < Len(Program) /\ after' = after
        /\ swapped' = (Swaps(NewDir, Current) \/ (swapped /\ ~Swaps(Current, NewDir)))
    BY <1>1, RunPrimFacts
  <1>4. CASE Applied
    <2>1. pc = "do" /\ at >= Commit(task) BY <1>3, <1>4, AppliedFacts
    <2>2. PICK p \in Artifacts : NextPrim = RemoveAll(p)
      BY <1>1, <1>3, <2>1, CleanupPrims
    <2>3. nil /\ View(fs') = View(fs) BY <1>1, <1>2, <2>2, RemovalUnseen
    <2>4. swapped' = swapped
      <3>1. ~Swaps(NewDir, Current) /\ ~Swaps(Current, NewDir)
        BY <2>2 DEF Swaps, RemoveAll, Move, Prim
      <3>2. QED BY <1>3, <3>1 DEF Typed
    <2>5. EngineSame BY <1>2, <2>3
    <2>6. View(fs)' = after' /\ (task.kind = "restore" => swapped)'
      BY <1>3, <1>4, <2>3, <2>4, <2>5 DEF AppliedInv, EngineSame
    <2>7. pc' # "idle" BY <2>1, <2>5 DEF EngineSame
    <2>8. QED BY <2>6, <2>7 DEF AppliedInv
  <1>5. CASE ~Applied
    <2>1. ~Applied' /\ pc' # "idle"
      <3>1. CASE nil
        BY <1>2, <1>3, <1>5, <3>1, CountSame DEF EngineSame, Applied
      <3>2. CASE ~nil /\ pc = "do"
        <4>1. task \in Tasks /\ at \in Nat /\ phase = "run" /\ at < Commit(task) /\ record = at
          BY <1>5, <3>2, AppliedFacts
        <4>2. ForwardFails(at) /\ task' = task /\ record' = record
          BY <1>2, <3>2 DEF StepFails
        <4>3. Resolved(at) BY <4>1, <4>2, ForwardFailsFacts
        <4>4. phase' = "rollback" /\ pc' = "undo"
          BY <4>1, <4>3, AppliedFacts DEF Resolved
        <4>5. Commit(task)' = Commit(task) /\ Commit(task) \in Nat
          BY <4>2, CountSame, AppliedFacts
        <4>6. QED BY <4>1, <4>2, <4>4, <4>5 DEF Applied
      <3>3. CASE ~nil /\ pc = "undo"
        <4>1. /\ pc' \in {"undo", "ensure"} /\ UNCHANGED <<task, record, phase>>
          BY <1>2, <3>3 DEF UndoStep, AfterUndo
        <4>2. QED BY <1>5, <4>1, CountSame DEF Applied
      <3>4. QED BY <1>3, <3>1, <3>2, <3>3
    <2>2. QED BY <2>1 DEF AppliedInv
  <1>6. QED BY <1>4, <1>5

\* The advance to the commit point finds the promised state there.
LEMMA AppliedAdvances ==
  ASSUME Typed, AppliedInv, SnapshotForward, RestoreForward, Advances
  PROVE  AppliedInv'
  <1>1. UNCHANGED <<fs, after, swapped>> /\ pc = "advance"
    BY DEF Advances, Idles, world, AdvanceDone, AdvanceFails
  <1>2. task \in Tasks /\ at \in Nat /\ Commit(task) \in Nat /\ Commit(task) <= Count(task)
        /\ phase \in {"run", "rollforward"} /\ (phase = "run" => record = at)
    BY <1>1, AppliedFacts
  <1>3. task' = task /\ pc' # "idle" /\ (Applied' => Applied \/ (phase = "run" /\ at + 1 >= Commit(task)))
    <2>1. CASE AdvanceDone
      <3>1. /\ record' = at + 1 /\ pc' = Top(at + 1) /\ task' = task
            /\ phase' = (IF at + 1 = Count(task) THEN "rollforward" ELSE phase)
        BY <1>2, <2>1, AdvanceFacts
      <3>2. Commit(task)' = Commit(task) BY <3>1, CountSame
      <3>3. QED BY <1>2, <3>1, <3>2 DEF Top, Applied
    <2>2. CASE AdvanceFails
      <3>1. record' \in {record, at + 1} /\ ForwardFails(at + 1) /\ task' = task /\ at + 1 \in Nat
        BY <1>2, <2>2 DEF AdvanceFails
      <3>2. \/ phase = "run" /\ Resolved(at + 1)
            \/ phase = "rollforward" /\ phase' = "kept" /\ pc' = "ensure"
        BY <1>2, <3>1, ForwardFailsFacts
      <3>3. Commit(task)' = Commit(task) BY <3>1, CountSame
      <3>4. QED BY <1>2, <3>1, <3>2, <3>3 DEF Resolved, Top, Applied
    <2>3. QED BY <2>1, <2>2 DEF Advances
  <1>4. ASSUME Applied'
        PROVE  View(fs) = after /\ (task.kind = "restore" => swapped)
    <2>1. CASE Applied BY <2>1 DEF AppliedInv
    <2>2. CASE phase = "run" /\ at + 1 >= Commit(task)
      BY <1>1, <2>2, CommitReached
    <2>3. QED BY <1>3, <1>4, <2>1, <2>2
  <1>5. QED BY <1>1, <1>3, <1>4 DEF AppliedInv

\* The steps of the engine that leave the slot and its progress alone.
LEMMA AppliedQuiet ==
  ASSUME Typed, AppliedInv, Starts \/ Requests \/ StepEnds \/ Clears \/ UNCHANGED vars
  PROVE  AppliedInv'
  <1>1. UNCHANGED <<fs, after, swapped>> BY QuietFacts DEF Quiet
  <1>2. View(fs)' = View(fs) BY <1>1 DEF View, List, Older, Exists
  <1>3. task \in Tasks /\ record \in {NoRecord} \cup Nat /\ Commit(task) \in Nat
    BY AppliedFacts DEF NoRecord
  <1>4. CASE Starts \/ Requests
    <2>1. PICK who \in {"startup", "request"} : Recover(who) \/ RecoverFails(who)
      BY <1>4 DEF Starts, Requests, Startup, StartupFails, Request, RequestFails
    <2>2. phase = "none"
      BY <1>4, AppliedFacts DEF Starts, Requests, Startup, StartupFails, Request, RequestFails
    <2>3. task' = task /\ record' = record /\ caller' # "run"
          /\ (phase' \in {"rollforward", "kept"} => record >= Commit(task))
      <3>1. CASE Recover(who) BY <1>3, <2>2, <3>1, RecoverFacts DEF Resolved
      <3>2. CASE RecoverFails(who) BY <2>2, <3>2 DEF RecoverFails
      <3>3. QED BY <2>1, <3>1, <3>2
    <2>4. Applied' => Applied
      BY <2>3, CountSame DEF Applied
    <2>5. QED BY <1>1, <1>2, <2>3, <2>4 DEF AppliedInv
  <1>5. CASE StepEnds
    <2>1. task' = task /\ record' = record /\ phase' = phase /\ pc' # "idle"
      BY <1>5 DEF StepEnds, StepDone, UndoStep, AfterUndo
    <2>2. Applied' => Applied
      BY <2>1, CountSame DEF Applied
    <2>3. QED BY <1>1, <1>2, <2>1, <2>2 DEF AppliedInv
  <1>6. CASE Clears
    <2>1. PICK failed \in BOOLEAN : /\ Return(failed) /\ pc = "clear" /\ task' = task /\ record' \in {record, NoRecord}
                                    /\ ~failed => ~err
      BY <1>6 DEF Clears, ClearDone, ClearFails, Typed, EngineOK, EngineTyped
    <2>2. phase' = "none" /\ caller' = caller /\ (reply' = "nil" => ~err)
      BY <2>1 DEF Return
    <2>3. Applied' => Applied
      BY <1>3, <2>1, <2>2, CountSame DEF Applied, NoRecord
    <2>4. caller = "run" /\ ~err => Applied
      BY <2>1 DEF Typed, EngineOK, EngineInv, Applied
    <2>5. QED BY <1>1, <1>2, <2>1, <2>2, <2>3, <2>4 DEF AppliedInv
  <1>7. CASE UNCHANGED vars
    <2>1. EngineSame BY <1>7 DEF vars, engine, EngineSame
    <2>2. Applied' => Applied
      BY <2>1, CountSame DEF Applied, EngineSame
    <2>3. QED BY <1>1, <1>2, <2>1, <2>2 DEF AppliedInv, EngineSame, Opened
  <1>8. QED BY <1>4, <1>5, <1>6, <1>7

\* A write changes what is seen and what is promised alike.
LEMMA AppliedWrites ==
  ASSUME Typed, AppliedInv, Write
  PROVE  AppliedInv'
  <1>1. EngineSame /\ swapped' = swapped BY WriteFacts
  <1>2. Applied' = Applied
    BY <1>1 DEF Applied, Commit, EngineSame
  <1>3. ASSUME Applied
        PROVE  (View(fs) = after /\ (task.kind = "restore" => swapped))'
    <2>1. View(fs) = after /\ (task.kind = "restore" => swapped) /\ ~(pc = "do" /\ at = 0)
      BY <1>3, AppliedFacts DEF AppliedInv
    <2>2. View(fs)' = after' BY <2>1, WriteShown
    <2>3. QED BY <1>1, <2>1, <2>2 DEF EngineSame
  <1>4. ASSUME pc = "idle" /\ caller = "run" /\ reply = "nil" /\ ~Opened
        PROVE  View(fs)' = after'
    BY <1>4, WriteShown DEF AppliedInv, Opened
  <1>5. QED BY <1>1, <1>2, <1>3, <1>4 DEF AppliedInv, EngineSame, Opened

\* What a mutation promises has a live directory.
LEMMA AppliedLive ==
  ASSUME Typed, WorldInv, AppliedInv, Applied
  PROVE  Exists(fs, Current)
  <1>1. View(fs) = after /\ after.current # Gone
    BY DEF AppliedInv, WorldInv, AfterSound
  <1>2. fs[Current].data # Gone BY <1>1 DEF View
  <1>3. QED BY <1>2 DEF Exists, Missing

\* A client, a kill or another operation of the service changes neither.
LEMMA AppliedOther ==
  ASSUME Typed, WorldInv, AppliedInv, Ensures \/ Refuses \/ Start \/ Stop \/ Killed \/ Bootstrap
  PROVE  AppliedInv'
  <1>1. after' = after /\ swapped' = swapped
    BY BootFacts DEF Ensures, Refuses, Start, Stop, Killed, history
  <1>2. task \in Tasks /\ record \in {NoRecord} \cup Nat /\ Commit(task) \in Nat
    BY AppliedFacts DEF NoRecord
  <1>3. CASE Ensures
    <2>1. fs' = fs /\ \E failed \in BOOLEAN : RunEnsures(failed)
      BY <1>3, EnsureFacts DEF Typed, WorldTyped
    <2>2. View(fs)' = View(fs) BY <2>1 DEF View, List, Older, Exists
    <2>3. task' = task /\ record' = record /\ (pc' = "idle" => reply' = "error")
          /\ (phase' = phase \/ phase' = "none")
      BY <2>1 DEF RunEnsures, Return
    <2>4. Applied' => Applied
      BY <2>3, CountSame DEF Applied
    <2>5. QED BY <1>1, <2>2, <2>3, <2>4 DEF AppliedInv
  <1>4. CASE Refuses
    <2>1. task' = task /\ record' = record /\ phase' = phase /\ reply' = "error" /\ pc = "begin"
      BY <1>4 DEF Refuses, Refuse
    <2>2. ~Applied BY <2>1, AppliedFacts
    <2>3. ~Applied' BY <2>1, <2>2, CountSame DEF Applied
    <2>4. QED BY <2>1, <2>3 DEF AppliedInv
  <1>5. CASE Start \/ Stop
    <2>1. EngineSame /\ fs' = fs BY <1>5 DEF Start, Stop, engine, EngineSame
    <2>2. View(fs)' = View(fs) BY <2>1 DEF View, List, Older, Exists
    <2>3. Applied' => Applied
      BY <2>1, CountSame DEF Applied, EngineSame
    <2>4. QED BY <1>1, <2>1, <2>2, <2>3 DEF AppliedInv, EngineSame, Opened
  <1>6. CASE Killed
    <2>1. task' = task /\ record' = record /\ phase' = "none" /\ pc' = "down"
      BY <1>6 DEF Killed, Crash
    <2>2. View(fs)' = View(fs)
      <3>1. CASE fs' = fs BY <3>1 DEF View, List, Older, Exists
      <3>2. CASE fs' # fs
        <4>1. PICK p \in Artifacts : \A q \in Paths \ {p} : fs'[q] = fs[q]
          BY <1>6, <3>2, KilledPaths DEF Typed, WorldTyped
        <4>2. fs'[Current] = fs[Current] /\ \A m \in Names : fs'[Snap(m)] = fs[Snap(m)]
          BY <4>1, ArtifactFacts, PathTypes
        <4>3. QED BY <4>2, ViewKeeps
      <3>3. QED BY <3>1, <3>2
    <2>3. Applied' => Applied
      BY <2>1, CountSame DEF Applied
    <2>4. QED BY <1>1, <2>1, <2>2, <2>3 DEF AppliedInv
  <1>7. CASE Bootstrap
    <2>1. EngineSame /\ pc = "down" BY <1>7, BootFacts
    <2>2. Applied => Exists(fs, Current)
      BY AppliedLive
    <2>3. Applied => View(fs)' = View(fs)
      BY <1>7, <2>2, BootFacts DEF View, List, Older, Exists
    <2>4. Applied' => Applied
      BY <2>1, CountSame DEF Applied, EngineSame
    <2>5. QED BY <1>1, <2>1, <2>3, <2>4 DEF AppliedInv, EngineSame, Opened
  <1>8. QED BY <1>3, <1>4, <1>5, <1>6, <1>7

\* A mutation that begins has nothing applied.
LEMMA AppliedBegins ==
  ASSUME Typed, NEW t \in Tasks, NEW promised, BeginTask(t, promised)
  PROVE  ~Applied' /\ ~(pc' = "idle" /\ reply' = "nil")
  <1>1. pc = "begin" BY BeginMarks
  <1>2. ~Applied /\ phase = "none" BY <1>1, AppliedFacts
  <1>3. CASE Begin(t)
    <2>1. task' = t /\ record' = 0 /\ phase' = "run" /\ pc' = "do"
      BY <1>3, BeginFacts
    <2>2. Commit(t) \in {3, 4, 6} BY TaskFacts
    <2>3. Commit(task)' = Commit(t) BY <2>1 DEF Commit
    <2>4. QED BY <2>1, <2>2, <2>3 DEF Applied
  <1>4. CASE BeginFails(t)
    <2>1. phase' = "none" /\ reply' = "error" /\ ((task' = t /\ record' = 0) \/ (task' = task /\ record' = record))
      BY <1>2, <1>4 DEF BeginFails
    <2>2. CASE task' = t /\ record' = 0
      <3>1. Commit(t) \in {3, 4, 6} BY TaskFacts
      <3>2. Commit(task)' = Commit(t) BY <2>2 DEF Commit
      <3>3. QED BY <2>1, <2>2, <3>1, <3>2 DEF Applied
    <2>3. CASE task' = task /\ record' = record
      BY <1>2, <2>1, <2>3, CountSame DEF Applied
    <2>4. QED BY <2>1, <2>2, <2>3
  <1>5. QED BY <1>3, <1>4 DEF BeginTask

\* What the operations build are tasks.
LEMMA BuiltTasks ==
  ASSUME Typed, NEW n \in Names
  PROVE  SnapshotTask(n) \in Tasks /\ RestoreTask(n) \in Tasks
  BY DEF SnapshotTask, RestoreTask, Tasks, SnapshotTasks, RestoreTasks, Exists, After, Typed, WorldTyped

\* Every step keeps AppliedInv.
LEMMA AppliedNext ==
  ASSUME Typed, WorldInv, AppliedInv, SnapshotForward, RestoreForward, [Next]_vars
  PROVE  AppliedInv'
  <1>1. ASSUME NEW n \in Names, NEW force \in BOOLEAN, Snapshot(n, force) \/ Restore(n, force)
        PROVE  AppliedInv'
    <2>1. \E t \in Tasks : \E promised : BeginTask(t, promised)
      BY <1>1, BuiltTasks DEF Snapshot, Restore
    <2>2. QED BY <2>1, AppliedBegins DEF AppliedInv
  <1>2. QED
    BY <1>1, AppliedRuns, AppliedAdvances, AppliedQuiet, AppliedWrites, AppliedOther, NextCases DEF Quiet

-----------------------------------------------------------------------------
(* What the service tells its clients *)

\* The inductive invariant.
SlotInv == Typed /\ WorldInv /\ SnapshotForward /\ RestoreForward /\ AppliedInv

LEMMA SlotInit == Init => SlotInv
  <1> SUFFICES ASSUME Init PROVE SlotInv
    OBVIOUS
  <1>1. phase = "none" /\ record = NoRecord /\ pc = "down"
    BY DEF Init, EngineInit
  <1>2. Typed /\ WorldInv BY TypedInit, WorldInvInit
  <1>3. SnapshotForward /\ RestoreForward
    BY <1>1 DEF SnapshotForward, RestoreForward, Forward
  <1>4. AppliedInv
    BY <1>1, <1>2, AppliedFacts DEF AppliedInv, Applied, Opened
  <1>5. QED BY <1>2, <1>3, <1>4 DEF SlotInv

LEMMA SlotNext == SlotInv /\ [Next]_vars => SlotInv'
  BY TypedNext, WorldInvNext, SnapshotForwardNext, RestoreForwardNext, AppliedNext DEF SlotInv

\* A mutation that is beyond its commit point has left the slot as promised,
\* whatever fails, is cancelled or is killed: the inductive invariant of snapshot
\* and restore, with what each step of theirs finds of the slot.
THEOREM SlotSafe == Spec => []SlotInv
  BY SlotInit, SlotNext, PTL DEF Spec

\* When a handler of the daemon returns nil for a snapshot or a restore and no
\* record is left, the slot is as the operation promised.
THEOREM NilIsTrue == Spec => []NilMeansApplied
  <1>1. SlotInv => NilMeansApplied
    BY DEF SlotInv, AppliedInv, NilMeansApplied, Opened
  <1>2. QED BY <1>1, SlotSafe, PTL

-----------------------------------------------------------------------------
(* A mutation takes effect at one instant or not at all *)

\* A step that is none of the abstract task, and one that may be.
Stutters == AbstractStatus' = AbstractStatus /\ AbstractOutcome' = AbstractOutcome
Stays == [Abstract!Next]_(Abstract!vars)

LEMMA StutterStays == ASSUME Stutters PROVE Stays
  BY DEF Stutters, Stays, Abstract!vars

\* With the record as it was, nothing happens while it is there, nor while what
\* the user sees is as true as it was.
LEMMA RecordSame ==
  ASSUME task' = task, record' = record,
         record # NoRecord \/ (View(fs') = after' <=> View(fs) = after)
  PROVE  Stays
  <1>1. Commit(task)' = Commit(task) BY CountSame
  <1>2. (View(fs) = after)' <=> View(fs') = after'
    BY DEF View, List, Older, Exists
  <1>3. Stutters BY <1>1, <1>2 DEF Stutters, AbstractStatus, AbstractOutcome
  <1>4. QED BY <1>3, StutterStays

LEMMA AtomicQuiet ==
  ASSUME SlotInv, Starts \/ Requests \/ StepEnds \/ UNCHANGED vars
  PROVE  Stays
  <1>1. UNCHANGED <<fs, after>> BY QuietFacts DEF Quiet
  <1>2. task' = task /\ record' = record
    BY DEF Starts, Requests, Startup, StartupFails, Request, RequestFails, Recover, RecoverFails,
           StepEnds, StepDone, UndoStep, vars, engine
  <1>3. QED BY <1>1, <1>2, RecordSame

LEMMA AtomicRuns ==
  ASSUME SlotInv, RunPrim \/ Ensures
  PROVE  Stays
  <1>1. record # NoRecord
    BY DEF SlotInv, Typed, EngineOK, EngineInv, Opened, RunPrim, Ensures
  <1>2. task' = task /\ record' = record
    BY DEF RunPrim, Ensures, engine, StepFails, UndoStep, RunEnsures
  <1>3. QED BY <1>1, <1>2, RecordSame

\* The advance that reaches the commit point applies the task.
LEMMA AtomicAdvances ==
  ASSUME SlotInv, Advances
  PROVE  Stays
  <1>1. Typed /\ pc = "advance"
    BY DEF SlotInv, Advances, AdvanceDone, AdvanceFails
  <1>2. /\ at \in Nat /\ Commit(task) \in Nat /\ record \in 0..at
    <2>1. phase \in {"run", "rollforward"} /\ at \in 0..(Count(task) - 1) /\ record \in -1..Count(task)
          /\ Commit(task) \in Nat /\ Count(task) \in Nat
      BY <1>1, AppliedFacts
    <2>2. record # -1 /\ record <= at
      BY <1>1, <2>1 DEF Typed, EngineOK, EngineInv, Opened, NoRecord
    <2>3. QED BY <2>1, <2>2
  <1>3. task' = task /\ record' \in {record, at + 1}
    BY DEF Advances, AdvanceDone, AdvanceFails
  <1>4. Commit(task)' = Commit(task) BY <1>3, CountSame
  <1>5. AbstractStatus = "open" /\ AbstractStatus' = "open"
    BY <1>2, <1>3 DEF AbstractStatus, NoRecord
  <1>6. /\ AbstractOutcome = IF record >= Commit(task) THEN "applied" ELSE "unapplied"
        /\ AbstractOutcome' = IF record' >= Commit(task) THEN "applied" ELSE "unapplied"
    BY <1>2, <1>3, <1>4 DEF AbstractOutcome, NoRecord
  <1>7. AbstractOutcome = "applied" => AbstractOutcome' = "applied"
    BY <1>2, <1>3, <1>6
  <1>8. AbstractOutcome \in {"applied", "unapplied"} /\ AbstractOutcome' \in {"applied", "unapplied"}
    BY <1>6
  <1>9. Stutters \/ (AbstractOutcome = "unapplied" /\ AbstractOutcome' = "applied")
    BY <1>5, <1>7, <1>8 DEF Stutters
  <1>10. QED BY <1>5, <1>9, StutterStays DEF Stays, Abstract!Next, Abstract!Apply

\* The removal of the record closes it.
LEMMA AtomicClears ==
  ASSUME SlotInv, Clears
  PROVE  Stays
  <1>1. Typed /\ AppliedInv /\ pc = "clear" /\ UNCHANGED <<fs, after>> /\ task' = task /\ record' \in {record, NoRecord}
    BY DEF SlotInv, Clears, ClearDone, ClearFails, Idles, world
  <1>2. record # NoRecord BY <1>1 DEF Typed, EngineOK, EngineInv, Opened
  <1>3. CASE record' = record BY <1>1, <1>2, <1>3, RecordSame
  <1>4. CASE record' = NoRecord
    <2>1. AbstractStatus = "open" /\ AbstractStatus' = "closed"
      BY <1>2, <1>4 DEF AbstractStatus
    <2>2. View(fs)' = View(fs) BY <1>1 DEF View, List, Older, Exists
    <2>3. AbstractOutcome = "applied" => AbstractOutcome' = "applied"
      <3>1. record >= Commit(task) => View(fs) = after
        BY <1>1 DEF AppliedInv, Applied
      <3>2. QED BY <1>1, <1>2, <1>4, <2>2, <3>1 DEF AbstractOutcome
    <2>4. AbstractOutcome \in {"applied", "unapplied"} /\ AbstractOutcome' \in {"applied", "unapplied"}
      BY DEF AbstractOutcome
    <2>5. QED BY <2>1, <2>3, <2>4 DEF Stays, Abstract!Next, Abstract!Close
  <1>5. QED BY <1>1, <1>3, <1>4

\* A data directory that is made because it is gone is not what a mutation left.
LEMMA LayoutUnseen ==
  ASSUME SlotInv, fs' = EnsureLayout
  PROVE  View(fs') = after <=> View(fs) = after
  <1>1. FsTyped /\ AfterSound BY DEF SlotInv, Typed, WorldTyped, WorldInv
  <1>2. CASE Exists(fs, Current) BY <1>1, <1>2, LayoutFacts
  <1>3. CASE ~Exists(fs, Current)
    <2>1. fs' \in [Paths -> Directories] /\ fs'[Current].data = Empty /\ fs[Current].data = Gone
      BY <1>1, <1>3, LayoutFacts DEF Exists, Missing
    <2>2. View(fs').current = Empty /\ View(fs).current = Gone
      BY <1>1, <2>1, ViewTyped DEF FsTyped
    <2>3. QED BY <1>1, <2>2 DEF AfterSound
  <1>4. QED BY <1>2, <1>3

LEMMA AtomicRefuses ==
  ASSUME SlotInv, Refuses \/ Bootstrap
  PROVE  Stays
  <1>1. task' = task /\ record' = record /\ after' = after /\ (fs' = fs \/ fs' = EnsureLayout)
    BY BootFacts DEF Refuses, Refuse, history, EngineSame
  <1>2. View(fs') = after' <=> View(fs) = after BY <1>1, LayoutUnseen
  <1>3. QED BY <1>1, <1>2, RecordSame

\* The record of a new task opens it.
LEMMA AtomicBegins ==
  ASSUME SlotInv, NEW t \in Tasks, NEW promised, BeginTask(t, promised), fs' = fs
  PROVE  Stays
  <1>1. pc = "begin" /\ record = NoRecord
    BY BeginMarks DEF SlotInv, Typed, EngineOK, EngineInv, Opened
  <1>2. CASE task' = t /\ record' = 0
    <2>1. Commit(task)' = Commit(t) /\ Commit(t) \in {3, 4, 6}
      BY <1>2, TaskFacts DEF Commit
    <2>2. AbstractStatus = "closed" /\ AbstractStatus' = "open" /\ AbstractOutcome' = "unapplied"
      BY <1>1, <1>2, <2>1 DEF AbstractStatus, AbstractOutcome, NoRecord
    <2>3. QED BY <2>2 DEF Stays, Abstract!Next, Abstract!Open
  <1>3. CASE task' = task /\ record' = record
    <2>1. after' = IF View(fs) = after THEN View(fs') ELSE after
      BY <1>1, <1>3 DEF BeginTask
    <2>2. View(fs') = after' <=> View(fs) = after BY <2>1
    <2>3. QED BY <1>3, <2>2, RecordSame
  <1>4. QED BY <1>1, <1>2, <1>3 DEF BeginTask, Begin, BeginFails

LEMMA AtomicOther ==
  ASSUME SlotInv, Start \/ Stop \/ Killed
  PROVE  Stays
  <1>1. task' = task /\ record' = record /\ after' = after
    BY DEF Start, Stop, engine, history, Killed, Crash
  <1>2. View(fs') = View(fs)
    <2>1. CASE fs' = fs BY <2>1
    <2>2. CASE fs' # fs
      <3>1. PICK p \in Artifacts : \A q \in Paths \ {p} : fs'[q] = fs[q]
        BY <2>2, KilledPaths DEF Start, Stop, SlotInv, Typed, WorldTyped
      <3>2. fs'[Current] = fs[Current] /\ \A m \in Names : fs'[Snap(m)] = fs[Snap(m)]
        BY <3>1, ArtifactFacts, PathTypes
      <3>3. QED BY <3>2, ViewKeeps
    <2>3. QED BY <2>1, <2>2
  <1>3. QED BY <1>1, <1>2, RecordSame

\* A write is not the task's, before or after.
LEMMA AtomicWrites ==
  ASSUME SlotInv, Write
  PROVE  Stays
  <1>1. Typed /\ AfterSound /\ EngineSame BY WriteFacts DEF SlotInv, WorldInv
  <1>2. task' = task /\ record' = record BY <1>1 DEF EngineSame
  <1>3. CASE record = NoRecord /\ View(fs) = after
    BY <1>1, <1>2, <1>3, WriteShown, RecordSame
  <1>4. CASE record = NoRecord /\ View(fs) # after
    <2>1. after' = after BY <1>4 DEF Write
    <2>2. View(fs').current = written + 1 BY <1>1, WriteFacts DEF Show
    <2>3. after.current <= written /\ after.current \in Int /\ written \in Nat
      <3>1. after.current \in Data /\ MaxWrites \in Nat /\ written \in 0..MaxWrites
        BY <1>1, OpsAssumption DEF Typed, Views
      <3>2. QED BY <1>1, <3>1 DEF AfterSound, Data, Contents, Gone, Empty, Torn
    <2>4. View(fs') # after' BY <2>1, <2>2, <2>3
    <2>5. QED BY <1>2, <1>4, <2>4, RecordSame
  <1>5. CASE record # NoRecord BY <1>2, <1>5, RecordSame
  <1>6. QED BY <1>3, <1>4, <1>5

\* Every step is one of the abstract task or a stutter.
LEMMA AtomicStep ==
  ASSUME SlotInv, [Next]_vars
  PROVE  Stays
  <1>1. ASSUME NEW n \in Names, NEW force \in BOOLEAN, Snapshot(n, force)
        PROVE  Stays
    <2>1. fs' = fs /\ BeginTask(SnapshotTask(n), SnapshotView(View(fs'), n))
      BY <1>1, BootableFacts DEF Snapshot, SnapshotRefused
    <2>2. QED BY <2>1, BuiltTasks, AtomicBegins DEF SlotInv
  <1>2. ASSUME NEW n \in Names, NEW force \in BOOLEAN, Restore(n, force)
        PROVE  Stays
    <2>1. fs' = fs /\ BeginTask(RestoreTask(n), RestoreView(View(fs), n))
      BY <1>2 DEF Restore
    <2>2. QED BY <2>1, BuiltTasks, AtomicBegins DEF SlotInv
  <1>3. QED
    BY <1>1, <1>2, AtomicQuiet, AtomicRuns, AtomicAdvances, AtomicClears, AtomicRefuses, AtomicOther,
       AtomicWrites, NextCases DEF Quiet

\* Snapshot and restore of a slot implement AtomicTask, step lists, kills,
\* retries and all: a mutation takes effect at one instant, when the record
\* reaches its commit point, or not at all.
THEOREM SlotIsAtomic == Spec => Atomic
  <1>1. Init => Abstract!Init
    BY DEF Init, EngineInit, Abstract!Init, AbstractStatus, AbstractOutcome
  <1>2. SlotInv /\ [Next]_vars => [Abstract!Next]_(Abstract!vars)
    BY AtomicStep DEF Stays
  <1>3. QED BY <1>1, <1>2, SlotInit, SlotNext, PTL DEF Spec, Atomic, Abstract!Spec

-----------------------------------------------------------------------------
(* Copies are taken of a cluster at rest *)

\* Only the undo of an installation moves anything to where a snapshot is staged.
LEMMA StagedFrom ==
  ASSUME EngineOK, pc \in {"do", "undo"}, sub < Len(Program), NEW m \in Names, NEW a \in Paths,
         NextPrim = Move(a, Staging(m))
  PROVE  a = Snap(m)
  <1>1. /\ task \in Tasks /\ sub \in Nat
        /\ pc = "do" => at \in 0..(Count(task) - 1)
        /\ pc = "undo" => at \in 0..(Commit(task) - 1)
    BY KindedNow
  <1>2. task \in SnapshotTasks \cup RestoreTasks BY <1>1 DEF Tasks
  <1>3. NextPrim.op = "move" /\ NextPrim.from = a /\ NextPrim.to = Staging(m) /\ NextPrim.to[1] = "stage"
        /\ NextPrim.to[2] = m
    BY PathKinds DEF Move, Prim
  <1>4. CASE task \in SnapshotTasks
    <2>1. CASE pc = "do"
      BY <1>1, <1>3, <1>4, <2>1, SnapshotDo, PathKinds DEF Is, Call, RemoveAll, Prim, Move, TouchNow
    <2>2. CASE pc = "undo"
      BY <1>1, <1>3, <1>4, <2>2, SnapshotUndo, PathKinds DEF Is, RemoveAll, Prim, Move
    <2>3. QED BY <2>1, <2>2
  <1>5. CASE task \in RestoreTasks
    <2>1. CASE pc = "do"
      BY <1>1, <1>3, <1>5, <2>1, RestoreDo, PathKinds
      DEF Is, Call, RemoveAll, Prim, Move, MatchTopMode, EnsureDir
    <2>2. CASE pc = "undo"
      BY <1>1, <1>3, <1>5, <2>2, RestoreUndo, PathKinds DEF Is, Call, RemoveAll, Prim, Move, ReturnUnless
    <2>3. QED BY <2>1, <2>2
  <1>6. QED BY <1>2, <1>4, <1>5

\* What is cloned to a staging path is cloned of a cluster that is down.
LEMMA StagedRuns ==
  ASSUME SlotInv, RunPrim, NEW m \in Names,
         fs'[Staging(m)].data \in Contents, ~Exists(fs, Staging(m)), fs'[Snap(m)] = fs[Snap(m)]
  PROVE  ~pg
  <1> DEFINE s == Staging(m)
  <1>1. Typed /\ EngineOK /\ FsTyped /\ ctr \in BOOLEAN
    BY DEF SlotInv, Typed, WorldTyped
  <1>2. pc \in {"do", "undo"} /\ sub < Len(Program) /\ \E nil \in BOOLEAN : Ran(NextPrim, nil)
    BY <1>1, RunPrimFacts
  <1>3. PICK nil \in BOOLEAN : Ran(NextPrim, nil)
    BY <1>2
  <1>4. Kinded /\ task \in Tasks BY <1>1, <1>2, KindedNow
  <1>5. s \in Paths /\ Snap(m) \in Paths /\ s # Snap(m) /\ s # PruneDir /\ s # Current /\ s # NewDir
        /\ \A k \in Names : s # Pruned(k)
    BY PathTypes, PathKinds
  <1>6. fs[s] = Missing /\ Missing.data \notin Contents
    BY OpsAssumption DEF Exists, Missing, Gone, Contents
  <1>7. fs'[s] # fs[s] BY <1>6
  <1>8. ASSUME NEW a \in Paths, NEW b \in Paths, a # b, NextPrim = Move(a, b)
        PROVE  FALSE
    <2>1. CASE b = s
      <3>1. a = Snap(m) BY <1>1, <1>2, <1>8, <2>1, StagedFrom
      <3>2. nil /\ fs'[a] = Missing /\ Exists(fs, a)
        BY <1>1, <1>3, <1>6, <1>7, <1>8, <2>1, MoveFacts DEF Exists
      <3>3. QED BY <3>1, <3>2 DEF Exists
    <2>2. CASE b # s
      BY <1>1, <1>3, <1>5, <1>6, <1>7, <1>8, <2>2, MoveFacts DEF Keeps
    <2>3. QED BY <2>1, <2>2
  <1>9. ASSUME NEW a \in Paths, NEW b \in Paths, NextPrim = Prim("clone", a, b)
        PROVE  ~pg
    <2>1. b = s BY <1>1, <1>3, <1>5, <1>7, <1>9, CloneFacts DEF Keeps
    <2>2. NextPrim.op = "clone" /\ NextPrim.to = s BY <1>9, <2>1 DEF Prim
    <2>3. task.kind = "snapshot" /\ at = 1 /\ pc = "do"
      BY <1>1, <1>2, <1>5, <2>2, PrimTargets DEF Prim
    <2>4. ~Applied BY <1>1, <2>3, AppliedFacts
    <2>5. phase = "run" BY <1>1, <2>3, <2>4, AppliedFacts
    <2>6. QED BY <2>3, <2>5 DEF SlotInv, SnapshotForward, Forward, Past
  <1>10. ASSUME NEW p \in Paths, NextPrim = RemoveAll(p)
        PROVE  FALSE
    <2>1. CASE p = PruneDir
      BY <1>1, <1>3, <1>5, <1>7, <1>10, <2>1, RemovePruneFacts DEF Keeps
    <2>2. CASE p # PruneDir
      BY <1>1, <1>3, <1>5, <1>6, <1>7, <1>10, <2>2, RemoveFacts DEF Keeps
    <2>3. QED BY <2>1, <2>2
  <1>11. ASSUME NEW p \in Paths, NextPrim = TouchNow(p)
        PROVE  FALSE
    <2>1. fs'[p] = [data |-> fs[p].data, mtime |-> Now] /\ Keeps({p})
      BY <1>1, <1>3, <1>11, TouchFacts
    <2>2. p = s BY <1>5, <1>7, <2>1 DEF Keeps
    <2>3. fs'[s].data = Missing.data BY <1>6, <2>1, <2>2
    <2>4. QED BY <1>6, <2>3
  <1>12. ASSUME NEW p \in Paths, NextPrim = EnsureDir(p)
        PROVE  FALSE
    <2>1. p = PruneDir BY <1>1, <1>2, <1>12, PrimTargets DEF EnsureDir, Prim
    <2>2. QED BY <1>1, <1>3, <1>5, <1>7, <1>12, <2>1, MkdirFacts DEF Keeps
  <1>13. ASSUME NEW a \in Paths, NEW b \in Paths, NextPrim = MatchTopMode(a, b) \/ NextPrim = ReturnUnless(a)
        PROVE  FALSE
    BY <1>3, <1>7, <1>13, RanChmod, RanUnless
  <1>14. ASSUME NEW op \in BackendOps, NextPrim = Call(op)
        PROVE  FALSE
    BY <1>3, <1>7, <1>14, RanCall DEF Called
  <1>15. QED BY <1>4, <1>8, <1>9, <1>10, <1>11, <1>12, <1>13, <1>14 DEF Kinded

\* Every step.
LEMMA QuiescedStep ==
  ASSUME SlotInv, [Next]_vars, NEW m \in Names,
         fs'[Staging(m)].data \in Contents, ~Exists(fs, Staging(m)), fs'[Snap(m)] = fs[Snap(m)]
  PROVE  ~pg
  <1>1. Typed /\ EngineOK /\ FsTyped /\ ctr \in BOOLEAN
    BY DEF SlotInv, Typed, WorldTyped
  <1>2. Staging(m) \in Paths /\ Staging(m) # Current BY PathTypes, PathKinds
  <1>3. fs'[Staging(m)] # fs[Staging(m)]
    BY OpsAssumption DEF Exists, Missing, Gone, Contents
  <1>4. fs' # EnsureLayout BY <1>1, <1>2, <1>3, LayoutFacts
  <1>5. ~Write BY <1>1, <1>2, <1>3, WriteFacts
  <1>6. ~Killed
    <2>1. SUFFICES ASSUME Killed PROVE FALSE
      OBVIOUS
    <2>2. fs' # fs BY <1>3
    <2>3. PICK p \in Artifacts : fs'[p].data = Torn /\ \A q \in Paths \ {p} : fs'[q] = fs[q]
      BY <1>1, <2>1, <2>2, KilledPaths
    <2>4. fs'[Staging(m)].data = Torn BY <1>2, <1>3, <2>3
    <2>5. QED BY <2>4, OpsAssumption DEF Torn, Contents
  <1>7. fs' # fs BY <1>3
  <1>8. ~Quiet /\ ~Ensures /\ ~Refuses /\ ~Start /\ ~Stop /\ ~Bootstrap
    BY <1>1, <1>4, <1>7, QuietFacts, EnsureFacts, BootFacts DEF Refuses, Start, Stop
  <1>9. \A n \in Names, force \in BOOLEAN : ~Snapshot(n, force) /\ ~Restore(n, force)
    BY <1>4, <1>7 DEF Snapshot, Restore
  <1>10. RunPrim BY <1>5, <1>6, <1>8, <1>9, NextCases
  <1>11. QED BY <1>10, StagedRuns

\* A snapshot is only ever copied while PostgreSQL is stopped, also when the
\* daemon was killed and the step runs again.
THEOREM CopiedAtRest == Spec => CopiedQuiesced
  <1>1. SlotInv /\ [Next]_vars =>
          [\A n \in Names :
             /\ fs'[Staging(n)].data \in Contents /\ ~Exists(fs, Staging(n))
             /\ fs'[Snap(n)] = fs[Snap(n)]
             => ~pg]_vars
    BY QuiescedStep
  <1>2. QED BY <1>1, SlotSafe, PTL DEF Spec, CopiedQuiesced

-----------------------------------------------------------------------------
(* The record goes once PostgreSQL is up again *)

\* An ensure that did not fail has PostgreSQL up when the record goes.
ReadyInv == pc = "clear" /\ marred = {} /\ EnsureOp(task) # "none" => pg

\* An ensure that returned nil left PostgreSQL up.
LEMMA EnsuredUp ==
  ASSUME Typed, Ensures, pc' = "clear", marred' = {}, EnsureOp(task) # "none"
  PROVE  pg' /\ task' = task
  <1>1. PICK nil \in BOOLEAN :
              /\ RunEnsures(~nil)
              /\ marred' = marred \cup (IF nil \/ phase = "kept" THEN {} ELSE {"ensure"})
              /\ Called(EnsureOp(task), nil)
    BY EnsureFacts DEF Typed, WorldTyped
  <1>2. phase # "kept" /\ task' = task
    BY <1>1 DEF RunEnsures, Return, AfterReturn, Typed, EngineOK, EngineTyped
  <1>3. nil BY <1>1, <1>2
  <1>4. BackendCall(EnsureOp(task)).nil /\ (pg' = BackendCall(EnsureOp(task)).pg)
    BY <1>1, <1>3 DEF Called
  <1>5. EnsureOp(task) \in {"EnsurePGRunning", "StartContainerAndWait"}
    BY DEF EnsureOp
  <1>6. QED BY <1>2, <1>4, <1>5, CallFacts DEF Outcome

\* Every step keeps ReadyInv.
LEMMA ReadyNext ==
  ASSUME Typed, ReadyInv, [Next]_vars
  PROVE  ReadyInv'
  <1> SUFFICES ASSUME pc' = "clear" PROVE ReadyInv'
    BY DEF ReadyInv
  <1>1. CASE Ensures
    <2>1. EnsureOp(task)' = EnsureOp(task') BY DEF EnsureOp
    <2>2. task' = task BY <1>1 DEF Ensures, RunEnsures
    <2>3. QED BY <1>1, <2>1, <2>2, EnsuredUp DEF ReadyInv
  <1>2. CASE Write \/ UNCHANGED vars
    BY <1>2 DEF Write, engine, world, history, vars, ReadyInv, EnsureOp
  <1>3. CASE Quiet
    <2>1. CASE Starts \/ Requests
      BY <2>1 DEF Starts, Requests, Startup, StartupFails, Request, RequestFails, Recover, RecoverFails,
                  AfterReturn, Resolve, LoopTop
    <2>2. CASE StepEnds BY <2>2 DEF StepEnds, StepDone, UndoStep, AfterUndo
    <2>3. CASE Advances
      BY <2>3, AppliedFacts DEF Advances, AdvanceDone, AdvanceFails, ForwardFails, Resolve, LoopTop
    <2>4. CASE Clears
      BY <2>4 DEF Clears, ClearDone, ClearFails, Return, AfterReturn, Typed, EngineOK, EngineTyped
    <2>5. QED BY <1>2, <1>3, <2>1, <2>2, <2>3, <2>4 DEF Quiet
  <1>4. CASE RunPrim
    <2>1. pc \in {"do", "undo"} /\ (EngineSame \/ StepFails \/ UndoStep(TRUE))
      BY <1>4, RunPrimFacts DEF Typed, WorldTyped
    <2>2. QED
      BY <2>1 DEF EngineSame, StepFails, ForwardFails, Resolve, LoopTop, UndoStep, AfterUndo
  <1>5. CASE Refuses \/ Start \/ Stop \/ Killed \/ Bootstrap
    BY <1>5 DEF Bootstrap, Refuses, Refuse, Start, Stop, Killed, Crash, engine
  <1>6. ASSUME NEW n \in Names, NEW force \in BOOLEAN, Snapshot(n, force) \/ Restore(n, force)
        PROVE  FALSE
    <2>1. \E t, promised : BeginTask(t, promised) BY <1>6 DEF Snapshot, Restore
    <2>2. QED BY <2>1 DEF BeginTask, Begin, BeginFails, LoopTop
  <1>7. QED BY <1>1, <1>2, <1>3, <1>4, <1>5, <1>6, NextCases

\* Whoever removes a record leaves PostgreSQL up.
LEMMA ClearedReady ==
  ASSUME Typed, ReadyInv, [Next]_vars, marred = {}
  PROVE  Restarted
  <1> SUFFICES ASSUME record # NoRecord, record' = NoRecord, EnsureOp(task) # "none" PROVE pg
    BY DEF Restarted
  <1>1. pc = "advance" => at \in Nat BY AppliedFacts
  <1>2. CASE Clears BY <1>2 DEF Clears, ClearDone, ClearFails, ReadyInv
  <1>3. ~Starts /\ ~Requests
    BY DEF Starts, Requests, Startup, StartupFails, Request, RequestFails, Recover, RecoverFails
  <1>4. ~StepEnds /\ ~Ensures /\ ~Refuses /\ ~Start /\ ~Stop /\ ~Killed /\ ~Write /\ ~UNCHANGED vars /\ ~RunPrim
        /\ ~Bootstrap
    BY DEF Bootstrap, StepEnds, StepDone, UndoStep, Ensures, RunEnsures, Refuses, Refuse, Start, Stop, Killed, Crash,
           Write, vars, engine, RunPrim, StepFails
  <1>5. ~Advances BY <1>1 DEF Advances, AdvanceDone, AdvanceFails, NoRecord
  <1>6. ASSUME NEW n \in Names, NEW force \in BOOLEAN, Snapshot(n, force) \/ Restore(n, force)
        PROVE  FALSE
    <2>1. \E t, promised : BeginTask(t, promised) BY <1>6 DEF Snapshot, Restore
    <2>2. pc = "begin" => record = NoRecord
      BY DEF Typed, EngineOK, EngineInv, Opened
    <2>3. QED BY <2>1, <2>2 DEF BeginTask, Begin, BeginFails
  <1>7. QED BY <1>2, <1>3, <1>4, <1>5, <1>6, NextCases DEF Quiet

\* When the record of a mutation goes, PostgreSQL is up again, but for a restore
\* of a slot that was down before it; unless an ensure failed, or one of the other
\* events the engine does not withstand happened.
THEOREM ClearedIsUp == Spec => RunningWhenCleared
  <1>1. Init => ReadyInv BY DEF Init, EngineInit, ReadyInv
  <1>2. Typed /\ ReadyInv /\ [Next]_vars => [marred = {} => Restarted]_vars
    BY ClearedReady
  <1>3. Typed /\ ReadyInv /\ [Next]_vars => ReadyInv' BY ReadyNext
  <1>4. QED BY <1>1, <1>2, <1>3, AlwaysTyped, PTL DEF Spec, RunningWhenCleared

-----------------------------------------------------------------------------
(* What can be put back.  Old(f, t) is the slot before the mutation t, as the *)
(* undos of t would find it in f.                                             *)

OldSnap(f, t, m) ==
  IF t.kind = "snapshot"
    THEN IF m # t.name THEN f[Snap(m)]
         ELSE IF ~t.replaced THEN Missing
         ELSE IF Exists(f, Replaced(m)) THEN f[Replaced(m)] ELSE f[Snap(m)]
    ELSE IF m \in t.after /\ Exists(f, Pruned(m)) THEN f[Pruned(m)] ELSE f[Snap(m)]
OldCurrent(f, t) ==
  IF t.kind = "restore" /\ Exists(f, OldDir) THEN f[OldDir].data ELSE f[Current].data
Old(f, t) == Show(OldCurrent(f, t), [m \in Names |-> OldSnap(f, t, m)])

\* The transaction directories t makes, and that there are no others.
Own(t) ==
  IF t.kind = "snapshot"
    THEN {Staging(t.name)} \cup (IF t.replaced THEN {Replaced(t.name)} ELSE {})
    ELSE {NewDir, OldDir, PruneDir} \cup {Pruned(m) : m \in t.after}
NoOthers(f, t) == \A p \in Artifacts \ Own(t) : ~Exists(f, p)

\* Steps beyond k have left nothing.
SnapshotBelow(f, t, k) ==
  LET n == t.name IN
  /\ k < Installs(t) => ~(Exists(f, Snap(n)) /\ (t.replaced => Exists(f, Replaced(n))))
  /\ k < 2 => ~Exists(f, Replaced(n))
  /\ k < 1 => ~Exists(f, Staging(n))
RestoreBelow(f, t, k) ==
  /\ k < 4 => ~Exists(f, PruneDir) /\ \A m \in t.after : ~Exists(f, Pruned(m))
  /\ k < 0 => ~Exists(f, NewDir)

\* The replaced snapshot is where the undo of step k looks for it.
Whole(f, t, k) ==
  LET n == t.name IN
  t.replaced =>
    /\ k = 3 => Exists(f, Replaced(n)) /\ (Exists(f, Snap(n)) <=> ~Exists(f, Staging(n)))
    /\ k = 2 => Exists(f, Snap(n)) \/ Exists(f, Replaced(n))
    /\ k < 2 => Exists(f, Snap(n))

\* A mutation that may still be undone, and how far a rollback has come: what
\* it has undone is beyond Undone.
Soft == marred \subseteq {"undo", "ensure", "layout"}
Undoable == Soft /\ Opened /\ record < Commit(task)
Undone == IF pc = "undo" /\ sub = Len(Program) THEN at - 1 ELSE at

\* Both ends of the installation are not there at once when nothing is replaced.
OneEnd(f, t) == ~t.replaced => ~(Exists(f, Snap(t.name)) /\ Exists(f, Staging(t.name)))

\* What the undos of a snapshot need: the replaced one is where the next undo
\* looks for it, and nothing is left of the steps not begun.
SnapshotBack ==
  /\ before = Old(fs, task) /\ NoOthers(fs, task) /\ ~swapped
  /\ Exists(fs, Current) /\ OneEnd(fs, task)
  /\ SnapshotBelow(fs, task, record)
  /\ phase = "rollback" => SnapshotBelow(fs, task, Undone) /\ Whole(fs, task, Undone)
  /\ ~undone => Whole(fs, task, record)
  /\ undone /\ task.replaced => phase = "rollback"

\* The live data are aside, with nothing but the restored data or an empty
\* directory in their place, or the restored data are not live.
Aside(f, s) ==
  IF Exists(f, OldDir)
    THEN (s => Exists(f, Current)) /\ (Exists(f, Current) => s \/ f[Current].data = Empty)
    ELSE Exists(f, Current) /\ ~s
\* Each snapshot to discard is in one place.
Apart(f, t) ==
  \A m \in t.after : /\ ~(Exists(f, Snap(m)) <=> Exists(f, Pruned(m)))
                     /\ Exists(f, Pruned(m)) => Exists(f, PruneDir)

\* What the undos of a restore need: the live data are in one place, every
\* snapshot to discard is, and nothing is left of the steps not begun.
RestoreBack ==
  /\ before = Old(fs, task) /\ NoOthers(fs, task)
  /\ Aside(fs, swapped) /\ Apart(fs, task)
  /\ RestoreBelow(fs, task, record)
  /\ record < 3 => ~Exists(fs, OldDir)
  /\ phase = "rollback" => /\ RestoreBelow(fs, task, Undone)
                           /\ Undone < 3 => ~Exists(fs, OldDir) \/ "undo" \in marred
  /\ pc = "do" /\ at = 4 /\ sub >= 1 => Exists(fs, PruneDir)
  /\ pc = "undo" /\ at = 3 /\ sub \in {1, 2} => Exists(fs, OldDir)
  /\ pc = "undo" /\ at = 4 => \A i \in 1..(sub - 1) :
       i <= Len(Pruning) => ~Exists(fs, Pruned(Pruning[i]))

\* The slot before the mutation is there, where its undos look for it.
UndoableInv ==
  Undoable => /\ task.kind = "snapshot" => SnapshotBack
              /\ task.kind = "restore" => RestoreBack

\* The last step of a durable mutation is done.
Cleaned ==
  \/ record = Count(task)
  \/ phase = "rollforward" /\ at = Count(task)
  \/ /\ phase \in {"run", "rollforward"} /\ at = Count(task) - 1
     /\ pc = "advance" \/ (pc = "do" /\ sub = Len(Program))
NoArtifacts(f) == \A p \in Artifacts : ~Exists(f, p)

\* A durable mutation leaves no more than its own directories, and none in the end.
CleanInv ==
  Soft /\ Opened /\ record >= Commit(task) =>
    /\ NoOthers(fs, task) /\ Exists(fs, Current)
    /\ task.kind = "snapshot" => ~Exists(fs, Staging(task.name))
    /\ task.kind = "restore" => ~Exists(fs, NewDir)
    /\ Cleaned => NoArtifacts(fs)
    /\ task.kind = "restore" /\ pc = "do" /\ sub >= 1 => ~Exists(fs, OldDir)

\* With no mutation open the slot is as before the last one or as it promised;
\* after an undo that failed, the live data may still be aside.
ClosedInv ==
  ~Opened =>
    /\ Soft => \/ Exists(fs, Current) /\ View(fs) \in {before, after}
               \/ Exists(fs, OldDir) /\ before = Show(fs[OldDir].data, Snaps(fs))
    /\ marred \subseteq {"ensure"} =>
         Exists(fs, Current) /\ View(fs) \in {before, after} /\ NoArtifacts(fs)

-----------------------------------------------------------------------------
(* Where the engine goes while a mutation may still be undone *)

\* A step of the engine that leaves the slot alone.
Turned ==
  \/ UNCHANGED <<record, phase, pc, at, sub>>
  \/ \* a Do or an Advance returned, or the call did
     /\ record' = record /\ phase' # "rollback" /\ pc' \notin {"do", "undo"}
     /\ undone /\ task.kind = "snapshot" /\ task.replaced => phase # "rollback"
  \/ \* the next step
     /\ phase = "run" /\ pc = "advance" /\ at = record /\ record' = at + 1 /\ record' < Commit(task)
     /\ phase' = "run" /\ pc' = "do" /\ at' = at + 1 /\ sub' = 0
  \/ \* a recovery
     /\ phase = "none" /\ record' = record /\ phase' = "rollback" /\ pc' = "undo" /\ at' = record
     /\ sub' = 0 /\ at' >= 0
  \/ \* an Advance that failed
     /\ phase = "run" /\ pc = "advance" /\ at = record /\ record' \in {record, at + 1}
     /\ phase' = "rollback" /\ pc' = "undo" /\ at' = at + 1 /\ at' < Commit(task) /\ sub' = 0 /\ at' >= 0
  \/ \* the next undo
     /\ phase = "rollback" /\ pc = "undo" /\ sub = Len(Program) /\ at >= 0
     /\ record' = record /\ phase' = "rollback" /\ at' = at - 1 /\ sub' = 0
     /\ pc' = IF at > 0 THEN "undo" ELSE "ensure"
  \/ \* the ensures
     /\ phase = "rollback" /\ pc = "ensure" /\ record' = record /\ phase' = "rollback" /\ pc' = "clear"
     /\ at' = at

\* What the commit point and the record are.
LEMMA UndoableFacts ==
  ASSUME Typed
  PROVE  /\ task \in Tasks /\ Commit(task) \in {3, 4, 6} /\ Count(task) \in {3, 5, 7}
         /\ Commit(task) <= Count(task) /\ Count(task) <= Commit(task) + 1
         /\ record \in -1..7 /\ at \in -1..7 /\ sub \in Nat /\ (Opened <=> record >= 0)
         /\ Undoable => phase \notin {"rollforward", "kept"} /\ record >= 0
         /\ Undoable /\ pc \in {"do", "advance"} => phase = "run" /\ record = at
  <1>1. /\ task \in Tasks /\ Commit(task) \in {3, 4, 6} /\ Count(task) \in {3, 5, 7}
        /\ Commit(task) <= Count(task) /\ Count(task) <= Commit(task) + 1
    BY TaskFacts DEF Typed, EngineOK, EngineTyped
  <1>2. record \in -1..7 /\ at \in -1..7 /\ sub \in Nat
    BY <1>1 DEF Typed, EngineOK, EngineTyped
  <1>3. Opened <=> record >= 0 BY <1>2 DEF Opened, NoRecord
  <1>4. Undoable => phase \notin {"rollforward", "kept"}
    BY <1>1, <1>2 DEF Typed, EngineOK, EngineInv, Undoable, Soft
  <1>5. Undoable /\ pc \in {"do", "advance"} => phase = "run" /\ record = at
    BY <1>4 DEF Typed, EngineOK, EngineInv
  <1>6. QED BY <1>1, <1>2, <1>3, <1>4, <1>5 DEF Undoable

\* What the actions that only run the engine, the ensures and the service's own
\* start and stop leave alone.
LEMMA EngineMoves ==
  ASSUME Typed, Quiet \/ Ensures \/ Start \/ Stop
  PROVE  /\ UNCHANGED <<task, fs, before, after, swapped, undone>> /\ marred \subseteq marred'
         /\ record' = record \/ Advances \/ (Clears /\ record' = NoRecord)
         /\ Opened' => Opened
         /\ sub' \in {sub, 0} /\ (pc' = pc \/ sub' = 0)
  <1>1. sub \in Nat /\ (sub > 0 => pc \in {"do", "undo"}) /\ (pc = "advance" => Opened)
    BY DEF Typed, EngineOK, EngineInv
  <1>2. CASE Starts \/ Requests
    <2>1. pc \in {"down", "idle"} /\ sub' = sub
      BY <1>2 DEF Starts, Requests, Startup, StartupFails, Request, RequestFails, Still, Idles
    <2>2. sub' = 0 BY <1>1, <2>1
    <2>3. QED
      BY <1>2, <2>2 DEF Starts, Requests, Startup, StartupFails, Request, RequestFails, Recover, RecoverFails,
                        Still, Idles, world, Opened
  <1>3. CASE StepEnds
    BY <1>3 DEF StepEnds, StepDone, UndoStep, world, history, Opened
  <1>4. CASE Advances
    <2>1. pc = "advance" /\ sub' = sub /\ Opened
      BY <1>1, <1>4 DEF Advances, AdvanceDone, AdvanceFails, Idles
    <2>2. sub' = 0 BY <1>1, <2>1
    <2>3. QED
      BY <1>4, <2>1, <2>2 DEF Advances, AdvanceDone, AdvanceFails, Idles, world, Mars
  <1>5. CASE Clears
    <2>1. pc = "clear" /\ sub' = sub /\ record' \in {record, NoRecord}
      BY <1>5 DEF Clears, ClearDone, ClearFails, Idles
    <2>2. sub' = 0 BY <1>1, <2>1
    <2>3. QED
      BY <1>5, <2>1, <2>2 DEF Clears, ClearDone, ClearFails, Idles, world, Mars, Opened
  <1>6. CASE UNCHANGED vars BY <1>6 DEF vars, engine, world, history, Opened
  <1>7. CASE Ensures
    <2>1. pc = "ensure" /\ sub' = sub BY <1>7 DEF Ensures
    <2>2. sub' = 0 BY <1>1, <2>1
    <2>3. QED
      BY <1>7, <2>2, EnsureFacts DEF Ensures, RunEnsures, Typed, WorldTyped, Opened
  <1>8. CASE Start \/ Stop BY <1>8 DEF Start, Stop, engine, history, Opened
  <1>9. QED BY <1>2, <1>3, <1>4, <1>5, <1>6, <1>7, <1>8 DEF Quiet

\* A step that only runs the engine is one of Turned.
LEMMA QuietTurns ==
  ASSUME Typed, Quiet \/ Ensures, Undoable'
  PROVE  /\ Undoable /\ Turned /\ marred \subseteq marred'
         /\ UNCHANGED <<task, fs, before, swapped, undone>>
  <1>1. /\ UNCHANGED <<fs, before, swapped, undone>>
        /\ task' = task /\ marred \subseteq marred'
        /\ record' # NoRecord => record # NoRecord
    BY EngineMoves DEF Opened
  <1>2. Commit(task)' = Commit(task) /\ Count(task)' = Count(task)
    BY <1>1, CountSame
  <1>3. /\ marred \subseteq {"undo", "ensure", "layout"} /\ marred' \subseteq {"undo", "ensure", "layout"}
        /\ record # NoRecord /\ record' # NoRecord /\ record' < Commit(task)
    BY <1>1, <1>2 DEF Undoable, Soft, Opened
  <1>4. /\ Commit(task) \in {3, 4, 6} /\ Count(task) \in {3, 5, 7} /\ Commit(task) <= Count(task)
        /\ record \in 0..7 /\ at \in -1..7 /\ sub \in Nat
    BY <1>3, UndoableFacts DEF Opened, NoRecord
  <1>5. CASE Starts \/ Requests
    <2>1. PICK who \in {"startup", "request"} : Recover(who) \/ RecoverFails(who)
      BY <1>5 DEF Starts, Requests, Startup, StartupFails, Request, RequestFails
    <2>2. pc \in {"down", "idle"} /\ sub' = sub
      BY <1>5 DEF Starts, Requests, Startup, StartupFails, Request, RequestFails, Still, Idles
    <2>3. phase = "none" /\ sub = 0 BY <2>2, <1>4 DEF Typed, EngineOK, EngineInv
    <2>4. CASE Recover(who)
      <3>1. task \in Tasks /\ record \in {NoRecord} \cup Nat
        BY <1>4, UndoableFacts
      <3>2. record' = record /\ Resolved(record)
        BY <1>3, <2>4, <3>1, RecoverFacts
      <3>3. phase' = "rollback" /\ pc' = "undo" /\ at' = record
        BY <1>2, <1>3, <1>4, <3>2 DEF Resolved
      <3>4. QED
        BY <1>1, <1>2, <1>3, <1>4, <2>2, <2>3, <3>2, <3>3 DEF Turned, Undoable, Soft, Opened
    <2>5. CASE RecoverFails(who)
      <3>1. record' = record /\ phase' = phase /\ pc' \in {"idle", "down", "begin"}
        BY <2>5 DEF RecoverFails, AfterReturn
      <3>2. QED
        BY <1>1, <1>2, <1>3, <1>4, <2>2, <2>3, <3>1 DEF Turned, Undoable, Soft, Opened
    <2>6. QED BY <1>1, <2>1, <2>4, <2>5
  <1>6. CASE StepEnds
    <2>1. record' = record /\ phase' = phase /\ sub' = 0 /\ sub = Len(Program)
      BY <1>6 DEF StepEnds, StepDone, UndoStep
    <2>2. CASE pc = "do"
      <3>1. pc' = "advance" /\ phase # "rollback"
        BY <1>6, <2>2 DEF StepEnds, StepDone, Typed, EngineOK, EngineInv
      <3>2. QED BY <1>1, <1>2, <1>3, <2>1, <3>1 DEF Turned, Undoable, Soft, Opened
    <2>3. CASE pc = "undo"
      <3>1. at' = at - 1 /\ pc' = (IF at > 0 THEN "undo" ELSE "ensure") /\ phase = "rollback" /\ at >= 0
        BY <1>6, <2>3 DEF StepEnds, UndoStep, AfterUndo, Typed, EngineOK, EngineInv
      <3>2. QED BY <1>1, <1>2, <1>3, <2>1, <2>3, <3>1 DEF Turned, Undoable, Soft, Opened
    <2>4. QED BY <1>6, <2>2, <2>3 DEF StepEnds
  <1>7. CASE Advances
    <2>1. pc = "advance" /\ sub' = sub /\ sub = 0 /\ record' \in {record, at + 1}
      BY <1>4, <1>7 DEF Advances, AdvanceDone, AdvanceFails, Idles, Typed, EngineOK, EngineInv
    <2>2. phase = "run" /\ record = at
      BY <1>3, <1>4, <2>1 DEF Typed, EngineOK, EngineInv
    <2>3. CASE AdvanceDone
      <3>1. /\ record' = at + 1 /\ at' = at + 1 /\ pc' = Top(at + 1)
            /\ phase' = (IF at + 1 = Count(task) THEN "rollforward" ELSE phase)
        BY <2>3, AdvanceFacts, UndoableFacts
      <3>2. QED
        BY <1>1, <1>2, <1>3, <1>4, <2>1, <2>2, <3>1 DEF Turned, Undoable, Soft, Opened, Top
    <2>4. CASE AdvanceFails /\ Mars(IF record' < Commit(task) /\ at + 1 >= Commit(task) THEN {"advance"} ELSE {})
      <3>1. Resolved(at + 1)
        BY <1>4, <2>2, <2>4, ForwardFailsFacts, UndoableFacts DEF AdvanceFails
      <3>2. at + 1 < Commit(task) BY <1>3, <1>4, <2>4 DEF Mars
      <3>3. QED
        BY <1>1, <1>2, <1>3, <1>4, <2>1, <2>2, <3>1, <3>2 DEF Turned, Undoable, Soft, Opened, Resolved
    <2>5. QED BY <1>7, <2>3, <2>4 DEF Advances
  <1>8. CASE Clears
    <2>1. record' = record /\ Return(TRUE) /\ Mars(Again) /\ pc = "clear"
      BY <1>3, <1>8 DEF Clears, ClearDone, ClearFails
    <2>5. caller \in {"startup", "request", "run"}
      BY DEF Typed, EngineOK, EngineTyped
    <2>2. phase' = "none" /\ pc' \in {"idle", "down", "begin"}
      BY <2>1, <2>5 DEF Return, AfterReturn
    <2>3. ~(undone /\ task.kind = "snapshot" /\ task.replaced)
      BY <1>3, <2>1 DEF Mars, Again
    <2>4. QED BY <1>1, <1>2, <1>3, <2>1, <2>2, <2>3 DEF Turned, Undoable, Soft, Opened
  <1>9. CASE UNCHANGED vars
    <2>1. UNCHANGED <<record, phase, pc, at, sub>> BY <1>9 DEF vars, engine
    <2>2. QED BY <1>1, <1>2, <1>3, <2>1 DEF Turned, Undoable, Soft, Opened
  <1>10. CASE Ensures
    <2>1. PICK nil \in BOOLEAN : RunEnsures(~nil)
      BY <1>10, EnsureFacts DEF Typed, WorldTyped
    <2>2. pc = "ensure" /\ record' = record BY <2>1 DEF RunEnsures
    <2>3. Undoable BY <1>1, <1>2, <1>3, <2>2 DEF Undoable, Soft, Opened
    <2>4. phase = "rollback"
      BY <2>2, <2>3, UndoableFacts DEF Typed, EngineOK, EngineInv
    <2>5. pc' = "clear" /\ phase' = phase /\ at' = at
      BY <2>1, <2>4 DEF RunEnsures
    <2>6. QED BY <1>1, <2>2, <2>3, <2>4, <2>5 DEF Turned
  <1>11. QED BY <1>5, <1>6, <1>7, <1>8, <1>9, <1>10 DEF Quiet

-----------------------------------------------------------------------------
(* What the undos look for *)

\* Old depends on the live content and the snapshots it looks up, and on these
\* only through the paths of the task.
LEMMA OldSame ==
  ASSUME NEW f, NEW g, NEW t, OldCurrent(f, t) = OldCurrent(g, t),
         \A m \in Names : OldSnap(f, t, m) = OldSnap(g, t, m)
  PROVE  Old(f, t) = Old(g, t)
  <1> DEFINE s == [m \in Names |-> OldSnap(f, t, m)]
             r == [m \in Names |-> OldSnap(g, t, m)]
  <1>1. \A m \in Names : s[m] = r[m] OBVIOUS
  <1>2. Show(OldCurrent(f, t), s) = Show(OldCurrent(f, t), r)
    <2> HIDE DEF s, r
    <2>1. QED BY <1>1, ShowSame
  <1>3. QED BY <1>2 DEF Old

LEMMA SnapshotOld ==
  ASSUME NEW f, NEW g, NEW t \in SnapshotTasks, g[Current].data = f[Current].data,
         \A m \in Names \ {t.name} : g[Snap(m)] = f[Snap(m)],
         t.replaced => (IF Exists(g, Replaced(t.name)) THEN g[Replaced(t.name)] ELSE g[Snap(t.name)])
                         = (IF Exists(f, Replaced(t.name)) THEN f[Replaced(t.name)] ELSE f[Snap(t.name)])
  PROVE  Old(g, t) = Old(f, t)
  <1>1. t.kind = "snapshot" BY DEF SnapshotTasks
  <1>2. OldCurrent(g, t) = OldCurrent(f, t) BY <1>1 DEF OldCurrent
  <1>3. ASSUME NEW m \in Names
        PROVE  OldSnap(g, t, m) = OldSnap(f, t, m)
    BY <1>1 DEF OldSnap
  <1>4. QED BY <1>2, <1>3, OldSame

LEMMA RestoreOld ==
  ASSUME NEW f, NEW g, NEW t \in RestoreTasks,
         (IF Exists(g, OldDir) THEN g[OldDir].data ELSE g[Current].data)
           = (IF Exists(f, OldDir) THEN f[OldDir].data ELSE f[Current].data),
         \A m \in Names \ t.after : g[Snap(m)] = f[Snap(m)],
         \A m \in t.after : (IF Exists(g, Pruned(m)) THEN g[Pruned(m)] ELSE g[Snap(m)])
                              = (IF Exists(f, Pruned(m)) THEN f[Pruned(m)] ELSE f[Snap(m)])
  PROVE  Old(g, t) = Old(f, t)
  <1>1. t.kind = "restore" /\ t.kind # "snapshot" BY DEF RestoreTasks
  <1>2. OldCurrent(g, t) = OldCurrent(f, t) BY <1>1 DEF OldCurrent
  <1>3. ASSUME NEW m \in Names
        PROVE  OldSnap(g, t, m) = OldSnap(f, t, m)
    <2>1. CASE m \in t.after BY <1>1, <2>1 DEF OldSnap
    <2>2. CASE m \notin t.after BY <1>1, <2>2 DEF OldSnap
    <2>3. QED BY <2>1, <2>2
  <1>4. QED BY <1>2, <1>3, OldSame

\* A step that makes none of the other directories.
LEMMA OthersSame ==
  ASSUME NEW f, NEW g, NEW t, NoOthers(f, t),
         \A p \in Artifacts \ Own(t) : g[p] = f[p]
  PROVE  NoOthers(g, t)
  BY DEF NoOthers, Exists

\* The directories of a task, by its kind.
LEMMA OwnFacts ==
  ASSUME NEW t \in Tasks
  PROVE  /\ t.kind = "snapshot" => Staging(t.name) \in Own(t) /\ (t.replaced => Replaced(t.name) \in Own(t))
         /\ t.kind = "restore" => /\ NewDir \in Own(t) /\ OldDir \in Own(t) /\ PruneDir \in Own(t)
                                  /\ \A m \in t.after : Pruned(m) \in Own(t)
         /\ t.kind = "snapshot" => \A p \in Artifacts \ Own(t) :
              p # Staging(t.name) /\ (t.replaced => p # Replaced(t.name))
         /\ t.kind = "restore" => \A p \in Artifacts \ Own(t) :
              p # NewDir /\ p # OldDir /\ p # PruneDir /\ \A m \in t.after : p # Pruned(m)
  <1>1. t.kind \in {"snapshot", "restore"} BY TaskFacts
  <1>2. CASE t.kind = "snapshot" BY <1>2 DEF Own
  <1>3. CASE t.kind = "restore" BY <1>3 DEF Own
  <1>4. QED BY <1>1, <1>2, <1>3

\* How long an undo is.
LEMMA UndoLengths ==
  ASSUME NEW t \in Tasks, NEW i \in 0..(Commit(t) - 1)
  PROVE  /\ t.kind = "snapshot" => Len(UndoOf(t, i)) = IF i = 0 THEN 0 ELSE 1
         /\ t.kind = "restore" => /\ Len(UndoOf(t, i)) \in Nat
                                  /\ Len(UndoOf(t, i)) = 0 <=> i \in {1, 2}
  <1>1. CASE t.kind = "snapshot"
    <2>1. t \in SnapshotTasks /\ t.replaced \in BOOLEAN BY <1>1, TaskFacts
    <2>2. i = 0 \/ i = 1 \/ (t.replaced /\ i = 2) \/ i = Installs(t)
      BY <1>1, <2>1 DEF Commit, Installs
    <2>3. \A a : Len(<<a>>) = 1 /\ Len(<<>>) = 0 OBVIOUS
    <2>4. Len(UndoOf(t, i)) = IF i = 0 THEN 0 ELSE 1
      BY <2>1, <2>2, <2>3, SnapshotProgram DEF Installs
    <2>5. QED BY <1>1, <2>4
  <1>2. CASE t.kind = "restore"
    <2>1. t \in RestoreTasks /\ t.after \in SUBSET Names BY <1>2, TaskFacts
    <2>2. i = 0 \/ i = 1 \/ i = 2 \/ i = 3 \/ i = 4 \/ i = 5 BY <1>2 DEF Commit
    <2>3. Len(Listed(t.after)) \in Nat BY <2>1, ListedFacts
    <2>4. Len(UndoOf(t, 4)) = Len(Listed(t.after)) + 2
      BY <2>1, RestoreProgram, PruneProgram
    <2>5. /\ Len(UndoOf(t, 0)) = 1 /\ Len(UndoOf(t, 1)) = 0 /\ Len(UndoOf(t, 2)) = 0
          /\ Len(UndoOf(t, 3)) = 4 /\ Len(UndoOf(t, 5)) = 1
      BY <2>1, RestoreProgram
    <2>6. \A n \in Nat : n + 2 \in Nat /\ n + 2 # 0 OBVIOUS
    <2>7. CASE i = 4
      <3>1. Len(UndoOf(t, 4)) \in Nat /\ Len(UndoOf(t, 4)) # 0
        BY <2>3, <2>4, <2>6
      <3>2. QED BY <1>2, <2>7, <3>1
    <2>8. CASE i = 0 BY <1>2, <2>5, <2>8
    <2>9. CASE i = 1 BY <1>2, <2>5, <2>9
    <2>10. CASE i = 2 BY <1>2, <2>5, <2>10
    <2>11. CASE i = 3
      <3>1. Len(UndoOf(t, i)) = 4 /\ i \notin {1, 2} /\ t.kind # "snapshot"
        BY <1>2, <2>5, <2>11
      <3>2. QED BY <3>1
    <2>12. CASE i = 5 BY <1>2, <2>5, <2>12
    <2>13. QED BY <2>2, <2>7, <2>8, <2>9, <2>10, <2>11, <2>12
  <1>3. QED BY <1>1, <1>2, TaskFacts

\* Where a rollback stands when it comes to a new undo.
LEMMA UndoneNext ==
  ASSUME Typed, task' = task, sub' = 0, pc' = "undo" => at' \in 0..(Commit(task) - 1)
  PROVE  /\ pc' # "undo" => Undone' = at'
         /\ pc' = "undo" /\ task.kind = "snapshot" => Undone' = IF at' = 0 THEN -1 ELSE at'
         /\ pc' = "undo" /\ task.kind = "restore" => Undone' = IF at' \in {1, 2} THEN at' - 1 ELSE at'
  <1>1. task \in Tasks BY TaskFacts DEF Typed, EngineOK, EngineTyped
  <1>2. pc' = "undo" => Program' = UndoOf(task, at')
    BY DEF Program, StepNow, UndoOf
  <1>3. pc' = "undo" => Undone' = IF Len(UndoOf(task, at')) = 0 THEN at' - 1 ELSE at'
    BY <1>2 DEF Undone
  <1>4. pc' # "undo" => Undone' = at' BY DEF Undone
  <1>5. CASE pc' = "undo"
    <2>1. /\ task.kind = "snapshot" => (Len(UndoOf(task, at')) = 0 <=> at' = 0)
          /\ task.kind = "restore" => (Len(UndoOf(task, at')) = 0 <=> at' \in {1, 2})
      BY <1>1, <1>5, UndoLengths
    <2>2. QED BY <1>3, <1>5, <2>1
  <1>6. QED BY <1>4, <1>5

-----------------------------------------------------------------------------
(* The engine moves on *)

\* What holds of the steps beyond k holds of those beyond a later one.
LEMMA BelowFacts ==
  ASSUME NEW f, NEW t
  PROVE  /\ \A j, k \in Int : j <= k /\ SnapshotBelow(f, t, j) => SnapshotBelow(f, t, k)
         /\ \A j, k \in Int : j <= k /\ RestoreBelow(f, t, j) => RestoreBelow(f, t, k)
         /\ SnapshotBelow(f, t, 0) => SnapshotBelow(f, t, -1)
         /\ \A k \in {0, 1} : RestoreBelow(f, t, k + 1) => RestoreBelow(f, t, k)
         /\ Whole(f, t, 0) => Whole(f, t, -1) /\ Whole(f, t, 1)
  <1>1. Installs(t) \in {2, 3} BY DEF Installs
  <1>2. ASSUME NEW j \in Int, NEW k \in Int, j <= k
        PROVE  /\ k < 0 => j < 0
               /\ k < 1 => j < 1
               /\ k < 2 => j < 2
               /\ k < 4 => j < 4
               /\ k < Installs(t) => j < Installs(t)
    BY <1>1, <1>2
  <1>3. \A j, k \in Int : j <= k /\ SnapshotBelow(f, t, j) => SnapshotBelow(f, t, k)
    BY <1>2 DEF SnapshotBelow
  <1>4. \A j, k \in Int : j <= k /\ RestoreBelow(f, t, j) => RestoreBelow(f, t, k)
    BY <1>2 DEF RestoreBelow
  <1>5. SnapshotBelow(f, t, 0) => SnapshotBelow(f, t, -1)
    BY <1>1 DEF SnapshotBelow
  <1>6. \A k \in {0, 1} : RestoreBelow(f, t, k + 1) => RestoreBelow(f, t, k)
    BY DEF RestoreBelow
  <1>7. Whole(f, t, 0) => Whole(f, t, -1) /\ Whole(f, t, 1) BY DEF Whole
  <1>8. QED BY <1>3, <1>4, <1>5, <1>6, <1>7

\* How the record and the rollback move in a step of the engine alone.
LEMMA TurnedUndone ==
  ASSUME Typed, Undoable, Undoable', Turned, task' = task
  PROVE  /\ record \in Int /\ record >= 0 /\ record' \in Int /\ record <= record'
         /\ \/ record' = record
            \/ phase = "run" /\ pc = "advance" /\ at = record /\ record' = at + 1
         /\ phase' = "rollback" =>
              \/ phase = "rollback" /\ Undone' = Undone
              \/ phase = "rollback" /\ Undone \in Int /\ Undone' = Undone - 1
                 /\ (task.kind = "snapshot" => Undone = 0) /\ (task.kind = "restore" => Undone \in {1, 2})
              \/ \E k \in Int :
                   /\ \/ phase = "none" /\ k = record
                      \/ phase = "run" /\ pc = "advance" /\ at = record /\ k = record + 1 /\ k < Commit(task)
                   /\ \/ Undone' = k /\ (task.kind = "snapshot" => k # 0) /\ (task.kind = "restore" => k \notin {1, 2})
                      \/ Undone' = k - 1 /\ (task.kind = "snapshot" => k = 0) /\ (task.kind = "restore" => k \in {1, 2})
  <1>1. /\ Commit(task) \in {3, 4, 6} /\ record \in 0..7 /\ at \in -1..7 /\ sub \in Nat /\ task.kind \in {"snapshot", "restore"}
        /\ Commit(task)' = Commit(task) /\ record < Commit(task)
    BY UndoableFacts, CountSame, TaskFacts DEF Undoable, Opened
  <1>2. phase = "rollback" => pc \in {"undo", "ensure", "clear"} /\ at < Commit(task)
    BY DEF Typed, EngineOK, EngineInv
  <1>3. phase' = "rollback" /\ UNCHANGED <<record, phase, pc, at, sub>> => Undone' = Undone
    BY DEF Undone, Program, StepNow
  <1>4. CASE UNCHANGED <<record, phase, pc, at, sub>> BY <1>1, <1>3, <1>4
  <1>5. CASE /\ record' = record /\ phase' # "rollback" /\ pc' \notin {"do", "undo"}
             /\ undone /\ task.kind = "snapshot" /\ task.replaced => phase # "rollback"
    BY <1>1, <1>5
  <1>6. CASE /\ phase = "run" /\ pc = "advance" /\ at = record /\ record' = at + 1 /\ record' < Commit(task)
             /\ phase' = "run" /\ pc' = "do" /\ at' = at + 1 /\ sub' = 0
    BY <1>1, <1>6
  <1>7. CASE /\ phase = "none" /\ record' = record /\ phase' = "rollback" /\ pc' = "undo" /\ at' = record
             /\ sub' = 0 /\ at' >= 0
    BY <1>1, <1>7, UndoneNext
  <1>8. CASE /\ phase = "run" /\ pc = "advance" /\ at = record /\ record' \in {record, at + 1}
             /\ phase' = "rollback" /\ pc' = "undo" /\ at' = at + 1 /\ at' < Commit(task) /\ sub' = 0 /\ at' >= 0
    BY <1>1, <1>8, UndoneNext
  <1>9. CASE /\ phase = "rollback" /\ pc = "undo" /\ sub = Len(Program) /\ at >= 0
             /\ record' = record /\ phase' = "rollback" /\ at' = at - 1 /\ sub' = 0
             /\ pc' = IF at > 0 THEN "undo" ELSE "ensure"
    <2>1. Undone = at - 1 BY <1>9 DEF Undone
    <2>2. CASE at = 0
      <3>1. Undone' = at' BY <1>9, <2>2, UndoneNext
      <3>2. QED BY <1>1, <1>9, <2>1, <2>2, <3>1
    <2>3. CASE at > 0
      <3>1. /\ task.kind = "snapshot" => Undone' = IF at' = 0 THEN -1 ELSE at'
            /\ task.kind = "restore" => Undone' = IF at' \in {1, 2} THEN at' - 1 ELSE at'
        BY <1>1, <1>2, <1>9, <2>3, UndoneNext
      <3>2. QED BY <1>1, <1>9, <2>1, <2>3, <3>1
    <2>4. QED BY <1>1, <1>9, <2>2, <2>3
  <1>10. CASE /\ phase = "rollback" /\ pc = "ensure" /\ record' = record /\ phase' = "rollback" /\ pc' = "clear"
              /\ at' = at
    <2>1. Undone' = at' /\ Undone = at BY <1>10 DEF Undone
    <2>2. QED BY <1>1, <1>10, <2>1
  <1>11. QED BY <1>4, <1>5, <1>6, <1>7, <1>8, <1>9, <1>10 DEF Turned

\* While an engine that has just counted a step of a snapshot goes on.
LEMMA SnapshotReached ==
  ASSUME Typed, SnapshotForward, task.kind = "snapshot", SnapshotBack, Undoable,
         phase = "run", pc = "advance", record + 1 < Commit(task)
  PROVE  SnapshotBelow(fs, task, record + 1) /\ Whole(fs, task, record + 1)
  <1>1. record = at /\ record \in 0..7 /\ Commit(task) \in {3, 4, 6} /\ sub \in Nat
    BY UndoableFacts DEF Undoable, Opened
  <1>2. task.replaced \in BOOLEAN /\ (task.replaced => Commit(task) = 4 /\ Installs(task) = 3)
    BY UndoableFacts, TaskFacts DEF Commit, Installs
  <1>3. SnapshotBelow(fs, task, record + 1) BY <1>1, BelowFacts DEF SnapshotBack
  <1>4. task.replaced => Whole(fs, task, record) BY DEF SnapshotBack
  <1>5. CASE task.replaced /\ at = 2
    <2>1. Exists(fs, Staging(task.name)) /\ ~Exists(fs, Snap(task.name))
      BY <1>2, <1>5 DEF SnapshotForward, Past, Forward
    <2>2. Exists(fs, Replaced(task.name)) BY <1>1, <1>4, <1>5, <2>1 DEF Whole
    <2>3. QED BY <1>1, <1>3, <1>5, <2>1, <2>2 DEF Whole
  <1>6. CASE task.replaced /\ at # 2 BY <1>1, <1>2, <1>3, <1>4, <1>6 DEF Whole
  <1>7. CASE ~task.replaced BY <1>3, <1>7 DEF Whole
  <1>8. QED BY <1>5, <1>6, <1>7

\* Such a step keeps what can be put back.
LEMMA SnapshotQuiet ==
  ASSUME Typed, SnapshotForward, task.kind = "snapshot", Undoable, Undoable', SnapshotBack, Turned,
         UNCHANGED <<task, fs, before, swapped, undone>>
  PROVE  SnapshotBack'
  <1>1. Commit(task) \in {3, 4, 6} /\ record \in 0..7 /\ task.replaced \in BOOLEAN
        /\ Commit(task)' = Commit(task) /\ record' < Commit(task) /\ record < Commit(task)
    BY UndoableFacts, CountSame, TaskFacts DEF Undoable, Opened
  <1>2. undone /\ task.replaced => phase = "rollback" /\ phase' = "rollback"
    BY DEF SnapshotBack, Turned
  <1>3. /\ before' = Old(fs, task)' /\ NoOthers(fs, task)' /\ ~swapped'
        /\ Exists(fs, Current)' /\ OneEnd(fs, task)'
    BY DEF SnapshotBack
  <1>4. SnapshotBelow(fs, task, record')
    BY TurnedUndone, BelowFacts DEF SnapshotBack
  <1>5. ~undone => Whole(fs, task, record')
    <2>1. CASE record' = record BY <2>1 DEF SnapshotBack
    <2>2. CASE record' # record
      <3>1. phase = "run" /\ pc = "advance" /\ record' = record + 1
        BY <2>2, TurnedUndone
      <3>2. QED BY <1>1, <3>1, SnapshotReached
    <2>3. QED BY <2>1, <2>2
  <1>6. phase' = "rollback" => SnapshotBelow(fs, task, Undone') /\ Whole(fs, task, Undone')
    <2>1. CASE phase = "rollback" /\ Undone' = Undone BY <2>1 DEF SnapshotBack
    <2>2. CASE phase = "rollback" /\ Undone = 0 /\ Undone' = -1
      BY <2>2, BelowFacts DEF SnapshotBack
    <2>3. ASSUME NEW k \in Int, phase = "none" /\ k = record,
                 (Undone' = k /\ k # 0) \/ (Undone' = k - 1 /\ k = 0)
          PROVE  SnapshotBelow(fs, task, Undone') /\ Whole(fs, task, Undone')
      <3>1. SnapshotBelow(fs, task, k) /\ Whole(fs, task, k)
        BY <1>1, <1>2, <2>3 DEF SnapshotBack, Whole
      <3>2. QED BY <2>3, <3>1, BelowFacts
    <2>4. ASSUME NEW k \in Int, phase = "run" /\ pc = "advance" /\ at = record /\ k = record + 1 /\ k < Commit(task),
                 (Undone' = k /\ k # 0) \/ (Undone' = k - 1 /\ k = 0)
          PROVE  SnapshotBelow(fs, task, Undone') /\ Whole(fs, task, Undone')
      <3>1. SnapshotBelow(fs, task, k) /\ Whole(fs, task, k) /\ k # 0
        BY <1>1, <2>4, SnapshotReached
      <3>2. QED BY <2>4, <3>1
    <2>5. QED BY <2>1, <2>2, <2>3, <2>4, TurnedUndone
  <1>7. QED BY <1>2, <1>3, <1>4, <1>5, <1>6 DEF SnapshotBack

LEMMA RestoreQuiet ==
  ASSUME Typed, task.kind = "restore", Undoable, Undoable', RestoreBack, Turned, marred \subseteq marred',
         UNCHANGED <<task, fs, before, swapped, undone>>
  PROVE  RestoreBack'
  <1>1. Commit(task) = 6 /\ record \in 0..7 /\ Commit(task)' = Commit(task)
        /\ at \in -1..7 /\ sub \in Nat
    BY UndoableFacts, CountSame DEF Undoable, Opened, Commit
  <1>2. /\ before' = Old(fs, task)' /\ NoOthers(fs, task)'
        /\ Aside(fs, swapped)' /\ Apart(fs, task)'
    BY DEF RestoreBack
  <1>3. /\ RestoreBelow(fs, task, record')
        /\ record' < 3 => ~Exists(fs, OldDir)
    <2>1. record \in Int /\ record' \in Int /\ record <= record' BY TurnedUndone
    <2>2. RestoreBelow(fs, task, record) /\ (record < 3 => ~Exists(fs, OldDir))
      BY DEF RestoreBack
    <2>3. RestoreBelow(fs, task, record') BY <2>1, <2>2, BelowFacts
    <2>4. record' < 3 => record < 3 BY <2>1
    <2>5. QED BY <2>2, <2>3, <2>4
  <1>4. phase' = "rollback" => /\ RestoreBelow(fs, task, Undone')
                               /\ Undone' < 3 => ~Exists(fs, OldDir) \/ "undo" \in marred'
    <2>1. CASE phase = "rollback" /\ Undone' = Undone BY <2>1 DEF RestoreBack
    <2>2. CASE phase = "rollback" /\ Undone \in {1, 2} /\ Undone' = Undone - 1
      <3>1. Undone' \in {0, 1} /\ Undone = Undone' + 1 BY <2>2
      <3>2. RestoreBelow(fs, task, Undone')
        BY <2>2, <3>1, BelowFacts DEF RestoreBack
      <3>3. QED BY <2>2, <3>2 DEF RestoreBack
    <2>3. ASSUME NEW k \in Int, (phase = "none" /\ k = record) \/ (phase = "run" /\ k = record + 1),
                 (Undone' = k /\ k \notin {1, 2}) \/ (Undone' = k - 1 /\ k \in {1, 2})
          PROVE  /\ RestoreBelow(fs, task, Undone')
                 /\ Undone' < 3 => ~Exists(fs, OldDir) \/ "undo" \in marred'
      <3>1. RestoreBelow(fs, task, k) BY <1>1, <2>3, BelowFacts DEF RestoreBack
      <3>2. RestoreBelow(fs, task, Undone')
        <4>1. CASE Undone' = k BY <3>1, <4>1
        <4>2. CASE Undone' \in {0, 1} /\ k = Undone' + 1
          BY <3>1, <4>2, BelowFacts
        <4>3. QED BY <2>3, <4>1, <4>2
      <3>3. Undone' < 3 => record < 3 BY <1>1, <2>3
      <3>4. QED BY <3>2, <3>3 DEF RestoreBack
    <2>4. QED BY <2>1, <2>2, <2>3, TurnedUndone
  <1>5. /\ pc' = "do" => sub' = 0 \/ (sub' = sub /\ pc = "do" /\ at' = at)
        /\ pc' = "undo" => sub' = 0 \/ (sub' = sub /\ pc = "undo" /\ at' = at)
    BY DEF Turned
  <1>6. Pruning' = Pruning BY DEF Pruning
  <1>7. /\ pc' = "do" /\ at' = 4 /\ sub' >= 1 => Exists(fs, PruneDir)'
        /\ pc' = "undo" /\ at' = 3 /\ sub' \in {1, 2} => Exists(fs, OldDir)'
    BY <1>5 DEF RestoreBack
  <1>8. ASSUME pc' = "undo", at' = 4, NEW i \in 1..(sub' - 1), i <= Len(Pruning)
        PROVE  ~Exists(fs', Pruned(Pruning[i]))
    <2>1. sub' = sub /\ pc = "undo" /\ at = 4 BY <1>5, <1>8
    <2>2. QED BY <1>8, <2>1 DEF RestoreBack
  <1>9. QED BY <1>2, <1>3, <1>4, <1>6, <1>7, <1>8 DEF RestoreBack

-----------------------------------------------------------------------------
(* A call of a running Do or Undo while a mutation may still be undone *)

\* What the call of a running Do or Undo does to the engine.
Takes(nil) ==
  /\ Ran(NextPrim, nil) /\ sub < Len(Program) /\ UNCHANGED <<task, record, before>> /\ marred \subseteq marred'
  /\ swapped' = (Swaps(NewDir, Current) \/ (swapped /\ ~Swaps(Current, NewDir)))
  /\ undone' = (undone \/ pc = "undo")
  /\ \/ /\ pc = "do" /\ phase = "run" /\ record = at /\ nil
        /\ UNCHANGED <<pc, at, phase>> /\ sub' = sub + 1
     \/ /\ pc = "do" /\ phase = "run" /\ record = at /\ ~nil
        /\ phase' = "rollback" /\ pc' = "undo" /\ at' = at /\ sub' = 0
     \/ /\ pc = "undo" /\ phase = "rollback" /\ nil
        /\ UNCHANGED <<pc, at, phase>>
        /\ sub' = IF NextPrim.op = "unless" /\ ~Exists(fs, NextPrim.from) THEN Len(Program) ELSE sub + 1
     \/ /\ pc = "undo" /\ phase = "rollback" /\ ~nil /\ "undo" \in marred'
        /\ phase' = phase /\ at' = at - 1 /\ pc' = (IF at > 0 THEN "undo" ELSE "ensure") /\ sub' = 0

\* A step of a mutation that may still be undone is such a call.
LEMMA UndoableRuns ==
  ASSUME Typed, RunPrim, Undoable'
  PROVE  Undoable /\ \E nil \in BOOLEAN : Takes(nil)
  <1>1. /\ EngineOK /\ ctr \in BOOLEAN BY DEF Typed, WorldTyped
  <1>2. /\ pc \in {"do", "undo"} /\ sub < Len(Program) /\ before' = before
        /\ undone' = (undone \/ pc = "undo")
        /\ swapped' = (Swaps(NewDir, Current) \/ (swapped /\ ~Swaps(Current, NewDir)))
    BY <1>1, RunPrimFacts
  <1>3. PICK nil \in BOOLEAN :
          /\ Ran(NextPrim, nil)
          /\ nil => /\ sub' = IF NextPrim.op = "unless" /\ ~Exists(fs, NextPrim.from)
                                THEN Len(Program) ELSE sub + 1
                    /\ EngineSame /\ marred' = marred
          /\ ~nil => /\ sub' = 0
                     /\ pc = "do" => StepFails /\ marred' = marred
                     /\ pc = "undo" => UndoStep(TRUE) /\ marred' = marred \cup {"undo"}
    BY <1>1, RunPrimFacts
  <1>4. task' = task /\ record' = record /\ marred \subseteq marred'
    BY <1>2, <1>3 DEF EngineSame, StepFails, UndoStep
  <1>5. Commit(task)' = Commit(task) BY <1>4, CountSame
  <1>6. Undoable
    <2>1. marred' \subseteq {"undo", "ensure", "layout"} /\ record' # NoRecord /\ record' < Commit(task)'
      BY DEF Undoable, Soft, Opened
    <2>2. QED BY <1>4, <1>5, <2>1 DEF Undoable, Soft, Opened
  <1>7. /\ record \in 0..7 /\ at \in -1..7 /\ Commit(task) \in {3, 4, 6} /\ record < Commit(task) /\ task \in Tasks
        /\ pc = "do" => phase = "run" /\ record = at
    BY <1>6, UndoableFacts DEF Undoable
  <1>8. pc = "undo" => phase = "rollback" BY <1>1 DEF EngineOK, EngineInv
  <1>9. CASE nil /\ pc = "do"
    <2>1. NextPrim.op # "unless" BY <1>1, <1>2, <1>9, NotUnless
    <2>2. QED BY <1>2, <1>3, <1>4, <1>6, <1>7, <1>9, <2>1 DEF Takes, EngineSame
  <1>10. CASE ~nil /\ pc = "do"
    <2>1. ForwardFails(at) /\ at \in Nat BY <1>3, <1>7, <1>10 DEF StepFails
    <2>2. Resolved(at) BY <1>7, <1>10, <2>1, ForwardFailsFacts
    <2>3. phase' = "rollback" /\ at' = at /\ pc' = "undo"
      BY <1>7, <1>10, <2>2 DEF Resolved
    <2>4. QED BY <1>2, <1>3, <1>4, <1>6, <1>7, <1>10, <2>3 DEF Takes
  <1>11. CASE nil /\ pc = "undo"
    BY <1>2, <1>3, <1>4, <1>6, <1>8, <1>11 DEF Takes, EngineSame
  <1>12. CASE ~nil /\ pc = "undo"
    BY <1>2, <1>3, <1>4, <1>6, <1>8, <1>12 DEF Takes, UndoStep, AfterUndo
  <1>13. QED BY <1>2, <1>9, <1>10, <1>11, <1>12

\* Where it leaves the record and the rollback.
LEMMA TakesUndone ==
  ASSUME Typed, NEW nil \in BOOLEAN, Takes(nil), Undoable
  PROVE  /\ pc = "do" => at \in Nat /\ at = record /\ phase = "run"
         /\ pc = "undo" => Undone = at /\ phase = "rollback" /\ at \in Nat
         /\ pc = "do" /\ nil => phase' = "run" /\ pc' = "do" /\ at' = at
         /\ pc = "do" /\ ~nil => /\ phase' = "rollback" /\ pc' = "undo" /\ at' = at /\ sub' = 0
                                 /\ task.kind = "snapshot" => Undone' = IF at = 0 THEN -1 ELSE at
                                 /\ task.kind = "restore" => Undone' = IF at \in {1, 2} THEN at - 1 ELSE at
         /\ pc = "undo" /\ nil => /\ phase' = "rollback" /\ pc' = "undo" /\ at' = at
                                  /\ Undone' = IF sub' = Len(Program) THEN at - 1 ELSE at
         /\ pc = "undo" /\ ~nil =>
              /\ phase' = "rollback" /\ at' = at - 1 /\ sub' = 0 /\ "undo" \in marred'
              /\ task.kind = "snapshot" => Undone' = IF at = 1 THEN -1 ELSE at - 1
              /\ task.kind = "restore" => Undone' = IF at \in {2, 3} THEN at - 2 ELSE at - 1
  <1>1. /\ at \in -1..7 /\ Commit(task) \in {3, 4, 6} /\ record \in 0..7 /\ record < Commit(task)
        /\ Commit(task) = Commit(task)' /\ pc \in {"do", "undo"} /\ sub < Len(Program) /\ sub \in Nat
    BY UndoableFacts, CountSame DEF Undoable, Takes, Opened
  <1>2. pc = "undo" => at \in Nat /\ at < Commit(task)
    BY <1>1 DEF Typed, EngineOK, EngineInv
  <1>3. pc = "undo" => Undone = at BY <1>1 DEF Undone
  <1>4. CASE pc = "do" /\ nil BY <1>1, <1>4 DEF Takes
  <1>5. CASE pc = "do" /\ ~nil
    <2>1. record = at /\ phase = "run" /\ phase' = "rollback" /\ pc' = "undo" /\ at' = at /\ sub' = 0 /\ task' = task
      BY <1>5 DEF Takes
    <2>2. QED BY <1>1, <1>5, <2>1, UndoneNext
  <1>6. CASE pc = "undo" /\ nil
    <2>1. task' = task /\ UNCHANGED <<pc, at, phase>> /\ phase = "rollback"
      BY <1>6 DEF Takes
    <2>2. Program' = Program BY <2>1 DEF Program, StepNow
    <2>3. Undone' = IF sub' = Len(Program) THEN at - 1 ELSE at
      BY <1>6, <2>1, <2>2 DEF Undone
    <2>4. QED BY <1>2, <1>3, <1>6, <2>1, <2>3
  <1>7. CASE pc = "undo" /\ ~nil
    <2>1. /\ phase = "rollback" /\ phase' = phase /\ at' = at - 1 /\ sub' = 0 /\ task' = task /\ "undo" \in marred'
          /\ pc' = (IF at > 0 THEN "undo" ELSE "ensure")
      BY <1>7 DEF Takes
    <2>2. pc' = "undo" => at' \in 0..(Commit(task) - 1)
      BY <1>1, <1>2, <1>7, <2>1
    <2>3. at > 0 => /\ task.kind = "snapshot" => Undone' = IF at' = 0 THEN -1 ELSE at'
                    /\ task.kind = "restore" => Undone' = IF at' \in {1, 2} THEN at' - 1 ELSE at'
      BY <2>1, <2>2, UndoneNext
    <2>4. at = 0 => Undone' = at' BY <2>1, <2>2, UndoneNext
    <2>5. /\ task.kind = "snapshot" => Undone' = IF at = 1 THEN -1 ELSE at - 1
          /\ task.kind = "restore" => Undone' = IF at \in {2, 3} THEN at - 2 ELSE at - 1
      <3>1. CASE at = 0 BY <2>1, <2>4, <3>1
      <3>2. CASE at > 0 BY <1>2, <1>7, <2>1, <2>3, <3>2
      <3>3. QED BY <1>2, <1>7, <3>1, <3>2
    <2>6. QED BY <1>2, <1>3, <1>7, <2>1, <2>5
  <1>8. QED BY <1>1, <1>4, <1>5, <1>6, <1>7

-----------------------------------------------------------------------------
(* The steps of a snapshot, and what puts them back *)

\* A call that touches no more than the directories of the snapshot.
LEMMA SnapshotTouches ==
  ASSUME Typed, task \in SnapshotTasks, NoOthers(fs, task), Exists(fs, Current), NEW P \in SUBSET Paths, Keeps(P),
         P \subseteq {Snap(task.name), Staging(task.name)} \cup (IF task.replaced THEN {Replaced(task.name)} ELSE {}),
         task.replaced =>
           (IF Exists(fs', Replaced(task.name)) THEN fs'[Replaced(task.name)] ELSE fs'[Snap(task.name)])
             = (IF Exists(fs, Replaced(task.name)) THEN fs[Replaced(task.name)] ELSE fs[Snap(task.name)])
  PROVE  Old(fs', task) = Old(fs, task) /\ NoOthers(fs', task) /\ Exists(fs', Current)
  <1>1. task.name \in Names /\ task.kind = "snapshot" /\ task \in Tasks
    BY DEF SnapshotTasks, Tasks
  <1>2. fs'[Current] = fs[Current] BY <1>1, PathKinds, PathTypes DEF Keeps
  <1>3. \A m \in Names \ {task.name} : fs'[Snap(m)] = fs[Snap(m)]
    BY <1>1, PathKinds, PathTypes DEF Keeps
  <1>4. Old(fs', task) = Old(fs, task) BY <1>2, <1>3, SnapshotOld
  <1>5. ASSUME NEW p \in Artifacts \ Own(task)
        PROVE  fs'[p] = fs[p]
    <2>1. p \in Paths /\ p # Snap(task.name) BY <1>1, ArtifactFacts
    <2>2. p # Staging(task.name) /\ (task.replaced => p # Replaced(task.name))
      BY <1>1, <1>5, OwnFacts
    <2>3. p \notin P BY <2>1, <2>2
    <2>4. QED BY <2>1, <2>3 DEF Keeps
  <1>6. NoOthers(fs', task) BY <1>5, OthersSame
  <1>7. QED BY <1>2, <1>4, <1>6 DEF Exists

\* The arguments of a snapshot that runs or is undone.
SnapshotNow ==
  /\ task \in SnapshotTasks /\ task.name \in Names /\ task.replaced \in BOOLEAN /\ task \in Tasks
  /\ at \in 0..(Commit(task) - 1) /\ Commit(task) <= Count(task) /\ sub \in Nat /\ record \in 0..7 /\ FsTyped
  /\ Commit(task) = Installs(task) + 1 /\ Installs(task) = IF task.replaced THEN 3 ELSE 2
LEMMA SnapshotIs ==
  ASSUME Typed, task.kind = "snapshot", Undoable, pc \in {"do", "undo"}
  PROVE  SnapshotNow
  <1>1. task \in Tasks /\ task \in SnapshotTasks /\ task.name \in Names /\ task.replaced \in BOOLEAN
    BY TaskFacts DEF Typed, EngineOK, EngineTyped
  <1>2. /\ record \in 0..7 /\ at \in -1..7 /\ sub \in Nat /\ Commit(task) \in {3, 4, 6} /\ Commit(task) <= Count(task)
        /\ record < Commit(task)
    BY UndoableFacts DEF Undoable, Opened
  <1>3. at >= 0 /\ at < Commit(task)
    BY <1>2, UndoableFacts DEF Typed, EngineOK, EngineInv
  <1>4. Commit(task) = Installs(task) + 1 /\ Installs(task) = IF task.replaced THEN 3 ELSE 2
    BY DEF Commit, Installs
  <1>5. QED BY <1>1, <1>2, <1>3, <1>4 DEF SnapshotNow, Typed, WorldTyped

\* What a Do of a snapshot leaves can be put back.
SnapshotKept(k) ==
  /\ Old(fs', task) = Old(fs, task) /\ NoOthers(fs', task) /\ Exists(fs', Current) /\ OneEnd(fs', task)
  /\ SnapshotBelow(fs', task, k) /\ Whole(fs', task, k) /\ SnapshotBelow(fs', task, record)
LEMMA SnapshotDoing ==
  ASSUME Typed, task.kind = "snapshot", Undoable, SnapshotBack, NEW nil \in BOOLEAN, Takes(nil), pc = "do"
  PROVE  SnapshotKept(at)
  <1> DEFINE n == task.name
             S == Snap(n)
             G == Staging(n)
             R == Replaced(n)
  <1>1. SnapshotNow BY SnapshotIs
  <1>2. at = record /\ phase = "run" /\ Ran(NextPrim, nil) /\ sub < Len(Program)
    BY TakesUndone DEF Takes
  <1>3. /\ NoOthers(fs, task) /\ Exists(fs, Current) /\ OneEnd(fs, task)
        /\ SnapshotBelow(fs, task, at) /\ (task.replaced => Whole(fs, task, at))
    BY <1>1, <1>2 DEF SnapshotBack, SnapshotNow
  <1>4. Whole(fs, task, at) BY <1>3 DEF Whole
  <1>5. /\ S \in Paths /\ G \in Paths /\ R \in Paths /\ S # G /\ S # R /\ G # R
        /\ S # Current /\ G # Current /\ R # Current /\ G # PruneDir /\ R # PruneDir
    BY <1>1, PathKinds, PathTypes DEF SnapshotNow
  <1>6. SnapshotBelow(fs', task, at) <=> SnapshotBelow(fs', task, record)
    BY <1>2
  <1>7. ASSUME fs' = fs
        PROVE  SnapshotKept(at)
    BY <1>3, <1>4, <1>6, <1>7 DEF SnapshotKept
  <1>8. ASSUME Keeps({G}), at >= 1, at < Installs(task)
        PROVE  SnapshotKept(at)
    <2>1. fs'[S] = fs[S] /\ fs'[R] = fs[R] BY <1>5, <1>8 DEF Keeps
    <2>2. Old(fs', task) = Old(fs, task) /\ NoOthers(fs', task) /\ Exists(fs', Current)
      <3>1. {G} \in SUBSET Paths /\ {G} \subseteq {S, G} \cup (IF task.replaced THEN {R} ELSE {})
        BY <1>5
      <3>2. QED BY <1>1, <1>3, <1>8, <2>1, <3>1, SnapshotTouches DEF SnapshotNow, Exists
    <2>3. OneEnd(fs', task)
      BY <1>1, <1>3, <1>8, <2>1 DEF OneEnd, SnapshotBelow, Exists
    <2>4. SnapshotBelow(fs', task, at)
      BY <1>1, <1>3, <1>8, <2>1 DEF SnapshotBelow, Exists, SnapshotNow
    <2>5. Whole(fs', task, at)
      BY <1>1, <1>4, <1>8, <2>1 DEF Whole, Exists, SnapshotNow
    <2>6. QED BY <1>6, <2>2, <2>3, <2>4, <2>5 DEF SnapshotKept
  <1>9. CASE Is(0, 0, Call("StopPG"))
    <2>1. fs' = fs BY <1>2, <1>9, RanCall DEF Is, Called, BackendOps
    <2>2. QED BY <1>7, <2>1
  <1>10. CASE \/ Is(1, 0, RemoveAll(G)) \/ Is(1, 1, Prim("clone", Current, G)) \/ Is(1, 2, TouchNow(G))
    <2>1. Keeps({G}) /\ at = 1
      <3>1. at = 1 /\ FsTyped /\ Current \in Paths
        BY <1>1, <1>10, PathTypes DEF Is, SnapshotNow
      <3>2. CASE NextPrim = RemoveAll(G) BY <1>2, <1>5, <3>1, <3>2, RemoveFacts
      <3>3. CASE NextPrim = Prim("clone", Current, G)
        BY <1>2, <1>5, <3>1, <3>3, CloneFacts
      <3>4. CASE NextPrim = TouchNow(G) BY <1>2, <1>5, <3>1, <3>4, TouchFacts
      <3>5. QED BY <1>10, <3>2, <3>3, <3>4 DEF Is
    <2>2. 1 < Installs(task) BY <1>1 DEF SnapshotNow
    <2>3. QED BY <1>8, <2>1, <2>2
  <1>11. CASE task.replaced /\ Is(2, 0, Move(S, R))
    <2>1. ~(Exists(fs, S) <=> Exists(fs, R))
      BY <1>1, <1>3, <1>4, <1>11 DEF Is, Whole, SnapshotBelow, SnapshotNow
    <2>2. /\ nil => /\ fs'[S] = Missing /\ fs'[R] = (IF Exists(fs, S) THEN fs[S] ELSE fs[R]) /\ fs'[R] # Missing
                    /\ Keeps({S, R})
          /\ ~nil => (Exists(fs, S) <=> Exists(fs, R))
      <3>1. NextPrim = Move(S, R) /\ FsTyped /\ Ran(NextPrim, nil)
        BY <1>1, <1>2, <1>11 DEF Is, SnapshotNow
      <3>2. QED BY <1>5, <3>1, MoveFacts
    <2>3. /\ fs'[S] = Missing /\ fs'[R] = (IF Exists(fs, S) THEN fs[S] ELSE fs[R]) /\ fs'[R] # Missing
          /\ Keeps({S, R})
      BY <2>1, <2>2
    <2>4. Old(fs', task) = Old(fs, task) /\ NoOthers(fs', task) /\ Exists(fs', Current)
      <3>1. {S, R} \in SUBSET Paths /\ {S, R} \subseteq {S, G} \cup (IF task.replaced THEN {R} ELSE {})
        BY <1>5, <1>11
      <3>2. (IF Exists(fs', R) THEN fs'[R] ELSE fs'[S]) = (IF Exists(fs, R) THEN fs[R] ELSE fs[S])
        BY <2>1, <2>3 DEF Exists
      <3>3. QED BY <1>1, <1>3, <2>3, <3>1, <3>2, SnapshotTouches DEF SnapshotNow
    <2>5. OneEnd(fs', task) /\ SnapshotBelow(fs', task, at) /\ Whole(fs', task, at)
      BY <1>11, <2>3 DEF Is, OneEnd, SnapshotBelow, Whole, Exists
    <2>6. QED BY <1>6, <2>4, <2>5 DEF SnapshotKept
  <1>12. CASE Is(Installs(task), 0, Move(G, S))
    <2>1. CASE ~nil
      <3>1. fs' = fs
        BY <1>1, <1>2, <1>5, <1>12, <2>1, MoveFacts DEF Is, SnapshotNow
      <3>2. QED BY <1>7, <3>1
    <2>2. CASE nil
      <3>1. fs'[G] = Missing /\ fs'[S] # Missing /\ Keeps({G, S})
        BY <1>1, <1>2, <1>5, <1>12, <2>2, MoveFacts DEF Is, SnapshotNow
      <3>2. fs'[R] = fs[R] BY <1>5, <3>1 DEF Keeps
      <3>3. task.replaced => Exists(fs, R)
        BY <1>1, <1>4, <1>12 DEF Is, Whole, SnapshotNow
      <3>4. Old(fs', task) = Old(fs, task) /\ NoOthers(fs', task) /\ Exists(fs', Current)
        <4>1. {G, S} \in SUBSET Paths /\ {G, S} \subseteq {S, G} \cup (IF task.replaced THEN {R} ELSE {})
          BY <1>5
        <4>2. QED
          BY <1>1, <1>3, <3>1, <3>2, <3>3, <4>1, SnapshotTouches DEF SnapshotNow, Exists
      <3>5. OneEnd(fs', task) /\ Whole(fs', task, at)
        BY <1>1, <1>12, <3>1, <3>2, <3>3 DEF Is, OneEnd, Whole, Exists, SnapshotNow
      <3>6. SnapshotBelow(fs', task, at)
        BY <1>1, <1>12 DEF Is, SnapshotBelow, SnapshotNow
      <3>7. QED BY <1>6, <3>4, <3>5, <3>6 DEF SnapshotKept
    <2>3. QED BY <2>1, <2>2
  <1>13. at # 4 BY <1>1 DEF SnapshotNow
  <1>14. at \in 0..(Count(task) - 1) BY <1>1, TaskFacts DEF SnapshotNow
  <1>15. QED
    BY <1>1, <1>2, <1>9, <1>10, <1>11, <1>12, <1>13, <1>14, SnapshotDo DEF SnapshotNow, Is

\* An undo of a snapshot puts it back as far as it goes.
LEMMA SnapshotUndoing ==
  ASSUME Typed, task.kind = "snapshot", Undoable, SnapshotBack, NEW nil \in BOOLEAN, Takes(nil), pc = "undo"
  PROVE  SnapshotKept(at - 1) /\ sub = 0 /\ Len(Program) = 1 /\ NextPrim.op # "unless" /\ at >= 1
  <1> DEFINE n == task.name
             S == Snap(n)
             G == Staging(n)
             R == Replaced(n)
  <1>1. SnapshotNow BY SnapshotIs
  <1>2. phase = "rollback" /\ Undone = at /\ Ran(NextPrim, nil) /\ sub < Len(Program)
    BY TakesUndone DEF Takes
  <1>3. /\ NoOthers(fs, task) /\ Exists(fs, Current) /\ OneEnd(fs, task)
        /\ SnapshotBelow(fs, task, at) /\ Whole(fs, task, at) /\ SnapshotBelow(fs, task, record)
    BY <1>1, <1>2 DEF SnapshotBack, SnapshotNow
  <1>4. /\ S \in Paths /\ G \in Paths /\ R \in Paths /\ S # G /\ S # R /\ G # R
        /\ S # Current /\ G # Current /\ R # Current /\ G # PruneDir /\ R # PruneDir
    BY <1>1, PathKinds, PathTypes DEF SnapshotNow
  <1>5. at \in Nat /\ at < Commit(task) /\ FsTyped /\ Installs(task) = (IF task.replaced THEN 3 ELSE 2) /\ record \in 0..7
    BY <1>1 DEF SnapshotNow
  <1>6. /\ sub = 0 /\ Len(Program) = 1
        /\ \/ Is(1, 0, RemoveAll(G))
           \/ task.replaced /\ Is(2, 0, Move(R, S))
           \/ Is(Installs(task), 0, Move(S, G))
    BY <1>1, <1>2, SnapshotUndo DEF SnapshotNow
  <1>7. NextPrim.op # "unless" /\ at >= 1
    BY <1>5, <1>6 DEF Is, RemoveAll, Move, Prim
  <1>8. CASE Is(1, 0, RemoveAll(G))
    <2>1. fs'[G] = Missing /\ Keeps({G}) /\ at = 1
      BY <1>2, <1>4, <1>5, <1>8, RemoveFacts DEF Is
    <2>2. fs'[S] = fs[S] /\ fs'[R] = fs[R] BY <1>4, <2>1 DEF Keeps
    <2>3. Old(fs', task) = Old(fs, task) /\ NoOthers(fs', task) /\ Exists(fs', Current)
      <3>1. {G} \in SUBSET Paths /\ {G} \subseteq {S, G} \cup (IF task.replaced THEN {R} ELSE {})
        BY <1>4
      <3>2. QED BY <1>1, <1>3, <2>1, <2>2, <3>1, SnapshotTouches DEF SnapshotNow, Exists
    <2>4. OneEnd(fs', task) /\ SnapshotBelow(fs', task, record)
      BY <1>3, <2>1, <2>2 DEF OneEnd, SnapshotBelow, Exists
    <2>5. SnapshotBelow(fs', task, 0) /\ Whole(fs', task, 0)
      BY <1>3, <1>5, <2>1, <2>2 DEF SnapshotBelow, Whole, Exists
    <2>6. QED BY <1>6, <1>7, <2>1, <2>3, <2>4, <2>5 DEF SnapshotKept
  <1>9. CASE task.replaced /\ Is(2, 0, Move(R, S))
    <2>1. ~(Exists(fs, S) <=> Exists(fs, R)) /\ at = 2
      BY <1>3, <1>5, <1>9 DEF Is, Whole, SnapshotBelow
    <2>2. /\ nil => /\ fs'[R] = Missing /\ fs'[S] = (IF Exists(fs, R) THEN fs[R] ELSE fs[S]) /\ fs'[S] # Missing
                    /\ Keeps({R, S})
          /\ ~nil => (Exists(fs, R) <=> Exists(fs, S))
      BY <1>2, <1>4, <1>5, <1>9, MoveFacts DEF Is
    <2>3. /\ fs'[R] = Missing /\ fs'[S] = (IF Exists(fs, R) THEN fs[R] ELSE fs[S]) /\ fs'[S] # Missing
          /\ Keeps({R, S})
      BY <2>1, <2>2
    <2>4. fs'[G] = fs[G] BY <1>4, <2>3 DEF Keeps
    <2>5. Old(fs', task) = Old(fs, task) /\ NoOthers(fs', task) /\ Exists(fs', Current)
      <3>1. {R, S} \in SUBSET Paths /\ {R, S} \subseteq {S, G} \cup (IF task.replaced THEN {R} ELSE {})
        BY <1>4, <1>9
      <3>2. (IF Exists(fs', R) THEN fs'[R] ELSE fs'[S]) = (IF Exists(fs, R) THEN fs[R] ELSE fs[S])
        BY <2>1, <2>3 DEF Exists
      <3>3. QED BY <1>1, <1>3, <2>3, <3>1, <3>2, SnapshotTouches DEF SnapshotNow
    <2>6. OneEnd(fs', task) /\ SnapshotBelow(fs', task, record)
      BY <1>3, <1>9, <2>3, <2>4 DEF OneEnd, SnapshotBelow, Exists
    <2>7. SnapshotBelow(fs', task, 1) /\ Whole(fs', task, 1)
      BY <1>9, <2>3 DEF SnapshotBelow, Whole, Exists
    <2>8. QED BY <1>6, <1>7, <2>1, <2>5, <2>6, <2>7 DEF SnapshotKept
  <1>10. CASE Is(Installs(task), 0, Move(S, G))
    <2>1. /\ nil => /\ fs'[S] = Missing /\ fs'[G] # Missing /\ Keeps({S, G})
                    /\ fs'[G] = (IF Exists(fs, S) THEN fs[S] ELSE fs[G])
          /\ ~nil => fs' = fs /\ (Exists(fs, S) <=> Exists(fs, G))
      BY <1>2, <1>4, <1>5, <1>10, MoveFacts DEF Is
    <2>2. fs'[R] = fs[R] /\ fs'[Current] = fs[Current]
      BY <1>4, <2>1, PathTypes DEF Keeps
    <2>3. task.replaced => nil /\ Exists(fs, R)
      BY <1>3, <1>5, <1>10, <2>1 DEF Is, Whole
    <2>4. ~task.replaced => ~Exists(fs, R)
      <3>1. ~task.replaced => R \in Artifacts \ Own(task)
        BY <1>1, <1>4, ArtifactFacts DEF SnapshotNow, Own, SnapshotTasks
      <3>2. QED BY <1>3, <3>1 DEF NoOthers
    <2>5. ~Exists(fs', S) /\ at = Installs(task) /\ fs'[S] = Missing
      BY <1>1, <1>3, <1>10, <2>1, <2>3 DEF Is, OneEnd, Exists, SnapshotNow
    <2>6. Old(fs', task) = Old(fs, task) /\ NoOthers(fs', task) /\ Exists(fs', Current)
      <3>1. CASE nil
        <4>1. {S, G} \in SUBSET Paths /\ {S, G} \subseteq {S, G} \cup (IF task.replaced THEN {R} ELSE {})
          BY <1>4
        <4>2. QED
          BY <1>1, <1>3, <2>1, <2>2, <2>3, <3>1, <4>1, SnapshotTouches DEF SnapshotNow, Exists
      <3>2. CASE ~nil BY <1>3, <2>1, <3>2
      <3>3. QED BY <3>1, <3>2
    <2>7. OneEnd(fs', task) /\ SnapshotBelow(fs', task, Installs(task) - 1) /\ Whole(fs', task, Installs(task) - 1)
      BY <1>5, <2>2, <2>3, <2>4, <2>5 DEF OneEnd, SnapshotBelow, Whole, Exists
    <2>8. SnapshotBelow(fs', task, record)
      <3>1. record < 1 => ~Exists(fs', G)
        BY <1>3, <1>5, <2>1, <2>3 DEF SnapshotBelow, Exists
      <3>2. record < 2 => ~Exists(fs', R)
        BY <1>3, <2>2 DEF SnapshotBelow, Exists
      <3>3. QED BY <2>5, <3>1, <3>2 DEF SnapshotBelow
    <2>9. QED BY <1>6, <1>7, <2>5, <2>6, <2>7, <2>8 DEF SnapshotKept
  <1>11. QED BY <1>6, <1>8, <1>9, <1>10

\* A call of a snapshot keeps what can be put back.
LEMMA SnapshotRuns ==
  ASSUME Typed, task.kind = "snapshot", Undoable, SnapshotBack, NEW nil \in BOOLEAN, Takes(nil)
  PROVE  SnapshotBack'
  <1>1. /\ task' = task /\ record' = record /\ before' = before /\ before = Old(fs, task) /\ pc \in {"do", "undo"}
        /\ undone' = (undone \/ pc = "undo") /\ sub < Len(Program) /\ Ran(NextPrim, nil)
    BY DEF Takes, SnapshotBack
  <1>2. SnapshotNow BY <1>1, SnapshotIs
  <1>3. ~swapped'
    <2>1. ~Swaps(NewDir, Current)
      <3>1. NextPrim # Move(NewDir, Current)
        <4>1. NextPrim.op = "move" => NextPrim.from \in Named
          BY <1>1, <1>2, PrimTargets DEF Typed, SnapshotNow, SnapshotTasks
        <4>2. QED BY <4>1, NamedFacts DEF Move, Prim
      <3>2. QED BY <3>1 DEF Swaps
    <2>2. QED BY <2>1 DEF Takes, SnapshotBack
  <1>4. CASE pc = "do"
    <2>1. SnapshotKept(at) BY <1>4, SnapshotDoing
    <2>2. /\ at \in Nat /\ at = record /\ phase = "run"
          /\ nil => phase' = "run" /\ pc' = "do"
          /\ ~nil => phase' = "rollback" /\ Undone' = IF at = 0 THEN -1 ELSE at
      BY <1>4, TakesUndone
    <2>3. task.replaced => ~undone' BY <1>1, <1>4, <2>2 DEF SnapshotBack
    <2>4. phase' = "rollback" => SnapshotBelow(fs', task, Undone') /\ Whole(fs', task, Undone')
      BY <2>1, <2>2, BelowFacts DEF SnapshotKept
    <2>5. QED BY <1>1, <1>3, <2>1, <2>2, <2>3, <2>4 DEF SnapshotBack, SnapshotKept
  <1>5. CASE pc = "undo"
    <2>1. SnapshotKept(at - 1) /\ sub = 0 /\ Len(Program) = 1 /\ NextPrim.op # "unless" /\ at >= 1
      BY <1>5, SnapshotUndoing
    <2>2. /\ at \in Nat /\ phase' = "rollback"
          /\ nil => Undone' = IF sub' = Len(Program) THEN at - 1 ELSE at
          /\ ~nil => Undone' = IF at = 1 THEN -1 ELSE at - 1
      BY <1>5, TakesUndone
    <2>3. nil => sub' = 1 BY <1>5, <2>1 DEF Takes
    <2>4. Undone' = at - 1 \/ (Undone' = -1 /\ at - 1 = 0) BY <2>1, <2>2, <2>3
    <2>5. SnapshotBelow(fs', task, Undone') /\ Whole(fs', task, Undone')
      BY <2>1, <2>4, BelowFacts DEF SnapshotKept
    <2>6. undone' BY <1>1, <1>5
    <2>7. QED BY <1>1, <1>3, <2>1, <2>2, <2>5, <2>6 DEF SnapshotBack, SnapshotKept
  <1>6. QED BY <1>1, <1>4, <1>5

-----------------------------------------------------------------------------
(* The steps of a restore, and what puts them back *)

\* A call that touches no more than the directories of the restore.
LEMMA RestoreTouches ==
  ASSUME Typed, task \in RestoreTasks, NoOthers(fs, task), NEW P \in SUBSET Paths, Keeps(P),
         \A p \in P : \/ p \in {Current, NewDir, OldDir, PruneDir}
                      \/ \E m \in task.after : p \in {Snap(m), Pruned(m)},
         (IF Exists(fs', OldDir) THEN fs'[OldDir].data ELSE fs'[Current].data)
           = (IF Exists(fs, OldDir) THEN fs[OldDir].data ELSE fs[Current].data),
         \A m \in task.after : (IF Exists(fs', Pruned(m)) THEN fs'[Pruned(m)] ELSE fs'[Snap(m)])
                                 = (IF Exists(fs, Pruned(m)) THEN fs[Pruned(m)] ELSE fs[Snap(m)])
  PROVE  Old(fs', task) = Old(fs, task) /\ NoOthers(fs', task)
  <1>1. task.after \in SUBSET Names /\ task.kind = "restore" /\ task \in Tasks
    BY DEF RestoreTasks, Tasks
  <1>2. ASSUME NEW m \in Names \ task.after
        PROVE  fs'[Snap(m)] = fs[Snap(m)]
    <2>1. Snap(m) \notin P BY <1>1, <1>2, PathKinds
    <2>2. QED BY <1>2, <2>1, PathTypes DEF Keeps
  <1>3. Old(fs', task) = Old(fs, task) BY <1>2, RestoreOld
  <1>4. ASSUME NEW p \in Artifacts \ Own(task)
        PROVE  fs'[p] = fs[p]
    <2>1. p \in Paths /\ p # Current /\ \A m \in task.after : p # Snap(m)
      BY <1>1, ArtifactFacts
    <2>2. p # NewDir /\ p # OldDir /\ p # PruneDir /\ \A m \in task.after : p # Pruned(m)
      BY <1>1, <1>4, OwnFacts
    <2>3. p \notin P BY <2>1, <2>2
    <2>4. QED BY <2>1, <2>3 DEF Keeps
  <1>5. QED BY <1>3, <1>4, OthersSame

\* The arguments of a restore that runs or is undone.
RestoringNow ==
  /\ task \in RestoreTasks /\ task.name \in Names /\ task.after \in SUBSET Names /\ task \in Tasks
  /\ at \in 0..5 /\ sub \in Nat /\ record \in 0..5 /\ FsTyped /\ Commit(task) = 6 /\ Count(task) = 7
LEMMA RestoringIs ==
  ASSUME Typed, task.kind = "restore", Undoable, pc \in {"do", "undo"}
  PROVE  RestoringNow
  <1>1. task \in Tasks /\ task \in RestoreTasks /\ task.name \in Names /\ task.after \in SUBSET Names
    BY TaskFacts DEF Typed, EngineOK, EngineTyped, RestoreTasks
  <1>2. Commit(task) = 6 /\ Count(task) = 7 BY DEF Commit, Count
  <1>3. record \in 0..7 /\ at \in -1..7 /\ sub \in Nat /\ record < Commit(task)
    BY UndoableFacts DEF Undoable, Opened
  <1>4. at >= 0 /\ at < 6
    BY <1>2, <1>3, UndoableFacts DEF Typed, EngineOK, EngineInv
  <1>5. QED BY <1>1, <1>2, <1>3, <1>4 DEF RestoringNow, Typed, WorldTyped

\* Only the two steps on the live data move them.
LEMMA NoSwap ==
  ASSUME EngineOK, pc \in {"do", "undo"}, sub < Len(Program), at # 3
  PROVE  ~Swaps(NewDir, Current) /\ ~Swaps(Current, NewDir)
  <1>1. NextPrim.op = "move" => NextPrim.from \in Named BY PrimTargets
  <1>2. NextPrim # Move(NewDir, Current) /\ NextPrim # Move(Current, NewDir)
    BY <1>1, NamedFacts DEF Move, Prim
  <1>3. QED BY <1>2 DEF Swaps

\* What a call of a restore leaves can be put back.
RestoreKept ==
  /\ Old(fs', task) = Old(fs, task) /\ NoOthers(fs', task)
  /\ Aside(fs', swapped') /\ Apart(fs', task)
  /\ RestoreBelow(fs', task, record)
  /\ record < 3 => ~Exists(fs', OldDir)

\* The calls that leave the directories that matter alone.
LEMMA RestoreAlone ==
  ASSUME Typed, task \in RestoreTasks, RestoreBack, swapped' = swapped, record \in Nat, fs' = fs \/ Keeps({NewDir})
  PROVE  RestoreKept /\ \A p \in Paths \ {NewDir} : fs'[p] = fs[p]
  <1>1. \A p \in Paths \ {NewDir} : fs'[p] = fs[p] BY DEF Keeps
  <1>2. task.after \in SUBSET Names BY DEF RestoreTasks
  <1>3. /\ fs'[Current] = fs[Current] /\ fs'[OldDir] = fs[OldDir] /\ fs'[PruneDir] = fs[PruneDir]
        /\ \A m \in task.after : fs'[Snap(m)] = fs[Snap(m)] /\ fs'[Pruned(m)] = fs[Pruned(m)]
    BY <1>1, <1>2, PathKinds, PathTypes
  <1>4. Old(fs', task) = Old(fs, task) /\ NoOthers(fs', task)
    <2>1. CASE fs' = fs BY <2>1 DEF RestoreBack
    <2>2. CASE Keeps({NewDir})
      <3>1. {NewDir} \in SUBSET Paths BY PathTypes
      <3>2. QED BY <1>3, <2>2, <3>1, RestoreTouches DEF RestoreBack, Exists
    <2>3. QED BY <2>1, <2>2
  <1>5. Aside(fs', swapped') /\ Apart(fs', task)
    BY <1>3 DEF RestoreBack, Aside, Apart, Exists
  <1>6. RestoreBelow(fs', task, record) /\ (record < 3 => ~Exists(fs', OldDir))
    BY <1>3 DEF RestoreBack, RestoreBelow, Exists
  <1>7. QED BY <1>1, <1>4, <1>5, <1>6 DEF RestoreKept

LEMMA RestoreDoing ==
  ASSUME Typed, RestoreForward, task.kind = "restore", Undoable, RestoreBack, NEW nil \in BOOLEAN, Takes(nil), pc = "do"
  PROVE  RestoreKept /\ (nil /\ at = 4 => Exists(fs', PruneDir))
  <1> DEFINE l == Listed(task.after)
  <1>1. RestoringNow BY RestoringIs
  <1>2. /\ at = record /\ phase = "run" /\ Ran(NextPrim, nil) /\ sub < Len(Program) /\ EngineOK
        /\ swapped' = (Swaps(NewDir, Current) \/ (swapped /\ ~Swaps(Current, NewDir))) /\ swapped \in BOOLEAN
    BY TakesUndone DEF Takes, Typed
  <1>3. FsTyped /\ task \in RestoreTasks /\ at \in 0..5 /\ record \in Nat /\ task.after \in SUBSET Names
        /\ sub \in Nat /\ task.name \in Names
    BY <1>1 DEF RestoringNow
  <1>4. at # 3 => swapped' = swapped BY <1>2, NoSwap
  <1>5. ASSUME fs' = fs \/ Keeps({NewDir}), at \notin {3, 4}
        PROVE  RestoreKept /\ (nil /\ at = 4 => Exists(fs', PruneDir))
    BY <1>3, <1>4, <1>5, RestoreAlone
  <1>6. CASE \/ Is(0, 0, RemoveAll(NewDir)) \/ Is(0, 1, Prim("clone", Snap(task.name), NewDir))
             \/ Is(0, 2, MatchTopMode(Current, NewDir))
    <2>1. at = 0 /\ NewDir \in Paths /\ NewDir # PruneDir /\ Snap(task.name) \in Paths
      BY <1>3, <1>6, PathTypes, PathKinds DEF Is
    <2>2. CASE NextPrim = RemoveAll(NewDir)
      BY <1>2, <1>3, <1>5, <2>1, <2>2, RemoveFacts
    <2>3. CASE NextPrim = Prim("clone", Snap(task.name), NewDir)
      BY <1>2, <1>3, <1>5, <2>1, <2>3, CloneFacts
    <2>4. CASE NextPrim = MatchTopMode(Current, NewDir)
      BY <1>2, <1>5, <2>1, <2>4, RanChmod
    <2>5. QED BY <1>6, <2>2, <2>3, <2>4 DEF Is
  <1>7. CASE \/ Is(1, 0, Call("StopContainer")) \/ Is(2, 0, Call("RepairIP"))
             \/ Is(5, 0, Call("StartContainerAndWait"))
    <2>1. fs' = fs /\ at \notin {3, 4}
      <3>1. at \notin {3, 4} BY <1>7 DEF Is
      <3>2. \E op \in {"StopContainer", "RepairIP", "StartContainerAndWait"} : NextPrim = Call(op)
        BY <1>7 DEF Is
      <3>3. fs' = fs BY <1>2, <3>2, RanCall DEF Called, BackendOps
      <3>4. QED BY <3>1, <3>3
    <2>2. QED BY <1>5, <2>1
  <1>8. CASE Is(3, 0, Move(Current, OldDir))
    <2>1. /\ Current \in Paths /\ OldDir \in Paths /\ Current # OldDir /\ at = 3 /\ NextPrim = Move(Current, OldDir)
      BY <1>8, PathTypes, PathKinds DEF Is
    <2>2. swapped' = swapped
      <3>1. NextPrim # Move(NewDir, Current) /\ NextPrim # Move(Current, NewDir)
        BY <2>1, PathKinds DEF Move, Prim
      <3>2. QED BY <1>2, <3>1 DEF Swaps
    <2>3. CASE ~nil
      <3>1. fs' = fs BY <1>2, <1>3, <2>1, <2>3, MoveFacts
      <3>2. QED BY <1>3, <2>1, <2>2, <2>3, <3>1, RestoreAlone
    <2>4. CASE nil
      <3>1. /\ fs'[Current] = Missing /\ fs'[OldDir] = (IF Exists(fs, Current) THEN fs[Current] ELSE fs[OldDir])
            /\ fs'[OldDir] # Missing /\ (Exists(fs, Current) <=> ~Exists(fs, OldDir)) /\ Keeps({Current, OldDir})
        BY <1>2, <1>3, <2>1, <2>4, MoveFacts
      <3>2. /\ fs'[PruneDir] = fs[PruneDir]
            /\ \A m \in task.after : fs'[Snap(m)] = fs[Snap(m)] /\ fs'[Pruned(m)] = fs[Pruned(m)]
        BY <1>3, <3>1, PathKinds, PathTypes DEF Keeps
      <3>3. Old(fs', task) = Old(fs, task) /\ NoOthers(fs', task)
        <4>1. {Current, OldDir} \in SUBSET Paths BY <2>1
        <4>2. (IF Exists(fs', OldDir) THEN fs'[OldDir].data ELSE fs'[Current].data)
                = (IF Exists(fs, OldDir) THEN fs[OldDir].data ELSE fs[Current].data)
          BY <3>1 DEF Exists
        <4>3. NoOthers(fs, task) BY DEF RestoreBack
        <4>4. QED BY <1>3, <3>1, <3>2, <4>1, <4>2, <4>3, RestoreTouches DEF Exists
      <3>4. Aside(fs', swapped')
        BY <2>2, <3>1 DEF RestoreBack, Aside, Exists
      <3>5. Apart(fs', task) /\ RestoreBelow(fs', task, record) /\ record = 3
        BY <1>2, <2>1, <3>2 DEF RestoreBack, Apart, RestoreBelow, Exists
      <3>6. QED BY <2>1, <3>3, <3>4, <3>5 DEF RestoreKept
    <2>5. QED BY <2>3, <2>4
  <1>9. CASE Is(3, 1, Move(NewDir, Current))
    <2>1. /\ Current \in Paths /\ NewDir \in Paths /\ NewDir # Current /\ OldDir \in Paths /\ OldDir # Current /\ OldDir # NewDir
          /\ at = 3 /\ sub = 1 /\ NextPrim = Move(NewDir, Current)
      BY <1>9, PathTypes, PathKinds DEF Is
    <2>2. ~swapped /\ ~Exists(fs, Current) /\ Exists(fs, NewDir)
      BY <1>2, <1>3, <2>1 DEF RestoreForward, Forward, Past
    <2>3. /\ fs'[NewDir] = Missing /\ fs'[Current] = fs[NewDir] /\ fs'[Current] # Missing /\ Keeps({NewDir, Current})
      BY <1>2, <1>3, <2>1, <2>2, MoveFacts
    <2>4. Exists(fs, OldDir) /\ fs'[OldDir] = fs[OldDir]
      BY <2>1, <2>2, <2>3 DEF RestoreBack, Aside, Keeps
    <2>5. swapped' BY <1>2, <2>1, <2>2, <2>3 DEF Swaps, Exists
    <2>6. /\ fs'[PruneDir] = fs[PruneDir]
          /\ \A m \in task.after : fs'[Snap(m)] = fs[Snap(m)] /\ fs'[Pruned(m)] = fs[Pruned(m)]
      BY <1>3, <2>3, PathKinds, PathTypes DEF Keeps
    <2>7. Old(fs', task) = Old(fs, task) /\ NoOthers(fs', task)
      <3>1. {NewDir, Current} \in SUBSET Paths BY <2>1
      <3>2. NoOthers(fs, task) BY DEF RestoreBack
      <3>3. QED BY <1>3, <2>3, <2>4, <2>6, <3>1, <3>2, RestoreTouches DEF Exists
    <2>8. Aside(fs', swapped')
      BY <2>3, <2>4, <2>5 DEF Aside, Exists
    <2>9. Apart(fs', task) /\ RestoreBelow(fs', task, record) /\ record = 3
      BY <1>2, <2>1, <2>6 DEF RestoreBack, Apart, RestoreBelow, Exists
    <2>10. QED BY <2>1, <2>7, <2>8, <2>9 DEF RestoreKept
  <1>10. CASE Is(4, 0, EnsureDir(PruneDir))
    <2>1. at = 4 /\ record = 4 /\ PruneDir \in Paths /\ NextPrim = EnsureDir(PruneDir)
      BY <1>2, <1>10, PathTypes DEF Is
    <2>2. Keeps({PruneDir}) /\ fs'[PruneDir] = IF Exists(fs, PruneDir) THEN fs[PruneDir] ELSE [data |-> Empty, mtime |-> 0]
      BY <1>2, <1>3, <2>1, MkdirFacts
    <2>3. Exists(fs', PruneDir) BY <2>2 DEF Exists, Missing, Empty, Gone
    <2>4. /\ fs'[Current] = fs[Current] /\ fs'[OldDir] = fs[OldDir]
          /\ \A m \in task.after : fs'[Snap(m)] = fs[Snap(m)] /\ fs'[Pruned(m)] = fs[Pruned(m)]
      BY <1>3, <2>2, PathKinds, PathTypes DEF Keeps
    <2>5. Old(fs', task) = Old(fs, task) /\ NoOthers(fs', task)
      <3>1. {PruneDir} \in SUBSET Paths BY <2>1
      <3>2. NoOthers(fs, task) BY DEF RestoreBack
      <3>3. QED BY <1>3, <2>2, <2>4, <3>1, <3>2, RestoreTouches DEF Exists
    <2>6. Aside(fs', swapped')
      BY <1>4, <2>1, <2>4 DEF RestoreBack, Aside, Exists
    <2>7. Apart(fs', task) /\ RestoreBelow(fs', task, record)
      BY <2>1, <2>3, <2>4 DEF RestoreBack, Apart, RestoreBelow, Exists
    <2>8. QED BY <2>1, <2>3, <2>5, <2>6, <2>7 DEF RestoreKept
  <1>11. CASE sub \in 1..Len(l) /\ Is(4, sub, Move(Snap(l[sub]), Pruned(l[sub])))
    <2>1. PICK m \in task.after : m = l[sub]
      BY <1>3, <1>11, ListedFacts
    <2>2. /\ at = 4 /\ record = 4 /\ m \in Names /\ Snap(m) \in Paths /\ Pruned(m) \in Paths /\ Snap(m) # Pruned(m)
          /\ NextPrim = Move(Snap(m), Pruned(m)) /\ PruneDir \in Paths
      BY <1>2, <1>3, <1>11, <2>1, PathTypes, PathKinds DEF Is
    <2>3. Exists(fs, PruneDir) /\ ~(Exists(fs, Snap(m)) <=> Exists(fs, Pruned(m)))
      BY <1>11, <2>2 DEF RestoreBack, Apart
    <2>4. /\ nil => /\ fs'[Snap(m)] = Missing
                    /\ fs'[Pruned(m)] = (IF Exists(fs, Snap(m)) THEN fs[Snap(m)] ELSE fs[Pruned(m)])
                    /\ fs'[Pruned(m)] # Missing /\ Keeps({Snap(m), Pruned(m)})
          /\ ~nil => (Exists(fs, Snap(m)) <=> Exists(fs, Pruned(m)))
      BY <1>2, <1>3, <2>2, MoveFacts
    <2>5. /\ fs'[Snap(m)] = Missing
          /\ fs'[Pruned(m)] = (IF Exists(fs, Snap(m)) THEN fs[Snap(m)] ELSE fs[Pruned(m)])
          /\ fs'[Pruned(m)] # Missing /\ Keeps({Snap(m), Pruned(m)})
      BY <2>3, <2>4
    <2>6. /\ fs'[Current] = fs[Current] /\ fs'[OldDir] = fs[OldDir] /\ fs'[PruneDir] = fs[PruneDir]
          /\ \A k \in task.after : k # m => fs'[Snap(k)] = fs[Snap(k)] /\ fs'[Pruned(k)] = fs[Pruned(k)]
      BY <1>3, <2>5, PathKinds, PathTypes DEF Keeps
    <2>7. Old(fs', task) = Old(fs, task) /\ NoOthers(fs', task)
      <3>1. {Snap(m), Pruned(m)} \in SUBSET Paths BY <2>2
      <3>2. NoOthers(fs, task) BY DEF RestoreBack
      <3>3. ASSUME NEW k \in task.after
            PROVE  (IF Exists(fs', Pruned(k)) THEN fs'[Pruned(k)] ELSE fs'[Snap(k)])
                     = (IF Exists(fs, Pruned(k)) THEN fs[Pruned(k)] ELSE fs[Snap(k)])
        BY <2>3, <2>5, <2>6 DEF Exists
      <3>4. QED BY <1>3, <2>5, <2>6, <3>1, <3>2, <3>3, RestoreTouches DEF Exists
    <2>8. Aside(fs', swapped')
      BY <1>4, <2>2, <2>6 DEF RestoreBack, Aside, Exists
    <2>9. Apart(fs', task) /\ RestoreBelow(fs', task, record)
      BY <2>2, <2>3, <2>5, <2>6 DEF RestoreBack, Apart, RestoreBelow, Exists
    <2>10. QED BY <2>2, <2>3, <2>6, <2>7, <2>8, <2>9 DEF RestoreKept, Exists
  <1>12. at \in 0..(Count(task) - 1) /\ at # 6 BY <1>1 DEF RestoringNow
  <1>13. QED BY <1>2, <1>3, <1>6, <1>7, <1>8, <1>9, <1>10, <1>11, <1>12, RestoreDo DEF Is

\* What else an undo of a restore leaves.
RestoreUndone(nil) ==
  /\ at \notin {1, 2} /\ RestoreBelow(fs', task, at)
  /\ ~nil \/ sub' = Len(Program) => RestoreBelow(fs', task, at - 1)
  /\ at < 3 => ~Exists(fs', OldDir) \/ "undo" \in marred
  /\ nil /\ at = 3 => /\ sub' \in {1, 2} => Exists(fs', OldDir)
                      /\ sub' = Len(Program) => ~Exists(fs', OldDir)
  /\ nil /\ at = 4 => \A i \in 1..(sub' - 1) : i <= Len(Pruning) => ~Exists(fs', Pruned(Pruning[i]))
LEMMA RestoreUndoing ==
  ASSUME Typed, task.kind = "restore", Undoable, RestoreBack, NEW nil \in BOOLEAN, Takes(nil), pc = "undo"
  PROVE  RestoreKept /\ RestoreUndone(nil)
  <1> DEFINE l == Listed(task.after)
  <1>1. RestoringNow BY RestoringIs
  <1>2. /\ Undone = at /\ phase = "rollback" /\ Ran(NextPrim, nil) /\ sub < Len(Program) /\ EngineOK
        /\ swapped' = (Swaps(NewDir, Current) \/ (swapped /\ ~Swaps(Current, NewDir))) /\ swapped \in BOOLEAN
        /\ nil => sub' = IF NextPrim.op = "unless" /\ ~Exists(fs, NextPrim.from) THEN Len(Program) ELSE sub + 1
    BY TakesUndone DEF Takes, Typed
  <1>3. FsTyped /\ task \in RestoreTasks /\ at \in 0..5 /\ record \in Nat /\ task.after \in SUBSET Names
        /\ sub \in Nat /\ task.name \in Names
    BY <1>1 DEF RestoringNow
  <1>4. at # 3 => swapped' = swapped BY <1>2, NoSwap
  <1>5. /\ RestoreBelow(fs, task, at) /\ (at < 3 => ~Exists(fs, OldDir) \/ "undo" \in marred)
        /\ NoOthers(fs, task) /\ Aside(fs, swapped) /\ Apart(fs, task) /\ RestoreBelow(fs, task, record)
        /\ record < 3 => ~Exists(fs, OldDir)
    BY <1>2 DEF RestoreBack
  <1>6. Len(l) \in Nat /\ Pruning = l BY <1>3, ListedFacts DEF Pruning
  <1>7. CASE Is(0, 0, RemoveAll(NewDir)) /\ Len(Program) = 1
    <2>1. at = 0 /\ NewDir \in Paths /\ NewDir # PruneDir /\ NextPrim = RemoveAll(NewDir)
      BY <1>7, PathTypes, PathKinds DEF Is
    <2>2. fs'[NewDir] = Missing /\ Keeps({NewDir})
      BY <1>2, <1>3, <2>1, RemoveFacts
    <2>3. RestoreKept /\ \A p \in Paths \ {NewDir} : fs'[p] = fs[p]
      BY <1>3, <1>4, <2>1, <2>2, RestoreAlone
    <2>4. /\ fs'[OldDir] = fs[OldDir] /\ fs'[PruneDir] = fs[PruneDir]
          /\ \A m \in task.after : fs'[Pruned(m)] = fs[Pruned(m)]
      BY <1>3, <2>3, PathTypes, PathKinds
    <2>5. RestoreBelow(fs', task, 0) /\ RestoreBelow(fs', task, -1)
      BY <1>5, <2>1, <2>2, <2>4 DEF RestoreBelow, Exists
    <2>6. ~Exists(fs', OldDir) \/ "undo" \in marred
      BY <1>5, <2>1, <2>4 DEF Exists
    <2>7. QED BY <2>1, <2>3, <2>5, <2>6 DEF RestoreUndone
  <1>8. CASE Is(3, 0, ReturnUnless(OldDir)) /\ Len(Program) = 4
    <2>1. at = 3 /\ sub = 0 /\ NextPrim = ReturnUnless(OldDir) /\ NextPrim.op = "unless" /\ NextPrim.from = OldDir
      BY <1>8 DEF Is, ReturnUnless, Prim
    <2>2. nil /\ fs' = fs BY <1>2, <2>1, RanUnless
    <2>3. swapped' = swapped BY <1>2, <2>2 DEF Swaps
    <2>4. RestoreKept BY <1>3, <2>2, <2>3, RestoreAlone
    <2>5. RestoreBelow(fs', task, 3) /\ RestoreBelow(fs', task, 2)
      BY <1>5, <2>1, <2>2 DEF RestoreBelow
    <2>6. sub' = IF ~Exists(fs, OldDir) THEN 4 ELSE 1 BY <1>2, <1>8, <2>1, <2>2
    <2>7. QED BY <1>8, <2>1, <2>2, <2>4, <2>5, <2>6 DEF RestoreUndone
  <1>9. CASE Is(3, 1, Call("StopContainerForce")) /\ Len(Program) = 4
    <2>1. at = 3 /\ sub = 1 /\ NextPrim = Call("StopContainerForce") /\ NextPrim.op = "StopContainerForce"
      BY <1>9 DEF Is, Call
    <2>2. fs' = fs BY <1>2, <2>1, RanCall DEF Called, BackendOps
    <2>3. swapped' = swapped BY <1>2, <2>2 DEF Swaps
    <2>4. RestoreKept BY <1>3, <2>2, <2>3, RestoreAlone
    <2>5. RestoreBelow(fs', task, 3) /\ RestoreBelow(fs', task, 2)
      BY <1>5, <2>1, <2>2 DEF RestoreBelow
    <2>6. nil => sub' = 2 BY <1>2, <2>1
    <2>7. Exists(fs, OldDir) BY <2>1 DEF RestoreBack
    <2>8. QED BY <1>9, <2>1, <2>2, <2>4, <2>5, <2>6, <2>7 DEF RestoreUndone
  <1>10. CASE Is(3, 2, Move(Current, NewDir)) /\ Len(Program) = 4
    <2>1. /\ Current \in Paths /\ NewDir \in Paths /\ NewDir # Current /\ OldDir \in Paths /\ OldDir # Current /\ OldDir # NewDir
          /\ at = 3 /\ sub = 2 /\ NextPrim = Move(Current, NewDir) /\ NextPrim.op = "move"
      BY <1>10, PathTypes, PathKinds DEF Is, Move, Prim
    <2>2. Exists(fs, OldDir) /\ (swapped => Exists(fs, Current))
      BY <1>5, <2>1 DEF RestoreBack, Aside
    <2>3. nil => sub' = 3 BY <1>2, <2>1
    <2>4. NextPrim # Move(NewDir, Current) BY <2>1 DEF Move, Prim
    <2>5. CASE ~nil
      <3>1. fs' = fs BY <1>2, <1>3, <2>1, <2>5, MoveFacts
      <3>2. swapped' = swapped BY <1>2, <3>1 DEF Swaps
      <3>3. RestoreKept BY <1>3, <3>1, <3>2, RestoreAlone
      <3>4. RestoreBelow(fs', task, 3) /\ RestoreBelow(fs', task, 2)
        BY <1>5, <2>1, <3>1 DEF RestoreBelow
      <3>5. QED BY <2>1, <2>5, <3>3, <3>4 DEF RestoreUndone
    <2>6. CASE nil
      <3>1. /\ fs'[Current] = Missing /\ fs'[NewDir] # Missing /\ Keeps({Current, NewDir})
            /\ Exists(fs, Current) <=> ~Exists(fs, NewDir)
        BY <1>2, <1>3, <2>1, <2>6, MoveFacts
      <3>2. fs'[OldDir] = fs[OldDir] /\ fs'[PruneDir] = fs[PruneDir]
            /\ \A m \in task.after : fs'[Snap(m)] = fs[Snap(m)] /\ fs'[Pruned(m)] = fs[Pruned(m)]
        BY <1>3, <3>1, PathKinds, PathTypes DEF Keeps
      <3>3. ~swapped'
        <4>1. Exists(fs, Current) => fs' # fs BY <3>1 DEF Exists
        <4>2. QED BY <1>2, <2>1, <2>2, <2>4, <4>1 DEF Swaps
      <3>4. Old(fs', task) = Old(fs, task) /\ NoOthers(fs', task)
        <4>1. {Current, NewDir} \in SUBSET Paths BY <2>1
        <4>2. QED BY <1>3, <1>5, <2>2, <3>1, <3>2, <4>1, RestoreTouches DEF Exists
      <3>5. Aside(fs', swapped') /\ Apart(fs', task) /\ RestoreBelow(fs', task, record)
        BY <1>3, <1>5, <2>2, <3>1, <3>2, <3>3 DEF Aside, Apart, RestoreBelow, Exists
      <3>6. RestoreBelow(fs', task, 3)
        BY <1>5, <2>1, <3>2 DEF RestoreBelow, Exists
      <3>7. Exists(fs', OldDir) /\ ~(record < 3) BY <1>5, <2>2, <3>2 DEF Exists
      <3>8. RestoreKept BY <3>4, <3>5, <3>7 DEF RestoreKept
      <3>9. QED BY <1>10, <2>1, <2>3, <2>6, <3>6, <3>7, <3>8 DEF RestoreUndone
    <2>7. QED BY <2>5, <2>6
  <1>11. CASE Is(3, 3, Move(OldDir, Current)) /\ Len(Program) = 4
    <2>1. /\ Current \in Paths /\ OldDir \in Paths /\ OldDir # Current
          /\ at = 3 /\ sub = 3 /\ NextPrim = Move(OldDir, Current) /\ NextPrim.op = "move"
      BY <1>11, PathTypes, PathKinds DEF Is, Move, Prim
    <2>2. swapped' = swapped
      <3>1. NextPrim # Move(NewDir, Current) /\ NextPrim # Move(Current, NewDir)
        BY <2>1, PathKinds DEF Move, Prim
      <3>2. QED BY <1>2, <3>1 DEF Swaps
    <2>3. nil => sub' = 4 BY <1>2, <2>1
    <2>4. CASE ~nil
      <3>1. fs' = fs BY <1>2, <1>3, <2>1, <2>4, MoveFacts
      <3>2. RestoreKept BY <1>3, <2>2, <3>1, RestoreAlone
      <3>3. RestoreBelow(fs', task, 3) /\ RestoreBelow(fs', task, 2)
        BY <1>5, <2>1, <3>1 DEF RestoreBelow
      <3>4. QED BY <2>1, <2>4, <3>2, <3>3 DEF RestoreUndone
    <2>5. CASE nil
      <3>1. /\ fs'[OldDir] = Missing /\ fs'[Current] = (IF Exists(fs, OldDir) THEN fs[OldDir] ELSE fs[Current])
            /\ fs'[Current] # Missing /\ (Exists(fs, OldDir) <=> ~Exists(fs, Current)) /\ Keeps({OldDir, Current})
        BY <1>2, <1>3, <2>1, <2>5, MoveFacts
      <3>2. fs'[PruneDir] = fs[PruneDir]
            /\ \A m \in task.after : fs'[Snap(m)] = fs[Snap(m)] /\ fs'[Pruned(m)] = fs[Pruned(m)]
        BY <1>3, <3>1, PathKinds, PathTypes DEF Keeps
      <3>3. Old(fs', task) = Old(fs, task) /\ NoOthers(fs', task)
        <4>1. {OldDir, Current} \in SUBSET Paths BY <2>1
        <4>2. (IF Exists(fs', OldDir) THEN fs'[OldDir].data ELSE fs'[Current].data)
                = (IF Exists(fs, OldDir) THEN fs[OldDir].data ELSE fs[Current].data)
          BY <3>1 DEF Exists
        <4>3. QED BY <1>3, <1>5, <3>1, <3>2, <4>1, <4>2, RestoreTouches DEF Exists
      <3>4. Aside(fs', swapped')
        BY <1>5, <2>2, <3>1 DEF Aside, Exists
      <3>5. Apart(fs', task) /\ RestoreBelow(fs', task, record) /\ ~Exists(fs', OldDir)
        BY <1>3, <1>5, <3>1, <3>2 DEF Apart, RestoreBelow, Exists
      <3>6. RestoreBelow(fs', task, 3) /\ RestoreBelow(fs', task, 2)
        BY <1>5, <2>1, <3>2 DEF RestoreBelow, Exists
      <3>7. RestoreKept BY <3>3, <3>4, <3>5 DEF RestoreKept
      <3>8. QED BY <1>11, <2>1, <2>3, <2>5, <3>5, <3>6, <3>7 DEF RestoreUndone
    <2>6. QED BY <2>4, <2>5
  <1>12. CASE Is(4, 0, ReturnUnless(PruneDir)) /\ Len(Program) = Len(l) + 2
    <2>1. at = 4 /\ sub = 0 /\ NextPrim = ReturnUnless(PruneDir) /\ NextPrim.op = "unless" /\ NextPrim.from = PruneDir
      BY <1>12 DEF Is, ReturnUnless, Prim
    <2>2. nil /\ fs' = fs BY <1>2, <2>1, RanUnless
    <2>3. RestoreKept BY <1>3, <1>4, <2>1, <2>2, RestoreAlone
    <2>4. RestoreBelow(fs', task, 4) BY <1>5, <2>1, <2>2
    <2>5. CASE Exists(fs, PruneDir)
      <3>1. sub' = 1 /\ Len(Program) # 1 BY <1>2, <1>6, <1>12, <2>1, <2>2, <2>5
      <3>2. QED BY <2>1, <2>2, <2>3, <2>4, <3>1 DEF RestoreUndone
    <2>6. CASE ~Exists(fs, PruneDir)
      <3>1. \A m \in task.after : ~Exists(fs', Pruned(m))
        BY <1>5, <2>2, <2>6 DEF Apart
      <3>2. RestoreBelow(fs', task, 3) BY <2>2, <2>6, <3>1 DEF RestoreBelow
      <3>3. \A i \in 1..Len(Pruning) : ~Exists(fs', Pruned(Pruning[i]))
        BY <1>3, <1>6, <3>1, ListedFacts
      <3>4. \A i \in 1..(sub' - 1) : i <= Len(Pruning) => ~Exists(fs', Pruned(Pruning[i]))
        BY <1>6, <3>3
      <3>5. QED BY <2>1, <2>2, <2>3, <2>4, <3>2, <3>4 DEF RestoreUndone
    <2>7. QED BY <2>5, <2>6
  <1>13. CASE sub \in 1..Len(l) /\ Is(4, sub, Move(Pruned(l[sub]), Snap(l[sub]))) /\ Len(Program) = Len(l) + 2
    <2>1. PICK m \in task.after : m = l[sub]
      BY <1>3, <1>13, ListedFacts
    <2>2. /\ at = 4 /\ m \in Names /\ Snap(m) \in Paths /\ Pruned(m) \in Paths /\ Snap(m) # Pruned(m)
          /\ NextPrim = Move(Pruned(m), Snap(m)) /\ PruneDir \in Paths /\ NextPrim.op = "move"
      BY <1>3, <1>13, <2>1, PathTypes, PathKinds DEF Is, Move, Prim
    <2>3. ~(Exists(fs, Snap(m)) <=> Exists(fs, Pruned(m))) BY <1>5 DEF Apart
    <2>4. /\ nil => /\ fs'[Pruned(m)] = Missing
                    /\ fs'[Snap(m)] = (IF Exists(fs, Pruned(m)) THEN fs[Pruned(m)] ELSE fs[Snap(m)])
                    /\ fs'[Snap(m)] # Missing /\ Keeps({Pruned(m), Snap(m)})
          /\ ~nil => (Exists(fs, Pruned(m)) <=> Exists(fs, Snap(m)))
      BY <1>2, <1>3, <2>2, MoveFacts
    <2>5. /\ fs'[Pruned(m)] = Missing
          /\ fs'[Snap(m)] = (IF Exists(fs, Pruned(m)) THEN fs[Pruned(m)] ELSE fs[Snap(m)])
          /\ fs'[Snap(m)] # Missing /\ Keeps({Pruned(m), Snap(m)}) /\ nil
      BY <2>3, <2>4
    <2>6. /\ fs'[Current] = fs[Current] /\ fs'[OldDir] = fs[OldDir] /\ fs'[PruneDir] = fs[PruneDir]
          /\ \A k \in task.after : k # m => fs'[Snap(k)] = fs[Snap(k)] /\ fs'[Pruned(k)] = fs[Pruned(k)]
      BY <1>3, <2>5, PathKinds, PathTypes DEF Keeps
    <2>7. Old(fs', task) = Old(fs, task) /\ NoOthers(fs', task)
      <3>1. {Pruned(m), Snap(m)} \in SUBSET Paths BY <2>2
      <3>2. ASSUME NEW k \in task.after
            PROVE  (IF Exists(fs', Pruned(k)) THEN fs'[Pruned(k)] ELSE fs'[Snap(k)])
                     = (IF Exists(fs, Pruned(k)) THEN fs[Pruned(k)] ELSE fs[Snap(k)])
        BY <2>3, <2>5, <2>6 DEF Exists
      <3>3. QED BY <1>3, <1>5, <2>5, <2>6, <3>1, <3>2, RestoreTouches DEF Exists
    <2>8. Aside(fs', swapped')
      BY <1>4, <1>5, <2>2, <2>6 DEF Aside, Exists
    <2>9. Apart(fs', task)
      BY <1>5, <2>5, <2>6 DEF Apart, Exists
    <2>10. RestoreBelow(fs', task, record) /\ RestoreBelow(fs', task, 4)
      BY <1>3, <1>5, <2>2, <2>5, <2>6 DEF RestoreBelow, Exists
    <2>11. RestoreKept
      BY <1>5, <2>6, <2>7, <2>8, <2>9, <2>10 DEF RestoreKept, Exists
    <2>12. sub' = sub + 1 /\ sub' # Len(Program)
      BY <1>2, <1>6, <1>13, <2>2, <2>5
    <2>13. ASSUME NEW i \in 1..(sub' - 1), i <= Len(Pruning)
           PROVE  ~Exists(fs', Pruned(Pruning[i]))
      <3>1. PICK k \in task.after : k = Pruning[i]
        BY <1>3, <1>6, <2>13, ListedFacts
      <3>2. CASE i = sub BY <1>6, <2>1, <2>5, <3>2 DEF Exists
      <3>3. CASE i # sub
        <4>1. i \in 1..(sub - 1) BY <1>13, <2>12, <2>13, <3>3
        <4>2. ~Exists(fs, Pruned(k)) BY <2>2, <2>13, <3>1, <4>1 DEF RestoreBack
        <4>3. QED BY <2>5, <2>6, <3>1, <4>2 DEF Exists
      <3>4. QED BY <3>2, <3>3
    <2>14. QED BY <2>2, <2>5, <2>10, <2>11, <2>12, <2>13 DEF RestoreUndone
  <1>14. CASE Is(4, Len(l) + 1, RemoveAll(PruneDir)) /\ Len(Program) = Len(l) + 2
    <2>1. at = 4 /\ sub = Len(l) + 1 /\ NextPrim = RemoveAll(PruneDir) /\ NextPrim.op = "remove" /\ PruneDir \in Paths
      BY <1>14, PathTypes DEF Is, RemoveAll, Prim
    <2>2. /\ nil /\ fs'[PruneDir] = Missing /\ \A m \in Names : fs'[Pruned(m)] = Missing
          /\ Keeps({PruneDir} \cup {Pruned(m) : m \in Names})
      BY <1>2, <1>3, <2>1, RemovePruneFacts
    <2>3. ASSUME NEW m \in Names
          PROVE  ~Exists(fs, Pruned(m))
      <3>1. CASE m \in task.after
        <4>1. PICK i \in 1..Len(l) : l[i] = m
          BY <1>3, <3>1, ListedFacts
        <4>2. i \in 1..(sub - 1) /\ i <= Len(Pruning) BY <1>6, <2>1
        <4>3. QED BY <1>6, <2>1, <4>1, <4>2 DEF RestoreBack
      <3>2. CASE m \notin task.after
        <4>1. Pruned(m) \in Artifacts /\ Pruned(m) \notin Own(task)
          BY <1>3, <2>3, <3>2, ArtifactFacts, PathKinds DEF Own, RestoreTasks
        <4>2. QED BY <1>5, <4>1 DEF NoOthers
      <3>3. QED BY <3>1, <3>2
    <2>4. \A p \in Paths \ {PruneDir} : fs'[p] = fs[p]
      BY <2>2, <2>3 DEF Keeps, Exists
    <2>5. Keeps({PruneDir}) /\ {PruneDir} \in SUBSET Paths
      BY <2>1, <2>4 DEF Keeps
    <2>6. /\ fs'[Current] = fs[Current] /\ fs'[OldDir] = fs[OldDir]
          /\ \A m \in task.after : fs'[Snap(m)] = fs[Snap(m)] /\ fs'[Pruned(m)] = fs[Pruned(m)]
      BY <1>3, <2>5, PathKinds, PathTypes DEF Keeps
    <2>7. Old(fs', task) = Old(fs, task) /\ NoOthers(fs', task)
      BY <1>3, <1>5, <2>5, <2>6, RestoreTouches DEF Exists
    <2>8. Aside(fs', swapped')
      BY <1>4, <1>5, <2>1, <2>6 DEF Aside, Exists
    <2>9. \A m \in task.after : ~Exists(fs', Pruned(m)) BY <1>3, <2>2 DEF Exists
    <2>10. Apart(fs', task)
      BY <1>5, <2>6, <2>9 DEF Apart, Exists
    <2>11. RestoreBelow(fs', task, record) /\ RestoreBelow(fs', task, 4) /\ RestoreBelow(fs', task, 3)
      BY <1>3, <2>2, <2>9 DEF RestoreBelow, Exists
    <2>12. RestoreKept
      BY <1>5, <2>6, <2>7, <2>8, <2>10, <2>11 DEF RestoreKept, Exists
    <2>13. \A i \in 1..Len(Pruning) : ~Exists(fs', Pruned(Pruning[i]))
      BY <1>3, <1>6, <2>9, ListedFacts
    <2>14. \A i \in 1..(sub' - 1) : i <= Len(Pruning) => ~Exists(fs', Pruned(Pruning[i]))
      BY <1>6, <2>13
    <2>15. QED BY <2>1, <2>2, <2>11, <2>12, <2>14 DEF RestoreUndone
  <1>15. CASE Is(5, 0, Call("StopContainerForce")) /\ Len(Program) = 1
    <2>1. at = 5 /\ NextPrim = Call("StopContainerForce") BY <1>15 DEF Is
    <2>2. fs' = fs BY <1>2, <2>1, RanCall DEF Called, BackendOps
    <2>3. RestoreKept BY <1>3, <1>4, <2>1, <2>2, RestoreAlone
    <2>4. RestoreBelow(fs', task, 5) /\ RestoreBelow(fs', task, 4)
      BY DEF RestoreBelow
    <2>5. QED BY <2>1, <2>3, <2>4 DEF RestoreUndone
  <1>16. at \in 0..(Commit(task) - 1) BY <1>1 DEF RestoringNow
  <1>17. QED
    BY <1>2, <1>3, <1>7, <1>8, <1>9, <1>10, <1>11, <1>12, <1>13, <1>14, <1>15, <1>16, RestoreUndo

\* A call of a restore keeps what can be put back.
LEMMA RestoreRuns ==
  ASSUME Typed, RestoreForward, task.kind = "restore", Undoable, RestoreBack, NEW nil \in BOOLEAN, Takes(nil)
  PROVE  RestoreBack'
  <1>1. /\ task' = task /\ record' = record /\ before' = before /\ before = Old(fs, task) /\ pc \in {"do", "undo"}
        /\ marred \subseteq marred' /\ Pruning' = Pruning
    BY DEF Takes, RestoreBack, Pruning
  <1>2. RestoringNow BY <1>1, RestoringIs
  <1>3. at \in 0..5 /\ record \in 0..5 BY <1>2 DEF RestoringNow
  <1>4. CASE pc = "do"
    <2>1. RestoreKept /\ (nil /\ at = 4 => Exists(fs', PruneDir))
      BY <1>4, RestoreDoing
    <2>2. /\ at = record /\ phase = "run"
          /\ nil => phase' = "run" /\ pc' = "do" /\ at' = at
          /\ ~nil => phase' = "rollback" /\ pc' = "undo" /\ sub' = 0
                     /\ Undone' = IF at \in {1, 2} THEN at - 1 ELSE at
      BY <1>4, TakesUndone
    <2>3. phase' = "rollback" => RestoreBelow(fs', task, Undone') /\ (Undone' < 3 => ~Exists(fs', OldDir))
      <3>1. RestoreBelow(fs', task, at) /\ (at < 3 => ~Exists(fs', OldDir))
        BY <2>1, <2>2 DEF RestoreKept
      <3>2. at \in {1, 2} => RestoreBelow(fs', task, at - 1)
        <4>1. at \in {1, 2} => at - 1 \in {0, 1} /\ (at - 1) + 1 = at BY <1>3
        <4>2. QED BY <3>1, <4>1, BelowFacts
      <3>3. QED BY <1>3, <2>2, <3>1, <3>2
    <2>4. QED BY <1>1, <2>1, <2>2, <2>3 DEF RestoreBack, RestoreKept
  <1>5. CASE pc = "undo"
    <2>1. RestoreKept /\ RestoreUndone(nil) BY <1>5, RestoreUndoing
    <2>2. /\ phase' = "rollback"
          /\ nil => pc' = "undo" /\ at' = at /\ Undone' = IF sub' = Len(Program) THEN at - 1 ELSE at
          /\ ~nil => at' = at - 1 /\ sub' = 0 /\ Undone' = IF at \in {2, 3} THEN at - 2 ELSE at - 1
          /\ ~nil => "undo" \in marred'
      BY <1>5, TakesUndone
    <2>3. RestoreBelow(fs', task, Undone')
      <3>1. CASE nil BY <2>1, <2>2, <3>1 DEF RestoreUndone
      <3>2. CASE ~nil /\ at = 3
        <4>1. RestoreBelow(fs', task, 1 + 1) /\ Undone' = 1
          BY <2>1, <2>2, <3>2 DEF RestoreUndone
        <4>2. QED BY <4>1, BelowFacts
      <3>3. CASE ~nil /\ at # 3 BY <1>3, <2>1, <2>2, <3>3 DEF RestoreUndone
      <3>4. QED BY <3>1, <3>2, <3>3
    <2>4. Undone' < 3 => ~Exists(fs', OldDir) \/ "undo" \in marred'
      <3>1. CASE nil
        <4>1. Undone' < 3 => at < 3 \/ (at = 3 /\ sub' = Len(Program))
          BY <1>3, <2>2, <3>1
        <4>2. QED BY <1>1, <2>1, <3>1, <4>1 DEF RestoreUndone
      <3>2. CASE ~nil BY <2>2, <3>2
      <3>3. QED BY <3>1, <3>2
    <2>5. pc' = "undo" /\ at' = 3 /\ sub' \in {1, 2} => Exists(fs', OldDir)
      BY <2>1, <2>2 DEF RestoreUndone
    <2>6. pc' = "undo" /\ at' = 4 => \A i \in 1..(sub' - 1) : i <= Len(Pruning) => ~Exists(fs', Pruned(Pruning[i]))
      BY <2>1, <2>2 DEF RestoreUndone
    <2>7. pc' # "do" BY <1>5 DEF Takes
    <2>8. QED
      BY <1>1, <2>1, <2>2, <2>3, <2>4, <2>5, <2>6, <2>7 DEF RestoreBack, RestoreKept
  <1>6. QED BY <1>1, <1>4, <1>5

-----------------------------------------------------------------------------
(* Kills, writes and new mutations *)

\* A kill keeps the record, and whatever it tears can be put back.
LEMMA UndoableKilled ==
  ASSUME Typed, Killed, Undoable'
  PROVE  /\ Undoable /\ phase' = "none" /\ pc' = "down" /\ sub' = 0 /\ marred \subseteq marred'
         /\ UNCHANGED <<task, record, before, swapped, undone>>
         /\ ~(undone /\ task.kind = "snapshot" /\ task.replaced)
  <1>1. /\ phase' = "none" /\ pc' = "down" /\ sub' = 0 /\ marred \subseteq marred'
        /\ UNCHANGED <<task, record, before, swapped, undone>>
    BY DEF Killed, Crash, Mars
  <1>2. Commit(task)' = Commit(task) BY <1>1, CountSame
  <1>3. marred' \subseteq {"undo", "ensure", "layout"} /\ record' # NoRecord /\ record' < Commit(task)'
    BY DEF Undoable, Soft, Opened
  <1>4. Undoable BY <1>1, <1>2, <1>3 DEF Undoable, Soft, Opened
  <1>5. ~(undone /\ task.kind = "snapshot" /\ task.replaced)
    BY <1>1, <1>3 DEF Killed, Mars, Again
  <1>6. QED BY <1>1, <1>4, <1>5

LEMMA SnapshotKilled ==
  ASSUME Typed, task.kind = "snapshot", Undoable, SnapshotBack, Killed, Undoable'
  PROVE  SnapshotBack'
  <1> DEFINE n == task.name
             S == Snap(n)
             G == Staging(n)
             R == Replaced(n)
  <1>1. /\ phase' = "none" /\ UNCHANGED <<task, record, before, swapped, undone>>
        /\ ~(undone /\ task.replaced) /\ EngineOK /\ FsTyped
    BY UndoableKilled DEF Typed, WorldTyped
  <1>2. ASSUME fs' = fs
        PROVE  SnapshotBack'
    BY <1>1, <1>2 DEF SnapshotBack
  <1>3. CASE fs' # fs
    <2>1. PICK p \in Artifacts :
            /\ fs'[p].data = Torn /\ fs'[p].mtime \in {0, fs[p].mtime}
            /\ \A q \in Paths \ {p} : fs'[q] = fs[q]
            /\ pc \in {"do", "undo"} /\ sub < Len(Program)
            /\ \/ NextPrim.op = "clone" /\ p = NextPrim.to
               \/ NextPrim.op = "remove" /\ NextPrim.from # PruneDir /\ p = NextPrim.from /\ Exists(fs, p)
               \/ NextPrim.op = "remove" /\ NextPrim.from = PruneDir
                  /\ \E m \in Names : p = Pruned(m) /\ Exists(fs, p)
      BY <1>1, <1>3, KilledPaths
    <2>2. SnapshotNow BY <2>1, SnapshotIs
    <2>3. /\ S \in Paths /\ G \in Paths /\ R \in Paths /\ S # G /\ S # R /\ G # R
          /\ S # Current /\ G # Current /\ R # Current /\ G # PruneDir /\ R # PruneDir
      BY <2>2, PathKinds, PathTypes DEF SnapshotNow
    <2>4. /\ pc = "do" => at = record /\ phase = "run"
          /\ at < Commit(task) /\ at \in Nat /\ Installs(task) \in {2, 3} /\ (task.replaced => Installs(task) = 3)
          /\ (task.replaced => Commit(task) = 4) /\ (~task.replaced => Commit(task) = 3)
      BY <2>1, <2>2, UndoableFacts DEF SnapshotNow, Commit
    <2>5. p = G /\ (~Exists(fs, G) => at = 1 /\ record = 1 /\ pc = "do")
      <3>1. CASE pc = "do"
        <4>1. /\ at \in 0..(Count(task) - 1) /\ task \in SnapshotTasks /\ sub \in Nat
          BY <1>1, <2>1, <2>2, KindedNow, <3>1 DEF SnapshotNow
        <4>2. \/ NextPrim = Call("StopPG") \/ NextPrim = RemoveAll(G) \/ (NextPrim = Prim("clone", Current, G) /\ at = 1)
              \/ NextPrim = TouchNow(G) \/ NextPrim = Move(S, R) \/ NextPrim = Move(G, S)
          BY <2>1, <2>2, <2>4, <3>1, <4>1, SnapshotDo DEF Is, SnapshotNow
        <4>3. QED
          BY <2>1, <2>3, <2>4, <3>1, <4>2 DEF Call, RemoveAll, Prim, TouchNow, Move
      <3>2. CASE pc = "undo"
        <4>1. \/ NextPrim = RemoveAll(G) \/ NextPrim = Move(R, S) \/ NextPrim = Move(S, G)
          BY <2>1, <2>2, <3>2, SnapshotUndo DEF Is, SnapshotNow
        <4>2. QED BY <2>1, <2>3, <3>2, <4>1 DEF RemoveAll, Prim, Move
      <3>3. QED BY <2>1, <3>1, <3>2
    <2>6. Exists(fs', G) BY <2>1, <2>5 DEF Exists, Missing, Torn, Gone
    <2>7. /\ fs'[S] = fs[S] /\ fs'[R] = fs[R] /\ fs'[Current] = fs[Current]
          /\ Keeps({G}) /\ {G} \in SUBSET Paths /\ {G} \subseteq {S, G} \cup (IF task.replaced THEN {R} ELSE {})
      BY <2>1, <2>3, <2>5, PathTypes DEF Keeps
    <2>8. Old(fs', task) = Old(fs, task) /\ NoOthers(fs', task) /\ Exists(fs', Current)
      BY <2>2, <2>7, SnapshotTouches DEF SnapshotBack, SnapshotNow, Exists
    <2>9. OneEnd(fs', task)
      <3>1. ~task.replaced /\ ~Exists(fs, G) => ~Exists(fs, S)
        BY <2>4, <2>5 DEF SnapshotBack, SnapshotBelow, Installs
      <3>2. QED BY <2>7, <3>1 DEF SnapshotBack, OneEnd, Exists
    <2>10. SnapshotBelow(fs', task, record)
      BY <2>5, <2>7 DEF SnapshotBack, SnapshotBelow, Exists
    <2>11. task.replaced => Whole(fs', task, record)
      <3>1. record = 3 /\ task.replaced => (Exists(fs, G) <=> Exists(fs', G))
        BY <2>5, <2>6
      <3>2. QED BY <1>1, <2>7, <3>1 DEF SnapshotBack, Whole, Exists
    <2>12. ~undone => Whole(fs', task, record) BY <2>11 DEF Whole
    <2>13. QED BY <1>1, <2>8, <2>9, <2>10, <2>12 DEF SnapshotBack
  <1>4. QED BY <1>2, <1>3

LEMMA RestoreKilled ==
  ASSUME Typed, task.kind = "restore", Undoable, RestoreBack, Killed, Undoable'
  PROVE  RestoreBack'
  <1>1. /\ phase' = "none" /\ pc' = "down" /\ UNCHANGED <<task, record, before, swapped, undone>>
        /\ EngineOK /\ FsTyped
    BY UndoableKilled DEF Typed, WorldTyped
  <1>2. ASSUME fs' = fs
        PROVE  RestoreBack'
    BY <1>1, <1>2 DEF RestoreBack
  <1>3. CASE fs' # fs
    <2>1. PICK p \in Artifacts :
            /\ fs'[p].data = Torn /\ fs'[p].mtime \in {0, fs[p].mtime}
            /\ \A q \in Paths \ {p} : fs'[q] = fs[q]
            /\ pc \in {"do", "undo"} /\ sub < Len(Program)
            /\ \/ NextPrim.op = "clone" /\ p = NextPrim.to
               \/ NextPrim.op = "remove" /\ NextPrim.from # PruneDir /\ p = NextPrim.from /\ Exists(fs, p)
               \/ NextPrim.op = "remove" /\ NextPrim.from = PruneDir
                  /\ \E m \in Names : p = Pruned(m) /\ Exists(fs, p)
      BY <1>1, <1>3, KilledPaths
    <2>2. RestoringNow BY <2>1, RestoringIs
    <2>3. p = NewDir
      <3>1. CASE pc = "do"
        <4>1. /\ at \in 0..(Count(task) - 1) /\ task \in RestoreTasks /\ sub \in Nat /\ at # 6
          BY <2>1, <2>2 DEF RestoringNow
        <4>2. \/ \E op \in BackendOps : NextPrim = Call(op)
              \/ NextPrim = RemoveAll(NewDir) \/ NextPrim = Prim("clone", Snap(task.name), NewDir)
              \/ NextPrim = MatchTopMode(Current, NewDir) \/ NextPrim = EnsureDir(PruneDir)
              \/ NextPrim.op = "move"
          <5>1. \A a, b : Move(a, b).op = "move" BY DEF Move, Prim
          <5>2. QED BY <2>1, <3>1, <4>1, <5>1, RestoreDo DEF Is, BackendOps
        <4>3. QED
          BY <2>1, <4>2, PathKinds DEF Call, RemoveAll, Prim, MatchTopMode, EnsureDir, BackendOps
      <3>2. CASE pc = "undo"
        <4>1. \A m \in Names : at = 4 /\ sub = Len(Listed(task.after)) + 1 => ~Exists(fs, Pruned(m))
          <5>1. ASSUME NEW m \in Names, at = 4, sub = Len(Listed(task.after)) + 1
                PROVE  ~Exists(fs, Pruned(m))
            <6>1. CASE m \in task.after
              <7>1. PICK i \in 1..Len(Listed(task.after)) : Listed(task.after)[i] = m
                BY <2>2, <6>1, ListedFacts DEF RestoringNow
              <7>2. Len(Listed(task.after)) \in Nat /\ Pruning = Listed(task.after)
                BY <2>2, ListedFacts DEF RestoringNow, Pruning
              <7>3. i \in 1..(sub - 1) /\ i <= Len(Pruning) BY <5>1, <7>1, <7>2
              <7>4. QED BY <3>2, <5>1, <7>1, <7>2, <7>3 DEF RestoreBack
            <6>2. CASE m \notin task.after
              <7>1. Pruned(m) \in Artifacts /\ Pruned(m) \notin Own(task)
                BY <2>2, <5>1, <6>2, ArtifactFacts, PathKinds DEF Own, RestoreTasks, RestoringNow
              <7>2. QED BY <7>1 DEF NoOthers, RestoreBack
            <6>3. QED BY <6>1, <6>2
          <5>2. QED BY <5>1
        <4>2. \/ \E op \in BackendOps : NextPrim = Call(op)
              \/ NextPrim = RemoveAll(NewDir)
              \/ NextPrim = ReturnUnless(OldDir) \/ NextPrim = ReturnUnless(PruneDir)
              \/ NextPrim.op = "move"
              \/ NextPrim = RemoveAll(PruneDir) /\ at = 4 /\ sub = Len(Listed(task.after)) + 1
          <5>1. \A a, b : Move(a, b).op = "move" BY DEF Move, Prim
          <5>2. at \in 0..(Commit(task) - 1) /\ sub \in Nat /\ task \in RestoreTasks
            BY <2>2 DEF RestoringNow
          <5>3. QED BY <2>1, <3>2, <5>1, <5>2, RestoreUndo DEF Is, BackendOps
        <4>3. QED
          BY <2>1, <4>1, <4>2, PathKinds DEF Call, RemoveAll, Prim, ReturnUnless, BackendOps
      <3>3. QED BY <2>1, <3>1, <3>2
    <2>4. Keeps({NewDir}) /\ record \in Nat /\ task \in RestoreTasks
      BY <2>1, <2>2, <2>3 DEF Keeps, RestoringNow
    <2>5. RestoreKept BY <1>1, <2>4, RestoreAlone
    <2>6. QED BY <1>1, <2>5 DEF RestoreKept, RestoreBack
  <1>4. QED BY <1>2, <1>3

\* A view whose live content becomes c.
Live(v, c) == [v EXCEPT !.current = c]

\* A client writes to what is live.
LEMMA OldWritten ==
  ASSUME NEW f, NEW g, NEW t \in Tasks, NEW c,
         \A p \in Paths \ {Current} : g[p] = f[p], g[Current].data = c
  PROVE  Old(g, t) = IF t.kind = "restore" /\ Exists(f, OldDir) THEN Old(f, t)
                     ELSE Live(Old(f, t), c)
  <1> DEFINE s == [m \in Names |-> OldSnap(f, t, m)]
             r == [m \in Names |-> OldSnap(g, t, m)]
  <1>1. /\ g[OldDir] = f[OldDir]
        /\ \A m \in Names : g[Snap(m)] = f[Snap(m)] /\ g[Replaced(m)] = f[Replaced(m)] /\ g[Pruned(m)] = f[Pruned(m)]
    BY PathTypes, PathKinds
  <1>2. \A m \in Names : OldSnap(g, t, m) = OldSnap(f, t, m)
    BY <1>1 DEF OldSnap, Exists
  <1>3. OldCurrent(g, t) = IF t.kind = "restore" /\ Exists(f, OldDir) THEN OldCurrent(f, t) ELSE c
    BY <1>1 DEF OldCurrent, Exists
  <1>4. Old(g, t) = Show(OldCurrent(g, t), s)
    <2>1. \A m \in Names : r[m] = s[m] BY <1>2
    <2>2. Show(OldCurrent(g, t), r) = Show(OldCurrent(g, t), s)
      <3> HIDE DEF s, r
      <3>1. QED BY <2>1, ShowSame
    <2>3. QED BY <2>2 DEF Old
  <1>5. Old(f, t) = Show(OldCurrent(f, t), s) BY DEF Old
  <1>6. Live(Show(OldCurrent(f, t), s), c) = Show(c, s)
    <2> HIDE DEF s
    <2>1. QED BY CurrentShown DEF Live
  <1>7. QED BY <1>3, <1>4, <1>5, <1>6

\* What is put back has the write in it, or what is live is thrown away.
LEMMA UndoableWrites ==
  ASSUME Typed, WorldInv, Write, UndoableInv, Undoable'
  PROVE  UndoableInv'
  <1> DEFINE c == written + 1
  <1>1. /\ UNCHANGED <<task, record, pc, phase, at, sub, swapped, undone, marred>> /\ pg /\ FsTyped
        /\ c \in Contents /\ fs'[Current].data = c /\ \A p \in Paths \ {Current} : fs'[p] = fs[p]
    BY WriteFacts DEF EngineSame, Typed, WorldTyped
  <1>2. Undone' = Undone /\ Pruning' = Pruning /\ Commit(task)' = Commit(task) /\ task \in Tasks
    BY <1>1, CountSame, UndoableFacts DEF Undone, Program, StepNow, Pruning
  <1>3. Undoable /\ record # NoRecord BY <1>1, <1>2 DEF Undoable, Soft, Opened
  <1>4. Exists(fs, Current) /\ Exists(fs', Current) /\ fs[Current].data # Empty
    <2>1. Bootable /\ fs[Current].data # Empty
      BY <1>1, OpsAssumption DEF WorldInv, PgUp, Bootable, Contents, Empty
    <2>2. c # Gone BY <1>1 DEF Contents, Gone
    <2>3. QED BY <1>1, <2>1, <2>2, BootableFacts DEF Exists, Missing
  <1>5. \A p \in Paths : Exists(fs', p) <=> Exists(fs, p)
    BY <1>1, <1>4 DEF Exists
  <1>6. Old(fs', task) = IF task.kind = "restore" /\ Exists(fs, OldDir) THEN Old(fs, task)
                         ELSE Live(Old(fs, task), c)
    BY <1>1, <1>2, OldWritten
  <1>7. before' = IF ~swapped THEN Live(before, c) ELSE before
    BY <1>3 DEF Write, Live
  <1>8. \A p \in Artifacts : Exists(fs', p) <=> Exists(fs, p)
    BY <1>5, ArtifactFacts
  <1>9. NoOthers(fs, task) => NoOthers(fs', task) BY <1>8 DEF NoOthers
  <1>10. ASSUME task.kind = "snapshot"
         PROVE  SnapshotBack'
    <2>1. SnapshotBack BY <1>3, <1>10 DEF UndoableInv
    <2>2. task.name \in Names BY <1>2, TaskFacts
    <2>3. before' = Old(fs', task) BY <1>6, <1>7, <1>10, <2>1 DEF SnapshotBack
    <2>4. /\ Exists(fs', Snap(task.name)) <=> Exists(fs, Snap(task.name))
          /\ Exists(fs', Staging(task.name)) <=> Exists(fs, Staging(task.name))
          /\ Exists(fs', Replaced(task.name)) <=> Exists(fs, Replaced(task.name))
      BY <1>5, <2>2, PathTypes
    <2>5. /\ \A k : SnapshotBelow(fs, task, k) => SnapshotBelow(fs', task, k)
          /\ \A k : Whole(fs, task, k) => Whole(fs', task, k)
          /\ OneEnd(fs', task)
      BY <2>1, <2>4 DEF SnapshotBack, SnapshotBelow, Whole, OneEnd
    <2>6. QED BY <1>1, <1>2, <1>4, <1>9, <2>1, <2>3, <2>5 DEF SnapshotBack
  <1>11. ASSUME task.kind = "restore"
         PROVE  RestoreBack'
    <2>1. RestoreBack BY <1>3, <1>11 DEF UndoableInv
    <2>2. task.after \in SUBSET Names /\ \A m \in task.after : Snap(m) \in Paths /\ Pruned(m) \in Paths
      BY <1>2, <1>11, TaskFacts, PathTypes
    <2>3. /\ Exists(fs', OldDir) <=> Exists(fs, OldDir)
          /\ Exists(fs', NewDir) <=> Exists(fs, NewDir)
          /\ Exists(fs', PruneDir) <=> Exists(fs, PruneDir)
          /\ \A m \in task.after : /\ Exists(fs', Snap(m)) <=> Exists(fs, Snap(m))
                                   /\ Exists(fs', Pruned(m)) <=> Exists(fs, Pruned(m))
      BY <1>5, <2>2, PathTypes
    <2>4. swapped <=> Exists(fs, OldDir) BY <1>4, <2>1 DEF RestoreBack, Aside
    <2>5. before' = Old(fs', task)
      BY <1>6, <1>7, <1>11, <2>1, <2>4 DEF RestoreBack
    <2>6. Aside(fs', swapped) /\ Apart(fs', task)
      BY <1>4, <2>1, <2>3, <2>4 DEF RestoreBack, Aside, Apart
    <2>7. \A k : RestoreBelow(fs, task, k) => RestoreBelow(fs', task, k)
      BY <2>3 DEF RestoreBelow
    <2>8. pc = "undo" /\ at = 4 => \A i \in 1..(sub - 1) : i <= Len(Pruning) => ~Exists(fs', Pruned(Pruning[i]))
      <3> SUFFICES ASSUME pc = "undo", at = 4, NEW i \in 1..(sub - 1), i <= Len(Pruning)
                   PROVE  ~Exists(fs', Pruned(Pruning[i]))
        OBVIOUS
      <3>1. Pruning \in [1..Len(Pruning) -> task.after] /\ Len(Pruning) \in Nat /\ sub \in Nat
        BY <2>2, ListedFacts, UndoableFacts DEF Pruning
      <3>2. i \in 1..Len(Pruning) BY <3>1
      <3>3. Pruning[i] \in task.after BY <3>1, <3>2
      <3>4. ~Exists(fs, Pruned(Pruning[i])) BY <2>1 DEF RestoreBack
      <3>5. QED BY <2>3, <3>3, <3>4
    <2>9. QED BY <1>1, <1>2, <1>9, <2>1, <2>3, <2>5, <2>6, <2>7, <2>8 DEF RestoreBack
  <1>12. QED BY <1>1, <1>10, <1>11 DEF UndoableInv

\* A mutation that begins finds nothing of another, and can be put back.
LEMMA BeginsBack ==
  ASSUME Typed, ClosedInv, NEW t \in Tasks, NEW promised, BeginTask(t, promised), fs' = fs, Undoable',
         t.kind = "snapshot" => (t.replaced <=> Exists(fs, Snap(t.name))),
         t.kind = "restore" => \A m \in t.after : Exists(fs, Snap(m))
  PROVE  UndoableInv'
  <1>1. /\ pc = "begin" /\ swapped' = FALSE /\ undone' = FALSE /\ before' = View(fs') /\ sub' = sub
        /\ marred' = marred \cup (IF marred \subseteq {"ensure"} THEN {} ELSE {"leftover"})
    BY BeginMarks
  <1>2. marred \subseteq {"ensure"}
    <2>1. marred' \subseteq {"undo", "ensure", "layout"} BY DEF Undoable, Soft
    <2>2. QED BY <1>1, <2>1
  <1>3. ~Opened /\ phase = "none" /\ at = 0
    BY <1>1 DEF Typed, EngineOK, EngineInv
  <1>4. Exists(fs, Current) /\ NoArtifacts(fs) BY <1>2, <1>3 DEF ClosedInv
  <1>5. record' # NoRecord BY DEF Undoable, Opened
  <1>6. task' = t /\ record' = 0 /\ phase' \in {"run", "none"} /\ pc' \in {"do", "idle"} /\ at' = 0
    <2>1. CASE Begin(t) BY <2>1, BeginFacts
    <2>2. CASE BeginFails(t) BY <1>3, <1>5, <2>2 DEF BeginFails, Opened
    <2>3. QED BY <2>1, <2>2 DEF BeginTask
  <1>7. /\ t.name \in Names
        /\ t.kind = "snapshot" => t.replaced \in BOOLEAN
        /\ t.kind = "restore" => t.after \in SUBSET Names
    BY TaskFacts
  <1>8. /\ ~Exists(fs, NewDir) /\ ~Exists(fs, OldDir) /\ ~Exists(fs, PruneDir)
        /\ \A m \in Names : ~Exists(fs, Staging(m)) /\ ~Exists(fs, Replaced(m)) /\ ~Exists(fs, Pruned(m))
    BY <1>4, ArtifactFacts DEF NoArtifacts
  <1>9. NoOthers(fs, t) BY <1>4 DEF NoArtifacts, NoOthers
  <1>10. before' = Old(fs, t)
    <2> DEFINE s == [m \in Names |-> OldSnap(fs, t, m)]
               r == Snaps(fs)
    <2>1. OldCurrent(fs, t) = fs[Current].data BY <1>8 DEF OldCurrent
    <2>2. \A m \in Names : OldSnap(fs, t, m) = fs[Snap(m)]
      <3>1. CASE t.kind = "snapshot" BY <1>7, <1>8, <3>1 DEF OldSnap, Exists
      <3>2. CASE t.kind = "restore" BY <1>7, <1>8, <3>2 DEF OldSnap
      <3>3. QED BY <3>1, <3>2, TaskFacts
    <2>3. \A m \in Names : s[m] = r[m] BY <2>2 DEF Snaps
    <2>4. Show(fs[Current].data, s) = Show(fs[Current].data, r)
      <3> HIDE DEF s, r
      <3>1. QED BY <2>3, ShowSame
    <2>5. View(fs) = Show(fs[Current].data, Snaps(fs))
      BY ViewTyped DEF Typed, WorldTyped, FsTyped
    <2>6. QED BY <1>1, <2>1, <2>4, <2>5 DEF Old
  <1>11. ASSUME t.kind = "snapshot"
         PROVE  SnapshotBack'
    <2>1. OneEnd(fs, t) /\ SnapshotBelow(fs, t, 0) /\ Whole(fs, t, 0)
      BY <1>7, <1>8, <1>11 DEF OneEnd, SnapshotBelow, Whole
    <2>2. QED BY <1>1, <1>4, <1>6, <1>9, <1>10, <2>1 DEF SnapshotBack
  <1>12. ASSUME t.kind = "restore"
         PROVE  RestoreBack'
    <2>1. Aside(fs, FALSE) /\ Apart(fs, t) /\ RestoreBelow(fs, t, 0)
      BY <1>4, <1>7, <1>8, <1>12 DEF Aside, Apart, RestoreBelow
    <2>2. phase' # "rollback" /\ pc' # "undo" /\ at' # 4 BY <1>6
    <2>3. /\ before' = Old(fs', task') /\ NoOthers(fs', task') /\ Aside(fs', swapped') /\ Apart(fs', task')
          /\ RestoreBelow(fs', task', record') /\ ~Exists(fs', OldDir)
      BY <1>1, <1>6, <1>8, <1>9, <1>10, <2>1
    <2>4. QED BY <2>2, <2>3 DEF RestoreBack
  <1>13. QED BY <1>6, <1>11, <1>12 DEF UndoableInv

\* Both operations begin so.
LEMMA UndoableBegins ==
  ASSUME Typed, WorldInv, ClosedInv, NEW n \in Names, NEW force \in BOOLEAN,
         Snapshot(n, force) \/ Restore(n, force)
  PROVE  UndoableInv'
  <1> SUFFICES ASSUME Undoable' PROVE UndoableInv'
    BY DEF UndoableInv
  <1>1. CASE Snapshot(n, force)
    <2>1. BeginTask(SnapshotTask(n), SnapshotView(View(fs'), n)) /\ fs' = EnsureLayout /\ Bootable
      BY <1>1 DEF Snapshot, SnapshotRefused
    <2>2. fs' = fs BY <2>1, BootableFacts
    <2>3. /\ SnapshotTask(n) \in Tasks /\ SnapshotTask(n).kind = "snapshot"
          /\ SnapshotTask(n).replaced <=> Exists(fs, Snap(SnapshotTask(n).name))
      BY BuiltTasks DEF SnapshotTask
    <2>4. QED BY <2>1, <2>2, <2>3, BeginsBack
  <1>2. CASE Restore(n, force)
    <2>1. BeginTask(RestoreTask(n), RestoreView(View(fs), n)) /\ fs' = fs
      BY <1>2 DEF Restore
    <2>2. /\ RestoreTask(n) \in Tasks /\ RestoreTask(n).kind = "restore"
          /\ \A m \in RestoreTask(n).after : Exists(fs, Snap(m))
      BY BuiltTasks DEF RestoreTask, After
    <2>3. QED BY <2>1, <2>2, BeginsBack
  <1>3. QED BY <1>1, <1>2

\* The bootstrap before a start makes an empty live directory at most, and only
\* where the live data are aside.
LEMMA UndoableBoots ==
  ASSUME Typed, UndoableInv, Bootstrap
  PROVE  UndoableInv'
  <1> SUFFICES ASSUME Undoable' PROVE UndoableInv'
    BY DEF UndoableInv
  <1>1. /\ UNCHANGED <<task, record, pc, phase, at, sub, before, swapped, undone>> /\ pc = "down" /\ phase = "none"
        /\ marred \subseteq marred' /\ FsTyped /\ (fs' = fs \/ (fs' = EnsureLayout /\ ~Exists(fs, Current)))
    BY BootFacts DEF EngineSame, Typed, WorldTyped, EngineOK, EngineInv
  <1>2. Commit(task)' = Commit(task) BY <1>1, CountSame
  <1>3. Undoable /\ task \in Tasks
    BY <1>1, <1>2, UndoableFacts DEF Undoable, Soft, Opened
  <1>4. CASE fs' = fs
    BY <1>1, <1>3, <1>4 DEF UndoableInv, SnapshotBack, RestoreBack
  <1>5. CASE fs' = EnsureLayout /\ ~Exists(fs, Current)
    <2>1. fs'[Current].data = Empty /\ \A p \in Paths \ {Current} : fs'[p] = fs[p]
      BY <1>1, <1>5, LayoutFacts
    <2>2. task.kind = "restore"
      BY <1>3, <1>5, TaskFacts DEF UndoableInv, SnapshotBack
    <2>3. RestoreBack /\ Exists(fs, OldDir) /\ ~swapped
      BY <1>3, <1>5, <2>2 DEF UndoableInv, RestoreBack, Aside
    <2>4. /\ fs'[OldDir] = fs[OldDir] /\ fs'[NewDir] = fs[NewDir] /\ fs'[PruneDir] = fs[PruneDir]
          /\ \A p \in Artifacts : fs'[p] = fs[p]
          /\ \A m \in Names : fs'[Snap(m)] = fs[Snap(m)] /\ fs'[Pruned(m)] = fs[Pruned(m)]
      BY <2>1, PathTypes, PathKinds, ArtifactFacts
    <2>5. task \in RestoreTasks /\ task.after \subseteq Names
      BY <1>3, <2>2, TaskFacts
    <2>6. Old(fs', task) = Old(fs, task)
      BY <2>3, <2>4, <2>5, RestoreOld DEF Exists
    <2>7. NoOthers(fs', task) BY <2>3, <2>4, OthersSame DEF RestoreBack
    <2>8. Aside(fs', swapped) /\ Apart(fs', task) /\ RestoreBelow(fs', task, record)
      BY <2>1, <2>3, <2>4, <2>5 DEF RestoreBack, Aside, Apart, RestoreBelow, Exists
    <2>9. record < 3 => ~Exists(fs', OldDir)
      BY <2>3, <2>4 DEF RestoreBack, Exists
    <2>12. before' = Old(fs', task) /\ task' = task /\ swapped' = swapped /\ record' = record
           /\ pc' = "down" /\ phase' = "none"
      BY <1>1, <2>3, <2>6 DEF RestoreBack
    <2>10. RestoreBack' BY <2>7, <2>8, <2>9, <2>12 DEF RestoreBack
    <2>11. QED BY <1>1, <2>2, <2>10 DEF UndoableInv
  <1>6. QED BY <1>1, <1>4, <1>5

\* A mutation that may be undone can be put back.
LEMMA UndoableNext ==
  ASSUME Typed, WorldInv, SnapshotForward, RestoreForward, ClosedInv, UndoableInv, [Next]_vars
  PROVE  UndoableInv'
  <1> SUFFICES ASSUME Undoable' PROVE UndoableInv'
    BY DEF UndoableInv
  <1>0. task.kind \in {"snapshot", "restore"} BY UndoableFacts, TaskFacts
  <1>1. CASE Quiet \/ Ensures
    <2>1. /\ Undoable /\ Turned /\ UNCHANGED <<task, fs, before, swapped, undone>> /\ marred \subseteq marred'
      BY <1>1, QuietTurns
    <2>2. ASSUME task.kind = "snapshot"
          PROVE  SnapshotBack'
      BY <2>1, <2>2, SnapshotQuiet DEF UndoableInv
    <2>3. ASSUME task.kind = "restore"
          PROVE  RestoreBack'
      BY <2>1, <2>3, RestoreQuiet DEF UndoableInv
    <2>4. QED BY <2>1, <2>2, <2>3 DEF UndoableInv
  <1>2. CASE RunPrim
    <2>1. PICK nil \in BOOLEAN : Undoable /\ Takes(nil)
      BY <1>2, UndoableRuns
    <2>2. ASSUME task.kind = "snapshot"
          PROVE  SnapshotBack'
      BY <2>1, <2>2, SnapshotRuns DEF UndoableInv
    <2>3. ASSUME task.kind = "restore"
          PROVE  RestoreBack'
      BY <2>1, <2>3, RestoreRuns DEF UndoableInv
    <2>4. task' = task BY <2>1 DEF Takes
    <2>5. QED BY <2>2, <2>3, <2>4 DEF UndoableInv
  <1>3. CASE Killed
    <2>1. Undoable /\ task' = task BY <1>3, UndoableKilled
    <2>2. ASSUME task.kind = "snapshot"
          PROVE  SnapshotBack'
      BY <1>3, <2>1, <2>2, SnapshotKilled DEF UndoableInv
    <2>3. ASSUME task.kind = "restore"
          PROVE  RestoreBack'
      BY <1>3, <2>1, <2>3, RestoreKilled DEF UndoableInv
    <2>4. QED BY <2>1, <2>2, <2>3 DEF UndoableInv
  <1>4. CASE Write BY <1>4, UndoableWrites
  <1>5. CASE Start \/ Stop
    <2>1. UNCHANGED <<task, record, pc, phase, at, sub, fs, before, swapped, undone, marred>>
      BY <1>5 DEF Start, Stop, engine, history
    <2>2. Undone' = Undone /\ Pruning' = Pruning /\ Commit(task)' = Commit(task)
      BY <2>1, CountSame DEF Undone, Program, StepNow, Pruning
    <2>3. Undoable BY <2>1, <2>2 DEF Undoable, Soft, Opened
    <2>4. ASSUME task.kind = "snapshot"
          PROVE  SnapshotBack'
      BY <2>1, <2>2, <2>3, <2>4 DEF UndoableInv, SnapshotBack
    <2>5. ASSUME task.kind = "restore"
          PROVE  RestoreBack'
      BY <2>1, <2>2, <2>3, <2>5 DEF UndoableInv, RestoreBack
    <2>6. QED BY <2>1, <2>4, <2>5 DEF UndoableInv
  <1>6. CASE Refuses
    <2>1. pc = "begin" /\ record' = record BY <1>6 DEF Refuses, Refuse
    <2>2. ~Opened BY <2>1 DEF Typed, EngineOK, EngineInv
    <2>3. QED BY <2>1, <2>2 DEF Opened, Undoable
  <1>9. CASE Bootstrap BY <1>9, UndoableBoots
  <1>7. CASE \E n \in Names, force \in BOOLEAN : Snapshot(n, force) \/ Restore(n, force)
    BY <1>7, UndoableBegins
  <1>8. QED BY <1>1, <1>2, <1>3, <1>4, <1>5, <1>6, <1>7, <1>9, NextCases

-----------------------------------------------------------------------------
(* Cleaning up beyond the commit point *)

\* A mutation that is durable.
Clean == Soft /\ Opened /\ record >= Commit(task)

\* The last step of a mutation does something.
LEMMA LastDoes ==
  ASSUME NEW t \in Tasks
  PROVE  Len(DoOf(t, Count(t) - 1)) # 0
  <1>1. CASE t.kind = "snapshot"
    <2>1. t \in SnapshotTasks /\ t.replaced \in BOOLEAN BY <1>1, TaskFacts
    <2>2. \A a : Len(<<a>>) # 0 OBVIOUS
    <2>3. Count(t) - 1 = IF t.replaced THEN 4 ELSE 2 BY <1>1, <2>1 DEF Count
    <2>4. QED BY <2>1, <2>2, <2>3, SnapshotProgram DEF Installs
  <1>2. CASE t.kind = "restore"
    <2>1. t \in RestoreTasks BY <1>2, TaskFacts
    <2>2. Count(t) - 1 = 6 BY <1>2 DEF Count
    <2>3. Len(DoOf(t, 6)) = 2 BY <2>1, RestoreProgram
    <2>4. QED BY <2>2, <2>3
  <1>3. QED BY <1>1, <1>2, TaskFacts

\* Where the engine is then.
LEMMA CleanFacts ==
  ASSUME Typed
  PROVE  /\ task \in Tasks /\ Commit(task) \in {3, 4, 6} /\ Count(task) \in {3, 5, 7}
         /\ record \in -1..7 /\ at \in -1..7 /\ sub \in Nat /\ (sub > 0 => pc \in {"do", "undo"})
         /\ Clean => phase # "rollback" /\ pc # "undo" /\ pc # "begin" /\ record >= 0
         /\ Clean /\ pc \in {"do", "advance"} =>
              at >= Commit(task) /\ phase \in {"run", "rollforward"} /\ record <= at /\ at <= Count(task) - 1
  <1>1. /\ task \in Tasks /\ Commit(task) \in {3, 4, 6} /\ Count(task) \in {3, 5, 7}
        /\ record \in -1..7 /\ at \in -1..7 /\ sub \in Nat /\ (sub > 0 => pc \in {"do", "undo"})
    BY UndoableFacts DEF Typed, EngineOK, EngineInv
  <1>2. Clean => phase # "rollback" /\ pc # "undo" /\ pc # "begin" /\ record >= 0
    BY <1>1 DEF Clean, Typed, EngineOK, EngineInv
  <1>3. pc \in {"do", "advance"} => phase \in {"run", "rollforward"} /\ at <= Count(task) - 1
    BY <1>1 DEF Typed, EngineOK, EngineInv
  <1>4. Clean /\ phase = "run" => record = at /\ at >= Commit(task)
    BY DEF Clean, Typed, EngineOK, EngineInv
  <1>5. phase = "rollforward" => record <= at /\ at >= Commit(task)
    BY DEF Typed, EngineOK, EngineInv
  <1>6. QED BY <1>1, <1>2, <1>3, <1>4, <1>5

\* A step that makes no artifact.
LEMMA CleanKeeps ==
  ASSUME Typed, Clean, CleanInv, task' = task, \A p \in Artifacts : Exists(fs', p) => Exists(fs, p), Exists(fs', Current)
  PROVE  /\ NoOthers(fs', task) /\ Exists(fs', Current)
         /\ task.kind = "snapshot" => ~Exists(fs', Staging(task.name))
         /\ task.kind = "restore" => ~Exists(fs', NewDir)
         /\ NoArtifacts(fs) => NoArtifacts(fs')
         /\ ~Exists(fs, OldDir) => ~Exists(fs', OldDir)
  <1>1. task.name \in Names BY CleanFacts, TaskFacts
  <1>2. /\ NoOthers(fs, task)
        /\ task.kind = "snapshot" => ~Exists(fs, Staging(task.name))
        /\ task.kind = "restore" => ~Exists(fs, NewDir)
    BY DEF Clean, CleanInv
  <1>3. QED BY <1>1, <1>2, ArtifactFacts DEF NoOthers, NoArtifacts

\* Nothing is left of a mutation once its own artifacts are gone.
LEMMA NoneLeft ==
  ASSUME NEW f, NEW t \in Tasks, NoOthers(f, t), \A p \in Own(t) : ~Exists(f, p)
  PROVE  NoArtifacts(f)
  BY DEF NoArtifacts, NoOthers

\* Its last step only removes.
LEMMA CleanRuns ==
  ASSUME Typed, CleanInv, RunPrim, Clean'
  PROVE  CleanInv'
  <1>1. /\ EngineOK /\ FsTyped /\ ctr \in BOOLEAN /\ pc \in {"do", "undo"} /\ sub < Len(Program)
    BY RunPrimFacts DEF Typed, WorldTyped
  <1>2. PICK nil \in BOOLEAN :
          /\ Ran(NextPrim, nil)
          /\ nil => /\ sub' = IF NextPrim.op = "unless" /\ ~Exists(fs, NextPrim.from)
                                THEN Len(Program) ELSE sub + 1
                    /\ EngineSame /\ marred' = marred
          /\ ~nil => /\ sub' = 0
                     /\ pc = "do" => StepFails /\ marred' = marred
                     /\ pc = "undo" => UndoStep(TRUE) /\ marred' = marred \cup {"undo"}
    BY <1>1, RunPrimFacts
  <1>3. task' = task /\ record' = record /\ marred \subseteq marred'
    BY <1>1, <1>2 DEF EngineSame, StepFails, UndoStep
  <1>4. Clean /\ Commit(task)' = Commit(task) /\ Count(task)' = Count(task)
    BY <1>3, CountSame DEF Clean, Soft, Opened
  <1>5. pc = "do" /\ at >= Commit(task) /\ at <= Count(task) - 1 /\ record <= at
    BY <1>1, <1>4, CleanFacts
  <1>6. /\ task \in Tasks /\ Commit(task) \in {3, 4, 6} /\ Count(task) \in {3, 5, 7}
        /\ record \in -1..7 /\ at \in -1..7 /\ sub \in Nat
    BY CleanFacts
  <1>7. PICK p \in Artifacts :
          /\ NextPrim = RemoveAll(p)
          /\ \/ task.kind = "snapshot" /\ task.replaced /\ p = Replaced(task.name) /\ at = 4 /\ sub = 0
                /\ Len(Program) = 1
             \/ task.kind = "restore" /\ at = 6 /\ Len(Program) = 2
                /\ ((sub = 0 /\ p = OldDir) \/ (sub = 1 /\ p = PruneDir))
    BY <1>1, <1>5, CleanupPrims
  <1>8. /\ nil /\ fs'[p] = Missing /\ fs'[Current] = fs[Current]
        /\ \A q \in Artifacts : Exists(fs', q) => Exists(fs, q)
        /\ p = PruneDir => \A m \in Names : ~Exists(fs', Pruned(m))
    <2>1. CASE p = PruneDir
      <3>1. /\ nil /\ fs'[PruneDir] = Missing /\ \A m \in Names : fs'[Pruned(m)] = Missing
            /\ Keeps({PruneDir} \cup {Pruned(m) : m \in Names})
        BY <1>1, <1>2, <1>7, <2>1, RemovePruneFacts
      <3>2. fs'[Current] = fs[Current] BY <3>1, PathTypes, PathKinds DEF Keeps
      <3>3. \A q \in Artifacts : Exists(fs', q) => Exists(fs, q)
        BY <3>1, ArtifactFacts DEF Keeps, Exists
      <3>4. QED BY <2>1, <3>1, <3>2, <3>3 DEF Exists
    <2>2. CASE p # PruneDir
      <3>1. nil /\ fs'[p] = Missing /\ Keeps({p})
        BY <1>1, <1>2, <1>7, <2>2, RemoveFacts, ArtifactFacts
      <3>2. fs'[Current] = fs[Current] /\ \A q \in Artifacts : Exists(fs', q) => Exists(fs, q)
        BY <3>1, ArtifactFacts, CurrentApart DEF Keeps, Exists
      <3>3. QED BY <2>2, <3>1, <3>2
    <2>3. QED BY <2>1, <2>2
  <1>9. UNCHANGED <<pc, at, phase>> /\ sub' = sub + 1 /\ Program' = Program
    <2>1. NextPrim.op # "unless" BY <1>7 DEF RemoveAll, Prim
    <2>2. UNCHANGED <<pc, at, phase>> /\ sub' = sub + 1
      BY <1>2, <1>8, <2>1 DEF EngineSame
    <2>3. QED BY <1>3, <2>2 DEF Program, StepNow
  <1>10. Exists(fs', Current) BY <1>4, <1>8 DEF Clean, CleanInv, Exists
  <1>11. /\ NoOthers(fs', task) /\ Exists(fs', Current)
         /\ task.kind = "snapshot" => ~Exists(fs', Staging(task.name))
         /\ task.kind = "restore" => ~Exists(fs', NewDir)
         /\ ~Exists(fs, OldDir) => ~Exists(fs', OldDir)
    BY <1>3, <1>4, <1>8, <1>10, CleanKeeps
  <1>12. task.kind = "restore" => ~Exists(fs', OldDir)
    <2>1. task.kind = "restore" /\ sub = 0 => p = OldDir BY <1>7
    <2>2. task.kind = "restore" /\ sub = 1 => ~Exists(fs, OldDir)
      BY <1>4, <1>5 DEF Clean, CleanInv
    <2>3. QED BY <1>7, <1>8, <1>11, <2>1, <2>2 DEF Exists
  <1>13. Cleaned' => NoArtifacts(fs')
    <2> SUFFICES ASSUME Cleaned' PROVE NoArtifacts(fs')
      OBVIOUS
    <2>1. sub + 1 = Len(Program) BY <1>3, <1>4, <1>5, <1>6, <1>9 DEF Cleaned
    <2>2. CASE task.kind = "snapshot"
      <3>1. p = Replaced(task.name) /\ task.replaced BY <1>7, <2>2
      <3>2. \A q \in Own(task) : ~Exists(fs', q)
        BY <1>8, <1>11, <2>2, <3>1 DEF Own, Exists
      <3>3. QED BY <1>6, <1>11, <3>2, NoneLeft
    <2>3. CASE task.kind = "restore"
      <3>1. p = PruneDir BY <1>6, <1>7, <2>1, <2>3
      <3>2. task.after \in SUBSET Names BY <1>6, <2>3, TaskFacts
      <3>3. \A q \in Own(task) : ~Exists(fs', q)
        BY <1>8, <1>11, <1>12, <2>3, <3>1, <3>2 DEF Own, Exists
      <3>4. QED BY <1>6, <1>11, <3>3, NoneLeft
    <2>4. QED BY <1>6, <2>2, <2>3, TaskFacts
  <1>14. QED BY <1>3, <1>11, <1>12, <1>13 DEF CleanInv

\* A kill tears nothing but what is being removed.
LEMMA CleanKilled ==
  ASSUME Typed, CleanInv, Killed, Clean'
  PROVE  CleanInv'
  <1>1. /\ phase' = "none" /\ pc' = "down" /\ UNCHANGED <<task, record>> /\ marred \subseteq marred'
        /\ EngineOK /\ FsTyped
    BY DEF Killed, Crash, Mars, Typed, WorldTyped
  <1>2. Clean /\ Count(task)' = Count(task)
    <2>1. Commit(task)' = Commit(task) /\ Count(task)' = Count(task)
      BY <1>1, CountSame
    <2>2. QED BY <1>1, <2>1 DEF Clean, Soft, Opened
  <1>3. fs'[Current] = fs[Current] /\ \A q \in Artifacts : Exists(fs', q) => Exists(fs, q)
    <2>1. CASE fs' = fs BY <2>1
    <2>2. CASE fs' # fs
      <3>1. PICK p \in Artifacts :
              /\ fs'[p].data = Torn /\ fs'[p].mtime \in {0, fs[p].mtime}
              /\ \A q \in Paths \ {p} : fs'[q] = fs[q]
              /\ pc \in {"do", "undo"} /\ sub < Len(Program)
              /\ \/ NextPrim.op = "clone" /\ p = NextPrim.to
                 \/ NextPrim.op = "remove" /\ NextPrim.from # PruneDir /\ p = NextPrim.from /\ Exists(fs, p)
                 \/ NextPrim.op = "remove" /\ NextPrim.from = PruneDir
                    /\ \E m \in Names : p = Pruned(m) /\ Exists(fs, p)
        BY <1>1, <2>2, KilledPaths
      <3>2. pc = "do" /\ at >= Commit(task) BY <1>2, <3>1, CleanFacts
      <3>3. NextPrim.op = "remove"
        BY <1>1, <3>1, <3>2, CleanupPrims DEF RemoveAll, Prim
      <3>4. Exists(fs, p) BY <3>1, <3>3
      <3>5. QED BY <3>1, <3>4, CurrentApart, ArtifactFacts DEF Exists
    <2>3. QED BY <2>1, <2>2
  <1>4. Exists(fs', Current) BY <1>2, <1>3 DEF Clean, CleanInv, Exists
  <1>5. /\ NoOthers(fs', task) /\ Exists(fs', Current)
        /\ task.kind = "snapshot" => ~Exists(fs', Staging(task.name))
        /\ task.kind = "restore" => ~Exists(fs', NewDir)
        /\ NoArtifacts(fs) => NoArtifacts(fs')
    BY <1>1, <1>2, <1>3, <1>4, CleanKeeps
  <1>6. Cleaned' => NoArtifacts(fs) BY <1>1, <1>2 DEF Cleaned, Clean, CleanInv
  <1>7. QED BY <1>1, <1>5, <1>6 DEF CleanInv

\* A write makes no directory.
LEMMA CleanWrites ==
  ASSUME Typed, CleanInv, Write, Clean'
  PROVE  CleanInv'
  <1>1. /\ UNCHANGED <<task, record, pc, phase, at, sub, marred>>
        /\ written + 1 \in Contents /\ fs'[Current].data = written + 1
        /\ \A p \in Paths \ {Current} : fs'[p] = fs[p]
    BY WriteFacts DEF EngineSame
  <1>2. Program' = Program /\ Commit(task)' = Commit(task) /\ Count(task)' = Count(task)
    BY <1>1, CountSame DEF Program, StepNow
  <1>3. Clean /\ (Cleaned' <=> Cleaned)
    BY <1>1, <1>2 DEF Clean, Soft, Opened, Cleaned
  <1>4. Exists(fs', Current) BY <1>1 DEF Exists, Missing, Contents, Gone
  <1>5. \A p \in Artifacts : Exists(fs', p) => Exists(fs, p)
    BY <1>1, ArtifactFacts DEF Exists
  <1>6. /\ NoOthers(fs', task) /\ Exists(fs', Current)
        /\ task.kind = "snapshot" => ~Exists(fs', Staging(task.name))
        /\ task.kind = "restore" => ~Exists(fs', NewDir)
        /\ NoArtifacts(fs) => NoArtifacts(fs')
        /\ ~Exists(fs, OldDir) => ~Exists(fs', OldDir)
    BY <1>1, <1>3, <1>4, <1>5, CleanKeeps
  <1>7. QED BY <1>1, <1>3, <1>6 DEF CleanInv, Clean

\* The engine does not take the clean-up for done.
LEMMA CleanedSame ==
  ASSUME Typed, Clean, Clean', task' = task, Cleaned',
         Quiet \/ Ensures \/ Start \/ Stop
  PROVE  Cleaned
  <1>1. /\ task \in Tasks /\ Commit(task) \in {3, 4, 6} /\ Count(task) \in {3, 5, 7} /\ Commit(task) <= Count(task)
        /\ record \in 0..7 /\ at \in -1..7 /\ sub \in Nat /\ (sub > 0 => pc = "do")
        /\ phase # "rollback" /\ pc # "undo" /\ record >= Commit(task) /\ record # NoRecord
    BY CleanFacts, UndoableFacts DEF Clean, NoRecord
  <1>2. Commit(task)' = Commit(task) /\ Count(task)' = Count(task) BY CountSame
  <1>3. pc' = "do" => Program' = DoOf(task, at') BY DEF Program, StepNow, DoOf
  <1>4. pc' = "do" /\ at' = Count(task) - 1 /\ sub' = 0 => sub' # Len(Program')
    <2> SUFFICES ASSUME pc' = "do", at' = Count(task) - 1, sub' = 0 PROVE sub' # Len(Program')
      OBVIOUS
    <2>1. Len(Program') = Len(DoOf(task, Count(task) - 1)) BY <1>3
    <2>2. QED BY <1>1, <2>1, LastDoes
  <1>5. ASSUME UNCHANGED <<record, pc, phase, at, sub>>
        PROVE  Cleaned
    <2>1. Program' = Program BY <1>5 DEF Program, StepNow
    <2>2. QED BY <1>2, <1>5, <2>1 DEF Cleaned
  <1>6. ASSUME record' = record, phase' = "rollforward", at' = record, pc' = Top(record), sub' = 0
        PROVE  Cleaned
    BY <1>1, <1>2, <1>4, <1>6 DEF Cleaned, Top
  <1>7. ASSUME record' = record, phase' \in {"none", "kept"}
        PROVE  Cleaned
    BY <1>2, <1>7 DEF Cleaned
  <1>8. CASE Starts \/ Requests
    <2>1. PICK who \in {"startup", "request"} : Recover(who) \/ RecoverFails(who)
      BY <1>8 DEF Starts, Requests, Startup, StartupFails, Request, RequestFails
    <2>2. pc \in {"down", "idle"} /\ sub' = sub
      BY <1>8 DEF Starts, Requests, Startup, StartupFails, Request, RequestFails, Still, Idles
    <2>3. phase = "none" /\ sub' = 0
      BY <1>1, <2>2 DEF Typed, EngineOK, EngineInv
    <2>4. CASE Recover(who)
      <3>1. record' = record /\ Resolved(record)
        <4>1. record \in {NoRecord} \cup Nat BY <1>1
        <4>2. QED BY <1>1, <2>4, <4>1, RecoverFacts
      <3>2. QED BY <1>1, <1>6, <2>3, <3>1 DEF Resolved
    <2>5. CASE RecoverFails(who)
      <3>1. record' = record /\ phase' = phase BY <2>5 DEF RecoverFails
      <3>2. QED BY <1>7, <2>3, <3>1
    <2>6. QED BY <2>1, <2>4, <2>5
  <1>9. CASE StepEnds
    <2>1. pc = "do" /\ sub = Len(Program) /\ pc' = "advance" /\ UNCHANGED <<record, phase, at>>
      BY <1>1, <1>9 DEF StepEnds, StepDone
    <2>2. QED BY <1>2, <2>1 DEF Cleaned
  <1>10. CASE Advances
    <2>1. pc = "advance" /\ sub' = 0 /\ record' \in {record, at + 1}
      BY <1>1, <1>10 DEF Advances, AdvanceDone, AdvanceFails, Idles
    <2>2. phase \in {"run", "rollforward"} /\ record <= at /\ at <= Count(task) - 1
      BY <2>1, CleanFacts
    <2>3. at + 1 = Count(task) => Cleaned BY <1>1, <2>1, <2>2 DEF Cleaned
    <2>4. CASE AdvanceDone
      <3>1. /\ record' = at + 1 /\ at' = at + 1 /\ pc' = Top(at + 1)
            /\ phase' = (IF at + 1 = Count(task) THEN "rollforward" ELSE phase)
        BY <1>1, <2>4, AdvanceFacts
      <3>2. QED BY <1>1, <1>2, <1>4, <2>1, <2>2, <2>3, <3>1 DEF Cleaned, Top
    <2>5. CASE AdvanceFails
      <3>1. ForwardFails(at + 1) /\ at + 1 \in Nat
        BY <1>1, <2>2, <2>5 DEF AdvanceFails
      <3>2. \/ phase = "run" /\ Resolved(at + 1)
            \/ phase = "rollforward" /\ phase' = "kept" /\ at' = at
        BY <1>1, <3>1, ForwardFailsFacts
      <3>3. CASE Resolved(at + 1)
        BY <1>1, <1>2, <1>4, <2>1, <2>2, <2>3, <3>3 DEF Cleaned, Top, Resolved
      <3>4. CASE phase' = "kept"
        BY <1>1, <1>2, <2>1, <2>2, <2>3, <3>4 DEF Cleaned
      <3>5. QED BY <3>2, <3>3, <3>4
    <2>6. QED BY <1>10, <2>4, <2>5 DEF Advances
  <1>11. CASE Clears
    <2>1. phase' = "none" /\ record' \in {record, NoRecord}
      BY <1>11 DEF Clears, ClearDone, ClearFails, Return
    <2>2. record' # NoRecord BY DEF Clean, Opened
    <2>3. QED BY <1>7, <2>1, <2>2
  <1>12. CASE UNCHANGED vars \/ Start \/ Stop
    <2>1. UNCHANGED <<record, pc, phase, at, sub>>
      BY <1>12 DEF vars, engine, Start, Stop
    <2>2. QED BY <1>5, <2>1
  <1>13. CASE Ensures
    <2>1. PICK nil \in BOOLEAN : RunEnsures(~nil)
      BY <1>13, EnsureFacts DEF Typed, WorldTyped
    <2>2. record' = record BY <2>1 DEF RunEnsures
    <2>3. CASE phase = "kept"
      <3>1. phase' = "none" BY <2>1, <2>3 DEF RunEnsures, Return
      <3>2. QED BY <1>7, <2>2, <3>1
    <2>4. CASE phase # "kept"
      <3>1. pc' = "clear" /\ UNCHANGED <<phase, at>>
        BY <2>1, <2>4 DEF RunEnsures
      <3>2. QED BY <1>2, <2>2, <3>1 DEF Cleaned
    <2>5. QED BY <2>3, <2>4
  <1>14. QED BY <1>8, <1>9, <1>10, <1>11, <1>12, <1>13 DEF Quiet

\* Steps of the engine alone.
LEMMA CleanQuiet ==
  ASSUME Typed, CleanInv, Clean, Clean', task' = task, fs' = fs, sub' \in {sub, 0}, pc' = pc \/ sub' = 0,
         Quiet \/ Ensures \/ Start \/ Stop
  PROVE  CleanInv'
  <1>1. /\ NoOthers(fs, task) /\ Exists(fs, Current)
        /\ task.kind = "snapshot" => ~Exists(fs, Staging(task.name))
        /\ task.kind = "restore" => ~Exists(fs, NewDir)
        /\ Cleaned => NoArtifacts(fs)
        /\ task.kind = "restore" /\ pc = "do" /\ sub >= 1 => ~Exists(fs, OldDir)
    BY DEF Clean, CleanInv
  <1>2. Cleaned' => Cleaned BY CleanedSame
  <1>3. pc' = "do" /\ sub' >= 1 => pc = "do" /\ sub >= 1 OBVIOUS
  <1>4. QED BY <1>1, <1>2, <1>3 DEF CleanInv

\* The commit point is reached.
LEMMA CleanReached ==
  ASSUME Typed, SnapshotForward, RestoreForward, UndoableInv, Advances, ~Clean, Clean'
  PROVE  CleanInv'
  <1>1. /\ fs' = fs /\ task' = task /\ marred \subseteq marred' /\ pc = "advance" /\ sub' = sub
        /\ record' \in {record, at + 1}
    BY DEF Advances, AdvanceDone, AdvanceFails, Idles, world, Mars
  <1>2. Commit(task)' = Commit(task) /\ Count(task)' = Count(task)
    BY <1>1, CountSame
  <1>3. /\ task \in Tasks /\ Commit(task) \in {3, 4, 6} /\ Count(task) \in {3, 5, 7} /\ Commit(task) <= Count(task)
        /\ Count(task) <= Commit(task) + 1
        /\ record \in -1..7 /\ at \in 0..7 /\ sub = 0 /\ phase \in {"run", "rollforward"} /\ at <= Count(task) - 1
    BY <1>1, UndoableFacts, CleanFacts DEF Typed, EngineOK, EngineInv
  <1>4. Soft /\ Soft' /\ record' >= Commit(task) /\ Opened
    BY <1>1, <1>2, <1>3 DEF Clean, Soft, Opened, Typed, EngineOK, EngineInv
  <1>5. record < Commit(task) BY <1>3, <1>4 DEF Clean
  <1>6. phase = "run" /\ record = at /\ record' = at + 1 /\ at + 1 = Commit(task) /\ Undoable
    <2>1. phase = "run" BY <1>3, <1>4, <1>5 DEF Typed, EngineOK, EngineInv, Soft
    <2>2. record = at BY <2>1 DEF Typed, EngineOK, EngineInv
    <2>3. QED BY <1>1, <1>3, <1>4, <1>5, <2>1, <2>2 DEF Undoable
  <1>7. Exists(fs, Current) /\ NoOthers(fs, task)
    <2>1. CASE task.kind = "snapshot"
      BY <1>6, <2>1 DEF UndoableInv, SnapshotBack
    <2>2. CASE task.kind = "restore"
      <3>1. swapped BY <1>1, <1>3, <1>6, <2>2, CommitReached
      <3>2. QED BY <1>6, <2>2, <3>1 DEF UndoableInv, RestoreBack, Aside
    <2>3. QED BY <1>3, <2>1, <2>2, TaskFacts
  <1>8. task.kind = "snapshot" => ~Exists(fs, Staging(task.name))
    <2>1. task.kind = "snapshot" => Past(Installs(task), 1)
      BY <1>1, <1>3, <1>6 DEF Past, Commit, Installs
    <2>2. QED BY <1>6, <2>1 DEF SnapshotForward, Forward
  <1>9. task.kind = "restore" => ~Exists(fs, NewDir)
    <2>1. task.kind = "restore" => Past(3, 2)
      BY <1>1, <1>3, <1>6 DEF Past, Commit
    <2>2. QED BY <1>6, <2>1 DEF RestoreForward, Forward
  <1>10. Cleaned' => Commit(task) = Count(task)
    <2>1. \/ at' = Commit(task) /\ (Commit(task) < Count(task) => pc' = "do")
          \/ phase' = "kept"
      <3>1. CASE AdvanceDone BY <1>3, <1>6, <3>1, AdvanceFacts DEF Top
      <3>2. CASE AdvanceFails
        <4>1. Resolved(at + 1)
          BY <1>3, <1>6, <3>2, ForwardFailsFacts DEF AdvanceFails
        <4>2. QED BY <1>3, <1>6, <4>1 DEF Resolved, Top
      <3>3. QED BY <3>1, <3>2 DEF Advances
    <2>2. pc' = "do" /\ at' = Count(task) - 1 => Len(Program') # 0
      <3>1. pc' = "do" => Program' = DoOf(task, at')
        BY <1>1 DEF Program, StepNow, DoOf
      <3>2. QED BY <1>3, <3>1, LastDoes
    <2>3. QED BY <1>1, <1>2, <1>3, <1>6, <2>1, <2>2 DEF Cleaned
  <1>11. Cleaned' => NoArtifacts(fs)
    <2> SUFFICES ASSUME Commit(task) = Count(task) PROVE NoArtifacts(fs)
      BY <1>10
    <2>1. task.kind = "snapshot" /\ ~task.replaced
      BY <1>3, TaskFacts DEF Commit, Count
    <2>2. \A p \in Own(task) : ~Exists(fs, p) BY <1>8, <2>1 DEF Own
    <2>3. QED BY <1>3, <1>7, <2>2, NoneLeft
  <1>12. sub' = 0 BY <1>1, <1>3
  <1>13. QED BY <1>1, <1>7, <1>8, <1>9, <1>11, <1>12 DEF CleanInv

\* What is left to clean up is the task's own, and nothing at the end.
LEMMA CleanNext ==
  ASSUME Typed, SnapshotForward, RestoreForward, UndoableInv, CleanInv, [Next]_vars
  PROVE  CleanInv'
  <1> SUFFICES ASSUME Clean' PROVE CleanInv'
    BY DEF Clean, CleanInv
  <1>1. record' # NoRecord /\ Soft' BY DEF Clean, Opened
  <1>2. CASE Quiet \/ Ensures \/ Start \/ Stop
    <2>1. /\ fs' = fs /\ task' = task /\ marred \subseteq marred' /\ sub' \in {sub, 0} /\ (pc' = pc \/ sub' = 0)
          /\ record' = record \/ Advances
      BY <1>1, <1>2, EngineMoves
    <2>3. CASE Clean BY <1>2, <2>1, <2>3, CleanQuiet
    <2>4. CASE ~Clean
      <3>1. CASE Advances BY <2>4, <3>1, CleanReached
      <3>2. CASE ~Advances
        <4>1. record' = record BY <2>1, <3>2
        <4>2. Commit(task)' = Commit(task) BY <2>1, CountSame
        <4>3. QED BY <2>1, <2>4, <4>1, <4>2 DEF Clean, Soft, Opened
      <3>3. QED BY <3>1, <3>2
    <2>5. QED BY <2>3, <2>4
  <1>3. CASE RunPrim BY <1>3, CleanRuns
  <1>4. CASE Killed BY <1>4, CleanKilled
  <1>5. CASE Write BY <1>5, CleanWrites
  <1>6. CASE Refuses
    <2>1. pc = "begin" /\ record' = record BY <1>6 DEF Refuses, Refuse
    <2>2. ~Opened BY <2>1 DEF Typed, EngineOK, EngineInv
    <2>3. QED BY <1>1, <2>1, <2>2 DEF Opened
  <1>7. CASE \E n \in Names, force \in BOOLEAN : Snapshot(n, force) \/ Restore(n, force)
    <2>1. PICK n \in Names, force \in BOOLEAN : Snapshot(n, force) \/ Restore(n, force)
      BY <1>7
    <2>2. PICK t \in Tasks : \E promised : BeginTask(t, promised)
      BY <2>1, BuiltTasks DEF Snapshot, Restore
    <2>3. pc = "begin" BY <2>2, BeginMarks
    <2>4. ~Opened BY <2>3 DEF Typed, EngineOK, EngineInv
    <2>5. task' = t /\ record' = 0
      BY <1>1, <2>2, <2>4, BeginFacts DEF BeginTask, BeginFails, Opened
    <2>6. Commit(task)' = Commit(t) /\ Commit(t) \in {3, 4, 6}
      BY <2>5, TaskFacts DEF Commit
    <2>7. QED BY <2>5, <2>6 DEF Clean
  <1>8. CASE Bootstrap
    <2>1. EngineSame /\ marred \subseteq marred' /\ sub' = sub /\ Commit(task)' = Commit(task)
      BY <1>8, BootFacts, CountSame DEF EngineSame
    <2>2. Clean BY <2>1 DEF Clean, EngineSame, Opened, Soft
    <2>3. fs' = fs BY <1>8, <2>2, BootFacts DEF Clean, CleanInv
    <2>4. Cleaned' => Cleaned
      BY <2>1, CountSame DEF EngineSame, Cleaned, Program, StepNow
    <2>5. QED BY <2>1, <2>2, <2>3, <2>4 DEF CleanInv, Clean, EngineSame
  <1>9. QED BY <1>2, <1>3, <1>4, <1>5, <1>6, <1>7, <1>8, NextCases

-----------------------------------------------------------------------------
(* When no mutation is open *)

\* With nothing aside, what can be put back is there.
LEMMA OldShown ==
  ASSUME NEW f \in [Paths -> Directories], NEW t, \A m \in Names : OldSnap(f, t, m) = f[Snap(m)]
  PROVE  /\ Old(f, t) = Show(OldCurrent(f, t), Snaps(f))
         /\ OldCurrent(f, t) = f[Current].data => Old(f, t) = View(f)
  <1> DEFINE s == [m \in Names |-> OldSnap(f, t, m)]
             r == Snaps(f)
  <1>1. \A m \in Names : s[m] = r[m] BY DEF Snaps
  <1>2. Show(OldCurrent(f, t), s) = Show(OldCurrent(f, t), r)
    <2> HIDE DEF s, r
    <2>1. QED BY <1>1, ShowSame
  <1>3. Old(f, t) = Show(OldCurrent(f, t), Snaps(f)) BY <1>2 DEF Old
  <1>4. View(f) = Show(f[Current].data, Snaps(f)) BY ViewTyped
  <1>5. QED BY <1>3, <1>4

\* A rollback that has come to its end has put everything back, but for the
\* live data when it could not move them.
LEMMA RolledBack ==
  ASSUME Typed, UndoableInv, Undoable, pc = "clear", phase = "rollback"
  PROVE  /\ \/ Exists(fs, Current) /\ View(fs) = before
            \/ Exists(fs, OldDir) /\ before = Show(fs[OldDir].data, Snaps(fs))
         /\ "undo" \notin marred => Exists(fs, Current) /\ View(fs) = before /\ NoArtifacts(fs)
  <1>1. Undone = -1 /\ task \in Tasks /\ fs \in [Paths -> Directories]
    <2>1. at = -1 /\ pc # "undo" BY DEF Typed, EngineOK, EngineInv
    <2>2. QED BY <2>1, UndoableFacts DEF Undone, Typed, WorldTyped, FsTyped
  <1>2. CASE task.kind = "snapshot"
    <2>1. SnapshotBack /\ task.name \in Names /\ task.replaced \in BOOLEAN
      BY <1>1, <1>2, TaskFacts DEF UndoableInv
    <2>2. SnapshotBelow(fs, task, -1) BY <1>1, <2>1 DEF SnapshotBack
    <2>3. /\ ~Exists(fs, Replaced(task.name)) /\ ~Exists(fs, Staging(task.name))
          /\ ~task.replaced => ~Exists(fs, Snap(task.name))
      BY <2>1, <2>2 DEF SnapshotBelow, Installs
    <2>4. \A m \in Names : OldSnap(fs, task, m) = fs[Snap(m)]
      BY <1>2, <2>1, <2>3 DEF OldSnap, Exists
    <2>5. OldCurrent(fs, task) = fs[Current].data BY <1>2 DEF OldCurrent
    <2>6. Old(fs, task) = View(fs) BY <1>1, <2>4, <2>5, OldShown
    <2>7. NoArtifacts(fs)
      <3>1. \A p \in Own(task) : ~Exists(fs, p) BY <1>2, <2>3 DEF Own
      <3>2. QED BY <1>1, <2>1, <3>1, NoneLeft DEF SnapshotBack
    <2>8. QED BY <2>1, <2>6, <2>7 DEF SnapshotBack
  <1>3. CASE task.kind = "restore"
    <2>1. RestoreBack /\ task.after \in SUBSET Names
      BY <1>1, <1>3, TaskFacts DEF UndoableInv
    <2>2. RestoreBelow(fs, task, -1) /\ (~Exists(fs, OldDir) \/ "undo" \in marred)
      BY <1>1, <2>1 DEF RestoreBack
    <2>3. ~Exists(fs, PruneDir) /\ ~Exists(fs, NewDir) /\ \A m \in task.after : ~Exists(fs, Pruned(m))
      BY <2>2 DEF RestoreBelow
    <2>4. \A m \in Names : OldSnap(fs, task, m) = fs[Snap(m)]
      BY <1>3, <2>3 DEF OldSnap
    <2>5. before = Old(fs, task) /\ Old(fs, task) = Show(OldCurrent(fs, task), Snaps(fs))
      BY <1>1, <2>1, <2>4, OldShown DEF RestoreBack
    <2>6. CASE Exists(fs, OldDir)
      <3>1. OldCurrent(fs, task) = fs[OldDir].data BY <1>3, <2>6 DEF OldCurrent
      <3>2. QED BY <2>2, <2>5, <2>6, <3>1
    <2>7. CASE ~Exists(fs, OldDir)
      <3>1. OldCurrent(fs, task) = fs[Current].data /\ Exists(fs, Current)
        BY <1>3, <2>1, <2>7 DEF OldCurrent, RestoreBack, Aside
      <3>2. View(fs) = before BY <1>1, <2>4, <2>5, <3>1, OldShown
      <3>3. \A p \in Own(task) : ~Exists(fs, p) BY <1>3, <2>3, <2>7 DEF Own
      <3>4. NoArtifacts(fs) BY <1>1, <2>1, <3>3, NoneLeft DEF RestoreBack
      <3>5. QED BY <3>1, <3>2, <3>4
    <2>8. QED BY <2>6, <2>7
  <1>4. QED BY <1>1, <1>2, <1>3, TaskFacts

\* The record goes once the slot is whole.
LEMMA ClosedClears ==
  ASSUME Typed, AppliedInv, UndoableInv, CleanInv, Clears, Opened
  PROVE  ClosedInv'
  <1> SUFFICES ASSUME ~Opened' PROVE ClosedInv'
    BY DEF ClosedInv
  <1>1. /\ record' = NoRecord /\ marred' = marred /\ UNCHANGED <<fs, before, after>> /\ pc = "clear"
    BY DEF Opened, Clears, ClearDone, ClearFails, Idles, world, Mars, Again
  <1>2. phase \in {"rollforward", "rollback"} /\ record >= 0
    BY <1>1, UndoableFacts DEF Typed, EngineOK, EngineInv
  <1>3. CASE phase = "rollback"
    <2>1. Soft => Undoable BY <1>3 DEF Undoable, Typed, EngineOK, EngineInv
    <2>2. /\ Soft => \/ Exists(fs, Current) /\ View(fs) = before
                     \/ Exists(fs, OldDir) /\ before = Show(fs[OldDir].data, Snaps(fs))
          /\ marred \subseteq {"ensure"} => Exists(fs, Current) /\ View(fs) = before /\ NoArtifacts(fs)
      BY <1>1, <1>3, <2>1, RolledBack DEF Soft
    <2>3. QED BY <1>1, <2>2 DEF ClosedInv, Soft
  <1>4. CASE phase = "rollforward"
    <2>1. at = Count(task) /\ (record >= Commit(task) \/ "advance" \in marred)
      BY <1>1, <1>4 DEF Typed, EngineOK, EngineInv
    <2>2. View(fs) = after BY <1>4 DEF AppliedInv, Applied
    <2>3. Soft => Exists(fs, Current) /\ NoArtifacts(fs)
      BY <1>4, <2>1 DEF CleanInv, Cleaned, Soft
    <2>4. QED BY <1>1, <2>2, <2>3 DEF ClosedInv, Soft
  <1>5. QED BY <1>2, <1>3, <1>4

\* A client writes between two mutations.
LEMMA ClosedWrites ==
  ASSUME Typed, WorldInv, ClosedInv, Write, ~Opened
  PROVE  ClosedInv'
  <1> DEFINE c == written + 1
  <1>1. /\ UNCHANGED <<record, marred>> /\ pg /\ FsTyped
        /\ c \in Contents /\ fs'[Current].data = c /\ \A p \in Paths \ {Current} : fs'[p] = fs[p]
        /\ View(fs') = Show(c, Snaps(fs)) /\ \A m \in Names : fs'[Snap(m)] = fs[Snap(m)]
    BY WriteFacts DEF EngineSame, Typed, WorldTyped
  <1>2. Exists(fs, Current) /\ Exists(fs', Current)
    <2>1. Bootable BY <1>1 DEF WorldInv, PgUp
    <2>2. QED BY <1>1, <2>1, BootableFacts DEF Exists, Missing, Contents, Gone
  <1>3. View(fs) = Show(fs[Current].data, Snaps(fs))
    BY <1>1, ViewTyped DEF FsTyped
  <1>4. Live(View(fs), c) = View(fs') BY <1>1, <1>3, CurrentShown DEF Live
  <1>5. /\ View(fs) = before => before' = View(fs')
        /\ View(fs) # before => before' = before
        /\ View(fs) = after => after' = View(fs')
    <2>1. record = NoRecord BY DEF Opened
    <2>2. before' = IF View(fs) = before THEN Live(before, c) ELSE before
      BY <2>1 DEF Write, Live
    <2>3. View(fs) = after => after' = Live(after, c) BY <2>1 DEF Write, Live
    <2>4. QED BY <1>4, <2>2, <2>3
  <1>6. Snaps(fs') = Snaps(fs) /\ fs'[OldDir] = fs[OldDir] /\ (NoArtifacts(fs) => NoArtifacts(fs'))
    BY <1>1, ArtifactFacts DEF Snaps, NoArtifacts, Exists
  <1>7. Soft => \/ View(fs') \in {before', after'}
                \/ Exists(fs', OldDir) /\ before' = Show(fs'[OldDir].data, Snaps(fs'))
    <2> SUFFICES ASSUME Soft, View(fs') \notin {before', after'}
                 PROVE  Exists(fs', OldDir) /\ before' = Show(fs'[OldDir].data, Snaps(fs'))
      OBVIOUS
    <2>1. View(fs) # before /\ View(fs) # after BY <1>5
    <2>2. Exists(fs, OldDir) /\ before = Show(fs[OldDir].data, Snaps(fs))
      BY <2>1 DEF ClosedInv
    <2>3. QED BY <1>5, <1>6, <2>1, <2>2 DEF Exists
  <1>8. marred \subseteq {"ensure"} => View(fs') \in {before', after'} /\ NoArtifacts(fs')
    BY <1>5, <1>6 DEF ClosedInv
  <1>9. QED BY <1>1, <1>2, <1>7, <1>8 DEF ClosedInv, Soft

\* A refused snapshot, and the bootstrap before a start, make the live directory
\* when it is gone.
LEMMA ClosedRefuses ==
  ASSUME Typed, ClosedInv, Refuses \/ Bootstrap, ~Opened'
  PROVE  ClosedInv'
  <1>1. /\ UNCHANGED <<record, before, after>> /\ marred \subseteq marred' /\ fs' \in {fs, EnsureLayout}
    BY BootFacts DEF Refuses, Refuse, history, EngineSame
  <1>2. ~Opened /\ FsTyped BY <1>1 DEF Typed, WorldTyped, Opened
  <1>3. CASE fs' = fs BY <1>1, <1>3 DEF ClosedInv, Soft, Opened
  <1>4. CASE fs' = EnsureLayout /\ ~Exists(fs, Current)
    <2>1. \A p \in Paths \ {Current} : fs'[p] = fs[p] BY <1>2, <1>4, LayoutFacts
    <2>2. fs'[OldDir] = fs[OldDir] /\ \A m \in Names : fs'[Snap(m)] = fs[Snap(m)]
      BY <2>1, PathTypes, PathKinds
    <2>3. Snaps(fs') = Snaps(fs) BY <2>2 DEF Snaps
    <2>4. ~(marred \subseteq {"ensure"}) BY <1>2, <1>4 DEF ClosedInv
    <2>5. Soft => Exists(fs, OldDir) /\ before = Show(fs[OldDir].data, Snaps(fs))
      BY <1>2, <1>4 DEF ClosedInv
    <2>6. Soft => Exists(fs', OldDir) /\ before = Show(fs'[OldDir].data, Snaps(fs'))
      BY <2>2, <2>3, <2>5 DEF Exists
    <2>7. QED BY <1>1, <2>4, <2>6 DEF ClosedInv, Soft
  <1>5. QED BY <1>1, <1>2, <1>3, <1>4, LayoutFacts

\* A mutation whose record could not be written leaves the slot as it is.
LEMMA ClosedBegins ==
  ASSUME Typed, ClosedInv, NEW t \in Tasks, NEW promised, BeginTask(t, promised), fs' = fs
  PROVE  ClosedInv'
  <1> SUFFICES ASSUME Soft' PROVE ClosedInv'
    BY DEF ClosedInv, Soft
  <1>1. /\ pc = "begin" /\ before' = View(fs')
        /\ marred' = marred \cup (IF marred \subseteq {"ensure"} THEN {} ELSE {"leftover"})
    BY BeginMarks
  <1>2. marred \subseteq {"ensure"} BY <1>1 DEF Soft
  <1>3. ~Opened BY <1>1 DEF Typed, EngineOK, EngineInv
  <1>4. Exists(fs, Current) /\ NoArtifacts(fs) BY <1>2, <1>3 DEF ClosedInv
  <1>5. QED BY <1>1, <1>4 DEF ClosedInv

\* With no mutation open the slot is whole.
LEMMA ClosedNext ==
  ASSUME Typed, WorldInv, AppliedInv, UndoableInv, CleanInv, ClosedInv, [Next]_vars
  PROVE  ClosedInv'
  <1> SUFFICES ASSUME ~Opened' PROVE ClosedInv'
    BY DEF ClosedInv
  <1>1. CASE RunPrim
    <2>1. pc \in {"do", "undo"} /\ task' = task /\ record' = record
      <3>1. ctr \in BOOLEAN BY DEF Typed, WorldTyped
      <3>2. QED BY <1>1, <3>1, RunPrimFacts DEF EngineSame, StepFails, UndoStep
    <2>2. Opened BY <2>1 DEF Typed, EngineOK, EngineInv
    <2>3. QED BY <2>1, <2>2 DEF Opened
  <1>2. CASE Clears
    <2>1. CASE Opened BY <1>2, <2>1, ClosedClears
    <2>2. CASE ~Opened
      <3>1. pc = "clear" BY <1>2 DEF Clears, ClearDone, ClearFails
      <3>2. QED BY <2>2, <3>1 DEF Typed, EngineOK, EngineInv
    <2>3. QED BY <2>1, <2>2
  <1>3. CASE Killed
    <2>1. record' = record /\ UNCHANGED <<before, after>> /\ marred \subseteq marred'
      BY <1>3 DEF Killed, Crash, Mars
    <2>2. ~Opened BY <2>1 DEF Opened
    <2>3. pc \notin {"do", "undo"} BY <2>2 DEF Typed, EngineOK, EngineInv
    <2>4. fs' = fs BY <1>3, <2>3 DEF Killed
    <2>5. QED BY <2>1, <2>2, <2>4 DEF ClosedInv, Soft
  <1>4. CASE Quiet \/ Ensures \/ Start \/ Stop
    <2> SUFFICES ASSUME ~Clears PROVE ClosedInv'
      BY <1>2
    <2>1. UNCHANGED <<fs, before, after>> /\ marred \subseteq marred' /\ (record' = record \/ Advances)
      BY <1>4, EngineMoves
    <2>2. record' = record
      <3>1. pc = "advance" => at \in 0..7
        BY UndoableFacts DEF Typed, EngineOK, EngineInv
      <3>2. record' = NoRecord BY DEF Opened
      <3>3. QED BY <2>1, <3>1, <3>2 DEF NoRecord, Advances, AdvanceDone, AdvanceFails
    <2>3. QED BY <2>1, <2>2 DEF ClosedInv, Soft, Opened
  <1>5. CASE Write
    <2>1. record' = record BY <1>5, WriteFacts DEF EngineSame
    <2>2. QED BY <1>5, <2>1, ClosedWrites DEF Opened
  <1>6. CASE Refuses \/ Bootstrap BY <1>6, ClosedRefuses
  <1>7. CASE \E n \in Names, force \in BOOLEAN : Snapshot(n, force) \/ Restore(n, force)
    <2>1. PICK n \in Names, force \in BOOLEAN : Snapshot(n, force) \/ Restore(n, force)
      BY <1>7
    <2>2. PICK t \in Tasks : fs' = fs /\ \E promised : BeginTask(t, promised)
      BY <2>1, BuiltTasks, BootableFacts DEF Snapshot, Restore, SnapshotRefused
    <2>3. QED BY <2>2, ClosedBegins
  <1>8. QED BY <1>1, <1>2, <1>3, <1>4, <1>5, <1>6, <1>7, NextCases

-----------------------------------------------------------------------------
(* What an interruption leaves *)

\* Whatever a view holds is on disk.
LEMMA HeldShown ==
  ASSUME NEW c, NEW s, c \in OnDisk \cup {Gone}, \A m \in Names : s[m].data \in OnDisk \cup {Gone}
  PROVE  Held(Show(c, s)) \subseteq OnDisk \cup {Gone}
  BY DEF Held, Show

\* So is what is seen, and what is aside.
LEMMA HeldNow ==
  ASSUME FsTyped
  PROVE  /\ Held(View(fs)) \subseteq OnDisk \cup {Gone}
         /\ Held(Show(fs[OldDir].data, Snaps(fs))) \subseteq OnDisk \cup {Gone}
  <1>1. \A p \in Paths : fs[p].data \in OnDisk BY DEF OnDisk
  <1>2. \A m \in Names : Snaps(fs)[m].data \in OnDisk
    BY <1>1, PathTypes DEF Snaps
  <1>3. View(fs) = Show(fs[Current].data, Snaps(fs)) BY ViewTyped DEF FsTyped
  <1>4. QED BY <1>1, <1>2, <1>3, PathTypes, HeldShown

\* And so is what can be put back.
LEMMA HeldOld ==
  ASSUME FsTyped, NEW t \in Tasks
  PROVE  Held(Old(fs, t)) \subseteq OnDisk \cup {Gone}
  <1> DEFINE s == [m \in Names |-> OldSnap(fs, t, m)]
  <1>1. \A p \in Paths : fs[p].data \in OnDisk BY DEF OnDisk
  <1>2. OldCurrent(fs, t) \in OnDisk BY <1>1, PathTypes DEF OldCurrent
  <1>3. \A m \in Names : OldSnap(fs, t, m) \in {fs[Snap(m)], fs[Replaced(m)], fs[Pruned(m)], Missing}
    BY DEF OldSnap
  <1>4. \A m \in Names : s[m].data \in OnDisk \cup {Gone}
    BY <1>1, <1>3, PathTypes DEF Missing
  <1>5. Held(Show(OldCurrent(fs, t), s)) \subseteq OnDisk \cup {Gone}
    <2> HIDE DEF s
    <2>1. QED BY <1>2, <1>4, HeldShown
  <1>6. QED BY <1>5 DEF Old

\* The inductive invariant.
BackInv == SlotInv /\ UndoableInv /\ CleanInv /\ ClosedInv

LEMMA BackInit == Init => BackInv
  <1> SUFFICES ASSUME Init PROVE BackInv
    OBVIOUS
  <1>1. SlotInv BY SlotInit
  <1>2. /\ record = NoRecord /\ View(fs) = before /\ fs[Current].data = written /\ written \in 0..MaxWrites
        /\ \A p \in Artifacts : fs[p] = Missing
    BY InitFacts DEF EngineInit
  <1>3. Exists(fs, Current) /\ NoArtifacts(fs)
    BY <1>2, OpsAssumption DEF Exists, NoArtifacts, Missing, Gone
  <1>4. QED
    BY <1>1, <1>2, <1>3 DEF BackInv, UndoableInv, Undoable, CleanInv, ClosedInv, Opened

LEMMA BackNext == BackInv /\ [Next]_vars => BackInv'
  BY SlotNext, UndoableNext, CleanNext, ClosedNext DEF BackInv, SlotInv

\* At every instant a snapshot or a restore can be put back as it was or carried
\* to its end, whatever fails, is cancelled or is killed on its way: the
\* inductive invariant of the undos and of the clean-up.
THEOREM SlotRecovers == Spec => []BackInv
  BY BackInit, BackNext, PTL DEF Spec

\* With no journal record left the slot is as before the last mutation or as it
\* promised, with none of its directories behind, through every kill, failing
\* command, full disk and client that goes away, but for the failures marred names.
THEOREM EndsBeforeOrAfter == Spec => []Converged
  <1>1. BackInv => Converged
    BY DEF BackInv, ClosedInv, Converged, NeverBetween, Opened, NoArtifacts
  <1>2. QED BY <1>1, SlotRecovers, PTL

\* Until a mutation is durable everything it may have to put back is on disk,
\* afterwards everything it promised is, and one that was given up destroyed
\* nothing, even when an undo failed.
THEOREM NothingIsLost == Spec => []NothingLost
  <1> DEFINE kept(v) == Held(v) \subseteq OnDisk \cup {Gone}
  <1>1. ASSUME BackInv, Soft
        PROVE  /\ record = NoRecord => View(fs) = after \/ kept(before)
               /\ record >= Commit(task) => kept(after)
               /\ record # NoRecord /\ ~(record >= Commit(task)) => kept(before)
    <2>1. Typed /\ AppliedInv /\ UndoableInv /\ ClosedInv /\ FsTyped /\ task \in Tasks
      BY <1>1, UndoableFacts DEF BackInv, SlotInv, Typed, WorldTyped
    <2>2. kept(View(fs)) /\ kept(Show(fs[OldDir].data, Snaps(fs))) /\ kept(Old(fs, task))
      BY <2>1, HeldNow, HeldOld
    <2>3. record = NoRecord => View(fs) = after \/ kept(before)
      <3> HIDE DEF kept
      <3>1. QED BY <1>1, <2>1, <2>2 DEF ClosedInv, Opened
    <2>4. record >= Commit(task) => kept(after)
      <3> HIDE DEF kept
      <3>1. QED BY <2>1, <2>2 DEF AppliedInv, Applied
    <2>5. record # NoRecord /\ ~(record >= Commit(task)) => before = Old(fs, task)
      <3> SUFFICES ASSUME record # NoRecord, ~(record >= Commit(task)) PROVE before = Old(fs, task)
        OBVIOUS
      <3>1. record < Commit(task) BY <2>1, UndoableFacts
      <3>2. Undoable BY <1>1, <3>1 DEF Undoable, Opened
      <3>3. task.kind \in {"snapshot", "restore"} BY <2>1, TaskFacts
      <3>4. QED BY <2>1, <3>2, <3>3 DEF UndoableInv, SnapshotBack, RestoreBack
    <2>6. QED
      <3> HIDE DEF kept
      <3>1. QED BY <2>2, <2>3, <2>4, <2>5
  <1>2. BackInv => NothingLost
    <2> SUFFICES ASSUME BackInv, Soft
                 PROVE  CASE record = NoRecord      -> View(fs) = after \/ kept(before)
                          [] record >= Commit(task) -> kept(after)
                          [] OTHER                  -> kept(before)
      BY DEF NothingLost, Soft
    <2>1. record = NoRecord => ~(record >= Commit(task))
      BY UndoableFacts DEF NoRecord, BackInv, SlotInv
    <2> HIDE DEF kept
    <2>2. QED BY <1>1, <2>1
  <1>3. QED BY <1>2, SlotRecovers, PTL
=============================================================================
