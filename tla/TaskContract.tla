---------------------------- MODULE TaskContract ----------------------------
(***************************************************************************)
(* The engine of TaskEngine over steps that obey the CONTRACT of           *)
(* internal/task: Do, Undo and Ensure.Run are idempotent and convergent.   *)
(* A step's effect on the world is "none", "partial" or "done"; an         *)
(* interrupted Do or Undo leaves any effect between where it started and   *)
(* where it was going.  PgOps replaces this abstract world by the file     *)
(* system and the container that the steps of ops really act on.           *)
(***************************************************************************)
EXTENDS TaskEngine

CONSTANT HasUndo   \* [Tasks -> set of step indices whose Undo is not nil]

ASSUME ContractAssumption == HasUndo \in [Tasks -> SUBSET Nat]

VARIABLES
  eff,   \* the effect of each step of the task
  post   \* the postcondition the Ensures enforce, e.g. PostgreSQL is running

vars == <<engineVars, eff, post>>

Effect == {"none", "partial", "done"}
StepsOf(t) == 0..(StepCount[t] - 1)
Steps == StepsOf(task)

\* The journal, the running call and the effects keep to their types.
TypeOK ==
  /\ EngineTypeOK
  /\ eff \in [Steps -> Effect]
  /\ post \in BOOLEAN

Init ==
  /\ EngineInit
  /\ eff = [i \in Steps |-> "none"]
  /\ post = TRUE

-----------------------------------------------------------------------------
(* Each action of the engine with what it does to the world. *)

\* A step or its compensation may break the postcondition (stop-postgres,
\* stop-container); only the ensures establish it again.
MayBreak == post' \in {post, FALSE}

EffectOf(i, e) == eff' = [eff EXCEPT ![i] = e]

\* A Do that did not finish, or whose end nobody saw.
Interrupted(i) == \E e \in {eff[i], "partial", "done"} : EffectOf(i, e)

\* An Undo that did not finish, or whose end nobody saw; of a step that was
\* never done it is a no-op.
UndoInterrupted(i) ==
  \E e \in {eff[i], "none"} \cup {x \in {"partial"} : eff[i] # "none"} : EffectOf(i, e)

Unchanged == UNCHANGED <<eff, post>>

Begins(t) == Begin(t) /\ eff' = [i \in StepsOf(t) |-> "none"] /\ UNCHANGED post

BeginsBadly(t) ==
  /\ BeginFails(t)
  /\ IF record' = NoRecord
       THEN UNCHANGED eff
       ELSE eff' = [i \in StepsOf(t) |-> "none"]
  /\ UNCHANGED post

DoStep == StepDone /\ EffectOf(at, "done") /\ MayBreak

DoFails == "do" \in Faults /\ StepFails /\ Interrupted(at) /\ MayBreak

UndoDone ==
  /\ UndoStep(FALSE)
  /\ IF at \in HasUndo[task] THEN EffectOf(at, "none") /\ MayBreak ELSE Unchanged

UndoFails ==
  /\ "undo" \in Faults
  /\ at \in HasUndo[task]
  /\ UndoStep(TRUE)
  /\ UndoInterrupted(at) /\ MayBreak

EnsureDone == RunEnsures(FALSE) /\ post' = TRUE /\ UNCHANGED eff
EnsureFails == "ensure" \in Faults /\ RunEnsures(TRUE) /\ Unchanged

Killed ==
  /\ Crash
  /\ \/ pc = "do" /\ Interrupted(at) /\ MayBreak
     \/ pc = "undo" /\ at \in HasUndo[task] /\ UndoInterrupted(at) /\ MayBreak
     \/ pc \notin {"do", "undo"} /\ Unchanged
     \/ pc = "undo" /\ at \notin HasUndo[task] /\ Unchanged

-----------------------------------------------------------------------------
Starts == Startup /\ Unchanged
Requests == Request /\ Unchanged
Refuses == Refuse /\ Unchanged
RecoveryFails == (StartupFails \/ RequestFails) /\ Unchanged
Advances == AdvanceDone /\ Unchanged
AdvancesBadly == AdvanceFails /\ Unchanged
Clears == ClearDone /\ Unchanged
ClearsBadly == ClearFails /\ Unchanged

Fault ==
  \/ RecoveryFails \/ (\E t \in Tasks : BeginsBadly(t)) \/ DoFails
  \/ AdvancesBadly \/ UndoFails \/ EnsureFails \/ ClearsBadly \/ Killed

\* What the process does next of its own accord once it runs.
Progress ==
  Starts \/ DoStep \/ Advances \/ UndoDone \/ EnsureDone \/ Clears

Next ==
  Progress \/ Requests \/ Refuses \/ (\E t \in Tasks : Begins(t)) \/ Fault

Spec == Init /\ [][Next]_vars

\* systemd starts the daemon again whenever it is gone (Restart=on-failure),
\* and a running process takes its next step.  Nothing obliges a client to
\* send a request.
FairSpec == Spec /\ WF_vars(Progress)

-----------------------------------------------------------------------------
(* Properties *)

AllDone == \A i \in Steps : eff[i] = "done"

\* What rollback owes: no effect of a step that has an Undo, and none of a step
\* behind the commit point.  A step before it without Undo is compensated by
\* the ensures alone.
Owed(t, i) == i \in HasUndo[t] \/ i >= CommitAt[t]
Untouched == \A i \in Steps : Owed(task, i) => eff[i] = "none"

\* A mutation without a journal record is wholly applied or wholly undone: the
\* record is cleared "only once the task is resolved" (task.go:15).
NeverBetween == record = NoRecord => AllDone \/ Untouched

\* Once the disk says the task is durable, the record can only go when every
\* step is done: no crash and no error turns it back.
DurableEndsApplied ==
  [][record # NoRecord /\ record >= CommitAt[task] /\ record' = NoRecord
       => AllDone]_vars

\* task.Run returned nil: the mutation is applied in full and its record gone.
NilMeansApplied ==
  pc = "idle" /\ caller = "run" /\ reply = "nil" => record = NoRecord /\ AllDone

\* A postcondition broken by a step holds again before the record goes,
\* however often the resolution was interrupted.
EnsuredBeforeCleared == record = NoRecord => post

\* Once nothing fails any more, a killed daemon comes back and resolves what it
\* had left behind.
RestartResolves ==
  (<>[][~Fault]_vars) => [](pc = "down" => <>(record = NoRecord))

\* Refinement: the journal record and the effects implement AtomicTask.
AbstractStatus == IF record = NoRecord THEN "closed" ELSE "open"
AbstractOutcome ==
  IF \/ record = NoRecord /\ AllDone
     \/ record > 0 /\ record >= CommitAt[task]
    THEN "applied" ELSE "unapplied"

Abstract == INSTANCE AtomicTask WITH status <- AbstractStatus, outcome <- AbstractOutcome

Atomic == Abstract!Spec

-----------------------------------------------------------------------------
(* The inductive strengthening of NeverBetween and of its companions. *)

\* No undo fails, and a record that lags behind a durable task lags over no
\* step: either Advance does not fail, or the last step is the commit point.
Sound ==
  /\ "undo" \notin Faults
  /\ "advance" \in Faults => \A t \in Tasks : CommitAt[t] = StepCount[t]

\* What the record on disk says of the world, in every state: a durable record
\* promises its steps, any other one promises that nothing beyond the step in
\* progress has happened.
RecordTellsTruth ==
  /\ record = NoRecord => AllDone \/ Untouched
  /\ record # NoRecord /\ record >= CommitAt[task] =>
       \A i \in Steps : i < record => eff[i] = "done"
  /\ record # NoRecord /\ record < CommitAt[task] =>
       \A i \in Steps : i > record => eff[i] = "none"

\* What the running process knows.
ForwardKnows ==
  pc \in {"do", "advance"} =>
    /\ phase \in {"run", "rollforward"}
    /\ at = record /\ at \in Steps
    /\ phase = "rollforward" => record >= CommitAt[task]
    /\ \A i \in Steps : i < at => eff[i] = "done"
    /\ pc = "advance" => eff[at] = "done"

RollbackKnows ==
  pc = "undo" =>
    /\ phase = "rollback" /\ at \in Steps /\ at < CommitAt[task]
    /\ 0 <= record /\ record < CommitAt[task]
    /\ \A i \in Steps : i > at /\ Owed(task, i) => eff[i] = "none"

ResolvedKnows ==
  pc \in {"ensure", "clear"} =>
    /\ record # NoRecord
    /\ phase \in {"rollforward", "kept", "rollback"}
    /\ pc = "clear" => phase # "kept"
    /\ phase = "rollforward" => AllDone
    /\ phase = "rollback" => Untouched /\ record < CommitAt[task]
    /\ phase = "kept" => record >= CommitAt[task]

RestKnows ==
  /\ pc \in {"down", "idle", "begin"} => phase = "none"
  /\ caller = "run" /\ phase = "rollback" => err
  /\ NilMeansApplied

Knows ==
  /\ RecordTellsTruth
  /\ ForwardKnows
  /\ RollbackKnows
  /\ ResolvedKnows
  /\ RestKnows

\* The engine never acts on a wrong idea of the world: what a crash can leave on
\* disk, and what a running call remembers, are true of the effects.
IInv == TypeOK /\ Knows

=============================================================================
