----------------------------- MODULE TaskEngine -----------------------------
(***************************************************************************)
(* The write-ahead journal engine of internal/task: Run, Recover, forward, *)
(* resolve, rollback and ensures, over a FileJournal that holds at most    *)
(* one record.  This module is the CONTROL of the engine, with everything  *)
(* that can fail or be interrupted; what a Step.Do, a Step.Undo or an      *)
(* Ensure.Run does to the world is left to the modules that extend it,     *)
(* which conjoin their own variables to the actions below.                 *)
(*                                                                         *)
(* One process runs the engine at a time (the resident daemon and its      *)
(* mutation mutex).  It may be killed at any instant; the next process     *)
(* replays the journal before it serves, and so does every mutation        *)
(* request (daemon/service.go Snapshot and Restore).                       *)
(***************************************************************************)
EXTENDS Integers

CONSTANTS
  Tasks,      \* the task descriptions: what Record.Kind and Record.Args name
  StepCount,  \* [Tasks -> Nat], len(Task.Steps) of the rebuilt task
  CommitAt,   \* [Tasks -> Nat], Task.Commit
  Faults      \* what may go wrong in a run of the model, a subset of FaultKinds

FaultKinds ==
  {"crash",    \* the process is killed
   "pending",  \* Pending or a Builder returns an error
   "begin",    \* Begin returns an error
   "do",       \* a Step.Do returns an error
   "advance",  \* Advance returns an error
   "undo",     \* a Step.Undo returns an error
   "ensure",   \* an Ensure.Run returns an error
   "clear"}    \* Journal.Commit returns an error

\* Task.validate refuses a Commit outside 0..len(Steps), and every builder of
\* ops has at least one step.
ASSUME EngineAssumption ==
  /\ Tasks # {}
  /\ StepCount \in [Tasks -> Nat \ {0}]
  /\ CommitAt \in [Tasks -> Nat]
  /\ \A t \in Tasks : CommitAt[t] <= StepCount[t]
  /\ Faults \subseteq FaultKinds

NoRecord == -1

VARIABLES
  task,    \* the task of the journal record, and of the running process
  record,  \* Record.Completed on disk, or NoRecord: the file does not exist
  pc,      \* where the process is; "down" when there is none
  caller,  \* who entered the engine: "startup", "request" or "run"
  phase,   \* what the engine is doing with the task
  at,      \* the step index of the running loop; in forward also `completed`
  err,     \* the errors joined so far are not nil
  reply    \* what the last engine call returned: "none", "nil" or "error"

engineVars == <<task, record, pc, caller, phase, at, err, reply>>

\* The record is on a step of its task, and so is the running loop.
EngineTypeOK ==
  /\ task \in Tasks
  /\ record \in {NoRecord} \cup 0..StepCount[task]
  /\ pc \in {"down", "idle", "begin", "do", "advance", "undo", "ensure", "clear"}
  /\ caller \in {"startup", "request", "run"}
  /\ phase \in {"none", "run", "rollforward", "kept", "rollback"}
  /\ at \in -1..StepCount[task]
  /\ err \in BOOLEAN
  /\ reply \in {"none", "nil", "error"}

EngineInit ==
  /\ task \in Tasks
  /\ record = NoRecord
  /\ pc = "down"
  /\ caller = "startup"
  /\ phase = "none"
  /\ at = 0
  /\ err = FALSE
  /\ reply = "none"

-----------------------------------------------------------------------------
(* The decisions of the engine. *)

\* resolve: completed >= t.Commit.
BadDurable(t, n) == n > CommitAt[t]
Durable(t, n) == n >= CommitAt[t]

\* rollback starts at the step in progress, not at the last completed one.
BadRollbackStart(t, n) == n - 1
RollbackStart(t, n) == IF n > StepCount[t] - 1 THEN StepCount[t] - 1 ELSE n

\* The head of the loop of forward; what follows it is always ensures.
LoopTop(t, n) == IF n < StepCount[t] THEN "do" ELSE "ensure"

\* After rollback, ensures run before the record goes.
BadAfterUndo(i) == IF i > 0 THEN "undo" ELSE "clear"
AfterUndo(i) == IF i > 0 THEN "undo" ELSE "ensure"

\* What becomes of the process when the call returns: the handler goes back to
\* idle, a mutation request goes on to task.Run once Recover returned nil, and
\* a daemon whose boot-time Recover failed exits and is started again.
AfterReturn(who, failed) ==
  CASE who = "run"     -> "idle"
    [] who = "request" -> IF failed THEN "idle" ELSE "begin"
    [] who = "startup" -> IF failed THEN "down" ELSE "idle"

BadReturn(failed) ==
  /\ pc' = AfterReturn(caller, FALSE)
  /\ reply' = "nil"
  /\ phase' = "none" /\ at' = 0 /\ err' = FALSE
  /\ UNCHANGED caller

Return(failed) ==
  /\ pc' = AfterReturn(caller, failed)
  /\ reply' = IF failed THEN "error" ELSE "nil"
  /\ phase' = "none" /\ at' = 0 /\ err' = FALSE
  /\ UNCHANGED caller

\* The two branches of resolve(completed).  Run drops the error of a step once
\* the task is applied, and reports it once the task is rolled back.
Resolve(n) ==
  \/ /\ Durable(task, n)
     /\ phase' = "rollforward" /\ at' = n /\ pc' = LoopTop(task, n)
     /\ err' = FALSE
  \/ /\ ~Durable(task, n)
     /\ phase' = "rollback" /\ at' = RollbackStart(task, n) /\ pc' = "undo"
     /\ err' = (phase = "run")

\* forward returned (n, error).  Called by Run it enters resolve(n); called by
\* resolve it leaves the record for the next Recover, after the ensures.
ForwardFails(n) ==
  /\ \/ phase = "run" /\ Resolve(n)
     \/ /\ phase = "rollforward"
        /\ phase' = "kept" /\ pc' = "ensure" /\ err' = TRUE
        /\ UNCHANGED at
  /\ UNCHANGED <<caller, reply>>

-----------------------------------------------------------------------------
(* Entering the engine. *)

\* Recover(ctx, j, reg): nothing pending returns nil, a record is resolved from
\* the progress it holds.  `who` has just entered the engine.
Recover(who) ==
  /\ caller' = who
  /\ IF record = NoRecord
       THEN /\ pc' = AfterReturn(who, FALSE)
            /\ reply' = "nil"
            /\ UNCHANGED <<phase, at, err>>
       ELSE Resolve(record) /\ reply' = "none"
  /\ UNCHANGED <<task, record>>

\* Pending cannot be read, or the builder refuses the record: an error, and
\* nothing else happens.
RecoverFails(who) ==
  /\ "pending" \in Faults
  /\ caller' = who
  /\ pc' = AfterReturn(who, TRUE)
  /\ reply' = "error"
  /\ UNCHANGED <<task, record, phase, at, err>>

\* The daemon starts: RecoverPending comes before the listener.
BadStartup ==
  /\ pc = "down" /\ pc' = "idle"
  /\ UNCHANGED <<task, record, caller, phase, at, err, reply>>
Startup == pc = "down" /\ Recover("startup")
StartupFails == pc = "down" /\ RecoverFails("startup")

\* A mutation request, under the mutex: RecoverPending comes first.
Request == pc = "idle" /\ Recover("request")
RequestFails == pc = "idle" /\ RecoverFails("request")

\* A precheck of ops refuses the request before anything is journalled.
Refuse ==
  /\ pc = "begin"
  /\ caller' = "run" /\ pc' = "idle" /\ reply' = "error"
  /\ UNCHANGED <<task, record, phase, at, err>>

\* Run journals the intent before it touches anything.
Begin(t) ==
  /\ pc = "begin"
  /\ task' = t /\ record' = 0
  /\ caller' = "run" /\ phase' = "run" /\ at' = 0
  /\ pc' = LoopTop(t, 0)
  /\ err' = FALSE /\ reply' = "none"

\* Begin returns an error.  The record is there all the same when the rename
\* went through and the fsync of the directory did not.
BeginFails(t) ==
  /\ "begin" \in Faults
  /\ pc = "begin"
  /\ \/ task' = t /\ record' = 0
     \/ UNCHANGED <<task, record>>
  /\ caller' = "run" /\ pc' = "idle" /\ reply' = "error"
  /\ UNCHANGED <<phase, at, err>>

-----------------------------------------------------------------------------
(* forward *)

StepDone ==
  /\ pc = "do"
  /\ pc' = "advance"
  /\ UNCHANGED <<task, record, caller, phase, at, err, reply>>

StepFails ==
  /\ pc = "do"
  /\ ForwardFails(at)
  /\ UNCHANGED <<task, record>>

BadAdvanceDone ==
  /\ pc = "advance"
  /\ record' = at + 2
  /\ at' = at + 1
  /\ pc' = LoopTop(task, at + 1)
  /\ phase' = IF at + 1 = StepCount[task] THEN "rollforward" ELSE phase
  /\ UNCHANGED <<task, caller, err, reply>>

\* Advance rewrites the record.  When the last step is recorded Run enters
\* resolve with every step completed, which rolls forward over no step at all.
AdvanceDone ==
  /\ pc = "advance"
  /\ record' = at + 1
  /\ at' = at + 1
  /\ pc' = LoopTop(task, at + 1)
  /\ phase' = IF at + 1 = StepCount[task] THEN "rollforward" ELSE phase
  /\ UNCHANGED <<task, caller, err, reply>>

\* Advance returns an error: the step counts as completed in memory, whether or
\* not the write reached the disk.
AdvanceFails ==
  /\ "advance" \in Faults
  /\ pc = "advance"
  /\ record' \in {record, at + 1}
  /\ ForwardFails(at + 1)
  /\ UNCHANGED task

-----------------------------------------------------------------------------
(* rollback, ensures and the end of resolve *)

\* One Undo of the loop.  Its error is collected and the loop goes on.
UndoStep(failed) ==
  /\ pc = "undo"
  /\ at' = at - 1
  /\ pc' = AfterUndo(at)
  /\ err' = (err \/ failed)
  /\ UNCHANGED <<task, record, caller, phase, reply>>

\* The ensures, whose errors are joined.  A task that could not be rolled
\* forward returns here, with its record in place.
RunEnsures(failed) ==
  /\ pc = "ensure"
  /\ IF phase = "kept"
       THEN Return(TRUE)
       ELSE /\ pc' = "clear"
            /\ err' = (err \/ failed)
            /\ UNCHANGED <<caller, phase, at, reply>>
  /\ UNCHANGED <<task, record>>

\* Journal.Commit removes the record, whatever rollback returned.
ClearDone ==
  /\ pc = "clear"
  /\ record' = NoRecord
  /\ Return(err)
  /\ UNCHANGED task

ClearFails ==
  /\ "clear" \in Faults
  /\ pc = "clear"
  /\ record' \in {record, NoRecord}
  /\ Return(TRUE)
  /\ UNCHANGED task

\* The process is killed: what is on disk stays, the rest is gone.
Crash ==
  /\ "crash" \in Faults
  /\ pc # "down"
  /\ pc' = "down"
  /\ caller' = "startup" /\ phase' = "none" /\ at' = 0 /\ err' = FALSE
  /\ reply' = "none"
  /\ UNCHANGED <<task, record>>
=============================================================================
