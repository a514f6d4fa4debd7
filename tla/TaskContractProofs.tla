------------------------- MODULE TaskContractProofs -------------------------
(***************************************************************************)
(* Proofs about TaskContract: for every set of tasks, every number of      *)
(* steps and every commit index, whatever crashes and whatever fails among *)
(* the faults each theorem admits.                                         *)
(***************************************************************************)
EXTENDS TaskContract, TLAPS

-----------------------------------------------------------------------------
(* Type correctness.  The type of `at` rests on where the process is: a loop *)
(* that runs has a step to run; and a task begins on an empty journal.       *)

AtStep ==
  /\ pc \in {"do", "advance", "undo"} => at \in Steps
  /\ pc \in {"down", "idle", "begin"} => at = 0
  /\ pc = "begin" => record = NoRecord
TypeInv == TypeOK /\ AtStep

\* The commit index of a task lies within its steps, of which there is one.
LEMMA TaskShape ==
  ASSUME NEW t \in Tasks
  PROVE  /\ StepCount[t] \in Nat /\ StepCount[t] > 0
         /\ CommitAt[t] \in Nat /\ CommitAt[t] <= StepCount[t]
  BY EngineAssumption

\* resolve(n) leads to a loop over the steps of the task, or past it.
LEMMA ResolveType ==
  ASSUME task \in Tasks, NEW n \in 0..StepCount[task], Resolve(n)
  PROVE  /\ phase' \in {"rollforward", "rollback"}
         /\ pc' \in {"do", "ensure", "undo"}
         /\ at' \in 0..StepCount[task]
         /\ pc' \in {"do", "undo"} => at' \in 0..(StepCount[task] - 1)
         /\ err' \in BOOLEAN
         /\ ~Durable(task, n) => phase' = "rollback" /\ pc' = "undo" /\ at' = n
         /\ Durable(task, n) => phase' = "rollforward" /\ at' = n
         /\ pc' = "ensure" => n = StepCount[task]
  <1> DEFINE N == StepCount[task]
             C == CommitAt[task]
  <1>a. N \in Nat /\ N > 0 /\ C \in Nat /\ C <= N /\ n \in 0..N
    BY TaskShape
  <1>1. CASE Durable(task, n)
    <2>1. phase' = "rollforward" /\ at' = n /\ pc' = LoopTop(task, n) /\ err' = FALSE
      BY <1>1 DEF Resolve
    <2>2. pc' = IF n < N THEN "do" ELSE "ensure"
      BY <2>1 DEF LoopTop
    <2>3. err' \in BOOLEAN
      BY <2>1, Zenon
    <2>4. /\ pc' \in {"do", "ensure", "undo"}
          /\ pc' \in {"do", "undo"} => at' \in 0..(N - 1)
          /\ pc' = "ensure" => n = N
      <3>1. CASE n < N
        BY <1>a, <2>1, <2>2, <3>1
      <3>2. CASE ~(n < N)
        BY <1>a, <2>1, <2>2, <3>2
      <3>3. QED
        BY <3>1, <3>2
    <2>5. QED
      BY <1>1, <1>a, <2>1, <2>3, <2>4
  <1>2. CASE ~Durable(task, n)
    <2>1. phase' = "rollback" /\ at' = RollbackStart(task, n) /\ pc' = "undo"
          /\ err' = (phase = "run")
      BY <1>2 DEF Resolve
    <2>2. n < C
      BY <1>a, <1>2 DEF Durable
    <2>3. at' = n
      BY <1>a, <2>1, <2>2 DEF RollbackStart
    <2>4. err' \in BOOLEAN
      BY <2>1
    <2>5. QED
      BY <1>a, <1>2, <2>1, <2>2, <2>3, <2>4
  <1>3. QED
    BY <1>1, <1>2

\* The effect of one step changes and the others do not.
LEMMA EffectType ==
  ASSUME eff \in [Steps -> Effect], NEW i \in Steps, NEW e \in Effect, EffectOf(i, e)
  PROVE  /\ eff' \in [Steps -> Effect]
         /\ eff'[i] = e
         /\ \A j \in Steps : j # i => eff'[j] = eff[j]
  BY DEF EffectOf

\* An interrupted Do or Undo leaves some effect of its own step and no other; an
\* Undo of a step that was never done leaves none.
LEMMA InterruptedType ==
  ASSUME eff \in [Steps -> Effect], NEW i \in Steps,
         Interrupted(i) \/ UndoInterrupted(i)
  PROVE  /\ eff' \in [Steps -> Effect]
         /\ \A j \in Steps : j # i => eff'[j] = eff[j]
         /\ UndoInterrupted(i) /\ eff[i] = "none" => eff'[i] = "none"
  <1>1. PICK e \in Effect : EffectOf(i, e)
          /\ (UndoInterrupted(i) /\ eff[i] = "none" => e = "none")
    <2>1. CASE UndoInterrupted(i)
      BY <2>1 DEF UndoInterrupted, Effect
    <2>2. CASE ~UndoInterrupted(i)
      BY <2>2 DEF Interrupted, Effect
    <2>3. QED
      BY <2>1, <2>2
  <1>2. QED
    BY <1>1, EffectType

\* The postcondition is a truth value whatever a step does to it.
LEMMA PostType ==
  ASSUME post \in BOOLEAN, MayBreak \/ post' = TRUE \/ UNCHANGED post
  PROVE  post' \in BOOLEAN
  BY Zenon DEF MayBreak

\* The daemon starts with an empty journal and at no step.
LEMMA InitTypeInv == Init => TypeInv
  <1> SUFFICES ASSUME Init PROVE TypeInv
    OBVIOUS
  <1>1. err \in BOOLEAN /\ post \in BOOLEAN
    BY Zenon DEF Init, EngineInit
  <1>2. QED
    BY <1>1, TaskShape DEF Init, EngineInit, TypeInv, TypeOK, EngineTypeOK, AtStep,
       Effect, Steps, StepsOf, NoRecord

\* What Return, ForwardFails and Recover leave of the variables of the process.
LEMMA ReturnType ==
  ASSUME NEW failed \in BOOLEAN, Return(failed),
         caller \in {"startup", "request", "run"}
  PROVE  /\ pc' \in {"idle", "begin", "down"}
         /\ failed => pc' # "begin"
         /\ phase' = "none" /\ at' = 0 /\ err' \in BOOLEAN
         /\ reply' \in {"nil", "error"} /\ caller' = caller
  <1>1. err' \in BOOLEAN
    BY Zenon DEF Return
  <1>2. /\ AfterReturn(caller, failed) \in {"idle", "begin", "down"}
        /\ failed => AfterReturn(caller, failed) # "begin"
    <2>1. CASE failed
      BY <2>1 DEF AfterReturn
    <2>2. CASE ~failed
      BY <2>2 DEF AfterReturn
    <2>3. QED
      BY <2>1, <2>2
  <1>3. reply' \in {"nil", "error"}
    BY Zenon DEF Return
  <1>4. QED
    BY <1>1, <1>2, <1>3 DEF Return

\* A failing forward goes to a loop over the steps of the task or to the ensures.
LEMMA ForwardFailsType ==
  ASSUME task \in Tasks, at \in 0..StepCount[task],
         NEW n \in 0..StepCount[task], ForwardFails(n)
  PROVE  /\ phase' \in {"rollforward", "rollback", "kept"}
         /\ pc' \in {"do", "ensure", "undo"}
         /\ at' \in 0..StepCount[task]
         /\ pc' \in {"do", "undo"} => at' \in 0..(StepCount[task] - 1)
         /\ err' \in BOOLEAN
         /\ caller' = caller /\ reply' = reply
  <1>1. CASE phase = "run" /\ Resolve(n)
    BY <1>1, ResolveType DEF ForwardFails
  <1>2. CASE phase = "rollforward" /\ phase' = "kept" /\ pc' = "ensure"
               /\ err' = TRUE /\ UNCHANGED at
    <2>1. err' \in BOOLEAN
      BY <1>2, Zenon
    <2>2. QED
      BY <1>2, <2>1 DEF ForwardFails
  <1>3. QED
    BY <1>1, <1>2 DEF ForwardFails

\* Recover keeps the types of the engine, from the start and from a request.
LEMMA RecoverType ==
  ASSUME TypeInv, pc \in {"down", "idle"}, NEW who \in {"startup", "request"}, Recover(who)
  PROVE  EngineTypeOK' /\ AtStep'
  <1> USE DEF TypeInv, TypeOK, EngineTypeOK, AtStep, Steps, StepsOf
  <1>1. CASE record = NoRecord
    <2>1. pc' \in {"idle", "begin"} /\ reply' = "nil" /\ caller' = who
          /\ UNCHANGED <<task, record, phase, at, err>>
      BY <1>1 DEF Recover, AfterReturn
    <2>2. err' \in BOOLEAN
      BY <2>1, Zenon
    <2>3. QED
      BY <1>1, <2>1, <2>2
  <1>2. CASE record # NoRecord
    <2>1. Resolve(record) /\ reply' = "none" /\ caller' = who /\ UNCHANGED <<task, record>>
      BY <1>2 DEF Recover
    <2>2. record \in 0..StepCount[task]
      BY <1>2
    <2>3. QED
      BY <2>1, <2>2, ResolveType
  <1>3. QED
    BY <1>1, <1>2

\* Every action keeps the types.
LEMMA NextTypeInv == TypeInv /\ [Next]_vars => TypeInv'
  <1> SUFFICES ASSUME TypeInv, [Next]_vars PROVE TypeInv'
    OBVIOUS
  <1> USE DEF TypeInv, TypeOK, EngineTypeOK, AtStep, Steps, StepsOf
  <1>n. StepCount[task] \in Nat /\ StepCount[task] > 0
    BY TaskShape
  <1>1. CASE Starts
    <2>1. Recover("startup") /\ pc = "down" /\ UNCHANGED <<eff, post>>
      BY <1>1 DEF Starts, Startup, Unchanged
    <2>2. EngineTypeOK' /\ AtStep' /\ task' = task
      BY <2>1, RecoverType DEF Recover
    <2>3. post' \in BOOLEAN
      BY <2>1, Zenon
    <2>4. QED
      BY <2>1, <2>2, <2>3
  <1>2. CASE Requests
    <2>1. Recover("request") /\ pc = "idle" /\ UNCHANGED <<eff, post>>
      BY <1>2 DEF Requests, Request, Unchanged
    <2>2. EngineTypeOK' /\ AtStep' /\ task' = task
      BY <2>1, RecoverType DEF Recover
    <2>3. post' \in BOOLEAN
      BY <2>1, Zenon
    <2>4. QED
      BY <2>1, <2>2, <2>3
  <1>3. CASE Refuses
    <2>1. err' \in BOOLEAN /\ post' \in BOOLEAN
      BY <1>3, Zenon DEF Refuses, Refuse, Unchanged
    <2>2. QED
      BY <1>3, <2>1 DEF Refuses, Refuse, Unchanged
  <1>4. CASE RecoveryFails
    <2>1. err' \in BOOLEAN /\ post' \in BOOLEAN
      BY <1>4, Zenon DEF RecoveryFails, StartupFails, RequestFails, RecoverFails, Unchanged
    <2>2. pc' \in {"idle", "down"}
      BY <1>4 DEF RecoveryFails, StartupFails, RequestFails, RecoverFails, AfterReturn
    <2>3. QED
      BY <1>4, <2>1, <2>2 DEF RecoveryFails, StartupFails, RequestFails, RecoverFails, Unchanged
  <1>5. CASE \E t \in Tasks : Begins(t)
    <2>1. PICK t \in Tasks : Begins(t)
      BY <1>5
    <2>2. err' \in BOOLEAN /\ post' \in BOOLEAN
      BY <2>1, Zenon DEF Begins, Begin
    <2>3. StepCount[t] \in Nat /\ StepCount[t] > 0
      BY TaskShape
    <2>4. pc' = "do" /\ at' = 0 /\ task' = t /\ record' = 0 /\ phase' = "run"
          /\ caller' = "run" /\ reply' = "none"
      BY <2>1, <2>3 DEF Begins, Begin, LoopTop
    <2>5. eff' \in [StepsOf(t) -> Effect]
      BY <2>1 DEF Begins, Effect
    <2>6. QED
      BY <2>2, <2>3, <2>4, <2>5
  <1>6. CASE \E t \in Tasks : BeginsBadly(t)
    <2>1. PICK t \in Tasks : BeginsBadly(t)
      BY <1>6
    <2>2. err' \in BOOLEAN /\ post' \in BOOLEAN
      BY <2>1, Zenon DEF BeginsBadly, BeginFails
    <2>3. StepCount[t] \in Nat /\ StepCount[t] > 0
      BY TaskShape
    <2>4. pc' = "idle" /\ at' = 0 /\ phase' = phase /\ caller' = "run" /\ reply' = "error"
      BY <2>1 DEF BeginsBadly, BeginFails
    <2>5. CASE task' = t /\ record' = 0
      <3>1. eff' = [i \in StepsOf(t) |-> "none"]
        BY <2>1, <2>5 DEF BeginsBadly, BeginFails, NoRecord
      <3>2. eff' \in [StepsOf(t) -> Effect]
        BY <3>1 DEF Effect
      <3>3. QED
        BY <2>2, <2>3, <2>4, <2>5, <3>2
    <2>6. CASE UNCHANGED <<task, record>>
      <3>1. eff' \in [Steps -> Effect]
        BY <2>1, <2>6 DEF BeginsBadly, BeginFails, NoRecord
      <3>2. QED
        BY <1>n, <2>2, <2>4, <2>6, <3>1
    <2>7. QED
      BY <2>1, <2>5, <2>6 DEF BeginsBadly, BeginFails
  <1>7. CASE DoStep
    <2>1. eff' \in [Steps -> Effect]
      BY <1>7, EffectType DEF DoStep, StepDone, Effect
    <2>2. err' \in BOOLEAN /\ post' \in BOOLEAN
      BY <1>7, PostType, Zenon DEF DoStep, StepDone
    <2>3. QED
      BY <1>7, <2>1, <2>2 DEF DoStep, StepDone
  <1>8. CASE DoFails
    <2>1. eff' \in [Steps -> Effect]
      BY <1>8, InterruptedType DEF DoFails, StepFails
    <2>2. post' \in BOOLEAN
      BY <1>8, PostType, Zenon DEF DoFails
    <2>3. ForwardFails(at) /\ UNCHANGED <<task, record>> /\ at \in 0..StepCount[task]
      BY <1>8, <1>n DEF DoFails, StepFails
    <2>4. QED
      BY <2>1, <2>2, <2>3, ForwardFailsType
  <1>9. CASE Advances
    <2>1. err' \in BOOLEAN /\ post' \in BOOLEAN
      BY <1>9, Zenon DEF Advances, AdvanceDone, Unchanged
    <2>2. at' = at + 1 /\ record' = at + 1 /\ at \in 0..(StepCount[task] - 1)
          /\ phase' \in {"rollforward", phase}
          /\ UNCHANGED <<task, caller, reply, eff>>
      BY <1>9 DEF Advances, AdvanceDone, Unchanged
    <2>3. pc' = IF at + 1 < StepCount[task] THEN "do" ELSE "ensure"
      BY <1>9 DEF Advances, AdvanceDone, LoopTop
    <2>4. QED
      BY <1>n, <2>1, <2>2, <2>3
  <1>10. CASE AdvancesBadly
    <2>1. ForwardFails(at + 1) /\ record' \in {record, at + 1} /\ UNCHANGED <<task, eff, post>>
          /\ at \in 0..StepCount[task] /\ at + 1 \in 0..StepCount[task]
      BY <1>10, <1>n DEF AdvancesBadly, AdvanceFails, Unchanged
    <2>2. post' \in BOOLEAN
      BY <2>1, Zenon
    <2>3. QED
      BY <2>1, <2>2, ForwardFailsType
  <1>11. CASE UndoDone \/ UndoFails
    <2>1. eff' \in [Steps -> Effect]
      BY <1>11, EffectType, InterruptedType
      DEF UndoDone, UndoFails, UndoStep, Unchanged, Effect
    <2>2. err' \in BOOLEAN
      BY <1>11, Zenon DEF UndoDone, UndoFails, UndoStep
    <2>3. post' \in BOOLEAN
      BY <1>11, PostType, Zenon DEF UndoDone, UndoFails, Unchanged
    <2>4. at' = at - 1 /\ at \in 0..(StepCount[task] - 1)
          /\ UNCHANGED <<task, record, caller, phase, reply>>
      BY <1>11 DEF UndoDone, UndoFails, UndoStep
    <2>5. pc' = IF at > 0 THEN "undo" ELSE "ensure"
      BY <1>11 DEF UndoDone, UndoFails, UndoStep, AfterUndo
    <2>6. QED
      BY <1>n, <2>1, <2>2, <2>3, <2>4, <2>5
  <1>12. CASE EnsureDone \/ EnsureFails
    <2>1. PICK failed \in BOOLEAN : RunEnsures(failed)
      BY <1>12, Zenon DEF EnsureDone, EnsureFails
    <2>2. post' \in BOOLEAN
      BY <1>12, PostType, Zenon DEF EnsureDone, EnsureFails, Unchanged
    <2>3. eff' = eff /\ UNCHANGED <<task, record>>
      BY <1>12 DEF EnsureDone, EnsureFails, RunEnsures, Unchanged
    <2>4. CASE Return(TRUE)
      <3>1. /\ pc' \in {"idle", "down"} /\ phase' = "none" /\ at' = 0 /\ err' \in BOOLEAN
            /\ reply' \in {"nil", "error"} /\ caller' = caller
        <4>1. PICK f \in BOOLEAN : f /\ Return(f)
          BY <2>4, Zenon
        <4>2. QED
          BY <4>1, ReturnType
      <3>2. QED
        BY <2>2, <2>3, <3>1, <1>n
    <2>5. CASE pc' = "clear" /\ err' = (err \/ failed) /\ UNCHANGED <<caller, phase, at, reply>>
      <3>1. err' \in BOOLEAN
        BY <2>5, Zenon
      <3>2. QED
        BY <2>2, <2>3, <2>5, <3>1
    <2>6. QED
      BY <2>1, <2>4, <2>5, Zenon DEF RunEnsures
  <1>13. CASE Clears \/ ClearsBadly
    <2>1. PICK failed \in BOOLEAN : Return(failed) /\ (failed \/ record' = NoRecord)
      BY <1>13, Zenon DEF Clears, ClearsBadly, ClearDone, ClearFails
    <2>2. record' \in {record, NoRecord} /\ eff' = eff /\ task' = task
      BY <1>13 DEF Clears, ClearsBadly, ClearDone, ClearFails, Unchanged
    <2>3. post' \in BOOLEAN
      BY <1>13, Zenon DEF Clears, ClearsBadly, Unchanged
    <2>4. QED
      BY <1>n, <2>1, <2>2, <2>3, ReturnType
  <1>14. CASE Killed
    <2>1. eff' \in [Steps -> Effect]
      BY <1>14, InterruptedType DEF Killed, Unchanged
    <2>2. err' \in BOOLEAN
      BY <1>14, Zenon DEF Killed, Crash
    <2>3. post' \in BOOLEAN
      BY <1>14, PostType, Zenon DEF Killed, Unchanged
    <2>4. QED
      BY <1>14, <1>n, <2>1, <2>2, <2>3 DEF Killed, Crash
  <1>15. CASE UNCHANGED vars
    <2>1. err' \in BOOLEAN /\ post' \in BOOLEAN
      BY <1>15, Zenon DEF vars, engineVars
    <2>2. QED
      BY <1>15, <2>1 DEF vars, engineVars
  <1>16. QED
    BY <1>1, <1>2, <1>3, <1>4, <1>5, <1>6, <1>7, <1>8, <1>9, <1>10, <1>11, <1>12,
       <1>13, <1>14, <1>15 DEF Next, Progress, Fault

\* Every variable keeps to its type, whatever fails.
THEOREM TypeCorrect == Spec => []TypeOK
  <1>1. TypeInv => TypeOK
    BY DEF TypeInv
  <1>2. QED
    BY InitTypeInv, NextTypeInv, <1>1, PTL DEF Spec

-----------------------------------------------------------------------------
(* Convergence.  Knows says what the disk and the process know about the     *)
(* effects at every point of the engine; it is inductive as long as the      *)
(* faults are Sound.                                                         *)

\* At the start nothing is recorded and no effect is there.
LEMMA InitKnows == Init => Knows
  <1> SUFFICES ASSUME Init PROVE Knows
    OBVIOUS
  <1>1. \A i \in Steps : eff[i] = "none"
    BY DEF Init
  <1>2. record = NoRecord /\ pc = "down" /\ caller = "startup" /\ phase = "none"
    BY DEF Init, EngineInit
  <1>3. RecordTellsTruth
    BY <1>1, <1>2 DEF RecordTellsTruth, Untouched
  <1>4. QED
    BY <1>2, <1>3 DEF Knows, ForwardKnows, RollbackKnows, ResolvedKnows, RestKnows,
       NilMeansApplied

\* What the two branches of resolve(n) establish, when the disk already tells
\* the truth about the steps beyond n.
LEMMA ResolveKnows ==
  ASSUME TypeOK, NEW n \in 0..StepCount[task], Resolve(n),
         task' = task, record' \in 0..StepCount[task],
         Durable(task, n) => /\ \A i \in Steps : i < n => eff'[i] = "done"
                             /\ n = StepCount[task] \/ record' = n,
         ~Durable(task, n) => /\ record' < CommitAt[task]
                              /\ \A i \in Steps : i > n => eff'[i] = "none"
  PROVE  ForwardKnows' /\ RollbackKnows' /\ ResolvedKnows'
  <1> USE DEF TypeOK, EngineTypeOK, Steps, StepsOf
  <1>0. /\ StepCount[task] \in Nat /\ StepCount[task] > 0 /\ CommitAt[task] \in Nat
        /\ CommitAt[task] <= StepCount[task] /\ record' # NoRecord
    BY TaskShape DEF NoRecord
  <1>1. CASE Durable(task, n)
    <2>1. phase' = "rollforward" /\ at' = n /\ pc' = LoopTop(task, n)
      BY <1>1 DEF Resolve
    <2>2. n >= CommitAt[task]
      BY <1>1 DEF Durable
    <2>3. CASE n < StepCount[task]
      BY <1>0, <1>1, <2>1, <2>2, <2>3
      DEF LoopTop, ForwardKnows, RollbackKnows, ResolvedKnows
    <2>4. CASE n = StepCount[task]
      BY <1>0, <1>1, <2>1, <2>2, <2>4
      DEF LoopTop, ForwardKnows, RollbackKnows, ResolvedKnows, AllDone
    <2>5. QED
      BY <1>0, <2>3, <2>4
  <1>2. CASE ~Durable(task, n)
    <2>1. phase' = "rollback" /\ at' = n /\ pc' = "undo"
      BY <1>2, ResolveType
    <2>2. n < CommitAt[task]
      BY <1>0, <1>2 DEF Durable
    <2>3. QED
      BY <1>0, <1>2, <2>1, <2>2
      DEF ForwardKnows, RollbackKnows, ResolvedKnows, Owed
  <1>3. QED
    BY <1>1, <1>2

\* What the record says stays true while it stays, as long as no effect behind
\* a durable record and none beyond the step in progress changes for the worse.
LEMMA TruthKept ==
  ASSUME RecordTellsTruth, record # NoRecord, UNCHANGED <<task, record>>,
         \A i \in Steps : record >= CommitAt[task] /\ i < record /\ eff[i] = "done"
                           => eff'[i] = "done",
         \A i \in Steps : i > record /\ eff[i] = "none" => eff'[i] = "none"
  PROVE  RecordTellsTruth'
  BY DEF RecordTellsTruth, Steps, StepsOf

\* Every step of the engine keeps what is known, under Sound faults.
LEMMA NextKnows ==
  ASSUME Sound, TypeInv, TypeInv', Knows, [Next]_vars
  PROVE  Knows'
  <1> USE DEF TypeInv, TypeOK, EngineTypeOK, AtStep, Steps, StepsOf, Knows
  <1>0. /\ StepCount[task] \in Nat /\ StepCount[task] > 0 /\ CommitAt[task] \in Nat
        /\ CommitAt[task] <= StepCount[task]
    BY TaskShape
  <1>1. CASE Starts \/ Requests
    <2>1. PICK who \in {"startup", "request"} :
            Recover(who) /\ UNCHANGED <<task, record, eff>> /\ pc \in {"down", "idle"}
      BY <1>1 DEF Starts, Startup, Requests, Request, Unchanged, Recover
    <2>2. RecordTellsTruth'
      BY <2>1 DEF RecordTellsTruth, AllDone, Untouched
    <2>3. caller' = who
      BY <2>1 DEF Recover
    <2>4. CASE record = NoRecord
      BY <2>1, <2>2, <2>3, <2>4
      DEF Recover, AfterReturn, ForwardKnows, RollbackKnows, ResolvedKnows, RestKnows,
          NilMeansApplied
    <2>5. CASE record # NoRecord
      <3>1. Resolve(record)
        BY <2>1, <2>5 DEF Recover
      <3>2. ForwardKnows' /\ RollbackKnows' /\ ResolvedKnows'
        BY <1>0, <2>1, <2>5, <3>1, ResolveKnows DEF RecordTellsTruth, Durable
      <3>3. pc' \in {"do", "ensure", "undo"}
        BY <2>5, <3>1, ResolveType
      <3>4. QED
        BY <2>2, <2>3, <3>2, <3>3 DEF RestKnows, NilMeansApplied
    <2>6. QED
      BY <2>4, <2>5
  <1>2. CASE Refuses \/ RecoveryFails
    BY <1>2, <1>0
    DEF Refuses, Refuse, RecoveryFails, StartupFails, RequestFails, RecoverFails, Unchanged,
        AfterReturn, RecordTellsTruth, ForwardKnows, RollbackKnows, ResolvedKnows, RestKnows,
        NilMeansApplied, AllDone, Untouched
  <1>3. CASE \E t \in Tasks : Begins(t)
    <2>1. PICK t \in Tasks : Begins(t)
      BY <1>3
    <2>2. StepCount[t] \in Nat /\ StepCount[t] > 0 /\ CommitAt[t] \in Nat
      BY TaskShape
    <2>3. task' = t /\ record' = 0 /\ pc' = "do" /\ phase' = "run" /\ at' = 0
          /\ caller' = "run" /\ eff' = [i \in StepsOf(t) |-> "none"]
      BY <2>1, <2>2 DEF Begins, Begin, LoopTop
    <2>4. QED
      BY <2>2, <2>3
      DEF RecordTellsTruth, ForwardKnows, RollbackKnows, ResolvedKnows, RestKnows,
          NilMeansApplied, NoRecord
  <1>4. CASE \E t \in Tasks : BeginsBadly(t)
    <2>1. PICK t \in Tasks : BeginsBadly(t)
      BY <1>4
    <2>2. pc' = "idle" /\ caller' = "run" /\ reply' = "error" /\ phase' = phase /\ pc = "begin"
          /\ record = NoRecord /\ err' = err
      BY <2>1 DEF BeginsBadly, BeginFails
    <2>3. CASE task' = t /\ record' = 0
      <3>1. eff' = [i \in StepsOf(t) |-> "none"]
        BY <2>1, <2>3 DEF BeginsBadly, NoRecord
      <3>2. QED
        BY <2>2, <2>3, <3>1
        DEF RecordTellsTruth, ForwardKnows, RollbackKnows, ResolvedKnows, RestKnows,
            NilMeansApplied, NoRecord
    <2>4. CASE UNCHANGED <<task, record>>
      BY <2>1, <2>2, <2>4
      DEF BeginsBadly, RecordTellsTruth, ForwardKnows, RollbackKnows, ResolvedKnows,
          RestKnows, NilMeansApplied, AllDone, Untouched
    <2>5. QED
      BY <2>1, <2>3, <2>4 DEF BeginsBadly, BeginFails
  <1>5. CASE DoStep
    <2>1. eff'[at] = "done" /\ \A i \in Steps : i # at => eff'[i] = eff[i]
      BY <1>5, EffectType DEF DoStep, StepDone, Effect
    <2>2. pc = "do" /\ pc' = "advance" /\ UNCHANGED <<task, record, caller, phase, at, err, reply>>
      BY <1>5 DEF DoStep, StepDone
    <2>3. /\ phase \in {"run", "rollforward"} /\ at = record /\ at \in Steps
          /\ phase = "rollforward" => record >= CommitAt[task]
          /\ \A i \in Steps : i < at => eff[i] = "done"
      BY <2>2 DEF ForwardKnows
    <2>4. RecordTellsTruth'
      BY <1>0, <2>1, <2>2, <2>3, TruthKept DEF NoRecord
    <2>5. ForwardKnows'
      BY <1>0, <2>1, <2>2, <2>3 DEF ForwardKnows
    <2>6. RollbackKnows' /\ ResolvedKnows' /\ RestKnows'
      BY <2>2, <2>3 DEF RollbackKnows, ResolvedKnows, RestKnows, NilMeansApplied
    <2>7. QED
      BY <2>4, <2>5, <2>6
  <1>6. CASE DoFails
    <2>1. \A i \in Steps : i # at => eff'[i] = eff[i]
      BY <1>6, InterruptedType DEF DoFails, StepFails
    <2>2. /\ pc = "do" /\ ForwardFails(at) /\ task' = task /\ record' = record
          /\ caller' = caller /\ reply' = reply /\ at = record /\ at \in Steps
          /\ \A i \in Steps : i < at => eff[i] = "done"
          /\ phase = "rollforward" => record >= CommitAt[task]
      BY <1>6 DEF DoFails, StepFails, ForwardFails, ForwardKnows
    <2>3. RecordTellsTruth'
      BY <1>0, <2>1, <2>2, TruthKept DEF NoRecord
    <2>4. CASE phase = "run" /\ Resolve(at)
      <3>1. ForwardKnows' /\ RollbackKnows' /\ ResolvedKnows'
        BY <1>0, <2>1, <2>2, <2>4, ResolveKnows DEF RecordTellsTruth, Durable, NoRecord
      <3>2. pc' \in {"do", "ensure", "undo"}
        BY <2>2, <2>4, ResolveType
      <3>3. phase' = "rollback" => err'
        BY <2>4, Zenon DEF Resolve
      <3>4. QED
        BY <2>3, <3>1, <3>2, <3>3 DEF RestKnows, NilMeansApplied
    <2>5. CASE phase = "rollforward" /\ phase' = "kept" /\ pc' = "ensure"
      BY <1>0, <2>2, <2>3, <2>5
      DEF ForwardKnows, RollbackKnows, ResolvedKnows, RestKnows, NilMeansApplied, NoRecord
    <2>6. QED
      BY <2>2, <2>4, <2>5 DEF ForwardFails
  <1>7. CASE Advances
    <2>1. /\ pc = "advance" /\ record' = at + 1 /\ at' = at + 1 /\ at \in Steps
          /\ pc' = LoopTop(task, at + 1)
          /\ phase' = IF at + 1 = StepCount[task] THEN "rollforward" ELSE phase
          /\ UNCHANGED <<task, caller, err, reply, eff>>
      BY <1>7 DEF Advances, AdvanceDone, Unchanged
    <2>2. /\ at = record /\ phase \in {"run", "rollforward"}
          /\ phase = "rollforward" => record >= CommitAt[task]
          /\ \A i \in Steps : i < at + 1 => eff[i] = "done"
      BY <2>1 DEF ForwardKnows
    <2>3. RecordTellsTruth'
      BY <1>0, <2>1, <2>2 DEF RecordTellsTruth, NoRecord
    <2>4. CASE at + 1 < StepCount[task]
      BY <1>0, <2>1, <2>2, <2>3, <2>4
      DEF LoopTop, ForwardKnows, RollbackKnows, ResolvedKnows, RestKnows, NilMeansApplied
    <2>5. CASE at + 1 = StepCount[task]
      BY <1>0, <2>1, <2>2, <2>3, <2>5
      DEF LoopTop, ForwardKnows, RollbackKnows, ResolvedKnows, RestKnows, NilMeansApplied,
          AllDone, NoRecord
    <2>6. QED
      BY <1>0, <2>1, <2>4, <2>5
  <1>8. CASE AdvancesBadly
    <2>1. /\ pc = "advance" /\ ForwardFails(at + 1) /\ record' \in {record, at + 1}
          /\ at \in Steps /\ UNCHANGED <<task, caller, reply, eff>>
          /\ CommitAt[task] = StepCount[task]
      BY <1>8 DEF AdvancesBadly, AdvanceFails, ForwardFails, Unchanged, Sound
    <2>2. /\ at = record /\ phase = "run"
          /\ \A i \in Steps : i < at + 1 => eff[i] = "done"
      BY <1>0, <2>1 DEF ForwardKnows
    <2>3. Resolve(at + 1)
      BY <2>1, <2>2 DEF ForwardFails
    <2>4. \A i \in Steps : i > at => eff[i] = "none"
      BY <1>0, <2>1, <2>2 DEF RecordTellsTruth, NoRecord
    <2>5. RecordTellsTruth'
      BY <1>0, <2>1, <2>2, <2>4 DEF RecordTellsTruth, NoRecord
    <2>6. ForwardKnows' /\ RollbackKnows' /\ ResolvedKnows'
      BY <1>0, <2>1, <2>2, <2>3, <2>4, ResolveKnows DEF Durable
    <2>7. pc' \in {"do", "ensure", "undo"}
      BY <1>0, <2>1, <2>3, ResolveType
    <2>8. phase' = "rollback" => err'
      BY <2>2, <2>3, Zenon DEF Resolve
    <2>9. QED
      BY <2>5, <2>6, <2>7, <2>8 DEF RestKnows, NilMeansApplied
  <1>9. CASE UndoDone
    <2>1. /\ pc = "undo" /\ at' = at - 1 /\ pc' = AfterUndo(at) /\ at \in Steps
          /\ UNCHANGED <<task, record, caller, phase, reply>>
      BY <1>9 DEF UndoDone, UndoStep
    <2>2. /\ \A i \in Steps : i # at => eff'[i] = eff[i]
          /\ at \in HasUndo[task] => eff'[at] = "none"
          /\ at \notin HasUndo[task] => eff' = eff
      BY <1>9, EffectType DEF UndoDone, UndoStep, Unchanged, Effect
    <2>3. /\ phase = "rollback" /\ 0 <= record /\ record < CommitAt[task] /\ at < CommitAt[task]
          /\ \A i \in Steps : i > at /\ Owed(task, i) => eff[i] = "none"
      BY <2>1 DEF RollbackKnows
    <2>4. \A i \in Steps : i > at - 1 /\ Owed(task, i) => eff'[i] = "none"
      BY <1>0, <2>1, <2>2, <2>3 DEF Owed
    <2>5. \A i \in Steps : eff[i] = "none" => eff'[i] = "none"
      BY <2>1, <2>2
    <2>6. RecordTellsTruth'
      BY <1>0, <2>1, <2>3, <2>5, TruthKept DEF NoRecord
    <2>7. RestKnows'
      <3>1. caller = "run" => err'
        BY <1>9, <2>3, Zenon DEF UndoDone, UndoStep, RestKnows
      <3>2. QED
        BY <2>1, <3>1 DEF AfterUndo, RestKnows, NilMeansApplied
    <2>8. CASE at > 0
      BY <1>0, <2>1, <2>3, <2>4, <2>6, <2>7, <2>8
      DEF AfterUndo, ForwardKnows, RollbackKnows, ResolvedKnows, Owed
    <2>9. CASE at = 0
      <3>1. Untouched'
        BY <1>0, <2>1, <2>4, <2>9 DEF Untouched, Owed
      <3>2. QED
        BY <1>0, <2>1, <2>3, <2>6, <2>7, <2>9, <3>1
        DEF AfterUndo, ForwardKnows, RollbackKnows, ResolvedKnows, NoRecord
    <2>10. QED
      BY <2>1, <2>8, <2>9
  <1>10. CASE EnsureDone \/ EnsureFails
    <2>1. pc = "ensure" /\ UNCHANGED <<task, record, eff>>
      BY <1>10 DEF EnsureDone, EnsureFails, RunEnsures, Unchanged
    <2>2. RecordTellsTruth'
      BY <2>1 DEF RecordTellsTruth, AllDone, Untouched
    <2>3. CASE phase = "kept"
      <3>1. Return(TRUE)
        BY <1>10, <2>3, Zenon DEF EnsureDone, EnsureFails, RunEnsures
      <3>2. /\ pc' \in {"idle", "down"} /\ reply' = "error" /\ phase' = "none" /\ caller' = caller
        BY <3>1 DEF Return, AfterReturn
      <3>3. QED
        BY <2>2, <3>2
        DEF ForwardKnows, RollbackKnows, ResolvedKnows, RestKnows, NilMeansApplied
    <2>4. CASE phase # "kept"
      <3>1. /\ pc' = "clear" /\ UNCHANGED <<caller, phase, at, reply>>
            /\ err => err'
        BY <1>10, <2>4, Zenon DEF EnsureDone, EnsureFails, RunEnsures
      <3>2. QED
        BY <2>1, <2>2, <2>4, <3>1
        DEF ForwardKnows, RollbackKnows, ResolvedKnows, RestKnows, NilMeansApplied,
            AllDone, Untouched
    <2>5. QED
      BY <2>3, <2>4
  <1>11. CASE Clears \/ ClearsBadly
    <2>1. pc = "clear" /\ UNCHANGED <<task, eff>> /\ record' \in {record, NoRecord}
      BY <1>11 DEF Clears, ClearsBadly, ClearDone, ClearFails, Unchanged
    <2>2. (AllDone \/ Untouched) /\ (phase = "rollforward" => AllDone)
          /\ phase \in {"rollforward", "rollback"}
      BY <2>1 DEF ResolvedKnows
    <2>3. RecordTellsTruth'
      BY <2>1, <2>2 DEF RecordTellsTruth, AllDone, Untouched
    <2>4. PICK failed \in BOOLEAN : Return(failed) /\ (failed \/ (record' = NoRecord /\ ~err))
      BY <1>11, Zenon DEF Clears, ClearsBadly, ClearDone, ClearFails
    <2>5. /\ pc' \in {"idle", "begin", "down"} /\ phase' = "none" /\ caller' = caller
      BY <2>4, ReturnType
    <2>6. NilMeansApplied'
      <3>1. CASE failed
        <4>1. reply' = "error"
          BY <2>4, <3>1 DEF Return
        <4>2. QED
          BY <4>1 DEF NilMeansApplied
      <3>2. CASE ~failed
        <4>1. record' = NoRecord /\ ~err
          BY <2>4, <3>2
        <4>2. caller = "run" => phase # "rollback"
          BY <4>1 DEF RestKnows
        <4>3. QED
          BY <2>1, <2>2, <2>5, <4>1, <4>2 DEF NilMeansApplied, AllDone
      <3>3. QED
        BY <3>1, <3>2
    <2>7. QED
      BY <2>3, <2>5, <2>6 DEF ForwardKnows, RollbackKnows, ResolvedKnows, RestKnows
  <1>12. CASE Killed
    <2>1. /\ pc' = "down" /\ caller' = "startup" /\ phase' = "none"
          /\ UNCHANGED <<task, record>>
      BY <1>12 DEF Killed, Crash
    <2>2. CASE pc = "do"
      <3>1. at \in Steps /\ at = record /\ \A i \in Steps : i # at => eff'[i] = eff[i]
        BY <1>12, <2>2, InterruptedType DEF Killed, ForwardKnows
      <3>2. RecordTellsTruth'
        BY <1>0, <2>1, <3>1 DEF RecordTellsTruth, NoRecord
      <3>3. QED
        BY <2>1, <3>2
        DEF ForwardKnows, RollbackKnows, ResolvedKnows, RestKnows, NilMeansApplied
    <2>3. CASE pc = "undo"
      <3>1. \A i \in Steps : eff[i] = "none" => eff'[i] = "none"
        BY <1>12, <2>3, InterruptedType DEF Killed, Unchanged
      <3>2. 0 <= record /\ record < CommitAt[task]
        BY <2>3 DEF RollbackKnows
      <3>3. RecordTellsTruth'
        BY <1>0, <2>1, <3>1, <3>2 DEF RecordTellsTruth, NoRecord
      <3>4. QED
        BY <2>1, <3>3
        DEF ForwardKnows, RollbackKnows, ResolvedKnows, RestKnows, NilMeansApplied
    <2>4. CASE pc \notin {"do", "undo"}
      <3>1. eff' = eff
        BY <1>12, <2>4 DEF Killed, Unchanged
      <3>2. QED
        BY <2>1, <3>1
        DEF RecordTellsTruth, AllDone, Untouched, ForwardKnows, RollbackKnows,
            ResolvedKnows, RestKnows, NilMeansApplied
    <2>5. QED
      BY <2>2, <2>3, <2>4
  <1>13. CASE UNCHANGED vars
    BY <1>13
    DEF vars, engineVars, RecordTellsTruth, AllDone, Untouched, ForwardKnows, RollbackKnows,
        ResolvedKnows, RestKnows, NilMeansApplied, Owed
  <1>14. ~UndoFails
    BY DEF UndoFails, Sound
  <1>15. QED
    BY <1>1, <1>2, <1>3, <1>4, <1>5, <1>6, <1>7, <1>8, <1>9, <1>10, <1>11, <1>12,
       <1>13, <1>14 DEF Next, Progress, Fault

\* The inductive invariant holds under Sound faults.
THEOREM Invariance == Sound => (Spec => []IInv)
  <1>1. SUFFICES ASSUME Sound PROVE Spec => []IInv
    OBVIOUS
  <1>2. Init => TypeInv /\ Knows
    BY InitTypeInv, InitKnows
  <1>3. TypeInv /\ Knows /\ [Next]_vars => (TypeInv /\ Knows)'
    BY <1>1, NextTypeInv, NextKnows
  <1>4. TypeInv /\ Knows => IInv
    BY DEF TypeInv, IInv
  <1>5. QED
    BY <1>2, <1>3, <1>4, PTL DEF Spec

\* A mutation without a journal record is wholly applied or wholly undone,
\* however often the daemon was killed, whatever step or ensure failed, and
\* whatever the journal failed to write or to remove.
THEOREM Convergence == Sound => (Spec => []NeverBetween)
  <1>1. IInv => NeverBetween
    BY DEF IInv, Knows, RecordTellsTruth, NeverBetween
  <1>2. QED
    BY <1>1, Invariance, PTL

\* task.Run that returned nil applied the whole mutation.
THEOREM NilIsApplied == Sound => (Spec => []NilMeansApplied)
  <1>1. IInv => NilMeansApplied
    BY DEF IInv, Knows, RestKnows
  <1>2. QED
    BY <1>1, Invariance, PTL

\* A record that says "durable" is only ever removed once every step is done.
THEOREM DurableIsFinal == Sound => (Spec => DurableEndsApplied)
  <1>1. SUFFICES ASSUME Sound PROVE Spec => DurableEndsApplied
    OBVIOUS
  <1> DEFINE A == record # NoRecord /\ record >= CommitAt[task] /\ record' = NoRecord
                    => AllDone
  <1>2. IInv /\ [Next]_vars => A
    <2> SUFFICES ASSUME IInv, [Next]_vars, record # NoRecord, record >= CommitAt[task],
                        record' = NoRecord
                 PROVE  AllDone
      OBVIOUS
    <2> USE DEF IInv, TypeOK, EngineTypeOK, Knows
    <2>0. StepCount[task] \in Nat /\ CommitAt[task] \in Nat
      BY TaskShape
    <2>1. pc = "clear"
      <3>1. record' # record
        OBVIOUS
      <3>2. ~(\E t \in Tasks : Begins(t) \/ BeginsBadly(t))
        BY DEF Begins, Begin, BeginsBadly, BeginFails, NoRecord
      <3>3. ~Advances
        <4>1. pc = "advance" => at + 1 # NoRecord
          BY <2>0 DEF ForwardKnows, Steps, StepsOf, NoRecord
        <4>2. QED
          BY <4>1 DEF Advances, AdvanceDone
      <3>4. ~AdvancesBadly
        <4>1. pc = "advance" => at + 1 # NoRecord
          BY <2>0 DEF ForwardKnows, Steps, StepsOf, NoRecord
        <4>2. QED
          BY <3>1, <4>1 DEF AdvancesBadly, AdvanceFails
      <3>5. Clears \/ ClearsBadly
        BY <3>1, <3>2, <3>3, <3>4
        DEF Next, Progress, Fault, Starts, Startup, Requests, Request, Recover, Refuses,
            Refuse, RecoveryFails, StartupFails, RequestFails, RecoverFails, DoStep, StepDone,
            DoFails, StepFails, UndoDone, UndoFails, UndoStep, EnsureDone, EnsureFails,
            RunEnsures, Killed, Crash, vars, engineVars
      <3>6. QED
        BY <3>5 DEF Clears, ClearsBadly, ClearDone, ClearFails
    <2>2. QED
      BY <2>0, <2>1 DEF ResolvedKnows
  <1>3. Spec => []IInv
    BY <1>1, Invariance
  <1>4. QED
    BY <1>2, <1>3, PTL DEF Spec, DurableEndsApplied

-----------------------------------------------------------------------------
(* The postcondition. *)

\* From the first step on the record is there, and it goes after the ensures.
EnsureInv ==
  /\ EnsuredBeforeCleared
  /\ pc = "clear" => post
  /\ pc \in {"do", "advance", "undo", "ensure", "clear"} => record # NoRecord

\* Every step keeps the postcondition behind the record, unless an ensure fails.
LEMMA NextEnsureInv ==
  ASSUME "ensure" \notin Faults, TypeInv, EnsureInv, [Next]_vars
  PROVE  EnsureInv'
  <1> USE DEF EnsureInv, EnsuredBeforeCleared, TypeInv, TypeOK, EngineTypeOK, AtStep,
              Steps, StepsOf
  <1>0. StepCount[task] \in Nat
    BY TaskShape
  <1>1. CASE Starts \/ Requests
    <2>1. PICK who \in {"startup", "request"} : Recover(who) /\ UNCHANGED <<task, record, post>>
      BY <1>1 DEF Starts, Startup, Requests, Request, Unchanged, Recover
    <2>2. CASE record = NoRecord
      BY <2>1, <2>2 DEF Recover, AfterReturn
    <2>3. CASE record # NoRecord
      <3>1. Resolve(record) /\ record \in 0..StepCount[task]
        BY <2>1, <2>3 DEF Recover
      <3>2. QED
        BY <2>1, <2>3, <3>1, ResolveType
    <2>4. QED
      BY <2>2, <2>3
  <1>2. CASE Refuses \/ RecoveryFails
    BY <1>2
    DEF Refuses, Refuse, RecoveryFails, StartupFails, RequestFails, RecoverFails, Unchanged,
        AfterReturn
  <1>3. CASE \E t \in Tasks : Begins(t) \/ BeginsBadly(t)
    <2>1. PICK t \in Tasks : Begins(t) \/ BeginsBadly(t)
      BY <1>3
    <2>2. pc = "begin" /\ post' = post /\ pc' \in {"do", "ensure", "idle"} /\ record' \in {0, record}
          /\ (pc' # "idle" => record' = 0)
      BY <2>1 DEF Begins, Begin, BeginsBadly, BeginFails, LoopTop
    <2>3. QED
      BY <2>2 DEF NoRecord
  <1>4. CASE DoStep \/ DoFails \/ UndoDone \/ UndoFails
    <2>1. record' = record /\ pc \in {"do", "undo"}
      BY <1>4 DEF DoStep, StepDone, DoFails, StepFails, UndoDone, UndoFails, UndoStep
    <2>2. pc' # "clear"
      <3>1. CASE DoFails
        BY <1>0, <3>1, ForwardFailsType DEF DoFails, StepFails
      <3>2. CASE ~DoFails
        BY <1>4, <3>2 DEF DoStep, StepDone, UndoDone, UndoFails, UndoStep, AfterUndo
      <3>3. QED
        BY <3>1, <3>2
    <2>3. QED
      BY <2>1, <2>2
  <1>5. CASE Advances \/ AdvancesBadly
    <2>1. pc = "advance" /\ post' = post /\ record' \in {record, at + 1} /\ task' = task
          /\ at \in Steps
      BY <1>5 DEF Advances, AdvanceDone, AdvancesBadly, AdvanceFails, Unchanged
    <2>2. pc' # "clear"
      <3>1. CASE Advances
        BY <3>1 DEF Advances, AdvanceDone, LoopTop
      <3>2. CASE AdvancesBadly
        BY <1>0, <2>1, <3>2, ForwardFailsType DEF AdvancesBadly, AdvanceFails
      <3>3. QED
        BY <1>5, <3>1, <3>2
    <2>3. QED
      BY <1>0, <2>1, <2>2 DEF NoRecord
  <1>6. CASE EnsureDone
    <2>1. post' /\ record' = record /\ pc = "ensure"
      BY <1>6, Zenon DEF EnsureDone, RunEnsures
    <2>2. QED
      BY <2>1
  <1>7. CASE Clears \/ ClearsBadly
    <2>1. post /\ post' = post /\ record' \in {record, NoRecord}
      BY <1>7 DEF Clears, ClearsBadly, ClearDone, ClearFails, Unchanged
    <2>2. PICK failed \in BOOLEAN : Return(failed)
      BY <1>7, Zenon DEF Clears, ClearsBadly, ClearDone, ClearFails
    <2>3. pc' \in {"idle", "begin", "down"}
      BY <2>2, ReturnType
    <2>4. QED
      BY <2>1, <2>3
  <1>8. CASE Killed
    <2>1. pc' = "down" /\ record' = record
      BY <1>8 DEF Killed, Crash
    <2>2. record' = NoRecord => post' = post
      BY <1>8, <2>1 DEF Killed, Unchanged
    <2>3. QED
      BY <2>1, <2>2
  <1>9. CASE UNCHANGED vars
    BY <1>9 DEF vars, engineVars
  <1>10. ~EnsureFails
    BY DEF EnsureFails
  <1>11. QED
    BY <1>1, <1>2, <1>3, <1>4, <1>5, <1>6, <1>7, <1>8, <1>9, <1>10 DEF Next, Progress, Fault

\* Whatever else fails, no record goes before the postcondition holds again, as
\* long as the ensures themselves succeed.
THEOREM Ensured == "ensure" \notin Faults => (Spec => []EnsuredBeforeCleared)
  <1>1. SUFFICES ASSUME "ensure" \notin Faults PROVE Spec => []EnsuredBeforeCleared
    OBVIOUS
  <1>2. Init => EnsureInv
    BY Zenon DEF Init, EngineInit, EnsureInv, EnsuredBeforeCleared
  <1>3. TypeInv /\ EnsureInv /\ [Next]_vars => EnsureInv'
    BY <1>1, NextEnsureInv
  <1>4. EnsureInv => EnsuredBeforeCleared
    BY DEF EnsureInv
  <1>5. QED
    BY InitTypeInv, NextTypeInv, <1>2, <1>3, <1>4, PTL DEF Spec

-----------------------------------------------------------------------------
(* Refinement. *)

\* The only steps that move the record: a task begins, the progress advances,
\* the record is removed.  No other step touches an effect without a record.
LEMMA RecordMoves ==
  ASSUME TypeInv, Knows, [Next]_vars
  PROVE  \/ UNCHANGED <<task, record>> /\ (record = NoRecord => eff' = eff)
         \/ pc = "begin" /\ record = NoRecord /\ record' = 0
         \/ record \in 0..StepCount[task] /\ record' = record + 1 /\ task' = task
         \/ pc = "clear" /\ record' = NoRecord /\ UNCHANGED <<task, eff>>
  <1> USE DEF TypeInv, TypeOK, EngineTypeOK, AtStep
  <1>1. CASE Starts \/ Requests \/ Refuses \/ RecoveryFails \/ EnsureDone \/ EnsureFails
    BY <1>1
    DEF Starts, Startup, Requests, Request, Recover, Refuses, Refuse, RecoveryFails,
        StartupFails, RequestFails, RecoverFails, EnsureDone, EnsureFails, RunEnsures, Unchanged
  <1>2. CASE \E t \in Tasks : Begins(t) \/ BeginsBadly(t)
    <2>1. PICK t \in Tasks : Begins(t) \/ BeginsBadly(t)
      BY <1>2
    <2>2. pc = "begin" /\ record = NoRecord
      BY <2>1 DEF Begins, Begin, BeginsBadly, BeginFails
    <2>3. CASE record' = 0
      BY <2>2, <2>3
    <2>4. CASE record' # 0
      BY <2>1, <2>2, <2>4 DEF Begins, Begin, BeginsBadly, BeginFails
    <2>5. QED
      BY <2>3, <2>4
  <1>3. CASE DoStep \/ DoFails \/ UndoDone \/ UndoFails
    <2>1. pc \in {"do", "undo"} /\ UNCHANGED <<task, record>>
      BY <1>3 DEF DoStep, StepDone, DoFails, StepFails, UndoDone, UndoFails, UndoStep
    <2>2. record # NoRecord
      BY <2>1, TaskShape DEF Knows, ForwardKnows, RollbackKnows, Steps, StepsOf, NoRecord
    <2>3. QED
      BY <2>1, <2>2
  <1>4. CASE Advances \/ AdvancesBadly
    <2>1. pc = "advance" /\ record' \in {record, at + 1} /\ UNCHANGED <<task, eff>>
      BY <1>4 DEF Advances, AdvanceDone, AdvancesBadly, AdvanceFails, Unchanged
    <2>2. at = record /\ at \in Steps
      BY <2>1 DEF Knows, ForwardKnows
    <2>3. record \in 0..StepCount[task]
      BY <2>2, TaskShape DEF Steps, StepsOf
    <2>4. QED
      BY <2>1, <2>2, <2>3
  <1>5. CASE Clears \/ ClearsBadly
    BY <1>5 DEF Clears, ClearDone, ClearsBadly, ClearFails, Unchanged
  <1>6. CASE Killed
    <2>1. UNCHANGED <<task, record>> /\ (pc \notin {"do", "undo"} => eff' = eff)
      BY <1>6 DEF Killed, Crash, Unchanged
    <2>2. pc \in {"do", "undo"} => record # NoRecord
      BY TaskShape DEF Knows, ForwardKnows, RollbackKnows, Steps, StepsOf, NoRecord
    <2>3. QED
      BY <2>1, <2>2
  <1>7. CASE UNCHANGED vars
    BY <1>7 DEF vars, engineVars
  <1>8. QED
    BY <1>1, <1>2, <1>3, <1>4, <1>5, <1>6, <1>7 DEF Next, Progress, Fault

\* Every step of the engine is a step of AtomicTask or a stutter.
LEMMA AtomicStep ==
  ASSUME TypeInv, Knows, [Next]_vars
  PROVE  [Abstract!Next]_(Abstract!vars)
  <1> USE DEF TypeInv, TypeOK, EngineTypeOK, NoRecord, AbstractStatus, AbstractOutcome,
              Abstract!Next, Abstract!Open, Abstract!Apply, Abstract!Close, Abstract!vars
  <1>0. /\ StepCount[task] \in Nat /\ CommitAt[task] \in Nat
        /\ record = NoRecord \/ record \in 0..StepCount[task]
    BY TaskShape
  <1>1. CASE UNCHANGED <<task, record>> /\ (record = NoRecord => eff' = eff)
    BY <1>1 DEF AllDone, Steps, StepsOf
  <1>2. CASE pc = "begin" /\ record = NoRecord /\ record' = 0
    BY <1>2
  <1>3. CASE record \in 0..StepCount[task] /\ record' = record + 1 /\ task' = task
    <2>1. record # NoRecord /\ record' # NoRecord /\ record' > 0
      BY <1>0, <1>3
    <2>2. record >= CommitAt[task] => record' >= CommitAt[task]'
      BY <1>0, <1>3
    <2>3. QED
      BY <2>1, <2>2
  <1>4. CASE pc = "clear" /\ record' = NoRecord /\ UNCHANGED <<task, eff>>
    <2>1. record # NoRecord /\ (record >= CommitAt[task] => AllDone)
      BY <1>0, <1>4 DEF Knows, ResolvedKnows
    <2>2. AllDone' = AllDone
      BY <1>4 DEF AllDone, Steps, StepsOf
    <2>3. QED
      BY <1>4, <2>1, <2>2
  <1>5. QED
    BY <1>1, <1>2, <1>3, <1>4, RecordMoves

\* Behind all the crashes, retries and rollbacks a task is one atomic mutation:
\* it takes effect at its commit point or not at all.
THEOREM Refinement == Sound => (Spec => Atomic)
  <1>1. SUFFICES ASSUME Sound PROVE Spec => Atomic
    OBVIOUS
  <1>2. Init => Abstract!Init
    BY Zenon DEF Init, EngineInit, Abstract!Init, AbstractStatus, AbstractOutcome
  <1>3. Init => TypeInv /\ Knows
    BY InitTypeInv, InitKnows
  <1>4. TypeInv /\ Knows /\ [Next]_vars => (TypeInv /\ Knows)'
    BY <1>1, NextTypeInv, NextKnows
  <1>5. TypeInv /\ Knows /\ [Next]_vars => [Abstract!Next]_(Abstract!vars)
    BY AtomicStep
  <1>6. QED
    BY <1>2, <1>3, <1>4, <1>5, PTL DEF Spec, Atomic, Abstract!Spec

=============================================================================
