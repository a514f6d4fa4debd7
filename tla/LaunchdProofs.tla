---------------------------- MODULE LaunchdProofs ----------------------------
(***************************************************************************)
(* Launchd, for every number of commands and every bound: its states are   *)
(* well typed, and an install whose reap was not in vain ends with no      *)
(* child of the retired agent on the ports.                                *)
(***************************************************************************)
EXTENDS Launchd, TLAPS

Pcs == {"idle", "inspect", "plist", "bootout", "loaded", "reap", "bootstrap", "restart", "remove",
        "unlink"}
CliType == [pc : Pcs, tries : 0..MaxBootouts + MaxBootstraps]

\* launchd has the retired agent, and would start socat again.
SocatLoaded == job.state = "loaded" /\ job.prog = "socat"

\* Every print answered, and not every bootout of one install failed.
Answered == misses = 0 /\ faults < MaxBootouts

\* What an install knows of the retired agent at each of its steps: the plist is
\* no longer its plist; while it is loaded every bootout so far has failed; after
\* that it is gone, and at last its children are.
Gone(p) ==
  /\ cli[p].pc \in {"bootout", "loaded", "reap", "bootstrap"} => plist # "socat"
  /\ cli[p].pc = "bootout" /\ SocatLoaded => cli[p].tries <= faults
  /\ cli[p].pc = "loaded" /\ SocatLoaded => cli[p].tries < faults
  /\ cli[p].pc \in {"reap", "bootstrap"} /\ Answered => ~SocatLoaded
  /\ cli[p].pc = "bootstrap" /\ Answered /\ ~unreaped => port # "socat"

GoneInv == \A p \in Clis : Gone(p)

-----------------------------------------------------------------------------
(* Types *)

\* The parts of TypeOK that launchd and the processes change, and the rest.
AgentOK ==
  /\ job \in {NoJob} \cup [prog : Programs \cup {"socat"}, state : {"loaded", "unloading"}]
  /\ proc \in {None, "starting", "serving", "socat"}
  /\ port \in {None, "agent", "socat", "foreign"}
  /\ (proc = "serving") = (port = "agent")
PlistOK == repo \in Programs /\ plist \in Programs \cup {None, "socat", "torn"} /\ unreaped \in BOOLEAN
CliOK == cli \in [Clis -> CliType]
CountsOK == others \in 0..MaxOthers /\ faults \in 0..MaxFaults /\ misses \in 0..MaxMisses

LEMMA TypeParts == TypeOK <=> AgentOK /\ PlistOK /\ CliOK /\ CountsOK
  BY DEF TypeOK, AgentOK, PlistOK, CliOK, CountsOK, CliType, Pcs

LEMMA TypePartsNext == TypeOK' <=> AgentOK' /\ PlistOK' /\ CliOK' /\ CountsOK'
  BY DEF TypeOK, AgentOK, PlistOK, CliOK, CountsOK, CliType, Pcs

\* A command that goes to another step is well typed there.
LEMMA GotoTyped ==
  ASSUME CliOK, NEW p \in Clis, NEW pc \in Pcs, Goto(p, pc)
  PROVE  CliOK'
  BY LaunchdAssumption DEF CliOK, CliType, Goto, LaunchdAssumption

LEMMA AgainTyped ==
  ASSUME CliOK, NEW p \in Clis, NEW pc \in Pcs, Again(p, pc),
         cli[p].tries + 1 < MaxBootouts \/ cli[p].tries + 1 < MaxBootstraps
  PROVE  CliOK'
<1>1. cli[p].tries \in Nat
  BY LaunchdAssumption DEF CliOK, CliType, LaunchdAssumption
<1>2. cli[p].tries + 1 \in 0..MaxBootouts + MaxBootstraps
  BY <1>1, LaunchdAssumption DEF LaunchdAssumption
<1> QED
  BY <1>2 DEF CliOK, CliType, Again

LEMMA FaultTyped ==
  ASSUME CountsOK, Fault PROVE faults' \in 0..MaxFaults
  BY LaunchdAssumption DEF CountsOK, Fault, LaunchdAssumption

LEMMA MissesTyped ==
  ASSUME CountsOK, Misses PROVE misses' \in 0..MaxMisses
  BY LaunchdAssumption DEF CountsOK, Misses, LaunchdAssumption

LEMMA BootsTyped ==
  ASSUME AgentOK, CountsOK, NEW p \in Clis, Boots(p), UNCHANGED proc, UNCHANGED port
  PROVE  AgentOK' /\ faults' \in 0..MaxFaults
<1>1. CASE job' = (IF job.state = "loaded" THEN [job EXCEPT !.state = "unloading"] ELSE job)
           /\ UNCHANGED faults
  BY <1>1 DEF AgentOK, CountsOK, NoJob
<1>2. CASE Fault /\ UNCHANGED job
  BY <1>2, FaultTyped DEF AgentOK
<1> QED
  BY <1>1, <1>2 DEF Boots

LEMMA TypeInit == Init => TypeOK
<1> SUFFICES ASSUME Init PROVE TypeOK
  OBVIOUS
<1>1. PlistOK
  BY DEF Init, PlistOK, None, Programs
<1>2. AgentOK
  <2>1. Loaded("before") \in [prog : Programs \cup {"socat"}, state : {"loaded", "unloading"}]
    BY DEF Loaded, Programs
  <2>2. Loaded("socat") \in [prog : Programs \cup {"socat"}, state : {"loaded", "unloading"}]
    BY DEF Loaded
  <2> QED
    BY <2>1, <2>2 DEF Init, AgentOK, None
<1>3. CliOK
  BY LaunchdAssumption DEF Init, CliOK, CliType, Pcs, Idle, LaunchdAssumption
<1>4. CountsOK
  BY LaunchdAssumption DEF Init, CountsOK, LaunchdAssumption
<1> QED
  BY <1>1, <1>2, <1>3, <1>4, TypeParts

\* The steps of launchd and of the processes.
LEMMA WorldTyped ==
  ASSUME TypeOK, Spawn \/ Bind \/ Crash \/ Unloaded \/ Foreign \/ Move
  PROVE  TypeOK'
<1> USE TypeParts, TypePartsNext
<1>1. CASE Spawn
  BY <1>1 DEF Spawn, AgentOK, PlistOK, CliOK, CountsOK, None, NoJob
<1>2. CASE Bind
  BY <1>2 DEF Bind, AgentOK, PlistOK, CliOK, CountsOK, None
<1>3. CASE Crash
  BY <1>3, FaultTyped DEF Crash, Dies, AgentOK, PlistOK, CliOK, CountsOK, None
<1>4. CASE Unloaded
  BY <1>4 DEF Unloaded, Dies, AgentOK, PlistOK, CliOK, CountsOK, None
<1>5. CASE Foreign
  BY <1>5, FaultTyped DEF Foreign, AgentOK, PlistOK, CliOK, CountsOK, None
<1>6. CASE Move
  BY <1>6, FaultTyped DEF Move, agent, AgentOK, PlistOK, CliOK, CountsOK, Programs
<1> QED
  BY <1>1, <1>2, <1>3, <1>4, <1>5, <1>6

LEMMA RunTyped ==
  ASSUME TypeOK, NEW p \in Clis, NEW cmd \in {"install", "ensure", "restart", "uninstall"},
         Run(p, cmd)
  PROVE  TypeOK'
<1> USE TypeParts, TypePartsNext
<1>1. \E pc \in Pcs : Goto(p, pc)
  BY DEF Run, Pcs
<1>2. CliOK'
  BY <1>1, GotoTyped
<1>3. others' \in 0..MaxOthers
  BY LaunchdAssumption DEF Run, CountsOK, LaunchdAssumption
<1> QED
  BY <1>2, <1>3 DEF Run, agent, AgentOK, PlistOK, CountsOK

LEMMA StepTyped ==
  ASSUME TypeOK, NEW p \in Clis, Step(p)
  PROVE  TypeOK'
<1> USE TypeParts, TypePartsNext
<1>0. \A pc \in Pcs : Goto(p, pc) => CliOK'
  BY GotoTyped
<1>1. CASE Ensure(p)
  <2>1. CliOK'
    BY <1>0, <1>1 DEF Ensure, Ends, Pcs
  <2> QED
    BY <1>1, <2>1, MissesTyped DEF Ensure, agent, AgentOK, PlistOK, CountsOK
<1>2. CASE WritePlist(p)
  <2>1. CliOK'
    BY <1>0, <1>2 DEF WritePlist, Then, Pcs
  <2> QED
    BY <1>2, <2>1 DEF WritePlist, agent, AgentOK, PlistOK, CountsOK
<1>3. CASE Bootout(p)
  <2>1. CliOK'
    BY <1>3 DEF Bootout, CliOK, CliType, Pcs
  <2> QED
    BY <1>3, <2>1, BootsTyped DEF Bootout, PlistOK, CountsOK
<1>4. CASE StillLoaded(p)
  <2>1. CliOK'
    <3>1. Goto(p, Then["loaded"]) => CliOK'
      BY <1>0 DEF Then, Pcs
    <3>2. "bootout" \in Pcs
      BY DEF Pcs
    <3>3. Again(p, "bootout") /\ cli[p].tries + 1 < MaxBootouts => CliOK'
      BY <3>2, AgainTyped
    <3> QED
      BY <1>4, <3>1, <3>3 DEF StillLoaded
  <2> QED
    BY <1>4, <2>1, MissesTyped DEF StillLoaded, agent, AgentOK, PlistOK, CountsOK
<1>5. CASE Reap(p)
  <2>1. CliOK'
    BY <1>0, <1>5 DEF Reap, Then, Pcs
  <2> QED
    BY <1>5, <2>1, FaultTyped DEF Reap, Reaped, AgentOK, PlistOK, CountsOK, None
<1>6. CASE Bootstrap(p)
  <2>1. CliOK'
    BY <1>0, <1>6 DEF Bootstrap, Ends, Pcs
  <2> QED
    BY <1>6, <2>1 DEF Bootstrap, Loads, Loaded, AgentOK, PlistOK, CountsOK
<1>7. CASE BootstrapFails(p)
  <2>1. CliOK'
    <3>1. Ends(p) => CliOK'
      BY <1>0 DEF Ends, Pcs
    <3>2. "bootstrap" \in Pcs
      BY DEF Pcs
    <3>3. Again(p, "bootstrap") /\ cli[p].tries + 1 < MaxBootstraps => CliOK'
      BY <3>2, AgainTyped
    <3> QED
      BY <1>7, <3>1, <3>3 DEF BootstrapFails
  <2> QED
    BY <1>7, <2>1, FaultTyped DEF BootstrapFails, agent, AgentOK, PlistOK, CountsOK
<1>8. CASE Restart(p)
  <2>1. CliOK'
    BY <1>0, <1>8 DEF Restart, Ends, Pcs
  <2> QED
    BY <1>8, <2>1 DEF Restart, Dies, AgentOK, PlistOK, CountsOK, None
<1>9. CASE Uninstall(p)
  <2>1. CliOK'
    BY <1>0, <1>9 DEF Uninstall, Pcs
  <2> QED
    BY <1>9, <2>1, BootsTyped DEF Uninstall, PlistOK, CountsOK
<1>10. CASE Unlink(p)
  <2>1. CliOK'
    BY <1>0, <1>10 DEF Unlink, Ends, Pcs
  <2> QED
    BY <1>10, <2>1 DEF Unlink, agent, AgentOK, PlistOK, CountsOK
<1>11. CASE WritePlistFails(p)
  <2>1. CliOK'
    BY <1>0, <1>11 DEF WritePlistFails, Ends, Pcs
  <2> QED
    BY <1>11, <2>1, FaultTyped DEF WritePlistFails, agent, AgentOK, PlistOK, CountsOK
<1> QED
  BY <1>1, <1>2, <1>3, <1>4, <1>5, <1>6, <1>7, <1>8, <1>9, <1>10, <1>11 DEF Step

LEMMA InterruptedTyped ==
  ASSUME TypeOK, NEW p \in Clis, Interrupted(p)
  PROVE  TypeOK'
<1> USE TypeParts, TypePartsNext
<1>1. CliOK'
  BY GotoTyped DEF Interrupted, Ends, Pcs
<1> QED
  BY <1>1, FaultTyped DEF Interrupted, agent, AgentOK, PlistOK, CountsOK

LEMMA TypeStutters == ASSUME TypeOK, UNCHANGED vars PROVE TypeOK'
  BY DEF TypeOK, vars, agent

\* The agent, its process, the ports and the commands are what launchd.go lets
\* them be; and serve, and nobody else, has the ports while it serves: neither a
\* reap nor a second process takes them from it (launchd.go:150-175).
THEOREM AgentTyped == Spec => []TypeOK
<1>1. TypeOK /\ [Next]_vars => TypeOK'
  BY WorldTyped, RunTyped, StepTyped, InterruptedTyped, TypeStutters DEF Next
<1> QED
  BY <1>1, TypeInit, PTL DEF Spec

-----------------------------------------------------------------------------
(* The retired agent *)

LEMMA GoneInit == Init => GoneInv
<1> SUFFICES ASSUME Init, NEW p \in Clis PROVE Gone(p)
  BY DEF GoneInv
<1>1. cli[p].pc = "idle"
  BY DEF Init, Idle
<1> QED
  BY <1>1 DEF Gone

\* Nothing makes a child of the retired agent once it is not loaded, and nothing
\* loads it while the plist is another's; failures and silences are only counted.
LEMMA GoneKept ==
  ASSUME TypeOK, TypeOK', NEW p \in Clis, Gone(p), cli'[p] = cli[p],
         plist # "socat" => plist' # "socat",
         faults' >= faults, misses' >= misses,
         SocatLoaded' => SocatLoaded, UNCHANGED unreaped,
         port' = "socat" => port = "socat" \/ SocatLoaded
  PROVE  Gone(p)'
<1>1. faults \in Nat /\ faults' \in Nat /\ misses \in Nat /\ misses' \in Nat /\ MaxBootouts \in Nat
  BY LaunchdAssumption DEF TypeOK, LaunchdAssumption
<1>2. cli[p].tries \in Nat
  BY LaunchdAssumption DEF TypeOK, LaunchdAssumption
<1>3. Answered' => Answered
  BY <1>1 DEF Answered
<1> QED
  BY <1>1, <1>2, <1>3 DEF Gone

\* Who loads an agent is in an install of its own, which has written the plist;
\* only launchd starts a child, of an agent that is loaded.
LEMMA WorldKeepsGone ==
  ASSUME TypeOK, TypeOK', GoneInv,
         \/ Spawn \/ Bind \/ Crash \/ Unloaded \/ Foreign \/ Move
         \/ \E p \in Clis, cmd \in {"install", "ensure", "restart", "uninstall"} : Run(p, cmd)
         \/ \E p \in Clis : Interrupted(p)
  PROVE  GoneInv'
<1>1. plist' = plist /\ misses' = misses /\ faults' >= faults /\ UNCHANGED unreaped
  BY DEF Spawn, Bind, Crash, Unloaded, Foreign, Move, Run, Interrupted, agent, Fault, TypeOK
<1>2. SocatLoaded' => SocatLoaded
  BY DEF Spawn, Bind, Crash, Unloaded, Foreign, Move, Run, Interrupted, agent, SocatLoaded, NoJob
<1>3. port' = "socat" => port = "socat" \/ SocatLoaded
  BY DEF Spawn, Bind, Crash, Unloaded, Foreign, Move, Run, Interrupted, agent, Dies, SocatLoaded, None
<1>4. misses' >= misses
  BY <1>1, LaunchdAssumption DEF TypeOK, LaunchdAssumption
<1> SUFFICES ASSUME NEW p \in Clis PROVE Gone(p)'
  BY DEF GoneInv
<1>5. CASE cli'[p] = cli[p]
  BY <1>1, <1>2, <1>3, <1>4, <1>5, GoneKept DEF GoneInv
<1>6. CASE cli'[p].pc \notin {"bootout", "loaded", "reap", "bootstrap"}
  BY <1>6 DEF Gone
<1>7. cli' = cli \/ \E q \in Clis, pc \in {"idle", "plist", "inspect", "remove", "restart"} :
                      cli' = [cli EXCEPT ![q] = [pc |-> pc, tries |-> 0]]
  BY DEF Spawn, Bind, Crash, Unloaded, Foreign, Move, Run, Interrupted, Ends, Goto
<1> QED
  BY <1>5, <1>6, <1>7 DEF TypeOK

\* What a step of one command leaves of the others' invariant, and what it owes of
\* its own.
LEMMA StepKeepsGone ==
  ASSUME TypeOK, TypeOK', GoneInv, NEW p \in Clis, Step(p)
  PROVE  GoneInv'
<1>0. /\ faults \in Nat /\ faults' \in Nat /\ misses \in Nat /\ misses' \in Nat
      /\ MaxBootouts \in Nat /\ cli[p].tries \in Nat /\ cli'[p].tries \in Nat
  BY LaunchdAssumption DEF TypeOK, LaunchdAssumption
<1>1. Gone(p)
  BY DEF GoneInv
<1>2. plist' \in {plist, repo, None, "torn"}
  BY DEF Step, Ensure, WritePlist, WritePlistFails, Bootout, StillLoaded, Reap, Bootstrap,
     BootstrapFails, Restart,
     Uninstall, Unlink, agent
<1>3. plist # "socat" => plist' # "socat"
  BY <1>2 DEF TypeOK, Programs, None
<1>4. faults' >= faults /\ misses' >= misses
  BY <1>0 DEF Step, Ensure, WritePlist, WritePlistFails, Bootout, StillLoaded, Reap, Bootstrap, BootstrapFails,
     Restart, Uninstall, Unlink, agent, Fault, Misses, Boots
<1>5. SocatLoaded' => SocatLoaded
  <2>1. CASE Bootstrap(p)
    <3>1. job' = Loaded(plist) /\ plist # "socat"
      BY <2>1, <1>1 DEF Bootstrap, Loads, Gone, At
    <3> QED
      BY <3>1 DEF SocatLoaded, Loaded
  <2>2. CASE Bootout(p) \/ Uninstall(p)
    BY <2>2 DEF Bootout, Uninstall, Boots, SocatLoaded, TypeOK, NoJob
  <2>3. CASE job' = job
    BY <2>3 DEF SocatLoaded
  <2> QED
    BY <2>1, <2>2, <2>3 DEF Step, Ensure, WritePlist, WritePlistFails, StillLoaded, Reap, BootstrapFails, Restart,
       Unlink, agent
<1>6. port' = "socat" => port = "socat"
  BY DEF Step, Ensure, WritePlist, WritePlistFails, Bootout, StillLoaded, Reap, Bootstrap, BootstrapFails,
     Restart, Uninstall, Unlink, agent, Dies, Reaped, None
<1>7. \A q \in Clis : q # p => cli'[q] = cli[q]
  BY DEF Step, Ensure, WritePlist, WritePlistFails, Bootout, StillLoaded, Reap, Bootstrap, BootstrapFails,
     Restart, Uninstall, Unlink, Goto, Ends, Again, TypeOK
<1>8. ASSUME NEW q \in Clis, q # p PROVE Gone(q)'
  <2>1. CASE UNCHANGED unreaped
    BY <1>3, <1>4, <1>5, <1>6, <1>7, <1>8, <2>1, GoneKept DEF GoneInv
  <2>2. CASE Reap(p)
    <3>1. cli'[q] = cli[q] /\ Gone(q) /\ (unreaped' \/ port' # "socat")
          /\ UNCHANGED <<plist, job, misses>>
      BY <1>7, <1>8, <2>2 DEF Reap, Reaped, None, GoneInv
    <3>2. Answered' => Answered
      BY <1>0, <1>4 DEF Answered
    <3>3. cli[q].tries \in Nat
      BY LaunchdAssumption DEF TypeOK, LaunchdAssumption
    <3> QED
      BY <3>1, <3>2, <3>3, <1>0, <1>4 DEF Gone, SocatLoaded
  <2> QED
    BY <2>1, <2>2 DEF Step, Ensure, WritePlist, WritePlistFails, Bootout, StillLoaded, Bootstrap,
       BootstrapFails, Restart, Uninstall, Unlink
<1>9. Gone(p)'
  <2>1. CASE cli'[p].pc \notin {"bootout", "loaded", "reap", "bootstrap"}
    BY <2>1 DEF Gone
  <2>2. CASE WritePlist(p)
    <3>1. cli'[p] = [pc |-> "bootout", tries |-> 0]
      BY <2>2 DEF WritePlist, Goto, Then, TypeOK
    <3>2. plist' # "socat"
      BY <2>2 DEF WritePlist, TypeOK, Programs
    <3> QED
      BY <3>1, <3>2, <1>0 DEF Gone
  <2>3. CASE Bootout(p)
    <3>1. cli'[p].pc = "loaded" /\ cli'[p].tries = cli[p].tries /\ cli[p].pc = "bootout"
      BY <2>3 DEF Bootout, At, TypeOK
    <3>2. SocatLoaded' => faults' = faults + 1
      BY <2>3 DEF Bootout, Boots, Fault, SocatLoaded, TypeOK, NoJob
    <3> QED
      BY <3>1, <3>2, <1>0, <1>1, <1>3, <1>5 DEF Gone
  <2>4. CASE StillLoaded(p)
    <3>1. cli[p].pc = "loaded" /\ job' = job /\ plist' = plist /\ faults' = faults
      BY <2>4 DEF StillLoaded, At, agent
    <3>2. CASE job = NoJob /\ Goto(p, Then["loaded"])
      <4>1. cli'[p].pc = "reap"
        BY <3>2 DEF Goto, Then, TypeOK
      <4>2. ~SocatLoaded'
        BY <3>1, <3>2 DEF SocatLoaded, NoJob
      <4> QED
        BY <4>1, <4>2, <3>1, <1>1 DEF Gone
    <3>3. CASE Misses /\ Goto(p, Then["loaded"])
      <4>1. cli'[p].pc = "reap" /\ misses' # 0
        BY <3>3, <1>0 DEF Goto, Then, TypeOK, Misses
      <4> QED
        BY <4>1, <3>1, <1>1 DEF Gone, Answered
    <3>4. CASE cli[p].tries + 1 < MaxBootouts /\ Again(p, "bootout")
      <4>1. cli'[p].pc = "bootout" /\ cli'[p].tries = cli[p].tries + 1
        BY <3>4 DEF Again, TypeOK
      <4> QED
        BY <4>1, <3>1, <1>0, <1>1, <1>5 DEF Gone
    <3>5. CASE ~(cli[p].tries + 1 < MaxBootouts) /\ Goto(p, Then["loaded"])
      <4>1. cli'[p].pc = "reap"
        BY <3>5 DEF Goto, Then, TypeOK
      <4>2. SocatLoaded' => ~Answered'
        BY <3>1, <3>5, <1>0, <1>1, <1>5 DEF Gone, Answered
      <4> QED
        BY <4>1, <4>2, <3>1, <1>1 DEF Gone
    <3> QED
      BY <2>4, <3>2, <3>3, <3>4, <3>5 DEF StillLoaded
  <2>5. CASE Reap(p)
    <3>1. cli'[p].pc = "bootstrap" /\ cli[p].pc = "reap" /\ (unreaped' \/ port' # "socat")
      BY <2>5 DEF Reap, Goto, Then, TypeOK, At, Reaped, None
    <3>2. Answered' => Answered
      BY <1>0, <1>4 DEF Answered
    <3> QED
      BY <3>1, <3>2, <1>1, <1>3, <1>5 DEF Gone
  <2>6. CASE BootstrapFails(p) /\ Again(p, "bootstrap")
    <3>1. cli'[p].pc = "bootstrap" /\ cli[p].pc = "bootstrap" /\ UNCHANGED unreaped
      BY <2>6 DEF BootstrapFails, Again, TypeOK, At
    <3>2. Answered' => Answered
      BY <1>0, <1>4 DEF Answered
    <3> QED
      BY <3>1, <3>2, <1>1, <1>3, <1>5, <1>6 DEF Gone
  <2>7. CASE \/ Ensure(p) \/ WritePlistFails(p) \/ Bootstrap(p) \/ Restart(p) \/ Uninstall(p) \/ Unlink(p)
             \/ BootstrapFails(p) /\ Ends(p)
    <3>1. cli'[p].pc \in {"idle", "plist", "unlink"}
      BY <2>7 DEF Ensure, WritePlistFails, Bootstrap, Restart, Uninstall, Unlink, BootstrapFails, Goto, Ends, TypeOK
    <3> QED
      BY <3>1, <2>1
  <2> QED
    BY <2>2, <2>3, <2>4, <2>5, <2>6, <2>7 DEF Step, BootstrapFails
<1> QED
  BY <1>8, <1>9 DEF GoneInv

\* What an install knows at each step of the agent it replaces holds whatever the
\* other commands, launchd and the processes do meanwhile, and whatever fails or is
\* interrupted: that the retired agent is not loaded when the ports are reaped, and
\* that its children are gone once a reap was not in vain (launchd.go:60-103).
THEOREM RetiredIsGone == Spec => []GoneInv
<1>1. TypeOK /\ TypeOK' /\ GoneInv /\ [Next]_vars => GoneInv'
  <2>1. ASSUME TypeOK, GoneInv, UNCHANGED vars PROVE GoneInv'
    BY <2>1 DEF vars, agent, GoneInv, Gone, SocatLoaded, Answered
  <2> QED
    BY <2>1, WorldKeepsGone, StepKeepsGone DEF Next
<1> QED
  BY <1>1, GoneInit, AgentTyped, PTL DEF Spec

\* Install ends with the ports free of the children of the retired agent: unless a
\* print was not answered, every bootout of bootoutWait failed or the last reap came
\* to nothing, nothing has started socat since (launchd.go:60-82, state.go:93-110).
THEOREM InstallFreesPorts == Spec => InstallDone
<1>1. ASSUME TypeOK, GoneInv, NEW p \in Clis, Bootstrap(p)
      PROVE  misses = 0 /\ faults < MaxBootouts /\ ~unreaped => port # "socat"
  BY <1>1 DEF Bootstrap, At, GoneInv, Gone, Answered
<1>2. TypeOK /\ GoneInv /\ [Next]_vars =>
        [\A p \in Clis : Bootstrap(p) =>
           (misses = 0 /\ faults < MaxBootouts /\ ~unreaped => port # "socat")]_vars
  BY <1>1
<1> QED
  BY <1>2, AgentTyped, RetiredIsGone, PTL DEF Spec, InstallDone
=============================================================================
