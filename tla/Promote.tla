------------------------------ MODULE Promote ------------------------------
(***************************************************************************)
(* `pgdev promote` (cmd/pgdev) against a running forwarder.  The command   *)
(* reads the pointer, asks both daemons whether their backend runs, writes *)
(* the pointer, and then waits for forward-state.json to name the new      *)
(* slot.  It never talks to the forwarder itself.                          *)
(*                                                                         *)
(* One user runs one promote after the other; the forwarder, the IP files  *)
(* and `pgdev staging stop` go on in between.                              *)
(***************************************************************************)
EXTENDS Forwarder

CONSTANTS
  MayGiveUp,   \* the wait may end unconfirmed: 4 s have passed, or Ctrl-C
  MayStop      \* the backend of the staging machine may be stopped

ASSUME PromoteAssumption == MayGiveUp \in BOOLEAN /\ MayStop \in BOOLEAN

VARIABLES
  backend,  \* [Slots -> the daemon of the slot answers RUNNING]
  promote   \* the command: where it is, its local `to`, and, history, whether the
            \* report named another slot when it wrote the pointer

promoteVars == <<vars, backend, promote>>

PromoteTypeOK ==
  /\ TypeOK
  /\ backend \in [Slots -> BOOLEAN]
  /\ promote \in [pc : {"idle", "checkA", "checkB", "set", "await",
                        "refused", "confirmed", "unconfirmed"},
                  to : Slots, news : BOOLEAN]

PromoteInit ==
  /\ Init
  /\ backend \in [Slots -> BOOLEAN]
  /\ promote = [pc |-> "idle", to |-> "b", news |-> FALSE]

Ended == {"idle", "refused", "confirmed", "unconfirmed"}

\* What Pointer.Staging may answer: a pointer that cannot be read counts as "a".
Stagings(p) == {Staging(p)} \cup (IF "read" \in Faults THEN {Other("a")} ELSE {})

Start ==
  /\ promote.pc \in Ended
  /\ writes < MaxWrites
  /\ \E to \in Stagings(pointer) :
       promote' = [pc |-> "checkA", to |-> to, news |-> FALSE]
  /\ UNCHANGED <<vars, backend>>

\* Both backends must be RUNNING before the flip; one status call each.
Check(s, pc, next) ==
  /\ promote.pc = pc
  /\ promote' = [promote EXCEPT !.pc = IF backend[s] THEN next ELSE "refused"]
  /\ UNCHANGED <<vars, backend>>

Checks == Check("a", "checkA", "checkB") \/ Check("b", "checkB", "set")

Flip ==
  /\ promote.pc = "set"
  /\ SetPointer(promote.to)
  /\ promote' = [promote EXCEPT !.pc = "await", !.news = report.slot # promote.to]
  /\ UNCHANGED backend

\* awaitForwarderRepoint: the report names the slot, and is fresh.
BadReported(s) == report.slot # "none" /\ report.fresh
Reported(s) == report.slot = s /\ report.fresh

Confirm ==
  /\ promote.pc = "await" /\ Reported(promote.to)
  /\ promote' = [promote EXCEPT !.pc = "confirmed"]
  /\ UNCHANGED <<vars, backend>>

GiveUp ==
  /\ MayGiveUp
  /\ promote.pc = "await"
  /\ promote' = [promote EXCEPT !.pc = "unconfirmed"]
  /\ UNCHANGED <<vars, backend>>

\* Another terminal: `pgdev staging stop`, `pgdev staging start`.
StagingBackend ==
  /\ MayStop
  /\ \E s \in Stagings(pointer) : backend' = [backend EXCEPT ![s] = ~@]
  /\ UNCHANGED <<vars, promote>>

PromoteNext ==
  \/ (Server \/ IPFiles) /\ UNCHANGED <<backend, promote>>
  \/ Start \/ Checks \/ Flip \/ Confirm \/ GiveUp
  \/ StagingBackend

PromoteSpec == PromoteInit /\ [][PromoteNext]_promoteVars

-----------------------------------------------------------------------------
(* Properties *)

\* While a promote is confirmed and the forwarder serves, the active port leads
\* by the IP file of the promoted slot and the staging port by the file of the
\* other: a pg_restore into staging does not hit the machine that was just
\* promoted (main.go, awaitForwarderRepoint).
Promoted ==
  promote.pc = "confirmed" /\ server = "serving" =>
    By(promote.to, targets["active"]) /\ By(Other(promote.to), targets["staging"])

\* It is so whenever the report named another slot when the pointer was written
\* (always, unless an earlier promote was abandoned before the forwarder took
\* notice) and the forwarder could read the pointer for the table it has: a read
\* that fails later sends the clients back, until the next tick.
ConfirmedRouted == promote.news /\ ~fallback => Promoted

\* A promote is confirmed by a forwarder that is alive (state.go:26-27).
ConfirmedAlive == promote.pc = "confirmed" => server # "down"

\* The flip never hands the active role to a backend that is down
\* (commands.go:264-265).
FlipsOntoRunning == [][Flip => backend[promote.to]]_promoteVars
=============================================================================
