------------------------------ MODULE Routing ------------------------------
(***************************************************************************)
(* What the host forwarder promises a PostgreSQL client, whatever it reads *)
(* from files and in whichever order its goroutines run: a session leads   *)
(* to the target its role had when the client was admitted, and in the     *)
(* instant a role moves to another target every open session that leads    *)
(* elsewhere is cut off.                                                   *)
(***************************************************************************)
CONSTANTS Conns, Addrs

NoAddr == ""
Roles == {"active", "staging"}
Closed == [state |-> "closed", role |-> "active", target |-> NoAddr]

VARIABLES
  targets,  \* where each role leads
  session   \* [Conns -> what became of a client connection]

routingVars == <<targets, session>>

Init ==
  /\ targets = [r \in Roles |-> NoAddr]
  /\ session = [c \in Conns |-> Closed]

\* A client of role r is promised the target of this moment, if there is one.
Admit(c, r) ==
  /\ session[c] = Closed /\ targets[r] # NoAddr
  /\ session' = [session EXCEPT ![c] = [state |-> "admitted", role |-> r, target |-> targets[r]]]
  /\ UNCHANGED targets

Open(c) ==
  /\ session[c].state = "admitted"
  /\ session' = [session EXCEPT ![c].state = "open"]
  /\ UNCHANGED targets

\* Either side hangs up, or the target does not answer.
End(c) ==
  /\ session[c] # Closed
  /\ session' = [session EXCEPT ![c] = Closed]
  /\ UNCHANGED targets

\* The roles move, and take every open session of theirs along.
Repoint(new) ==
  /\ targets' = new
  /\ session' = [c \in Conns |->
       IF session[c].state = "open" /\ session[c].target # new[session[c].role]
         THEN Closed ELSE session[c]]

\* The forwarder shuts down its sessions, or is gone with all of them.
CutOff ==
  /\ UNCHANGED targets
  /\ \E cut \in SUBSET Conns :
       session' = [c \in Conns |-> IF c \in cut THEN Closed ELSE session[c]]

Gone ==
  /\ targets' = [r \in Roles |-> NoAddr]
  /\ session' = [c \in Conns |-> Closed]

Next ==
  \/ \E c \in Conns :
       \/ \E r \in Roles : Admit(c, r)
       \/ Open(c)
       \/ End(c)
  \/ \E new \in [Roles -> Addrs \cup {NoAddr}] : Repoint(new)
  \/ CutOff
  \/ Gone

Spec == Init /\ [][Next]_routingVars
=============================================================================
