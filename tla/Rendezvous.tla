----------------------------- MODULE Rendezvous -----------------------------
(***************************************************************************)
(* What the address exchange of init_av promises: the server learns the    *)
(* client's address only from a client that knows the server, and nobody   *)
(* is told that the exchange succeeded before both know each other.        *)
(***************************************************************************)
CONSTANTS Client, Server

VARIABLES knows,     \* processes that have the other's address
          succeeded, \* processes whose init_av has returned 0
          failed     \* processes that crashed or returned another code

rendezvousVars == <<knows, succeeded, failed>>
Parties == {Client, Server}

RendezvousInit == knows = {} /\ succeeded = {} /\ failed = {}

Learn(p) ==
  /\ p \notin knows \cup succeeded \cup failed
  /\ p = Server => Client \in knows
  /\ knows' = knows \cup {p}
  /\ UNCHANGED <<succeeded, failed>>

Succeed(p) ==
  /\ p \notin succeeded \cup failed
  /\ knows = Parties
  /\ succeeded' = succeeded \cup {p}
  /\ UNCHANGED <<knows, failed>>

Fail(p) ==
  /\ p \notin succeeded \cup failed
  /\ failed' = failed \cup {p}
  /\ UNCHANGED <<knows, succeeded>>

RendezvousNext == \E p \in Parties : Learn(p) \/ Succeed(p) \/ Fail(p)

RendezvousSpec == RendezvousInit /\ [][RendezvousNext]_rendezvousVars
=============================================================================
