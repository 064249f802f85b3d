---------------------------- MODULE TunnelAddress ----------------------------
(***************************************************************************)
(* What the tunnel manager promises the agents that are told of its        *)
(* address (Enabled and UploadURL in internal/master/tunnel.go): an address *)
(* is published at most once, for one uninterrupted time, and is withdrawn *)
(* together with the tunnel before another one is published.               *)
(***************************************************************************)
CONSTANTS Addresses, NoAddress

VARIABLES
  up,     \* what Enabled() returns
  addr,   \* what UploadURL() returns
  spent   \* the addresses that have been published, or never will be

tunnel == <<up, addr, spent>>

Init == up = FALSE /\ addr = NoAddress /\ spent = {}

(* An address that was assigned and not yet published may be lost at any time. *)
MoreSpent == spent' \in SUBSET Addresses /\ spent \subseteq spent'

Launch ==
  /\ up' = TRUE
  /\ UNCHANGED <<addr, spent>>

Publish(p) ==
  /\ addr = NoAddress /\ p \notin spent
  /\ addr' = p /\ spent' = spent \cup {p}
  /\ UNCHANGED up

Withdraw == up' = FALSE /\ addr' = NoAddress /\ MoreSpent

Lose == MoreSpent /\ UNCHANGED <<up, addr>>

Next == Launch \/ (\E p \in Addresses : Publish(p)) \/ Withdraw \/ Lose

Spec == Init /\ [][Next]_tunnel
=============================================================================
