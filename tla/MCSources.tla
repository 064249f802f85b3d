------------------------------ MODULE MCSources ------------------------------
(* The instance of Sources for TLC: one source is built in, as the official  *)
(* ones of seedAppSources are.                                               *)
EXTENDS Sources, TLC

CONSTANTS a, b, u1, u2, h1, h2

HostOfUrl == u1 :> h1 @@ u2 :> h2
BuiltIn   == a :> [url |-> u1, hosts |-> h1]
=============================================================================
