----------------------------- MODULE MCSessions -----------------------------
(* Small values for the constants of Sessions and SessionClaims. *)
EXTENDS SessionClaims

OneHash == [w \in Workspaces |-> 1]

=============================================================================
