------------------------------ MODULE MCAccess ------------------------------
(* Model values and small constants for AccessControl *)
EXTENDS AccessControl, TLC

CONSTANTS c1, k1, k2, p1, s1, home

MCCallers == {c1}
MCKeys == {k1, k2}
MCTabs == {p1}
MCSessions == {s1}
MCRoles == {"super_admin", "viewer"}
MCOperations ==
         {[do |-> "generate", key |-> k] : k \in MCKeys}
    \cup {[do |-> "revoke", key |-> k1]}
    \cup {[do |-> "status", on |-> on] : on \in BOOLEAN}
    \cup {[do |-> "setup"]}
MCPermitted == [op \in MCOperations |-> {"super_admin"}]
\* generate_key and revoke_key look for their row first.
MCBlind == {"status", "setup"}

=============================================================================
