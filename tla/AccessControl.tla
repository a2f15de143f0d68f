--------------------------- MODULE AccessControl ---------------------------
(***************************************************************************)
(* Partners' requests and the admin panel on the same keys: a panel        *)
(* request changes the rows that requests under way are checked against.   *)
(*                                                                         *)
(* Operations: [do |-> "generate", key |-> k], [do |-> "revoke",           *)
(* key |-> k], [do |-> "status", on |-> b], and [do |-> "setup"] for the   *)
(* handlers that change partners, providers, job types, chains and the     *)
(* other fields of an integration.                                         *)
(***************************************************************************)
EXTENDS ApiKeys, AdminSessions

ASSUME OperationsAssumption ==
    Operations \subseteq      [do: {"generate", "revoke"}, key: ApiKeyIds]
                         \cup [do: {"status"}, on: BOOLEAN]
                         \cup [do: {"setup"}]

\* Types of the rows of keys and integration, of requests, sessions and the log.
TypeOK == KeysTypeOK /\ PanelTypeOK

Init == KeysInit /\ PanelInit

\* The handler's statement, on the rows ApiKeys has.
Apply(p) ==
    /\ Change(p)
    /\ LET op == tab[p].op IN
         \/ op.do = "generate" /\ Generate(op.key)
         \/ op.do = "revoke" /\ key[op.key] # "none" /\ Revoke(op.key)
         \/ op.do = "status" /\ SetStatus(op.on)
         \/ op.do = "setup" /\ UNCHANGED keyVars

\* Only revoke_key has something between its UPDATE and the log.
Settle(p) ==
    /\ Extra(p)
    /\ \/ tab[p].op.do = "revoke" /\ Remember(tab[p].op.key)
       \/ tab[p].op.do # "revoke" /\ UNCHANGED keyVars

PanelOnly ==
    \/ \E s \in SessionIds :
         \/ \E r \in Roles : Login(s, r)
         \/ EndSession(s)
         \/ \E p \in Tabs, op \in Operations : Ask(p, s, op)
    \/ \E p \in Tabs :
         \/ LetIn(p) \/ SendAway(p) \/ ChangeNothing(p) \/ Decline(p) \/ Log(p) \/ Halt(p)

Next ==
    \/ \E p \in Tabs : Apply(p) \/ Settle(p)
    \/ PanelOnly /\ UNCHANGED keyVars
    \/ (Authenticate \/ Elapse) /\ UNCHANGED panelVars

Spec == Init /\ [][Next]_<<keyVars, panelVars>>
=============================================================================
