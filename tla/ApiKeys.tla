------------------------------ MODULE ApiKeys ------------------------------
(***************************************************************************)
(* The API keys of one integration and get_current_integration, which      *)
(* every request passes: the token's claims, the Redis set of revoked      *)
(* keys, the key's row, the integration's row, and the window of requests  *)
(* per minute.                                                             *)
(*                                                                         *)
(* A token stands for the row that holds its hash (key_hash is UNIQUE).    *)
(* The set is asked for the claim key_id, which generate_key fills with    *)
(* the id of the integration; revoke_key adds hashes to it and             *)
(* get_current_integration ids of rows.                                    *)
(***************************************************************************)
EXTENDS RateWindow

CONSTANTS
    ApiKeyIds,      \* ids of rows of api_keys
    IntegrationId   \* the integration they belong to

ASSUME IntegrationIdAssumption ==
    IntegrationId \notin ApiKeyIds \cup ({"hash"} \X ApiKeyIds)

VARIABLES
    key,            \* state of the row of a key
    active,         \* integrations.status = 'active'
    revokedKeys,    \* aimg:revoked_keys
    call            \* where the request of each caller is

keyVars == <<windowVars, key, active, revokedKeys, call>>

Hash(k) == <<"hash", k>>
Waiting == [step |-> "idle"]

\* barred: the key was revoked when the request came; shut: the integration
\* has been inactive ever since it came.
Calls == {Waiting}
    \cup [step: {"token", "unlisted", "revoked", "found", "window", "counted", "served"},
          key: ApiKeyIds, barred: BOOLEAN, shut: BOOLEAN]

\* Types of the rows and of the requests; the set of revoked keys holds hashes and ids.
KeysTypeOK ==
    /\ WindowTypeOK
    /\ key \in [ApiKeyIds -> {"none", "live", "revoked"}]
    /\ active \in BOOLEAN
    /\ revokedKeys \subseteq ApiKeyIds \cup {Hash(k) : k \in ApiKeyIds} \cup {IntegrationId}
    /\ call \in [Callers -> Calls]

KeysInit ==
    /\ WindowInit
    /\ key = [k \in ApiKeyIds |-> "none"]
    /\ active = TRUE
    /\ revokedKeys = {}
    /\ call = [c \in Callers |-> Waiting]

-----------------------------------------------------------------------------
(* What the admin panel does to keys and integrations *)

\* generate_key: INSERT INTO api_keys.
Generate(k) ==
    /\ key[k] = "none"
    /\ key' = [key EXCEPT ![k] = "live"]
    /\ UNCHANGED <<windowVars, active, revokedKeys, call>>

\* ApiKeyRepo.revoke.
Revoke(k) ==
    /\ key' = [key EXCEPT ![k] = "revoked"]
    /\ UNCHANGED <<windowVars, active, revokedKeys, call>>

MutRemember(k) ==
    /\ revokedKeys' = revokedKeys \cup {IntegrationId}
    /\ UNCHANGED <<windowVars, key, active, call>>

\* revoke_key's SADD, after the UPDATE.
Remember(k) ==
    /\ revokedKeys' = revokedKeys \cup {Hash(k)}
    /\ UNCHANGED <<windowVars, key, active, call>>

\* integration_status.
SetStatus(on) ==
    /\ active' = on
    /\ call' = [c \in Callers |-> IF on /\ call[c] # Waiting
                                  THEN [call[c] EXCEPT !.shut = FALSE] ELSE call[c]]
    /\ UNCHANGED <<windowVars, key, revokedKeys>>

-----------------------------------------------------------------------------
(* get_current_integration *)

In(c, step) == call[c].step = step
Move(c, step) == call' = [call EXCEPT ![c].step = step]

MutLeaves(c) == Move(c, "idle")

Leaves(c) == call' = [call EXCEPT ![c] = Waiting]

\* The signature is right: the token is one that generate_key has made.
Present(c, k) ==
    /\ In(c, "idle")
    /\ key[k] # "none"
    /\ call' = [call EXCEPT ![c] = [step |-> "token", key |-> k,
                                    barred |-> key[k] = "revoked", shut |-> ~active]]
    /\ UNCHANGED <<windowVars, key, active, revokedKeys>>

\* The claim key_id of any key of the integration.
Claim(k) == IntegrationId

Listed(c) ==
    /\ In(c, "token")
    /\ Claim(call[c].key) \in revokedKeys
    /\ Leaves(c)
    /\ UNCHANGED <<windowVars, key, active, revokedKeys>>

Unlisted(c) ==
    /\ In(c, "token")
    /\ Claim(call[c].key) \notin revokedKeys
    /\ Move(c, "unlisted")
    /\ UNCHANGED <<windowVars, key, active, revokedKeys>>

MutFindKey(c) ==
    /\ In(c, "unlisted")
    /\ Move(c, "found")
    /\ UNCHANGED <<windowVars, key, active, revokedKeys>>

\* ApiKeyRepo.get_by_hash.
FindKey(c) ==
    /\ In(c, "unlisted")
    /\ Move(c, IF key[call[c].key] = "revoked" THEN "revoked" ELSE "found")
    /\ UNCHANGED <<windowVars, key, active, revokedKeys>>

\* SADD of the row's id, and 401.
NoteRevoked(c) ==
    /\ In(c, "revoked")
    /\ revokedKeys' = revokedKeys \cup {call[c].key}
    /\ Leaves(c)
    /\ UNCHANGED <<windowVars, key, active>>

\* IntegrationRepo.get_by_id: an inactive one is a 401.
FindInactive(c) ==
    /\ In(c, "found")
    /\ ~active
    /\ Leaves(c)
    /\ UNCHANGED <<windowVars, key, active, revokedKeys>>

FindActive(c) ==
    /\ In(c, "found")
    /\ active
    /\ Enter(c)
    /\ Move(c, "window")
    /\ UNCHANGED <<key, active, revokedKeys>>

HasRoom(c) ==
    /\ Admit(c)
    /\ Move(c, "counted")
    /\ UNCHANGED <<key, active, revokedKeys>>

TooMany(c) ==
    /\ Refuse(c)
    /\ Leaves(c)
    /\ UNCHANGED <<key, active, revokedKeys>>

\* The request goes on to its route.
Serve(c) ==
    /\ Add(c)
    /\ Move(c, "served")
    /\ UNCHANGED <<key, active, revokedKeys>>

Finish(c) ==
    /\ In(c, "served")
    /\ Leaves(c)
    /\ UNCHANGED <<windowVars, key, active, revokedKeys>>

\* The API process dies.
Vanish(c) ==
    /\ ~In(c, "idle")
    /\ IF In(c, "window") \/ In(c, "counted") THEN Leave(c) ELSE UNCHANGED windowVars
    /\ Leaves(c)
    /\ UNCHANGED <<key, active, revokedKeys>>

Authenticate ==
    \E c \in Callers :
        \/ \E k \in ApiKeyIds : Present(c, k)
        \/ Listed(c) \/ Unlisted(c) \/ FindKey(c) \/ NoteRevoked(c)
        \/ FindInactive(c) \/ FindActive(c)
        \/ HasRoom(c) \/ TooMany(c) \/ Serve(c) \/ Finish(c) \/ Vanish(c)

Elapse == Tick /\ UNCHANGED <<key, active, revokedKeys, call>>

-----------------------------------------------------------------------------

(***************************************************************************)
(* A request that comes with a key already revoked, or to an integration   *)
(* that stays inactive from then on, is never served, although the set of  *)
(* revoked keys never has what it is asked for (get_current_integration).  *)
(***************************************************************************)
RefusedStayOut ==
    \A c \in Callers : In(c, "served") => ~call[c].barred /\ ~call[c].shut

(***************************************************************************)
(* The set of revoked keys turns away no key that is not revoked: revoking *)
(* one key of an integration leaves its others alone (revoke_key).         *)
(***************************************************************************)
SiblingsStayValid ==
    \A k \in ApiKeyIds : Claim(k) \in revokedKeys => key[k] = "revoked"
=============================================================================
