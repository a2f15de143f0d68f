------------------------------ MODULE Catalog ------------------------------
(***************************************************************************)
(* The providers of one job type: rows of providers and of                 *)
(* job_type_providers, as migration 004 makes them, the admin panel edits  *)
(* them and the seed script sets them right.  The script commits statement *)
(* by statement, may die between two of them and may be run again, with    *)
(* REPLICATE_API_TOKEN in its environment or without.                      *)
(***************************************************************************)
EXTENDS Naturals, Sequences, FiniteSets

CONSTANTS
    Providers,
    Replicate,      \* the provider of the slug replicate
    Mock,           \* the provider of the slug mock
    Priorities      \* priorities an admin may give

ASSUME ProvidersAssumption  == Replicate \in Providers /\ Mock \in Providers \ {Replicate}
ASSUME PrioritiesAssumption == {0, 1} \subseteq Priorities /\ Priorities \subseteq Nat

VARIABLES
    link,       \* job_type_providers: priority of each provider of the type
    broken,     \* why process_job passes a provider over
    seed,       \* the seed script
    clean       \* history: no edit since the script began

catalogVars == <<link, broken, seed, clean>>

\* Not active, an adapter_class that PROVIDER_ADAPTERS lacks, a key that
\* decrypt_value refuses.
Reasons == {"status", "adapter", "key"}

\* Types of links, of what is wrong with providers, and of the script's place.
CatalogTypeOK ==
    /\ DOMAIN link \subseteq Providers
    /\ \A p \in DOMAIN link : link[p] \in Priorities
    /\ broken \in [Providers -> SUBSET Reasons]
    /\ seed \in [step: {"idle", "mock", "replicate", "link", "fallback", "done"}, token: BOOLEAN]
    /\ clean \in BOOLEAN

\* The providers of migration 004: without a token the key is "not-configured".
Migrated(token) ==
    [p \in Providers |-> IF p = Replicate /\ ~token THEN {"key"} ELSE {}]

\* The links of the migration: the fallback to mock is not among them.
CatalogInit ==
    /\ link = [p \in {Replicate} |-> 0]
    /\ \E token \in BOOLEAN : broken = Migrated(token)
    /\ seed = [step |-> "idle", token |-> FALSE]
    /\ clean = FALSE

\* Makes room by moving the others back.
MutLinked(p, n) == [q \in DOMAIN link \cup {p} |-> IF q = p THEN n ELSE link[q] + 1]

\* INSERT .. ON CONFLICT (job_type_id, provider_id) DO UPDATE.
Linked(p, n) == [q \in DOMAIN link \cup {p} |-> IF q = p THEN n ELSE link[q]]

\* ORDER BY priority: of two rows with one priority either may come first.
Chains == {s \in UNION {[1..n -> DOMAIN link] : n \in 0..Cardinality(DOMAIN link)} :
             /\ \A i, k \in DOMAIN s : i < k => s[i] # s[k] /\ link[s[i]] <= link[s[k]]
             /\ DOMAIN link \subseteq {s[i] : i \in DOMAIN s}}

Usable(p) == broken[p] = {}

-----------------------------------------------------------------------------
(* The admin panel *)

\* job_type_provider_remove.
RemoveProvider(p) ==
    /\ p \in DOMAIN link
    /\ link' = [q \in DOMAIN link \ {p} |-> link[q]]
    /\ clean' = FALSE
    /\ UNCHANGED <<broken, seed>>

\* job_type_provider_add.
AddProvider(p, n) ==
    /\ link' = Linked(p, n)
    /\ link' # link
    /\ clean' = FALSE
    /\ UNCHANGED <<broken, seed>>

\* provider_update: status, adapter class or key.
UpdateProvider(p, r) ==
    /\ broken' = [broken EXCEPT ![p] = IF r \in @ THEN @ \ {r} ELSE @ \cup {r}]
    /\ clean' = FALSE
    /\ UNCHANGED <<link, seed>>

Administer ==
    \E p \in Providers :
        \/ RemoveProvider(p)
        \/ \E n \in Priorities : AddProvider(p, n)
        \/ \E r \in Reasons : UpdateProvider(p, r)

-----------------------------------------------------------------------------
(* run_seed *)

SeedStep(from, to) ==
    /\ seed.step = from
    /\ seed' = [seed EXCEPT !.step = to]

BeginSeed(token) ==
    /\ seed.step \in {"idle", "done"}
    /\ seed' = [step |-> "mock", token |-> token]
    /\ clean' = TRUE
    /\ UNCHANGED <<link, broken>>

\* The row of mock is there: its adapter_class is corrected.
SeedMock ==
    /\ SeedStep("mock", "replicate")
    /\ broken' = [broken EXCEPT ![Mock] = @ \ {"adapter"}]
    /\ UNCHANGED <<link, clean>>

\* The row of replicate gets its adapter_class and the key, or "not-needed",
\* which no one decrypts.
SeedReplicate ==
    /\ SeedStep("replicate", "link")
    /\ broken' = [broken EXCEPT ![Replicate] = @ \ {"adapter", "key"}]
    /\ UNCHANGED <<link, clean>>

MutSeedLink ==
    /\ SeedStep("link", IF seed.token THEN "done" ELSE "fallback")
    /\ link' = IF Replicate \in DOMAIN link THEN link ELSE Linked(Replicate, 0)
    /\ UNCHANGED <<broken, clean>>

SeedLink ==
    /\ SeedStep("link", IF seed.token THEN "done" ELSE "fallback")
    /\ link' = Linked(Replicate, 0)
    /\ UNCHANGED <<broken, clean>>

\* Only without a token.
SeedFallback ==
    /\ SeedStep("fallback", "done")
    /\ link' = Linked(Mock, 1)
    /\ UNCHANGED <<broken, clean>>

LoseSeed ==
    /\ seed.step \notin {"idle", "done"}
    /\ seed' = [seed EXCEPT !.step = "idle"]
    /\ UNCHANGED <<link, broken, clean>>

Seed == SeedMock \/ SeedReplicate \/ SeedLink \/ SeedFallback

-----------------------------------------------------------------------------

(***************************************************************************)
(* A run of the seed script that ends, without an edit meanwhile, leaves   *)
(* the job type as it should be, whatever edits and runs that died came    *)
(* before: replicate first or together with the first, its key and adapter *)
(* in order, and mock behind it if there is no token (run_seed).           *)
(***************************************************************************)
SeedConverges ==
    seed.step = "done" /\ clean =>
        /\ Replicate \in DOMAIN link /\ link[Replicate] = 0
        /\ broken[Replicate] \subseteq {"status"}
        /\ "adapter" \notin broken[Mock]
        /\ ~seed.token => Mock \in DOMAIN link /\ link[Mock] = 1
=============================================================================
