--------------------------- MODULE AdminSessions ---------------------------
(***************************************************************************)
(* The admin panel: sessions in Redis with a copy of the user's role, the  *)
(* middleware that loads one for every request, the roles a handler asks   *)
(* for, and the audit log, which is written after the change and not in a  *)
(* transaction with it.                                                    *)
(*                                                                         *)
(* What a handler changes is not modelled here: a module that composes     *)
(* this one with a component conjoins Change(p) with the component's step, *)
(* and Extra(p) with what the handler does between the two.                *)
(*                                                                         *)
(* Most handlers look first whether their row is there.  Those that update *)
(* an integration, a provider, a job type or its chain, or a status do     *)
(* not: they log whatever the repository call returned (integrations.py    *)
(* lines 128-148, partners.py 80-84, providers.py 115-122, job_types.py    *)
(* 75-76 and 90-106).                                                      *)
(***************************************************************************)
EXTENDS Naturals, FiniteSets

CONSTANTS
    Tabs,       \* requests the panel may have under way
    SessionIds, \* ids create_session may draw
    Operations, \* handlers that change something: do, and their arguments
    Roles,      \* values of admin_users.role
    Permitted,  \* [Operations -> SUBSET Roles]: require_role of the handler
    Blind,      \* what handlers that log unseen changes do
    MaxLost     \* bound: log entries that may be missing

ASSUME RolesAssumption == Roles \cap {"unused", "gone"} = {}
ASSUME PermittedAssumption == Permitted \in [Operations -> SUBSET Roles]
ASSUME BlindAssumption == Blind \subseteq {op.do : op \in Operations}
ASSUME LostAssumption == MaxLost \in Nat

VARIABLES
    session,    \* aimg:admin_session:{id}: "unused", a role, or "gone"
    ended,      \* history: sessions that were logged out of, or grew old
    tab,        \* what a request is doing
    done,       \* history: changes made
    lost,       \* history: changes whose request died before it wrote the log
    audit       \* audit_log

panelVars == <<session, ended, tab, done, lost, audit>>

Quiet == [step |-> "idle"]
Actions == {op.do : op \in Operations}
Entries == [by: SessionIds, do: Actions]

\* late: the session had ended when the request came.
TabStates == {Quiet} \cup
    [step: {"arrived", "allowed", "changed", "settled"}, by: SessionIds,
     op: Operations, late: BOOLEAN]

\* Types of sessions, panel requests and the log.
PanelTypeOK ==
    /\ session \in [SessionIds -> Roles \cup {"unused", "gone"}]
    /\ ended \subseteq SessionIds
    /\ tab \in [Tabs -> TabStates]
    /\ done \subseteq Entries
    /\ lost \subseteq Entries
    /\ audit \subseteq Entries

PanelInit ==
    /\ session = [s \in SessionIds |-> "unused"]
    /\ ended = {}
    /\ tab = [p \in Tabs |-> Quiet]
    /\ done = {}
    /\ lost = {}
    /\ audit = {}

-----------------------------------------------------------------------------

OnStep(p, step) == tab[p].step = step
ToStep(p, step) == tab' = [tab EXCEPT ![p].step = step]
Rest(p) == tab' = [tab EXCEPT ![p] = Quiet]
EntryOf(p) == [by |-> tab[p].by, do |-> tab[p].op.do]
Unlogged(p) == OnStep(p, "changed") \/ OnStep(p, "settled")

\* login_submit of an active user with the role r.
Login(s, r) ==
    /\ session[s] = "unused"
    /\ session' = [session EXCEPT ![s] = r]
    /\ UNCHANGED <<ended, tab, done, lost, audit>>

MutEndSession(s) ==
    /\ session[s] \in Roles
    /\ ended' = ended \cup {s}
    /\ UNCHANGED <<session, tab, done, lost, audit>>

\* logout, or a session 24 hours old.
EndSession(s) ==
    /\ session[s] \in Roles
    /\ session' = [session EXCEPT ![s] = "gone"]
    /\ ended' = ended \cup {s}
    /\ UNCHANGED <<tab, done, lost, audit>>

\* A request with the cookie of a session that was opened once.
Ask(p, s, op) ==
    /\ OnStep(p, "idle")
    /\ session[s] # "unused"
    /\ tab' = [tab EXCEPT ![p] = [step |-> "arrived", by |-> s, op |-> op,
                                  late |-> s \in ended]]
    /\ UNCHANGED <<session, ended, done, lost, audit>>

\* AdminSessionMiddleware and require_role.
MayEnter(p) == session[tab[p].by] \in Permitted[tab[p].op]

MutLetIn(p) ==
    /\ OnStep(p, "arrived")
    /\ MayEnter(p)
    /\ audit' = audit \cup {EntryOf(p)}
    /\ ToStep(p, "allowed")
    /\ UNCHANGED <<session, ended, done, lost>>

LetIn(p) ==
    /\ OnStep(p, "arrived")
    /\ MayEnter(p)
    /\ ToStep(p, "allowed")
    /\ UNCHANGED <<session, ended, done, lost, audit>>

\* To the login page, or 403.
SendAway(p) ==
    /\ OnStep(p, "arrived")
    /\ ~MayEnter(p)
    /\ Rest(p)
    /\ UNCHANGED <<session, ended, done, lost, audit>>

\* The handler's INSERT or UPDATE.
Change(p) ==
    /\ OnStep(p, "allowed")
    /\ done' = done \cup {EntryOf(p)}
    /\ ToStep(p, "changed")
    /\ UNCHANGED <<session, ended, lost, audit>>

\* The statement of a handler that does not look finds no row, or nothing of the
\* form is left for it to set; the handler goes on as if it had changed something.
ChangeNothing(p) ==
    /\ OnStep(p, "allowed")
    /\ tab[p].op.do \in Blind
    /\ ToStep(p, "changed")
    /\ UNCHANGED <<session, ended, done, lost, audit>>

\* A handler that looks finds no row, the form is not valid, or the statement is refused.
Decline(p) ==
    /\ OnStep(p, "allowed")
    /\ Rest(p)
    /\ UNCHANGED <<session, ended, done, lost, audit>>

\* What a handler does between the change and log_action.
Extra(p) ==
    /\ OnStep(p, "changed")
    /\ ToStep(p, "settled")
    /\ UNCHANGED <<session, ended, done, lost, audit>>

\* log_action.
Log(p) ==
    /\ OnStep(p, "settled")
    /\ audit' = audit \cup {EntryOf(p)}
    /\ Rest(p)
    /\ UNCHANGED <<session, ended, done, lost>>

\* The panel's process dies.
Halt(p) ==
    /\ ~OnStep(p, "idle")
    /\ lost' = lost \cup (IF Unlogged(p) THEN {EntryOf(p)} ELSE {})
    /\ Cardinality(lost') <= MaxLost
    /\ Rest(p)
    /\ UNCHANGED <<session, ended, done, audit>>

-----------------------------------------------------------------------------

(***************************************************************************)
(* A request that comes after its session has been ended by a logout or    *)
(* by age changes nothing (AdminSessionMiddleware, destroy_session).       *)
(***************************************************************************)
LoggedOutIsOut ==
    \A p \in Tabs : ~OnStep(p, "idle") /\ tab[p].late => OnStep(p, "arrived")

(***************************************************************************)
(* A change that the log lacks was made by a request that is still to      *)
(* write it, or that died between the change and log_action; and a change  *)
(* the log has was made, unless the handler is one of those that log what  *)
(* they have not seen: for these an entry only tells of a request.         *)
(***************************************************************************)
ChangesAreLogged ==
    /\ \A e \in done \ (audit \cup lost) :
         \E p \in Tabs : Unlogged(p) /\ EntryOf(p) = e
    /\ \A e \in audit : e \in done \/ e.do \in Blind
=============================================================================
