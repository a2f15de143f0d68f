----------------------------- MODULE RateWindow -----------------------------
(***************************************************************************)
(* check_rate_limit: a sliding window in a Redis sorted set.               *)
(*                                                                         *)
(* A caller reads its clock, then one pipeline drops the members that have *)
(* left the window and counts the rest, then a second pipeline adds the    *)
(* caller.  A member is str(now): the times two callers read are distinct, *)
(* so a member stands for one call.  EXPIRE removes the set once its       *)
(* newest member is out of the window, which Kept does as well.            *)
(*                                                                         *)
(* JobSubmission extends this module with the window of a user's jobs,     *)
(* ApiKeys with the window of an integration's requests.                   *)
(***************************************************************************)
EXTENDS Integers, FiniteSets

CONSTANTS
    Callers,    \* requests the API may have under way at one time
    Limit,      \* calls the window allows
    Span,       \* its length: window_seconds
    MaxClock    \* bound: when the clock stops

ASSUME CallersAssumption == IsFiniteSet(Callers) /\ Callers # {}
ASSUME LimitAssumption   == Limit \in Nat
ASSUME SpanAssumption    == Span \in Nat
ASSUME WindowClockAssumption == MaxClock \in Nat

VARIABLES
    clock,      \* time.time()
    window,     \* members of the sorted set
    gate,       \* where a caller is in check_rate_limit, and the time it read
    admitted    \* history: times of all the calls that were let through

windowVars == <<clock, window, gate, admitted>>

Outside == [at |-> "outside", now |-> 0]
Gates == [at: {"outside", "asking", "passed"}, now: Nat]

\* Types of the window and of the calls: the members of the window are times.
WindowTypeOK ==
    /\ clock \in Nat
    /\ window \subseteq Nat
    /\ gate \in [Callers -> Gates]
    /\ admitted \subseteq Nat

WindowInit ==
    /\ clock = 1
    /\ window = {}
    /\ gate = [c \in Callers |-> Outside]
    /\ admitted = {}

-----------------------------------------------------------------------------

\* zremrangebyscore(key, 0, now - window_seconds).
Kept(now) == {t \in window : t > now - Span}

Tick ==
    /\ clock < MaxClock
    /\ clock' = clock + 1
    /\ UNCHANGED <<window, gate, admitted>>

\* now = time.time(): no other call reads the same time.
Enter(c) ==
    /\ gate[c].at = "outside"
    /\ clock < MaxClock
    /\ gate' = [gate EXCEPT ![c] = [at |-> "asking", now |-> clock]]
    /\ clock' = clock + 1
    /\ UNCHANGED <<window, admitted>>

MutAdmit(c) ==
    /\ gate[c].at = "asking"
    /\ Cardinality(Kept(gate[c].now)) <= Limit
    /\ window' = Kept(gate[c].now)
    /\ gate' = [gate EXCEPT ![c].at = "passed"]
    /\ admitted' = admitted \cup {gate[c].now}
    /\ UNCHANGED clock

\* The first pipeline finds room.
Admit(c) ==
    /\ gate[c].at = "asking"
    /\ Cardinality(Kept(gate[c].now)) < Limit
    /\ window' = Kept(gate[c].now)
    /\ gate' = [gate EXCEPT ![c].at = "passed"]
    /\ admitted' = admitted \cup {gate[c].now}
    /\ UNCHANGED clock

\* The first pipeline finds the window full: 429.
Refuse(c) ==
    /\ gate[c].at = "asking"
    /\ Cardinality(Kept(gate[c].now)) >= Limit
    /\ window' = Kept(gate[c].now)
    /\ gate' = [gate EXCEPT ![c] = Outside]
    /\ UNCHANGED <<clock, admitted>>

\* The second pipeline: zadd and expire.
Add(c) ==
    /\ gate[c].at = "passed"
    /\ window' = window \cup {gate[c].now}
    /\ gate' = [gate EXCEPT ![c] = Outside]
    /\ UNCHANGED <<clock, admitted>>

\* The process that serves the call dies, before or after its count.  A call
\* that had been counted is in no window and is never answered.
Leave(c) ==
    /\ gate[c].at # "outside"
    /\ gate' = [gate EXCEPT ![c] = Outside]
    /\ admitted' = admitted \ (IF gate[c].at = "passed" THEN {gate[c].now} ELSE {})
    /\ UNCHANGED <<clock, window>>

WindowNext ==
    \/ Tick
    \/ \E c \in Callers : Enter(c) \/ Admit(c) \/ Refuse(c) \/ Add(c) \/ Leave(c)

WindowSpec == WindowInit /\ [][WindowNext]_windowVars

-----------------------------------------------------------------------------

Recent == {t \in admitted : t > clock - Span}

(***************************************************************************)
(* Counting and adding are two pipelines, so callers that count together   *)
(* do not see each other.  The window is exceeded by no more than that: by *)
(* the calls under way besides the one that counts (check_rate_limit).     *)
(***************************************************************************)
RateBound == Cardinality(Recent) <= Limit - 1 + Cardinality(Callers)
=============================================================================
