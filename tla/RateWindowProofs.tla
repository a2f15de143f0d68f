-------------------------- MODULE RateWindowProofs --------------------------
(***************************************************************************)
(* How far the window of check_rate_limit can be exceeded, for any limit,  *)
(* any span and any finite number of callers.                              *)
(***************************************************************************)
EXTENDS RateWindow, FiniteSetTheorems, TLAPS

-----------------------------------------------------------------------------
(* The inductive invariant *)

Passed == {c \in Callers : gate[c].at = "passed"}

\* Times of the callers that were let through and are not in the window yet.
Stamps == {gate[c].now : c \in Passed}

\* A call of the last Span is in the window, or with a caller that adds it next.
WindowSound ==
    /\ WindowTypeOK
    /\ IsFiniteSet(window)
    /\ \A c \in Callers : gate[c].at # "outside" => gate[c].now <= clock
    /\ Recent \subseteq window \cup Stamps
    /\ RateBound

-----------------------------------------------------------------------------
(* Finite sets *)

\* There are no more times than callers that read them.
LEMMA FewTimes ==
    ASSUME NEW P \in SUBSET Callers, NEW g
    PROVE  /\ IsFiniteSet({g[c].now : c \in P})
           /\ Cardinality({g[c].now : c \in P}) <= Cardinality(Callers)
<1> DEFINE S == {g[c].now : c \in P}
           f == [c \in P |-> g[c].now]
<1>1. /\ IsFiniteSet(P) /\ Cardinality(P) <= Cardinality(Callers)
      /\ Cardinality(P) \in Nat /\ Cardinality(Callers) \in Nat
  BY CallersAssumption, FS_Subset, FS_CardinalityType
<1>2. f \in Surjection(P, S)
  BY DEF Surjection
<1> HIDE DEF S, f
<1>3. IsFiniteSet(S) /\ Cardinality(S) <= Cardinality(P)
  BY <1>1, <1>2, FS_Surjection
<1>4. Cardinality(S) \in Nat
  BY <1>3, FS_CardinalityType
<1> QED
  BY <1>1, <1>3, <1>4 DEF S

\* The recent calls are finitely many, and their number is one.
LEMMA RecentFinite ==
    ASSUME WindowSound
    PROVE  IsFiniteSet(Recent) /\ Cardinality(Recent) \in Nat
<1>1. Passed \in SUBSET Callers
  BY DEF Passed
<1>2. IsFiniteSet(Stamps)
  BY <1>1, FewTimes DEF Stamps
<1>3. IsFiniteSet(window \cup Stamps)
  BY <1>2, FS_Union DEF WindowSound
<1> QED
  BY <1>3, FS_Subset, FS_CardinalityType DEF WindowSound

\* What is left of a window is finite.
LEMMA KeptFinite ==
    ASSUME WindowSound, NEW now \in Nat
    PROVE  IsFiniteSet(Kept(now)) /\ Cardinality(Kept(now)) \in Nat /\ Kept(now) \subseteq Nat
<1>1. Kept(now) \subseteq window
  BY DEF Kept
<1> QED
  BY <1>1, FS_Subset, FS_CardinalityType DEF WindowSound, WindowTypeOK

-----------------------------------------------------------------------------
(* Steps *)

\* Nothing is admitted before the first call.
LEMMA InitWindow == WindowInit => WindowSound
<1> SUFFICES ASSUME WindowInit
             PROVE  WindowSound
  OBVIOUS
<1>1. WindowTypeOK
  BY DEF WindowInit, WindowTypeOK, Outside, Gates
<1>2. Recent = {} /\ window = {}
  BY DEF WindowInit, Recent
<1>3. Cardinality({}) = 0 /\ IsFiniteSet({})
  BY FS_EmptySet
<1>4. Cardinality(Callers) \in Nat /\ Cardinality(Callers) # 0
  BY CallersAssumption, FS_EmptySet, FS_CardinalityType
<1>5. RateBound
  BY <1>2, <1>3, <1>4, LimitAssumption DEF RateBound
<1>6. \A c \in Callers : gate[c].at = "outside"
  BY DEF WindowInit, Outside
<1> QED
  BY <1>1, <1>2, <1>3, <1>5, <1>6 DEF WindowSound

\* A caller whose gate is set, and the others.
LEMMA GateSet ==
    ASSUME WindowTypeOK, NEW c \in Callers, NEW g \in Gates, gate' = [gate EXCEPT ![c] = g]
    PROVE  /\ gate' \in [Callers -> Gates]
           /\ gate'[c] = g
           /\ \A b \in Callers \ {c} : gate'[b] = gate[b]
BY DEF WindowTypeOK

\* A caller that has not passed, and does not, has no stamp.
LEMMA SameStamps ==
    ASSUME NEW c \in Callers, gate[c].at # "passed", gate'[c].at # "passed",
           \A b \in Callers \ {c} : gate'[b] = gate[b]
    PROVE  Stamps' = Stamps
<1>1. Passed' = Passed /\ c \notin Passed
  BY DEF Passed
<1>2. \A b \in Passed : gate'[b] = gate[b]
  BY <1>1 DEF Passed
<1> QED
  BY <1>1, <1>2 DEF Stamps

\* The bound survives when no call is added.
LEMMA FewerRecent ==
    ASSUME WindowSound, Recent' \subseteq Recent
    PROVE  RateBound'
<1>1. Cardinality(Recent') <= Cardinality(Recent) /\ Cardinality(Recent') \in Nat
  BY RecentFinite, FS_Subset, FS_CardinalityType
<1>2. Cardinality(Callers) \in Nat
  BY CallersAssumption, FS_CardinalityType
<1> QED
  BY <1>1, <1>2, RecentFinite, LimitAssumption DEF WindowSound, RateBound

\* Every step of the callers and the clock keeps the invariant.
LEMMA NextWindow == WindowSound /\ [WindowNext]_windowVars => WindowSound'
<1> SUFFICES ASSUME WindowSound, [WindowNext]_windowVars
             PROVE  WindowSound'
  OBVIOUS
<1>0. /\ WindowTypeOK /\ clock \in Nat /\ Span \in Nat
      /\ admitted \subseteq Nat /\ window \subseteq Nat
      /\ \A c \in Callers : gate[c] \in Gates /\ gate[c].now \in Nat
  BY SpanAssumption DEF WindowSound, WindowTypeOK, Gates
<1>1. CASE Tick
  <2>1. clock' = clock + 1 /\ UNCHANGED <<window, gate, admitted>>
    BY <1>1 DEF Tick
  <2>2. Recent' \subseteq Recent
    BY <1>0, <2>1 DEF Recent
  <2>3. Stamps' = Stamps
    BY <2>1 DEF Stamps, Passed
  <2>4. Recent' \subseteq window' \cup Stamps'
    BY <2>1, <2>2, <2>3 DEF WindowSound
  <2>5. WindowTypeOK' /\ IsFiniteSet(window')
    BY <1>0, <2>1 DEF WindowTypeOK, WindowSound
  <2>6. \A c \in Callers : gate'[c].at # "outside" => gate'[c].now <= clock'
    BY <1>0, <2>1 DEF WindowSound
  <2> QED
    BY <2>2, <2>4, <2>5, <2>6, FewerRecent DEF WindowSound
<1>2. ASSUME NEW c \in Callers, Enter(c)
      PROVE  WindowSound'
  <2> DEFINE g == [at |-> "asking", now |-> clock]
  <2>1. clock' = clock + 1 /\ gate' = [gate EXCEPT ![c] = g] /\ UNCHANGED <<window, admitted>>
    BY <1>2 DEF Enter
  <2>2. g \in Gates /\ g.at = "asking" /\ g.now = clock /\ gate[c].at = "outside"
    BY <1>0, <1>2 DEF Gates, Enter
  <2> HIDE DEF g
  <2>3. /\ gate' \in [Callers -> Gates] /\ gate'[c] = g
        /\ \A b \in Callers \ {c} : gate'[b] = gate[b]
    BY <1>0, <2>1, <2>2, GateSet
  <2>4. Stamps' = Stamps
    <3>1. gate[c].at # "passed" /\ gate'[c].at # "passed"
      BY <2>2, <2>3
    <3> QED
      BY <2>3, <3>1, SameStamps
  <2>5. Recent' \subseteq Recent
    <3>1. \A t \in Nat : t > clock' - Span => t > clock - Span
      BY <1>0, <2>1
    <3> QED
      BY <1>0, <2>1, <3>1 DEF Recent
  <2>6. Recent' \subseteq window' \cup Stamps'
    BY <2>1, <2>4, <2>5 DEF WindowSound
  <2>7. WindowTypeOK' /\ IsFiniteSet(window')
    BY <1>0, <2>1, <2>3 DEF WindowTypeOK, WindowSound
  <2>8. \A b \in Callers : gate'[b].at # "outside" => gate'[b].now <= clock'
    BY <1>0, <2>1, <2>2, <2>3 DEF WindowSound
  <2> QED
    BY <2>5, <2>6, <2>7, <2>8, FewerRecent DEF WindowSound
<1>3. ASSUME NEW c \in Callers, Admit(c)
      PROVE  WindowSound'
  <2> DEFINE now == gate[c].now
             g == [gate[c] EXCEPT !.at = "passed"]
  <2>1. /\ gate[c].at = "asking" /\ Cardinality(Kept(now)) < Limit /\ window' = Kept(now)
        /\ gate' = [gate EXCEPT ![c] = g] /\ admitted' = admitted \cup {now}
        /\ clock' = clock
    BY <1>3 DEF Admit
  <2>2. g \in Gates /\ g.at = "passed" /\ g.now = now /\ now \in Nat /\ now <= clock
    BY <1>0, <2>1 DEF Gates, WindowSound
  <2> HIDE DEF g, now
  <2>3. /\ gate' \in [Callers -> Gates] /\ gate'[c] = g
        /\ \A b \in Callers \ {c} : gate'[b] = gate[b]
    BY <1>0, <2>1, <2>2, GateSet
  <2>4. Stamps \subseteq Stamps' /\ now \in Stamps'
    <3>1. Passed' = Passed \cup {c} /\ c \notin Passed
      BY <2>1, <2>2, <2>3 DEF Passed
    <3>2. \A b \in Passed : gate'[b] = gate[b] /\ b \in Passed'
      BY <2>3, <3>1 DEF Passed
    <3>3. \A t \in Stamps : \E b \in Passed : t = gate[b].now
      BY DEF Stamps
    <3>4. \A b \in Passed' : gate'[b].now \in Stamps'
      BY DEF Stamps
    <3> QED
      BY <2>2, <2>3, <3>1, <3>2, <3>3, <3>4
  <2>5. Recent' \subseteq Recent \cup {now}
    BY <2>1 DEF Recent
  <2>6. Recent \cap window \subseteq window'
    <3>1. \A t \in Nat : t > clock - Span => t > now - Span
      BY <1>0, <2>2
    <3> QED
      BY <1>0, <2>1, <3>1 DEF Recent, Kept
  <2>7. Recent' \subseteq window' \cup Stamps'
    BY <2>4, <2>5, <2>6 DEF WindowSound
  <2>8. IsFiniteSet(window') /\ Cardinality(window') \in Nat /\ window' \subseteq Nat
    BY <2>1, <2>2, KeptFinite
  <2>9. RateBound'
    <3>1. IsFiniteSet(Stamps') /\ Cardinality(Stamps') <= Cardinality(Callers)
      BY FewTimes DEF Stamps, Passed
    <3>2. /\ IsFiniteSet(window' \cup Stamps')
          /\ Cardinality(window' \cup Stamps') =
               Cardinality(window') + Cardinality(Stamps') - Cardinality(window' \cap Stamps')
      BY <2>8, <3>1, FS_Union
    <3>3. /\ Cardinality(Stamps') \in Nat /\ Cardinality(Callers) \in Nat
          /\ Cardinality(window' \cap Stamps') \in Nat
          /\ Cardinality(window' \cup Stamps') \in Nat
      BY <2>8, <3>1, <3>2, CallersAssumption, FS_CardinalityType, FS_Intersection
    <3>4. /\ Cardinality(Recent') <= Cardinality(window' \cup Stamps')
          /\ Cardinality(Recent') \in Nat
      BY <2>7, <3>2, FS_Subset, FS_CardinalityType
    <3>5. Cardinality(window') <= Limit - 1
      BY <2>1, <2>8, LimitAssumption
    <3>6. Cardinality(Recent') <= Limit - 1 + Cardinality(Callers)
      BY <2>8, <3>1, <3>2, <3>3, <3>4, <3>5, LimitAssumption
    <3> QED
      BY <3>6 DEF RateBound
  <2>10. WindowTypeOK'
    BY <1>0, <2>1, <2>2, <2>3, <2>8 DEF WindowTypeOK
  <2>11. \A b \in Callers : gate'[b].at # "outside" => gate'[b].now <= clock'
    BY <2>1, <2>2, <2>3 DEF WindowSound
  <2> QED
    BY <2>7, <2>8, <2>9, <2>10, <2>11 DEF WindowSound
<1>4. ASSUME NEW c \in Callers, Refuse(c)
      PROVE  WindowSound'
  <2> DEFINE now == gate[c].now
  <2>1. /\ gate[c].at = "asking" /\ window' = Kept(now)
        /\ gate' = [gate EXCEPT ![c] = Outside] /\ UNCHANGED <<clock, admitted>>
    BY <1>4 DEF Refuse
  <2>2. Outside \in Gates /\ Outside.at = "outside" /\ now \in Nat /\ now <= clock
    BY <1>0, <2>1 DEF Gates, Outside, WindowSound
  <2> HIDE DEF now
  <2>3. /\ gate' \in [Callers -> Gates] /\ gate'[c] = Outside
        /\ \A b \in Callers \ {c} : gate'[b] = gate[b]
    BY <1>0, <2>1, <2>2, GateSet
  <2>4. Stamps' = Stamps
    <3>1. gate[c].at # "passed" /\ gate'[c].at # "passed"
      BY <2>1, <2>2, <2>3
    <3> QED
      BY <2>3, <3>1, SameStamps
  <2>5. Recent' = Recent
    BY <2>1 DEF Recent
  <2>6. Recent \cap window \subseteq window'
    <3>1. \A t \in Nat : t > clock - Span => t > now - Span
      BY <1>0, <2>2
    <3> QED
      BY <1>0, <2>1, <3>1 DEF Recent, Kept
  <2>7. Recent' \subseteq window' \cup Stamps'
    BY <2>4, <2>5, <2>6 DEF WindowSound
  <2>8. IsFiniteSet(window') /\ window' \subseteq Nat
    BY <2>1, <2>2, KeptFinite
  <2>9. WindowTypeOK'
    BY <1>0, <2>1, <2>3, <2>8 DEF WindowTypeOK
  <2>10. \A b \in Callers : gate'[b].at # "outside" => gate'[b].now <= clock'
    BY <2>1, <2>2, <2>3 DEF WindowSound
  <2> QED
    BY <2>5, <2>7, <2>8, <2>9, <2>10, FewerRecent DEF WindowSound
<1>5. ASSUME NEW c \in Callers, Add(c)
      PROVE  WindowSound'
  <2> DEFINE now == gate[c].now
  <2>1. /\ gate[c].at = "passed" /\ window' = window \cup {now}
        /\ gate' = [gate EXCEPT ![c] = Outside] /\ UNCHANGED <<clock, admitted>>
    BY <1>5 DEF Add
  <2>2. Outside \in Gates /\ Outside.at = "outside" /\ now \in Nat
    BY <1>0, <2>1 DEF Gates, Outside
  <2>3. /\ gate' \in [Callers -> Gates] /\ gate'[c] = Outside
        /\ \A b \in Callers \ {c} : gate'[b] = gate[b]
    BY <1>0, <2>1, <2>2, GateSet
  <2>4. Stamps \subseteq Stamps' \cup {now}
    BY <2>1, <2>2, <2>3 DEF Stamps, Passed
  <2> HIDE DEF now
  <2>5. Recent' = Recent
    BY <2>1 DEF Recent
  <2>6. Recent' \subseteq window' \cup Stamps'
    BY <2>1, <2>4, <2>5 DEF WindowSound
  <2>7. IsFiniteSet(window') /\ window' \subseteq Nat
    BY <1>0, <2>1, <2>2, FS_AddElement DEF WindowSound
  <2>8. WindowTypeOK'
    BY <1>0, <2>1, <2>3, <2>7 DEF WindowTypeOK
  <2>9. \A b \in Callers : gate'[b].at # "outside" => gate'[b].now <= clock'
    BY <2>1, <2>2, <2>3 DEF WindowSound
  <2> QED
    BY <2>5, <2>6, <2>7, <2>8, <2>9, FewerRecent DEF WindowSound
<1>6. ASSUME NEW c \in Callers, Leave(c)
      PROVE  WindowSound'
  <2> DEFINE now == gate[c].now
  <2>1. /\ gate' = [gate EXCEPT ![c] = Outside] /\ UNCHANGED <<clock, window>>
        /\ admitted' = admitted \ (IF gate[c].at = "passed" THEN {now} ELSE {})
    BY <1>6 DEF Leave
  <2>2. Outside \in Gates /\ Outside.at = "outside" /\ now \in Nat
    BY <1>0, <2>1 DEF Gates, Outside
  <2>3. /\ gate' \in [Callers -> Gates] /\ gate'[c] = Outside
        /\ \A b \in Callers \ {c} : gate'[b] = gate[b]
    BY <1>0, <2>1, <2>2, GateSet
  <2>4. Stamps \subseteq Stamps' \cup (IF gate[c].at = "passed" THEN {now} ELSE {})
    BY <2>1, <2>2, <2>3 DEF Stamps, Passed
  <2> HIDE DEF now
  <2>5. /\ Recent' \subseteq Recent
        /\ Recent' \cap (IF gate[c].at = "passed" THEN {now} ELSE {}) = {}
    BY <2>1 DEF Recent
  <2>6. Recent' \subseteq window' \cup Stamps'
    BY <2>1, <2>4, <2>5 DEF WindowSound
  <2>7. WindowTypeOK' /\ IsFiniteSet(window')
    BY <1>0, <2>1, <2>3 DEF WindowTypeOK, WindowSound
  <2>8. \A b \in Callers : gate'[b].at # "outside" => gate'[b].now <= clock'
    BY <2>1, <2>2, <2>3 DEF WindowSound
  <2> QED
    BY <2>5, <2>6, <2>7, <2>8, FewerRecent DEF WindowSound
<1>7. CASE UNCHANGED windowVars
  BY <1>7 DEF windowVars, WindowSound, WindowTypeOK, Recent, Stamps, Passed, RateBound
<1> QED
  BY <1>1, <1>2, <1>3, <1>4, <1>5, <1>6, <1>7 DEF WindowNext

\* No Span has more than Limit calls but for those that counted together.
THEOREM WindowIsBounded == WindowSpec => []RateBound
<1>1. WindowSound => RateBound
  BY DEF WindowSound
<1> QED
  BY <1>1, InitWindow, NextWindow, PTL DEF WindowSpec
=============================================================================
