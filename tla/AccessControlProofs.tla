------------------------ MODULE AccessControlProofs ------------------------
(***************************************************************************)
(* Proofs about keys, sessions and the panel, for any numbers of requests, *)
(* keys, tabs, sessions, roles and handlers: who was refused stays out,    *)
(* siblings stay valid, who has logged out is out, changes are logged,     *)
(* and the window of requests per minute keeps its bound.                  *)
(***************************************************************************)
EXTENDS AccessControl, RateWindowProofs

vars == <<keyVars, panelVars>>

-----------------------------------------------------------------------------
(* The panel *)

\* What the step of a tab says of its other fields.
LEMMA TabShape ==
    ASSUME PanelTypeOK, NEW p \in Tabs
    PROVE  /\ tab[p] \in TabStates
           /\ ~OnStep(p, "idle") =>
                /\ tab[p].by \in SessionIds /\ tab[p].op \in Operations
                /\ tab[p].late \in BOOLEAN /\ EntryOf(p) \in Entries
                /\ tab[p].step \in {"arrived", "allowed", "changed", "settled"}
<1>1. tab[p] \in TabStates
  BY DEF PanelTypeOK
<1>2. CASE tab[p] = Quiet
  BY <1>1, <1>2 DEF OnStep, Quiet
<1>3. CASE tab[p] # Quiet
  <2>1. tab[p] \in [step: {"arrived", "allowed", "changed", "settled"}, by: SessionIds,
                    op: Operations, late: BOOLEAN]
    BY <1>1, <1>3 DEF TabStates
  <2>2. tab[p].by \in SessionIds /\ tab[p].op \in Operations /\ tab[p].late \in BOOLEAN
        /\ tab[p].step \in {"arrived", "allowed", "changed", "settled"}
    BY <2>1
  <2>3. EntryOf(p) \in Entries
    BY <2>2 DEF EntryOf, Entries, Actions
  <2> QED
    BY <1>1, <2>2, <2>3
<1> QED
  BY <1>2, <1>3

\* A tab that rests.
LEMMA TabRests ==
    ASSUME PanelTypeOK, NEW p \in Tabs, Rest(p)
    PROVE  /\ tab' \in [Tabs -> TabStates]
           /\ tab'[p].step = "idle"
           /\ \A q \in Tabs \ {p} : tab'[q] = tab[q]
<1>1. Quiet \in TabStates /\ Quiet.step = "idle"
  BY DEF TabStates, Quiet
<1> QED
  BY <1>1 DEF Rest, PanelTypeOK

\* A tab that goes on.
LEMMA TabGoes ==
    ASSUME PanelTypeOK, NEW p \in Tabs, ~OnStep(p, "idle"),
           NEW step \in {"allowed", "changed", "settled"}, ToStep(p, step)
    PROVE  /\ tab' \in [Tabs -> TabStates]
           /\ tab'[p].step = step /\ tab'[p].by = tab[p].by /\ tab'[p].op = tab[p].op
           /\ tab'[p].late = tab[p].late
           /\ \A q \in Tabs \ {p} : tab'[q] = tab[q]
<1> DEFINE t == [tab[p] EXCEPT !.step = step]
<1>1. tab[p] \in [step: {"arrived", "allowed", "changed", "settled"}, by: SessionIds,
                  op: Operations, late: BOOLEAN]
  BY DEF PanelTypeOK, TabStates, OnStep, Quiet
<1>2. t \in TabStates /\ t.step = step /\ t.by = tab[p].by /\ t.op = tab[p].op
      /\ t.late = tab[p].late
  BY <1>1 DEF TabStates
<1>3. tab' = [tab EXCEPT ![p] = t]
  BY DEF ToStep
<1> HIDE DEF t
<1> QED
  BY <1>2, <1>3 DEF PanelTypeOK

\* A session that has ended is gone; a request that came after the end is not
\* let in; what is about to be logged has been done, or comes from a handler that
\* does not look.
TabSound(p) ==
    /\ ~OnStep(p, "idle") /\ tab[p].late => OnStep(p, "arrived") /\ tab[p].by \in ended
    /\ Unlogged(p) => EntryOf(p) \in done \/ EntryOf(p).do \in Blind

PanelSound ==
    /\ \A s \in ended : session[s] = "gone"
    /\ \A p \in Tabs : TabSound(p)
    /\ ChangesAreLogged

\* Steps of the panel, with what they are composed with left out.
PanelNext ==
    \/ PanelOnly
    \/ \E p \in Tabs : Change(p) \/ Extra(p)

\* No session, no tab, no change.
LEMMA InitPanel == PanelInit => PanelTypeOK /\ PanelSound
BY DEF PanelInit, PanelTypeOK, PanelSound, TabSound, ChangesAreLogged, TabStates, Quiet, OnStep,
       Unlogged

\* Only tab p has moved; what is missing from the log is accounted for as before.
LEMMA TabMoved ==
    ASSUME PanelSound, NEW p \in Tabs, UNCHANGED <<session, ended, audit>>,
           \A q \in Tabs \ {p} : tab'[q] = tab[q],
           done \subseteq done', lost \subseteq lost', TabSound(p)',
           \A e \in done' \ (done \cup lost') : Unlogged(p)' /\ EntryOf(p)' = e,
           Unlogged(p) => \/ EntryOf(p) \in lost'
                          \/ Unlogged(p)' /\ EntryOf(p)' = EntryOf(p)
    PROVE  PanelSound'
<1>1. ASSUME NEW q \in Tabs \ {p}
      PROVE  TabSound(q)' /\ Unlogged(q)' = Unlogged(q) /\ EntryOf(q)' = EntryOf(q)
  BY DEF PanelSound, TabSound, OnStep, Unlogged, EntryOf
<1>2. ASSUME NEW e \in done' \ (audit' \cup lost')
      PROVE  \E q \in Tabs : Unlogged(q)' /\ EntryOf(q)' = e
  <2>1. CASE e \notin done
    BY <1>2, <2>1
  <2>2. CASE e \in done
    <3>1. PICK q \in Tabs : Unlogged(q) /\ EntryOf(q) = e
      BY <1>2, <2>2 DEF PanelSound, ChangesAreLogged
    <3>2. CASE q = p
      BY <1>2, <3>1, <3>2
    <3>3. CASE q # p
      BY <1>1, <3>1, <3>3
    <3> QED
      BY <3>2, <3>3
  <2> QED
    BY <2>1, <2>2
<1>3. \A e \in audit' : e \in done' \/ e.do \in Blind
  BY DEF PanelSound, ChangesAreLogged
<1> QED
  BY <1>1, <1>2, <1>3 DEF PanelSound, ChangesAreLogged

\* Every step of the panel keeps its types and its invariant.
LEMMA NextPanel ==
    ASSUME PanelTypeOK, PanelSound, [PanelNext]_panelVars
    PROVE  PanelTypeOK' /\ PanelSound'
<1>1. ASSUME NEW x \in SessionIds, NEW r \in Roles, Login(x, r)
      PROVE  PanelTypeOK' /\ PanelSound'
  <2>1. PanelTypeOK'
    BY <1>1 DEF Login, PanelTypeOK
  <2>2. \A y \in ended : session'[y] = "gone"
    BY <1>1, RolesAssumption DEF Login, PanelSound, PanelTypeOK
  <2> QED
    BY <1>1, <2>1, <2>2 DEF Login, PanelSound, TabSound, ChangesAreLogged, OnStep, Unlogged, EntryOf
<1>2. ASSUME NEW x \in SessionIds, EndSession(x)
      PROVE  PanelTypeOK' /\ PanelSound'
  <2>1. PanelTypeOK'
    BY <1>2 DEF EndSession, PanelTypeOK
  <2>2. \A y \in ended' : session'[y] = "gone"
    BY <1>2 DEF EndSession, PanelSound, PanelTypeOK
  <2>3. \A q \in Tabs : TabSound(q)'
    BY <1>2 DEF EndSession, PanelSound, TabSound, OnStep, Unlogged, EntryOf
  <2> QED
    BY <1>2, <2>1, <2>2, <2>3 DEF EndSession, PanelSound, ChangesAreLogged, OnStep, Unlogged, EntryOf
<1>3. ASSUME NEW p \in Tabs, NEW x \in SessionIds, NEW op \in Operations, Ask(p, x, op)
      PROVE  PanelTypeOK' /\ PanelSound'
  <2> DEFINE t == [step |-> "arrived", by |-> x, op |-> op, late |-> x \in ended]
  <2>1. (x \in ended) \in BOOLEAN
    BY SMT
  <2>2. t \in TabStates
    BY <2>1 DEF TabStates
  <2>3. t.step = "arrived" /\ t.by = x /\ (t.late => x \in ended)
    BY Zenon
  <2>4. tab' = [tab EXCEPT ![p] = t] /\ UNCHANGED <<session, ended, done, lost, audit>>
        /\ ~Unlogged(p)
    BY <1>3 DEF Ask, OnStep, Unlogged
  <2> HIDE DEF t
  <2>5. tab'[p] = t /\ (\A q \in Tabs \ {p} : tab'[q] = tab[q]) /\ PanelTypeOK'
    BY <2>2, <2>4 DEF PanelTypeOK
  <2>6. TabSound(p)'
    BY <2>3, <2>4, <2>5 DEF TabSound, OnStep, Unlogged
  <2> QED
    BY <2>4, <2>5, <2>6, TabMoved
<1>4. ASSUME NEW p \in Tabs, LetIn(p)
      PROVE  PanelTypeOK' /\ PanelSound'
  <2>1. /\ tab'[p].step = "allowed" /\ tab'[p].late = tab[p].late
        /\ \A q \in Tabs \ {p} : tab'[q] = tab[q]
        /\ PanelTypeOK'
    BY <1>4, TabGoes DEF LetIn, OnStep, PanelTypeOK
  <2>2. ~tab[p].late
    <3>1. tab[p].by \notin ended
      BY <1>4, TabShape, RolesAssumption, PermittedAssumption
         DEF LetIn, MayEnter, PanelSound, OnStep
    <3> QED
      BY <1>4, <3>1 DEF LetIn, PanelSound, TabSound, OnStep
  <2>3. TabSound(p)'
    BY <2>1, <2>2 DEF TabSound, OnStep, Unlogged
  <2> QED
    BY <1>4, <2>1, <2>3, TabMoved DEF LetIn, OnStep, Unlogged
<1>5. ASSUME NEW p \in Tabs, SendAway(p) \/ Decline(p)
      PROVE  PanelTypeOK' /\ PanelSound'
  <2>1. /\ Rest(p) /\ ~Unlogged(p) /\ UNCHANGED <<session, ended, done, lost, audit>>
    BY <1>5 DEF SendAway, Decline, OnStep, Unlogged
  <2>2. tab'[p].step = "idle" /\ (\A q \in Tabs \ {p} : tab'[q] = tab[q]) /\ PanelTypeOK'
    BY <2>1, TabRests DEF PanelTypeOK
  <2>3. TabSound(p)'
    BY <2>2 DEF TabSound, OnStep, Unlogged
  <2> QED
    BY <2>1, <2>2, <2>3, TabMoved
<1>6. ASSUME NEW p \in Tabs, Change(p)
      PROVE  PanelTypeOK' /\ PanelSound'
  <2>1. /\ tab'[p].step = "changed" /\ tab'[p].late = tab[p].late
        /\ tab'[p].by = tab[p].by /\ tab'[p].op = tab[p].op
        /\ tab' \in [Tabs -> TabStates] /\ \A q \in Tabs \ {p} : tab'[q] = tab[q]
    BY <1>6, TabGoes DEF Change, OnStep
  <2>2. EntryOf(p)' = EntryOf(p) /\ EntryOf(p) \in Entries
    BY <1>6, <2>1, TabShape DEF EntryOf, Change, OnStep
  <2>3. /\ done' = done \cup {EntryOf(p)} /\ ~Unlogged(p) /\ OnStep(p, "allowed")
        /\ UNCHANGED <<session, ended, lost, audit>>
    BY <1>6 DEF Change, OnStep, Unlogged
  <2>4. PanelTypeOK'
    BY <2>1, <2>2, <2>3 DEF PanelTypeOK
  <2>5. TabSound(p)' /\ Unlogged(p)'
    BY <2>1, <2>2, <2>3 DEF PanelSound, TabSound, OnStep, Unlogged
  <2> QED
    BY <2>1, <2>2, <2>3, <2>4, <2>5, TabMoved
<1>7. ASSUME NEW p \in Tabs, ChangeNothing(p)
      PROVE  PanelTypeOK' /\ PanelSound'
  <2>1. /\ tab'[p].step = "changed" /\ tab'[p].late = tab[p].late
        /\ tab'[p].by = tab[p].by /\ tab'[p].op = tab[p].op
        /\ tab' \in [Tabs -> TabStates] /\ \A q \in Tabs \ {p} : tab'[q] = tab[q]
    BY <1>7, TabGoes DEF ChangeNothing, OnStep
  <2>2. EntryOf(p)'.do \in Blind
    BY <1>7, <2>1 DEF EntryOf, ChangeNothing
  <2>3. /\ ~Unlogged(p) /\ OnStep(p, "allowed")
        /\ UNCHANGED <<session, ended, done, lost, audit>>
    BY <1>7 DEF ChangeNothing, OnStep, Unlogged
  <2>4. PanelTypeOK'
    BY <2>1, <2>3 DEF PanelTypeOK
  <2>5. TabSound(p)'
    BY <2>1, <2>2, <2>3 DEF PanelSound, TabSound, OnStep, Unlogged
  <2> QED
    BY <2>1, <2>3, <2>4, <2>5, TabMoved
<1>8. ASSUME NEW p \in Tabs, Extra(p)
      PROVE  PanelTypeOK' /\ PanelSound'
  <2>1. /\ tab'[p].step = "settled" /\ tab'[p].late = tab[p].late
        /\ tab'[p].by = tab[p].by /\ tab'[p].op = tab[p].op
        /\ PanelTypeOK' /\ \A q \in Tabs \ {p} : tab'[q] = tab[q]
    BY <1>8, TabGoes DEF Extra, OnStep, PanelTypeOK
  <2>2. EntryOf(p)' = EntryOf(p) /\ Unlogged(p)' /\ Unlogged(p) /\ OnStep(p, "changed")
        /\ UNCHANGED <<session, ended, done, lost, audit>>
    BY <1>8, <2>1 DEF EntryOf, Extra, OnStep, Unlogged
  <2>3. TabSound(p)'
    BY <2>1, <2>2 DEF PanelSound, TabSound, OnStep, Unlogged
  <2> QED
    BY <2>1, <2>2, <2>3, TabMoved
<1>9. ASSUME NEW p \in Tabs, Log(p)
      PROVE  PanelTypeOK' /\ PanelSound'
  <2>1. /\ Rest(p) /\ Unlogged(p) /\ audit' = audit \cup {EntryOf(p)}
        /\ UNCHANGED <<session, ended, done, lost>> /\ ~OnStep(p, "idle")
    BY <1>9 DEF Log, OnStep, Unlogged
  <2>2. /\ tab'[p].step = "idle" /\ (\A q \in Tabs \ {p} : tab'[q] = tab[q])
        /\ tab' \in [Tabs -> TabStates]
    BY <2>1, TabRests
  <2>3. (EntryOf(p) \in done \/ EntryOf(p).do \in Blind) /\ EntryOf(p) \in Entries
    BY <2>1, TabShape DEF PanelSound, TabSound
  <2>4. PanelTypeOK'
    BY <2>1, <2>2, <2>3 DEF PanelTypeOK
  <2>5. \A q \in Tabs : TabSound(q)'
    BY <2>1, <2>2 DEF PanelSound, TabSound, OnStep, Unlogged, EntryOf
  <2>6. ASSUME NEW e \in done' \ (audit' \cup lost')
        PROVE  \E q \in Tabs : Unlogged(q)' /\ EntryOf(q)' = e
    <3>1. PICK q \in Tabs : Unlogged(q) /\ EntryOf(q) = e
      BY <2>1, <2>6 DEF PanelSound, ChangesAreLogged
    <3>2. q # p
      BY <2>1, <2>6, <3>1
    <3> QED
      BY <2>2, <3>1, <3>2 DEF Unlogged, OnStep, EntryOf
  <2>7. \A e \in audit' : e \in done' \/ e.do \in Blind
    BY <2>1, <2>3 DEF PanelSound, ChangesAreLogged
  <2>8. \A x \in ended' : session'[x] = "gone"
    BY <2>1 DEF PanelSound
  <2> QED
    BY <2>4, <2>5, <2>6, <2>7, <2>8 DEF PanelSound, ChangesAreLogged
<1>10. ASSUME NEW p \in Tabs, Halt(p)
      PROVE  PanelTypeOK' /\ PanelSound'
  <2>1. /\ Rest(p) /\ ~OnStep(p, "idle") /\ UNCHANGED <<session, ended, done, audit>>
        /\ lost' = lost \cup (IF Unlogged(p) THEN {EntryOf(p)} ELSE {})
    BY <1>10 DEF Halt
  <2>2. /\ tab'[p].step = "idle" /\ (\A q \in Tabs \ {p} : tab'[q] = tab[q])
        /\ tab' \in [Tabs -> TabStates]
    BY <2>1, TabRests
  <2>3. PanelTypeOK'
    BY <2>1, <2>2, TabShape DEF PanelTypeOK
  <2>4. TabSound(p)'
    BY <2>2 DEF TabSound, OnStep, Unlogged
  <2> QED
    BY <2>1, <2>2, <2>3, <2>4, TabMoved
<1>11. CASE UNCHANGED panelVars
  BY <1>11 DEF panelVars, PanelTypeOK, PanelSound, TabSound, ChangesAreLogged, OnStep, Unlogged,
               EntryOf
<1> QED
  BY <1>1, <1>2, <1>3, <1>4, <1>5, <1>6, <1>7, <1>8, <1>9, <1>10, <1>11 DEF PanelNext, PanelOnly

-----------------------------------------------------------------------------
(* Keys and the requests that present them *)

\* A request is at its window exactly while check_rate_limit runs for it.
StepsAgree ==
    \A c \in Callers : (In(c, "window") \/ In(c, "counted")) <=> gate[c].at # "outside"

\* A revoked key stays revoked, so a request that came with one has not got past
\* the lookup of the key; nor past the integration's while that is inactive.
CallSound(c) ==
    /\ ~In(c, "idle") /\ call[c].barred =>
         /\ call[c].step \in {"token", "unlisted", "revoked"}
         /\ key[call[c].key] = "revoked"
    /\ ~In(c, "idle") /\ call[c].shut =>
         /\ call[c].step \in {"token", "unlisted", "revoked", "found"}
         /\ ~active

KeysSound ==
    /\ StepsAgree
    /\ \A c \in Callers : CallSound(c)
    /\ IntegrationId \notin revokedKeys

\* Everything ApiKeys does, with what it is composed with left out.
KeysNext ==
    \/ \E k \in ApiKeyIds :
         Generate(k) \/ Remember(k) \/ (key[k] # "none" /\ Revoke(k))
    \/ \E on \in BOOLEAN : SetStatus(on)
    \/ Authenticate
    \/ Elapse

\* A step of the keys is a step of the window or leaves it alone.
LEMMA KeysWindow == ASSUME [KeysNext]_keyVars PROVE [WindowNext]_windowVars
<1>1. ASSUME NEW k \in ApiKeyIds, Generate(k) \/ Remember(k) \/ Revoke(k)
      PROVE  UNCHANGED windowVars
  BY <1>1 DEF Generate, Remember, Revoke
<1>2. ASSUME NEW on \in BOOLEAN, SetStatus(on)
      PROVE  UNCHANGED windowVars
  BY <1>2 DEF SetStatus
<1>3. ASSUME NEW c \in Callers,
             \/ \E k \in ApiKeyIds : Present(c, k)
             \/ Listed(c) \/ Unlisted(c) \/ FindKey(c) \/ NoteRevoked(c)
             \/ FindInactive(c) \/ Finish(c)
      PROVE  UNCHANGED windowVars
  BY <1>3 DEF Present, Listed, Unlisted, FindKey, NoteRevoked, FindInactive, Finish
<1>4. ASSUME NEW c \in Callers,
             FindActive(c) \/ HasRoom(c) \/ TooMany(c) \/ Serve(c) \/ Vanish(c)
      PROVE  [WindowNext]_windowVars
  BY <1>4 DEF FindActive, HasRoom, TooMany, Serve, Vanish, WindowNext
<1>5. CASE Elapse
  BY <1>5 DEF Elapse, WindowNext
<1>6. CASE UNCHANGED keyVars
  BY <1>6 DEF keyVars
<1> QED
  BY <1>1, <1>2, <1>3, <1>4, <1>5, <1>6 DEF KeysNext, Authenticate

\* What the step of a request says of its other fields.
LEMMA CallShape ==
    ASSUME KeysTypeOK, NEW c \in Callers
    PROVE  /\ call[c] \in Calls
           /\ In(c, "idle") => call[c] = Waiting
           /\ ~In(c, "idle") =>
                /\ call[c].key \in ApiKeyIds
                /\ call[c] \in [step: {"token", "unlisted", "revoked", "found", "window",
                                       "counted", "served"},
                                key: ApiKeyIds, barred: BOOLEAN, shut: BOOLEAN]
BY DEF KeysTypeOK, Calls, In, Waiting

\* A request that ends.
LEMMA CallEnds ==
    ASSUME KeysTypeOK, NEW c \in Callers, Leaves(c)
    PROVE  /\ call' \in [Callers -> Calls]
           /\ call'[c].step = "idle"
           /\ \A b \in Callers \ {c} : call'[b] = call[b]
<1>1. Waiting \in Calls /\ Waiting.step = "idle"
  BY DEF Calls, Waiting
<1> QED
  BY <1>1 DEF Leaves, KeysTypeOK

\* A request that goes on.
LEMMA CallGoes ==
    ASSUME KeysTypeOK, NEW c \in Callers, ~In(c, "idle"),
           NEW step \in {"unlisted", "revoked", "found", "window", "counted", "served"},
           Move(c, step)
    PROVE  /\ call' \in [Callers -> Calls]
           /\ call'[c].step = step /\ call'[c].key = call[c].key
           /\ call'[c].barred = call[c].barred /\ call'[c].shut = call[c].shut
           /\ \A b \in Callers \ {c} : call'[b] = call[b]
<1> DEFINE r == [call[c] EXCEPT !.step = step]
<1>1. call[c] \in [step: {"token", "unlisted", "revoked", "found", "window", "counted",
                          "served"},
                   key: ApiKeyIds, barred: BOOLEAN, shut: BOOLEAN]
  BY CallShape
<1>2. r \in Calls /\ r.step = step /\ r.key = call[c].key /\ r.barred = call[c].barred
      /\ r.shut = call[c].shut
  BY <1>1 DEF Calls
<1>3. call' = [call EXCEPT ![c] = r]
  BY DEF Move
<1> HIDE DEF r
<1> QED
  BY <1>2, <1>3 DEF KeysTypeOK

\* Where only request c and its gate have moved.
LEMMA CallMoved ==
    ASSUME KeysSound, NEW c \in Callers, UNCHANGED <<key, active>>,
           \A b \in Callers \ {c} : call'[b] = call[b] /\ gate'[b] = gate[b],
           In(c, "window")' \/ In(c, "counted")' <=> gate'[c].at # "outside",
           CallSound(c)', IntegrationId \notin revokedKeys'
    PROVE  KeysSound'
<1>1. ASSUME NEW b \in Callers \ {c}
      PROVE  CallSound(b)'
  BY DEF KeysSound, CallSound, In
<1>2. StepsAgree'
  BY DEF KeysSound, StepsAgree, In
<1> QED
  BY <1>1, <1>2 DEF KeysSound

\* No key, no request, nothing in the set.
LEMMA InitKeys == KeysInit => KeysTypeOK /\ KeysSound
<1> SUFFICES ASSUME KeysInit
             PROVE  KeysTypeOK /\ KeysSound
  OBVIOUS
<1>1. WindowTypeOK /\ \A c \in Callers : gate[c].at = "outside"
  BY InitWindow DEF KeysInit, WindowSound, WindowInit, Outside
<1>2. \A c \in Callers : call[c] = Waiting /\ Waiting \in Calls /\ In(c, "idle")
  BY DEF KeysInit, Calls, Waiting, In
<1>3. KeysTypeOK
  BY <1>1, <1>2 DEF KeysInit, KeysTypeOK
<1> QED
  BY <1>1, <1>2, <1>3 DEF KeysInit, KeysSound, StepsAgree, CallSound, In

\* Every step of the keys keeps their types and their invariant.
LEMMA NextKeys ==
    ASSUME KeysTypeOK, WindowSound, KeysSound, [KeysNext]_keyVars
    PROVE  KeysTypeOK' /\ KeysSound'
<1>0. WindowTypeOK' /\ WindowTypeOK
  BY KeysWindow, NextWindow DEF WindowSound
<1>1. ASSUME NEW k \in ApiKeyIds, Generate(k) \/ (key[k] # "none" /\ Revoke(k))
      PROVE  KeysTypeOK' /\ KeysSound'
  <2>1. /\ key' \in [ApiKeyIds -> {"none", "live", "revoked"}]
        /\ \A x \in ApiKeyIds : key[x] = "revoked" => key'[x] = "revoked"
        /\ UNCHANGED <<windowVars, active, revokedKeys, call>>
    BY <1>1 DEF Generate, Revoke, KeysTypeOK
  <2>2. KeysTypeOK'
    BY <1>0, <2>1 DEF KeysTypeOK
  <2>3. ASSUME NEW c \in Callers
        PROVE  CallSound(c)'
    BY <2>1, CallShape DEF KeysSound, CallSound, In
  <2> QED
    BY <2>1, <2>2, <2>3 DEF KeysSound, StepsAgree, windowVars, In
<1>2. ASSUME NEW k \in ApiKeyIds, Remember(k)
      PROVE  KeysTypeOK' /\ KeysSound'
  <2>1. /\ revokedKeys' = revokedKeys \cup {Hash(k)}
        /\ UNCHANGED <<windowVars, active, key, call>>
    BY <1>2 DEF Remember
  <2>2. KeysTypeOK'
    BY <1>0, <2>1 DEF KeysTypeOK
  <2>3. IntegrationId \notin revokedKeys'
    BY <2>1, IntegrationIdAssumption DEF KeysSound, Hash
  <2> QED
    BY <2>1, <2>2, <2>3 DEF KeysSound, StepsAgree, CallSound, windowVars, In
<1>3. ASSUME NEW on \in BOOLEAN, SetStatus(on)
      PROVE  KeysTypeOK' /\ KeysSound'
  <2>1. active' = on /\ UNCHANGED <<windowVars, key, revokedKeys>>
    BY <1>3 DEF SetStatus
  <2>2. ASSUME NEW c \in Callers
        PROVE  /\ call'[c] \in Calls /\ CallSound(c)' /\ call'[c].step = call[c].step
    <3>1. CASE on /\ call[c] # Waiting
      <4> DEFINE r == [call[c] EXCEPT !.shut = FALSE]
      <4>1. ~In(c, "idle")
        BY <3>1, CallShape
      <4>2. /\ r \in Calls /\ r.step = call[c].step /\ r.key = call[c].key
            /\ r.barred = call[c].barred /\ r.shut = FALSE
        BY <4>1, CallShape DEF Calls
      <4>3. call'[c] = r
        BY <1>3, <3>1 DEF SetStatus
      <4> HIDE DEF r
      <4> QED
        BY <2>1, <4>1, <4>2, <4>3 DEF KeysSound, CallSound, In
    <3>2. CASE ~(on /\ call[c] # Waiting)
      <4>1. call'[c] = call[c] /\ (~on \/ In(c, "idle"))
        BY <1>3, <3>2 DEF SetStatus, In, Waiting
      <4> QED
        BY <2>1, <4>1, CallShape DEF KeysSound, CallSound, In
    <3> QED
      BY <3>1, <3>2
  <2>3. call' \in [Callers -> Calls]
    BY <1>3, <2>2 DEF SetStatus
  <2>4. KeysTypeOK'
    BY <1>0, <2>1, <2>3 DEF KeysTypeOK
  <2> QED
    BY <2>1, <2>2, <2>4 DEF KeysSound, StepsAgree, windowVars, In
<1>4. ASSUME NEW c \in Callers, NEW k \in ApiKeyIds, Present(c, k)
      PROVE  KeysTypeOK' /\ KeysSound'
  <2> DEFINE r == [step |-> "token", key |-> k, barred |-> key[k] = "revoked",
                   shut |-> ~active]
  <2>1. (key[k] = "revoked") \in BOOLEAN /\ (~active) \in BOOLEAN
    BY SMT
  <2>2. r \in Calls
    BY <2>1 DEF Calls
  <2>3. /\ r.step = "token" /\ r.key = k /\ (r.barred => key[k] = "revoked")
        /\ (r.shut => ~active)
    BY Zenon
  <2>4. /\ call' = [call EXCEPT ![c] = r] /\ In(c, "idle")
        /\ UNCHANGED <<windowVars, key, active, revokedKeys>>
    BY <1>4 DEF Present
  <2> HIDE DEF r
  <2>5. call'[c] = r /\ (\A b \in Callers \ {c} : call'[b] = call[b]) /\ KeysTypeOK'
    BY <1>0, <2>2, <2>4 DEF KeysTypeOK
  <2>6. CallSound(c)'
    BY <2>3, <2>4, <2>5 DEF CallSound, In
  <2>7. gate' = gate /\ gate'[c].at = "outside"
    BY <2>4 DEF windowVars, KeysSound, StepsAgree, In
  <2> QED
    BY <2>3, <2>4, <2>5, <2>6, <2>7, CallMoved DEF In, KeysSound
<1>5. ASSUME NEW c \in Callers, Listed(c) \/ FindInactive(c) \/ Finish(c) \/ NoteRevoked(c)
      PROVE  KeysTypeOK' /\ KeysSound'
  <2>1. /\ Leaves(c) /\ gate' = gate /\ ~In(c, "window") /\ ~In(c, "counted")
        /\ UNCHANGED <<key, active>>
        /\ revokedKeys' \in {revokedKeys, revokedKeys \cup {call[c].key}}
        /\ (revokedKeys' # revokedKeys => ~In(c, "idle"))
    BY <1>5 DEF Listed, FindInactive, Finish, NoteRevoked, windowVars, In
  <2>2. call'[c].step = "idle" /\ (\A b \in Callers \ {c} : call'[b] = call[b])
        /\ call' \in [Callers -> Calls]
    BY <2>1, CallEnds
  <2>3. revokedKeys' \subseteq revokedKeys \cup ApiKeyIds
    BY <2>1, CallShape
  <2>4. KeysTypeOK'
    BY <1>0, <2>1, <2>2, <2>3 DEF KeysTypeOK
  <2>5. IntegrationId \notin revokedKeys'
    BY <2>3, IntegrationIdAssumption DEF KeysSound
  <2>6. CallSound(c)' /\ gate'[c].at = "outside"
    BY <2>1, <2>2 DEF CallSound, In, KeysSound, StepsAgree
  <2> QED
    BY <2>1, <2>2, <2>4, <2>5, <2>6, CallMoved DEF In
<1>6. ASSUME NEW c \in Callers, Unlisted(c) \/ FindKey(c)
      PROVE  KeysTypeOK' /\ KeysSound'
  <2> DEFINE step == IF Unlisted(c) THEN "unlisted"
                     ELSE IF key[call[c].key] = "revoked" THEN "revoked" ELSE "found"
  <2>1. /\ Move(c, step) /\ (In(c, "token") \/ In(c, "unlisted"))
        /\ UNCHANGED <<windowVars, key, active, revokedKeys>>
        /\ step \in {"unlisted", "revoked", "found"}
        /\ step = "found" => key[call[c].key] # "revoked"
    BY <1>6 DEF Unlisted, FindKey, In
  <2> HIDE DEF step
  <2>2. /\ call'[c].step = step /\ call'[c].key = call[c].key
        /\ call'[c].barred = call[c].barred /\ call'[c].shut = call[c].shut
        /\ (\A b \in Callers \ {c} : call'[b] = call[b]) /\ call' \in [Callers -> Calls]
    BY <2>1, CallGoes DEF In
  <2>3. KeysTypeOK'
    BY <1>0, <2>1, <2>2 DEF KeysTypeOK
  <2>4. CallSound(c)'
    BY <2>1, <2>2 DEF KeysSound, CallSound, In
  <2>5. gate' = gate /\ gate'[c].at = "outside"
    BY <2>1 DEF windowVars, KeysSound, StepsAgree, In
  <2> QED
    BY <2>1, <2>2, <2>3, <2>4, <2>5, CallMoved DEF In, KeysSound
<1>7. ASSUME NEW c \in Callers, FindActive(c)
      PROVE  KeysTypeOK' /\ KeysSound'
  <2>1. /\ Move(c, "window") /\ In(c, "found") /\ active /\ Enter(c)
        /\ UNCHANGED <<key, active, revokedKeys>>
    BY <1>7 DEF FindActive
  <2>2. /\ call'[c].step = "window" /\ call'[c].key = call[c].key
        /\ call'[c].barred = call[c].barred /\ call'[c].shut = call[c].shut
        /\ (\A b \in Callers \ {c} : call'[b] = call[b]) /\ call' \in [Callers -> Calls]
    BY <2>1, CallGoes DEF In
  <2>3. KeysTypeOK'
    BY <1>0, <2>1, <2>2 DEF KeysTypeOK
  <2>4. CallSound(c)'
    BY <2>1, <2>2 DEF KeysSound, CallSound, In
  <2>5. gate'[c].at # "outside" /\ \A b \in Callers \ {c} : gate'[b] = gate[b]
    BY <1>0, <2>1 DEF Enter, WindowTypeOK
  <2> QED
    BY <2>1, <2>2, <2>3, <2>4, <2>5, CallMoved DEF In, KeysSound
<1>8. ASSUME NEW c \in Callers, HasRoom(c) \/ Serve(c)
      PROVE  KeysTypeOK' /\ KeysSound'
  <2> DEFINE step == IF HasRoom(c) THEN "counted" ELSE "served"
  <2>1. /\ Move(c, step) /\ step \in {"counted", "served"}
        /\ gate[c].at # "outside" /\ UNCHANGED <<key, active, revokedKeys>>
        /\ step = "counted" => Admit(c)
        /\ step = "served" => Add(c)
    BY <1>8 DEF HasRoom, Serve, Admit, Add
  <2> HIDE DEF step
  <2>2. In(c, "window") \/ In(c, "counted")
    BY <2>1 DEF KeysSound, StepsAgree
  <2>3. /\ call'[c].step = step /\ call'[c].key = call[c].key
        /\ call'[c].barred = call[c].barred /\ call'[c].shut = call[c].shut
        /\ (\A b \in Callers \ {c} : call'[b] = call[b]) /\ call' \in [Callers -> Calls]
    BY <2>1, <2>2, CallGoes DEF In
  <2>4. KeysTypeOK'
    BY <1>0, <2>1, <2>3 DEF KeysTypeOK
  <2>5. ~call[c].barred /\ ~call[c].shut
    BY <2>2 DEF KeysSound, CallSound, In
  <2>6. CallSound(c)'
    BY <2>3, <2>5 DEF CallSound, In
  <2>7. /\ gate'[c].at # "outside" <=> step = "counted"
        /\ \A b \in Callers \ {c} : gate'[b] = gate[b]
    BY <1>0, <2>1 DEF Admit, Add, WindowTypeOK, Gates, Outside
  <2> QED
    BY <2>1, <2>3, <2>4, <2>6, <2>7, CallMoved DEF In, KeysSound
<1>9. ASSUME NEW c \in Callers, TooMany(c) \/ Vanish(c)
      PROVE  KeysTypeOK' /\ KeysSound'
  <2>1. Leaves(c) /\ UNCHANGED <<key, active, revokedKeys>>
    BY <1>9 DEF TooMany, Vanish
  <2>2. call'[c].step = "idle" /\ (\A b \in Callers \ {c} : call'[b] = call[b])
        /\ call' \in [Callers -> Calls]
    BY <2>1, CallEnds
  <2>3. KeysTypeOK'
    BY <1>0, <2>1, <2>2 DEF KeysTypeOK
  <2>4. CallSound(c)'
    BY <2>2 DEF CallSound, In
  <2>5. gate'[c].at = "outside" /\ \A b \in Callers \ {c} : gate'[b] = gate[b]
    BY <1>0, <1>9 DEF TooMany, Vanish, Refuse, Leave, WindowTypeOK, Outside, windowVars,
                      KeysSound, StepsAgree
  <2> QED
    BY <2>1, <2>2, <2>3, <2>4, <2>5, CallMoved DEF In, KeysSound
<1>10. CASE Elapse \/ UNCHANGED keyVars
  <2>1. UNCHANGED <<gate, key, active, revokedKeys, call>>
    BY <1>10 DEF Elapse, Tick, keyVars, windowVars
  <2>2. KeysTypeOK'
    BY <1>0, <2>1 DEF KeysTypeOK
  <2> QED
    BY <2>1, <2>2 DEF KeysSound, StepsAgree, CallSound, In
<1> QED
  BY <1>1, <1>2, <1>3, <1>4, <1>5, <1>6, <1>7, <1>8, <1>9, <1>10 DEF KeysNext, Authenticate

-----------------------------------------------------------------------------
(* The two together *)

\* A step of the whole is a step of each or leaves it alone.
LEMMA Composed ==
    ASSUME PanelTypeOK, [Next]_vars
    PROVE  [KeysNext]_keyVars /\ [PanelNext]_panelVars
<1>1. ASSUME NEW p \in Tabs, Apply(p)
      PROVE  KeysNext \/ UNCHANGED keyVars
  <2>1. tab[p].op \in Operations
    BY <1>1, TabShape DEF Apply, Change, OnStep
  <2>2. /\ tab[p].op.do \in {"generate", "revoke"} => tab[p].op.key \in ApiKeyIds
        /\ tab[p].op.do = "status" => tab[p].op.on \in BOOLEAN
    BY <2>1, OperationsAssumption
  <2> QED
    BY <1>1, <2>2 DEF Apply, KeysNext
<1>2. ASSUME NEW p \in Tabs, Settle(p)
      PROVE  KeysNext \/ UNCHANGED keyVars
  <2>1. tab[p].op \in Operations
    BY <1>2, TabShape DEF Settle, Extra, OnStep
  <2>2. tab[p].op.do = "revoke" => tab[p].op.key \in ApiKeyIds
    BY <2>1, OperationsAssumption
  <2> QED
    BY <1>2, <2>2 DEF Settle, KeysNext
<1>3. ASSUME NEW p \in Tabs, Apply(p) \/ Settle(p)
      PROVE  PanelNext
  BY <1>3 DEF Apply, Settle, PanelNext
<1>4. CASE PanelOnly /\ UNCHANGED keyVars
  BY <1>4 DEF PanelNext
<1>5. CASE (Authenticate \/ Elapse) /\ UNCHANGED panelVars
  BY <1>5 DEF KeysNext
<1>6. CASE UNCHANGED vars
  BY <1>6 DEF vars
<1> QED
  BY <1>1, <1>2, <1>3, <1>4, <1>5, <1>6 DEF Next

Sound == TypeOK /\ WindowSound /\ KeysSound /\ PanelSound

\* The invariant behind the theorems below.
THEOREM AccessSound == Spec => []Sound
<1>1. Init => Sound
  BY InitKeys, InitPanel, InitWindow DEF Init, KeysInit, Sound, TypeOK
<1>2. Sound /\ [Next]_vars => Sound'
  <2> SUFFICES ASSUME Sound, [Next]_vars
               PROVE  Sound'
    OBVIOUS
  <2>1. KeysTypeOK /\ PanelTypeOK /\ WindowSound /\ KeysSound /\ PanelSound
    BY DEF Sound, TypeOK
  <2>2. [KeysNext]_keyVars /\ [PanelNext]_panelVars
    BY <2>1, Composed
  <2>3. WindowSound'
    BY <2>1, <2>2, KeysWindow, NextWindow
  <2> QED
    BY <2>1, <2>2, <2>3, NextKeys, NextPanel DEF Sound, TypeOK
<1> QED
  BY <1>1, <1>2, PTL DEF Spec, vars

\* Every state of keys, requests and panel is well typed.
THEOREM TypeCorrect == Spec => []TypeOK
<1>1. Sound => TypeOK
  BY DEF Sound
<1> QED
  BY <1>1, AccessSound, PTL

\* get_current_integration serves no request whose key was revoked, or whose
\* integration was suspended for good, before it came.
THEOREM RefusedAreNotServed == Spec => []RefusedStayOut
<1>1. Sound => RefusedStayOut
  BY DEF Sound, KeysSound, CallSound, RefusedStayOut, In
<1> QED
  BY <1>1, AccessSound, PTL

\* The Redis set of revoked keys turns no other key away.
THEOREM SiblingsAreServed == Spec => []SiblingsStayValid
<1>1. Sound => SiblingsStayValid
  BY DEF Sound, KeysSound, SiblingsStayValid, Claim
<1> QED
  BY <1>1, AccessSound, PTL

\* A request that comes after logout or expiry is not let in.
THEOREM SessionsEnd == Spec => []LoggedOutIsOut
<1>1. Sound => LoggedOutIsOut
  BY DEF Sound, PanelSound, TabSound, LoggedOutIsOut
<1> QED
  BY <1>1, AccessSound, PTL

\* A change that audit_log lacks was made by a request that is under way or died
\* before log_action; an entry without a change is of a handler that does not look.
THEOREM ChangesReachTheLog == Spec => []ChangesAreLogged
<1>1. Sound => ChangesAreLogged
  BY DEF Sound, PanelSound
<1> QED
  BY <1>1, AccessSound, PTL

\* The window of an integration's requests per minute keeps its bound.
THEOREM RequestsAreBounded == Spec => []RateBound
<1>1. Sound => RateBound
  BY DEF Sound, WindowSound
<1> QED
  BY <1>1, AccessSound, PTL
=============================================================================
