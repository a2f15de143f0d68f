------------------------ MODULE JobSubmissionProofs ------------------------
(***************************************************************************)
(* Proofs about create_job, for any callers, keys, limit and span: the     *)
(* window's bound carries over from RateWindowProofs, Redis names only     *)
(* what is committed, an answered key is recognised, and the whole         *)
(* implements IdempotentSubmission.  Of the pages of get_history, for any  *)
(* page size: none repeats a row, and together they have all that was      *)
(* there at first.                                                         *)
(***************************************************************************)
EXTENDS History, RateWindowProofs

-----------------------------------------------------------------------------
(* The window *)

\* A step of create_job is a step of the window or leaves it alone.
LEMMA WindowStep == SubmissionTypeOK /\ [SubmissionNext]_vars => [WindowNext]_windowVars
<1> SUFFICES ASSUME SubmissionTypeOK, [SubmissionNext]_vars
             PROVE  [WindowNext]_windowVars
  OBVIOUS
<1>1. CASE Pause
  BY <1>1 DEF Pause, WindowNext
<1>2. ASSUME NEW k \in Keys, Expire(k)
      PROVE  [WindowNext]_windowVars
  BY <1>2 DEF Expire
<1>3. ASSUME NEW c \in Callers,
             \/ \E k \in Keys \cup {NoKey} : Arrive(c, k)
             \/ Recognise(c) \/ Reject(c) \/ Begin(c) \/ Collide(c)
             \/ \E id \in JobIds : Commit(c, id)
             \/ SaveKey(c) \/ Push(c) \/ Answer(c)
      PROVE  UNCHANGED windowVars
  BY <1>3 DEF Arrive, Recognise, Reject, Begin, Collide, Commit, SaveKey, Push, Answer
<1>4. ASSUME NEW c \in Callers,
             Miss(c) \/ Pass(c) \/ RateLimited(c) \/ Counted(c) \/ Die(c)
      PROVE  [WindowNext]_windowVars
  BY <1>4 DEF Miss, Pass, RateLimited, Counted, Die, WindowNext
<1>5. CASE UNCHANGED vars
  BY <1>5 DEF vars
<1> QED
  BY <1>1, <1>2, <1>3, <1>4, <1>5 DEF SubmissionNext

\* The types of the window follow from its own steps.
LEMMA WindowTypes == SubmissionTypeOK /\ WindowSound /\ [SubmissionNext]_vars => WindowTypeOK'
BY WindowStep, NextWindow DEF WindowSound

-----------------------------------------------------------------------------
(* Requests *)

\* What the step of a request says of its other fields.
LEMMA RequestShape ==
    ASSUME SubmissionTypeOK, NEW c \in Callers
    PROVE  /\ request[c] \in Requests
           /\ At(c, "idle") => request[c] = Idle
           /\ ~At(c, "idle") =>
                request[c].key \in Keys \cup {NoKey} /\ request[c].owed \in BOOLEAN
           /\ At(c, "begun") => request[c].at \in Nat
           /\ At(c, "committed") \/ At(c, "saved") \/ At(c, "pushed") =>
                request[c].job \in JobIds
BY DEF SubmissionTypeOK, Requests, At, Idle

\* A request that is set, and the others.
LEMMA RequestSet ==
    ASSUME SubmissionTypeOK, NEW c \in Callers, NEW r \in Requests,
           request' = [request EXCEPT ![c] = r]
    PROVE  /\ request' \in [Callers -> Requests]
           /\ request'[c] = r
           /\ \A b \in Callers \ {c} : request'[b] = request[b]
BY DEF SubmissionTypeOK

\* A request that ends.
LEMMA RequestEnds ==
    ASSUME SubmissionTypeOK, NEW c \in Callers, End(c)
    PROVE  /\ request' \in [Callers -> Requests]
           /\ request'[c].step = "idle"
           /\ \A b \in Callers \ {c} : request'[b] = request[b]
<1>1. Idle \in Requests /\ Idle.step = "idle"
  BY DEF Requests, Idle
<1> QED
  BY <1>1, RequestSet DEF End

\* A request that goes on with what it has.
LEMMA RequestGoes ==
    ASSUME SubmissionTypeOK, NEW c \in Callers, NEW step, Go(c, step),
           \/ At(c, "typed") /\ step = "window"
           \/ At(c, "window") /\ step = "admitted"
           \/ At(c, "committed") /\ step = "saved"
           \/ At(c, "saved") /\ step = "pushed"
    PROVE  /\ request' \in [Callers -> Requests]
           /\ request'[c].step = step
           /\ request'[c].key = request[c].key
           /\ request'[c].owed = request[c].owed
           /\ step \in {"saved", "pushed"} => request'[c].job = request[c].job
           /\ \A b \in Callers \ {c} : request'[b] = request[b]
<1> DEFINE r == [request[c] EXCEPT !.step = step]
<1>1. request' = [request EXCEPT ![c] = r]
  BY DEF Go
<1>2. CASE step \in {"window", "admitted"}
  <2>1. request[c] \in [step: {"typed", "window", "admitted"},
                        key: Keys \cup {NoKey}, owed: BOOLEAN]
    BY <1>2 DEF SubmissionTypeOK, Requests, At, Idle
  <2>2. r \in Requests /\ r.step = step /\ r.key = request[c].key /\ r.owed = request[c].owed
    BY <1>2, <2>1 DEF Requests
  <2> HIDE DEF r
  <2> QED
    BY <1>1, <1>2, <2>2, RequestSet
<1>3. CASE step \in {"saved", "pushed"}
  <2>1. request[c] \in [step: {"committed", "saved", "pushed"}, key: Keys \cup {NoKey},
                        owed: BOOLEAN, job: JobIds]
    BY <1>3 DEF SubmissionTypeOK, Requests, At, Idle
  <2>2. /\ r \in Requests /\ r.step = step /\ r.key = request[c].key
        /\ r.owed = request[c].owed /\ r.job = request[c].job
    BY <1>3, <2>1 DEF Requests
  <2> HIDE DEF r
  <2> QED
    BY <1>1, <1>3, <2>2, RequestSet
<1> QED
  BY <1>2, <1>3

-----------------------------------------------------------------------------
(* Types *)

\* A request is at its window exactly while check_rate_limit runs for it, and
\* SETEX is for requests with a key.
StepsAgree ==
    \A c \in Callers :
        /\ At(c, "window") <=> gate[c].at # "outside"
        /\ At(c, "committed") => request[c].key \in Keys

Typed == SubmissionTypeOK /\ WindowSound /\ StepsAgree

\* The initial states are well typed.
LEMMA InitSubmissionType == SubmissionInit => SubmissionTypeOK
<1> SUFFICES ASSUME SubmissionInit
             PROVE  SubmissionTypeOK
  OBVIOUS
<1>1. WindowTypeOK
  BY InitWindow DEF SubmissionInit, WindowSound
<1> QED
  BY <1>1 DEF SubmissionInit, SubmissionTypeOK, Requests, Idle

\* Every step keeps the types.
LEMMA NextSubmissionType == Typed /\ [SubmissionNext]_vars => SubmissionTypeOK'
<1> SUFFICES ASSUME SubmissionTypeOK, WindowSound, StepsAgree, [SubmissionNext]_vars
             PROVE  SubmissionTypeOK'
  BY DEF Typed
<1>0. WindowTypeOK'
  BY WindowTypes
<1>1. CASE Pause
  BY <1>0, <1>1 DEF Pause, redis, history, SubmissionTypeOK
<1>2. ASSUME NEW k \in Keys, Expire(k)
      PROVE  SubmissionTypeOK'
  <2>1. request' \in [Callers -> Requests]
    <3>1. ASSUME NEW c \in Callers, request[c].step # "idle"
          PROVE  [request[c] EXCEPT !.owed = FALSE] \in Requests
      <4>1. request[c] \in Requests \ {Idle}
        BY <3>1 DEF SubmissionTypeOK, Idle
      <4> QED
        BY <4>1 DEF Requests
    <3>2. \A c \in Callers : request[c] \in Requests
      BY DEF SubmissionTypeOK
    <3> QED
      BY <1>2, <3>1, <3>2 DEF Expire
  <2> QED
    BY <1>0, <1>2, <2>1 DEF Expire, SubmissionTypeOK
<1>3. ASSUME NEW c \in Callers, NEW k \in Keys \cup {NoKey}, Arrive(c, k)
      PROVE  SubmissionTypeOK'
  <2>1. [step |-> "typed", key |-> k, owed |-> k \in promised] \in Requests
    BY DEF Requests
  <2>2. request' \in [Callers -> Requests]
    BY <1>3, <2>1, RequestSet DEF Arrive
  <2> QED
    BY <1>0, <1>3, <2>2 DEF Arrive, redis, history, SubmissionTypeOK
<1>4. ASSUME NEW c \in Callers, Recognise(c)
      PROVE  SubmissionTypeOK'
  <2>1. request[c].key \in Keys /\ cached[request[c].key] \in JobIds
    <3>1. Ids \subseteq JobIds
      BY DEF Ids, SubmissionTypeOK, Rows
    <3>2. request[c].key \in Keys
      BY <1>4, RequestShape DEF Recognise, At
    <3> QED
      BY <1>4, <3>1, <3>2 DEF Recognise
  <2>2. request' \in [Callers -> Requests]
    BY <1>4, RequestEnds DEF Recognise
  <2> QED
    BY <1>0, <1>4, <2>1, <2>2 DEF Recognise, redis, SubmissionTypeOK
<1>5. ASSUME NEW c \in Callers, Miss(c)
      PROVE  SubmissionTypeOK'
  <2>1. request' \in [Callers -> Requests]
    BY <1>5, RequestGoes DEF Miss
  <2>2. cached' \in [Keys -> JobIds \cup {NoJob}]
    BY <1>5 DEF Miss, SubmissionTypeOK
  <2> QED
    BY <1>0, <1>5, <2>1, <2>2 DEF Miss, history, SubmissionTypeOK
<1>6. ASSUME NEW c \in Callers, Pass(c)
      PROVE  SubmissionTypeOK'
  BY <1>0, <1>6 DEF Pass, redis, history, SubmissionTypeOK
<1>7. ASSUME NEW c \in Callers,
             RateLimited(c) \/ Reject(c) \/ Collide(c) \/ Die(c)
      PROVE  SubmissionTypeOK'
  <2>1. End(c) /\ UNCHANGED <<jobs, cached, queue, promised, replies>>
    BY <1>7 DEF RateLimited, Reject, Collide, Die, redis, history
  <2> QED
    BY <1>0, <2>1, RequestEnds DEF SubmissionTypeOK
<1>8. ASSUME NEW c \in Callers, Counted(c)
      PROVE  SubmissionTypeOK'
  <2>1. request' \in [Callers -> Requests]
    <3>1. At(c, "window")
      BY <1>8 DEF Counted, Add, StepsAgree
    <3> QED
      BY <1>8, <3>1, RequestGoes DEF Counted
  <2> QED
    BY <1>0, <1>8, <2>1 DEF Counted, redis, history, SubmissionTypeOK
<1>9. ASSUME NEW c \in Callers, Begin(c)
      PROVE  SubmissionTypeOK'
  <2>1. [step |-> "begun", key |-> request[c].key, owed |-> request[c].owed, at |-> clock]
          \in Requests
    BY <1>9, RequestShape DEF Begin, At, Requests, SubmissionTypeOK, WindowTypeOK
  <2>2. request' \in [Callers -> Requests]
    BY <1>9, <2>1, RequestSet DEF Begin
  <2> QED
    BY <1>0, <1>9, <2>2 DEF Begin, redis, history, SubmissionTypeOK
<1>10. ASSUME NEW c \in Callers, NEW id \in JobIds, Commit(c, id)
       PROVE  SubmissionTypeOK'
  <2>1. [id |-> id, key |-> request[c].key, at |-> request[c].at] \in Rows
    BY <1>10, RequestShape DEF Commit, At, Rows
  <2>2. [step |-> IF request[c].key = NoKey THEN "saved" ELSE "committed",
         key |-> request[c].key, owed |-> request[c].owed, job |-> id] \in Requests
    BY <1>10, RequestShape DEF Commit, At, Requests
  <2>3. request' \in [Callers -> Requests]
    BY <1>10, <2>2, RequestSet DEF Commit
  <2> QED
    BY <1>0, <1>10, <2>1, <2>3 DEF Commit, redis, history, SubmissionTypeOK
<1>11. ASSUME NEW c \in Callers, SaveKey(c)
       PROVE  SubmissionTypeOK'
  <2>1. request' \in [Callers -> Requests]
    BY <1>11, RequestGoes DEF SaveKey
  <2>2. cached' \in [Keys -> JobIds \cup {NoJob}]
    <3>1. request[c].key \in Keys /\ request[c].job \in JobIds
      BY <1>11, RequestShape DEF SaveKey, StepsAgree
    <3> QED
      BY <1>11, <3>1 DEF SaveKey, SubmissionTypeOK
  <2> QED
    BY <1>0, <1>11, <2>1, <2>2 DEF SaveKey, history, SubmissionTypeOK
<1>12. ASSUME NEW c \in Callers, Push(c)
       PROVE  SubmissionTypeOK'
  <2>1. request' \in [Callers -> Requests]
    BY <1>12, RequestGoes DEF Push
  <2>2. queue' \subseteq JobIds
    BY <1>12, RequestShape DEF Push, SubmissionTypeOK
  <2> QED
    BY <1>0, <1>12, <2>1, <2>2 DEF Push, history, SubmissionTypeOK
<1>13. ASSUME NEW c \in Callers, Answer(c)
       PROVE  SubmissionTypeOK'
  <2>1. request[c].key \in Keys \cup {NoKey} /\ request[c].job \in JobIds
    BY <1>13, RequestShape DEF Answer, At
  <2>2. request' \in [Callers -> Requests]
    BY <1>13, RequestEnds DEF Answer
  <2>3. replies' \in [Keys -> SUBSET JobIds] /\ promised' \subseteq Keys
    BY <1>13, <2>1 DEF Answer, SubmissionTypeOK
  <2> QED
    BY <1>0, <1>13, <2>2, <2>3 DEF Answer, redis, SubmissionTypeOK
<1>14. CASE UNCHANGED vars
  BY <1>0, <1>14 DEF vars, redis, history, SubmissionTypeOK
<1> QED
  BY <1>1, <1>2, <1>3, <1>4, <1>5, <1>6, <1>7, <1>8, <1>9, <1>10, <1>11, <1>12, <1>13, <1>14
     DEF SubmissionNext

\* Where a step leaves a request and its gate.
LEMMA NextStepsAgree == Typed /\ [SubmissionNext]_vars => StepsAgree'
<1> SUFFICES ASSUME SubmissionTypeOK, WindowSound, StepsAgree, [SubmissionNext]_vars
             PROVE  StepsAgree'
  BY DEF Typed
<1>0. WindowTypeOK
  BY DEF SubmissionTypeOK
<1>1. CASE Pause
  BY <1>1 DEF Pause, Tick, StepsAgree, At
<1>2. ASSUME NEW k \in Keys, Expire(k)
      PROVE  StepsAgree'
  <2>1. \A c \in Callers : request'[c].step = request[c].step
                           /\ (request[c].step # "idle" => request'[c].key = request[c].key)
    <3>1. \A c \in Callers : request[c].step # "idle" =>
             /\ [request[c] EXCEPT !.owed = FALSE].step = request[c].step
             /\ [request[c] EXCEPT !.owed = FALSE].key = request[c].key
      BY DEF SubmissionTypeOK, Requests, Idle
    <3> QED
      BY <1>2, <3>1 DEF Expire
  <2> QED
    BY <1>2, <2>1 DEF Expire, windowVars, StepsAgree, At
<1>3. ASSUME NEW c \in Callers, NEW k \in Keys \cup {NoKey}, Arrive(c, k)
      PROVE  StepsAgree'
  <2>1. [step |-> "typed", key |-> k, owed |-> k \in promised] \in Requests
    BY DEF Requests
  <2>2. request'[c].step = "typed" /\ \A b \in Callers \ {c} : request'[b] = request[b]
    BY <1>3, <2>1, RequestSet DEF Arrive
  <2>3. gate' = gate
    BY <1>3 DEF Arrive, windowVars
  <2> QED
    BY <1>3, <2>2, <2>3 DEF Arrive, StepsAgree, At
<1>4. ASSUME NEW c \in Callers, Recognise(c) \/ Reject(c) \/ Collide(c) \/ Answer(c)
      PROVE  StepsAgree'
  <2>1. /\ request'[c].step = "idle" /\ \A b \in Callers \ {c} : request'[b] = request[b]
        /\ gate' = gate /\ ~At(c, "window")
    BY <1>4, RequestEnds DEF Recognise, Reject, Collide, Answer, windowVars, At
  <2> QED
    BY <2>1 DEF StepsAgree, At
<1>5. ASSUME NEW c \in Callers, Miss(c)
      PROVE  StepsAgree'
  <2>1. request'[c].step = "window" /\ \A b \in Callers \ {c} : request'[b] = request[b]
    BY <1>5, RequestGoes DEF Miss
  <2>2. gate'[c].at # "outside" /\ \A b \in Callers \ {c} : gate'[b] = gate[b]
    BY <1>0, <1>5 DEF Miss, Enter, WindowTypeOK
  <2> QED
    BY <2>1, <2>2 DEF StepsAgree, At
<1>6. ASSUME NEW c \in Callers, Pass(c)
      PROVE  StepsAgree'
  <2>1. /\ gate[c].at # "outside" /\ gate'[c].at # "outside"
        /\ \A b \in Callers \ {c} : gate'[b] = gate[b]
    BY <1>0, <1>6 DEF Pass, Admit, WindowTypeOK, Gates
  <2> QED
    BY <1>6, <2>1 DEF Pass, StepsAgree, At
<1>7. ASSUME NEW c \in Callers, RateLimited(c)
      PROVE  StepsAgree'
  <2>1. gate'[c].at = "outside" /\ \A b \in Callers \ {c} : gate'[b] = gate[b]
    BY <1>0, <1>7 DEF RateLimited, Refuse, WindowTypeOK, Outside
  <2>2. request'[c].step = "idle" /\ \A b \in Callers \ {c} : request'[b] = request[b]
    BY <1>7, RequestEnds DEF RateLimited
  <2> QED
    BY <2>1, <2>2 DEF StepsAgree, At
<1>8. ASSUME NEW c \in Callers, Counted(c)
      PROVE  StepsAgree'
  <2>1. /\ At(c, "window") /\ gate'[c].at = "outside"
        /\ \A b \in Callers \ {c} : gate'[b] = gate[b]
    BY <1>0, <1>8 DEF Counted, Add, WindowTypeOK, Outside, StepsAgree
  <2>2. request'[c].step = "admitted" /\ \A b \in Callers \ {c} : request'[b] = request[b]
    BY <1>8, <2>1, RequestGoes DEF Counted
  <2> QED
    BY <2>1, <2>2 DEF StepsAgree, At
<1>9. ASSUME NEW c \in Callers, Begin(c)
      PROVE  StepsAgree'
  <2>1. [step |-> "begun", key |-> request[c].key, owed |-> request[c].owed, at |-> clock]
          \in Requests
    BY <1>9, RequestShape DEF Begin, At, Requests, SubmissionTypeOK, WindowTypeOK
  <2>2. request'[c].step = "begun" /\ \A b \in Callers \ {c} : request'[b] = request[b]
    BY <1>9, <2>1, RequestSet DEF Begin
  <2> QED
    BY <1>9, <2>2 DEF Begin, windowVars, StepsAgree, At
<1>10. ASSUME NEW c \in Callers, NEW id \in JobIds, Commit(c, id)
       PROVE  StepsAgree'
  <2> DEFINE r == [step |-> IF request[c].key = NoKey THEN "saved" ELSE "committed",
                   key |-> request[c].key, owed |-> request[c].owed, job |-> id]
  <2>1. r \in Requests
    BY <1>10, RequestShape DEF Commit, At, Requests
  <2>2. request'[c] = r /\ \A b \in Callers \ {c} : request'[b] = request[b]
    BY <1>10, <2>1, RequestSet DEF Commit
  <2>3. r.step # "window" /\ (r.step = "committed" => r.key \in Keys) /\ gate' = gate
        /\ ~At(c, "window")
    BY <1>10, RequestShape DEF Commit, At, windowVars
  <2> HIDE DEF r
  <2> QED
    BY <2>2, <2>3 DEF StepsAgree, At
<1>11. ASSUME NEW c \in Callers, SaveKey(c) \/ Push(c)
       PROVE  StepsAgree'
  <2>1. /\ request'[c].step \in {"saved", "pushed"} /\ gate' = gate /\ ~At(c, "window")
        /\ \A b \in Callers \ {c} : request'[b] = request[b]
    BY <1>11, RequestGoes DEF SaveKey, Push, windowVars, At
  <2> QED
    BY <2>1 DEF StepsAgree, At
<1>12. ASSUME NEW c \in Callers, Die(c)
       PROVE  StepsAgree'
  <2>1. request'[c].step = "idle" /\ \A b \in Callers \ {c} : request'[b] = request[b]
    BY <1>12, RequestEnds DEF Die
  <2>2. gate'[c].at = "outside" /\ \A b \in Callers \ {c} : gate'[b] = gate[b]
    BY <1>0, <1>12 DEF Die, Leave, WindowTypeOK, Outside, windowVars, StepsAgree
  <2> QED
    BY <2>1, <2>2 DEF StepsAgree, At
<1>13. CASE UNCHANGED vars
  BY <1>13 DEF vars, windowVars, StepsAgree, At
<1> QED
  BY <1>1, <1>2, <1>3, <1>4, <1>5, <1>6, <1>7, <1>8, <1>9, <1>10, <1>11, <1>12, <1>13
     DEF SubmissionNext

\* The three hold together.
LEMMA AlwaysTyped == SubmissionSpec => []Typed
<1>1. SubmissionInit => Typed
  BY InitSubmissionType, InitWindow
     DEF SubmissionInit, Typed, StepsAgree, At, Idle, WindowInit, Outside
<1>2. Typed /\ [SubmissionNext]_vars => Typed'
  BY NextSubmissionType, NextStepsAgree, WindowStep, NextWindow DEF Typed
<1> QED
  BY <1>1, <1>2, PTL DEF SubmissionSpec

\* Every state of the submissions is well typed.
THEOREM SubmissionTypes == SubmissionSpec => []SubmissionTypeOK
<1>1. Typed => SubmissionTypeOK
  BY DEF Typed
<1> QED
  BY <1>1, AlwaysTyped, PTL

\* A user has no more jobs in an hour than the limit, but for requests that
\* were counted together.
THEOREM SubmissionsAreBounded == SubmissionSpec => []RateBound
<1>1. Typed => RateBound
  BY DEF Typed, WindowSound
<1> QED
  BY <1>1, AlwaysTyped, PTL

-----------------------------------------------------------------------------
(* Keys and jobs: the inductive invariant *)

\* A request that has committed knows its row; from SETEX on Redis knows the
\* key; and a request whose key was answered is still where it is looked up.
RequestSound(c) ==
    /\ At(c, "committed") \/ At(c, "saved") \/ At(c, "pushed") =>
         \E row \in jobs : row.id = request[c].job /\ row.key = request[c].key
    /\ (At(c, "saved") \/ At(c, "pushed")) /\ request[c].key \in Keys =>
         cached[request[c].key] # NoJob
    /\ ~At(c, "idle") /\ request[c].owed => At(c, "typed") /\ request[c].key \in promised

\* A key that was answered is remembered.
PromisesKept == \A k \in promised : cached[k] # NoJob

\* idx_jobs_idempotency.
OneRowPerKey == \A r, q \in jobs : r.key \in Keys /\ r.key = q.key => r = q

\* No client was told of a job its key did not make.
RepliesTrue == \A k \in Keys : replies[k] \subseteq made[k]

KeysSound ==
    /\ \A c \in Callers : RequestSound(c)
    /\ RedisNamesCommitted
    /\ PromisesKept
    /\ OneRowPerKey
    /\ RepliesTrue

-----------------------------------------------------------------------------
(* What steps leave alone *)

\* A request that a step does not touch, while no key is forgotten.
LEMMA RequestKept ==
    ASSUME SubmissionTypeOK, NEW b \in Callers, RequestSound(b), request'[b] = request[b],
           jobs \subseteq jobs', promised \subseteq promised',
           \A k \in Keys : cached[k] # NoJob => cached'[k] # NoJob
    PROVE  RequestSound(b)'
BY RequestShape DEF RequestSound, At

\* Requests alone do not disturb what rows, Redis and replies say of each other.
LEMMA SharedKept ==
    ASSUME KeysSound, UNCHANGED <<jobs, cached, queue, promised, replies>>
    PROVE  RedisNamesCommitted' /\ PromisesKept' /\ OneRowPerKey' /\ RepliesTrue'
BY DEF KeysSound, RedisNamesCommitted, Ids, PromisesKept, OneRowPerKey, RepliesTrue, made

\* A request that goes on without touching anything else.
LEMMA RequestAlone ==
    ASSUME SubmissionTypeOK, KeysSound, NEW c \in Callers,
           UNCHANGED <<jobs, cached, queue, promised, replies>>,
           \A b \in Callers \ {c} : request'[b] = request[b], RequestSound(c)'
    PROVE  KeysSound'
<1>1. ASSUME NEW b \in Callers \ {c}
      PROVE  RequestSound(b)'
  BY RequestKept DEF KeysSound
<1> QED
  BY <1>1, SharedKept DEF KeysSound

\* A request that ends has nothing left to say.
LEMMA EndedSound ==
    ASSUME NEW c \in Callers, request'[c].step = "idle"
    PROVE  RequestSound(c)'
BY DEF RequestSound, At

\* A key Redis has leads to a row.
LEMMA CachedInIds ==
    ASSUME KeysSound, NEW k \in Keys, cached[k] # NoJob
    PROVE  cached[k] \in Ids /\ \E row \in jobs : row.id = cached[k] /\ row.key = k
BY DEF KeysSound, RedisNamesCommitted, Ids

-----------------------------------------------------------------------------
(* The steps *)

\* Nothing is promised before the first request.
LEMMA InitKeys == SubmissionInit => KeysSound
BY DEF SubmissionInit, KeysSound, RequestSound, At, Idle, RedisNamesCommitted, Ids,
       PromisesKept, OneRowPerKey, RepliesTrue, made

\* The steps before the transaction, and those that end a request without an answer.
LEMMA QuietSteps ==
    ASSUME Typed, KeysSound, NEW c \in Callers,
           \/ \E k \in Keys \cup {NoKey} : Arrive(c, k)
           \/ Miss(c) \/ Pass(c) \/ RateLimited(c) \/ Counted(c) \/ Reject(c)
           \/ Begin(c) \/ Collide(c) \/ Die(c)
    PROVE  KeysSound'
<1>0. SubmissionTypeOK /\ StepsAgree /\ RequestSound(c)
  BY DEF Typed, KeysSound
<1>1. ASSUME NEW k \in Keys \cup {NoKey}, Arrive(c, k)
      PROVE  KeysSound'
  <2> DEFINE r == [step |-> "typed", key |-> k, owed |-> k \in promised]
  <2>1. r \in Requests /\ r.step = "typed" /\ r.key = k /\ (r.owed => k \in promised)
    <3>1. (k \in promised) \in BOOLEAN
      BY SMT
    <3>2. r.step = "typed" /\ r.key = k /\ (r.owed => k \in promised)
      BY Zenon
    <3>3. r \in [step: {"typed", "window", "admitted"}, key: Keys \cup {NoKey}, owed: BOOLEAN]
      BY <3>1, Zenon
    <3> QED
      BY <3>2, <3>3 DEF Requests
  <2>2. request' = [request EXCEPT ![c] = r]
        /\ UNCHANGED <<jobs, cached, queue, promised, replies>>
    BY <1>1 DEF Arrive, redis, history
  <2> HIDE DEF r
  <2>3. request'[c] = r /\ \A b \in Callers \ {c} : request'[b] = request[b]
    BY <1>0, <2>1, <2>2, RequestSet
  <2>4. RequestSound(c)'
    BY <2>1, <2>2, <2>3 DEF RequestSound, At
  <2> QED
    BY <1>0, <2>2, <2>3, <2>4, RequestAlone
<1>2. CASE Miss(c)
  <2>1. /\ request'[c].step = "window" /\ request'[c].owed = request[c].owed
        /\ \A b \in Callers \ {c} : request'[b] = request[b]
    BY <1>0, <1>2, RequestGoes DEF Miss
  <2>2. request[c].key \in Keys => cached[request[c].key] = NoJob
    BY <1>2, CachedInIds, NoKeyAssumption DEF Miss
  <2>3. cached' = cached /\ UNCHANGED <<jobs, queue, promised, replies>>
    BY <1>0, <1>2, <2>2, RequestShape DEF Miss, At, history, SubmissionTypeOK
  <2>4. ~request[c].owed
    BY <1>0, <1>2, <2>2 DEF Miss, RequestSound, KeysSound, PromisesKept, At,
                            SubmissionTypeOK
  <2>5. RequestSound(c)'
    BY <2>1, <2>4 DEF RequestSound, At
  <2> QED
    BY <1>0, <2>1, <2>3, <2>5, RequestAlone
<1>3. CASE Pass(c)
  <2>1. UNCHANGED <<jobs, cached, queue, promised, replies, request>>
    BY <1>3 DEF Pass, redis, history
  <2>2. RequestSound(c)'
    BY <1>0, <2>1, RequestKept
  <2> QED
    BY <1>0, <2>1, <2>2, RequestAlone
<1>4. CASE Counted(c)
  <2>1. At(c, "window")
    BY <1>0, <1>4 DEF Counted, Add, StepsAgree
  <2>2. /\ request'[c].step = "admitted" /\ request'[c].owed = request[c].owed
        /\ \A b \in Callers \ {c} : request'[b] = request[b]
        /\ UNCHANGED <<jobs, cached, queue, promised, replies>>
    BY <1>0, <1>4, <2>1, RequestGoes DEF Counted, redis, history
  <2>3. ~request[c].owed
    BY <1>0, <2>1 DEF RequestSound, At
  <2>4. RequestSound(c)'
    BY <2>2, <2>3 DEF RequestSound, At
  <2> QED
    BY <1>0, <2>2, <2>4, RequestAlone
<1>5. CASE Begin(c)
  <2> DEFINE r == [step |-> "begun", key |-> request[c].key, owed |-> request[c].owed,
                   at |-> clock]
  <2>1. r \in Requests /\ r.step = "begun" /\ r.owed = request[c].owed
    BY <1>0, <1>5, RequestShape DEF Begin, At, Requests, SubmissionTypeOK, WindowTypeOK
  <2>2. request' = [request EXCEPT ![c] = r]
        /\ UNCHANGED <<jobs, cached, queue, promised, replies>>
    BY <1>5 DEF Begin, redis, history
  <2> HIDE DEF r
  <2>3. request'[c] = r /\ \A b \in Callers \ {c} : request'[b] = request[b]
    BY <1>0, <2>1, <2>2, RequestSet
  <2>4. ~request[c].owed
    BY <1>0, <1>5 DEF Begin, RequestSound, At
  <2>5. RequestSound(c)'
    BY <2>1, <2>3, <2>4 DEF RequestSound, At
  <2> QED
    BY <1>0, <2>2, <2>3, <2>5, RequestAlone
<1>6. CASE RateLimited(c) \/ Reject(c) \/ Collide(c) \/ Die(c)
  <2>1. End(c) /\ UNCHANGED <<jobs, cached, queue, promised, replies>>
    BY <1>6 DEF RateLimited, Reject, Collide, Die, redis, history
  <2>2. request'[c].step = "idle" /\ \A b \in Callers \ {c} : request'[b] = request[b]
    BY <1>0, <2>1, RequestEnds
  <2> QED
    BY <1>0, <2>1, <2>2, EndedSound, RequestAlone
<1> QED
  BY <1>1, <1>2, <1>3, <1>4, <1>5, <1>6

\* The row of a job, committed.
LEMMA CommitStep ==
    ASSUME Typed, KeysSound, NEW c \in Callers, NEW id \in JobIds, Commit(c, id)
    PROVE  KeysSound'
<1>0. SubmissionTypeOK /\ RequestSound(c)
  BY DEF Typed, KeysSound
<1> DEFINE r == [step |-> IF request[c].key = NoKey THEN "saved" ELSE "committed",
                 key |-> request[c].key, owed |-> request[c].owed, job |-> id]
           new == [id |-> id, key |-> request[c].key, at |-> request[c].at]
<1>1. r \in Requests /\ r.key = request[c].key /\ r.job = id /\ r.owed = request[c].owed
      /\ r.step \in {"saved", "committed"} /\ (r.key \in Keys => r.step = "committed")
  BY <1>0, RequestShape, NoKeyAssumption DEF Commit, At, Requests
<1>2. /\ request' = [request EXCEPT ![c] = r] /\ jobs' = jobs \cup {new}
      /\ UNCHANGED <<cached, queue, promised, replies>>
      /\ ~KeyUsed(request[c].key) /\ At(c, "begun")
  BY DEF Commit, redis, history
<1>3. new.id = id /\ new.key = request[c].key
  OBVIOUS
<1> HIDE DEF r, new
<1>4. request'[c] = r /\ \A b \in Callers \ {c} : request'[b] = request[b]
  BY <1>0, <1>1, <1>2, RequestSet
<1>5. ~request[c].owed
  BY <1>0, <1>2 DEF RequestSound, At
<1>6. RequestSound(c)'
  BY <1>1, <1>2, <1>3, <1>4, <1>5 DEF RequestSound, At
<1>7. ASSUME NEW b \in Callers \ {c}
      PROVE  RequestSound(b)'
  BY <1>0, <1>2, <1>4, RequestKept DEF KeysSound
<1>8. RedisNamesCommitted' /\ PromisesKept'
  BY <1>2 DEF KeysSound, RedisNamesCommitted, Ids, PromisesKept
<1>9. OneRowPerKey'
  BY <1>2, <1>3, NoKeyAssumption DEF KeysSound, OneRowPerKey, KeyUsed
<1>10. RepliesTrue'
  <2>1. \A k \in Keys : made[k] \subseteq made'[k]
    BY <1>2 DEF made
  <2> QED
    BY <1>2, <2>1 DEF KeysSound, RepliesTrue
<1> QED
  BY <1>6, <1>7, <1>8, <1>9, <1>10 DEF KeysSound

\* The steps that tell Redis or the client.
LEMMA TellingSteps ==
    ASSUME Typed, KeysSound, NEW c \in Callers,
           Recognise(c) \/ SaveKey(c) \/ Push(c) \/ Answer(c)
    PROVE  KeysSound'
<1>0. SubmissionTypeOK /\ StepsAgree /\ RequestSound(c)
  BY DEF Typed, KeysSound
<1>1. CASE Recognise(c)
  <2> DEFINE k == request[c].key
  <2>1. k \in Keys /\ cached[k] \in Ids
    BY <1>0, <1>1, RequestShape DEF Recognise, At
  <2>2. /\ replies' = [replies EXCEPT ![k] = @ \cup {cached[k]}] /\ End(c)
        /\ UNCHANGED <<jobs, cached, queue, promised>>
    BY <1>1 DEF Recognise, redis
  <2>3. cached[k] # NoJob
    BY <1>0, <2>1, NoJobAssumption DEF Ids, SubmissionTypeOK, Rows
  <2>4. cached[k] \in made[k]
    BY <2>1, <2>3, CachedInIds DEF made
  <2>5. request'[c].step = "idle" /\ \A b \in Callers \ {c} : request'[b] = request[b]
    BY <1>0, <2>2, RequestEnds
  <2> HIDE DEF k
  <2>6. RepliesTrue'
    <3>1. made' = made
      BY <2>2 DEF made
    <3> QED
      BY <1>0, <2>1, <2>2, <2>4, <3>1 DEF KeysSound, RepliesTrue, SubmissionTypeOK
  <2>7. RedisNamesCommitted' /\ PromisesKept' /\ OneRowPerKey'
    BY <2>2 DEF KeysSound, RedisNamesCommitted, Ids, PromisesKept, OneRowPerKey
  <2>8. \A b \in Callers \ {c} : RequestSound(b)'
    BY <1>0, <2>2, <2>5, RequestKept DEF KeysSound
  <2> QED
    BY <2>5, <2>6, <2>7, <2>8, EndedSound DEF KeysSound
<1>2. CASE SaveKey(c)
  <2> DEFINE k == request[c].key
  <2>1. k \in Keys /\ request[c].job \in JobIds /\ ~request[c].owed
    BY <1>0, <1>2, RequestShape DEF SaveKey, StepsAgree, RequestSound, At
  <2>2. /\ cached' = [cached EXCEPT ![k] = request[c].job] /\ Go(c, "saved")
        /\ At(c, "committed") /\ UNCHANGED <<jobs, queue, promised, replies>>
    BY <1>2 DEF SaveKey, history
  <2>3. /\ request'[c].step = "saved" /\ request'[c].key = k
        /\ request'[c].job = request[c].job /\ request'[c].owed = request[c].owed
        /\ \A b \in Callers \ {c} : request'[b] = request[b]
    BY <1>0, <2>2, RequestGoes
  <2>4. \E row \in jobs : row.id = request[c].job /\ row.key = k
    BY <1>0, <2>2 DEF RequestSound
  <2> HIDE DEF k
  <2>5. /\ cached'[k] = request[c].job /\ cached'[k] # NoJob
        /\ \A l \in Keys \ {k} : cached'[l] = cached[l]
    BY <1>0, <2>1, <2>2, NoJobAssumption DEF SubmissionTypeOK
  <2>6. RequestSound(c)'
    BY <2>1, <2>2, <2>3, <2>4, <2>5 DEF RequestSound, At
  <2>7. \A b \in Callers \ {c} : RequestSound(b)'
    BY <1>0, <2>2, <2>3, <2>5, RequestKept DEF KeysSound
  <2>8. RedisNamesCommitted'
    BY <2>1, <2>2, <2>4, <2>5 DEF KeysSound, RedisNamesCommitted, Ids
  <2>9. PromisesKept'
    BY <1>0, <2>2, <2>5 DEF KeysSound, PromisesKept, SubmissionTypeOK
  <2>10. OneRowPerKey' /\ RepliesTrue'
    BY <2>2 DEF KeysSound, OneRowPerKey, RepliesTrue, made
  <2> QED
    BY <2>6, <2>7, <2>8, <2>9, <2>10 DEF KeysSound
<1>3. CASE Push(c)
  <2>1. /\ queue' = queue \cup {request[c].job} /\ Go(c, "pushed") /\ At(c, "saved")
        /\ UNCHANGED <<jobs, cached, promised, replies>>
    BY <1>3 DEF Push, history
  <2>2. /\ request'[c].step = "pushed" /\ request'[c].key = request[c].key
        /\ request'[c].job = request[c].job /\ request'[c].owed = request[c].owed
        /\ \A b \in Callers \ {c} : request'[b] = request[b]
    BY <1>0, <2>1, RequestGoes
  <2>3. RequestSound(c)'
    BY <1>0, <2>1, <2>2 DEF RequestSound, At
  <2>4. \A b \in Callers \ {c} : RequestSound(b)'
    BY <1>0, <2>1, <2>2, RequestKept DEF KeysSound
  <2>5. request[c].job \in Ids
    BY <1>0, <2>1 DEF RequestSound, Ids
  <2>6. RedisNamesCommitted'
    BY <2>1, <2>5 DEF KeysSound, RedisNamesCommitted, Ids
  <2>7. PromisesKept' /\ OneRowPerKey' /\ RepliesTrue'
    BY <2>1 DEF KeysSound, PromisesKept, OneRowPerKey, RepliesTrue, made
  <2> QED
    BY <2>3, <2>4, <2>6, <2>7 DEF KeysSound
<1>4. CASE Answer(c)
  <2> DEFINE k == request[c].key
  <2>1. k \in Keys \cup {NoKey} /\ (k \in Keys => cached[k] # NoJob)
    BY <1>0, <1>4, RequestShape DEF Answer, At, RequestSound
  <2>2. /\ promised' = promised \cup ({k} \ {NoKey}) /\ End(c)
        /\ replies' = [l \in Keys |-> IF l = k THEN replies[l] \cup {request[c].job}
                                               ELSE replies[l]]
        /\ UNCHANGED <<jobs, cached, queue>>
    BY <1>4 DEF Answer, redis
  <2>3. request'[c].step = "idle" /\ \A b \in Callers \ {c} : request'[b] = request[b]
    BY <1>0, <2>2, RequestEnds
  <2>4. \E row \in jobs : row.id = request[c].job /\ row.key = k
    BY <1>0, <1>4 DEF Answer, RequestSound
  <2>5. k \in Keys => request[c].job \in made[k]
    BY <2>4 DEF made
  <2> HIDE DEF k
  <2>6. \A b \in Callers \ {c} : RequestSound(b)'
    BY <1>0, <2>2, <2>3, RequestKept DEF KeysSound
  <2>7. PromisesKept'
    BY <2>1, <2>2 DEF KeysSound, PromisesKept
  <2>8. RepliesTrue'
    <3>1. made' = made
      BY <2>2 DEF made
    <3> QED
      BY <2>2, <2>5, <3>1 DEF KeysSound, RepliesTrue
  <2>9. RedisNamesCommitted' /\ OneRowPerKey'
    BY <2>2 DEF KeysSound, RedisNamesCommitted, Ids, OneRowPerKey
  <2> QED
    BY <2>3, <2>6, <2>7, <2>8, <2>9, EndedSound DEF KeysSound
<1> QED
  BY <1>1, <1>2, <1>3, <1>4

\* A key grows old; no request of the hour before still counts on it.
LEMMA ExpireStep ==
    ASSUME Typed, KeysSound, NEW k \in Keys, Expire(k)
    PROVE  KeysSound'
<1>0. SubmissionTypeOK
  BY DEF Typed
<1>1. /\ cached'[k] = NoJob /\ \A l \in Keys \ {k} : cached'[l] = cached[l]
      /\ promised' = promised \ {k} /\ UNCHANGED <<jobs, queue, replies>>
  BY <1>0 DEF Expire, SubmissionTypeOK
<1>2. ASSUME NEW b \in Callers
      PROVE  RequestSound(b)'
  <2>1. CASE request[b].step # "idle" /\ request[b].key = k
    <3>1. request[b] \in Requests \ {Idle}
      BY <1>0, <2>1 DEF SubmissionTypeOK, Idle
    <3>2. /\ [request[b] EXCEPT !.owed = FALSE].step = request[b].step
          /\ [request[b] EXCEPT !.owed = FALSE].key = request[b].key
          /\ [request[b] EXCEPT !.owed = FALSE].owed = FALSE
          /\ request[b].step \in {"committed", "saved", "pushed"} =>
               [request[b] EXCEPT !.owed = FALSE].job = request[b].job
      BY <3>1 DEF Requests
    <3>3. request'[b] = [request[b] EXCEPT !.owed = FALSE]
      BY <2>1 DEF Expire
    <3>4. ~At(b, "saved") /\ ~At(b, "pushed")
      BY <2>1 DEF Expire
    <3> QED
      BY <1>1, <3>2, <3>3, <3>4 DEF KeysSound, RequestSound, At
  <2>2. CASE ~(request[b].step # "idle" /\ request[b].key = k)
    <3>1. request'[b] = request[b]
      BY <2>2 DEF Expire
    <3> QED
      BY <1>1, <2>2, <3>1 DEF KeysSound, RequestSound, At
  <2> QED
    BY <2>1, <2>2
<1>3. RedisNamesCommitted' /\ OneRowPerKey'
  BY <1>1 DEF KeysSound, RedisNamesCommitted, Ids, OneRowPerKey
<1>4. PromisesKept'
  BY <1>0, <1>1 DEF KeysSound, PromisesKept, SubmissionTypeOK
<1>5. RepliesTrue'
  BY <1>1 DEF KeysSound, RepliesTrue, made
<1> QED
  BY <1>2, <1>3, <1>4, <1>5 DEF KeysSound

\* Every step keeps the invariant.
LEMMA NextKeys == Typed /\ KeysSound /\ [SubmissionNext]_vars => KeysSound'
<1> SUFFICES ASSUME Typed, KeysSound, [SubmissionNext]_vars
             PROVE  KeysSound'
  OBVIOUS
<1>1. ASSUME UNCHANGED <<jobs, cached, queue, promised, replies, request>>
      PROVE  KeysSound'
  <2>1. SubmissionTypeOK
    BY DEF Typed
  <2>2. \A b \in Callers : RequestSound(b)'
    BY <1>1, <2>1, RequestKept DEF KeysSound
  <2> QED
    BY <1>1, <2>2, SharedKept DEF KeysSound
<1>2. CASE Pause
  BY <1>1, <1>2 DEF Pause, redis, history
<1>3. CASE UNCHANGED vars
  BY <1>1, <1>3 DEF vars, redis, history
<1> QED
  BY <1>2, <1>3, QuietSteps, CommitStep, TellingSteps, ExpireStep DEF SubmissionNext

\* The invariant behind the three theorems below.
THEOREM KeysAlwaysSound == SubmissionSpec => []KeysSound
BY InitKeys, NextKeys, AlwaysTyped, PTL DEF SubmissionSpec

-----------------------------------------------------------------------------
(* What follows *)

\* Neither the queue nor a key ever names a job that is not committed.
THEOREM RedisIsTrue == SubmissionSpec => []RedisNamesCommitted
<1>1. KeysSound => RedisNamesCommitted
  BY DEF KeysSound
<1> QED
  BY <1>1, KeysAlwaysSound, PTL

\* A retry of an answered key never gets past the lookup of the key.
THEOREM RetriesAreRecognised == SubmissionSpec => []AnsweredRetryIsRecognised
<1>1. KeysSound => AnsweredRetryIsRecognised
  BY DEF KeysSound, RequestSound, AnsweredRetryIsRecognised
<1> QED
  BY <1>1, KeysAlwaysSound, PTL

-----------------------------------------------------------------------------
(* The promise of the key *)

\* A commit makes the one job of its key; without a key it makes none.
LEMMA CommitPromised ==
    ASSUME Typed, KeysSound, NEW c \in Callers, NEW id \in JobIds, Commit(c, id)
    PROVE  [Promise!Next]_<<made, replies>>
<1> DEFINE k == request[c].key
           new == [id |-> id, key |-> k, at |-> request[c].at]
<1>1. k \in Keys \cup {NoKey}
  BY RequestShape DEF Typed, Commit, At
<1>2. jobs' = jobs \cup {new} /\ replies' = replies /\ ~KeyUsed(k)
  BY DEF Commit, history
<1>3. new.id = id /\ new.key = k
  OBVIOUS
<1> HIDE DEF k, new
<1>4. ASSUME NEW l \in Keys, l # k
      PROVE  made'[l] = made[l]
  BY <1>2, <1>3, <1>4 DEF made
<1>5. CASE k = NoKey
  <2>1. made' = [l \in Keys |-> made'[l]] /\ made = [l \in Keys |-> made[l]]
    BY DEF made
  <2> QED
    BY <1>2, <1>4, <1>5, <2>1, NoKeyAssumption
<1>6. CASE k \in Keys
  <2>1. \A row \in jobs : row.key # k
    BY <1>2, <1>6, NoKeyAssumption DEF KeyUsed
  <2>2. made[k] = {} /\ made'[k] = {id}
    BY <1>2, <1>3, <1>6, <2>1 DEF made
  <2>3. made' = [made EXCEPT ![k] = {id}]
    BY <1>4, <1>6, <2>2 DEF made
  <2> QED
    BY <1>2, <1>6, <2>2, <2>3 DEF Promise!Next, Promise!Make
<1> QED
  BY <1>1, <1>5, <1>6

\* What is told of a key, when it is a job the key has made, is that job.
LEMMA TellPromised ==
    ASSUME SubmissionTypeOK, KeysSound, jobs' = jobs, NEW k \in Keys, NEW j \in made[k],
           replies' = [replies EXCEPT ![k] = @ \cup {j}]
    PROVE  Promise!Next
<1>1. made' = made
  BY DEF made
<1>2. made[k] = {j}
  BY DEF made, KeysSound, OneRowPerKey
<1>3. replies[k] \subseteq made[k]
  BY DEF KeysSound, RepliesTrue
<1>4. replies' = [replies EXCEPT ![k] = made[k]]
  BY <1>2, <1>3 DEF SubmissionTypeOK
<1> QED
  BY <1>1, <1>2, <1>4 DEF Promise!Next, Promise!Tell

\* The steps that tell a client something.
LEMMA RepliesPromised ==
    ASSUME Typed, KeysSound, NEW c \in Callers, Recognise(c) \/ Answer(c)
    PROVE  [Promise!Next]_<<made, replies>>
<1>0. SubmissionTypeOK /\ RequestSound(c)
  BY DEF Typed, KeysSound
<1> DEFINE k == request[c].key
<1>1. CASE Recognise(c)
  <2>1. k \in Keys /\ cached[k] \in Ids /\ jobs' = jobs
        /\ replies' = [replies EXCEPT ![k] = @ \cup {cached[k]}]
    BY <1>0, <1>1, RequestShape DEF Recognise, At
  <2>2. cached[k] # NoJob
    BY <1>0, <2>1, NoJobAssumption DEF Ids, SubmissionTypeOK, Rows
  <2>3. cached[k] \in made[k]
    BY <2>1, <2>2, CachedInIds DEF made
  <2> HIDE DEF k
  <2> QED
    BY <1>0, <2>1, <2>3, TellPromised
<1>2. CASE Answer(c)
  <2>1. /\ k \in Keys \cup {NoKey} /\ jobs' = jobs
        /\ replies' = [l \in Keys |-> IF l = k THEN replies[l] \cup {request[c].job}
                                               ELSE replies[l]]
    BY <1>0, <1>2, RequestShape DEF Answer, At
  <2>2. \E row \in jobs : row.id = request[c].job /\ row.key = k
    BY <1>0, <1>2 DEF Answer, RequestSound
  <2>3. k \in Keys => request[c].job \in made[k]
    BY <2>2 DEF made
  <2> HIDE DEF k
  <2>4. CASE k = NoKey
    BY <1>0, <2>1, <2>4, NoKeyAssumption DEF SubmissionTypeOK, made
  <2>5. CASE k \in Keys
    <3>1. replies' = [replies EXCEPT ![k] = @ \cup {request[c].job}]
      BY <1>0, <2>1, <2>5 DEF SubmissionTypeOK
    <3> QED
      BY <1>0, <2>1, <2>3, <2>5, <3>1, TellPromised
  <2> QED
    BY <2>1, <2>4, <2>5
<1> QED
  BY <1>1, <1>2

\* Every step makes a job, tells of one, or leaves both alone.
LEMMA NextPromised ==
    Typed /\ KeysSound /\ [SubmissionNext]_vars => [Promise!Next]_<<made, replies>>
<1> SUFFICES ASSUME Typed, KeysSound, [SubmissionNext]_vars
             PROVE  [Promise!Next]_<<made, replies>>
  OBVIOUS
<1>1. ASSUME UNCHANGED <<jobs, replies>>
      PROVE  UNCHANGED <<made, replies>>
  BY <1>1 DEF made
<1>2. CASE Pause \/ UNCHANGED vars
  BY <1>1, <1>2 DEF Pause, vars, history
<1>3. ASSUME NEW k \in Keys, Expire(k)
      PROVE  UNCHANGED <<made, replies>>
  BY <1>1, <1>3 DEF Expire
<1>4. ASSUME NEW c \in Callers,
             \/ \E k \in Keys \cup {NoKey} : Arrive(c, k)
             \/ Miss(c) \/ Pass(c) \/ RateLimited(c) \/ Counted(c)
             \/ Reject(c) \/ Begin(c) \/ Collide(c) \/ Die(c)
             \/ SaveKey(c) \/ Push(c)
      PROVE  UNCHANGED <<made, replies>>
  BY <1>1, <1>4 DEF Arrive, Miss, Pass, RateLimited, Counted, Reject, Begin, Collide, Die,
                    SaveKey, Push, history
<1> QED
  BY <1>2, <1>3, <1>4, CommitPromised, RepliesPromised DEF SubmissionNext

\* create_job implements the promise of the Idempotency-Key header: one job
\* for a key, and no answer that names another.
THEOREM KeysKeepTheirPromise == SubmissionSpec => OncePerKey
<1>1. SubmissionInit => Promise!Init
  BY DEF SubmissionInit, Promise!Init, made
<1>2. Typed /\ KeysSound /\ [SubmissionNext]_vars => [Promise!Next]_<<made, replies>>
  BY NextPromised
<1> QED
  BY <1>1, <1>2, AlwaysTyped, KeysAlwaysSound, PTL
     DEF SubmissionSpec, OncePerKey, Promise!Spec
-----------------------------------------------------------------------------
(* The rows of a page *)

\* A set of rows that created_at and id put in order.
Sortable(rows) ==
    /\ rows \subseteq Rows
    /\ IsFiniteSet(rows)
    /\ \A row, other \in rows : row.id = other.id => row = other

\* Of two rows one is before the other, and what is before an older row is
\* before a newer one.
LEMMA RowsOrdered ==
    ASSUME NEW rows, Sortable(rows)
    PROVE  /\ \A row \in rows : ~Before(row, row)
           /\ \A row, other \in rows : row = other \/ Before(row, other) \/ Before(other, row)
           /\ \A row, other, third \in rows :
                 Before(row, other) /\ Before(other, third) => Before(row, third)
<1>1. \A row \in rows : row.id \in Nat /\ row.at \in Nat
  BY JobIdAssumption DEF Sortable, Rows
<1> QED
  BY <1>1 DEF Sortable, Before

\* A row's place counts the rows that are newer: every number below the
\* cardinality is the place of a row.
LEMMA EveryPlaceTaken ==
    ASSUME NEW rows, Sortable(rows), rows # {},
           NEW n \in Nat, n < Cardinality(rows)
    PROVE  \E row \in rows : Cardinality(Newer(rows, row)) = n
<1> DEFINE size == Cardinality(rows)
           place == [row \in rows |-> Cardinality(Newer(rows, row))]
<1>1. size \in Nat
  BY FS_CardinalityType DEF Sortable
<1>2. ASSUME NEW row \in rows
      PROVE  /\ IsFiniteSet(Newer(rows, row))
             /\ Cardinality(Newer(rows, row)) \in 0 .. size - 1
  <2>1. Newer(rows, row) \in SUBSET rows /\ Newer(rows, row) # rows
    BY RowsOrdered DEF Newer
  <2>2. IsFiniteSet(rows)
    BY DEF Sortable
  <2>3. /\ IsFiniteSet(Newer(rows, row))
        /\ Cardinality(Newer(rows, row)) <= size
        /\ Cardinality(Newer(rows, row)) # size
    BY <2>1, <2>2, FS_Subset
  <2>4. Cardinality(Newer(rows, row)) \in Nat
    BY <2>3, FS_CardinalityType
  <2> QED
    BY <1>1, <2>3, <2>4
<1>3. ASSUME NEW row \in rows, NEW other \in rows, Before(row, other)
      PROVE  place[row] # place[other]
  <2>1. Newer(rows, other) \in SUBSET Newer(rows, row)
    BY <1>3, RowsOrdered DEF Newer
  <2>2. other \in Newer(rows, row) \ Newer(rows, other)
    BY <1>3, RowsOrdered DEF Newer
  <2>3. Cardinality(Newer(rows, row)) # Cardinality(Newer(rows, other))
    BY <1>2, <2>1, <2>2, FS_Subset
  <2> QED
    BY <2>3
<1>4. place \in Injection(rows, 0 .. size - 1)
  <2>1. place \in [rows -> 0 .. size - 1]
    BY <1>2
  <2>2. \A row, other \in rows : place[row] = place[other] => row = other
    BY <1>3, RowsOrdered
  <2> QED
    BY <2>1, <2>2 DEF Injection, IsInjective
<1>5. IsFiniteSet(0 .. size - 1) /\ Cardinality(0 .. size - 1) = size
  <2> HIDE DEF size
  <2>1. 0 \in Int /\ size - 1 \in Int
    BY <1>1
  <2>2. /\ IsFiniteSet(0 .. size - 1)
        /\ Cardinality(0 .. size - 1) =
              IF 0 > size - 1 THEN 0 ELSE (size - 1) - 0 + 1
    BY <2>1, FS_Interval
  <2> QED
    BY <1>1, <2>2
<1>6. \A row \in rows : place[row] = Cardinality(Newer(rows, row))
  OBVIOUS
<1>7. n \in 0 .. size - 1
  BY <1>1
<1> HIDE DEF place, size
<1>8. place \in Surjection(rows, 0 .. size - 1)
  <2>1. size = Cardinality(rows)
    BY DEF size
  <2> QED
    BY <1>4, <1>5, <2>1, FS_Injection
<1>9. PICK row \in rows : place[row] = n
  BY <1>7, <1>8 DEF Surjection
<1> QED
  BY <1>6, <1>9

\* The last row of some rows, which next_cursor names.
LEMMA OldestLast ==
    ASSUME NEW rows, Sortable(rows), rows # {}
    PROVE  Oldest(rows) \in rows /\ \A row \in rows : ~Before(row, Oldest(rows))
<1>1. Cardinality(rows) \in Nat /\ Cardinality(rows) # 0
  BY FS_CardinalityType, FS_EmptySet DEF Sortable
<1>2. PICK last \in rows : Cardinality(Newer(rows, last)) = Cardinality(rows) - 1
  <2>1. Cardinality(rows) - 1 \in Nat /\ Cardinality(rows) - 1 < Cardinality(rows)
    BY <1>1
  <2> QED
    BY <2>1, EveryPlaceTaken
<1>3. /\ IsFiniteSet(rows \ {last})
      /\ Cardinality(rows \ {last}) = Cardinality(rows) - 1
  BY FS_RemoveElement DEF Sortable
<1>4. Newer(rows, last) \in SUBSET (rows \ {last})
  BY RowsOrdered DEF Newer
<1>5. Newer(rows, last) = rows \ {last}
  BY <1>2, <1>3, <1>4, FS_Subset
<1>6. \A row \in rows : ~Before(row, last)
  BY <1>5, RowsOrdered DEF Newer
<1> QED
  BY <1>6 DEF Oldest

\* If there are more rows than a page holds, the page has rows, it leaves rows,
\* and what it leaves is before its last row.
LEMMA PageOfMany ==
    ASSUME NEW rows, Sortable(rows), HasMore(rows)
    PROVE  LET last == Oldest(Page(rows))
           IN  /\ last \in Page(rows)
               /\ \A row \in Page(rows) : ~Before(row, last)
               /\ \A row \in rows \ Page(rows) : Before(row, last)
<1>1. Cardinality(rows) \in Nat /\ PageSize \in Nat \ {0} /\ rows # {}
  BY FS_CardinalityType, FS_EmptySet, PageSizeAssumption DEF Sortable, HasMore
<1>2. Page(rows) # {}
  <2>1. PICK row \in rows : Cardinality(Newer(rows, row)) = 0
    BY <1>1, EveryPlaceTaken DEF HasMore
  <2> QED
    BY <1>1, <2>1 DEF Page
<1>3. Sortable(Page(rows))
  BY FS_Subset DEF Sortable, Page
<1> DEFINE last == Oldest(Page(rows))
<1>4. last \in Page(rows) /\ \A row \in Page(rows) : ~Before(row, last)
  BY <1>2, <1>3, OldestLast
<1> HIDE DEF last
<1>5. ASSUME NEW row \in rows, ~Before(row, last)
      PROVE  row \in Page(rows)
  <2>1. last \in rows /\ Cardinality(Newer(rows, last)) < PageSize
    BY <1>4 DEF Page
  <2>2. Newer(rows, row) \in SUBSET Newer(rows, last)
    BY <1>5, <2>1, RowsOrdered DEF Newer
  <2>3. IsFiniteSet(Newer(rows, last))
    BY FS_Subset DEF Newer, Sortable
  <2>4. /\ Cardinality(Newer(rows, row)) <= Cardinality(Newer(rows, last))
        /\ Cardinality(Newer(rows, row)) \in Nat /\ Cardinality(Newer(rows, last)) \in Nat
    BY <2>2, <2>3, FS_Subset, FS_CardinalityType
  <2> QED
    BY <1>1, <2>1, <2>4 DEF Page
<1> QED
  BY <1>4, <1>5 DEF last

\* If there are no more rows than a page holds, the page is all of them.
LEMMA PageOfFew ==
    ASSUME NEW rows, Sortable(rows), ~HasMore(rows)
    PROVE  Page(rows) = rows
<1>1. ASSUME NEW row \in rows
      PROVE  Cardinality(Newer(rows, row)) < PageSize
  <2>1. Newer(rows, row) \in SUBSET (rows \ {row})
    BY RowsOrdered DEF Newer
  <2>2. /\ IsFiniteSet(rows \ {row})
        /\ Cardinality(rows \ {row}) = Cardinality(rows) - 1
    BY FS_RemoveElement DEF Sortable
  <2>3. /\ Cardinality(Newer(rows, row)) <= Cardinality(rows) - 1
        /\ Cardinality(Newer(rows, row)) \in Nat /\ Cardinality(rows) \in Nat
    BY <2>1, <2>2, FS_Subset, FS_CardinalityType DEF Sortable
  <2> QED
    BY <2>3, PageSizeAssumption DEF HasMore
<1> QED
  BY <1>1 DEF Page

-----------------------------------------------------------------------------
(* The pages of a reader *)

\* What the pages so far have shown is not before the cursor, and what they owe
\* they have shown or is before it.
ReaderSound ==
    /\ reader.twice = {}
    /\ reader.next = {} => reader.due \subseteq reader.seen
    /\ \A cursor \in reader.next :
          /\ \A row \in reader.seen : ~Before(row, cursor)
          /\ \A row \in reader.due : row \in reader.seen \/ Before(row, cursor)

Walked == TypeOK /\ Sortable(jobs) /\ ReaderSound

\* The reader changes no row of create_job's.
LEMMA ReaderOnlyReads == [Next]_<<vars, reader>> => [SubmissionNext]_vars
BY DEF Next, FirstPage, NextPage, vars

\* Rows are only inserted, one at a time, with an id that was not taken.
LEMMA RowsAreInserted ==
    ASSUME SubmissionTypeOK, SubmissionTypeOK', Sortable(jobs), [SubmissionNext]_vars
    PROVE  jobs \subseteq jobs' /\ Sortable(jobs)'
<1>1. ASSUME UNCHANGED jobs
      PROVE  jobs \subseteq jobs' /\ Sortable(jobs)'
  BY <1>1
<1>2. ASSUME NEW c \in Callers, NEW id \in JobIds, Commit(c, id)
      PROVE  jobs \subseteq jobs' /\ Sortable(jobs)'
  <2> DEFINE row == [id |-> id, key |-> request[c].key, at |-> request[c].at]
  <2>1. jobs' = jobs \cup {row} /\ id \notin Ids /\ row.id = id
    BY <1>2 DEF Commit
  <2> HIDE DEF row
  <2>2. IsFiniteSet(jobs')
    BY <2>1, FS_AddElement DEF Sortable
  <2>3. jobs' \subseteq Rows
    BY DEF SubmissionTypeOK
  <2>4. \A one, other \in jobs' : one.id = other.id => one = other
    BY <2>1 DEF Sortable, Ids
  <2> QED
    BY <2>1, <2>2, <2>3, <2>4 DEF Sortable
<1>3. ASSUME NEW k \in Keys, Expire(k)
      PROVE  UNCHANGED jobs
  BY <1>3 DEF Expire
<1>4. ASSUME NEW c \in Callers,
             \/ \E k \in Keys \cup {NoKey} : Arrive(c, k)
             \/ Recognise(c) \/ Miss(c) \/ Pass(c) \/ RateLimited(c) \/ Counted(c)
             \/ Reject(c) \/ Begin(c) \/ Collide(c)
             \/ SaveKey(c) \/ Push(c) \/ Answer(c) \/ Die(c)
      PROVE  UNCHANGED jobs
  BY <1>4 DEF Arrive, Recognise, Miss, Pass, RateLimited, Counted, Reject, Begin, Collide,
     SaveKey, Push, Answer, Die
<1>5. CASE Pause \/ UNCHANGED vars
  BY <1>1, <1>5 DEF Pause, vars
<1> QED
  BY <1>1, <1>2, <1>3, <1>4, <1>5 DEF SubmissionNext

\* A page keeps the reader sound if what it is taken from has none of the rows
\* seen, nothing newer than one of them, and all that is still due.
LEMMA PageRead ==
    ASSUME Sortable(jobs), NEW rows \in SUBSET jobs, NEW seen \in SUBSET jobs,
           NEW due \in SUBSET jobs, Read(rows, seen, {}, due),
           seen \cap rows = {}, due \subseteq seen \cup rows,
           \A row \in seen, other \in rows : ~Before(row, other)
    PROVE  /\ reader' \in [next: SUBSET jobs, seen: SUBSET jobs, twice: SUBSET jobs,
                           due: SUBSET jobs]
           /\ \A row, other \in reader'.next : row = other
           /\ reader'.twice = {}
           /\ reader'.next = {} => due \subseteq reader'.seen
           /\ reader'.due = due
           /\ \A cursor \in reader'.next :
                 /\ \A row \in reader'.seen : ~Before(row, cursor)
                 /\ \A row \in due : row \in reader'.seen \/ Before(row, cursor)
<1>1. Sortable(rows)
  BY FS_Subset DEF Sortable
<1>2. Page(rows) \subseteq rows
  BY DEF Page
<1> DEFINE last == Oldest(Page(rows))
<1>3. reader' = [next  |-> IF HasMore(rows) THEN {last} ELSE {},
                 seen  |-> seen \cup Page(rows),
                 twice |-> seen \cap Page(rows),
                 due   |-> due]
  BY DEF Read
<1>4. HasMore(rows) =>
        /\ last \in Page(rows)
        /\ \A row \in Page(rows) : ~Before(row, last)
        /\ \A row \in rows \ Page(rows) : Before(row, last)
  BY <1>1, PageOfMany
<1>5. ~HasMore(rows) => Page(rows) = rows
  BY <1>1, PageOfFew
<1> HIDE DEF last
<1> QED
  BY <1>2, <1>3, <1>4, <1>5

\* The first page, and one more.
LEMMA PageSteps == Walked /\ (FirstPage \/ NextPage) => Walked'
<1> SUFFICES ASSUME TypeOK, Sortable(jobs), ReaderSound, FirstPage \/ NextPage
             PROVE  Walked'
  BY DEF Walked
<1>1. UNCHANGED vars
  BY DEF FirstPage, NextPage
<1>2. SubmissionTypeOK' /\ Sortable(jobs)' /\ jobs' = jobs
  BY <1>1 DEF TypeOK, SubmissionTypeOK, WindowTypeOK, Sortable, vars, windowVars, redis,
     history
<1>3. CASE FirstPage
  <2>1. Read(jobs, {}, {}, jobs)
    BY <1>3 DEF FirstPage
  <2>2. /\ reader' \in [next: SUBSET jobs, seen: SUBSET jobs, twice: SUBSET jobs,
                        due: SUBSET jobs]
        /\ \A row, other \in reader'.next : row = other
        /\ reader'.twice = {}
        /\ reader'.next = {} => jobs \subseteq reader'.seen
        /\ reader'.due = jobs
        /\ \A cursor \in reader'.next :
              /\ \A row \in reader'.seen : ~Before(row, cursor)
              /\ \A row \in jobs : row \in reader'.seen \/ Before(row, cursor)
    <3>1. /\ {} \in SUBSET jobs /\ jobs \in SUBSET jobs
          /\ {} \cap jobs = {} /\ jobs \subseteq {} \cup jobs
          /\ \A row \in {}, other \in jobs : ~Before(row, other)
      OBVIOUS
    <3> QED
      BY <2>1, <3>1, PageRead
  <2>3. ReaderSound' /\ TypeOK'
    BY <1>2, <2>2 DEF TypeOK, ReaderSound, Before
  <2> QED
    BY <1>2, <2>3 DEF Walked
<1>4. CASE NextPage
  <2>1. PICK cursor \in reader.next :
           Read(Beyond(cursor), reader.seen, reader.twice, reader.due)
    BY <1>4 DEF NextPage
  <2>2. /\ reader.seen \in SUBSET jobs /\ reader.due \in SUBSET jobs /\ cursor \in jobs
        /\ Beyond(cursor) \in SUBSET jobs
    BY DEF TypeOK, Beyond
  <2>3. /\ reader.twice = {}
        /\ \A row \in reader.seen : ~Before(row, cursor)
        /\ \A row \in reader.due : row \in reader.seen \/ Before(row, cursor)
    BY DEF ReaderSound
  <2>4. /\ reader.seen \cap Beyond(cursor) = {}
        /\ reader.due \subseteq reader.seen \cup Beyond(cursor)
    BY <2>2, <2>3 DEF Beyond
  <2>5. \A row \in reader.seen, other \in Beyond(cursor) : ~Before(row, other)
    BY <2>2, <2>3, RowsOrdered DEF Beyond
  <2> DEFINE seen == reader.seen
             due == reader.due
             rest == Beyond(cursor)
  <2>6. Read(rest, seen, {}, due)
    BY <2>1, <2>3
  <2> HIDE DEF seen, due, rest
  <2>7. /\ rest \in SUBSET jobs /\ seen \in SUBSET jobs /\ due \in SUBSET jobs
        /\ seen \cap rest = {} /\ due \subseteq seen \cup rest
        /\ \A row \in seen, other \in rest : ~Before(row, other)
    BY <2>2, <2>4, <2>5 DEF seen, due, rest
  <2>8. /\ reader' \in [next: SUBSET jobs, seen: SUBSET jobs, twice: SUBSET jobs,
                        due: SUBSET jobs]
        /\ \A row, other \in reader'.next : row = other
        /\ reader'.twice = {}
        /\ reader'.next = {} => due \subseteq reader'.seen
        /\ reader'.due = due
        /\ \A last \in reader'.next :
              /\ \A row \in reader'.seen : ~Before(row, last)
              /\ \A row \in due : row \in reader'.seen \/ Before(row, last)
    BY <2>6, <2>7, PageRead
  <2>9. ReaderSound' /\ TypeOK'
    BY <1>2, <2>8 DEF TypeOK, ReaderSound, Before
  <2> QED
    BY <1>2, <2>9 DEF Walked
<1> QED
  BY <1>3, <1>4

\* No page read, no row.
LEMMA InitWalked == Init => Walked
<1> SUFFICES ASSUME Init
             PROVE  Walked
  OBVIOUS
<1>1. SubmissionTypeOK /\ jobs = {} /\ reader = Fresh
  BY InitSubmissionType DEF Init, SubmissionInit
<1>2. Sortable(jobs)
  BY <1>1, FS_EmptySet DEF Sortable
<1> QED
  BY <1>1, <1>2 DEF Walked, TypeOK, Fresh, ReaderSound

\* What is inserted between two pages is neither seen nor due.
LEMMA NextWalked ==
    Walked /\ SubmissionTypeOK' /\ [Next]_<<vars, reader>> => Walked'
<1> SUFFICES ASSUME Walked, SubmissionTypeOK', [Next]_<<vars, reader>>
             PROVE  Walked'
  OBVIOUS
<1>1. CASE [SubmissionNext]_vars /\ UNCHANGED reader
  <2>1. jobs \subseteq jobs' /\ Sortable(jobs)'
    BY <1>1, RowsAreInserted DEF Walked, TypeOK
  <2> QED
    BY <1>1, <2>1 DEF Walked, TypeOK, ReaderSound, Before
<1> QED
  BY <1>1, PageSteps DEF Next, vars

\* A reader beside create_job takes nothing away from what was proved of it.
LEMMA SubmissionsGoOn == Spec => SubmissionSpec
<1>1. Init => SubmissionInit
  BY DEF Init
<1> QED
  BY <1>1, ReaderOnlyReads, PTL DEF Spec, SubmissionSpec

\* The invariant behind the two theorems below.
THEOREM ReadersWalk == Spec => []Walked
BY InitWalked, NextWalked, SubmissionsGoOn, SubmissionTypes, PTL DEF Spec

\* Every state of submissions and reader is well typed.
THEOREM HistoryTypes == Spec => []TypeOK
<1>1. Walked => TypeOK
  BY DEF Walked
<1> QED
  BY <1>1, ReadersWalk, PTL

\* The pages of the history show every row that was there when the first was
\* read, and none twice, whatever is inserted meanwhile.
THEOREM HistoryIsComplete == Spec => []PagesComplete
<1>1. Walked => PagesComplete
  BY DEF Walked, ReaderSound, PagesComplete
<1> QED
  BY <1>1, ReadersWalk, PTL
=============================================================================
