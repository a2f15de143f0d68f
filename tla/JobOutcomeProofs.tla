-------------------------- MODULE JobOutcomeProofs --------------------------
(***************************************************************************)
(* Proofs about uploads, executions and their outcome, for any uploads,    *)
(* jobs, janitors and providers, any number of tasks that run one job side *)
(* by side, and any number of faults and edits: rows lead to objects, a    *)
(* success has its output, a failure of all providers its attempts, and    *)
(* the seed script converges.                                              *)
(***************************************************************************)
EXTENDS JobOutcome, FiniteSetTheorems, TLAPS

-----------------------------------------------------------------------------
(* The providers of a job type: every step keeps the types, and what the   *)
(* seed script has set right stays so until an edit.                       *)

\* What the steps the script has taken have done, unless an edit came after it began.
Past(step) ==
    CASE step = "replicate" -> {"replicate", "link", "fallback", "done"}
      [] step = "link"      -> {"link", "fallback", "done"}
      [] step = "fallback"  -> {"fallback", "done"}

SeedSound ==
    clean =>
        /\ seed.step \in Past("replicate") => "adapter" \notin broken[Mock]
        /\ seed.step \in Past("link") => broken[Replicate] \subseteq {"status"}
        /\ seed.step \in Past("fallback") =>
             Replicate \in DOMAIN link /\ link[Replicate] = 0
        /\ seed.step = "done" /\ ~seed.token => Mock \in DOMAIN link /\ link[Mock] = 1

\* Everything that changes providers or chain, with what it is composed with left out.
CatalogNext == Administer \/ Seed \/ LoseSeed \/ \E token \in BOOLEAN : BeginSeed(token)

-----------------------------------------------------------------------------

SeedSteps == {"idle", "mock", "replicate", "link", "fallback", "done"}

\* The script goes on.
LEMMA SeedGoes ==
    ASSUME CatalogTypeOK, NEW from, NEW to \in SeedSteps, SeedStep(from, to)
    PROVE  /\ seed' \in [step: SeedSteps, token: BOOLEAN]
           /\ seed'.step = to /\ seed'.token = seed.token /\ seed.step = from
BY DEF CatalogTypeOK, SeedStep, SeedSteps

\* A link that is set, and the others.
LEMMA LinkSet ==
    ASSUME CatalogTypeOK, NEW p \in Providers, NEW n \in Priorities
    PROVE  /\ DOMAIN Linked(p, n) = DOMAIN link \cup {p}
           /\ DOMAIN Linked(p, n) \subseteq Providers
           /\ Linked(p, n)[p] = n
           /\ \A q \in DOMAIN link \ {p} : Linked(p, n)[q] = link[q]
           /\ \A q \in DOMAIN Linked(p, n) : Linked(p, n)[q] \in Priorities
BY DEF CatalogTypeOK, Linked

\* The catalogue of the migration.
LEMMA InitCatalog == CatalogInit => CatalogTypeOK /\ SeedSound
<1> SUFFICES ASSUME CatalogInit
             PROVE  CatalogTypeOK /\ SeedSound
  OBVIOUS
<1>1. broken \in [Providers -> SUBSET Reasons]
  BY DEF CatalogInit, Migrated, Reasons
<1>2. seed \in [step: SeedSteps, token: BOOLEAN] /\ clean = FALSE
  BY DEF CatalogInit, SeedSteps
<1>3. DOMAIN link = {Replicate} /\ link[Replicate] = 0
  BY DEF CatalogInit
<1> QED
  BY <1>1, <1>2, <1>3, ProvidersAssumption, PrioritiesAssumption
     DEF CatalogTypeOK, SeedSound, SeedSteps

\* Every step keeps the types, and what the script has done.
LEMMA NextCatalog ==
    ASSUME CatalogTypeOK, SeedSound, [CatalogNext]_catalogVars
    PROVE  CatalogTypeOK' /\ SeedSound'
<1>1. ASSUME NEW p \in Providers, RemoveProvider(p)
      PROVE  CatalogTypeOK' /\ SeedSound'
  <2>1. DOMAIN link' = DOMAIN link \ {p} /\ \A q \in DOMAIN link' : link'[q] = link[q]
    BY <1>1 DEF RemoveProvider
  <2> QED
    BY <1>1, <2>1 DEF RemoveProvider, CatalogTypeOK, SeedSound
<1>2. ASSUME NEW p \in Providers, NEW n \in Priorities, AddProvider(p, n)
      PROVE  CatalogTypeOK' /\ SeedSound'
  BY <1>2, LinkSet DEF AddProvider, CatalogTypeOK, SeedSound
<1>3. ASSUME NEW p \in Providers, NEW r \in Reasons, UpdateProvider(p, r)
      PROVE  CatalogTypeOK' /\ SeedSound'
  <2>1. broken' \in [Providers -> SUBSET Reasons]
    BY <1>3 DEF UpdateProvider, CatalogTypeOK
  <2> QED
    BY <1>3, <2>1 DEF UpdateProvider, CatalogTypeOK, SeedSound
<1>4. ASSUME NEW token \in BOOLEAN, BeginSeed(token)
      PROVE  CatalogTypeOK' /\ SeedSound'
  <2>1. seed'.step = "mock" /\ seed' \in [step: SeedSteps, token: BOOLEAN]
    BY <1>4 DEF BeginSeed, SeedSteps
  <2> QED
    BY <1>4, <2>1 DEF BeginSeed, CatalogTypeOK, SeedSound, SeedSteps, Past
<1>5. CASE SeedMock
  <2>1. seed'.step = "replicate" /\ seed' \in [step: SeedSteps, token: BOOLEAN]
    BY <1>5, SeedGoes DEF SeedMock, SeedSteps
  <2>2. broken' \in [Providers -> SUBSET Reasons] /\ "adapter" \notin broken'[Mock]
    BY <1>5, ProvidersAssumption DEF SeedMock, CatalogTypeOK
  <2> QED
    BY <1>5, <2>1, <2>2 DEF SeedMock, CatalogTypeOK, SeedSound, SeedSteps, Past
<1>6. CASE SeedReplicate
  <2>1. /\ seed.step = "replicate" /\ seed'.step = "link"
        /\ seed' \in [step: SeedSteps, token: BOOLEAN]
    BY <1>6, SeedGoes DEF SeedReplicate, SeedSteps
  <2>2. /\ broken' \in [Providers -> SUBSET Reasons]
        /\ broken'[Replicate] \subseteq {"status"}
        /\ broken'[Mock] = broken[Mock]
    BY <1>6, ProvidersAssumption DEF SeedReplicate, CatalogTypeOK, Reasons
  <2> QED
    BY <1>6, <2>1, <2>2 DEF SeedReplicate, CatalogTypeOK, SeedSound, SeedSteps, Past
<1>7. CASE SeedLink
  <2>1. /\ seed.step = "link" /\ seed'.step = (IF seed.token THEN "done" ELSE "fallback")
        /\ seed' \in [step: SeedSteps, token: BOOLEAN] /\ seed'.token = seed.token
    BY <1>7, SeedGoes DEF SeedLink, SeedSteps
  <2>2. link' = Linked(Replicate, 0) /\ UNCHANGED <<broken, clean>>
    BY <1>7 DEF SeedLink
  <2>3. /\ Replicate \in DOMAIN link' /\ link'[Replicate] = 0
        /\ DOMAIN link' \subseteq Providers /\ \A q \in DOMAIN link' : link'[q] \in Priorities
    <3>1. 0 \in Priorities /\ Replicate \in Providers
      BY ProvidersAssumption, PrioritiesAssumption
    <3> QED
      BY <2>2, <3>1, LinkSet
  <2> QED
    BY <2>1, <2>2, <2>3 DEF CatalogTypeOK, SeedSound, SeedSteps, Past
<1>8. CASE SeedFallback
  <2>1. /\ seed.step = "fallback" /\ seed'.step = "done"
        /\ seed' \in [step: SeedSteps, token: BOOLEAN]
    BY <1>8, SeedGoes DEF SeedFallback, SeedSteps
  <2>2. link' = Linked(Mock, 1) /\ UNCHANGED <<broken, clean>>
    BY <1>8 DEF SeedFallback
  <2>3. /\ Mock \in DOMAIN link' /\ link'[Mock] = 1
        /\ DOMAIN link' \subseteq Providers /\ \A q \in DOMAIN link' : link'[q] \in Priorities
        /\ Replicate \in DOMAIN link =>
             Replicate \in DOMAIN link' /\ link'[Replicate] = link[Replicate]
    <3>1. 1 \in Priorities /\ Mock \in Providers /\ Mock # Replicate
      BY ProvidersAssumption, PrioritiesAssumption
    <3>2. /\ DOMAIN link' = DOMAIN link \cup {Mock} /\ DOMAIN link' \subseteq Providers
          /\ link'[Mock] = 1 /\ \A q \in DOMAIN link' : link'[q] \in Priorities
          /\ \A q \in DOMAIN link \ {Mock} : link'[q] = link[q]
      BY <2>2, <3>1, LinkSet
    <3> QED
      BY <3>1, <3>2
  <2> QED
    BY <2>1, <2>2, <2>3 DEF CatalogTypeOK, SeedSound, SeedSteps, Past
<1>9. CASE LoseSeed
  <2>1. seed'.step = "idle" /\ seed' \in [step: SeedSteps, token: BOOLEAN]
    BY <1>9 DEF LoseSeed, CatalogTypeOK, SeedSteps
  <2> QED
    BY <1>9, <2>1 DEF LoseSeed, CatalogTypeOK, SeedSound, SeedSteps, Past
<1>10. CASE UNCHANGED catalogVars
  BY <1>10 DEF catalogVars, CatalogTypeOK, SeedSound
<1> QED
  BY <1>1, <1>2, <1>3, <1>4, <1>5, <1>6, <1>7, <1>8, <1>9, <1>10
     DEF CatalogNext, Administer, Seed

\* What the invariant says at the end of a run of the script.
LEMMA SeedSoundConverges == SeedSound => SeedConverges
<1>1. "done" \in Past("replicate") /\ "done" \in Past("link") /\ "done" \in Past("fallback")
  BY DEF Past
<1> QED
  BY <1>1, Zenon DEF SeedSound, SeedConverges


Actors == Tasks \cup Janitors

-----------------------------------------------------------------------------
(* Objects and rows *)

UploadRow(row) == \E u \in Uploads : row = RowOf(sender[u], UploadKey(u), u)
OutputRow(row) == \E j \in Jobs : row = RowOf(Home[j], OutputKey(Home[j], j), j)

\* An object is where its content belongs; a row was made for an upload or a job,
\* after its object.
Placed ==
    \A k \in DOMAIN object :
        \/ object[k] \in Uploads /\ UploadKey(object[k]) = k
        \/ object[k] \in Jobs /\ OutputKey(Home[object[k]], object[k]) = k

StoreSound ==
    /\ Placed
    /\ \A row \in file : Stored(row.key) /\ (UploadRow(row) \/ OutputRow(row))
    /\ \A u \in Uploads : upload[u] = "put" => Stored(UploadKey(u))

StoreTypeOK ==
    /\ sender \in Senders
    /\ upload \in [Uploads -> {"idle", "put", "done", "lost"}]

\* No path of an upload is the path of an output.
LEMMA RowsLead == StoreSound => RowsHaveObjects
<1> SUFFICES ASSUME StoreSound, NEW row \in file
             PROVE  /\ Stored(row.key)
                    /\ object[row.key] # row.content =>
                         LET other == object[row.key] IN
                           /\ other \in Uploads /\ row.content \in Uploads
                           /\ other # row.content
                           /\ UploadKey(other) = row.key
                           /\ sender[other] = row.integration
  BY DEF RowsHaveObjects
<1> DEFINE o == object[row.key]
<1>1. Stored(row.key) /\ (UploadRow(row) \/ OutputRow(row))
  BY DEF StoreSound
<1>2. \/ o \in Uploads /\ UploadKey(o) = row.key
      \/ o \in Jobs /\ OutputKey(Home[o], o) = row.key
  BY <1>1 DEF StoreSound, Placed, Stored
<1>3. CASE UploadRow(row)
  <2>1. PICK u \in Uploads : row = RowOf(sender[u], UploadKey(u), u)
    BY <1>3 DEF UploadRow
  <2>2. row.integration = sender[u] /\ row.key = UploadKey(u) /\ row.content = u
    BY <2>1 DEF RowOf
  <2>3. CASE o \in Uploads /\ UploadKey(o) = row.key
    BY <1>1, <2>2, <2>3 DEF UploadKey
  <2>4. CASE o \in Jobs /\ OutputKey(Home[o], o) = row.key
    BY <2>2, <2>4, JobsAssumption DEF UploadKey, OutputKey
  <2> QED
    BY <1>2, <2>3, <2>4
<1>4. CASE OutputRow(row)
  <2>1. PICK j \in Jobs : row = RowOf(Home[j], OutputKey(Home[j], j), j)
    BY <1>4 DEF OutputRow
  <2>2. row.key = OutputKey(Home[j], j) /\ row.content = j
    BY <2>1 DEF RowOf
  <2>3. CASE o \in Uploads /\ UploadKey(o) = row.key
    BY <2>2, <2>3, JobsAssumption DEF UploadKey, OutputKey
  <2>4. CASE o \in Jobs /\ OutputKey(Home[o], o) = row.key
    BY <1>1, <2>2, <2>4 DEF OutputKey
  <2> QED
    BY <1>2, <2>3, <2>4
<1> QED
  BY <1>1, <1>3, <1>4

\* The types of the rows follow.
LEMMA RowsTyped ==
    StoreSound =>
        file \subseteq [integration: {Home[j] : j \in Jobs} \cup {sender[u] : u \in Uploads},
                        key: DOMAIN object, content: Uploads \cup Jobs]
<1> SUFFICES ASSUME StoreSound, NEW row \in file
             PROVE  row \in [integration: {Home[j] : j \in Jobs} \cup
                                          {sender[u] : u \in Uploads},
                             key: DOMAIN object, content: Uploads \cup Jobs]
  OBVIOUS
<1>1. Stored(row.key) /\ (UploadRow(row) \/ OutputRow(row))
  BY DEF StoreSound
<1>2. CASE UploadRow(row)
  BY <1>1, <1>2 DEF UploadRow, RowOf, Stored
<1>3. CASE OutputRow(row)
  BY <1>1, <1>3 DEF OutputRow, RowOf, Stored
<1> QED
  BY <1>1, <1>2, <1>3

\* An object that is put where it belongs.
LEMMA ObjectPut ==
    ASSUME StoreSound, UNCHANGED <<file, sender>>, NEW k, NEW content, PutObject(k, content),
           \/ content \in Uploads /\ UploadKey(content) = k
           \/ content \in Jobs /\ OutputKey(Home[content], content) = k,
           \A u \in Uploads : upload'[u] = "put" => upload[u] = "put" \/ UploadKey(u) = k
    PROVE  StoreSound' /\ Stored(k)' /\ DOMAIN object \subseteq DOMAIN object'
<1>1. /\ DOMAIN object' = DOMAIN object \cup {k} /\ object'[k] = content
      /\ \A l \in DOMAIN object \ {k} : object'[l] = object[l]
  BY DEF PutObject
<1>3. Placed'
  <2>1. ASSUME NEW l \in DOMAIN object'
        PROVE  \/ object'[l] \in Uploads
                  /\ <<sender[object'[l]], "uploads", Name[object'[l]]>> = l
               \/ object'[l] \in Jobs /\ OutputKey(Home[object'[l]], object'[l]) = l
    <3>1. CASE l = k
      BY <1>1, <3>1 DEF UploadKey
    <3>2. CASE l # k
      <4>1. l \in DOMAIN object /\ object'[l] = object[l]
        BY <1>1, <3>2
      <4> QED
        BY <4>1 DEF StoreSound, Placed, UploadKey
    <3> QED
      BY <3>1, <3>2
  <2> QED
    BY <2>1 DEF Placed, UploadKey
<1>4. ASSUME NEW row \in file'
      PROVE  Stored(row.key)' /\ (UploadRow(row)' \/ OutputRow(row)')
  <2>1. Stored(row.key) /\ (UploadRow(row) \/ OutputRow(row))
    BY DEF StoreSound
  <2>2. Stored(row.key)' /\ sender' = sender
    BY <1>1, <2>1 DEF Stored
  <2> QED
    BY <2>1, <2>2 DEF UploadRow, OutputRow, UploadKey
<1>5. \A u \in Uploads : upload'[u] = "put" => Stored(UploadKey(u))'
  BY <1>1 DEF StoreSound, Stored, UploadKey
<1> QED
  BY <1>1, <1>3, <1>4, <1>5 DEF StoreSound, Stored

\* A row that is made after its object.
LEMMA RowMade ==
    ASSUME StoreSound, UNCHANGED <<object, sender>>, NEW row, file' = file \cup {row},
           Stored(row.key), UploadRow(row) \/ OutputRow(row),
           \A u \in Uploads : upload'[u] = "put" => upload[u] = "put"
    PROVE  StoreSound'
<1>1. Placed'
  BY DEF StoreSound, Placed, UploadKey
<1>2. ASSUME NEW r \in file'
      PROVE  Stored(r.key)' /\ (UploadRow(r)' \/ OutputRow(r)')
  BY DEF StoreSound, Stored, UploadRow, OutputRow, UploadKey
<1>3. ASSUME NEW u \in Uploads, upload'[u] = "put"
      PROVE  Stored(UploadKey(u))'
  BY <1>3 DEF StoreSound, Stored, UploadKey
<1> QED
  BY <1>1, <1>2, <1>3 DEF StoreSound

\* The store before the first upload.
LEMMA InitStore == StoreInit => StoreSound /\ StoreTypeOK
BY DEF StoreInit, StoreSound, StoreTypeOK, Placed

\* Every step of an upload.
LEMMA NextUpload ==
    ASSUME StoreSound, StoreTypeOK, NEW u \in Uploads,
           PutUpload(u) \/ RowUpload(u) \/ LoseUpload(u)
    PROVE  /\ StoreSound' /\ StoreTypeOK' /\ file \subseteq file'
           /\ DOMAIN object \subseteq DOMAIN object'
<1>1. CASE PutUpload(u)
  <2>1. /\ upload' \in [Uploads -> {"idle", "put", "done", "lost"}]
        /\ \A v \in Uploads : upload'[v] = "put" => upload[v] = "put" \/ v = u
    BY <1>1 DEF PutUpload, StoreTypeOK
  <2>2. StoreSound' /\ DOMAIN object \subseteq DOMAIN object'
    BY <1>1, <2>1, ObjectPut DEF PutUpload
  <2>3. StoreTypeOK'
    BY <1>1, <2>1 DEF PutUpload, StoreTypeOK
  <2> QED
    BY <1>1, <2>2, <2>3 DEF PutUpload
<1>2. CASE RowUpload(u) \/ LoseUpload(u)
  <2>1. /\ upload' \in [Uploads -> {"idle", "put", "done", "lost"}]
        /\ \A v \in Uploads : upload'[v] = "put" => upload[v] = "put"
        /\ object' = object /\ sender' = sender
    BY <1>2 DEF RowUpload, LoseUpload, StoreTypeOK
  <2>2. StoreSound' /\ file \subseteq file'
    <3>1. CASE RowUpload(u)
      <4> DEFINE row == RowOf(sender[u], UploadKey(u), u)
      <4>1. Stored(row.key) /\ UploadRow(row)
        BY <3>1 DEF RowUpload, StoreSound, RowOf, UploadRow
      <4> QED
        BY <2>1, <3>1, <4>1, RowMade DEF RowUpload
    <3>2. CASE LoseUpload(u)
      BY <2>1, <3>2 DEF LoseUpload, StoreSound, Placed, Stored, UploadRow, OutputRow,
                           UploadKey
    <3> QED
      BY <1>2, <3>1, <3>2
  <2>3. StoreTypeOK'
    BY <2>1 DEF StoreTypeOK
  <2> QED
    BY <2>1, <2>2, <2>3
<1> QED
  BY <1>1, <1>2

-----------------------------------------------------------------------------
(* Executions: the inductive invariant *)

Working == {"fetching", "calling", "noting", "storing", "filing", "attempting", "closing"}

HasOutput(j) ==
    /\ RowOf(Home[j], OutputKey(Home[j], j), j) \in file
    /\ Stored(OutputKey(Home[j], j))

\* What a task has written of a job when all its providers have failed, and when one
\* has answered.
AllTried(j, t) == plan[j][t] # <<>> /\ tried[j][t] = Failures(plan[j][t])
Answered(j, t) == plan[j][t] # <<>> /\ tried[j][t] = Success(plan[j][t])

\* The first failures are in the table, the others are still to be written.
Noted(written, rest, adapters) ==
    /\ Len(written) + Len(rest) = Len(adapters)
    /\ \A i \in 1..Len(written) : written[i] = [provider |-> adapters[i], ok |-> FALSE]
    /\ \A i \in 1..Len(rest) : rest[i] = adapters[Len(written) + i]

\* What a task knows of its own rows once it runs, whatever other tasks and janitors
\* have made of the job.
WorkSound(t) ==
    /\ plan[Job(t)][t] = exec[t].adapters /\ plan[Job(t)][t] # <<>>
    /\ On(t, "noting") => Noted(tried[Job(t)][t], exec[t].rest, exec[t].adapters)
    /\ exec[t].step \notin {"noting", "closing"} => tried[Job(t)][t] = <<>>
    /\ On(t, "filing") \/ On(t, "attempting") => Stored(OutputKey(Home[Job(t)], Job(t)))
    /\ On(t, "attempting") => RowOf(Home[Job(t)], OutputKey(Home[Job(t)], Job(t)), Job(t)) \in file
    /\ On(t, "closing") => HasOutput(Job(t)) /\ Answered(Job(t), t)

\* A task runs a job once: when it takes a job it has written nothing of it.
TaskSound(t) ==
    /\ On(t, "reading") => plan[Job(t)][t] = <<>> /\ tried[Job(t)][t] = <<>>
    /\ exec[t].step \in Working => WorkSound(t)

JobSound(j) ==
    /\ status[j] \in {"none", "pending"} =>
         \A t \in Tasks : plan[j][t] = <<>> /\ tried[j][t] = <<>>
    /\ error[j] = "PROVIDER_ERROR" => \E t \in Tasks : AllTried(j, t)
    /\ status[j] = "succeeded" => HasOutput(j) /\ \E t \in Tasks : Answered(j, t)

ExecSound ==
    /\ \A t \in Tasks : TaskSound(t)
    /\ \A j \in Jobs : JobSound(j)

Inv == ExecTypeOK /\ ExecSound /\ StoreSound

-----------------------------------------------------------------------------
(* What tasks and janitors hold *)

\* What an actor that is not idle holds.
LEMMA RunShape ==
    ASSUME ExecTypeOK, NEW a \in Actors
    PROVE  /\ exec[a] \in {Resting} \cup Runs
           /\ On(a, "idle") => exec[a] = Resting
           /\ ~On(a, "idle") =>
                /\ exec[a] \in Runs /\ Job(a) \in Jobs
                /\ exec[a].rest \in Seq(Providers) /\ exec[a].adapters \in Seq(Providers)
                /\ exec[a].count \in Nat /\ exec[a].step \in Steps
<1>1. exec[a] \in {Resting} \cup Runs /\ Resting.step = "idle"
  BY DEF ExecTypeOK, Actors, Resting
<1>2. \A r \in Runs : r.step \in Steps /\ r.step # "idle"
  BY DEF Runs, Steps
<1>3. exec[a] \in Runs => /\ exec[a].job \in Jobs /\ exec[a].count \in Nat
                          /\ exec[a].rest \in Seq(Providers)
                          /\ exec[a].adapters \in Seq(Providers)
  BY DEF Runs
<1> QED
  BY <1>1, <1>2, <1>3 DEF On, Job

\* An actor that is given something to hold, and the others.
LEMMA RunSet ==
    ASSUME ExecTypeOK, NEW a \in Actors, NEW r \in {Resting} \cup Runs,
           exec' = [exec EXCEPT ![a] = r]
    PROVE  /\ exec' \in [Tasks \cup Janitors -> {Resting} \cup Runs]
           /\ exec'[a] = r
           /\ \A b \in Actors \ {a} : exec'[b] = exec[b]
BY DEF ExecTypeOK, Actors

\* An actor that has nothing more to do.
LEMMA RunFreed ==
    ASSUME ExecTypeOK, NEW a \in Actors, Free(a)
    PROVE  /\ exec' \in [Tasks \cup Janitors -> {Resting} \cup Runs]
           /\ exec'[a].step = "idle"
           /\ \A b \in Actors \ {a} : exec'[b] = exec[b]
<1>1. Resting.step = "idle"
  BY DEF Resting
<1> QED
  BY <1>1, RunSet DEF Free

\* An actor that goes on with what it holds.
LEMMA RunGoes ==
    ASSUME ExecTypeOK, NEW a \in Actors, ~On(a, "idle"), NEW step \in Steps, Step(a, step)
    PROVE  /\ exec' \in [Tasks \cup Janitors -> {Resting} \cup Runs]
           /\ exec'[a].step = step /\ exec'[a].job = exec[a].job
           /\ exec'[a].rest = exec[a].rest /\ exec'[a].adapters = exec[a].adapters
           /\ exec'[a].count = exec[a].count
           /\ \A b \in Actors \ {a} : exec'[b] = exec[b]
<1> DEFINE r == [exec[a] EXCEPT !.step = step]
<1>1. exec[a] \in Runs
  BY RunShape
<1>2. r \in Runs /\ r.step = step /\ r.job = exec[a].job /\ r.rest = exec[a].rest
      /\ r.adapters = exec[a].adapters /\ r.count = exec[a].count
  BY <1>1 DEF Runs
<1>3. exec' = [exec EXCEPT ![a] = r]
  BY DEF Step
<1> HIDE DEF r
<1> QED
  BY <1>2, <1>3, RunSet

\* What is kept for each job and task, when one of the entries is written.
LEMMA EntryPut ==
    ASSUME NEW S, NEW f \in [Jobs -> [Tasks -> S]], NEW j \in Jobs, NEW t \in Tasks,
           NEW v \in S, NEW g, g = [f EXCEPT ![j][t] = v]
    PROVE  /\ g \in [Jobs -> [Tasks -> S]]
           /\ g[j][t] = v
           /\ \A i \in Jobs, o \in Tasks : i # j \/ o # t => g[i][o] = f[i][o]
OBVIOUS

-----------------------------------------------------------------------------
(* What a step leaves alone *)

\* Nothing that is there goes away.
Grows == file \subseteq file' /\ DOMAIN object \subseteq DOMAIN object'

\* Only one entry of the history may have been written, and one job's row.
OnlyEntry(t, j) ==
    /\ \A b \in Actors \ {t} : exec'[b] = exec[b]
    /\ \A i \in Jobs, o \in Tasks : i # j \/ o # t =>
         plan'[i][o] = plan[i][o] /\ tried'[i][o] = tried[i][o]
    /\ \A i \in Jobs \ {j} : status'[i] = status[i] /\ error'[i] = error[i]

\* An output stays.
LEMMA OutputStays ==
    ASSUME Grows, NEW j \in Jobs, HasOutput(j)
    PROVE  HasOutput(j)'
BY DEF Grows, HasOutput, Stored

\* A task that does not move, and whose entries stay.
LEMMA TaskKept ==
    ASSUME ExecTypeOK, NEW t \in Tasks, TaskSound(t), exec'[t] = exec[t], Grows,
           \A i \in Jobs : plan'[i][t] = plan[i][t] /\ tried'[i][t] = tried[i][t]
    PROVE  TaskSound(t)'
<1>1. CASE On(t, "idle")
  BY <1>1 DEF TaskSound, On, Working
<1>2. CASE ~On(t, "idle")
  <2>1. Job(t) \in Jobs
    BY <1>2, RunShape DEF Actors
  <2>2. /\ plan'[Job(t)][t] = plan[Job(t)][t] /\ tried'[Job(t)][t] = tried[Job(t)][t]
        /\ Job(t)' = Job(t) /\ \A step : On(t, step)' = On(t, step)
    BY <2>1 DEF Job, On
  <2>3. HasOutput(Job(t)) => HasOutput(Job(t))'
    BY <2>1, <2>2, OutputStays DEF HasOutput, Grows, Stored
  <2>4. WorkSound(t) => WorkSound(t)'
    BY <2>2, <2>3 DEF WorkSound, Answered, Success, Stored, Grows
  <2> QED
    BY <2>2, <2>4 DEF TaskSound
<1> QED
  BY <1>1, <1>2

\* A job none of whose entries is written.
LEMMA JobKept ==
    ASSUME NEW j \in Jobs, JobSound(j), Grows,
           status'[j] = status[j] \/ status'[j] = "failed" \/
             (status[j] = "none" /\ status'[j] = "pending"),
           error'[j] = error[j] \/ error'[j] # "PROVIDER_ERROR",
           \A t \in Tasks : plan'[j][t] = plan[j][t] /\ tried'[j][t] = tried[j][t]
    PROVE  JobSound(j)'
<1>1. \A t \in Tasks :
     /\ AllTried(j, t) => AllTried(j, t)'
     /\ Answered(j, t) => Answered(j, t)'
  BY DEF AllTried, Answered, Failures, Success
<1> QED
  BY <1>1, OutputStays DEF JobSound

\* A step of a task on its job.
LEMMA TaskFrame ==
    ASSUME ExecTypeOK, ExecSound, NEW t \in Tasks, NEW j \in Jobs, OnlyEntry(t, j), Grows,
           TaskSound(t)', JobSound(j)'
    PROVE  ExecSound'
<1>1. ASSUME NEW o \in Tasks \ {t}
      PROVE  TaskSound(o)'
  BY TaskKept DEF ExecSound, OnlyEntry, Actors
<1>2. ASSUME NEW i \in Jobs \ {j}
      PROVE  JobSound(i)'
  BY JobKept DEF ExecSound, OnlyEntry
<1> QED
  BY <1>1, <1>2 DEF ExecSound

\* The job of a step that writes an entry the task had not ended with, or gives the job a
\* status.
LEMMA JobMoves ==
    ASSUME NEW t \in Tasks, NEW j \in Jobs, JobSound(j), OnlyEntry(t, j), Grows,
           AllTried(j, t) => AllTried(j, t)', Answered(j, t) => Answered(j, t)',
           status'[j] \notin {"none", "pending"},
           error'[j] = "PROVIDER_ERROR" => error[j] = "PROVIDER_ERROR" \/ AllTried(j, t)',
           status'[j] = "succeeded" =>
             status[j] = "succeeded" \/ (HasOutput(j)' /\ Answered(j, t)')
    PROVE  JobSound(j)'
<1>1. \A o \in Tasks :
     /\ AllTried(j, o) => AllTried(j, o)'
     /\ Answered(j, o) => Answered(j, o)'
  <2>1. \A o \in Tasks \ {t} : plan'[j][o] = plan[j][o] /\ tried'[j][o] = tried[j][o]
    BY DEF OnlyEntry
  <2>2. \A o \in Tasks \ {t} :
       /\ AllTried(j, o) => AllTried(j, o)'
       /\ Answered(j, o) => Answered(j, o)'
    BY <2>1 DEF AllTried, Answered, Failures, Success
  <2> QED
    BY <2>2
<1> QED
  BY <1>1, OutputStays DEF JobSound

-----------------------------------------------------------------------------
(* Attempts *)

\* All failures are noted in memory, none is written.
LEMMA NotedFirst ==
    ASSUME NEW adapters \in Seq(Providers)
    PROVE  /\ SubSeq(adapters, 1, Len(adapters)) \in Seq(Providers)
           /\ Noted(<<>>, SubSeq(adapters, 1, Len(adapters)), adapters)
BY DEF Noted

\* One more is written.
LEMMA NotedMore ==
    ASSUME NEW adapters \in Seq(Providers), NEW rest \in Seq(Providers),
           NEW written \in Seq(Attempts), Noted(written, rest, adapters), rest # <<>>
    PROVE  LET more == Append(written, [provider |-> Head(rest), ok |-> FALSE]) IN
           /\ more \in Seq(Attempts) /\ Tail(rest) \in Seq(Providers)
           /\ Noted(more, Tail(rest), adapters)
<1> DEFINE row == [provider |-> Head(rest), ok |-> FALSE]
           more == Append(written, row)
<1>1. rest[1] = adapters[Len(written) + 1] /\ Head(rest) = rest[1] /\ Len(rest) > 0
      /\ Head(rest) \in Providers /\ Tail(rest) \in Seq(Providers)
      /\ Len(Tail(rest)) = Len(rest) - 1
      /\ \A i \in 1..Len(Tail(rest)) : Tail(rest)[i] = rest[i + 1]
  BY DEF Noted
<1>2. row \in Attempts /\ row = [provider |-> adapters[Len(written) + 1], ok |-> FALSE]
  BY <1>1 DEF Attempts
<1> HIDE DEF row
<1>3. /\ more \in Seq(Attempts) /\ Len(more) = Len(written) + 1
      /\ more[Len(written) + 1] = row /\ \A i \in 1..Len(written) : more[i] = written[i]
  BY <1>2
<1> HIDE DEF more
<1>4. ASSUME NEW i \in 1..Len(more)
      PROVE  more[i] = [provider |-> adapters[i], ok |-> FALSE]
  <2>1. Len(written) \in Nat
    OBVIOUS
  <2>2. i \in 1..Len(written) \/ i = Len(written) + 1
    BY <1>3, <2>1
  <2>3. \A k \in 1..Len(written) : written[k] = [provider |-> adapters[k], ok |-> FALSE]
    BY DEF Noted
  <2> QED
    BY <1>2, <1>3, <2>2, <2>3
<1>5. \A i \in 1..Len(Tail(rest)) : Tail(rest)[i] = adapters[Len(more) + i]
  <2>1. ASSUME NEW i \in 1..Len(Tail(rest))
        PROVE  Tail(rest)[i] = adapters[Len(more) + i]
    <3>1. i + 1 \in 1..Len(rest) /\ Len(written) + (i + 1) = Len(more) + i
      BY <1>1, <1>3
    <3>2. rest[i + 1] = adapters[Len(written) + (i + 1)]
      BY <3>1 DEF Noted
    <3> QED
      BY <1>1, <3>1, <3>2
  <2> QED
    BY <2>1
<1>6. Len(more) + Len(Tail(rest)) = Len(adapters)
  BY <1>1, <1>3 DEF Noted
<1>7. more \in Seq(Attempts) /\ Tail(rest) \in Seq(Providers)
      /\ Noted(more, Tail(rest), adapters)
  BY <1>1, <1>3, <1>4, <1>5, <1>6 DEF Noted
<1> QED
  BY <1>7, Zenon DEF more, row

\* All are written.
LEMMA NotedAll ==
    ASSUME NEW adapters \in Seq(Providers), NEW written \in Seq(Attempts),
           Noted(written, <<>>, adapters)
    PROVE  written = Failures(adapters)
<1>1. Len(written) = Len(adapters)
  BY DEF Noted
<1>2. DOMAIN written = 1..Len(adapters) /\ DOMAIN adapters = 1..Len(adapters)
  BY <1>1
<1>3. \A i \in 1..Len(adapters) : written[i] = [provider |-> adapters[i], ok |-> FALSE]
  BY <1>1 DEF Noted
<1>4. written = [i \in 1..Len(adapters) |-> written[i]]
  BY <1>2
<1> QED
  BY <1>2, <1>3, <1>4 DEF Failures

\* Before the last is written a task has not ended.
LEMMA NotedNotAll ==
    ASSUME NEW adapters \in Seq(Providers), NEW rest \in Seq(Providers), rest # <<>>,
           NEW written \in Seq(Attempts), Noted(written, rest, adapters)
    PROVE  written # Failures(adapters) /\ written # Success(adapters)
<1>1. /\ Len(written) \in Nat /\ Len(adapters) \in Nat /\ Len(rest) \in Nat \ {0}
      /\ Len(written) + Len(rest) = Len(adapters)
  BY DEF Noted
<1>2. ASSUME written = Failures(adapters)
      PROVE  FALSE
  <2>1. DOMAIN written = DOMAIN adapters
    BY <1>2 DEF Failures
  <2>2. DOMAIN written = 1..Len(written) /\ DOMAIN adapters = 1..Len(adapters)
    OBVIOUS
  <2>3. Len(adapters) \in 1..Len(adapters) /\ Len(adapters) \notin 1..Len(written)
    BY <1>1
  <2> QED
    BY <2>1, <2>2, <2>3
<1>3. ASSUME written = Success(adapters)
      PROVE  FALSE
  <2>1. Len(written) = 1 /\ written[1].ok = TRUE
    BY <1>3 DEF Success
  <2>2. written[1] = [provider |-> adapters[1], ok |-> FALSE]
    BY <2>1 DEF Noted
  <2> QED
    BY <2>1, <2>2
<1> QED
  BY <1>2, <1>3

\* A task that has written nothing has not ended.
LEMMA NoneNotAll ==
    ASSUME NEW adapters \in Seq(Providers), adapters # <<>>
    PROVE  <<>> # Failures(adapters) /\ <<>> # Success(adapters)
<1>1. 1 \in DOMAIN adapters
  OBVIOUS
<1>2. 1 \in DOMAIN Failures(adapters)
  BY <1>1 DEF Failures
<1>3. Len(Success(adapters)) = 1
  BY DEF Success
<1> QED
  BY <1>2, <1>3

-----------------------------------------------------------------------------
(* The steps of a task *)

\* What is known of a task at work and of its job.
LEMMA AtWork ==
    ASSUME Inv, NEW t \in Tasks, NEW j \in Jobs, Job(t) = j, ~On(t, "idle")
    PROVE  /\ t \in Actors /\ TaskSound(t) /\ JobSound(j)
           /\ exec[t] \in Runs /\ exec[t].rest \in Seq(Providers)
           /\ exec[t].adapters \in Seq(Providers) /\ exec[t].count \in Nat
           /\ tried[j][t] \in Seq(Attempts)
<1>1. t \in Actors
  BY DEF Actors
<1>2. tried[j][t] \in Seq(Attempts)
  BY DEF Inv, ExecTypeOK
<1> QED
  BY <1>1, <1>2, RunShape DEF Inv, ExecSound

\* A row of jobs that fails, and the others.
LEMMA RowFails ==
    ASSUME ExecTypeOK, NEW j \in Jobs,
           NEW code \in {"none", "INTERNAL", "INVALID_INPUT", "PROVIDER_ERROR", "TIMEOUT"},
           SetFailed(j, code)
    PROVE  /\ status' \in [Jobs -> {"none", "pending", "running", "succeeded", "failed"}]
           /\ error' \in [Jobs -> {"none", "INTERNAL", "INVALID_INPUT", "PROVIDER_ERROR",
                                   "TIMEOUT"}]
           /\ status'[j] = "failed" /\ error'[j] = code
           /\ \A i \in Jobs \ {j} : status'[i] = status[i] /\ error'[i] = error[i]
BY DEF SetFailed, ExecTypeOK

\* A step of a task that leaves the rows of jobs and attempts alone, and what it is at sound.
LEMMA OnlyTask ==
    ASSUME Inv, NEW t \in Tasks, Grows,
           exec' \in [Tasks \cup Janitors -> {Resting} \cup Runs],
           \A b \in Actors \ {t} : exec'[b] = exec[b],
           UNCHANGED <<input, status, error, tried, plan>>, TaskSound(t)'
    PROVE  ExecTypeOK' /\ ExecSound'
<1>1. ASSUME NEW o \in Tasks \ {t}
      PROVE  TaskSound(o)'
  BY TaskKept DEF Inv, ExecSound, Actors
<1>2. ASSUME NEW j \in Jobs
      PROVE  JobSound(j)'
  BY JobKept DEF Inv, ExecSound
<1>3. ExecTypeOK'
  BY DEF Inv, ExecTypeOK
<1> QED
  BY <1>1, <1>2, <1>3 DEF ExecSound

\* The chain becomes adapters.
LEMMA StepBuild ==
    ASSUME Inv, NEW t \in Tasks, NEW j \in Jobs, Job(t) = j, BuildAdapter(t)
    PROVE  ExecTypeOK' /\ ExecSound'
<1> DEFINE p == Head(exec[t].rest)
           more == IF Usable(p) THEN Append(exec[t].adapters, p) ELSE exec[t].adapters
           r == [exec[t] EXCEPT !.rest = Tail(exec[t].rest), !.adapters = more]
<1>0. /\ On(t, "reading") /\ ~On(t, "idle") /\ exec[t].rest # <<>>
      /\ UNCHANGED <<input, status, error, tried, plan, storeVars>>
  BY DEF BuildAdapter, On
<1>1. /\ t \in Actors /\ TaskSound(t) /\ exec[t] \in Runs
      /\ exec[t].rest \in Seq(Providers) /\ exec[t].adapters \in Seq(Providers)
  BY <1>0, AtWork
<1>2. p \in Providers /\ Tail(exec[t].rest) \in Seq(Providers)
  BY <1>0, <1>1
<1>3. more \in Seq(Providers)
  BY <1>1, <1>2
<1>4. exec' = [exec EXCEPT ![t] = r]
  BY <1>1 DEF BuildAdapter, Inv, ExecTypeOK, Actors
<1> HIDE DEF more, p
<1>5. r \in Runs /\ r.step = "reading" /\ r.job = j
  BY <1>0, <1>1, <1>2, <1>3 DEF Runs, On, Job
<1> HIDE DEF r
<1>6. /\ exec' \in [Tasks \cup Janitors -> {Resting} \cup Runs] /\ exec'[t] = r
      /\ \A b \in Actors \ {t} : exec'[b] = exec[b]
  BY <1>1, <1>4, <1>5, RunSet DEF Inv
<1>7. Job(t)' = j /\ exec'[t].step = "reading"
  BY <1>5, <1>6 DEF Job
<1>8. TaskSound(t)'
  BY <1>0, <1>1, <1>7 DEF TaskSound, On, Working
<1>9. Grows
  BY <1>0 DEF Grows, storeVars
<1> QED
  BY <1>0, <1>6, <1>8, <1>9, OnlyTask

\* The input is read and the first adapter is called; a provider answers.
LEMMA StepOn ==
    ASSUME Inv, NEW t \in Tasks, NEW j \in Jobs, Job(t) = j, FetchInput(t) \/ ProviderSucceeds(t)
    PROVE  ExecTypeOK' /\ ExecSound'
<1> DEFINE to == IF On(t, "fetching") THEN "calling" ELSE "storing"
<1>0. /\ Step(t, to) /\ exec[t].step \in {"fetching", "calling"} /\ to \in {"calling", "storing"}
      /\ UNCHANGED <<input, status, error, tried, plan, storeVars>>
      /\ ~On(t, "idle")
  BY DEF FetchInput, ProviderSucceeds, On
<1> HIDE DEF to
<1>1. t \in Actors /\ TaskSound(t) /\ to \in Steps
  BY <1>0, AtWork DEF Steps
<1>2. /\ exec' \in [Tasks \cup Janitors -> {Resting} \cup Runs]
      /\ exec'[t].step = to /\ exec'[t].job = exec[t].job
      /\ exec'[t].adapters = exec[t].adapters
      /\ \A b \in Actors \ {t} : exec'[b] = exec[b]
  BY <1>0, <1>1, RunGoes DEF Inv
<1>3. Job(t)' = j
  BY <1>2 DEF Job
<1>4. WorkSound(t)
  BY <1>0, <1>1 DEF TaskSound, Working
<1>5. TaskSound(t)'
  BY <1>0, <1>2, <1>3, <1>4 DEF TaskSound, WorkSound, Working, On
<1>6. Grows
  BY <1>0 DEF Grows, storeVars
<1> QED
  BY <1>0, <1>2, <1>5, <1>6, OnlyTask

\* A provider fails, and the next one is called.
LEMMA StepNext ==
    ASSUME Inv, NEW t \in Tasks, NEW j \in Jobs, Job(t) = j, ProviderFails(t)
    PROVE  ExecTypeOK' /\ ExecSound'
<1> DEFINE r == [exec[t] EXCEPT !.count = exec[t].count + 1]
<1>0. /\ On(t, "calling") /\ ~On(t, "idle")
      /\ UNCHANGED <<input, status, error, tried, plan, storeVars>>
  BY DEF ProviderFails, On
<1>1. t \in Actors /\ TaskSound(t) /\ exec[t] \in Runs /\ exec[t].count \in Nat
  BY <1>0, AtWork
<1>2. exec' = [exec EXCEPT ![t] = r]
  BY <1>1 DEF ProviderFails, Inv, ExecTypeOK, Actors
<1>3. r \in Runs /\ r.step = "calling" /\ r.job = j /\ r.adapters = exec[t].adapters
  BY <1>0, <1>1 DEF Runs, On, Job
<1> HIDE DEF r
<1>4. /\ exec' \in [Tasks \cup Janitors -> {Resting} \cup Runs] /\ exec'[t] = r
      /\ \A b \in Actors \ {t} : exec'[b] = exec[b]
  BY <1>1, <1>2, <1>3, RunSet DEF Inv
<1>5. Job(t)' = j
  BY <1>3, <1>4 DEF Job
<1>6. WorkSound(t)
  BY <1>0, <1>1 DEF TaskSound, Working, On
<1>7. TaskSound(t)'
  BY <1>0, <1>3, <1>4, <1>5, <1>6 DEF TaskSound, WorkSound, Working, On
<1>8. Grows
  BY <1>0 DEF Grows, storeVars
<1> QED
  BY <1>0, <1>4, <1>7, <1>8, OnlyTask

\* All providers have failed.
LEMMA StepAllFailed ==
    ASSUME Inv, NEW t \in Tasks, NEW j \in Jobs, Job(t) = j, AllFailed(t)
    PROVE  ExecTypeOK' /\ ExecSound'
<1> DEFINE rest == SubSeq(exec[t].adapters, 1, Len(exec[t].adapters))
           r == [exec[t] EXCEPT !.step = "noting", !.rest = rest]
<1>0. /\ On(t, "calling") /\ ~On(t, "idle")
      /\ exec[t].count = Len(exec[t].adapters)
      /\ UNCHANGED <<input, status, error, tried, plan, storeVars>>
  BY DEF AllFailed, On
<1>1. /\ t \in Actors /\ TaskSound(t) /\ exec[t] \in Runs
      /\ exec[t].adapters \in Seq(Providers)
  BY <1>0, AtWork
<1>2. exec' = [exec EXCEPT ![t] = r]
  BY <1>0, <1>1 DEF AllFailed, Inv, ExecTypeOK, Actors
<1>3. rest \in Seq(Providers) /\ Noted(<<>>, rest, exec[t].adapters)
  BY <1>1, NotedFirst
<1> HIDE DEF rest
<1>4. r \in Runs /\ r.step = "noting" /\ r.job = j /\ r.adapters = exec[t].adapters
      /\ r.rest = rest
  BY <1>0, <1>1, <1>3 DEF Runs, On, Job, Steps
<1> HIDE DEF r
<1>5. /\ exec' \in [Tasks \cup Janitors -> {Resting} \cup Runs] /\ exec'[t] = r
      /\ \A b \in Actors \ {t} : exec'[b] = exec[b]
  BY <1>1, <1>2, <1>4, RunSet DEF Inv
<1>6. Job(t)' = j /\ exec'[t].step = "noting"
  BY <1>4, <1>5 DEF Job
<1>7. WorkSound(t)
  BY <1>0, <1>1 DEF TaskSound, Working, On
<1>8. WorkSound(t)'
  BY <1>0, <1>3, <1>4, <1>5, <1>6, <1>7 DEF WorkSound, On
<1>9. TaskSound(t)'
  BY <1>6, <1>8 DEF TaskSound, Working, On
<1>10. Grows
  BY <1>0 DEF Grows, storeVars
<1> QED
  BY <1>0, <1>5, <1>9, <1>10, OnlyTask

\* A job fails before its handler runs.
LEMMA StepEarly ==
    ASSUME Inv, NEW t \in Tasks, NEW j \in Jobs, Job(t) = j, NoAdapters(t) \/ RejectFile(t)
    PROVE  ExecTypeOK' /\ ExecSound'
<1>0. /\ Free(t) /\ ~On(t, "idle")
      /\ SetFailed(j, "INTERNAL") \/ SetFailed(j, "INVALID_INPUT")
      /\ UNCHANGED <<input, tried, plan, storeVars>>
  BY DEF NoAdapters, RejectFile, On
<1>1. t \in Actors /\ JobSound(j)
  BY <1>0, AtWork
<1>2. /\ exec' \in [Tasks \cup Janitors -> {Resting} \cup Runs] /\ exec'[t].step = "idle"
      /\ \A b \in Actors \ {t} : exec'[b] = exec[b]
  BY <1>0, <1>1, RunFreed DEF Inv
<1>3. /\ status' \in [Jobs -> {"none", "pending", "running", "succeeded", "failed"}]
      /\ error' \in [Jobs -> {"none", "INTERNAL", "INVALID_INPUT", "PROVIDER_ERROR",
                              "TIMEOUT"}]
      /\ status'[j] = "failed" /\ error'[j] \in {"INTERNAL", "INVALID_INPUT"}
      /\ \A i \in Jobs \ {j} : status'[i] = status[i] /\ error'[i] = error[i]
  BY <1>0, RowFails DEF Inv
<1>4. ExecTypeOK'
  BY <1>0, <1>2, <1>3 DEF Inv, ExecTypeOK
<1>5. OnlyEntry(t, j) /\ Grows
  BY <1>0, <1>2, <1>3 DEF OnlyEntry, Grows, storeVars
<1>6. TaskSound(t)'
  BY <1>2 DEF TaskSound, On, Working
<1>7. JobSound(j)'
  BY <1>0, <1>1, <1>3, <1>5, JobKept
<1> QED
  BY <1>4, <1>5, <1>6, <1>7, TaskFrame DEF Inv

\* The adapters are there, and the job is running.
LEMMA StepRunning ==
    ASSUME Inv, NEW t \in Tasks, NEW j \in Jobs, Job(t) = j, StartRunning(t)
    PROVE  ExecTypeOK' /\ ExecSound'
<1>0. /\ On(t, "reading") /\ ~On(t, "idle") /\ exec[t].adapters # <<>>
      /\ Step(t, "fetching")
      /\ status' = [status EXCEPT ![j] = "running"]
      /\ plan' = [plan EXCEPT ![j][t] = exec[t].adapters]
      /\ UNCHANGED <<input, error, tried, storeVars>>
  BY DEF StartRunning, On
<1>1. /\ t \in Actors /\ TaskSound(t) /\ JobSound(j) /\ exec[t].adapters \in Seq(Providers)
  BY <1>0, AtWork
<1>2. plan[j][t] = <<>> /\ tried[j][t] = <<>>
  BY <1>0, <1>1 DEF TaskSound
<1>3. /\ exec' \in [Tasks \cup Janitors -> {Resting} \cup Runs]
      /\ exec'[t].step = "fetching" /\ exec'[t].job = exec[t].job
      /\ exec'[t].adapters = exec[t].adapters
      /\ \A b \in Actors \ {t} : exec'[b] = exec[b]
  BY <1>0, <1>1, RunGoes DEF Inv, Steps
<1>4. /\ status' \in [Jobs -> {"none", "pending", "running", "succeeded", "failed"}]
      /\ status'[j] = "running" /\ \A i \in Jobs \ {j} : status'[i] = status[i]
  BY <1>0 DEF Inv, ExecTypeOK
<1>5. /\ plan' \in [Jobs -> [Tasks -> Seq(Providers)]]
      /\ plan'[j][t] = exec[t].adapters
      /\ \A i \in Jobs, o \in Tasks : i # j \/ o # t => plan'[i][o] = plan[i][o]
  BY <1>0, <1>1, EntryPut DEF Inv, ExecTypeOK
<1>6. ExecTypeOK'
  BY <1>0, <1>3, <1>4, <1>5 DEF Inv, ExecTypeOK
<1>7. OnlyEntry(t, j) /\ Grows
  BY <1>0, <1>3, <1>4, <1>5 DEF OnlyEntry, Grows, storeVars
<1>8. Job(t)' = j
  BY <1>3 DEF Job
<1>9. TaskSound(t)'
  <2>1. WorkSound(t)'
    BY <1>0, <1>2, <1>3, <1>5, <1>8 DEF WorkSound, On
  <2> QED
    BY <1>3, <2>1 DEF TaskSound, Working, On
<1>10. ~AllTried(j, t) /\ ~Answered(j, t)
  BY <1>2 DEF AllTried, Answered
<1>11. JobSound(j)'
  BY <1>0, <1>1, <1>4, <1>7, <1>10, JobMoves
<1> QED
  BY <1>6, <1>7, <1>9, <1>11, TaskFrame DEF Inv

\* The handler breaks, or all providers have failed and their attempts are written.
LEMMA StepFails ==
    ASSUME Inv, NEW t \in Tasks, NEW j \in Jobs, Job(t) = j, HandlerBreaks(t) \/ FailAfterAll(t)
    PROVE  ExecTypeOK' /\ ExecSound'
<1> DEFINE code == IF On(t, "calling") THEN "INTERNAL" ELSE "PROVIDER_ERROR"
<1>0. /\ exec[t].step \in {"calling", "noting"} /\ ~On(t, "idle") /\ Step(t, "notifying")
      /\ SetFailed(j, code)
      /\ code \in {"INTERNAL", "PROVIDER_ERROR"}
      /\ code = "PROVIDER_ERROR" => On(t, "noting") /\ exec[t].rest = <<>>
      /\ UNCHANGED <<input, tried, plan, storeVars>>
  BY DEF HandlerBreaks, FailAfterAll, On
<1> HIDE DEF code
<1>1. /\ t \in Actors /\ TaskSound(t) /\ JobSound(j) /\ exec[t].adapters \in Seq(Providers)
      /\ tried[j][t] \in Seq(Attempts)
  BY <1>0, AtWork
<1>2. WorkSound(t)
  BY <1>0, <1>1 DEF TaskSound, Working
<1>3. /\ exec' \in [Tasks \cup Janitors -> {Resting} \cup Runs]
      /\ exec'[t].step = "notifying" /\ exec'[t].job = exec[t].job
      /\ \A b \in Actors \ {t} : exec'[b] = exec[b]
  BY <1>0, <1>1, RunGoes DEF Inv, Steps
<1>4. /\ status' \in [Jobs -> {"none", "pending", "running", "succeeded", "failed"}]
      /\ error' \in [Jobs -> {"none", "INTERNAL", "INVALID_INPUT", "PROVIDER_ERROR",
                              "TIMEOUT"}]
      /\ status'[j] = "failed" /\ error'[j] = code
      /\ \A i \in Jobs \ {j} : status'[i] = status[i] /\ error'[i] = error[i]
  BY <1>0, RowFails DEF Inv
<1>5. ExecTypeOK'
  BY <1>0, <1>3, <1>4 DEF Inv, ExecTypeOK
<1>6. OnlyEntry(t, j) /\ Grows
  BY <1>0, <1>3, <1>4 DEF OnlyEntry, Grows, storeVars
<1>7. TaskSound(t)'
  BY <1>3 DEF TaskSound, Working, On
<1>8. code = "PROVIDER_ERROR" => AllTried(j, t)
  BY <1>0, <1>1, <1>2, NotedAll DEF WorkSound, AllTried
<1>9. (AllTried(j, t) => AllTried(j, t)') /\ (Answered(j, t) => Answered(j, t)')
  BY <1>0 DEF AllTried, Answered, Failures, Success
<1>10. JobSound(j)'
  BY <1>1, <1>4, <1>6, <1>8, <1>9, JobMoves
<1> QED
  BY <1>5, <1>6, <1>7, <1>10, TaskFrame DEF Inv

\* One more failure is written.
LEMMA StepNote ==
    ASSUME Inv, NEW t \in Tasks, NEW j \in Jobs, Job(t) = j, NoteFailure(t)
    PROVE  ExecTypeOK' /\ ExecSound'
<1> DEFINE rest == Tail(exec[t].rest)
           more == Append(tried[j][t], [provider |-> Head(exec[t].rest), ok |-> FALSE])
           r == [exec[t] EXCEPT !.rest = rest]
<1>0. /\ On(t, "noting") /\ ~On(t, "idle") /\ exec[t].rest # <<>>
      /\ tried' = [tried EXCEPT ![j][t] = more]
      /\ UNCHANGED <<input, status, error, plan, storeVars>>
  BY DEF NoteFailure, On
<1>1. /\ t \in Actors /\ TaskSound(t) /\ JobSound(j) /\ exec[t] \in Runs
      /\ exec[t].adapters \in Seq(Providers) /\ exec[t].rest \in Seq(Providers)
      /\ tried[j][t] \in Seq(Attempts)
  BY <1>0, AtWork
<1>2. /\ Noted(tried[j][t], exec[t].rest, exec[t].adapters)
      /\ plan[j][t] = exec[t].adapters /\ plan[j][t] # <<>>
  BY <1>0, <1>1 DEF TaskSound, WorkSound, Working, On
<1>3. ~AllTried(j, t) /\ ~Answered(j, t)
  BY <1>0, <1>1, <1>2, NotedNotAll DEF AllTried, Answered
<1>4. more \in Seq(Attempts) /\ rest \in Seq(Providers) /\ Noted(more, rest, exec[t].adapters)
  BY <1>0, <1>1, <1>2, NotedMore
<1>5. exec' = [exec EXCEPT ![t] = r]
  BY <1>1 DEF NoteFailure, Inv, ExecTypeOK, Actors
<1> HIDE DEF rest, more
<1>6. r \in Runs /\ r.step = "noting" /\ r.job = j /\ r.adapters = exec[t].adapters
      /\ r.rest = rest
  BY <1>0, <1>1, <1>4 DEF Runs, On, Job
<1> HIDE DEF r
<1>7. /\ exec' \in [Tasks \cup Janitors -> {Resting} \cup Runs] /\ exec'[t] = r
      /\ \A b \in Actors \ {t} : exec'[b] = exec[b]
  BY <1>1, <1>5, <1>6, RunSet DEF Inv
<1>8. /\ tried' \in [Jobs -> [Tasks -> Seq(Attempts)]] /\ tried'[j][t] = more
      /\ \A i \in Jobs, o \in Tasks : i # j \/ o # t => tried'[i][o] = tried[i][o]
  BY <1>0, <1>4, EntryPut DEF Inv, ExecTypeOK
<1>9. ExecTypeOK'
  BY <1>0, <1>7, <1>8 DEF Inv, ExecTypeOK
<1>10. OnlyEntry(t, j) /\ Grows
  BY <1>0, <1>7, <1>8 DEF OnlyEntry, Grows, storeVars
<1>11. Job(t)' = j /\ exec'[t].step = "noting"
  BY <1>6, <1>7 DEF Job
<1>12. TaskSound(t)'
  <2>1. WorkSound(t)'
    BY <1>0, <1>2, <1>4, <1>6, <1>7, <1>8, <1>11 DEF WorkSound, On
  <2> QED
    BY <1>11, <2>1 DEF TaskSound, Working, On
<1>13. status[j] \notin {"none", "pending"}
  BY <1>1, <1>2 DEF JobSound
<1>14. JobSound(j)'
  BY <1>0, <1>1, <1>3, <1>10, <1>13, JobMoves
<1> QED
  BY <1>9, <1>10, <1>12, <1>14, TaskFrame DEF Inv

\* The output is put, and its row is made.
LEMMA StepStore ==
    ASSUME Inv, StoreTypeOK, NEW t \in Tasks, NEW j \in Jobs, Job(t) = j,
           StoreOutput(t) \/ FileOutput(t)
    PROVE  ExecTypeOK' /\ ExecSound' /\ StoreSound' /\ StoreTypeOK'
<1> DEFINE to == IF On(t, "storing") THEN "filing" ELSE "attempting"
           k == OutputKey(Home[j], j)
           row == RowOf(Home[j], k, j)
<1>0. /\ ~On(t, "idle") /\ Step(t, to)
      /\ exec[t].step \in {"storing", "filing"}
      /\ UNCHANGED <<input, status, error, tried, plan, upload, sender>>
      /\ to \in {"filing", "attempting"}
  BY DEF StoreOutput, FileOutput, On
<1>1. t \in Actors /\ TaskSound(t)
  BY <1>0, AtWork
<1>2. WorkSound(t)
  BY <1>0, <1>1 DEF TaskSound, Working
<1>3. /\ StoreSound' /\ Stored(k)' /\ Grows
      /\ to = "attempting" => row \in file'
  <2>1. CASE StoreOutput(t)
    <3>1. PutObject(k, j) /\ UNCHANGED <<file, sender, upload>> /\ to = "filing"
      BY <2>1 DEF StoreOutput, On
    <3>2. StoreSound' /\ Stored(k)' /\ DOMAIN object \subseteq DOMAIN object'
      BY <3>1, ObjectPut DEF Inv
    <3> QED
      BY <1>0, <3>1, <3>2 DEF Grows
  <2>2. CASE FileOutput(t)
    <3>1. UNCHANGED <<object, sender, upload>> /\ file' = file \cup {row}
      BY <2>2 DEF FileOutput
    <3>2. Stored(k) /\ row.key = k
      BY <1>2, <2>2 DEF FileOutput, WorkSound, RowOf
    <3>3. OutputRow(row)
      BY DEF OutputRow
    <3> HIDE DEF row, k
    <3>4. StoreSound'
      BY <3>1, <3>2, <3>3, RowMade DEF Inv
    <3>5. Stored(k)' /\ row \in file'
      BY <3>1, <3>2 DEF Stored
    <3> QED
      BY <1>0, <3>1, <3>4, <3>5 DEF Grows
  <2> QED
    BY <2>1, <2>2
<1>4. StoreTypeOK'
  BY <1>0 DEF StoreTypeOK
<1> HIDE DEF to, k, row
<1>5. to \in Steps
  BY <1>0 DEF Steps
<1>6. /\ exec' \in [Tasks \cup Janitors -> {Resting} \cup Runs]
      /\ exec'[t].step = to /\ exec'[t].job = exec[t].job
      /\ exec'[t].adapters = exec[t].adapters
      /\ \A b \in Actors \ {t} : exec'[b] = exec[b]
  BY <1>0, <1>1, <1>5, RunGoes DEF Inv
<1>7. Job(t)' = j
  BY <1>6 DEF Job
<1>8. TaskSound(t)'
  <2>1. plan[j][t] = exec[t].adapters /\ plan[j][t] # <<>> /\ tried[j][t] = <<>>
    BY <1>0, <1>2 DEF WorkSound
  <2>2. WorkSound(t)'
    BY <1>0, <1>3, <1>6, <1>7, <2>1 DEF WorkSound, On, k, row
  <2> QED
    BY <1>0, <1>6, <2>2 DEF TaskSound, Working, On
<1> QED
  BY <1>0, <1>3, <1>4, <1>6, <1>8, OnlyTask

\* The row of the provider that has answered.
LEMMA StepAnswer ==
    ASSUME Inv, NEW t \in Tasks, NEW j \in Jobs, Job(t) = j, NoteSuccess(t)
    PROVE  ExecTypeOK' /\ ExecSound'
<1> DEFINE row == [provider |-> exec[t].adapters[1], ok |-> TRUE]
<1>0. /\ On(t, "attempting") /\ ~On(t, "idle") /\ Step(t, "closing")
      /\ tried' = [tried EXCEPT ![j][t] = Append(tried[j][t], row)]
      /\ UNCHANGED <<input, status, error, plan, storeVars>>
  BY DEF NoteSuccess, On
<1>1. /\ t \in Actors /\ TaskSound(t) /\ JobSound(j) /\ exec[t].adapters \in Seq(Providers)
      /\ tried[j][t] \in Seq(Attempts)
  BY <1>0, AtWork
<1>2. /\ tried[j][t] = <<>> /\ plan[j][t] = exec[t].adapters /\ plan[j][t] # <<>>
      /\ HasOutput(j)
  BY <1>0, <1>1 DEF TaskSound, WorkSound, Working, On, HasOutput
<1>3. row \in Attempts
  <2>1. exec[t].adapters[1] \in Providers
    BY <1>1, <1>2
  <2> QED
    BY <2>1 DEF Attempts
<1>4. Append(tried[j][t], row) = Success(exec[t].adapters)
  BY <1>2 DEF Success
<1> HIDE DEF row
<1>5. Append(tried[j][t], row) \in Seq(Attempts)
  BY <1>1, <1>3
<1>6. /\ tried' \in [Jobs -> [Tasks -> Seq(Attempts)]]
      /\ tried'[j][t] = Success(exec[t].adapters)
      /\ \A i \in Jobs, o \in Tasks : i # j \/ o # t => tried'[i][o] = tried[i][o]
  BY <1>0, <1>4, <1>5, EntryPut DEF Inv, ExecTypeOK
<1>7. ~AllTried(j, t) /\ ~Answered(j, t) /\ Answered(j, t)'
  BY <1>0, <1>1, <1>2, <1>6, NoneNotAll DEF AllTried, Answered, Success
<1>8. /\ exec' \in [Tasks \cup Janitors -> {Resting} \cup Runs]
      /\ exec'[t].step = "closing" /\ exec'[t].job = exec[t].job
      /\ exec'[t].adapters = exec[t].adapters
      /\ \A b \in Actors \ {t} : exec'[b] = exec[b]
  BY <1>0, <1>1, RunGoes DEF Inv, Steps
<1>9. ExecTypeOK'
  BY <1>0, <1>6, <1>8 DEF Inv, ExecTypeOK
<1>10. OnlyEntry(t, j) /\ Grows
  BY <1>0, <1>6, <1>8 DEF OnlyEntry, Grows, storeVars
<1>11. Job(t)' = j /\ HasOutput(j)'
  BY <1>0, <1>2, <1>8 DEF Job, HasOutput, Stored, storeVars
<1>12. TaskSound(t)'
  <2>1. WorkSound(t)'
    BY <1>0, <1>2, <1>7, <1>8, <1>11 DEF WorkSound, On
  <2> QED
    BY <1>8, <2>1 DEF TaskSound, Working, On
<1>13. status[j] \notin {"none", "pending"}
  BY <1>1, <1>2 DEF JobSound
<1>14. JobSound(j)'
  BY <1>0, <1>1, <1>7, <1>10, <1>13, JobMoves
<1> QED
  BY <1>9, <1>10, <1>12, <1>14, TaskFrame DEF Inv

\* The job has succeeded.
LEMMA StepComplete ==
    ASSUME Inv, NEW t \in Tasks, NEW j \in Jobs, Job(t) = j, Complete(t)
    PROVE  ExecTypeOK' /\ ExecSound'
<1>0. /\ On(t, "closing") /\ ~On(t, "idle") /\ Step(t, "notifying")
      /\ status' = [status EXCEPT ![j] = "succeeded"]
      /\ UNCHANGED <<input, error, tried, plan, storeVars>>
  BY DEF Complete, On
<1>1. t \in Actors /\ TaskSound(t) /\ JobSound(j)
  BY <1>0, AtWork
<1>2. HasOutput(j) /\ Answered(j, t)
  BY <1>0, <1>1 DEF TaskSound, WorkSound, Working, On
<1>3. /\ exec' \in [Tasks \cup Janitors -> {Resting} \cup Runs]
      /\ exec'[t].step = "notifying"
      /\ \A b \in Actors \ {t} : exec'[b] = exec[b]
  BY <1>0, <1>1, RunGoes DEF Inv, Steps
<1>4. /\ status' \in [Jobs -> {"none", "pending", "running", "succeeded", "failed"}]
      /\ status'[j] = "succeeded" /\ \A i \in Jobs \ {j} : status'[i] = status[i]
  BY <1>0 DEF Inv, ExecTypeOK
<1>5. ExecTypeOK'
  BY <1>0, <1>3, <1>4 DEF Inv, ExecTypeOK
<1>6. OnlyEntry(t, j) /\ Grows
  BY <1>0, <1>3, <1>4 DEF OnlyEntry, Grows, storeVars
<1>7. TaskSound(t)'
  BY <1>3 DEF TaskSound, Working, On
<1>8. (AllTried(j, t) => AllTried(j, t)') /\ (Answered(j, t) => Answered(j, t)')
  BY <1>0 DEF AllTried, Answered, Failures, Success
<1>9. HasOutput(j)' /\ Answered(j, t)'
  BY <1>2, <1>6, <1>8, OutputStays
<1>10. JobSound(j)'
  BY <1>0, <1>1, <1>4, <1>6, <1>8, <1>9, JobMoves
<1> QED
  BY <1>5, <1>6, <1>7, <1>10, TaskFrame DEF Inv

\* Every step of a task inside process_job.
LEMMA StepProcess ==
    ASSUME Inv, StoreTypeOK, NEW t \in Tasks, Process(t)
    PROVE  ExecTypeOK' /\ ExecSound' /\ StoreSound' /\ StoreTypeOK'
<1>1. ~On(t, "idle")
  BY DEF Process, BuildAdapter, NoAdapters, StartRunning, FetchInput, RejectFile,
         ProviderSucceeds, ProviderFails, HandlerBreaks, AllFailed, NoteFailure,
         FailAfterAll, StoreOutput, FileOutput, NoteSuccess, Complete, On
<1>2. PICK j \in Jobs : Job(t) = j
  BY <1>1, RunShape DEF Inv, Actors
<1>3. CASE StoreOutput(t) \/ FileOutput(t)
  BY <1>2, <1>3, StepStore
<1>4. CASE ~(StoreOutput(t) \/ FileOutput(t))
  <2>1. UNCHANGED storeVars
    BY <1>4 DEF Process, BuildAdapter, NoAdapters, StartRunning, FetchInput, RejectFile,
           ProviderSucceeds, ProviderFails, HandlerBreaks, AllFailed, NoteFailure,
           FailAfterAll, NoteSuccess, Complete
  <2>2. StoreSound' /\ StoreTypeOK'
    BY <2>1 DEF Inv, StoreSound, StoreTypeOK, storeVars, Placed, Stored, UploadRow,
                OutputRow, UploadKey
  <2>3. ExecTypeOK' /\ ExecSound'
    BY <1>2, <1>4, StepBuild, StepEarly, StepRunning, StepOn, StepNext, StepAllFailed,
       StepFails, StepNote, StepAnswer, StepComplete DEF Process
  <2> QED
    BY <2>2, <2>3
<1> QED
  BY <1>3, <1>4

-----------------------------------------------------------------------------
(* The steps of tasks and janitors around it *)

\* A step that leaves tasks, janitors and jobs alone.
LEMMA ExecKept ==
    ASSUME Inv, UNCHANGED execVars, Grows
    PROVE  ExecTypeOK' /\ ExecSound'
<1>1. UNCHANGED <<input, status, error, tried, exec, plan>>
  BY DEF execVars
<1>2. ASSUME NEW t \in Tasks
      PROVE  TaskSound(t)'
  BY <1>1, TaskKept DEF Inv, ExecSound
<1>3. ASSUME NEW j \in Jobs
      PROVE  JobSound(j)'
  BY <1>1, JobKept DEF Inv, ExecSound
<1>4. ExecTypeOK'
  BY <1>1 DEF Inv, ExecTypeOK
<1> QED
  BY <1>2, <1>3, <1>4 DEF ExecSound

\* A task or a janitor ends, by itself or by a fault.
LEMMA ActorRests ==
    ASSUME Inv, NEW a \in Actors, Free(a),
           UNCHANGED <<input, status, error, tried, plan, storeVars>>
    PROVE  ExecTypeOK' /\ ExecSound'
<1>1. /\ exec' \in [Tasks \cup Janitors -> {Resting} \cup Runs] /\ exec'[a].step = "idle"
      /\ \A b \in Actors \ {a} : exec'[b] = exec[b]
  BY RunFreed DEF Inv
<1>2. Grows
  BY DEF Grows, storeVars
<1>3. TaskSound(a)'
  BY <1>1 DEF TaskSound, On, Working
<1>4. ASSUME NEW t \in Tasks
      PROVE  TaskSound(t)'
  <2>1. CASE t # a
    BY <1>1, <1>2, <2>1, TaskKept DEF Inv, ExecSound, Actors
  <2> QED
    BY <1>3, <2>1
<1>5. ASSUME NEW j \in Jobs
      PROVE  JobSound(j)'
  BY <1>2, JobKept DEF Inv, ExecSound
<1>6. ExecTypeOK'
  BY <1>1 DEF Inv, ExecTypeOK
<1> QED
  BY <1>4, <1>5, <1>6 DEF ExecSound

\* The chain that is read has providers in it.
LEMMA ChainsTyped ==
    ASSUME CatalogTypeOK, NEW chain \in Chains
    PROVE  chain \in Seq(Providers)
<1>1. PICK n \in 0..Cardinality(DOMAIN link) : chain \in [1..n -> DOMAIN link]
  BY DEF Chains
<1>2. n \in Nat
  BY <1>1
<1> QED
  BY <1>1, <1>2 DEF CatalogTypeOK

\* A task takes a job.
LEMMA StepTake ==
    ASSUME Inv, CatalogTypeOK, NEW t \in Tasks, NEW j \in Jobs, Take(t, j)
    PROVE  ExecTypeOK' /\ ExecSound'
<1>0. /\ status[j] = "pending" /\ t \in Actors
      /\ UNCHANGED <<input, status, error, tried, plan, storeVars>>
  BY DEF Take, Actors
<1>1. PICK chain \in Chains :
        exec' = [exec EXCEPT ![t] = [step |-> "reading", job |-> j, rest |-> chain,
                                     adapters |-> <<>>, count |-> 0]]
  BY DEF Take
<1> DEFINE r == [step |-> "reading", job |-> j, rest |-> chain, adapters |-> <<>>, count |-> 0]
<1>2. r \in Runs /\ r.step = "reading" /\ r.job = j
  <2>1. chain \in Seq(Providers) /\ <<>> \in Seq(Providers)
    BY ChainsTyped
  <2> QED
    BY <2>1 DEF Runs, Steps
<1>3. exec' = [exec EXCEPT ![t] = r]
  BY <1>1
<1> HIDE DEF r
<1>4. /\ exec' \in [Tasks \cup Janitors -> {Resting} \cup Runs] /\ exec'[t] = r
      /\ \A b \in Actors \ {t} : exec'[b] = exec[b]
  BY <1>0, <1>2, <1>3, RunSet DEF Inv
<1>5. plan[j][t] = <<>> /\ tried[j][t] = <<>>
  BY <1>0 DEF Inv, ExecSound, JobSound
<1>6. TaskSound(t)'
  BY <1>0, <1>2, <1>4, <1>5 DEF Job, On, TaskSound, Working
<1>7. Grows
  BY <1>0 DEF Grows, storeVars
<1> QED
  BY <1>0, <1>4, <1>6, <1>7, OnlyTask

\* A step of a janitor, which may fail a job.
LEMMA JanitorFrame ==
    ASSUME Inv, NEW w \in Janitors, NEW j \in Jobs, UNCHANGED <<input, tried, plan, storeVars>>,
           exec' \in [Tasks \cup Janitors -> {Resting} \cup Runs],
           \A b \in Actors \ {w} : exec'[b] = exec[b],
           UNCHANGED <<status, error>> \/ SetFailed(j, "TIMEOUT")
    PROVE  ExecTypeOK' /\ ExecSound'
<1>1. /\ status' \in [Jobs -> {"none", "pending", "running", "succeeded", "failed"}]
      /\ error' \in [Jobs -> {"none", "INTERNAL", "INVALID_INPUT", "PROVIDER_ERROR",
                              "TIMEOUT"}]
      /\ \A i \in Jobs : \/ status'[i] = status[i] /\ error'[i] = error[i]
                         \/ status'[i] = "failed" /\ error'[i] = "TIMEOUT"
  <2>1. CASE UNCHANGED <<status, error>>
    BY <2>1 DEF Inv, ExecTypeOK
  <2>2. CASE SetFailed(j, "TIMEOUT")
    BY <2>2, RowFails DEF Inv
  <2> QED
    BY <2>1, <2>2
<1>2. Grows
  BY DEF Grows, storeVars
<1>3. ASSUME NEW t \in Tasks
      PROVE  TaskSound(t)'
  <2>1. t # w /\ t \in Actors
    BY ActorsAssumption DEF Actors
  <2> QED
    BY <1>2, <2>1, TaskKept DEF Inv, ExecSound
<1>4. ASSUME NEW i \in Jobs
      PROVE  JobSound(i)'
  BY <1>1, <1>2, JobKept DEF Inv, ExecSound
<1>5. ExecTypeOK'
  BY <1>1 DEF Inv, ExecTypeOK
<1> QED
  BY <1>3, <1>4, <1>5 DEF ExecSound

\* A janitor finds a job.
LEMMA StepFind ==
    ASSUME Inv, NEW w \in Janitors, NEW j \in Jobs, Find(w, j)
    PROVE  ExecTypeOK' /\ ExecSound'
<1> DEFINE r == [step |-> "reaping", job |-> j, rest |-> <<>>, adapters |-> <<>>, count |-> 0]
<1>0. /\ w \in Actors /\ exec' = [exec EXCEPT ![w] = r]
      /\ UNCHANGED <<input, status, error, tried, plan, storeVars>>
  BY DEF Find, Actors
<1>1. r \in Runs
  <2>1. <<>> \in Seq(Providers)
    OBVIOUS
  <2> QED
    BY <2>1 DEF Runs, Steps
<1> HIDE DEF r
<1>2. /\ exec' \in [Tasks \cup Janitors -> {Resting} \cup Runs]
      /\ \A b \in Actors \ {w} : exec'[b] = exec[b]
  BY <1>0, <1>1, RunSet DEF Inv
<1> QED
  BY <1>0, <1>2, JanitorFrame

\* A janitor fails the job it has found.
LEMMA StepReap ==
    ASSUME Inv, NEW w \in Janitors, Reap(w)
    PROVE  ExecTypeOK' /\ ExecSound'
<1>0. /\ ~On(w, "idle") /\ w \in Actors /\ Step(w, "notifying")
      /\ SetFailed(Job(w), "TIMEOUT")
      /\ UNCHANGED <<input, tried, plan, storeVars>>
  BY DEF Reap, On, Actors
<1>1. Job(w) \in Jobs
  BY <1>0, RunShape DEF Inv
<1>2. /\ exec' \in [Tasks \cup Janitors -> {Resting} \cup Runs]
      /\ \A b \in Actors \ {w} : exec'[b] = exec[b]
  BY <1>0, RunGoes DEF Inv, Steps
<1> QED
  BY <1>0, <1>1, <1>2, JanitorFrame

\* A job is created.
LEMMA StepCreate ==
    ASSUME Inv, NEW j \in Jobs, CreateJob(j)
    PROVE  ExecTypeOK' /\ ExecSound'
<1>0. /\ status[j] = "none" /\ status' = [status EXCEPT ![j] = "pending"]
      /\ UNCHANGED <<error, tried, exec, plan, storeVars>>
  BY DEF CreateJob
<1>1. /\ status' \in [Jobs -> {"none", "pending", "running", "succeeded", "failed"}]
      /\ status'[j] = "pending" /\ \A i \in Jobs \ {j} : status'[i] = status[i]
  BY <1>0 DEF Inv, ExecTypeOK
<1>2. input' \in [Jobs -> Uploads \cup {NoFile}]
  BY DEF CreateJob, Inv, ExecTypeOK
<1>3. ExecTypeOK'
  BY <1>0, <1>1, <1>2 DEF Inv, ExecTypeOK
<1>4. Grows
  BY <1>0 DEF Grows, storeVars
<1>5. ASSUME NEW t \in Tasks
      PROVE  TaskSound(t)'
  BY <1>0, <1>4, TaskKept DEF Inv, ExecSound
<1>6. ASSUME NEW i \in Jobs
      PROVE  JobSound(i)'
  BY <1>0, <1>1, <1>4, JobKept DEF Inv, ExecSound
<1> QED
  BY <1>3, <1>5, <1>6 DEF ExecSound

-----------------------------------------------------------------------------
(* The invariant of the composition *)

OutcomeSound ==
    /\ Inv /\ StoreTypeOK
    /\ CatalogTypeOK /\ SeedSound
    /\ webhook \in BOOLEAN /\ announced \subseteq Jobs
    /\ left \in [Kinds -> Nat]

\* It holds at first.
LEMMA InitOutcome == Init => OutcomeSound
<1> SUFFICES ASSUME Init
             PROVE  OutcomeSound
  OBVIOUS
<1>1. StoreSound /\ StoreTypeOK /\ CatalogTypeOK /\ SeedSound
  BY InitStore, InitCatalog DEF Init
<1>2. /\ status = [j \in Jobs |-> "none"] /\ error = [j \in Jobs |-> "none"]
      /\ tried = [j \in Jobs |-> [t \in Tasks |-> <<>>]]
      /\ plan = [j \in Jobs |-> [t \in Tasks |-> <<>>]]
      /\ input = [j \in Jobs |-> NoFile]
      /\ exec = [a \in Tasks \cup Janitors |-> Resting]
  BY DEF Init, ExecInit
<1>3. <<>> \in Seq(Attempts) /\ <<>> \in Seq(Providers)
  OBVIOUS
<1>4. ExecTypeOK
  BY <1>2, <1>3 DEF ExecTypeOK
<1>5. \A a \in Actors : exec[a].step = "idle"
  BY <1>2 DEF Actors, Resting
<1>6. ExecSound
  BY <1>2, <1>5 DEF ExecSound, TaskSound, JobSound, On, Working, Actors
<1> QED
  BY <1>1, <1>4, <1>6, BudgetsAssumption, WebhooksAssumption DEF OutcomeSound, Inv, Init

\* A step that leaves the store alone.
LEMMA StoreKept ==
    ASSUME StoreSound, StoreTypeOK, UNCHANGED storeVars
    PROVE  StoreSound' /\ StoreTypeOK'
BY DEF StoreSound, StoreTypeOK, storeVars, Placed, Stored, UploadRow, OutputRow, UploadKey

\* A step that leaves providers and chain alone.
LEMMA CatalogKept ==
    ASSUME CatalogTypeOK, SeedSound, UNCHANGED catalogVars
    PROVE  CatalogTypeOK' /\ SeedSound'
BY NextCatalog

\* The budget keeps its type.
LEMMA Spent ==
    ASSUME left \in [Kinds -> Nat], NEW kind \in Kinds, Spend(kind)
    PROVE  left' \in [Kinds -> Nat]
<1>1. left[kind] - 1 \in Nat
  BY DEF Spend
<1> QED
  BY <1>1 DEF Spend

\* Every step keeps it.
LEMMA NextOutcome == OutcomeSound /\ [Next]_vars => OutcomeSound'
<1> SUFFICES ASSUME OutcomeSound, [Next]_vars
             PROVE  OutcomeSound'
  OBVIOUS
<1> USE DEF OutcomeSound
<1>0. Inv /\ StoreSound /\ StoreTypeOK /\ CatalogTypeOK /\ SeedSound
  BY DEF Inv
<1>1. CASE Request
  <2>1. UNCHANGED <<webhook, announced, left>>
    BY <1>1 DEF Request
  <2>2. CASE Uploading /\ UNCHANGED <<execVars, catalogVars>>
    <3>1. StoreSound' /\ StoreTypeOK' /\ Grows
      BY <1>0, <2>1, <2>2, NextUpload DEF Uploading, Grows
    <3>2. ExecTypeOK' /\ ExecSound'
      BY <1>0, <2>2, <3>1, ExecKept
    <3>3. CatalogTypeOK' /\ SeedSound'
      BY <1>0, <2>2, CatalogKept
    <3> QED
      BY <2>1, <3>1, <3>2, <3>3 DEF Inv
  <2>3. ASSUME NEW j \in Jobs, CreateJob(j)
        PROVE  OutcomeSound'
    <3>1. UNCHANGED storeVars /\ UNCHANGED catalogVars
      BY <2>3 DEF CreateJob
    <3>2. ExecTypeOK' /\ ExecSound'
      BY <1>0, <2>3, StepCreate
    <3> QED
      BY <1>0, <2>1, <3>1, <3>2, StoreKept, CatalogKept DEF Inv
  <2> QED
    BY <1>1, <2>2, <2>3 DEF Request
<1>2. CASE Work
  <2>1. UNCHANGED <<webhook, announced, left>>
    BY <1>2 DEF Work
  <2>2. ASSUME NEW t \in Tasks, Process(t)
        PROVE  OutcomeSound'
    <3>1. UNCHANGED catalogVars
      BY <2>2 DEF Process, BuildAdapter, NoAdapters, StartRunning, FetchInput, RejectFile,
           ProviderSucceeds, ProviderFails, HandlerBreaks, AllFailed, NoteFailure,
           FailAfterAll, StoreOutput, FileOutput, NoteSuccess, Complete
    <3>2. ExecTypeOK' /\ ExecSound' /\ StoreSound' /\ StoreTypeOK'
      BY <1>0, <2>2, StepProcess
    <3> QED
      BY <1>0, <2>1, <3>1, <3>2, CatalogKept DEF Inv
  <2>3. ASSUME NEW w \in Janitors, Reap(w)
        PROVE  OutcomeSound'
    <3>1. UNCHANGED storeVars /\ UNCHANGED catalogVars
      BY <2>3 DEF Reap
    <3>2. ExecTypeOK' /\ ExecSound'
      BY <1>0, <2>3, StepReap
    <3> QED
      BY <1>0, <2>1, <3>1, <3>2, StoreKept, CatalogKept DEF Inv
  <2>4. ASSUME NEW w \in Janitors, NEW j \in Jobs, Find(w, j)
        PROVE  OutcomeSound'
    <3>1. UNCHANGED storeVars /\ UNCHANGED catalogVars
      BY <2>4 DEF Find
    <3>2. ExecTypeOK' /\ ExecSound'
      BY <1>0, <2>4, StepFind
    <3> QED
      BY <1>0, <2>1, <3>1, <3>2, StoreKept, CatalogKept DEF Inv
  <2> QED
    BY <1>2, <2>2, <2>3, <2>4 DEF Work
<1>3. CASE Deliver
  <2>1. UNCHANGED <<webhook, announced>> /\ left' \in [Kinds -> Nat]
    BY <1>3, Spent DEF Deliver, Kinds
  <2>2. PICK t \in Tasks, j \in Jobs : Take(t, j)
    BY <1>3 DEF Deliver
  <2>3. UNCHANGED storeVars /\ UNCHANGED catalogVars
    BY <2>2 DEF Take
  <2>4. ExecTypeOK' /\ ExecSound'
    BY <1>0, <2>2, StepTake
  <2> QED
    BY <1>0, <2>1, <2>3, <2>4, StoreKept, CatalogKept DEF Inv
<1>4. CASE Edit
  <2>1. /\ UNCHANGED <<execVars, storeVars, announced>>
        /\ webhook' \in BOOLEAN /\ left' \in [Kinds -> Nat]
    <3>1. UNCHANGED <<execVars, storeVars, announced>> /\ left' \in [Kinds -> Nat]
      BY <1>4, Spent DEF Edit, Kinds
    <3>2. webhook' = webhook \/ webhook' = TRUE
      BY <1>4, Zenon DEF Edit
    <3>3. webhook' \in BOOLEAN
      BY <3>2, Zenon
    <3> QED
      BY <3>1, <3>3
  <2>2. CatalogTypeOK' /\ SeedSound'
    BY <1>0, <1>4, NextCatalog DEF Edit, CatalogNext
  <2>3. StoreSound' /\ StoreTypeOK' /\ Grows
    BY <1>0, <2>1, StoreKept DEF Grows, storeVars
  <2>4. ExecTypeOK' /\ ExecSound'
    BY <1>0, <2>1, <2>3, ExecKept
  <2> QED
    BY <2>1, <2>2, <2>3, <2>4 DEF Inv
<1>5. CASE StartSeed \/ RunSeed
  <2>1. UNCHANGED <<execVars, storeVars, webhook, announced>> /\ left' \in [Kinds -> Nat]
    BY <1>5, Spent DEF StartSeed, RunSeed, Kinds
  <2>2. CatalogTypeOK' /\ SeedSound'
    BY <1>0, <1>5, NextCatalog DEF StartSeed, RunSeed, CatalogNext
  <2>3. StoreSound' /\ StoreTypeOK' /\ Grows
    BY <1>0, <2>1, StoreKept DEF Grows, storeVars
  <2>4. ExecTypeOK' /\ ExecSound'
    BY <1>0, <2>1, <2>3, ExecKept
  <2> QED
    BY <2>1, <2>2, <2>3, <2>4 DEF Inv
<1>6. CASE Fault
  <2>1. UNCHANGED <<webhook, announced>> /\ left' \in [Kinds -> Nat]
    BY <1>6, Spent DEF Fault, Kinds
  <2>2. ASSUME NEW a \in Tasks \cup Janitors, Perish(a)
        PROVE  OutcomeSound'
    <3>1. /\ Free(a) /\ a \in Actors
          /\ UNCHANGED <<input, catalogVars, status, error, tried, plan, storeVars>>
      BY <2>2 DEF Perish, Actors
    <3>2. ExecTypeOK' /\ ExecSound'
      BY <1>0, <3>1, ActorRests
    <3> QED
      BY <1>0, <2>1, <3>1, <3>2, StoreKept, CatalogKept DEF Inv
  <2>3. CASE LoseSeed /\ UNCHANGED <<execVars, storeVars>>
    <3>1. CatalogTypeOK' /\ SeedSound'
      BY <1>0, <2>3, NextCatalog DEF CatalogNext
    <3>2. StoreSound' /\ StoreTypeOK' /\ Grows
      BY <1>0, <2>3, StoreKept DEF Grows, storeVars
    <3>3. ExecTypeOK' /\ ExecSound'
      BY <1>0, <2>3, <3>2, ExecKept
    <3> QED
      BY <2>1, <3>1, <3>2, <3>3 DEF Inv
  <2>4. ASSUME NEW u \in Uploads, LoseUpload(u), UNCHANGED <<execVars, catalogVars>>
        PROVE  OutcomeSound'
    <3>1. StoreSound' /\ StoreTypeOK' /\ Grows
      BY <1>0, <2>4, NextUpload DEF Grows
    <3>2. ExecTypeOK' /\ ExecSound'
      BY <1>0, <2>4, <3>1, ExecKept
    <3> QED
      BY <1>0, <2>1, <2>4, <3>1, <3>2, CatalogKept DEF Inv
  <2> QED
    BY <1>6, <2>2, <2>3, <2>4 DEF Fault
<1>7. ASSUME NEW a \in Tasks \cup Janitors, Report(a)
      PROVE  OutcomeSound'
  <2>1. /\ Free(a) /\ ~On(a, "idle") /\ a \in Actors
        /\ announced' = IF webhook THEN announced \cup {Job(a)} ELSE announced
        /\ UNCHANGED <<input, catalogVars, status, error, tried, plan, storeVars, webhook, left>>
    BY <1>7 DEF Report, On, Actors
  <2>2. Job(a) \in Jobs
    BY <1>0, <2>1, RunShape DEF Inv
  <2>3. announced' \subseteq Jobs
    BY <2>1, <2>2
  <2>4. ExecTypeOK' /\ ExecSound'
    BY <1>0, <2>1, ActorRests
  <2> QED
    BY <1>0, <2>1, <2>3, <2>4, StoreKept, CatalogKept DEF Inv
<1>8. CASE UNCHANGED vars
  <2>1. UNCHANGED <<execVars, storeVars, catalogVars, webhook, announced, left>>
    BY <1>8 DEF vars
  <2>2. StoreSound' /\ StoreTypeOK' /\ Grows
    BY <1>0, <2>1, StoreKept DEF Grows, storeVars
  <2>3. ExecTypeOK' /\ ExecSound'
    BY <1>0, <2>1, <2>2, ExecKept
  <2> QED
    BY <1>0, <2>1, <2>2, <2>3, CatalogKept DEF Inv
<1> QED
  BY <1>1, <1>2, <1>3, <1>4, <1>5, <1>6, <1>7, <1>8 DEF Next

-----------------------------------------------------------------------------

\* What is proved of every reachable state: files and objects, tasks and what they
\* wrote, jobs, providers and the seed script.
THEOREM OutcomeInvariant == Spec => []OutcomeSound
<1>1. Init => OutcomeSound
  BY InitOutcome
<1>2. OutcomeSound /\ [Next]_vars => OutcomeSound'
  BY NextOutcome
<1> QED
  BY <1>1, <1>2, PTL DEF Spec

\* Every variable has its type, rows of files included.
THEOREM TypeCorrect == Spec => []TypeOK
<1>1. OutcomeSound => TypeOK
  BY RowsTyped DEF OutcomeSound, Inv, StoreTypeOK, TypeOK
<1> QED
  BY <1>1, OutcomeInvariant, PTL

\* A row of files never leads to nothing, nor to another integration's content
\* (upload_file, process_job).
THEOREM RowsLeadToObjects == Spec => []RowsHaveObjects
<1>1. OutcomeSound => RowsHaveObjects
  BY RowsLead DEF OutcomeSound, Inv
<1> QED
  BY <1>1, OutcomeInvariant, PTL

\* PROVIDER_ERROR comes with a task that wrote one failure for each adapter it started
\* the job with, in order (process_job).
THEOREM AttemptsAreComplete == Spec => []FailuresAreComplete
<1>1. OutcomeSound => FailuresAreComplete
  BY DEF OutcomeSound, Inv, ExecSound, JobSound, AllTried, FailuresAreComplete
<1> QED
  BY <1>1, OutcomeInvariant, PTL

\* A job that says succeeded has the row, the object and a task that wrote one success
\* and nothing else (process_job).
THEOREM SuccessIsKept == Spec => []SuccessHasOutput
<1>1. OutcomeSound => SuccessHasOutput
  BY DEF OutcomeSound, Inv, ExecSound, JobSound, HasOutput, Answered, SuccessHasOutput
<1> QED
  BY <1>1, OutcomeInvariant, PTL

\* The seed script sets the job type right, whatever came before (run_seed).
THEOREM SeedSetsRight == Spec => []SeedConverges
<1>1. OutcomeSound => SeedConverges
  BY SeedSoundConverges DEF OutcomeSound
<1> QED
  BY <1>1, OutcomeInvariant, PTL
=============================================================================
