---------------------------- MODULE ExportsProofs ----------------------------
(***************************************************************************)
(* Upgrade and Exports for any number of containers, migrations,           *)
(* templates, jobs, workers, halts and repeated deliveries, and the sheets *)
(* of ExportSheet for all queries and records.                             *)
(***************************************************************************)
EXTENDS ExportsInv, ExportSheet, FiniteSetTheorems, TLAPS

(***************************************************************************)
(* The upgrade.  Each stage leaves behind what it is for, and no container *)
(* takes it away again, so a container only has to look at its own stage.  *)
(***************************************************************************)
LEMMA InitUp == Init => UpInv
<1> SUFFICES ASSUME Init PROVE UpInv
  OBVIOUS
<1> USE UpgradeAssumption
<1>1. UpTypeOK
  BY DEF Init, UpInit, UpTypeOK, UpStages
<1>2. ASSUME NEW c \in Containers PROVE StageOK(c)
  BY DEF Init, UpInit, StageOK
<1> QED BY <1>1, <1>2 DEF UpInv

\* Others only ever add to what a container has found.
LEMMA StageStays ==
  ASSUME NEW c \in Containers, StageOK(c), up'[c] = up[c],
         UpTypeOK, UpTypeOK',
         db'.applied >= db.applied, db.permissions => db'.permissions,
         db'.stale => db.stale, db'.admins >= db.admins
  PROVE  StageOK(c)'
  BY UpgradeAssumption DEF StageOK, UpTypeOK

LEMMA UpTypeStep ==
  ASSUME UpInv, NEW k \in Containers, UpStep(k) \/ UpHalt(k)
  PROVE  UpTypeOK'
<1> USE UpgradeAssumption DEF UpInv, UpTypeOK, UpStages
<1>1. CASE UpHalt(k)
  BY <1>1 DEF UpHalt
<1>2. CASE UpRestart(k)
  BY <1>2 DEF UpRestart
<1>3. CASE UpPlan(k)
  BY <1>3 DEF UpPlan
<1>4. CASE UpMigrate(k)
  BY <1>4 DEF UpMigrate
<1>5. CASE UpMigrated(k)
  BY <1>5 DEF UpMigrated, UpGo
<1>6. CASE UpPermissions(k)
  BY <1>6 DEF UpPermissions, UpGo
<1>7. CASE UpContenttypes(k)
  BY <1>7 DEF UpContenttypes, UpGo
<1>8. CASE UpAdmin(k)
  BY <1>8 DEF UpAdmin, UpGo
<1>9. CASE UpCreate(k)
  BY <1>9 DEF UpCreate, UpGo
<1> QED BY <1>1, <1>2, <1>3, <1>4, <1>5, <1>6, <1>7, <1>8, <1>9 DEF UpStep

LEMMA UpStepOK ==
  ASSUME UpInv, NEW k \in Containers, UpStep(k) \/ UpHalt(k)
  PROVE  UpInv'
<1>t. UpTypeOK /\ UpTypeOK'
  BY UpTypeStep DEF UpInv
<1>k. StageOK(k)
  BY DEF UpInv
<1>1. \A c \in Containers : c # k => up'[c] = up[c]
  BY <1>t DEF UpTypeOK, UpStep, UpHalt, UpRestart, UpPlan, UpMigrate, UpMigrated,
    UpPermissions, UpContenttypes, UpAdmin, UpCreate, UpGo
<1>2. /\ db'.applied >= db.applied /\ db'.admins >= db.admins
      /\ db.permissions => db'.permissions
      /\ db'.stale => db.stale
  BY <1>t, UpgradeAssumption DEF UpTypeOK, UpStep, UpHalt, UpRestart, UpPlan, UpMigrate,
    UpMigrated, UpPermissions, UpContenttypes, UpAdmin, UpCreate, UpGo
<1>3. StageOK(k)'
  <2> USE <1>t, <1>k, UpgradeAssumption DEF UpTypeOK, StageOK, UpStages
  <2>1. CASE UpHalt(k)
    BY <2>1 DEF UpHalt
  <2>2. CASE UpRestart(k)
    BY <2>2 DEF UpRestart
  <2>3. CASE UpPlan(k)
    BY <2>3 DEF UpPlan
  <2>4. CASE UpMigrate(k)
    BY <2>4 DEF UpMigrate
  <2>5. CASE UpMigrated(k)
    BY <2>5 DEF UpMigrated, UpGo
  <2>6. CASE UpPermissions(k)
    BY <2>6 DEF UpPermissions, UpGo
  <2>7. CASE UpContenttypes(k)
    BY <2>7 DEF UpContenttypes, UpGo
  <2>8. CASE UpAdmin(k)
    BY <2>8 DEF UpAdmin, UpGo
  <2>9. CASE UpCreate(k)
    BY <2>9 DEF UpCreate, UpGo
  <2> QED BY <2>1, <2>2, <2>3, <2>4, <2>5, <2>6, <2>7, <2>8, <2>9 DEF UpStep
<1>4. ASSUME NEW c \in Containers PROVE StageOK(c)'
  <2>1. CASE c = k
    BY <1>3, <2>1
  <2>2. CASE c # k
    <3>1. StageOK(c) /\ up'[c] = up[c]
      BY <1>1, <2>2 DEF UpInv
    <3> QED BY <1>t, <1>2, <3>1, StageStays
  <2> QED BY <2>1, <2>2
<1> QED BY <1>t, <1>4 DEF UpInv

\* The rest of the system leaves the upgrade alone.
LEMMA OthersUp ==
  ASSUME Next PROVE (UpNext /\ UNCHANGED exVars) \/ UNCHANGED upVars
  BY DEF Next, Admin, TemplateForm, TemplateDelete, PlanForm, Download, DownloadQueue,
    RemoveJob, ResultExpire, Deliver, WorkerStep, JobRead, JobRender, JobMail, JobStatus,
    Return, Kill, Redeliver, upVars

LEMMA NextUp == UpInv /\ [Next]_vars => UpInv'
<1> SUFFICES ASSUME UpInv, [Next]_vars PROVE UpInv'
  OBVIOUS
<1>1. CASE UNCHANGED upVars
  BY <1>1 DEF UpInv, UpTypeOK, StageOK, upVars
<1>2. CASE UpNext
  BY <1>2, UpStepOK DEF UpNext
<1> QED BY <1>1, <1>2, OthersUp DEF vars

LEMMA UpAlways == Spec => []UpInv
  BY InitUp, NextUp, PTL DEF Spec

\* However many containers race through however many migrations, halt and are started
\* again, none serves before the database is upgraded and the admin's user exists.
THEOREM UpgradedBeforeServing == Spec => []ServingIsUpgraded
<1>1. UpInv => ServingIsUpgraded
  BY DEF UpInv, StageOK, ServingIsUpgraded, Serving
<1> QED BY <1>1, UpAlways, PTL

-----------------------------------------------------------------------------
(***************************************************************************)
(* Types, and what a worker has while it is at work.                       *)
(***************************************************************************)
LEMMA InitExport == Init => ExportInv
<1> SUFFICES ASSUME Init PROVE ExportInv
  OBVIOUS
<1> USE ExportsAssumption
<1>1. UpTypeOK
  BY InitUp DEF UpInv
<1>2. TypeOK
  BY <1>1 DEF Init, TypeOK, Kept, Scopes, WorkerState, Idle, Outcomes, Unknown
<1>3. ASSUME NEW w \in Workers PROVE WorkerOK(w)
  BY DEF Init, WorkerOK, Idle
<1> QED BY <1>2, <1>3 DEF ExportInv

\* A worker's action writes its own state and nobody else's.
LEMMA SetWorkerFacts ==
  ASSUME NEW w \in Workers, NEW x \in WorkerState, worker \in [Workers -> WorkerState],
         SetWorker(w, x)
  PROVE  /\ worker' \in [Workers -> WorkerState]
         /\ worker'[w] = x
         /\ \A v \in Workers : v # w => worker'[v] = worker[v]
  BY DEF SetWorker

LEMMA SetJobFacts ==
  ASSUME NEW j \in Jobs, NEW R, NEW x \in R, job \in [Jobs -> R], SetJob(j, x)
  PROVE  /\ job' \in [Jobs -> R]
         /\ job'[j] = x
         /\ \A i \in Jobs : i # j => job'[i] = job[i]
  BY DEF SetJob

\* The actions of the admin leave workers, mails and repeats alone.
LEMMA AdminExport == ASSUME ExportInv, UpTypeOK', Admin PROVE ExportInv'
<1> USE ExportsAssumption
<1>1. UNCHANGED <<worker, mailed, repeats>> /\ UNCHANGED upVars
  BY DEF Admin, TemplateForm, TemplateDelete, PlanForm, Download, DownloadQueue,
    RemoveJob, ResultExpire
<1>2. (\A w \in Workers : WorkerOK(w))'
  BY <1>1 DEF ExportInv, WorkerOK
<1> USE DEF ExportInv, TypeOK, Kept, Scopes
<1>3. ASSUME NEW t \in Templates, TemplateForm(t) \/ TemplateDelete(t) PROVE TypeOK'
  <2>1. scope' \in [Templates -> Scopes] /\ UNCHANGED <<forced, job, ready>>
    BY <1>3 DEF TemplateForm, TemplateDelete
  <2>2. forced \in {u \in Templates : scope'[u] # "gone"} \cup {NoTemplate}
    BY <1>3 DEF TemplateForm, TemplateDelete
  <2> QED BY <1>1, <2>1, <2>2
<1>4. ASSUME PlanForm PROVE TypeOK'
  <2>1. UNCHANGED <<scope, job, ready>> /\ forced' \in Kept \cup {NoTemplate}
    BY <1>4 DEF PlanForm
  <2> QED BY <1>1, <2>1
<1>5. ASSUME NEW j \in Jobs, Download(j) \/ DownloadQueue(j) \/ RemoveJob(j) \/ ResultExpire(j)
      PROVE  TypeOK'
  <2>1. UNCHANGED <<scope, forced>>
    BY <1>5 DEF Download, DownloadQueue, RemoveJob, ResultExpire
  <2>2. ready' \in [Jobs -> Nat]
    BY <1>5 DEF Download, DownloadQueue, RemoveJob, ResultExpire
  <2>3. job' \in [Jobs -> [row : {"none", "new", "queued", "removed"},
                           local : Outcomes \cup {Unknown}, result : Outcomes \cup {Unknown}]]
    BY <1>5 DEF Download, DownloadQueue, RemoveJob, ResultExpire, SetJob
  <2> QED BY <1>1, <2>1, <2>2, <2>3
<1>6. TypeOK'
  BY <1>3, <1>4, <1>5 DEF Admin
<1> QED BY <1>2, <1>6

LEMMA DeliverExport ==
  ASSUME ExportInv, NEW w \in Workers, NEW j \in Jobs, Deliver(w, j), UpTypeOK'
  PROVE  ExportInv'
<1> USE DEF ExportInv, TypeOK
<1>1. [Idle EXCEPT !.pc = "read", !.job = j] \in WorkerState
  BY DEF Idle, WorkerState, Outcomes, Unknown
<1>2. /\ worker' \in [Workers -> WorkerState]
      /\ worker'[w] = [Idle EXCEPT !.pc = "read", !.job = j]
      /\ \A v \in Workers : v # w => worker'[v] = worker[v]
  BY <1>1, SetWorkerFacts DEF Deliver
<1>3. ready' \in [Jobs -> Nat]
  BY DEF Deliver
<1>4. TypeOK'
  BY <1>2, <1>3 DEF Deliver, Kept
<1>5. worker'[w].pc = "read" /\ worker'[w].job = j /\ Idle.pc = "idle"
  BY <1>2 DEF Idle
<1>6. WorkerOK(w)'
  BY <1>5 DEF WorkerOK
<1>7. \A v \in Workers : v # w => WorkerOK(v)'
  BY <1>2 DEF WorkerOK
<1> QED BY <1>4, <1>6, <1>7

\* A step of a worker, by what it leaves in its hands.
LEMMA WorkerStepHands ==
  ASSUME ExportInv, NEW w \in Workers, WorkerStep(w)
  PROVE  /\ worker[w].pc # "idle" /\ worker[w].job \in Jobs
         /\ worker' \in [Workers -> WorkerState]
         /\ \A v \in Workers : v # w => worker'[v] = worker[v]
         /\ \/ worker'[w] = Idle /\ Return(w)
            \/ /\ worker'[w].pc # "idle" /\ worker'[w].job = worker[w].job
               /\ worker'[w].again = worker[w].again
               /\ worker'[w].pc \in {"status", "return"} => worker'[w].outcome \in Outcomes
<1> DEFINE x == worker[w]
<1>1. worker \in [Workers -> WorkerState] /\ x \in WorkerState /\ WorkerOK(w)
  BY DEF ExportInv, TypeOK
<1>2. x.pc # "idle" /\ x.job \in Jobs
  BY <1>1 DEF WorkerStep, JobRead, JobRender, JobMail, JobStatus, Return, WorkerOK
<1>3. CASE Return(w)
  <2>1. Idle \in WorkerState /\ SetWorker(w, Idle)
    BY <1>3 DEF Idle, WorkerState, Outcomes, Unknown, Return
  <2> QED BY <1>1, <1>2, <1>3, <2>1, SetWorkerFacts
<1>4. CASE ~Return(w)
  <2>1. \E p \in {"render", "mail", "status", "return"}, o \in Outcomes \cup {Unknown} :
          /\ SetWorker(w, [x EXCEPT !.pc = p, !.outcome = o])
          /\ p \in {"status", "return"} => o \in Outcomes
    <3>1. CASE JobRead(w)
      <4>1. [x EXCEPT !.pc = "render"] = [x EXCEPT !.pc = "render", !.outcome = x.outcome]
            /\ x.outcome \in Outcomes \cup {Unknown}
        BY <1>1 DEF WorkerState
      <4> QED BY <3>1, <4>1 DEF JobRead, Failed, Outcomes
    <3>2. CASE JobRender(w)
      <4>1. [x EXCEPT !.pc = "mail"] = [x EXCEPT !.pc = "mail", !.outcome = x.outcome]
            /\ x.outcome \in Outcomes \cup {Unknown}
        BY <1>1 DEF WorkerState
      <4> QED BY <3>2, <4>1 DEF JobRender, Render, Failed, Outcomes
    <3>3. CASE JobMail(w)
      BY <3>3 DEF JobMail, Failed, Outcomes
    <3>4. CASE JobStatus(w)
      <4>1. [x EXCEPT !.pc = "return"] = [x EXCEPT !.pc = "return", !.outcome = x.outcome]
        BY <1>1 DEF WorkerState
      <4>2. x.pc = "status" /\ x.outcome \in Outcomes
        BY <1>1, <3>4 DEF JobStatus, WorkerOK
      <4> QED BY <3>4, <4>1, <4>2 DEF JobStatus, Failed, Outcomes
    <3> QED BY <1>4, <3>1, <3>2, <3>3, <3>4 DEF WorkerStep
  <2>2. PICK p \in {"render", "mail", "status", "return"}, o \in Outcomes \cup {Unknown} :
          /\ SetWorker(w, [x EXCEPT !.pc = p, !.outcome = o])
          /\ p \in {"status", "return"} => o \in Outcomes
    BY <2>1
  <2>3. [x EXCEPT !.pc = p, !.outcome = o] \in WorkerState
    BY <1>1 DEF WorkerState
  <2>4. /\ worker' \in [Workers -> WorkerState]
        /\ worker'[w] = [x EXCEPT !.pc = p, !.outcome = o]
        /\ \A v \in Workers : v # w => worker'[v] = worker[v]
    BY <1>1, <2>2, <2>3, SetWorkerFacts
  <2> QED BY <1>1, <1>2, <2>2, <2>4 DEF WorkerState
<1> QED BY <1>3, <1>4

LEMMA WorkerStepExport ==
  ASSUME ExportInv, NEW w \in Workers, WorkerStep(w), UpTypeOK'
  PROVE  ExportInv'
<1> USE DEF ExportInv, TypeOK
<1> DEFINE R == [row : {"none", "new", "queued", "removed"},
                 local : Outcomes \cup {Unknown}, result : Outcomes \cup {Unknown}]
<1>1. UNCHANGED <<scope, forced, ready, repeats>>
  BY DEF WorkerStep, JobRead, JobRender, JobMail, JobStatus, Return
<1>2. /\ worker[w].pc # "idle" /\ worker[w].job \in Jobs
      /\ worker' \in [Workers -> WorkerState]
      /\ \A v \in Workers : v # w => worker'[v] = worker[v]
      /\ \/ worker'[w] = Idle
         \/ /\ worker'[w].pc # "idle" /\ worker'[w].job = worker[w].job
            /\ worker'[w].pc \in {"status", "return"} => worker'[w].outcome \in Outcomes
  BY WorkerStepHands
<1>3. mailed' \in [Jobs -> Nat]
  <2>1. UNCHANGED mailed \/ mailed' = [mailed EXCEPT ![worker[w].job] = @ + 1]
    BY DEF WorkerStep, JobRead, JobRender, JobMail, JobStatus, Return
  <2> QED BY <1>2, <2>1
<1>4. job' \in [Jobs -> R]
  <2>1. CASE UNCHANGED job
    BY <2>1
  <2>2. CASE JobStatus(w)
    <3>1. worker[w].outcome \in Outcomes /\ job[worker[w].job] \in R
      BY <1>2, <2>2 DEF JobStatus, WorkerOK
    <3> QED BY <1>2, <2>2, <3>1 DEF JobStatus, SetJob
  <2>3. CASE Return(w)
    <3>1. worker[w].outcome \in Outcomes /\ job[worker[w].job] \in R
      BY <1>2, <2>3 DEF Return, WorkerOK
    <3> QED BY <1>2, <2>3, <3>1 DEF Return, SetJob
  <2> QED BY <2>1, <2>2, <2>3 DEF WorkerStep, JobRead, JobRender, JobMail
<1>5. TypeOK'
  BY <1>1, <1>2, <1>3, <1>4 DEF Kept
<1>6. WorkerOK(w)'
  BY <1>2 DEF WorkerOK, Idle
<1>7. \A v \in Workers : v # w => WorkerOK(v)'
  BY <1>2 DEF WorkerOK
<1> QED BY <1>5, <1>6, <1>7

\* A worker is killed, or its message comes back while it runs.
LEMMA RepeatHands ==
  ASSUME ExportInv, NEW w \in Workers, Kill(w) \/ Redeliver(w)
  PROVE  /\ worker[w].pc # "idle" /\ worker[w].job \in Jobs
         /\ UNCHANGED <<upVars, scope, forced, job, mailed>>
         /\ worker' \in [Workers -> WorkerState]
         /\ \A v \in Workers : v # w => worker'[v] = worker[v]
         /\ \/ Kill(w) /\ worker'[w] = Idle
            \/ Redeliver(w) /\ worker'[w] = [worker[w] EXCEPT !.again = TRUE]
         /\ \/ Repeat(worker[w].job)
            \/ Kill(w) /\ worker[w].again /\ UNCHANGED <<ready, repeats>>
<1>1. worker \in [Workers -> WorkerState] /\ worker[w] \in WorkerState /\ WorkerOK(w)
  BY DEF ExportInv, TypeOK
<1>2. worker[w].pc # "idle" /\ worker[w].job \in Jobs
  BY <1>1 DEF Kill, Redeliver, WorkerOK
<1>3. UNCHANGED <<upVars, scope, forced, job, mailed>>
  BY DEF Kill, Redeliver
<1>4. Idle \in WorkerState /\ [worker[w] EXCEPT !.again = TRUE] \in WorkerState
  BY <1>1 DEF Idle, WorkerState, Outcomes, Unknown
<1>5. CASE Kill(w)
  BY <1>1, <1>2, <1>3, <1>4, <1>5, SetWorkerFacts DEF Kill
<1>6. CASE Redeliver(w)
  BY <1>1, <1>2, <1>3, <1>4, <1>6, SetWorkerFacts DEF Redeliver
<1> QED BY <1>5, <1>6

LEMMA RepeatExport ==
  ASSUME ExportInv, NEW w \in Workers, Kill(w) \/ Redeliver(w), UpTypeOK'
  PROVE  ExportInv'
<1> USE DEF ExportInv, TypeOK
<1>1. /\ worker[w].pc # "idle" /\ worker[w].job \in Jobs
      /\ UNCHANGED <<scope, forced, job, mailed>>
      /\ worker' \in [Workers -> WorkerState]
      /\ \A v \in Workers : v # w => worker'[v] = worker[v]
      /\ worker'[w] = Idle \/ worker'[w] = [worker[w] EXCEPT !.again = TRUE]
      /\ Repeat(worker[w].job) \/ UNCHANGED <<ready, repeats>>
  BY RepeatHands
<1>2. ready' \in [Jobs -> Nat] /\ repeats' \in 0 .. MaxRepeats
  BY <1>1, ExportsAssumption DEF Repeat
<1>3. TypeOK'
  BY <1>1, <1>2 DEF Kept
<1>4. WorkerOK(w)'
  BY <1>1 DEF WorkerOK, Idle, WorkerState
<1>5. \A v \in Workers : v # w => WorkerOK(v)'
  BY <1>1 DEF WorkerOK
<1> QED BY <1>3, <1>4, <1>5

LEMMA NextExport == UpInv /\ ExportInv /\ [Next]_vars => ExportInv'
<1> SUFFICES ASSUME UpInv, ExportInv, [Next]_vars PROVE ExportInv'
  OBVIOUS
<1>1. UpTypeOK'
  BY NextUp DEF UpInv
<1>2. CASE UNCHANGED exVars
  BY <1>1, <1>2 DEF ExportInv, TypeOK, WorkerOK, Kept, exVars
<1>3. CASE Admin
  BY <1>1, <1>3, AdminExport
<1>4. ASSUME NEW w \in Workers, NEW j \in Jobs, Deliver(w, j) PROVE ExportInv'
  BY <1>1, <1>4, DeliverExport
<1>5. ASSUME NEW w \in Workers, WorkerStep(w) PROVE ExportInv'
  BY <1>1, <1>5, WorkerStepExport
<1>6. ASSUME NEW w \in Workers, Kill(w) \/ Redeliver(w) PROVE ExportInv'
  BY <1>1, <1>6, RepeatExport
<1> QED BY <1>2, <1>3, <1>4, <1>5, <1>6 DEF Next, vars

LEMMA ExportAlways == Spec => []ExportInv
  BY InitExport, NextExport, UpAlways, PTL DEF Spec

\* Templates, jobs, messages and workers are well typed in every reachable state.
THEOREM ExportsTypeCorrect == Spec => []TypeOK
  BY ExportAlways, PTL DEF ExportInv

-----------------------------------------------------------------------------
(***************************************************************************)
(* What is shown of a job.  The row of a job is written before its message *)
(* is taken off the broker, so a job of which nothing is left has its end  *)
(* on the row; and success is only written by whoever has mailed.          *)
(***************************************************************************)
LEMMA InitJob == Init => JobInv
<1> SUFFICES ASSUME Init, NEW j \in Jobs PROVE UntouchedOK(j) /\ SuccessOK(j) /\ OpenOK(j)
  BY DEF JobInv
<1> QED
  BY ExportsAssumption DEF Init, UntouchedOK, SuccessOK, OpenOK, Idle, Unknown

LEMMA AdminJob == ASSUME ExportInv, JobInv, Admin PROVE JobInv'
<1> SUFFICES ASSUME NEW j \in Jobs PROVE UntouchedOK(j)' /\ SuccessOK(j)' /\ OpenOK(j)'
  BY DEF JobInv
<1>1. UNCHANGED <<worker, mailed>>
  BY DEF Admin, TemplateForm, TemplateDelete, PlanForm, Download, DownloadQueue,
    RemoveJob, ResultExpire
<1>2. UntouchedOK(j) /\ SuccessOK(j) /\ OpenOK(j)
  BY DEF JobInv
<1>3. /\ job[j].row \in {"none", "new", "queued", "removed"}
      /\ ready[j] \in Nat
      /\ DOMAIN job = Jobs /\ DOMAIN ready = Jobs
  BY DEF ExportInv, TypeOK
<1>4. CASE UNCHANGED <<job, ready>>
  BY <1>1, <1>2, <1>4 DEF UntouchedOK, SuccessOK, OpenOK, Answers
<1> DEFINE R == [row : {"none", "new", "queued", "removed"},
                 local : Outcomes \cup {Unknown}, result : Outcomes \cup {Unknown}]
<1>5. ASSUME NEW i \in Jobs, Download(i) \/ DownloadQueue(i) \/ RemoveJob(i) \/ ResultExpire(i)
      PROVE  UntouchedOK(j)' /\ SuccessOK(j)' /\ OpenOK(j)'
  <2>t. job \in [Jobs -> R] /\ job[i] \in R /\ ready \in [Jobs -> Nat]
    BY DEF ExportInv, TypeOK
  <2>1. CASE i # j
    <3>1. job'[j] = job[j] /\ ready'[j] = ready[j]
      BY <1>5, <2>1, <2>t DEF Download, DownloadQueue, RemoveJob, ResultExpire, SetJob
    <3> QED BY <1>1, <1>2, <3>1 DEF UntouchedOK, SuccessOK, OpenOK, Answers
  <2>2. CASE i = j /\ Download(j)
    <3>1. job[j].row = "none" /\ job'[j] = [job[j] EXCEPT !.row = "new"] /\ ready'[j] = ready[j]
      BY <2>2, <2>t DEF Download, SetJob
    <3>2. /\ job'[j].row = "new" /\ job'[j].local = job[j].local
          /\ job'[j].result = job[j].result
      BY <3>1, <2>2, <2>t
    <3> QED BY <1>1, <1>2, <3>1, <3>2 DEF UntouchedOK, SuccessOK, OpenOK
  <2>3. CASE i = j /\ DownloadQueue(j)
    <3>1. /\ job[j].row = "new" /\ job'[j] = [job[j] EXCEPT !.row = "queued"]
          /\ ready'[j] = 1
      BY <2>3, <2>t DEF DownloadQueue, SetJob
    <3>2. /\ job'[j].row = "queued" /\ job'[j].local = job[j].local
          /\ job'[j].result = job[j].result
      BY <3>1, <2>3, <2>t
    <3>3. \A w \in Workers : worker[w].job # j
      BY <1>2, <3>1 DEF UntouchedOK
    <3> QED BY <1>1, <1>2, <3>1, <3>2, <3>3 DEF UntouchedOK, SuccessOK, OpenOK
  <2>4. CASE i = j /\ RemoveJob(j)
    <3>1. job'[j] = [job[j] EXCEPT !.row = "removed"]
      BY <2>4, <2>t DEF RemoveJob, SetJob
    <3>2. /\ job'[j].row = "removed" /\ job'[j].local = job[j].local
          /\ job'[j].result = job[j].result
      BY <3>1, <2>4, <2>t
    <3> QED BY <1>1, <1>2, <3>2 DEF UntouchedOK, SuccessOK, OpenOK
  <2>5. CASE i = j /\ ResultExpire(j)
    <3>1. job'[j] = [job[j] EXCEPT !.result = Unknown] /\ UNCHANGED ready
      BY <2>5, <2>t DEF ResultExpire, SetJob
    <3>2. /\ job'[j].row = job[j].row /\ job'[j].local = job[j].local
          /\ job'[j].result = Unknown
      BY <3>1, <2>5, <2>t
    <3> QED BY <1>1, <1>2, <3>1, <3>2 DEF UntouchedOK, SuccessOK, OpenOK, Answers, Unknown
  <2> QED BY <1>5, <2>1, <2>2, <2>3, <2>4, <2>5
<1> QED BY <1>4, <1>5 DEF Admin, TemplateForm, TemplateDelete, PlanForm

LEMMA DeliverJob ==
  ASSUME ExportInv, JobInv, NEW w \in Workers, NEW i \in Jobs, Deliver(w, i)
  PROVE  JobInv'
<1> SUFFICES ASSUME NEW j \in Jobs PROVE UntouchedOK(j)' /\ SuccessOK(j)' /\ OpenOK(j)'
  BY DEF JobInv
<1>1. UntouchedOK(j) /\ SuccessOK(j) /\ OpenOK(j)
  BY DEF JobInv
<1>t. worker \in [Workers -> WorkerState] /\ ready \in [Jobs -> Nat]
  BY DEF ExportInv, TypeOK
<1>2. /\ worker[w].job = NoJob /\ ready[i] > 0
      /\ worker'[w].pc = "read" /\ worker'[w].job = i
      /\ ~worker'[w].again /\ worker'[w].outcome = Unknown
      /\ \A v \in Workers : v # w => worker'[v] = worker[v]
      /\ \A k \in Jobs : k # i => ready'[k] = ready[k]
      /\ UNCHANGED <<job, mailed>>
  BY <1>t DEF Deliver, SetWorker, Idle
<1>3. NoJob # j
  BY ExportsAssumption
<1>4. CASE j = i
  BY <1>1, <1>2, <1>4 DEF UntouchedOK, SuccessOK, OpenOK, Answers, Unknown
<1>5. CASE j # i
  BY <1>1, <1>2, <1>3, <1>5 DEF UntouchedOK, SuccessOK, OpenOK, Answers
<1> QED BY <1>4, <1>5

\* What a step of a worker writes: its outcome is what it was, a failure, or comes with
\* the mail; the row and Celery are told that outcome.
LEMMA WorkerStepWrites ==
  ASSUME ExportInv, NEW w \in Workers, WorkerStep(w)
  PROVE  LET k == worker[w].job IN
         /\ UNCHANGED ready
         /\ \A i \in Jobs : job'[i].row = job[i].row
         /\ \A i \in Jobs : i # k => job'[i] = job[i] /\ mailed'[i] = mailed[i]
         /\ mailed'[k] >= mailed[k]
         /\ worker'[w].job = k /\ worker'[w].outcome = "SUCCESS" =>
              worker[w].outcome = "SUCCESS" \/ mailed'[k] > 0
         /\ job'[k].local \in {job[k].local, worker[w].outcome}
         /\ job'[k].result \in {job[k].result, worker[w].outcome}
         /\ job[k].local # Unknown => job'[k].local # Unknown
         /\ worker'[w].job = k /\ worker'[w].pc = "return" =>
              job[k].row = "removed" \/ job'[k].local # Unknown
         /\ worker'[w].job # k => worker[w].pc = "return"
<1> DEFINE k == worker[w].job
           x == worker[w]
           R == [row : {"none", "new", "queued", "removed"},
                 local : Outcomes \cup {Unknown}, result : Outcomes \cup {Unknown}]
<1>1. /\ worker \in [Workers -> WorkerState] /\ x \in WorkerState /\ k \in Jobs
      /\ x.pc \in {"status", "return"} => x.outcome \in Outcomes
      /\ job \in [Jobs -> R] /\ job[k] \in R
      /\ mailed \in [Jobs -> Nat] /\ mailed[k] \in Nat
  BY WorkerStepHands DEF ExportInv, TypeOK, WorkerOK
<1>2. Unknown # "SUCCESS" /\ Unknown \notin Outcomes
  BY DEF Unknown, Outcomes
<1>3. CASE JobRead(w)
  <2>1. \/ worker'[w] = [x EXCEPT !.pc = "return", !.outcome = "FAILURE"]
             /\ job[k].row = "removed"
        \/ worker'[w] = [x EXCEPT !.pc = "render"]
    BY <1>1, <1>3 DEF JobRead, Failed, SetWorker
  <2>2. UNCHANGED <<job, ready, mailed>>
    BY <1>3 DEF JobRead
  <2>3. /\ worker'[w].job = k
        /\ worker'[w].outcome \in {x.outcome, "FAILURE"}
        /\ worker'[w].pc = "return" => job[k].row = "removed"
    BY <1>1, <2>1 DEF WorkerState
  <2> QED BY <1>1, <2>2, <2>3
<1>4. CASE JobRender(w)
  <2>1. \/ worker'[w] = [x EXCEPT !.pc = "status", !.outcome = "FAILURE"]
        \/ worker'[w] = [x EXCEPT !.pc = "mail"]
    BY <1>1, <1>4 DEF JobRender, Render, Failed, SetWorker
  <2>2. UNCHANGED <<job, ready, mailed>>
    BY <1>4 DEF JobRender
  <2>3. /\ worker'[w].job = k
        /\ worker'[w].outcome \in {x.outcome, "FAILURE"}
        /\ worker'[w].pc # "return"
    BY <1>1, <2>1 DEF WorkerState
  <2> QED BY <1>1, <2>2, <2>3
<1>5. CASE JobMail(w)
  <2>1. UNCHANGED <<job, ready>>
    BY <1>5 DEF JobMail
  <2>2. CASE /\ mailed' = [mailed EXCEPT ![k] = @ + 1]
             /\ \E o \in Outcomes : SetWorker(w, [x EXCEPT !.pc = "status", !.outcome = o])
    <3>1. worker'[w].pc = "status" /\ worker'[w].job = k
      BY <1>1, <2>2 DEF SetWorker, WorkerState
    <3>2. mailed'[k] > 0 /\ mailed'[k] >= mailed[k]
          /\ \A i \in Jobs : i # k => mailed'[i] = mailed[i]
      BY <1>1, <2>2
    <3> QED BY <1>1, <2>1, <3>1, <3>2
  <2>3. CASE Failed(w, "status") /\ UNCHANGED mailed
    <3>1. worker'[w] = [x EXCEPT !.pc = "status", !.outcome = "FAILURE"]
      BY <1>1, <2>3 DEF Failed, SetWorker
    <3> QED BY <1>1, <2>1, <2>3, <3>1 DEF WorkerState
  <2> QED BY <1>5, <2>2, <2>3 DEF JobMail
<1>6. CASE JobStatus(w)
  <2>1. UNCHANGED <<ready, mailed>> /\ x.pc = "status"
    BY <1>6 DEF JobStatus
  <2>2. CASE job[k].row = "removed"
    <3>1. worker'[w] = [x EXCEPT !.pc = "return", !.outcome = "FAILURE"] /\ UNCHANGED job
      BY <1>1, <1>6, <2>2 DEF JobStatus, Failed, SetWorker
    <3> QED BY <1>1, <2>1, <2>2, <3>1 DEF WorkerState
  <2>3. CASE job[k].row # "removed"
    <3>1. /\ worker'[w] = [x EXCEPT !.pc = "return"]
          /\ job' = [job EXCEPT ![k] = [job[k] EXCEPT !.local = x.outcome]]
      BY <1>1, <1>6, <2>3 DEF JobStatus, SetJob, SetWorker
    <3>2. /\ job'[k].local = x.outcome /\ job'[k].row = job[k].row
          /\ job'[k].result = job[k].result
          /\ \A i \in Jobs : i # k => job'[i] = job[i]
      BY <1>1, <3>1
    <3>3. x.outcome \in Outcomes
      BY <1>1, <2>1
    <3>4. worker'[w].pc = "return" /\ worker'[w].job = k /\ worker'[w].outcome = x.outcome
      BY <1>1, <3>1 DEF WorkerState
    <3> QED BY <1>1, <1>2, <2>1, <3>2, <3>3, <3>4
  <2> QED BY <2>2, <2>3
<1>7. CASE Return(w)
  <2>1. /\ worker'[w] = Idle /\ x.pc = "return"
        /\ job' = [job EXCEPT ![k] = [job[k] EXCEPT !.result = x.outcome]]
        /\ UNCHANGED <<ready, mailed>>
    BY <1>1, <1>7 DEF Return, SetJob, SetWorker
  <2>2. /\ job'[k].local = job[k].local /\ job'[k].row = job[k].row
        /\ job'[k].result = x.outcome
        /\ \A i \in Jobs : i # k => job'[i] = job[i]
    BY <1>1, <2>1
  <2>3. worker'[w].job # k
    BY <1>1, <2>1, ExportsAssumption DEF Idle
  <2> QED BY <1>1, <2>1, <2>2, <2>3
<1> QED BY <1>3, <1>4, <1>5, <1>6, <1>7 DEF WorkerStep

LEMMA WorkerStepJob ==
  ASSUME ExportInv, JobInv, NEW w \in Workers, WorkerStep(w)
  PROVE  JobInv'
<1> SUFFICES ASSUME NEW j \in Jobs PROVE UntouchedOK(j)' /\ SuccessOK(j)' /\ OpenOK(j)'
  BY DEF JobInv
<1>1. UntouchedOK(j) /\ SuccessOK(j) /\ OpenOK(j)
  BY DEF JobInv
<1> DEFINE k == worker[w].job
<1>h. /\ worker[w].pc # "idle" /\ k \in Jobs
      /\ \A v \in Workers : v # w => worker'[v] = worker[v]
      /\ \/ worker'[w] = Idle
         \/ /\ worker'[w].pc # "idle" /\ worker'[w].job = k
            /\ worker'[w].again = worker[w].again
  BY WorkerStepHands
<1>m. mailed[j] \in Nat /\ mailed'[j] \in Nat
  <2>1. UNCHANGED mailed \/ mailed' = [mailed EXCEPT ![k] = @ + 1]
    BY DEF WorkerStep, JobRead, JobRender, JobMail, JobStatus, Return
  <2> QED BY <2>1 DEF ExportInv, TypeOK
<1>n. Idle.job # j
  BY ExportsAssumption DEF Idle
<1>2. CASE j # k
  <2>1. job'[j] = job[j] /\ mailed'[j] = mailed[j] /\ ready'[j] = ready[j]
    BY <1>2, WorkerStepWrites
  <2>2. worker[w].job # j /\ worker'[w].job # j
    BY <1>2, <1>h, <1>n
  <2> QED BY <1>1, <1>h, <2>1, <2>2 DEF UntouchedOK, SuccessOK, OpenOK, Answers
<1>3. CASE j = k
  <2>1. /\ ready'[j] = ready[j]
        /\ job'[j].row = job[j].row
        /\ mailed'[j] >= mailed[j]
        /\ worker'[w].job = j /\ worker'[w].outcome = "SUCCESS" =>
             worker[w].outcome = "SUCCESS" \/ mailed'[j] > 0
        /\ job'[j].local \in {job[j].local, worker[w].outcome}
        /\ job'[j].result \in {job[j].result, worker[w].outcome}
        /\ job[j].local # Unknown => job'[j].local # Unknown
        /\ worker'[w].job = j /\ worker'[w].pc = "return" =>
             job[j].row = "removed" \/ job'[j].local # Unknown
        /\ worker'[w].job # j => worker[w].pc = "return"
    BY <1>3, <1>h, WorkerStepWrites
  <2>2. UntouchedOK(j)'
    BY <1>1, <1>3, <2>1 DEF UntouchedOK
  <2>3. SuccessOK(j)'
    BY <1>1, <1>3, <1>h, <1>m, <2>1 DEF SuccessOK
  <2>4. OpenOK(j)'
    <3> SUFFICES ASSUME job'[j].row = "queued", job'[j].local = Unknown PROVE OpenOK(j)'
      BY DEF OpenOK
    <3>1. job[j].row = "queued" /\ job[j].local = Unknown
      BY <2>1
    <3>2. /\ ready[j] > 0 \/ \E v \in Workers : Answers(v, j)
          /\ \A v \in Workers : worker[v].job = j => worker[v].pc # "return"
      BY <1>1, <3>1 DEF OpenOK
    <3>3. worker'[w].job = j /\ worker'[w].pc # "return"
      BY <1>3, <2>1, <3>1, <3>2
    <3>4. \A v \in Workers : Answers(v, j) => Answers(v, j)'
      BY <1>h, <1>n, <3>3 DEF Answers
    <3>5. ready'[j] > 0 \/ \E v \in Workers : Answers(v, j)'
      BY <2>1, <3>2, <3>4
    <3>6. \A v \in Workers : worker'[v].job = j => worker'[v].pc # "return"
      BY <1>h, <3>2, <3>3
    <3> QED BY <3>5, <3>6 DEF OpenOK
  <2> QED BY <2>2, <2>3, <2>4
<1> QED BY <1>2, <1>3

LEMMA RepeatJob ==
  ASSUME ExportInv, JobInv, NEW w \in Workers, Kill(w) \/ Redeliver(w)
  PROVE  JobInv'
<1> SUFFICES ASSUME NEW j \in Jobs PROVE UntouchedOK(j)' /\ SuccessOK(j)' /\ OpenOK(j)'
  BY DEF JobInv
<1>1. UntouchedOK(j) /\ SuccessOK(j) /\ OpenOK(j)
  BY DEF JobInv
<1> DEFINE k == worker[w].job
<1>2. /\ k \in Jobs /\ UNCHANGED <<job, mailed>>
      /\ \A v \in Workers : v # w => worker'[v] = worker[v]
      /\ \/ Kill(w) /\ worker'[w] = Idle
         \/ Redeliver(w) /\ worker'[w] = [worker[w] EXCEPT !.again = TRUE]
      /\ \/ Repeat(k)
         \/ Kill(w) /\ worker[w].again /\ UNCHANGED <<ready, repeats>>
  BY RepeatHands
<1>t. worker[w] \in WorkerState /\ ready \in [Jobs -> Nat]
  BY DEF ExportInv, TypeOK
<1>3. /\ Idle.job # j /\ Idle.pc = "idle"
      /\ worker'[w] = Idle \/ /\ worker'[w].job = k /\ worker'[w].pc = worker[w].pc
                              /\ worker'[w].outcome = worker[w].outcome
  BY <1>2, <1>t, ExportsAssumption DEF Idle, WorkerState
<1>4. CASE j # k
  <2>1. ready'[j] = ready[j]
    BY <1>2, <1>4, <1>t DEF Repeat
  <2>2. worker'[w].job # j
    BY <1>3, <1>4
  <2> QED BY <1>1, <1>2, <1>4, <2>1, <2>2 DEF UntouchedOK, SuccessOK, OpenOK, Answers
<1>5. CASE j = k
  <2>1. UntouchedOK(j)'
    BY <1>1, <1>2, <1>5 DEF UntouchedOK
  <2>2. SuccessOK(j)'
    BY <1>1, <1>2, <1>3, <1>5 DEF SuccessOK
  <2>3. OpenOK(j)'
    <3>1. CASE Repeat(k)
      <4>1. ready'[j] > 0
        BY <1>5, <1>t, <3>1 DEF Repeat
      <4> QED BY <1>1, <1>2, <1>3, <4>1 DEF OpenOK
    <3>2. CASE worker'[w] = Idle /\ worker[w].again /\ UNCHANGED ready
      BY <1>1, <1>2, <1>3, <3>2 DEF OpenOK, Answers
    <3>3. \/ Repeat(k)
          \/ worker'[w] = Idle /\ worker[w].again /\ UNCHANGED ready
      BY <1>t DEF Kill, Redeliver, SetWorker, ExportInv, TypeOK
    <3> QED BY <3>1, <3>2, <3>3
  <2> QED BY <2>1, <2>2, <2>3
<1> QED BY <1>4, <1>5

LEMMA NextJob == ExportInv /\ JobInv /\ [Next]_vars => JobInv'
<1> SUFFICES ASSUME ExportInv, JobInv, [Next]_vars PROVE JobInv'
  OBVIOUS
<1>1. CASE UNCHANGED exVars
  BY <1>1 DEF JobInv, UntouchedOK, SuccessOK, OpenOK, Answers, exVars
<1> QED BY <1>1, AdminJob, DeliverJob, WorkerStepJob, RepeatJob DEF Next, vars

LEMMA JobAlways == Spec => []JobInv
  BY InitJob, NextJob, ExportAlways, PTL DEF Spec

\* Of a queued job that nothing is left of, whoever was killed and whatever was
\* forgotten, what is shown names how it ended.
THEOREM EndIsShown == Spec => []FinishedIsShown
<1>1. ExportInv /\ JobInv => FinishedIsShown
  <2> SUFFICES ASSUME ExportInv, JobInv, NEW j \in Jobs, job[j].row = "queued", ~Underway(j)
               PROVE  VerboseStatus(j) \subseteq Outcomes
    BY DEF FinishedIsShown
  <2>1. job[j].local # Unknown
    BY DEF JobInv, OpenOK, Underway, Answers
  <2>2. job[j].local \in Outcomes /\ job[j].result \in Outcomes \cup {Unknown}
    BY <2>1 DEF ExportInv, TypeOK
  <2>3. TaskStatus(j) \in Outcomes \/ TaskStatus(j) = "MISSING"
    BY <2>2 DEF TaskStatus, Underway
  <2>4. CASE TaskStatus(j) = "MISSING"
    <3>1. VerboseStatus(j) = {job[j].local} \ {Unknown}
      BY <2>1, <2>4 DEF VerboseStatus
    <3> QED BY <2>2, <3>1
  <2>5. CASE TaskStatus(j) \in Outcomes
    <3>1. VerboseStatus(j) = {TaskStatus(j)} \cup ({job[j].local} \ {Unknown})
      BY <2>5 DEF VerboseStatus, Outcomes
    <3> QED BY <2>2, <2>5, <3>1
  <2> QED BY <2>3, <2>4, <2>5
<1> QED BY <1>1, ExportAlways, JobAlways, PTL

\* No export is shown as a success that was not mailed, whatever workers ran its job.
THEOREM SuccessWasMailed == Spec => []SuccessMeansMailed
<1>1. JobInv => SuccessMeansMailed
  <2> SUFFICES ASSUME JobInv, NEW j \in Jobs, "SUCCESS" \in VerboseStatus(j)
               PROVE  mailed[j] > 0
    BY DEF SuccessMeansMailed
  <2>1. job[j].local = "SUCCESS" \/ TaskStatus(j) = "SUCCESS"
    BY DEF VerboseStatus
  <2>2. job[j].local = "SUCCESS" \/ job[j].result = "SUCCESS"
    BY <2>1 DEF TaskStatus
  <2> QED BY <2>2 DEF JobInv, SuccessOK
<1> QED BY <1>1, JobAlways, PTL

-----------------------------------------------------------------------------
(***************************************************************************)
(* Mails.  A delivery turns a message into a worker that may mail, a mail  *)
(* turns that worker into a mail sent; only a repeat adds to the sum.      *)
(***************************************************************************)
Busy(w, j) == worker[w].job = j /\ worker[w].pc \in {"read", "render", "mail"}

\* One worker's step changes the workers at hand by that worker at most.
LEMMA HandsCount ==
  ASSUME NEW j, NEW w \in Workers, IsFiniteSet(InHand(j)),
         \A v \in Workers : v # w => worker'[v] = worker[v]
  PROVE  /\ IsFiniteSet(InHand(j)')
         /\ Cardinality(InHand(j)) \in Nat /\ Cardinality(InHand(j)') \in Nat
         /\ Busy(w, j) /\ ~Busy(w, j)' =>
              Cardinality(InHand(j)') = Cardinality(InHand(j)) - 1
         /\ ~Busy(w, j) /\ Busy(w, j)' =>
              Cardinality(InHand(j)') = Cardinality(InHand(j)) + 1
         /\ (Busy(w, j) <=> Busy(w, j)') =>
              Cardinality(InHand(j)') = Cardinality(InHand(j))
<1>0. Cardinality(InHand(j)) \in Nat
  BY FS_CardinalityType
<1>1. CASE Busy(w, j) /\ ~Busy(w, j)'
  <2>1. InHand(j)' = InHand(j) \ {w} /\ w \in InHand(j)
    BY <1>1 DEF InHand, Busy
  <2> QED BY <1>0, <1>1, <2>1, FS_RemoveElement, FS_CardinalityType
<1>2. CASE ~Busy(w, j) /\ Busy(w, j)'
  <2>1. InHand(j)' = InHand(j) \cup {w} /\ w \notin InHand(j)
    BY <1>2 DEF InHand, Busy
  <2> QED BY <1>0, <1>2, <2>1, FS_AddElement, FS_CardinalityType
<1>3. CASE Busy(w, j) <=> Busy(w, j)'
  <2>1. InHand(j)' = InHand(j)
    BY <1>3 DEF InHand, Busy
  <2> QED BY <1>0, <1>3, <2>1
<1> QED BY <1>1, <1>2, <1>3

LEMMA InitMail == Init => MailInv
<1> SUFFICES ASSUME Init, NEW j \in Jobs
             PROVE  /\ IsFiniteSet(InHand(j))
                    /\ mailed[j] + ready[j] + Cardinality(InHand(j)) <= 1 + repeats
  BY DEF MailInv
<1>1. InHand(j) = {}
  BY DEF Init, InHand, Idle
<1> QED BY <1>1, FS_EmptySet DEF Init

LEMMA NextMail == ExportInv /\ JobInv /\ MailInv /\ [Next]_vars => MailInv'
<1> SUFFICES ASSUME ExportInv, JobInv, MailInv, [Next]_vars, NEW j \in Jobs
             PROVE  /\ IsFiniteSet(InHand(j)')
                    /\ mailed'[j] + ready'[j] + Cardinality(InHand(j)') <= 1 + repeats'
  BY DEF MailInv
<1>t. /\ mailed \in [Jobs -> Nat] /\ ready \in [Jobs -> Nat] /\ repeats \in Nat
      /\ worker \in [Workers -> WorkerState]
      /\ mailed[j] \in Nat /\ ready[j] \in Nat
  BY ExportsAssumption DEF ExportInv, TypeOK
<1>i. /\ IsFiniteSet(InHand(j))
      /\ mailed[j] + ready[j] + Cardinality(InHand(j)) <= 1 + repeats
      /\ Cardinality(InHand(j)) \in Nat
  BY FS_CardinalityType DEF MailInv
<1>1. CASE UNCHANGED <<ready, worker, mailed, repeats>>
  <2>1. InHand(j)' = InHand(j)
    BY <1>1 DEF InHand
  <2> QED BY <1>1, <1>i, <2>1
<1>2. ASSUME NEW i \in Jobs, DownloadQueue(i) PROVE /\ IsFiniteSet(InHand(j)')
        /\ mailed'[j] + ready'[j] + Cardinality(InHand(j)') <= 1 + repeats'
  <2>1. InHand(j)' = InHand(j) /\ UNCHANGED <<mailed, repeats>>
    BY <1>2 DEF DownloadQueue, InHand
  <2>2. CASE i # j
    <3>1. ready'[j] = ready[j]
      BY <1>2, <1>t, <2>2 DEF DownloadQueue
    <3> QED BY <1>i, <2>1, <3>1
  <2>3. CASE i = j
    <3>1. ready'[j] = 1 /\ mailed[j] = 0 /\ \A w \in Workers : worker[w].job # j
      BY <1>2, <1>t, <2>3 DEF DownloadQueue, JobInv, UntouchedOK
    <3>2. InHand(j) = {}
      BY <3>1 DEF InHand
    <3>3. Cardinality(InHand(j)) = 0
      BY <3>2, FS_EmptySet
    <3> QED BY <1>i, <1>t, <2>1, <3>1, <3>3
  <2> QED BY <2>2, <2>3
<1>3. ASSUME NEW w \in Workers, NEW i \in Jobs, Deliver(w, i) PROVE /\ IsFiniteSet(InHand(j)')
        /\ mailed'[j] + ready'[j] + Cardinality(InHand(j)') <= 1 + repeats'
  <2>1. /\ \A v \in Workers : v # w => worker'[v] = worker[v]
        /\ ~Busy(w, j) /\ worker'[w].job = i /\ worker'[w].pc = "read"
        /\ UNCHANGED <<mailed, repeats>>
    BY <1>3, <1>t DEF Deliver, SetWorker, Idle, Busy
  <2>2. CASE i = j
    <3>1. Busy(w, j)' /\ ready'[j] = ready[j] - 1
      BY <1>3, <1>t, <2>1, <2>2 DEF Deliver, Busy
    <3> QED BY <1>i, <1>t, <2>1, <3>1, HandsCount
  <2>3. CASE i # j
    <3>1. ~Busy(w, j)' /\ ready'[j] = ready[j]
      BY <1>3, <1>t, <2>1, <2>3 DEF Deliver, Busy
    <3> QED BY <1>i, <1>t, <2>1, <3>1, HandsCount
  <2> QED BY <2>2, <2>3
<1>4. ASSUME NEW w \in Workers, WorkerStep(w) PROVE /\ IsFiniteSet(InHand(j)')
        /\ mailed'[j] + ready'[j] + Cardinality(InHand(j)') <= 1 + repeats'
  <2>1. /\ \A v \in Workers : v # w => worker'[v] = worker[v]
        /\ UNCHANGED <<ready, repeats>>
    BY <1>4, WorkerStepHands DEF WorkerStep, JobRead, JobRender, JobMail, JobStatus, Return
  <2>2. worker[w] \in WorkerState
    BY <1>t
  <2>3. CASE UNCHANGED mailed
    <3>1. Busy(w, j)' => Busy(w, j)
      <4>1. CASE JobRead(w) \/ JobRender(w) \/ JobMail(w)
        <5>1. worker[w].pc \in {"read", "render", "mail"}
          BY <4>1 DEF JobRead, JobRender, JobMail
        <5>2. worker'[w] = Idle \/ worker'[w].job = worker[w].job
          BY <1>4, WorkerStepHands
        <5> QED BY <5>1, <5>2 DEF Busy, Idle
      <4>2. CASE JobStatus(w)
        <5>1. \/ worker'[w] = [worker[w] EXCEPT !.pc = "return", !.outcome = "FAILURE"]
              \/ worker'[w] = [worker[w] EXCEPT !.pc = "return"]
          BY <1>t, <4>2 DEF JobStatus, Failed, SetWorker
        <5>2. worker'[w].pc = "return"
          BY <2>2, <5>1 DEF WorkerState
        <5> QED BY <5>2 DEF Busy
      <4>3. CASE Return(w)
        BY <1>t, <2>2, <4>3 DEF Return, SetWorker, Busy, Idle
      <4> QED BY <1>4, <4>1, <4>2, <4>3 DEF WorkerStep
    <3> QED BY <1>i, <1>t, <2>1, <2>3, <3>1, HandsCount
  <2>4. CASE /\ worker[w].pc = "mail"
             /\ mailed' = [mailed EXCEPT ![worker[w].job] = @ + 1]
             /\ \E o \in Outcomes : SetWorker(w, [worker[w] EXCEPT !.pc = "status", !.outcome = o])
    <3>1. worker'[w].pc = "status"
      BY <1>t, <2>2, <2>4 DEF SetWorker, WorkerState
    <3>2. CASE worker[w].job = j
      <4>1. mailed'[j] = mailed[j] + 1 /\ Busy(w, j) /\ ~Busy(w, j)'
        BY <1>t, <2>4, <3>1, <3>2 DEF Busy
      <4> QED BY <1>i, <1>t, <2>1, <4>1, HandsCount
    <3>3. CASE worker[w].job # j
      <4>1. mailed'[j] = mailed[j] /\ ~Busy(w, j) /\ ~Busy(w, j)'
        BY <1>t, <2>4, <3>1, <3>3 DEF Busy
      <4> QED BY <1>i, <1>t, <2>1, <4>1, HandsCount
    <3> QED BY <3>2, <3>3
  <2>5. CASE JobMail(w) /\ ~UNCHANGED mailed
    BY <2>4, <2>5 DEF JobMail
  <2> QED BY <1>4, <2>3, <2>5 DEF WorkerStep, JobRead, JobRender, JobStatus, Return
<1>5. ASSUME NEW w \in Workers, Kill(w) \/ Redeliver(w) PROVE /\ IsFiniteSet(InHand(j)')
        /\ mailed'[j] + ready'[j] + Cardinality(InHand(j)') <= 1 + repeats'
  <2>1. /\ worker[w].job \in Jobs /\ mailed' = mailed
        /\ \A v \in Workers : v # w => worker'[v] = worker[v]
        /\ worker'[w] = Idle \/ worker'[w] = [worker[w] EXCEPT !.again = TRUE]
        /\ Repeat(worker[w].job) \/ UNCHANGED <<ready, repeats>>
    BY <1>5, RepeatHands
  <2>2. Busy(w, j)' => Busy(w, j)
    BY <1>t, <2>1 DEF Busy, Idle, WorkerState
  <2>3. /\ ready'[j] \in Nat /\ repeats' \in Nat
        /\ ready'[j] - ready[j] <= repeats' - repeats
    BY <1>t, <2>1 DEF Repeat
  <2> QED BY <1>i, <1>t, <2>1, <2>2, <2>3, HandsCount
<1>6. CASE UNCHANGED exVars
  BY <1>1, <1>6 DEF exVars
<1>7. CASE Admin
  <2>1. UNCHANGED <<ready, worker, mailed, repeats>> \/ \E i \in Jobs : DownloadQueue(i)
    BY <1>7 DEF Admin, TemplateForm, TemplateDelete, PlanForm, Download, RemoveJob, ResultExpire
  <2> QED BY <1>1, <1>2, <2>1
<1> QED BY <1>3, <1>4, <1>5, <1>6, <1>7 DEF Next, vars

LEMMA MailAlways == Spec => []MailInv
  BY InitMail, NextMail, ExportAlways, JobAlways, PTL DEF Spec

\* However many workers run a job at once or one after another, its file is mailed
\* once, and once more for every message that came back.
THEOREM MailedOnce == Spec => []MailedOncePerRun
<1>1. ExportInv /\ MailInv => MailedOncePerRun
  <2> SUFFICES ASSUME ExportInv, MailInv, NEW j \in Jobs PROVE mailed[j] <= 1 + repeats
    BY DEF MailedOncePerRun
  <2>1. mailed[j] \in Nat /\ ready[j] \in Nat /\ repeats \in Nat
    BY ExportsAssumption DEF ExportInv, TypeOK
  <2>2. /\ Cardinality(InHand(j)) \in Nat
        /\ mailed[j] + ready[j] + Cardinality(InHand(j)) <= 1 + repeats
    BY FS_CardinalityType DEF MailInv
  <2> QED BY <2>1, <2>2
<1> QED BY <1>1, ExportAlways, MailAlways, PTL

-----------------------------------------------------------------------------
(***************************************************************************)
(* What a sheet shows.                                                     *)
(***************************************************************************)
\* The row that a sheet has for a record.
Row(columns, obj) == [c \in DOMAIN columns |-> Cell(columns[c], obj)]

\* Without headings a sheet has a row for each record ...
LEMMA PlainSheet ==
  ASSUME NEW columns, NEW objs \in Seq(Objects)
  PROVE  Sheet(columns, <<>>, objs) = [i \in 1 .. Len(objs) |-> Row(columns, objs[i])]
<1> DEFINE rows == [i \in 1 .. Len(objs) |-> Row(columns, objs[i])]
<1>1. rows \in Seq({Row(columns, o) : o \in Objects})
  OBVIOUS
<1>2. Sheet(columns, <<>>, objs) = <<>> \o rows
  BY DEF Sheet, Row
<1> QED BY <1>1, <1>2

\* ... and with headings one more, the first.
LEMMA HeadedSheet ==
  ASSUME NEW columns, NEW header, NEW objs \in Seq(Objects), header # <<>>
  PROVE  /\ Len(Sheet(columns, header, objs)) = Len(objs) + 1
         /\ DOMAIN Sheet(columns, header, objs) = 1 .. Len(objs) + 1
         /\ Sheet(columns, header, objs)[1] = header
         /\ \A i \in 1 .. Len(objs) :
              Sheet(columns, header, objs)[i + 1] = Row(columns, objs[i])
<1> DEFINE S == {Row(columns, o) : o \in Objects} \cup {header}
           rows == [i \in 1 .. Len(objs) |-> Row(columns, objs[i])]
<1>1. Len(objs) \in Nat /\ \A i \in 1 .. Len(objs) : objs[i] \in Objects
  OBVIOUS
<1>2. rows \in Seq(S) /\ Len(rows) = Len(objs)
  BY <1>1
<1>3. <<header>> \in Seq(S) /\ Len(<<header>>) = 1 /\ <<header>>[1] = header
  OBVIOUS
<1>4. Sheet(columns, header, objs) = <<header>> \o rows
  BY DEF Sheet, Row
<1>5. \A i \in 1 .. Len(objs) : rows[i] = Row(columns, objs[i])
  OBVIOUS
<1> HIDE DEF S, rows
<1> QED BY <1>1, <1>2, <1>3, <1>4, <1>5

\* The form's headings and columns of a query that it splits: one of each per line.
LEMMA SplitLemma ==
  ASSUME NEW q \in Query, Split(q)
  PROVE  /\ FormHeader(q) = [i \in DOMAIN q.lines |-> <<Head(q.lines[i])>>]
         /\ FormColumns(q) = [i \in DOMAIN q.lines |-> <<LastOf(q.lines[i])>>]
         /\ DOMAIN q.lines = 1 .. Len(q.lines) /\ Len(q.lines) \in Nat \ {0}
         /\ FormHeader(q) # <<>>
         /\ \A i \in DOMAIN q.lines :
              /\ q.lines[i] \in Seq(Pieces) /\ Len(q.lines[i]) \in Nat \ {0}
              /\ DOMAIN q.lines[i] = 1 .. Len(q.lines[i])
              /\ Head(q.lines[i]) = q.lines[i][1]
<1>1. /\ FormHeader(q) = [i \in DOMAIN q.lines |-> <<Head(q.lines[i])>>]
      /\ FormColumns(q) = [i \in DOMAIN q.lines |-> <<LastOf(q.lines[i])>>]
  BY DEF FormHeader, FormColumns
<1>2. q.lines \in Seq(Line) /\ q.lines # <<>>
  BY DEF Query
<1>3. DOMAIN q.lines = 1 .. Len(q.lines) /\ Len(q.lines) \in Nat \ {0}
  BY <1>2
<1>4. FormHeader(q) # <<>>
  <2>1. 1 \in DOMAIN FormHeader(q)
    BY <1>1, <1>3
  <2> QED BY <2>1
<1>5. ASSUME NEW i \in DOMAIN q.lines
      PROVE  /\ q.lines[i] \in Seq(Pieces) /\ Len(q.lines[i]) \in Nat \ {0}
             /\ DOMAIN q.lines[i] = 1 .. Len(q.lines[i])
             /\ Head(q.lines[i]) = q.lines[i][1]
  <2>1. q.lines[i] \in Seq(Pieces) /\ q.lines[i] # <<>>
    BY <1>2, <1>3 DEF Line
  <2> QED BY <2>1
<1> QED BY <1>1, <1>3, <1>4, <1>5

\* The page and the mail of a query that the form splits have the same columns; only
\* the page has headings, which the mail puts into the cells (TemplateExportForm.clean,
\* generate_records and export_payment_instruction_to_email).
THEOREM ExportSheetsAgree ==
  \A q \in Query, objs \in Seq(Objects) : SheetsAgree(q, objs)
<1> SUFFICES ASSUME NEW q \in Query, NEW objs \in Seq(Objects), Split(q)
             PROVE  SheetsAgree(q, objs)
  BY DEF SheetsAgree
<1> DEFINE page == PageSheet(q, objs)
           mail == MailSheet(q, objs)
<1>1. Len(objs) \in Nat /\ DOMAIN objs = 1 .. Len(objs)
  OBVIOUS
<1>2. /\ Len(page) = Len(objs) + 1
      /\ page[1] = FormHeader(q)
      /\ \A i \in 1 .. Len(objs) :
           page[i + 1] = Row(FormColumns(q), objs[i])
  BY HeadedSheet, SplitLemma DEF PageSheet, ActionSheet
<1>3. mail = [i \in 1 .. Len(objs) |-> Row(q.lines, objs[i])]
  BY PlainSheet DEF MailSheet
<1>4. Len(mail) = Len(objs) /\ DOMAIN mail = 1 .. Len(objs)
  BY <1>1, <1>3
<1> HIDE DEF page, mail
<1>5. DOMAIN page[1] = DOMAIN q.lines
  BY <1>2, SplitLemma
<1>6. ASSUME NEW i \in 1 .. Len(objs)
      PROVE  DOMAIN mail[i] = DOMAIN q.lines /\ DOMAIN page[i + 1] = DOMAIN q.lines
  BY <1>2, <1>3, <1>6, SplitLemma DEF Row
<1>7. ASSUME NEW i \in 1 .. Len(objs), NEW c \in DOMAIN q.lines
      PROVE  page[i + 1][c] = <<LastOf(mail[i][c])>> /\ mail[i][c][1][1] = page[1][c][1]
  <2>1. FormColumns(q)[c] = <<LastOf(q.lines[c])>> /\ FormHeader(q)[c] = <<Head(q.lines[c])>>
    BY SplitLemma
  <2>2. page[i + 1][c] = Cell(<<LastOf(q.lines[c])>>, objs[i])
    <3>1. c \in DOMAIN FormColumns(q)
      BY SplitLemma
    <3> QED BY <1>2, <2>1, <3>1 DEF Row
  <2>3. mail[i][c] = [j \in 1 .. Len(q.lines[c]) |-> <<q.lines[c][j], objs[i]>>]
    BY <1>3, SplitLemma DEF Row, Cell
  <2>4. Len(q.lines[c]) \in Nat \ {0}
    BY SplitLemma
  <2>5. Len(mail[i][c]) = Len(q.lines[c])
    BY <2>3, <2>4
  <2>6. LastOf(mail[i][c]) = <<LastOf(q.lines[c]), objs[i]>>
    BY <2>3, <2>4, <2>5 DEF LastOf
  <2>7. Cell(<<LastOf(q.lines[c])>>, objs[i]) = << <<LastOf(q.lines[c]), objs[i]>> >>
    BY DEF Cell
  <2>8. mail[i][c][1] = <<q.lines[c][1], objs[i]>>
    BY <2>3, <2>4
  <2>9. mail[i][c][1][1] = q.lines[c][1] /\ page[1][c][1] = q.lines[c][1]
    BY <2>8, <2>1, <1>2, SplitLemma
  <2> QED BY <2>2, <2>6, <2>7, <2>9
<1>8. Len(page) = Len(mail) + 1
  BY <1>2, <1>4
<1> QED BY <1>4, <1>5, <1>6, <1>7, <1>8 DEF SheetsAgree, page, mail

\* A query that the form does not split makes a page of one column (TemplateExportForm.clean).
THEOREM ExportOneColumn ==
  \A q \in Query, objs \in Seq(Objects) : OneColumn(q, objs)
<1> SUFFICES ASSUME NEW q \in Query, NEW objs \in Seq(Objects), ~Split(q),
                    NEW i \in DOMAIN PageSheet(q, objs)
             PROVE  Len(PageSheet(q, objs)[i]) = 1
  BY DEF OneColumn
<1>1. \E heading, column : FormHeader(q) = <<heading>> /\ FormColumns(q) = <<column>>
  BY DEF FormHeader, FormColumns
<1>2. /\ FormHeader(q) # <<>> /\ Len(FormHeader(q)) = 1
      /\ DOMAIN FormColumns(q) = 1 .. 1
  BY <1>1
<1>3. Len(objs) \in Nat
  OBVIOUS
<1> DEFINE page == PageSheet(q, objs)
<1>4. /\ DOMAIN page = 1 .. Len(objs) + 1
      /\ page[1] = FormHeader(q)
      /\ \A j \in 1 .. Len(objs) : page[j + 1] = Row(FormColumns(q), objs[j])
  BY <1>2, HeadedSheet DEF PageSheet, ActionSheet
<1>5. CASE i = 1
  BY <1>2, <1>4, <1>5
<1>6. CASE i # 1
  <2>1. i - 1 \in 1 .. Len(objs) /\ i - 1 + 1 = i
    BY <1>3, <1>4, <1>6
  <2>2. page[i] = [c \in 1 .. 1 |-> Cell(FormColumns(q)[c], objs[i - 1])]
    BY <1>2, <1>4, <2>1 DEF Row
  <2> QED BY <2>2
<1> QED BY <1>5, <1>6
=============================================================================
