----------------------------- MODULE ExportsInv -----------------------------
(***************************************************************************)
(* The inductive invariants behind the safety properties of Upgrade and    *)
(* Exports.                                                                *)
(***************************************************************************)
EXTENDS Exports

\* What a container counts on is there, and each stage has done what it is for,
\* whoever did it.
StageOK(c) ==
  /\ up[c].applied <= db.applied
  /\ up[c].at \in {"permissions", "contenttypes", "admin", "create", "serving"}
       => db.applied = Migrations
  /\ up[c].at \in {"contenttypes", "admin", "create", "serving"} => db.permissions
  /\ up[c].at \in {"admin", "create", "serving"} => ~db.stale
  /\ up[c].at = "serving" /\ AdminEmail => db.admins = 1

UpInv == UpTypeOK /\ \A c \in Containers : StageOK(c)

-----------------------------------------------------------------------------
WorkerOK(w) ==
  /\ worker[w].pc = "idle" <=> worker[w] = Idle
  /\ worker[w].pc # "idle" => worker[w].job \in Jobs
  /\ worker[w].pc \in {"status", "return"} => worker[w].outcome \in Outcomes

ExportInv == TypeOK /\ \A w \in Workers : WorkerOK(w)

\* A job that has not been queued has no message, no worker and no mail.
UntouchedOK(j) ==
  job[j].row \in {"none", "new"} =>
    ready[j] = 0 /\ mailed[j] = 0 /\ \A w \in Workers : worker[w].job # j

\* Whoever claims success, a worker, the row or Celery, claims it of a mailed file.
SuccessOK(j) ==
  /\ job[j].local = "SUCCESS" \/ job[j].result = "SUCCESS" => mailed[j] > 0
  /\ \A w \in Workers : worker[w].job = j /\ worker[w].outcome = "SUCCESS" => mailed[j] > 0

\* A queued job whose end is not on its row has a message that waits, or a worker whose
\* death would bring its message back.
Answers(w, j) == worker[w].job = j /\ worker[w].pc # "return" /\ ~worker[w].again

OpenOK(j) ==
  job[j].row = "queued" /\ job[j].local = Unknown =>
    /\ ready[j] > 0 \/ \E w \in Workers : Answers(w, j)
    /\ \A w \in Workers : worker[w].job = j => worker[w].pc # "return"

JobInv == \A j \in Jobs : UntouchedOK(j) /\ SuccessOK(j) /\ OpenOK(j)

\* The workers that may still mail the file of a job.
InHand(j) == {w \in Workers : worker[w].job = j /\ worker[w].pc \in {"read", "render", "mail"}}

\* Mails sent and mails that may still be sent are bounded together.
MailInv ==
  \A j \in Jobs :
    /\ IsFiniteSet(InHand(j))
    /\ mailed[j] + ready[j] + Cardinality(InHand(j)) <= 1 + repeats
=============================================================================
