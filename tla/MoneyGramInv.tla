---------------------------- MODULE MoneyGramInv ----------------------------
(***************************************************************************)
(* The inductive invariant behind the safety properties of MoneyGram.  TLC *)
(* checks it on small instances; MoneyGramProofs proves it.                *)
(***************************************************************************)
EXTENDS MoneyGram

Transferred == {"TRANSFERRED_TO_FSP", "TRANSFERRED_TO_BENEFICIARY", "REFUND", "PURGED"}

\* What a row of record r, in the table or in the hand of a process, may say: its
\* draft is its own, its reference number and its status have a draft committed.
Backed(r, x) ==
  /\ x.fsp # NoDraft => owner[x.fsp] = r
  /\ x.auth # NoDraft => x.auth = x.fsp /\ Committed(x.fsp)
  /\ x.status \in Transferred => x.fsp # NoDraft /\ Committed(x.fsp)
  /\ x.status = "TRANSFERRED_TO_BENEFICIARY" => PaidOnce(x.fsp)

\* A draft, once on a row, stays there: a copy in hand and the row agree on it, and
\* without one both are settled, so that nobody can be at work on a draft for them.
Agree(x, y) ==
  /\ x.fsp = y.fsp
  /\ x.fsp = NoDraft => x.status # "PENDING" /\ y.status # "PENDING"

Locked == {"post", "draftSave", "put", "commitSave"}
InHand == {"apply", "again", "ask", "update", "note", "refund", "refunded"}

\* A transaction has the lock of the row, which therefore is its copy.
LockedOK(p, t) ==
  /\ lock[t.rec] = p /\ t.copy = row[t.rec] /\ t.copy.auth = NoDraft
  /\ t.pc \in {"post", "draftSave"} => t.copy.fsp = NoDraft /\ t.copy.status = "PENDING"
  /\ t.pc = "draftSave" => t.draft \in Drafts /\ owner[t.draft] = t.rec
  /\ t.pc \in {"put", "commitSave"} => t.copy.fsp \in Drafts
  /\ t.pc = "commitSave" => t.draft = t.copy.fsp /\ Committed(t.draft)

\* What is known of a status that waits to be applied.
Known(d, type) ==
  /\ type = "SENT" => d \in Drafts /\ Committed(d)
  /\ type = "RECEIVED" => d \in Drafts /\ PaidOnce(d)

InHandOK(t) ==
  /\ Backed(t.rec, t.copy) /\ Agree(t.copy, row[t.rec])
  /\ t.pc \in {"apply", "update"} => Known(t.copy.fsp, t.arg)
  /\ t.pc = "ask" => t.copy.fsp \in Drafts

TaskOK(p, t) ==
  /\ t # Idle => t.rec \in Records
  /\ t.pc \in Locked => LockedOK(p, t)
  /\ t.pc \in InHand => InHandOK(t)
  /\ t.pc \in {"get", "note", "refund", "refunded"} => t.draft \in Drafts

BooksOK ==
  /\ \A e \in events : e.type \in {"SENT", "RECEIVED"} => Committed(e.draft)
  /\ \A d \in Drafts : money[d] = "received" => [type |-> "RECEIVED", draft |-> d] \in events
  /\ \A d \in Drafts : owner[d] # NoRecord => money[d] # "none"

MoneyInv ==
  /\ TypeOK /\ CommittedOnRow /\ BooksOK
  /\ \A r \in Records : Backed(r, row[r])
  /\ \A p \in Procs : TaskOK(p, task[p])
=============================================================================
