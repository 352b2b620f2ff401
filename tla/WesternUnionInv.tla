-------------------------- MODULE WesternUnionInv --------------------------
(***************************************************************************)
(* The inductive invariants behind the safety properties of WesternUnion.  *)
(* TLC checks them on small instances; WesternUnionProofs proves them.     *)
(***************************************************************************)
EXTENDS WesternUnion

Transferred == {"TRANSFERRED_TO_FSP", "TRANSFERRED_TO_BENEFICIARY", "REFUND", "PURGED"}

\* What a row of record r, in the table or in the hand of a process, may say.
Backed(r, x) ==
  /\ x.mtcn # NoMtcn => owner[x.mtcn] = r
  /\ x.status \in Transferred => \E c \in Mtcns : owner[c] = r /\ Accepted(c)
  /\ x.status = "TRANSFERRED_TO_BENEFICIARY" => \E c \in Mtcns : owner[c] = r /\ PaidOnce(c)

\* What a process at work knows at each point.
Knows(t) ==
  /\ t.rec \in Records /\ Backed(t.rec, t.copy)
  /\ t.pc \in {"codes", "quote", "store", "refresh", "commit"}
       => t.mtcn \in Mtcns /\ owner[t.mtcn] = t.rec
  /\ t.pc \in {"refresh", "commit"} /\ t.arg = "ok" => Accepted(t.mtcn)
  /\ t.pc \in {"ask", "update", "apply"} => t.copy.mtcn \in Mtcns
  /\ t.pc = "apply" => [type |-> t.arg, mtcn |-> t.copy.mtcn] \in nis
  /\ t.pc = "update" => /\ Accepted(t.copy.mtcn)
                        /\ t.arg = "paid" => PaidOnce(t.copy.mtcn)

\* Western Union's own books are in order.
BooksOK ==
  /\ \A n \in nis : Accepted(n.mtcn)
  /\ \A c \in Mtcns : /\ owner[c] = NoRecord => transfer[c] = "unknown"
                      /\ transfer[c] = "paid" => PaidOnce(c)

\* Inductive in every deployment.
HonestInv ==
  /\ \A r \in Records : Backed(r, row[r])
  /\ \A p \in Procs : task[p] # Idle => Knows(task[p])
  /\ BooksOK

Inv == TypeOK /\ HonestInv

-----------------------------------------------------------------------------
(* A serialised deployment.                                                *)

\* Western Union has accepted no transfer for the record.
Untouched(r) == \A c \in Mtcns : Accepted(c) => owner[c] # r

Preparing == {"validate", "failRejected", "codes", "quote", "store"}
Settling == {"refresh", "commit"}

\* Before the store, the sender has the record for itself: its copy is the row x.
SenderAlone(t, x) ==
  /\ t.pc \in Preparing => t.copy = x /\ x.status = "PENDING" /\ Untouched(t.rec)
  /\ t.pc \in {"quote", "store"} => t.copy.mtcn = t.mtcn
  /\ t.pc = "again" => t.copy.status # "PENDING" \/ (t.copy = x /\ Untouched(t.rec))
  /\ t.pc \in Preparing \cup Settling \cup {"again"}

\* A notification is only ever handled for a transfer that was accepted.
HookLate(t) ==
  /\ ~Untouched(t.rec)
  /\ t.pc = "again" => t.copy.status # "PENDING"
  /\ t.pc \in {"apply", "again"}

\* What holds of the task t of process p, at work on a record whose row is x: its
\* copy has the number of the row, and cannot put a settled row back to PENDING.
Orderly(p, t, x) ==
  /\ t.copy.mtcn = x.mtcn
  /\ t.copy.status # "PENDING" => x.status # "PENDING"
  /\ p \in Senders => SenderAlone(t, x)
  /\ p \in Hooks => HookLate(t)
  /\ p \in Operators => t.copy.status # "PENDING"

\* Inductive in a serialised deployment, together with Inv.
SerialInv ==
  /\ \A c \in Mtcns : Accepted(c) => row[owner[c]].mtcn = c
  /\ \A p \in Procs : task[p] # Idle => Orderly(p, task[p], row[task[p].rec])
  /\ \A r \in Records : row[r].status = "PENDING" /\ ~Untouched(r)
       => \E p \in Senders : task[p].rec = r /\ task[p].pc \in Settling
=============================================================================
