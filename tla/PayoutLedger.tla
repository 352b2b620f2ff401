---------------------------- MODULE PayoutLedger ----------------------------
(***************************************************************************)
(* What the gateway's table of payment records promises about the money a  *)
(* financial service provider moves.  A record is unsent until something   *)
(* is recorded about it and never unsent again; the provider accepts at    *)
(* most one transfer per record, and only while the record is unsent; and  *)
(* the table never claims more than the provider has done.                 *)
(***************************************************************************)
CONSTANT Records

VARIABLES
  claim,  \* what the table says of a record
  fact    \* the most the provider has ever done for it

Claims == {"unsent", "sent", "paid", "closed"}
Facts == {"nothing", "accepted", "paid"}

\* The facts that entitle the table to a claim.  "closed" covers the records
\* that are cancelled or failed, which claims nothing about the money.
Evidence ==
  [unsent |-> Facts, closed |-> Facts, sent |-> {"accepted", "paid"}, paid |-> {"paid"}]

Init ==
  /\ claim = [r \in Records |-> "unsent"]
  /\ fact = [r \in Records |-> "nothing"]

\* The provider takes a transfer on, for the first and only time.
Accept(r) ==
  /\ claim[r] = "unsent" /\ fact[r] = "nothing"
  /\ fact' = [fact EXCEPT ![r] = "accepted"]
  /\ UNCHANGED claim

\* The provider pays the beneficiary of a transfer it has accepted.
PayOut(r) ==
  /\ fact[r] = "accepted"
  /\ fact' = [fact EXCEPT ![r] = "paid"]
  /\ UNCHANGED claim

\* The table records an outcome it has evidence for.
Record(r) ==
  /\ \E k \in Claims \ {"unsent"} :
       /\ fact[r] \in Evidence[k]
       /\ claim' = [claim EXCEPT ![r] = k]
  /\ UNCHANGED fact

Next == \E r \in Records : Accept(r) \/ PayOut(r) \/ Record(r)

Spec == Init /\ [][Next]_<<claim, fact>>
=============================================================================
