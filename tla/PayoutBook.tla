------------------------------ MODULE PayoutBook ------------------------------
(***************************************************************************)
(* The weaker promise that every provider's table of payment records keeps *)
(* when stale rows may put a record back to unsent: the provider accepts   *)
(* at most one transfer per record, and the table never claims more than   *)
(* the provider has done.  PayoutLedger adds that a record is never unsent *)
(* again and that nothing is accepted for a record that is closed.         *)
(***************************************************************************)
CONSTANT Records

VARIABLES
  claim,  \* what the table says of a record
  fact    \* the most the provider has ever done for it

Claims == {"unsent", "sent", "paid", "closed"}
Facts == {"nothing", "accepted", "paid"}

\* The facts that entitle the table to a claim.
Evidence ==
  [unsent |-> Facts, closed |-> Facts, sent |-> {"accepted", "paid"}, paid |-> {"paid"}]

Init ==
  /\ claim = [r \in Records |-> "unsent"]
  /\ fact = [r \in Records |-> "nothing"]

\* The provider takes a transfer on, for the first and only time.
Accept(r) ==
  /\ fact[r] = "nothing"
  /\ fact' = [fact EXCEPT ![r] = "accepted"]
  /\ UNCHANGED claim

\* The provider pays the beneficiary of a transfer it has accepted.
PayOut(r) ==
  /\ fact[r] = "accepted"
  /\ fact' = [fact EXCEPT ![r] = "paid"]
  /\ UNCHANGED claim

\* The table records an outcome it has evidence for, or forgets one.
Record(r) ==
  /\ \E k \in Claims :
       /\ fact[r] \in Evidence[k]
       /\ claim' = [claim EXCEPT ![r] = k]
  /\ UNCHANGED fact

Next == \E r \in Records : Accept(r) \/ PayOut(r) \/ Record(r)

Spec == Init /\ [][Next]_<<claim, fact>>
=============================================================================
