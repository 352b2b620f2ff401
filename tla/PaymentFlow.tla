---------------------------- MODULE PaymentFlow ----------------------------
(***************************************************************************)
(* The two finite state machines of apps/gateway/flows.py.  A transition   *)
(* of the viewflow library has a set of source states and one target; it   *)
(* raises TransitionNotAllowed (or its subclass NoTransition) outside its  *)
(* sources, and on success the flow saves the whole object.                *)
(***************************************************************************)

\* PaymentRecordState: the life of one payment to one beneficiary.
RecordStates ==
  {"PENDING", "TRANSFERRED_TO_FSP", "TRANSFERRED_TO_BENEFICIARY",
   "CANCELLED", "REFUND", "PURGED", "ERROR"}

\* PaymentRecordFlow: sources and target of every transition of a record.
RecordFlow ==
  [store   |-> [from |-> {"PENDING"},                    to |-> "TRANSFERRED_TO_FSP"],
   confirm |-> [from |-> {"TRANSFERRED_TO_FSP"},         to |-> "TRANSFERRED_TO_BENEFICIARY"],
   purge   |-> [from |-> {"TRANSFERRED_TO_FSP"},         to |-> "PURGED"],
   refund  |-> [from |-> {"TRANSFERRED_TO_FSP"},         to |-> "REFUND"],
   cancel  |-> [from |-> RecordStates,                   to |-> "CANCELLED"],
   fail    |-> [from |-> RecordStates,                   to |-> "ERROR"],
   unpay   |-> [from |-> {"TRANSFERRED_TO_BENEFICIARY"}, to |-> "TRANSFERRED_TO_FSP"]]

\* PaymentInstructionState: the life of a payment plan.
InstructionStates ==
  {"DRAFT", "OPEN", "CLOSED", "READY", "PROCESSED", "FINALIZED", "ABORTED"}

\* PaymentInstructionFlow: sources and target of every transition of a plan.
InstructionFlow ==
  [open     |-> [from |-> {"DRAFT"},           to |-> "OPEN"],
   close    |-> [from |-> {"OPEN"},            to |-> "CLOSED"],
   ready    |-> [from |-> {"CLOSED"},          to |-> "READY"],
   process  |-> [from |-> {"READY"},           to |-> "PROCESSED"],
   finalize |-> [from |-> {"OPEN", "CLOSED", "READY", "PROCESSED"}, to |-> "FINALIZED"],
   abort    |-> [from |-> InstructionStates,   to |-> "ABORTED"]]
=============================================================================
