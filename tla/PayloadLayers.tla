---------------------------- MODULE PayloadLayers ----------------------------
(***************************************************************************)
(* What a client is sent for a record: the dictionaries that get_payload   *)
(* lays over one another, those of the plan, of the provider's             *)
(* configuration and of the record.  A payload is a function from keys to  *)
(* values; a value is the name of the layer it comes from, but for a       *)
(* delivery mechanism, which also selects a configuration.                 *)
(***************************************************************************)
CONSTANTS
  Mechanisms,   \* codes of delivery mechanisms
  Cash,         \* cash_over_the_counter
  Offices, NoOffice,
  Keys          \* keys of a payload besides the mechanism

NoMechanism == "none"

ASSUME PayloadAssumption ==
  /\ Cash \in Mechanisms /\ NoMechanism \notin Mechanisms
  /\ NoOffice \notin Offices
  /\ "delivery_mechanism" \notin Keys

Layer(keys, name) == [k \in keys |-> name]
Layers(keys, name) == {Layer(ks, name) : ks \in SUBSET keys}
Only(k, v) == [l \in {k} |-> v]
\* The dictionary p after p.update(q).
Update(p, q) == [k \in DOMAIN p \cup DOMAIN q |-> IF k \in DOMAIN q THEN q[k] ELSE p[k]]

\* A plan's payload may name a mechanism, and its columns too; a plan has a country or
\* not, and here one at most is of interest.
PlanPayloads ==
  Layers(Keys, "plan") \cup
  {Update(p, Only("delivery_mechanism", d)) : p \in Layers(Keys, "plan"), d \in Mechanisms}
PlanRows ==
  [payload : PlanPayloads, mechanism : Mechanisms \cup {NoMechanism},
   country : BOOLEAN, office : Offices \cup {NoOffice}]

\* The provider's general configuration, and its configurations for the country by
\* mechanism: one each, whatever office they are for.
ConfigurationRow == [payload : Layers(Keys, "special"), office : Offices \cup {NoOffice}]
Configurations ==
  [general : Layers(Keys, "general"), special : UNION {[ms -> ConfigurationRow] : ms \in SUBSET Mechanisms}]

RecordPayloads == Layers(Keys \cup {"delivery_mechanism"}, "record")

\* FSPProcessor.get_configuration: the office is not looked at.
Configuration(c, mechanism) ==
  IF mechanism \notin DOMAIN c.special THEN c.general
  ELSE Update(Update(Update(c.general, Only("delivery_mechanism", mechanism)),
                     Only("destination_country", "country")),
              c.special[mechanism].payload)

\* PaymentInstruction.get_payload: what selects the configuration is the mechanism that
\* the payload names, not the plan's column.
MechanismNamed(plan) ==
  IF "delivery_mechanism" \in DOMAIN plan.payload THEN plan.payload["delivery_mechanism"] ELSE Cash
Columns(plan) ==
  IF plan.mechanism = NoMechanism THEN plan.payload
  ELSE Update(plan.payload, Only("delivery_mechanism", plan.mechanism))
PlanPayload(plan, c) ==
  IF plan.country THEN Update(Columns(plan), Configuration(c, MechanismNamed(plan)))
  ELSE Columns(plan)

\* PaymentRecord.get_payload
Own == Layer({"payment_record_code", "remote_id"}, "own")
RecordPayload(rec, plan, c) == Update(Update(PlanPayload(plan, c), rec), Own)

\* PaymentInstruction.configuration, which the Config buttons of a plan with a country
\* lead to: the column selects, and the office must be the plan's, or both have none.
ConfigurationShown(plan, c) ==
  {m \in DOMAIN c.special : m = plan.mechanism /\ c.special[m].office = plan.office}

-----------------------------------------------------------------------------
\* A record is sent under its own code and id, and but for these as its own payload
\* says, whatever its plan and the configurations say.
OwnFirst ==
  \A plan \in PlanRows, c \in Configurations, rec \in RecordPayloads :
    /\ \A k \in DOMAIN Own : RecordPayload(rec, plan, c)[k] = "own"
    /\ \A k \in DOMAIN rec \ DOMAIN Own : RecordPayload(rec, plan, c)[k] = rec[k]

\* When the payload of a plan names the mechanism of its column, the plan's transfers
\* are of that mechanism, and what HOPE says of any other key yields to the
\* configuration of the mechanism in the country, or else to the general one.
Configured(plan, c, k) ==
  LET chosen == plan.country /\ plan.mechanism \in DOMAIN c.special
  IN  IF chosen /\ k \in DOMAIN c.special[plan.mechanism].payload THEN "special"
      ELSE IF chosen /\ k = "destination_country" THEN "country"
      ELSE IF plan.country /\ k \in DOMAIN c.general THEN "general" ELSE plan.payload[k]
LayersInOrder ==
  \A plan \in PlanRows, c \in Configurations :
    MechanismNamed(plan) = plan.mechanism =>
      \A k \in DOMAIN PlanPayload(plan, c) :
        PlanPayload(plan, c)[k] = IF k = "delivery_mechanism" THEN plan.mechanism
                                                              ELSE Configured(plan, c, k)

\* ... and of such a plan with a country the configuration that the admin's button
\* shows is one that its transfers are made with: no key of it is lost.
ShownIsApplied ==
  \A plan \in PlanRows, c \in Configurations :
    plan.country /\ MechanismNamed(plan) = plan.mechanism =>
      \A m \in ConfigurationShown(plan, c) :
        \A k \in DOMAIN c.special[m].payload :
          k \in DOMAIN PlanPayload(plan, c) /\ PlanPayload(plan, c)[k] = "special"
=============================================================================
