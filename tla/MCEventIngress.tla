---------------------------- MODULE MCEventIngress ----------------------------
(***************************************************************************)
(* A small instance of EventIngress: two brokers, the first for telemetry  *)
(* and events, the second for telemetry only.                              *)
(***************************************************************************)
EXTENDS EventIngress

Telemetry(s, p) == [registry |-> "CrayTelemetry", sensor |-> s, oem |-> TRUE,
                    phys |-> p, origin |-> "none"]
PowerEvent(o) == [registry |-> "other", sensor |-> "other", oem |-> FALSE,
                  phys |-> "", origin |-> o]
Fabric == [registry |-> "CrayFabricHealth", sensor |-> "other", oem |-> TRUE,
           phys |-> "given", origin |-> "object"]

MCPath == [r \in Requests |-> IF r = "r1" THEN "x1" ELSE "x2"]
Posted(ctx, form, events) ==
  [json |-> TRUE, ctx |-> ctx, form |-> form, events |-> events]

MCBodies ==
  [r \in Requests |->
     LET x == MCPath[r] IN
     {NoBody,
      Posted(x, "array", <<PowerEvent("object"), PowerEvent("number")>>),
      Posted("", "object", <<PowerEvent("string")>>),
      Posted(x, "array", <<Telemetry("Current", ""), PowerEvent("object")>>),
      Posted(x, "array", <<Telemetry("other", ""), Telemetry("Voltage", "")>>),
      Posted("", "array", <<Fabric, Telemetry("PowerFactor", "given")>>)}]

MCPublishes ==
  [b \in Brokers |->
     {"cray-telemetry-power", "cray-telemetry-voltage",
      "cray-telemetry-powerfactor"} \cup
     IF b = 1 THEN {"cray-dmtf-resource-event"} ELSE {"cray-fabric-health"}]
==============================================================================
