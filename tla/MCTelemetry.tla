----------------------------- MODULE MCTelemetry -----------------------------
(***************************************************************************)
(* Small instances of Telemetry: one endpoint of each vendor, and payloads *)
(* in which one array at a time takes every value of up to two elements.   *)
(***************************************************************************)
EXTENDS Telemetry, TLC

CONSTANTS p1, p2
Symmetry == Permutations(Processors)

MCText ==
  [n \in {"Chassis Power Control", "Server Power Control", "BB 5V", "BB 3V",
          "P5V", "5V"} |->
     CASE n = "BB 5V" -> [len |-> 5, rest |-> "5V"]
       [] n = "BB 3V" -> [len |-> 5, rest |-> "3V"]
       [] n = "P5V" -> [len |-> 3, rest |-> ""]
       [] n = "5V" -> [len |-> 2, rest |-> ""]
       [] OTHER -> [len |-> 21, rest |-> "other"]]

MCOids == {"outlet1", "outlet1/", "outlet"}
MCOidNumber ==
  [o \in MCOids |-> IF o = "outlet" THEN NotANumber ELSE 1]

Elements(names, ids) ==
  {[Name |-> n, MemberId |-> i, PhysicalContext |-> "Board"] : n \in names, i \in ids}
UpToTwo(S) == {<<>>} \cup {<<x>> : x \in S} \cup {<<x, y>> : x, y \in S}
One(name) == <<[Name |-> name, MemberId |-> 1, PhysicalContext |-> "Board"]>>
\* numbers that fit, the first that does not, and no number
Ids == {254, 255, 256, NotANumber}

PowerPayloads ==
  {Undecodable}
  \cup [PowerControl : UpToTwo(Elements({"Server Power Control"}, Ids) \cup
                               Elements({"Chassis Power Control", "BB 5V"}, {0})),
        PowerSupplies : {One("BB 5V")}, Voltages : {One("BB 5V")}]
  \cup [PowerControl : {<<>>}, PowerSupplies : UpToTwo(Elements({"BB 5V"}, {255, 256})),
        Voltages : {<<>>}]
  \cup [PowerControl : {One("Server Power Control")}, PowerSupplies : {<<>>},
        Voltages : UpToTwo(Elements({"BB 5V", "P5V", "5V"}, {0}))]
ThermalPayloads ==
  {Undecodable}
  \cup [Fans : UpToTwo(Elements({"BB 5V"}, {254, 255})), Temperatures : {One("BB 5V")}]
  \cup [Fans : {<<>>}, Temperatures : UpToTwo(Elements({"BB 5V", "BB 3V"}, {0}))]

MCUrls ==
  [v \in Vendor |-> [t \in TelemetryType |->
     IF v # "hpepdu" THEN {t}
     ELSE IF t = "Power" THEN {"outlet1", "circuit"} ELSE {}]]

OutletPayloads(o) ==
  {[Name |-> "Outlet", Oid |-> o, PowerState |-> s] : s \in {"On", "Off"}}
MCPayloads ==
  [v \in Vendor |->
     IF v # "hpepdu" THEN [Power |-> PowerPayloads, Thermal |-> ThermalPayloads]
     ELSE [outlet1 |-> OutletPayloads("outlet1")
                       \cup [Name : {"Outlet"}, Oid : {"outlet1/", "outlet"},
                             PowerState : {"On"}],
           circuit |-> [Name : {"Mains"}, PolyPhasePowerWatts : {{1, 2}},
                        PolyPhaseVoltage : {{2, 3}}, PolyPhaseCurrentAmps : {{}}]
                       \cup [Name : {"Branch"}, letter : {66},
                             Lines : {{"Line1", "Line2"}}]
                       \cup [Name : {"number"}]]]

MCFleets == {[e \in {"e1"} |-> v] : v \in Vendor}
MCMaxPolls == [v \in Vendor |-> IF v = "hpepdu" THEN 2 ELSE 1]
\* a broker that leaves out the topic of Energy
MCPublishes ==
  [b \in Brokers |-> {"cray-telemetry-power", "cray-telemetry-voltage",
                      "cray-telemetry-temperature", "cray-telemetry-fan",
                      "cray-dmtf-resource-event"}]
==============================================================================
