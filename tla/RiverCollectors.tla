---------------------------- MODULE RiverCollectors ----------------------------
(***************************************************************************)
(* The River collectors (internal/river_collector): what events each       *)
(* vendor's collector makes of a polled payload.                           *)
(*                                                                         *)
(* A payload keeps the arrays of the Redfish resource and, of an element,  *)
(* what names it; a reading is the place it was read from, so that one can *)
(* see where every value ends up.  Timestamps, Location and                *)
(* TelemetrySource are the same for all and left out.                      *)
(***************************************************************************)
EXTENDS Integers, Sequences, FiniteSets, SequencesExt

CONSTANTS
  Text,        \* name |-> its length, and what follows its third character
  Oids,        \* @odata.id of the outlets of a PDU
  OidNumber,   \* the last number in each, or NotANumber
  NotANumber,  \* text that ParseUint rejects
  Undecodable  \* a payload json.Unmarshal rejects

Names == DOMAIN Text
MemberIds == Nat \cup {NotANumber}
Element == [Name : Names, MemberId : MemberIds, PhysicalContext : STRING]

\* the structs payloads are decoded into
Power == [PowerControl : Seq(Element), PowerSupplies : Seq(Element),
          Voltages : Seq(Element)]
EnclosureThermal == [Temperatures : Seq(Element), Fans : Seq(Element)]
Outlet == [Name : {"Outlet"}, Oid : Oids, PowerState : STRING]
\* letter is the code of the branch's letter; Lines the keys of
\* PolyPhasePowerWatts that contain "Line"
Branch == [Name : {"Branch"}, letter : 65 .. 90, Lines : SUBSET STRING]
\* the keys of the three maps, by their place in the order of strings
Mains == [Name : {"Mains"}, PolyPhasePowerWatts : SUBSET Nat,
          PolyPhaseVoltage : SUBSET Nat, PolyPhaseCurrentAmps : SUBSET Nat]
\* any other Name, none, or one that is not a string
OtherPdu == [Name : {"other", "none", "number"}]

\* what a collector decodes the answers to its requests into
Decoded(v, type) ==
  CASE v = "hpepdu" -> Outlet \cup Branch \cup Mains \cup OtherPdu
    [] v # "hpepdu" /\ type = "Power" -> Power
    [] OTHER -> EnclosureThermal

ASSUME CollectorAssumption ==
  /\ \A n \in Names : Text[n].len \in Nat
  /\ OidNumber \in [Oids -> Nat \cup {NotANumber}]
  /\ NotANumber \notin Nat

(***************************************************************************)
(* Events.                                                                 *)
(***************************************************************************)
NoIndex == -1
\* CrayJSONPayload: dev is the concatenation DeviceSpecificContext is made of
CrayJSONPayload(ctx, dev, index, value) ==
  [ctx |-> ctx, dev |-> dev, index |-> index, value |-> value]
Reading(array, at, field) == [array |-> array, at |-> at, field |-> field]

NewEvent(id, sensors) == <<[id |-> id, sensors |-> sensors, args |-> <<>>]>>
EventIf(cond, id, sensors) == IF cond THEN NewEvent(id, sensors) ELSE <<>>

\* Mutant: the number is read into an int8.
Index_Int8(m) ==
  IF m = NotANumber THEN 0 ELSE IF m > 127 THEN 127 ELSE m

\* ParseUint(s, 10, 8) with the error ignored: 0 for text that is no number,
\* the largest value for a number that is too large
Index(m) == IF m = NotANumber THEN 0 ELSE IF m > 255 THEN 255 ELSE m

\* a finite set of numbers as a sequence, in their order
Ascending(S) ==
  CHOOSE s \in [1 .. Cardinality(S) -> S] :
    \A i, j \in 1 .. Cardinality(S) : i < j => s[i] < s[j]

\* only the sensors of the elements with one of these names
Named(array, names, sensors) ==
  LET at == Ascending({i \in DOMAIN array : array[i].Name \in names})
  IN [k \in DOMAIN at |-> sensors[at[k]]]

(***************************************************************************)
(* One collector per vendor.                                               *)
(***************************************************************************)
GigabytePower(p) ==
  LET controls == [i \in DOMAIN p.PowerControl |-> LET c == p.PowerControl[i] IN
        CrayJSONPayload(c.PhysicalContext, <<c.PhysicalContext, "_PowerControl">>,
          Index(c.MemberId), Reading("PowerControl", i, "AverageConsumedWatts"))]
      volts == [i \in DOMAIN p.Voltages |-> LET v == p.Voltages[i] IN
        CrayJSONPayload(v.PhysicalContext, <<v.Name>>, NoIndex,
          Reading("Voltages", i, "ReadingVolts"))]
  IN EventIf(p.PowerControl # <<>>, "Power",
             Named(p.PowerControl,
                   {"Chassis Power Control", "Server Power Control"}, controls))
     \o EventIf(p.Voltages # <<>>, "Voltage", volts)

\* the context of a fan is its own at Gigabyte, "System" at the others
FanEvent(p, ownContext) ==
  LET fans == [i \in DOMAIN p.Fans |-> LET f == p.Fans[i] IN
        CrayJSONPayload(IF ownContext THEN f.PhysicalContext ELSE "System",
          <<f.Name>>, Index(f.MemberId), Reading("Fans", i, "Reading"))]
  IN EventIf(p.Fans # <<>>, "Fan", fans)
TemperatureEvent(p) ==
  LET temps == [i \in DOMAIN p.Temperatures |-> LET t == p.Temperatures[i] IN
        CrayJSONPayload(t.PhysicalContext, <<t.Name>>, Index(t.MemberId),
          Reading("Temperatures", i, "ReadingCelsius"))]
  IN EventIf(p.Temperatures # <<>>, "Temperature", temps)

GigabyteThermal(p) ==
  FanEvent(p, TRUE) \o TemperatureEvent(p)

\* Intel's events are made also when there is nothing in them.
PowerSupplyVolts(p) ==
  [i \in DOMAIN p.PowerSupplies |-> LET s == p.PowerSupplies[i] IN
     CrayJSONPayload("PowerSupplyBay", <<"PowerSupplyBay_", s.MemberId>>,
       Index(s.MemberId), Reading("PowerSupplies", i, "LineInputVoltage"))]

IntelPower(p) ==
  LET controls == [i \in DOMAIN p.PowerControl |->
        CrayJSONPayload("Chassis", <<"Chassis_PowerControl">>,
          Index(p.PowerControl[i].MemberId),
          Reading("PowerControl", i, "PowerConsumedWatts"))]
      volts == [i \in DOMAIN p.Voltages |->
        CrayJSONPayload("SystemBoard", <<Text[p.Voltages[i].Name].rest>>, 0,
          Reading("Voltages", i, "ReadingVolts"))]
  IN NewEvent("Power", Named(p.PowerControl, {"Server Power Control"}, controls))
     \o NewEvent("Voltage", PowerSupplyVolts(p) \o volts)

IntelThermal(p) ==
  LET temps == [i \in DOMAIN p.Temperatures |->
        CrayJSONPayload("Baseboard", <<p.Temperatures[i].Name>>, 0,
          Reading("Temperatures", i, "ReadingCelsius"))]
  IN NewEvent("Temperature", temps)

HpePower(p) ==
  LET controls == [i \in DOMAIN p.PowerControl |->
        CrayJSONPayload("PowerControlIntake", <<"PowerIntake">>,
          Index(p.PowerControl[i].MemberId),
          Reading("PowerControl", i, "AverageConsumedWatts"))]
  IN EventIf(p.PowerControl # <<>>, "Power", controls)
     \o EventIf(p.PowerSupplies # <<>>, "Voltage", PowerSupplyVolts(p))

HpeThermal(p) == FanEvent(p, FALSE) \o TemperatureEvent(p)

OpenBmcPower(p) ==
  LET all == [i \in DOMAIN p.PowerControl |-> LET c == p.PowerControl[i] IN
        CrayJSONPayload("Chassis", <<c.Name>>, Index(c.MemberId),
          Reading("PowerControl", i, "PowerConsumedWatts"))]
      controls == Named(p.PowerControl, {"Chassis Power Control"}, all)
      supplies == [i \in DOMAIN p.PowerSupplies |-> LET s == p.PowerSupplies[i] IN
        CrayJSONPayload("PowerSupplyBay", <<s.Name>>, Index(s.MemberId),
          Reading("PowerSupplies", i, "PowerOutputWatts"))]
      volts == [i \in DOMAIN p.Voltages |->
        CrayJSONPayload("SystemBoard", <<p.Voltages[i].Name>>, 0,
          Reading("Voltages", i, "ReadingVolts"))]
  IN EventIf(controls # <<>>, "Power", controls)
     \o EventIf(supplies # <<>>, "Power", supplies)
     \o EventIf(volts # <<>>, "Voltage", volts)

OpenBmcThermal(p) == FanEvent(p, FALSE) \o TemperatureEvent(p)

(***************************************************************************)
(* HPE PDUs: every outlet, branch and main is polled on its own.  The      *)
(* change of an outlet's power state depends on the state remembered.      *)
(***************************************************************************)
ParseOutlet(p, last) ==
  LET One(id, field) ==
        NewEvent(id, <<CrayJSONPayload("Outlet", <<>>, Index(OidNumber[p.Oid]),
                                    Reading("Outlet", p.Oid, field))>>)
  IN One("Power", "PowerWatts") \o One("Current", "CurrentAmps")
     \o One("Voltage", "Voltage") \o One("Energy", "EnergykWh")
     \o IF p.Oid \in DOMAIN last /\ last[p.Oid] # p.PowerState
        THEN <<[id |-> "ResourcePowerStateChanged", sensors |-> <<>>,
                args |-> <<p.Oid, p.PowerState>>]>>
        ELSE <<>>

\* The loop over the map keeps the last key with "Line" it meets, in any
\* order: the set of what may come out.
ParseBranch(p) ==
  LET One(id, field, line) ==
        NewEvent(id, <<CrayJSONPayload("Branch", line, p.letter - 64,
                                    Reading("Branch", p.letter, field))>>)
      lines == IF p.Lines = {} THEN {<<>>}
               ELSE {<<l, "-BR", p.letter>> : l \in p.Lines}
  IN {One("Current", "CurrentAmps", l) \o One("Energy", "EnergykWh", l) :
        l \in lines}

ParseMain(p) ==
  LET Phases(keys, ctx, field) ==
        LET names == Ascending(keys) IN
        [i \in DOMAIN names |->
           CrayJSONPayload(ctx, <<names[i]>>, i - 1,
                           Reading("Mains", names[i], field))]
  IN NewEvent("Power", Phases(p.PolyPhasePowerWatts, "Phase", "PolyPhasePowerWatts"))
     \o NewEvent("Voltage", Phases(p.PolyPhaseVoltage, "Phase", "PolyPhaseVoltage"))
     \o NewEvent("Current",
              Phases(p.PolyPhaseCurrentAmps, "Line", "PolyPhaseCurrentAmps"))

HpePduPower(p, last) ==
  CASE p.Name = "Outlet" -> {ParseOutlet(p, last)}
    [] p.Name = "Branch" -> ParseBranch(p)
    [] p.Name = "Mains" -> {ParseMain(p)}
    [] OTHER -> {<<>>}

(***************************************************************************)
(* The interface.                                                          *)
(***************************************************************************)
Vendor == {"gigabyte", "intel", "hpe", "openbmc", "hpepdu"}
TelemetryType == {"Power", "Thermal"}

\* the sequences of events a collector may make of a payload; last holds the
\* Sensors map of a PDU's collector
GetEventsForPayload(v, type, p, last) ==
  IF p = Undecodable THEN {<<>>}
  ELSE CASE v = "hpepdu" -> IF type = "Power" THEN HpePduPower(p, last) ELSE {<<>>}
         [] v = "gigabyte" ->
              {IF type = "Power" THEN GigabytePower(p) ELSE GigabyteThermal(p)}
         [] v = "intel" ->
              {IF type = "Power" THEN IntelPower(p) ELSE IntelThermal(p)}
         [] v = "hpe" -> {IF type = "Power" THEN HpePower(p) ELSE HpeThermal(p)}
         [] v = "openbmc" ->
              {IF type = "Power" THEN OpenBmcPower(p) ELSE OpenBmcThermal(p)}

\* Payloads that make a collector panic: a slice out of range in
\* Name[3:len(Name)] and in f[len(f)-1], a failed type assertion on Name.
\* Nothing recovers in a collectData goroutine: the process ends.
Panics(v, type, p) ==
  /\ p # Undecodable
  /\ \/ /\ v = "intel" /\ type = "Power"
        /\ \E i \in DOMAIN p.Voltages : Text[p.Voltages[i].Name].len < 3
     \/ /\ v = "hpepdu"
        /\ \/ p.Name = "number"
           \/ p.Name = "Outlet" /\ OidNumber[p.Oid] = NotANumber
================================================================================
