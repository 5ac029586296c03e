-------------------------------- MODULE Topics --------------------------------
(***************************************************************************)
(* The Kafka topic of an event, for events BMCs send (rest.go) and for     *)
(* events the River collectors make of polled data (polling.go).           *)
(***************************************************************************)
(***************************************************************************)
(* Events.  A MessageId is a registry prefix and the last word of its      *)
(* entry; oem tells whether the event has an Oem object.                   *)
(***************************************************************************)
Registry == {"CrayTelemetry", "CrayFabricTelemetry", "CrayFabricPerfTelemetry",
             "CrayFabricCritTelemetry", "CrayFabricCriticalTelemetry",
             "CrayFabricHealth", "other"}
Sensor == {"Temperature", "Voltage", "Power", "Current", "Energy", "Fan",
           "Rotational", "Pressure", "LiquidFlow", "Humidity", "Metric",
           "PowerFactor", "Frequency", "Percent", "other"}
Event == [registry : Registry, sensor : Sensor, oem : BOOLEAN]

\* the topic of a CrayTelemetry event by its sensor; others have none
SensorTopic ==
  [s \in Sensor \ {"other"} |->
     CASE s = "Temperature" -> "cray-telemetry-temperature"
       [] s = "Voltage" -> "cray-telemetry-voltage"
       [] s \in {"Power", "Current"} -> "cray-telemetry-power"
       [] s = "Energy" -> "cray-telemetry-energy"
       [] s \in {"Fan", "Rotational"} -> "cray-telemetry-fan"
       [] s = "Pressure" -> "cray-telemetry-pressure"
       [] s = "LiquidFlow" -> "cray-telemetry-liquidflow"
       [] s = "Humidity" -> "cray-telemetry-humidity"
       [] s = "Metric" -> "cray-telemetry-metric"
       [] s = "PowerFactor" -> "cray-telemetry-powerfactor"
       [] s = "Frequency" -> "cray-telemetry-frequency"
       [] s = "Percent" -> "cray-telemetry-percent"]
NoTopic == "none"

\* the chain of HasPrefix and HasSuffix tests in parseRequest
RestTopic(ev) ==
  CASE ev.registry = "CrayTelemetry" ->
         IF ev.sensor \in DOMAIN SensorTopic THEN SensorTopic[ev.sensor]
         ELSE NoTopic
    [] ev.registry = "CrayFabricTelemetry" -> "cray-fabric-telemetry"
    [] ev.registry = "CrayFabricPerfTelemetry" -> "cray-fabric-perf-telemetry"
    [] ev.registry \in {"CrayFabricCritTelemetry",
                        "CrayFabricCriticalTelemetry"} ->
         "cray-fabric-crit-telemetry"
    [] ev.registry = "CrayFabricHealth" -> "cray-fabric-health"
    [] OTHER -> "cray-dmtf-resource-event"

Topic == {RestTopic(ev) : ev \in Event} \ {NoTopic}

(***************************************************************************)
(* What the collectors make: CrayTelemetry events, and the power state     *)
(* changes of PDU outlets.                                                 *)
(***************************************************************************)
MessageId == {"Power", "Voltage", "Energy", "Current", "Temperature", "Fan",
              "ResourcePowerStateChanged"}

\* the event a BMC would send with that MessageId
AsSent(id) ==
  IF id = "ResourcePowerStateChanged"
  THEN [registry |-> "other", sensor |-> "other", oem |-> FALSE]
  ELSE [registry |-> "CrayTelemetry", sensor |-> id, oem |-> TRUE]

\* Mutant: the case of Current has no fallthrough.
PollTopic_NoFallthrough(id) ==
  CASE id = "Power" -> "cray-telemetry-power"
    [] id = "Voltage" -> "cray-telemetry-voltage"
    [] id = "Energy" -> "cray-telemetry-energy"
    [] id = "Temperature" -> "cray-telemetry-temperature"
    [] id = "Fan" -> "cray-telemetry-fan"
    [] id = "ResourcePowerStateChanged" -> "cray-dmtf-resource-event"
    [] OTHER -> NoTopic

\* the switch in collectData
PollTopic(id) ==
  CASE id \in {"Current", "Power"} -> "cray-telemetry-power"
    [] id = "Voltage" -> "cray-telemetry-voltage"
    [] id = "Energy" -> "cray-telemetry-energy"
    [] id = "Temperature" -> "cray-telemetry-temperature"
    [] id = "Fan" -> "cray-telemetry-fan"
    [] id = "ResourcePowerStateChanged" -> "cray-dmtf-resource-event"
    [] OTHER -> NoTopic
===============================================================================
