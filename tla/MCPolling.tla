------------------------------ MODULE MCPolling ------------------------------
(***************************************************************************)
(* Small instances of Polling: an OpenBMC node that answers Chassis/1 by   *)
(* mistake, a PDU made by cis with one outlet and one main, the same       *)
(* without the main, and hardware that answers no probe.                   *)
(***************************************************************************)
EXTENDS Polling

None == [p \in Probe |-> NoAnswer]
MCAnswers ==
  [e \in Endpoints |->
     CASE e = "node" -> [None EXCEPT !["Chassis/1"] = "other",
                                     !["Chassis/BMC_0"] = "openbmc"]
       [] e = "pdu" -> [None EXCEPT !["RackPDUs/1"] = "cis"]
       [] OTHER -> None]

MCSensorsAt ==
  [e \in Endpoints |-> [p \in Collections |->
     CASE e = "pdu" /\ p = "Outlets" -> {"outlet1"}
       [] e = "pdu" /\ p = "Mains" -> {"main1"}
       [] OTHER -> {}]]

MCOutletOnly ==
  [e \in Endpoints |-> [MCSensorsAt[e] EXCEPT !["Mains"] = {}]]
==============================================================================
