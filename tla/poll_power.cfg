SPECIFICATION FairSpec
INVARIANT OnePollerPerPDU
PROPERTY NoRepeat
PROPERTY PowerStateReported
CONSTANTS
  Endpoints = {"pdu"}
  PDUs = {"pdu"}
  Answers <- MCAnswers
  SensorsAt <- MCOutletOnly
  Outlets = {"outlet1"}
  Probers = {"g1"}
  Workers = {"w1", "w2"}
  Prompts = {TRUE, FALSE}
  Faults = {"power", "sma", "poll", "probe", "useless"}
  MaxFaults = 3
  NoEndpoint = NoEndpoint
