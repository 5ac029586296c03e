SPECIFICATION FairSpec
INVARIANT TypeOK
INVARIANT PolledOnce
PROPERTY EventuallyPolled
CONSTANTS
  Endpoints = {"node", "pdu"}
  PDUs = {"pdu"}
  Answers <- MCAnswers
  SensorsAt <- MCSensorsAt
  Outlets = {"outlet1"}
  Probers = {"g1", "g2"}
  Workers = {"w1"}
  Prompts = {FALSE}
  Faults = {"garbled", "leave", "poll", "useless"}
  MaxFaults = 1
  NoEndpoint = NoEndpoint
