SPECIFICATION Spec
SYMMETRY Symmetry
INVARIANT TypeOK
INVARIANT Delivered
INVARIANT Distinguishable
INVARIANT PassedOnOnce
PROPERTY BoundedDisorder
CONSTANTS
  Text <- MCText
  Oids <- MCOids
  OidNumber <- MCOidNumber
  NotANumber = NotANumber
  Undecodable = Undecodable
  Fleets <- MCFleets
  Urls <- MCUrls
  Payloads <- MCPayloads
  MaxPolls <- MCMaxPolls
  Processors = {p1, p2}
  p1 = p1
  p2 = p2
  Capacity = 1
  NBrokers = 1
  Publishes <- MCPublishes
  MaxFaults = 1
