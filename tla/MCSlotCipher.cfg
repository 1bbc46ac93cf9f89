SPECIFICATION CipherSpec
CONSTANTS
  Locations <- MCLocations
  FirstHyper = 65535
  MaxWraps = 1
INVARIANTS
  TimeInRange
  KeystreamInStep
PROPERTIES
  ClockImplementsSlotCount
  IvNamesSlot
