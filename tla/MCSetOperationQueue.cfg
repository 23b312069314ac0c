CONSTANTS
  a = a
  b = b
  c = c
  Ids <- MCIds
  Operations = {o1, o2}
  NoOperation = none
  Conforms <- SetConforms
  Purging = TRUE
SPECIFICATION Spec
INVARIANTS
  TypeOK
  SingleFlight
  NoCoveredEntry
  FreshOperation
PROPERTIES
  NeverOvertaken
  EventuallyRun
