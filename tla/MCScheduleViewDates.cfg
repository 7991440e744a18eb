SPECIFICATION ViewSpec
CONSTANTS
  a1 = a1
  a2 = a2
  Attributes = {a1, a2}
  Reach <- MCReach
  MinSections = 4
  Opening = 0
  FirstDay = 5
  LastDay = 8
  NoDate = NoDate
  NoAim = NoAim
CONSTRAINT NotScrolled
INVARIANTS MarkedIsToday
