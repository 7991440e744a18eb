SPECIFICATION FinalSpec
CONSTANTS
  s1 = s1
  s2 = s2
  NoSno = NoSno
  NoItem = NoItem
  NoDate = NoDate
  Snos = {s1, s2}
  Courses <- MCCourses
  Keys <- MCKeys
  Items <- MCItems
  Today = 0
  KeyFetal = "double"
  MaxPile = 2
INVARIANTS FinalTypeOK CacheCoherent DrawnOnce DatesFresh ShowWeekDrawn RowsAgree
PROPERTIES ImplementsSections
