SPECIFICATION Spec
CONSTANTS
  s1 = s1
  s2 = s2
  NoSno = NoSno
  Snos = {s1, s2}
  Courses <- MCCourses
  Keys <- MCKeys
  MaxPile = 2
INVARIANTS TypeOK HeadsCovered CoverOwned ListsRanked KindsAgree
PROPERTY ImplementsBoard
