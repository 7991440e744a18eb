SPECIFICATION Spec
CONSTANTS
  student = student
  teacher = teacher
  empty = empty
  full = full
  Requested = {student, teacher}
  Customs = {lessons, plans}
  Contents = {empty, full}
  lessons = lessons
  plans = plans
  ItemLimit = 2
  None = None
SYMMETRY Symmetry
INVARIANTS CustomIsMade
