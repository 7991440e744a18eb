SPECIFICATION Spec
CONSTANTS
  Lists = {l1, l2}
  Elements = {x, y}
  Addr = {1, 2, 3, 4, 5}
  Nil = Nil
PROPERTY SetterCopiesOnWrite
