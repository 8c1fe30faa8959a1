SPECIFICATION Spec
CONSTANTS
  Threads = {t1, t2}
  Addresses = {a1, a2, a3}
  Memzones = {z1, z2, z3}
  MaxSize = 2
SYMMETRY Symmetry
INVARIANTS TypeOK HeldExclusively ExactUnlessRaced
