\* Two readers, two entities, and a freeze for every gap between statements.
SPECIFICATION Spec
CONSTANTS
  Readers = {r1, r2}
  Entities = {e1, e2}
  OurEntity = e1
  MaxVersions = 4
SYMMETRY MCSymmetry
INVARIANTS TypeOK Inv LiveAboveListed LiveWithinRead
