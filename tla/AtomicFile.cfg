SPECIFICATION Spec
CONSTANTS
  Writers = {w1, w2}
  Contents = {c1, c2}
  Modes = {m600, m644}
  newFileMode = m644
  Private = m600
  Part = Part
  None = None
INVARIANT TypeOK
PROPERTY ModeKept
PROPERTY Replaces
