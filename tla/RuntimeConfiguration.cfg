CONSTANTS
  Keyboards = {us, de}
  BadKeyboard = bad
  Shaders = {plain, round}
  BadShader = nosuch
  DefaultKeyboard = us
  DefaultShader = plain
  Files <- MCFiles
  Drafts <- MCDrafts
  Objects = {a1, a2, a3}
  Transactions = {t1}
  Devices = {g1, g2}
  RevisionMod = 2
  None = None
  us = us
  de = de
  plain = plain
  round = round
  a1 = a1
  a2 = a2
  a3 = a3
  t1 = t1
  g1 = g1
  g2 = g2
  bad = bad
  nosuch = nosuch
SPECIFICATION Spec
SYMMETRY Symmetry
INVARIANTS TypeOK NothingHalfDone
PROPERTIES NoLostUpdate HandlersAreWhole
CHECK_DEADLOCK FALSE
