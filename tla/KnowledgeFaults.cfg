\* Two knowledge bases, three uploads, one without text, three models; any step may be
\* the last one of its handler.
SPECIFICATION Spec
CONSTANTS
  v3 = v3
  v4 = v4
  large = large
  KBs = {k1, k2}
  Files = {f1, f2, f3}
  Textless = {f3}
  Models <- MCModels
  DefaultModel = v4
  NoModel = NoModel
  Choices <- MCModels
  Size <- MCSize
  Null = Null
SYMMETRY Symmetry
INVARIANTS KBTypeOK SearchesSucceed VectorsOfOneModel
PROPERTIES VectorsAreKept
CHECK_DEADLOCK FALSE
