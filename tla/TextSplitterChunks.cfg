\* Every text of eight characters in one segment, and three segments of up to seven; the
\* sizes and overlaps of a form, one of each too small, one overlap too large. MinSize and
\* BreakPercent are scaled down with the texts (100 and 45 in the code), so that the
\* overlap can be smaller than, equal to and larger than the shortest piece.
SPECIFICATION Spec
CONSTANTS
  Chars <- MCChars
  Blanks <- MCBlanks
  Breaks <- MCBreaks
  Newline <- MCNewline
  Documents <- MCDocuments
  Sizes <- MCSizes
  Overlaps <- MCOverlaps
  MinSize = 5
  BreakPercent = 19
INVARIANTS TextIsKept ChunksFit
PROPERTIES PiecesAdvance SplittingEnds
CHECK_DEADLOCK FALSE
