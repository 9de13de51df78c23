\* Every anchor of up to four symbols against every file of up to five: three lines,
\* indented or not, blank or not, and anchors that overlap themselves.
CONSTANTS
  Symbols <- MCSymbols
  Originals <- MCOriginals
  Anchors <- MCAnchors
  News <- MCNews
  MaxReported = 2
SPECIFICATION EditSpec
INVARIANTS ReplacesTheAnchor HintsAreHonest
\* The model may stop editing.
CHECK_DEADLOCK FALSE
