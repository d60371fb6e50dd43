SPECIFICATION Spec
CONSTANTS
  s1 = s1
  s2 = s2
  Seqs <- MCSeqs
  Value <- MCValue
  MinValue = 1
INVARIANTS FoundAreAhead
PROPERTIES NoSequenceSpoilt
CHECK_DEADLOCK FALSE
