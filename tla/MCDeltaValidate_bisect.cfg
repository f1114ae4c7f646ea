SPECIFICATION Spec
CONSTANTS
  m1 = m1
  m2 = m2
  m3 = m3
  m4 = m4
  m5 = m5
  Candidates <- Five
  Runtimes <- Runtime
  MayBreak = TRUE
INVARIANTS TypeOK AnswerLeavesNoCopy BisectionLogarithmic
PROPERTIES PartitionsExactly
