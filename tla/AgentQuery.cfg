SPECIFICATION QuerySpec
CONSTANTS
  s1 = s1
  s2 = s2
  s3 = s3
  s4 = s4
  Segments <- MCSegments
  Size <- MCSize
  Version <- MCVersion
  Document <- MCDocument
  Terms <- MCTerms
  Negative <- MCNegative
  Ordinal <- MCOrdinal
  Queries = {q0, q1, q2}
  Question = q0
  Budgets <- MCBudgets
  Threads = {t1, t2}
  NoResult = NoResult
\* A query ends.
CHECK_DEADLOCK FALSE
INVARIANTS
  EvidenceWithinBudget
  OverBudgetOnlyIfLate
  AnswerIsGrounded
  AuditsAgree
PROPERTIES
  EvidenceKept
