CONSTANTS
  Callers = {c1}
  Domains = {a}
  Modes <- MultiModes
  MaxCalls = 1
SPECIFICATION Spec
INVARIANTS AnswerNotEmpty
CHECK_DEADLOCK FALSE
