SPECIFICATION Spec
CONSTANTS
  Names = {"context", "env", "output", "a", "b", "X", "HOST", "UNSET", "$"}
  Indices <- MCIndices
  Depth = 3
  Drafts <- MCDrafts
  Payloads <- MCPayloads
  Env <- MCEnv
INVARIANTS
  NoTemplateTextSent
  ResubmissionKeepsConfig
  VerdictIsMeaning
  RefusalNamesTheFirst
CHECK_DEADLOCK FALSE
