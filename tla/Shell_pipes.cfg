CONSTANTS
  NPROC = 5
  NFILE = 5
  NOFILE = 5
  NPIPE = 1
  PIPESIZE = 2
  WRAP = 4
  FILELEN = 3
  BUFLEN = 3
  MAXARGS = 3
  MaxLines = 1
  Lines <- MCLines
  Texts <- MCTexts
SPECIFICATION Spec
INVARIANTS RefsExact ParserRight
PROPERTIES StreamRefinement PromptReturns
CHECK_DEADLOCK FALSE
