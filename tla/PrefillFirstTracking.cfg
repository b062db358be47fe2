SPECIFICATION LiveSpec
CONSTANTS
  r1 = r1
  r2 = r2
  r3 = r3
  tok = tok
  NoReq = NoReq
  Req = {r1, r2}
  NumEngines = 1
  Token = {tok}
  Output <- OneToken
  MaxTokens = 2
PROPERTIES
  CompletedIsUntracked
CHECK_DEADLOCK FALSE
