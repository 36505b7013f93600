SPECIFICATION FairSpec
CONSTANTS
  Cash = Cash Capital = Capital
  Pay = Pay Resolve = Resolve Fee = Fee Huge = Huge Skewed = Skewed
  Posting = {Skewed}
  Lines <- MCLines
  Known = {Skewed}
  Account = {Cash, Capital}
  Opened = {Cash}
  Actor = {c1, c2}
  Caller = {}
  Asked = {}
  Word = 8
  MaxFaults = 0
  Consumer = {c1, c2}
  Message = {Skewed}
  Command <- MCCommand
  MaxTries = 1
  Limited = FALSE
PROPERTIES
  FailedIsDeadLettered
CHECK_DEADLOCK FALSE
