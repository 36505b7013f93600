SPECIFICATION Spec
CONSTANTS
  Cash = Cash Capital = Capital
  Pay = Pay Resolve = Resolve Fee = Fee Huge = Huge Skewed = Skewed
  Posting = {Huge}
  Lines <- MCLines
  Known = {Huge}
  Account = {Cash, Capital}
  Opened = {Cash, Capital}
  Actor = {h1}
  Caller = {h1}
  Asked = {Huge}
  Word = 8
  MaxFaults = 0
  Consumer = {}
  Message = {}
  Command <- MCCommand
  MaxTries = 1
  Limited = TRUE
INVARIANTS
  DebitsMustEqualCredits
CHECK_DEADLOCK FALSE
