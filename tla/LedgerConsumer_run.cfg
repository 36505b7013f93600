SPECIFICATION FairSpec
CONSTANTS
  Cash = Cash Capital = Capital
  Pay = Pay Resolve = Resolve Fee = Fee Huge = Huge Skewed = Skewed
  Posting = {Pay, Resolve, Fee, Skewed}
  Lines <- MCLines
  Known = {Pay, Fee, Skewed}
  Account = {Cash, Capital}
  Opened = {Cash}
  Actor = {c1, c2, h1}
  Caller = {h1}
  Asked = {Fee, Skewed}
  Word = 8
  MaxFaults = 1
  Consumer = {c1, c2}
  Message = {Pay, Resolve}
  Command <- MCCommand
  MaxTries = 1
  Limited = TRUE
INVARIANTS
  TypeOK
  DebitsEqualCredits
  BooksMatchAnswers
  NothingIsLost
  OutcomeIsOne
PROPERTIES
  ImplementsBook
  EveryCommandSettles
CHECK_DEADLOCK FALSE
