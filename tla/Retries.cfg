SPECIFICATION Spec
CONSTANTS
  Callers = {a, b}
  MaxRetries = 1
  Replies <- MCReplies
  Buffers = {x, y}
  MaxRequests = 2
  None = None
INVARIANTS RetriesHelp
CHECK_DEADLOCK FALSE
