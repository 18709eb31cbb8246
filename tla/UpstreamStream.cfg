SPECIFICATION StreamSpec
CONSTANTS
  Dialects = {"openai_chat", "openai_responses", "anthropic", "google"}
  Quirks = {"eof", "overlap"}
  Reasons = {"stop", "calls", "length"}
  MaxFragments = 3
  MaxContents = 3
CHECK_DEADLOCK FALSE
INVARIANTS
  TypeOK
  MessageIntact
  UsageAccounted
  CompletedMeansComplete
  TruncationReported
  UnaryAgrees
PROPERTY FollowsProtocol
