SPECIFICATION ServedSpec
CONSTANTS
  Origins = {"openai_chat", "openai_responses", "anthropic", "google", "neurouter"}
  Settings <- MCSettings
  MaxFragments = 3
  MaxContents = 3
CHECK_DEADLOCK FALSE
INVARIANTS
  TypeOK
  ClientSeesAll
  ResponsesItemsSound
  UnarySaysTheSame
  UsageServed
  CallsAnswered
  TextsKept
  NativeReplayIntact
  SettingsHonoured
