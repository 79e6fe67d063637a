SPECIFICATION Spec
CONSTANTS
  Flow = {"zone", "join", "switch", "safety"}
  Stranger = "stranger"
  Safety = "safety"
  Answers = {"zone"}
  Slots <- ShippedSlots
  Foreign = {"switch"}
  Text = {"hello", "hi", "map", "dash", "facts", "twice"}
  Tokens <- TextTokens
  Urls <- TextUrls
  Clean = {"hello", "hi", "map", "facts", "twice"}
  MaxMatches = 3
  MaxCandidates = 3
  MaxAttempts = 2
INVARIANTS RoutingInvariant AuthorsWordsKept
PROPERTIES EveryTextAnswered
