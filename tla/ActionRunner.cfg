SPECIFICATION Spec
CONSTANTS
  Topic = {"system", "never_mind", "latecomer", "home", "connect.start", "connect.capture_interest", "connect.match_found", "connect.no_match", "connect.join_group", "connect.join_group.not_responding", "connect.join_group.rematch_found", "connect.join_group.rematch_not_found", "safety", "safety.responder_found", "safety.no_responder"}
  Useful = {"zone_x.connect.join_group", "zone_x.connect.not_responding"}
  Flow <- MCFlow
  NoFlow = "no flow"
  Parent <- MCParent
  Mode <- MCMode
  On <- MCOn
  Does <- MCDoes
  Back <- MCBack
  Answers <- MCAnswer
  Nearest <- MCNearest
  OfService <- MCOfService
  System = "system"
  Home = "home"
  Latecomer = "latecomer"
  Guest = Guest
  s1 = s1
  s2 = s2
  l1 = l1
  Responder = {s1, s2, l1}
  Pool <- MCPool
  Nobody = Nobody
  MaxAnswers = 1
INVARIANTS ContextInvariant ContactAfterNotice NoticesReachHolder NobodyDroppedSilently
