SPECIFICATION FairSpec
CONSTANTS
  Topic = {"system", "never_mind", "system.thank_you", "information.ncc", "latecomer", "home", "change_service", "change_service.choice_required", "change_service.none_available", "change_service.select", "change_service.select.selected", "change_service.select.latecomer", "change_service.select.ended", "doors_open", "doors_open.check_in", "doors_open.check_in.selected", "doors_open.check_in.latecomer", "doors_open.check_in.ended"}
  Useful = {"service.attendance.select"}
  Flow <- MCFlow
  NoFlow = "no flow"
  Parent <- MCParent
  Mode <- MCMode
  On <- MCOn
  Does <- MCDoes
  Back <- MCBack
  Answers <- MCAnswer
  Nearest <- MCNearest
  OfService <- MCOfService
  System = "system"
  Home = "home"
  Latecomer = "latecomer"
  Guest = Guest
  s1 = s1
  s2 = s2
  l1 = l1
  Responder = {s1, s2, l1}
  Pool <- MCPool
  Nobody = Nobody
  MaxAnswers = 1
INVARIANTS AlwaysAnswered FailureAnswered
PROPERTIES ImplementsReplyScript DispatchEnds
