SPECIFICATION Spec
CONSTANTS
  Requests = {r1}
  r1 = r1
  Balancers <- FirstTarget
  Width64 = 16
  Keys <- MCKeys
  ClientRequests <- MCClientRequests
  AuthAnswers <- MCAuthAnswers
  ClusterConfigs <- MCClusterConfigs
  Targets <- MCTargets
  RouteModels = {"m"}
  Fallbacks <- UnlimitedFallback
  Replies <- MCReplies
  MaxNextCalls = 6
PROPERTIES
  FallbackGivesUp
CHECK_DEADLOCK FALSE
