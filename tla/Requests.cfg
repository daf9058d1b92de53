SPECIFICATION Spec
CONSTANTS
  Requests = {r1, r2}
  r1 = r1
  Balancers <- MCBalancers
  Width64 = 16
  Keys <- MCKeys
  ClientRequests <- MCClientRequests
  AuthAnswers <- MCAuthAnswers
  ClusterConfigs <- MCClusterConfigs
  Targets <- MCTargets
  RouteModels = {"m"}
  Fallbacks <- MCFallbacks
  Replies <- MCReplies
  MaxNextCalls = 6
INVARIANTS
  OnlyGrantedIsServed
  UpstreamIsAskedRight
  BilledOnceForServer
  LoggedStatusIsSent
  WeightsRespected
PROPERTIES
  ImplementsGateway
  CancelledRequestEnds
CHECK_DEADLOCK FALSE
