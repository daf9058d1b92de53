------------------------------ MODULE Registry ------------------------------
(***************************************************************************)
(* The two in-memory registries every request is routed through:           *)
(* pkg/route/manager/manager.go (match routes, base routes and the merged  *)
(* slice that requests are matched against) and                            *)
(* pkg/clusters/manager/cluster.go (clusters and their configurations).    *)
(* Each operation holds its registry's lock throughout, so it is one step. *)
(*                                                                         *)
(* A route is [name, targets, cfg]: it matches the model called name and   *)
(* has the clusters named in targets.  Every caller registers a route      *)
(* under the model name it matches exactly.  cfg stands for the rest of    *)
(* the configuration a route or a cluster is constructed from.             *)
(***************************************************************************)
EXTENDS Integers, Sequences, FiniteSets

CONSTANTS
  Models,      \* model names: names of routes and of clusters
  Targets,     \* the target lists routes are configured with
  Configs      \* the configurations routes and clusters are constructed from

ASSUME RegistryAssumption == Targets \subseteq Seq(Models)

VARIABLES
  matchRouteRegistry,  \* ModelRoute routes: name -> route
  routeRegistry,       \* backends' own ("base") routes: name -> route
  routes,              \* the merged slice; its order is Go's map order
  clusters,            \* name -> cluster
  clustersDetails      \* name -> configuration of the cluster

routeVars   == <<matchRouteRegistry, routeRegistry, routes>>
clusterVars == <<clusters, clustersDetails>>
registryVars == <<matchRouteRegistry, routeRegistry, routes, clusters, clustersDetails>>

Route == [name : Models, targets : Seq(Models), cfg : Configs]

Insert(f, k, v) == [x \in DOMAIN f \cup {k} |-> IF x = k THEN v ELSE f[x]]
Delete(f, k)    == [x \in DOMAIN f \ {k} |-> f[x]]

(* Mutant of mergeRoutes: base routes are kept under match routes.         *)
mergeRoutesAll(match, base) ==
  {match[n] : n \in DOMAIN match} \cup {base[n] : n \in DOMAIN base}

(* mergeRoutes: every match route, and the base routes whose name no match *)
(* route has.                                                              *)
mergeRoutes(match, base) ==
  {match[n] : n \in DOMAIN match} \cup {base[n] : n \in DOMAIN base \ DOMAIN match}

(* route.NewWithConfig: it fails when one of the filters cannot be built.  *)
NewRoute(name, targets, cfg) == [name |-> name, targets |-> targets, cfg |-> cfg]

(* InitDirectModelRoute: the route of a backend leads to its own cluster.  *)
InitDirectModelRoute(name) == <<name>>

RegistryInit ==
  /\ matchRouteRegistry = <<>>
  /\ routeRegistry = <<>>
  /\ routes = {}
  /\ clusters = <<>>
  /\ clustersDetails = <<>>

-----------------------------------------------------------------------------
(* Operations.  The ones that construct something may fail and then change *)
(* nothing.                                                                *)

RegisterMatchRouteWithConfig(name, targets, cfg) ==
  /\ matchRouteRegistry' = Insert(matchRouteRegistry, name, NewRoute(name, targets, cfg))
  /\ routes' = mergeRoutes(matchRouteRegistry', routeRegistry)
  /\ UNCHANGED <<routeRegistry, clusters, clustersDetails>>

RemoveMatchRoute(name) ==
  /\ matchRouteRegistry' = Delete(matchRouteRegistry, name)
  /\ routes' = mergeRoutes(matchRouteRegistry', routeRegistry)
  /\ UNCHANGED <<routeRegistry, clusters, clustersDetails>>

(* With a match route of that name in place the slice is left as it is.    *)
RegisterBaseRouteWithConfig(name, targets, cfg) ==
  /\ routeRegistry' = Insert(routeRegistry, name, NewRoute(name, targets, cfg))
  /\ routes' = IF name \in DOMAIN matchRouteRegistry THEN routes
               ELSE mergeRoutes(matchRouteRegistry, routeRegistry')
  /\ UNCHANGED <<matchRouteRegistry, clusters, clustersDetails>>

RemoveBaseRoute(name) ==
  /\ routeRegistry' = Delete(routeRegistry, name)
  /\ routes' = mergeRoutes(matchRouteRegistry, routeRegistry')
  /\ UNCHANGED <<matchRouteRegistry, clusters, clustersDetails>>

UpsertAndRegisterCluster(name, cfg) ==
  /\ clustersDetails' = Insert(clustersDetails, name, cfg)
  /\ clusters' = Insert(clusters, name, cfg)
  /\ UNCHANGED <<matchRouteRegistry, routeRegistry, routes>>

DeleteCluster(name) ==
  /\ clusters' = Delete(clusters, name)
  /\ clustersDetails' = Delete(clustersDetails, name)
  /\ UNCHANGED <<matchRouteRegistry, routeRegistry, routes>>

(* Route.Match: the model is the route's, and the route has a target.      *)
Match(route, model) == route.name = model /\ route.targets # <<>>

(* MatchRoute: the first route of the slice that matches, in whichever     *)
(* order mergeRoutes left them.                                            *)
MatchRoute(model) == {r \in routes : Match(r, model)}

FindClusterByName(name) == name \in DOMAIN clusters

ListModels == {clustersDetails[n] : n \in DOMAIN clustersDetails}

RegistryNext ==
  \/ \E n \in Models, t \in Targets, c \in Configs :
       RegisterMatchRouteWithConfig(n, t, c) \/ RegisterBaseRouteWithConfig(n, t, c)
  \/ \E n \in Models, c \in Configs : UpsertAndRegisterCluster(n, c)
  \/ \E n \in Models :
       RemoveMatchRoute(n) \/ RemoveBaseRoute(n) \/ DeleteCluster(n)

RegistrySpec == RegistryInit /\ [][RegistryNext]_registryVars

-----------------------------------------------------------------------------

(* Types: registries and the merged list hold routes, never a blank entry. *)
RegistryTypeOK ==
  /\ DOMAIN matchRouteRegistry \subseteq Models
  /\ \A n \in DOMAIN matchRouteRegistry : matchRouteRegistry[n] \in Route
  /\ DOMAIN routeRegistry \subseteq Models
  /\ \A n \in DOMAIN routeRegistry : routeRegistry[n] \in Route
  /\ routes \subseteq Route
  /\ DOMAIN clusters \subseteq Models
  /\ clustersDetails = clusters

(* The slice requests are matched against is the merge of the registries   *)
(* after every operation, the one that returns without merging included: a *)
(* base route registered under a match route is hidden, and comes to light *)
(* when the match route is removed.                                        *)
RoutesAreMerged == routes = mergeRoutes(matchRouteRegistry, routeRegistry)

(* Whatever order the slice is in, a model has at most one route in it, so *)
(* which route serves a request never depends on Go's map order.           *)
UniqueMatch ==
  \A m \in Models : \A r1, r2 \in MatchRoute(m) : r1 = r2
============================================================================
