----------------------------- MODULE RoutedCalls ------------------------------
(***************************************************************************)
(* Calls of one tool service by another while it is hot-patched: the       *)
(* caller's cached routing manifest (RoutingResolver of crates/jam-nats,   *)
(* kept fresh by the loop of crates/jam-svc-session) and the request loop  *)
(* that every tool service has, with its drain.                            *)
(*                                                                         *)
(* Version 0 is the process under the unversioned prefix, which no         *)
(* manifest lists; a patch makes the next version the route, and HotPatch  *)
(* is why a route has a process when it is written.                        *)
(***************************************************************************)
EXTENDS Naturals, FiniteSets

CONSTANTS
  ToolCalls,     \* calls
  MaxSwaps,      \* bound: patches
  RoutingFaults  \* what may fail: "refresh", "drain"

ASSUME SwapsAssumption == MaxSwaps \in Nat \ {0}
ASSUME RoutingFaultsAssumption == RoutingFaults \subseteq {"refresh", "drain"}
ASSUME ToolCallsAssumption == "loop" \notin ToolCalls

VARIABLES
  route,      \* version the manifest routes to, 0 if it lists none
  updates,    \* routing-manifest.updated messages the caller's loop has not taken
  cached,     \* version the cached manifest routes to
  loading,    \* what a refresh has read and not stored: of the loop, of calls
  server,     \* processes: "off", "up", "draining", "gone"
  toolCall,   \* calls: where they are and the version they are sent to
  replaced,   \* versions whose drain is still to be asked for
  backwards,  \* a refresh has overwritten the result of a later one
  failing     \* the loop's last refresh failed

routedVars == <<route, updates, cached, loading, server, toolCall, replaced,
                backwards, failing>>

Routed == 0..MaxSwaps
NotRead == MaxSwaps + 1
Loop == "loop"
Loaders == ToolCalls \union {Loop}
ToolPcs == {"new", "loading", "sent", "buffered", "active", "answered", "failed"}

RoutedInit ==
  /\ route = 0 /\ updates = 0 /\ cached = 0
  /\ loading = [l \in Loaders |-> NotRead]
  /\ server = [v \in Routed |-> IF v = 0 THEN "up" ELSE "off"]
  /\ toolCall = [c \in ToolCalls |-> [pc |-> "new", to |-> 0]]
  /\ replaced = {} /\ backwards = FALSE /\ failing = FALSE

ToolAt(c, pc) == toolCall[c].pc = pc
ToolGoes(c, pc) == toolCall' = [toolCall EXCEPT ![c].pc = pc]
-------------------------------------------------------------------------------
(* The patch agent *)

\* Faulty variant: the unversioned process counts as replaced by itself.
SwapRouteInPlace ==
  /\ route < MaxSwaps /\ route' = route + 1
  /\ server' = [server EXCEPT ![route + 1] = "up"]
  /\ updates' = updates + 1
  /\ replaced' = replaced \union {route + 1}
  /\ UNCHANGED <<cached, loading, toolCall, backwards, failing>>

\* The swap and its routing-manifest.updated; a route that was not listed
\* before leaves nothing to drain.
SwapRoute ==
  /\ route < MaxSwaps /\ route' = route + 1
  /\ server' = [server EXCEPT ![route + 1] = "up"]
  /\ updates' = updates + 1
  /\ replaced' = IF route = 0 THEN replaced ELSE replaced \union {route}
  /\ UNCHANGED <<cached, loading, toolCall, backwards, failing>>

\* The drain request: answered, and the flag set after the answer.
DrainReplaced(v, ok) ==
  /\ v \in replaced /\ (ok \/ "drain" \in RoutingFaults)
  /\ replaced' = replaced \ {v}
  /\ server' = IF ok THEN [server EXCEPT ![v] = "draining"] ELSE server
  /\ UNCHANGED <<route, updates, cached, loading, toolCall, backwards, failing>>
-------------------------------------------------------------------------------
(* The caller's cache *)

Read(l) == loading' = [loading EXCEPT ![l] = route]
\* refresh: what was read is stored, whatever another refresh stored before.
Store(l) ==
  /\ cached' = loading[l]
  /\ backwards' = (backwards \/ loading[l] < cached)
  /\ loading' = [loading EXCEPT ![l] = NotRead]

\* Faulty variant: an update is taken for known when there is a manifest.
TakeUpdateUnlessCached ==
  /\ updates > 0 /\ loading[Loop] = NotRead
  /\ updates' = updates - 1
  /\ IF cached = 0 THEN Read(Loop) ELSE UNCHANGED loading
  /\ UNCHANGED <<route, cached, server, toolCall, replaced, backwards, failing>>

\* The loop waits for each refresh before it takes the next message.
TakeUpdate ==
  /\ updates > 0 /\ loading[Loop] = NotRead
  /\ updates' = updates - 1
  /\ Read(Loop)
  /\ UNCHANGED <<route, cached, server, toolCall, replaced, backwards, failing>>

StoreUpdate(ok) ==
  /\ loading[Loop] # NotRead /\ (ok \/ "refresh" \in RoutingFaults)
  /\ IF ok THEN Store(Loop)
     ELSE loading' = [loading EXCEPT ![Loop] = NotRead] /\ UNCHANGED <<cached, backwards>>
  /\ failing' = ~ok
  /\ UNCHANGED <<route, updates, server, toolCall, replaced>>

\* subject_for: from the cache, or, when that does not list the service,
\* after a refresh of its own.
Resolve(c) ==
  /\ ToolAt(c, "new")
  /\ IF cached # 0
     THEN toolCall' = [toolCall EXCEPT ![c] = [pc |-> "sent", to |-> cached]] /\ UNCHANGED loading
     ELSE ToolGoes(c, "loading") /\ Read(c)
  /\ UNCHANGED <<route, updates, cached, server, replaced, backwards, failing>>

\* A refresh that failed leaves the cache, which is read again.
ResolveSlowly(c, ok) ==
  /\ ToolAt(c, "loading") /\ (ok \/ "refresh" \in RoutingFaults)
  /\ IF ok THEN Store(c)
     ELSE loading' = [loading EXCEPT ![c] = NotRead] /\ UNCHANGED <<cached, backwards>>
  /\ toolCall' = [toolCall EXCEPT ![c] = [pc |-> "sent", to |-> cached']]
  /\ UNCHANGED <<route, updates, server, replaced, failing>>
-------------------------------------------------------------------------------
(* The service's loop *)

\* A subject without a subscriber is refused by NATS.
Send(c) ==
  /\ ToolAt(c, "sent")
  /\ ToolGoes(c, IF server[toolCall[c].to] \in {"up", "draining"} THEN "buffered" ELSE "failed")
  /\ UNCHANGED <<route, updates, cached, loading, server, replaced, backwards, failing>>

\* The loop counts the request as active and gives it a task.
Take(c) ==
  /\ ToolAt(c, "buffered")
  /\ ToolGoes(c, "active")
  /\ UNCHANGED <<route, updates, cached, loading, server, replaced, backwards, failing>>

Reply(c) ==
  /\ ToolAt(c, "active")
  /\ ToolGoes(c, "answered")
  /\ UNCHANGED <<route, updates, cached, loading, server, replaced, backwards, failing>>

Served(v, pc) == {c \in ToolCalls : ToolAt(c, pc) /\ toolCall[c].to = v}

\* The end of the process: requests it has not taken wait for their timeout.
Gone(v) ==
  /\ server' = [server EXCEPT ![v] = "gone"]
  /\ toolCall' = [c \in ToolCalls |->
       IF c \in Served(v, "buffered") THEN [toolCall[c] EXCEPT !.pc = "failed"] ELSE toolCall[c]]
  /\ UNCHANGED <<route, updates, cached, loading, replaced, backwards, failing>>

\* Faulty variant: the tick after the drain does not ask for active requests.
ExitWhileActive(v) == server[v] = "draining" /\ Gone(v)

\* drain_check: draining and no active request.
ExitDrained(v) ==
  /\ server[v] = "draining" /\ Served(v, "active") = {}
  /\ Gone(v)

RoutedNext ==
  \/ SwapRoute
  \/ \E v \in Routed : ExitDrained(v) \/ \E ok \in BOOLEAN : DrainReplaced(v, ok)
  \/ TakeUpdate \/ \E ok \in BOOLEAN : StoreUpdate(ok)
  \/ \E c \in ToolCalls :
       \/ Resolve(c) \/ Send(c) \/ Take(c) \/ Reply(c)
       \/ \E ok \in BOOLEAN : ResolveSlowly(c, ok)

RoutedSpec == RoutedInit /\ [][RoutedNext]_routedVars
-------------------------------------------------------------------------------

RoutedTypeOK ==
  /\ route \in Routed /\ updates \in 0..MaxSwaps /\ cached \in Routed
  /\ loading \in [Loaders -> Routed \union {NotRead}]
  /\ server \in [Routed -> {"off", "up", "draining", "gone"}]
  /\ toolCall \in [ToolCalls -> [pc: ToolPcs, to: Routed]]
  /\ replaced \subseteq 1..(route - 1) /\ {backwards, failing} \subseteq BOOLEAN

\* jam-svc-session main.rs:606-608 of the subscription: cached lookups "follow
\* each patch-agent hot-swap".  Once the loop has nothing left to do, and its
\* last refresh has not failed, the cache lists the current route, unless the
\* refresh of a call, which the loop overtook, has stored an older manifest over
\* it (routing_manifest.rs:220): that stays until the next swap.
CacheFollows ==
  updates = 0 /\ loading[Loop] = NotRead /\ ~failing /\ ~backwards => cached = route

\* A request a service has taken is answered before a drain ends the process.
TakenIsAnswered ==
  \A v \in Routed : server[v] = "gone" => Served(v, "active") = {}

\* Only calls sent to a replaced version can fail: a patch costs the callers
\* nothing once they know of it.
FailedWasReplaced ==
  \A c \in ToolCalls : ToolAt(c, "failed") => toolCall[c].to < route

\* A hot patch under a caller: caches follow the manifest, a request that was
\* taken is answered, and only a replaced version fails a call
\* (routing_manifest.rs:186-230, main.rs:138-199 of the services).
RoutedSafety == CacheFollows /\ TakenIsAnswered /\ FailedWasReplaced
===============================================================================
