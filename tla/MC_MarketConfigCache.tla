------------------------ MODULE MC_MarketConfigCache ------------------------
(***************************************************************************)
(* Instances of MarketConfigCache.  Two calls and two parameter changes    *)
(* are enough for a fetch, an update, an invalidation and a second fetch   *)
(* to overlap in every order; the second market shows that the race of one *)
(* key does not touch another.                                             *)
(***************************************************************************)
EXTENDS MarketConfigCache, TLC

\* RPCs answer or fail, a ready insertion is made, and the owner of the client
\* keeps invalidating (a periodic refresh).  Nothing makes a call start.
HealFairness ==
  /\ \A t \in Tasks : WF_vars(FetchHeader(t) \/ FetchMint(t) \/ FetchFails(t) \/ Insert(t))
  /\ \A m \in Markets : WF_vars(InvalidateMarket(m))

HealSpec == Spec /\ HealFairness

\* A client that invalidates periodically cannot be stuck on an old
\* configuration: once the parameters stop changing, from some time on every
\* hit returns the current ones, even though single invalidations may lose
\* their race.
StalenessHeals ==
  \A m \in Markets : <>[](market_configs[m] \in {None, market[m]})
=============================================================================
