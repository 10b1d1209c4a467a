---------------------- MODULE MarketConfigCache_proofs ----------------------
(***************************************************************************)
(* For every set of markets and calls: only a fetch that already held an   *)
(* out-of-date header when invalidate_market was called can put parameters *)
(* from before the invalidation back into the cache.                       *)
(***************************************************************************)
EXTENDS MarketConfigCache, TLAPS

\* The initial state satisfies the invariant.
LEMMA CacheInit == Init => IInv
BY VersionAssumption DEF Init, IInv, TypeOK, FloorIsPast, FetchesAfterFloor,
     QuietInvalidationHolds, ReturnsStale, Version, None

\* The steps of a call: nothing on chain moves, and what it inserts is the
\* header it read.
LEMMA CallStep ==
  ASSUME IInv, NEW t \in Tasks,
         \/ \E m \in Markets : Miss(t, m)
         \/ FetchHeader(t) \/ FetchMint(t) \/ FetchFails(t) \/ Insert(t)
  PROVE  IInv'
<1> USE VersionAssumption DEF IInv, TypeOK, Version, None
<1>1. ASSUME NEW m \in Markets, Miss(t, m) PROVE IInv'
  BY <1>1 DEF Miss, FloorIsPast, FetchesAfterFloor, QuietInvalidationHolds, ReturnsStale
<1>2. CASE FetchHeader(t)
  BY <1>2 DEF FetchHeader, FloorIsPast, FetchesAfterFloor, QuietInvalidationHolds,
       ReturnsStale
<1>3. CASE FetchMint(t)
  BY <1>3 DEF FetchMint, FloorIsPast, FetchesAfterFloor, QuietInvalidationHolds,
       ReturnsStale
<1>4. CASE FetchFails(t)
  BY <1>4 DEF FetchFails, FloorIsPast, FetchesAfterFloor, QuietInvalidationHolds,
       ReturnsStale
<1>5. CASE Insert(t)
  BY <1>5 DEF Insert, FloorIsPast, FetchesAfterFloor, QuietInvalidationHolds,
       ReturnsStale
<1> QED
  BY <1>1, <1>2, <1>3, <1>4, <1>5

\* The steps of a market: an invalidation raises the floor to the present and
\* records who holds something older; a parameter change leaves it alone.
LEMMA MarketStep ==
  ASSUME IInv, NEW m \in Markets, InvalidateMarket(m) \/ UpdateParams(m)
  PROVE  IInv'
<1> USE VersionAssumption DEF IInv, TypeOK, Version, None, calls
<1>1. CASE InvalidateMarket(m)
  <2>1. TypeOK' /\ FloorIsPast' /\ QuietInvalidationHolds'
    BY <1>1 DEF InvalidateMarket, FloorIsPast, QuietInvalidationHolds, ReturnsStale
  <2>2. FetchesAfterFloor'
    BY <1>1 DEF InvalidateMarket, FetchesAfterFloor, HoldsOldHeader
  <2> QED
    BY <2>1, <2>2
<1>2. CASE UpdateParams(m)
  BY <1>2 DEF UpdateParams, FloorIsPast, FetchesAfterFloor, QuietInvalidationHolds,
       ReturnsStale
<1> QED
  BY <1>1, <1>2

\* A stale hit after invalidate_market means a fetch was racing it.
THEOREM QuietInvalidation == Spec => []QuietInvalidationHolds
<1>1. IInv /\ [Next]_vars => IInv'
  <2> SUFFICES ASSUME IInv, [Next]_vars PROVE IInv'
    OBVIOUS
  <2>1. CASE Next
    BY <2>1, CallStep, MarketStep DEF Next
  <2>2. CASE UNCHANGED vars
    BY <2>2 DEF vars, IInv, TypeOK, FloorIsPast, FetchesAfterFloor,
         QuietInvalidationHolds, ReturnsStale
  <2> QED
    BY <2>1, <2>2
<1>2. IInv => QuietInvalidationHolds
  BY DEF IInv
<1> QED
  BY CacheInit, <1>1, <1>2, PTL DEF Spec
=============================================================================
