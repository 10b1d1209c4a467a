-------------------------- MODULE MarketConfigCache --------------------------
(***************************************************************************)
(* ArcherClient's cache of MarketConfigs: get_market_config,               *)
(* invalidate_market, preload_market and fetch_market_config of client.rs. *)
(*                                                                         *)
(* Lookup, insertion and removal each hold the RwLock for one step; a miss *)
(* drops it and awaits three RPCs before it inserts.  The header is read   *)
(* by the first of them; the two mint reads that follow only widen the     *)
(* window between that read and the insertion.  A configuration is         *)
(* represented by the version of the market parameters it reflects: the    *)
(* count of parameter changes (fee updates) that landed before the read.   *)
(***************************************************************************)
EXTENDS Integers

CONSTANTS
  Markets,    \* market accounts, the keys of the cache
  Tasks,      \* concurrent calls that need a configuration
  MaxVersion  \* bound: parameter changes of one market

ASSUME VersionAssumption == MaxVersion \in Nat

None == -1
Version == 0 .. MaxVersion

VARIABLES
  market,         \* version of each market's parameters on chain
  market_configs, \* the cache: a version, or None where there is no entry
  pc,             \* where each call of get_market_config stands
  key,            \* the market each call is about
  header,         \* the version each fetch read
  floor,          \* history: version at the last invalidation of each market
  racing          \* history: was a fetch with an older header in flight then

vars == <<market, market_configs, pc, key, header, floor, racing>>
calls == <<pc, key, header>>

\* The type of the state: a cached entry is a version some fetch read.
TypeOK ==
  /\ market \in [Markets -> Version]
  /\ market_configs \in [Markets -> Version \cup {None}]
  /\ pc \in [Tasks -> {"idle", "miss", "base_mint", "quote_mint", "insert"}]
  /\ key \in [Tasks -> Markets]
  /\ header \in [Tasks -> Version]
  /\ floor \in [Markets -> Version]
  /\ racing \in [Markets -> BOOLEAN]

Init ==
  /\ market = [m \in Markets |-> 0]
  /\ market_configs = [m \in Markets |-> None]
  /\ pc = [t \in Tasks |-> "idle"]
  /\ key \in [Tasks -> Markets]
  /\ header = [t \in Tasks |-> 0]
  /\ floor = [m \in Markets |-> 0]
  /\ racing = [m \in Markets |-> FALSE]

-----------------------------------------------------------------------------
(* get_market_config; preload_market is the same call *)

\* The read-locked lookup finds nothing.  (When it finds an entry the call
\* returns it and no state changes: see ReturnsStale.)
Miss(t, m) ==
  /\ pc[t] = "idle"
  /\ market_configs[m] = None
  /\ pc' = [pc EXCEPT ![t] = "miss"]
  /\ key' = [key EXCEPT ![t] = m]
  /\ UNCHANGED <<market, market_configs, header, floor, racing>>

\* fetch_market_config, first RPC: the market header.
FetchHeader(t) ==
  /\ pc[t] = "miss"
  /\ header' = [header EXCEPT ![t] = market[key[t]]]
  /\ pc' = [pc EXCEPT ![t] = "base_mint"]
  /\ UNCHANGED <<market, market_configs, key, floor, racing>>

\* Second and third RPC: the mints the header names, whose decimals and owner
\* never change.
FetchMint(t) ==
  /\ pc[t] \in {"base_mint", "quote_mint"}
  /\ pc' = [pc EXCEPT ![t] = IF @ = "base_mint" THEN "quote_mint" ELSE "insert"]
  /\ UNCHANGED <<market, market_configs, key, header, floor, racing>>

\* Any of the three RPCs fails and the error is returned.  What the header
\* read returned is dropped with the call's frame.
FetchFails(t) ==
  /\ pc[t] \in {"miss", "base_mint", "quote_mint"}
  /\ pc' = [pc EXCEPT ![t] = "idle"]
  /\ header' = [header EXCEPT ![t] = 0]
  /\ UNCHANGED <<market, market_configs, key, floor, racing>>

\* The write-locked insertion, which overwrites whatever is there by now.
Insert(t) ==
  /\ pc[t] = "insert"
  /\ market_configs' = [market_configs EXCEPT ![key[t]] = header[t]]
  /\ pc' = [pc EXCEPT ![t] = "idle"]
  /\ header' = [header EXCEPT ![t] = 0]
  /\ UNCHANGED <<market, key, floor, racing>>

-----------------------------------------------------------------------------

\* A call about m that holds a header already out of date and has yet to
\* insert it.
HoldsOldHeader(t, m) ==
  /\ pc[t] \in {"base_mint", "quote_mint", "insert"}
  /\ key[t] = m
  /\ header[t] < market[m]

\* Mutant: the write lock taken, the entry left in place.
InvalidateMarketKeepingEntry(m) ==
  /\ floor' = [floor EXCEPT ![m] = market[m]]
  /\ racing' = [racing EXCEPT ![m] = \E t \in Tasks : HoldsOldHeader(t, m)]
  /\ UNCHANGED <<market, market_configs, calls>>

\* invalidate_market.
InvalidateMarket(m) ==
  /\ market_configs' = [market_configs EXCEPT ![m] = None]
  /\ floor' = [floor EXCEPT ![m] = market[m]]
  /\ racing' = [racing EXCEPT ![m] = \E t \in Tasks : HoldsOldHeader(t, m)]
  /\ UNCHANGED <<market, calls>>

\* The authority changes a parameter the configuration reflects (external).
UpdateParams(m) ==
  /\ market[m] < MaxVersion
  /\ market' = [market EXCEPT ![m] = @ + 1]
  /\ UNCHANGED <<market_configs, calls, floor, racing>>

Next ==
  \/ \E t \in Tasks :
       \/ \E m \in Markets : Miss(t, m)
       \/ FetchHeader(t) \/ FetchMint(t) \/ FetchFails(t) \/ Insert(t)
  \/ \E m \in Markets : InvalidateMarket(m) \/ UpdateParams(m)

Spec == Init /\ [][Next]_vars

-----------------------------------------------------------------------------
(* Properties *)

\* A hit on this market would return parameters older than the last
\* invalidation.
ReturnsStale(m) == market_configs[m] # None /\ market_configs[m] < floor[m]

\* invalidate_market is documented to "force a re-fetch on the next access".
\* Only a fetch already in flight can defeat that: an invalidation made while
\* no call held an out-of-date header is followed by no stale hit, however the
\* calls in flight and later ones interleave and fail.
QuietInvalidationHolds == \A m \in Markets : ReturnsStale(m) => racing[m]

\* Why: unless one was racing, every header in flight is at least as new as
\* the parameters were at the last invalidation.
FetchesAfterFloor ==
  \A t \in Tasks :
    (pc[t] \in {"base_mint", "quote_mint", "insert"} /\ ~racing[key[t]]) =>
      header[t] >= floor[key[t]]

FloorIsPast == \A m \in Markets : floor[m] <= market[m]

IInv == TypeOK /\ FloorIsPast /\ FetchesAfterFloor /\ QuietInvalidationHolds
=============================================================================
