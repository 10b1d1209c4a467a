--------------------------- MODULE MC_LimitOrders ---------------------------
(***************************************************************************)
(* Small instances of LimitOrders.  Two bids and an ask are enough for     *)
(* every relation the code looks at: Bid@2 crosses Ask@2, Bid@1 does not,  *)
(* the two bids share a side (so MAX_LEVELS and repricing bite), and with  *)
(* one op per instruction every batch is split into chunks.                *)
(***************************************************************************)
EXTENDS LimitOrders, TLC

Bid1 == [side |-> "Bid", price_ticks |-> 1]
Bid2 == [side |-> "Bid", price_ticks |-> 2]
Ask2 == [side |-> "Ask", price_ticks |-> 2]
Ask3 == [side |-> "Ask", price_ticks |-> 3]
TwoBids == {Bid1, Bid2}
TwoBidsOneAsk == {Bid1, Bid2, Ask2}
TwoBidsTwoAsks == {Bid1, Bid2, Ask2, Ask3}

AllCalls == {"place", "modify", "cancel", "cancel_all", "replace_all", "close"}
ReadWriteCalls == {"place", "modify", "cancel_all", "close"}

(***************************************************************************)
(* Liveness.  The owner holds a book with orders on it and keeps calling   *)
(* cancel_limit_orders: the documentation's "the caller refetches and      *)
(* rebuilds".  A caller that retries gives weak fairness of the first read *)
(* and strong fairness of the steps an RPC error or a rejection may undo   *)
(* any finite number of times.  Nothing is assumed of takers, and the      *)
(* registry may change between any two steps, for ever.                    *)
(***************************************************************************)
RestingInit ==
  /\ exists = TRUE /\ epoch = 1 /\ seq = 1
  /\ levels \in {book \in Levels : ~Crossed(book) /\ WithinSides(book)}
  /\ seats \in {S \in SUBSET Books : Cardinality(S) <= MAX_SEATED_MAKERS}
  /\ pc = [t \in Tasks |-> "idle"]
  /\ snap = [t \in Tasks |-> NoSnap]
  /\ reg = [t \in Tasks |-> {}]
  /\ tx = [t \in Tasks |-> NoTx]
  /\ filled = [t \in Tasks |-> EmptyBook]

RetryFairness ==
  \A t \in Tasks :
    /\ WF_vars(ReadBook(t))
    /\ SF_vars(ReadRegistry(t))
    /\ SF_vars(BuildCancel(t))
    /\ SF_vars(LandOps(t))

RetrySpec == RestingInit /\ [][Next]_vars /\ RetryFairness

\* A caller that keeps cancelling empties the book, however often the
\* registry changes under it: a cancel-only UpdateBookLimit carries no
\* registry books, so it "cannot fail because the registry changed", and under
\* CancelMode::Any no fill can fail it either.
CancelGetsThrough == <>[](levels = EmptyBook)

Symmetry == Permutations(Tasks)
=============================================================================
