-------------------------- MODULE MC_MakerRegistry --------------------------
(***************************************************************************)
(* An instance of MakerRegistry: two seats for a market maker and two LO   *)
(* books, so that placing books evict one another, and a Swap that lists   *)
(* two books, so that the cap leaves one off a full scan.                  *)
(***************************************************************************)
EXTENDS MakerRegistry, TLC

L(offset) == [offset |-> offset, size |-> 1]
B(mid, bids, asks) == [status |-> "Active", mid |-> mid, bids |-> bids, asks |-> asks]

\* No mid yet, and around 3 with an empty slot ahead of the second bid.
TheMMQuotes == {B(0, <<L(2)>>, <<>>),
                B(3, <<[offset |-> -1, size |-> 0], L(-2)>>, <<L(1)>>)}
TheLOQuotes == {B(0, <<L(1)>>, <<>>), B(0, <<L(2), L(1)>>, <<L(3)>>)}

Symmetry == Permutations(Books \ MMBooks)
=============================================================================
