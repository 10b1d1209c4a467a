----------------------------- MODULE OrderLedger -----------------------------
(***************************************************************************)
(* What the limit-order client promises its caller, without registry,      *)
(* transactions, ops, guards or chunks: the owner's orders are a ledger    *)
(* under optimistic concurrency control.  A client looks at the whole      *)
(* ledger, and later either walks away or commits a change in one step.    *)
(* Takers take from the orders at any time.                                *)
(*                                                                         *)
(* A commit is conditional on what was seen.  Within one life of the       *)
(* account it only succeeds if no other commit came between, and whatever  *)
(* came between, it never adds to an order that is not as it was seen:     *)
(* added size is size the owner decided on knowing the rest of the order.  *)
(***************************************************************************)
EXTENDS Naturals

CONSTANTS
  Clients,  \* the concurrent calls
  Orders    \* the order ids

VARIABLES
  open,     \* is there an account
  life,     \* how many accounts there have been
  sizes,    \* the resting size of each order
  version,  \* grows with each commit of one life
  seen      \* what each client now in a call has looked at

ledger == <<open, life, sizes, version>>
vars == <<ledger, seen>>

None == [id \in Orders |-> 0]

Init ==
  /\ open = FALSE /\ life = 0
  /\ sizes = None /\ version = 0
  /\ seen = [t \in {} |-> 0]

\* A client starts a call by looking at the ledger.
Look(t) ==
  /\ t \notin DOMAIN seen
  /\ seen' = [u \in DOMAIN seen \cup {t} |->
       IF u = t THEN [exists |-> open, epoch |-> life, levels |-> sizes, seq |-> version]
       ELSE seen[u]]
  /\ UNCHANGED ledger

\* A call ends.
Done(t) ==
  /\ t \in DOMAIN seen
  /\ seen' = [u \in DOMAIN seen \ {t} |-> seen[u]]

\* It ends having changed nothing.
Leave(t) == Done(t) /\ UNCHANGED ledger

\* No other commit in this life of the account since the client looked.
Unchallenged(t) == seen[t].epoch = life => seen[t].seq = version

\* What is added is added to an order that is as it was seen.
AddsToWhatWasSeen(t) ==
  \A id \in Orders : sizes'[id] > sizes[id] => sizes[id] = seen[t].levels[id]

\* It ends having created the account with its first orders.
Open(t) ==
  /\ Done(t)
  /\ ~open /\ ~seen[t].exists
  /\ open' = TRUE /\ life' = life + 1
  /\ version' > 0
  /\ AddsToWhatWasSeen(t)

\* It ends having changed the orders of an account it saw.
Amend(t) ==
  /\ Done(t)
  /\ open /\ seen[t].exists
  /\ Unchallenged(t) /\ version' > version
  /\ AddsToWhatWasSeen(t)
  /\ UNCHANGED <<open, life>>

\* It ends having closed an account it saw.
Close(t) ==
  /\ Done(t)
  /\ open /\ seen[t].exists
  /\ Unchallenged(t)
  /\ open' = FALSE /\ sizes' = None /\ version' = 0
  /\ UNCHANGED life

\* A taker takes from one order.
Take(id) ==
  /\ open
  /\ sizes'[id] < sizes[id]
  /\ sizes' = [sizes EXCEPT ![id] = sizes'[id]]
  /\ UNCHANGED <<open, life, version, seen>>

Next ==
  \/ \E t \in Clients : Look(t) \/ Leave(t) \/ Open(t) \/ Amend(t) \/ Close(t)
  \/ \E id \in Orders : Take(id)

Spec == Init /\ [][Next]_vars
=============================================================================
