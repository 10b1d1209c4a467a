---------------------------- MODULE MakerRegistry ----------------------------
(***************************************************************************)
(* The maker registry of one market and those who use it: limit-order (LO) *)
(* books that seat themselves when they place, the global authority that   *)
(* rewrites the set by compare-and-set (ix_builder/market.rs,              *)
(* onchain/state/maker_registry.rs), and a filler that discovers books     *)
(* (client.rs), flattens them into a ladder and lists the best of them in  *)
(* a Swap (limit_order/discovery.rs).                                      *)
(*                                                                         *)
(* The program is external: seating, eviction, version and the checks of   *)
(* UpdateRegistry, RegisterMaker, DeregisterMaker and Swap are those       *)
(* instruction.rs documents.  Post-only rejection is left out: a placement *)
(* under CrossPolicy::Allow skips it.                                      *)
(***************************************************************************)
EXTENDS Integers, Sequences, FiniteSets

CONSTANTS
  Books,             \* maker book accounts of the market
  MMBooks,           \* those of market makers; the others are LO books
  MMQuotes,          \* contents a market maker gives its book
  LOQuotes,          \* contents an LO owner gives its book (mid 0)
  Suspendable,       \* the books the authority may suspend
  Updaters,          \* processes of the global authority
  MAX_SEATED_MAKERS, \* seats (48)
  MAX_MAKER_BOOKS_PER_AUCTION, \* books a Swap lists (48)
  MaxVersion         \* bound: changes of the registry after the initial one

\* What a MakerBook account holds.
Contents ==
  LET Level == [offset : Int, size : Nat]
  IN  [status : {"Active", "Suspended"}, mid : Nat, bids : Seq(Level), asks : Seq(Level)]

ASSUME RegistryAssumption ==
  /\ IsFiniteSet(Books) /\ MMBooks \subseteq Books
  /\ MAX_SEATED_MAKERS \in Nat \ {0} /\ MAX_MAKER_BOOKS_PER_AUCTION \in Nat \ {0}
  /\ MaxVersion \in Nat
  /\ MMQuotes \subseteq Contents /\ LOQuotes \subseteq Contents
  /\ \A q \in LOQuotes : q.mid = 0

VARIABLES
  book,      \* each MakerBook account's contents
  open,      \* the accounts that exist
  makers,    \* the registry: seated books, in seat order
  version,   \* its change counter
  plan,      \* what each authority process read, and whether it is writing
  scan,      \* the filler's scan
  joined,    \* history: books seated since each authority process read
  steady,    \* history: books seated at the scan's registry read and open since
  gone       \* history: books closed since the scan read them

chain == <<book, open, makers, version>>
vars == <<chain, plan, scan, joined, steady, gone>>

Ran(s) == {s[i] : i \in DOMAIN s}
\* The lists of books a registry can hold.
Lists == UNION {{f \in [1..n -> Books] : \A i, j \in 1..n : f[i] = f[j] => i = j} :
                  n \in 0..MAX_SEATED_MAKERS}

NoBook == [status |-> "Active", mid |-> 0, bids |-> <<>>, asks |-> <<>>]
NoPlan == [pc |-> "idle", version |-> 0]
NoScan == [pc |-> "idle", todo |-> <<>>, got |-> <<>>, route |-> <<>>, side |-> "Bid"]

\* Market makers have opened their books, and the authority seated some.
Init ==
  /\ book \in [Books -> MMQuotes \cup {NoBook}]
  /\ \A b \in Books : book[b] \in IF b \in MMBooks THEN MMQuotes ELSE {NoBook}
  /\ open = MMBooks
  /\ makers \in {list \in Lists : Ran(list) \subseteq MMBooks} /\ version = 0
  /\ plan = [u \in Updaters |-> NoPlan]
  /\ scan = NoScan
  /\ joined = [u \in Updaters |-> {}]
  /\ steady = {} /\ gone = {}

-----------------------------------------------------------------------------
(* Levels and prices *)

LevelsOn(b, side) == IF side = "Bid" THEN b.bids ELSE b.asks

\* The levels the engine could fill: a size, and a positive absolute price.
Quoted(b, side) ==
  {j \in DOMAIN LevelsOn(b, side) :
     LevelsOn(b, side)[j].size > 0 /\ b.mid + LevelsOn(b, side)[j].offset > 0}

Prices(b, side) == {b.mid + LevelsOn(b, side)[j].offset : j \in Quoted(b, side)}

Better(side, p, q) == IF side = "Bid" THEN p > q ELSE p < q

-----------------------------------------------------------------------------
(* Seating (external) *)

Dead(b) ==
  \/ book[b].status = "Suspended"
  \/ Quoted(book[b], "Bid") = {} /\ Quoted(book[b], "Ask") = {}

Outbids(side, new, old) ==
  \E p \in Prices(new, side) : \A q \in Prices(old, side) : Better(side, p, q)

\* The seat of s is the only one at the registry's best price on a side.
OnlyBest(s, side) ==
  \E p \in Prices(book[s], side) :
    \A c \in (Ran(makers) \cap open) \ {s} :
      \A q \in Prices(book[c], side) : Better(side, p, q)

\* Strictly better on every side both rest on, and not taking the only best
\* price of a side the placing book leaves empty.
Beats(new, s) ==
  \A side \in {"Bid", "Ask"} :
    IF Prices(new, side) = {} THEN ~OnlyBest(s, side)
    ELSE Prices(book[s], side) # {} => Outbids(side, new, book[s])

\* The seats a placing book may take from a full registry.
Evictable(new) ==
  LET closed == {s \in Ran(makers) : s \notin open}
      lo == Ran(makers) \ MMBooks
  IN  IF closed # {} THEN closed
      ELSE IF \E s \in lo : Dead(s) THEN {s \in lo : Dead(s)}
      ELSE {s \in lo : Beats(new, s)}

\* The registry after b places.
Seatings(b, new) ==
  IF b \in Ran(makers) THEN {makers}
  ELSE IF Len(makers) < MAX_SEATED_MAKERS THEN {Append(makers, b)}
  ELSE IF Evictable(new) = {} THEN {makers}
  ELSE {[i \in DOMAIN makers |-> IF makers[i] = s THEN b ELSE makers[i]] :
          s \in Evictable(new)}

\* Mutant: a self-seating does not count as a change.
NewRegistryUnversioned(new_makers) ==
  /\ makers' = new_makers
  /\ version' = version
  /\ joined' = [u \in Updaters |-> IF plan[u].pc = "idle" THEN {}
                  ELSE joined[u] \cup (Ran(new_makers) \ Ran(makers))]
  /\ steady' = steady

\* Every change of the set increments the version.
NewRegistry(new_makers) ==
  /\ makers' = new_makers
  /\ version' = IF new_makers = makers THEN version ELSE version + 1
  /\ joined' = [u \in Updaters |-> IF plan[u].pc = "idle" THEN {}
                  ELSE joined[u] \cup (Ran(new_makers) \ Ran(makers))]
  /\ steady' = steady

-----------------------------------------------------------------------------
(* The books *)

\* UpdateBookLimit placing levels, after InitializeMakerBook if need be.
Place(b, q) ==
  /\ b \notin MMBooks /\ version < MaxVersion
  /\ book[b] # q \/ b \notin open
  /\ Quoted(q, "Bid") # {} \/ Quoted(q, "Ask") # {}
  /\ book' = [book EXCEPT ![b] = q]
  /\ open' = open \cup {b}
  /\ \E s \in Seatings(b, q) : NewRegistry(s)
  /\ UNCHANGED <<plan, scan, gone>>

\* UpdateBook of a market maker; its seat is the authority's affair.
Quote(b, q) ==
  /\ b \in MMBooks \cap open
  /\ book' = [book EXCEPT ![b] = q]
  /\ UNCHANGED <<open, makers, version, plan, scan, joined, steady, gone>>

\* Fills and cancels leave an LO book empty, and the authority may suspend it.
Empty(b) ==
  /\ b \in open \ MMBooks
  /\ book' = [book EXCEPT ![b] = NoBook]
  /\ UNCHANGED <<open, makers, version, plan, scan, joined, steady, gone>>

ToggleSuspension(b) ==
  /\ b \in open \cap Suspendable
  /\ book' = [book EXCEPT ![b].status = IF @ = "Active" THEN "Suspended" ELSE "Active"]
  /\ UNCHANGED <<open, makers, version, plan, scan, joined, steady, gone>>

\* CloseMakerBook: the account goes, its seat stays.
Close(b) ==
  /\ b \in open
  /\ open' = open \ {b}
  /\ book' = [book EXCEPT ![b] = NoBook]
  /\ steady' = steady \ {b}
  /\ gone' = gone \cup ({b} \cap {scan.got[i].key : i \in DOMAIN scan.got})
  /\ UNCHANGED <<makers, version, plan, scan, joined>>

-----------------------------------------------------------------------------
(* The global authority *)

\* The registry read an update is computed from.
ReadRegistry(u) ==
  /\ plan[u].pc = "idle"
  /\ plan' = [plan EXCEPT ![u] = [pc |-> "read", version |-> version]]
  /\ joined' = [joined EXCEPT ![u] = {}]
  /\ UNCHANGED <<chain, scan, steady, gone>>

\* build_update_registry_ix lands: the expected version is current, and every
\* book named is a MakerBook of the market.
UpdateRegistry(u, list) ==
  /\ plan[u].pc = "read" /\ version < MaxVersion
  /\ plan[u].version = version
  /\ Len(list) <= MAX_SEATED_MAKERS /\ Ran(list) \subseteq open
  /\ makers' = list /\ version' = version + 1
  /\ joined' = [v \in Updaters |-> IF v = u \/ plan[v].pc = "idle" THEN {}
                  ELSE joined[v] \cup (Ran(list) \ Ran(makers))]
  /\ plan' = [plan EXCEPT ![u] = NoPlan]
  /\ UNCHANGED <<book, open, scan, steady, gone>>

\* The update is refused, or never sent.
DropUpdate(u) ==
  /\ plan[u].pc = "read"
  /\ plan' = [plan EXCEPT ![u] = NoPlan]
  /\ joined' = [joined EXCEPT ![u] = {}]
  /\ UNCHANGED <<chain, scan, steady, gone>>

\* build_register_maker_ix and build_deregister_maker_ix.
RegisterMaker(b) ==
  /\ b \in open \ Ran(makers) /\ Len(makers) < MAX_SEATED_MAKERS
  /\ version < MaxVersion
  /\ NewRegistry(Append(makers, b))
  /\ UNCHANGED <<book, open, plan, scan, gone>>

DeregisterMaker(b) ==
  /\ version < MaxVersion
  /\ \E i \in DOMAIN makers :
       /\ makers[i] = b
       /\ NewRegistry(SubSeq(makers, 1, i - 1) \o SubSeq(makers, i + 1, Len(makers)))
  /\ UNCHANGED <<book, open, plan, scan, gone>>

-----------------------------------------------------------------------------
(* The filler *)

\* get_maker_registry, the first read of get_registered_maker_books.
ReadMakers ==
  /\ scan.pc = "idle"
  /\ scan' = [NoScan EXCEPT !.pc = "fetch", !.todo = makers]
  /\ steady' = Ran(makers) \cap open
  /\ gone' = {}
  /\ UNCHANGED <<chain, plan, joined>>

\* Mutant: the first seat without an account ends the scan.
FetchBookStopping ==
  /\ scan.pc = "fetch" /\ scan.todo # <<>>
  /\ scan' = IF Head(scan.todo) \in open
               THEN [scan EXCEPT !.todo = Tail(@),
                       !.got = Append(@, [key |-> Head(scan.todo), book |-> book[Head(scan.todo)]])]
               ELSE [scan EXCEPT !.todo = <<>>]
  /\ UNCHANGED <<chain, plan, joined, steady, gone>>

\* The next book, in an RPC of its own; a seat without an account is skipped.
FetchBook ==
  /\ scan.pc = "fetch" /\ scan.todo # <<>>
  /\ scan' = [scan EXCEPT !.todo = Tail(@),
                !.got = IF Head(scan.todo) \in open
                          THEN Append(@, [key |-> Head(scan.todo), book |-> book[Head(scan.todo)]])
                          ELSE @]
  /\ UNCHANGED <<chain, plan, joined, steady, gone>>

\* get_lo_ladder: one getProgramAccounts over every book, in any order, with
\* the suspended ones dropped by filter_active.
ScanAll ==
  LET active == {b \in open : book[b].status = "Active"}
  IN  /\ scan.pc = "idle"
      /\ \E keys \in [1..Cardinality(active) -> active] :
           /\ Ran(keys) = active
           /\ scan' = [NoScan EXCEPT !.pc = "fetch",
                         !.got = [i \in DOMAIN keys |-> [key |-> keys[i], book |-> book[keys[i]]]]]
      /\ steady' = {} /\ gone' = {}
      /\ UNCHANGED <<chain, plan, joined>>

\* The rungs build_ladder collects on a side: <<book, level>> positions.
Rungs(got, side) ==
  UNION {{<<i, j>> : j \in Quoted(got[i].book, side)} :
           i \in {k \in DOMAIN got :
                    /\ got[k].book.status = "Active"
                    /\ got[k].book.mid # 0 \/ got[k].key \notin MMBooks}}

RungPrice(got, side, r) == got[r[1]].book.mid + LevelsOn(got[r[1]].book, side)[r[2]].offset

\* Mutant: both sides sorted ascending.
BeforeAscending(got, side, r, s) ==
  LET p == RungPrice(got, side, r)
      q == RungPrice(got, side, s)
  IN  p < q \/ (p = q /\ (r[1] < s[1] \/ (r[1] = s[1] /\ r[2] < s[2])))

\* The stable sort: best price first, ties in the order of collection.
Before(got, side, r, s) ==
  LET p == RungPrice(got, side, r)
      q == RungPrice(got, side, s)
  IN  Better(side, p, q) \/ (p = q /\ (r[1] < s[1] \/ (r[1] = s[1] /\ r[2] < s[2])))

\* build_ladder_for_side: the book of each rung, best rung first.
Ladder(got, side) ==
  LET R == Rungs(got, side)
  IN  [n \in 1..Cardinality(R) |->
         got[(CHOOSE r \in R : Cardinality({s \in R : Before(got, side, s, r)}) = n - 1)[1]].key]

\* Mutant: the test for a book already listed forgotten.
UniqueBooksRepeating(ladder, max_books) ==
  SubSeq(ladder, 1, IF Len(ladder) < max_books THEN Len(ladder) ELSE max_books)

\* unique_books_in_order: first occurrences, up to max_books.
UniqueBooks(ladder, max_books) ==
  LET firsts == {n \in DOMAIN ladder : \A m \in 1..(n - 1) : ladder[m] # ladder[n]}
      kept == {n \in firsts : Cardinality({m \in firsts : m < n}) < max_books}
  IN  [k \in 1..Cardinality(kept) |->
         ladder[CHOOSE n \in kept : Cardinality({m \in kept : m < n}) = k - 1]]

\* The books a Swap will list.
Route(side) ==
  /\ scan.pc = "fetch" /\ scan.todo = <<>>
  /\ scan' = [scan EXCEPT !.pc = "sent", !.side = side,
                !.route = UniqueBooks(Ladder(scan.got, side), MAX_MAKER_BOOKS_PER_AUCTION)]
  /\ steady' = {}
  /\ UNCHANGED <<chain, plan, joined, gone>>

\* The Swap lands or fails, a read failed, or the filler gave up.
EndScan ==
  /\ scan.pc # "idle"
  /\ scan' = NoScan /\ steady' = {} /\ gone' = {}
  /\ UNCHANGED <<chain, plan, joined>>

\* What the program demands of the books a Swap lists (external).
SwapAccepted(route) ==
  /\ Len(route) \in 1..MAX_MAKER_BOOKS_PER_AUCTION
  /\ \A i, j \in DOMAIN route : route[i] = route[j] => i = j
  /\ Ran(route) \subseteq open

Next ==
  \/ \E b \in Books, q \in LOQuotes : Place(b, q)
  \/ \E b \in Books, q \in MMQuotes : Quote(b, q)
  \/ \E b \in Books : \/ Empty(b) \/ ToggleSuspension(b) \/ Close(b)
                      \/ RegisterMaker(b) \/ DeregisterMaker(b)
  \/ \E u \in Updaters :
       \/ ReadRegistry(u) \/ DropUpdate(u)
       \/ \E list \in Lists : UpdateRegistry(u, list)
  \/ ReadMakers \/ FetchBook \/ ScanAll \/ EndScan
  \/ \E side \in {"Bid", "Ask"} : Route(side)

Spec == Init /\ [][Next]_vars

-----------------------------------------------------------------------------
(* Properties *)

\* "A set computed from stale state never overwrites a book that seated itself
\* in the meantime": when an UpdateRegistry lands, no book took a seat, by
\* placing, by RegisterMaker or by another update, since the read behind it.
NoSeatOverwritten ==
  [][\A u \in Updaters, list \in Lists : UpdateRegistry(u, list) => joined[u] = {}]_vars

\* get_registered_maker_books, one RPC per seat, reports every book that was
\* seated when it read the registry and stayed open until the scan was over,
\* whatever closed, reopened or lost its seat meanwhile.
SteadySeatsReported ==
  (scan.pc = "fetch" /\ scan.todo = <<>>) =>
    steady \subseteq {scan.got[i].key : i \in DOMAIN scan.got}

\* The cap costs no price: a routed book list holds, for each book left off,
\* only books whose best rung is at least as good as any of its rungs, and
\* leaves off none while it has room.
CapKeepsBest ==
  scan.pc = "sent" =>
    LET side == scan.side
        seen(b) == {r \in Rungs(scan.got, side) : scan.got[r[1]].key = b}
        price(r) == RungPrice(scan.got, side, r)
    IN  \A b \in Books \ Ran(scan.route) :
          seen(b) # {} =>
            /\ Len(scan.route) = MAX_MAKER_BOOKS_PER_AUCTION
            /\ \A c \in Ran(scan.route), r \in seen(b) :
                 \E s \in seen(c) : ~Better(side, price(r), price(s))

\* A Swap over a discovered route is refused for its books only because one
\* of them closed after it was read.
OnlyClosingFailsRoute ==
  (scan.pc = "sent" /\ scan.route # <<>>) =>
    SwapAccepted(scan.route) \/ \E b \in Ran(scan.route) : b \notin open /\ b \in gone
=============================================================================
