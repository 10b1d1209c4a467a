------------------------ MODULE MakerRegistry_proofs ------------------------
(***************************************************************************)
(* The compare-and-set of UpdateRegistry, the filler's scans and the books *)
(* its routes list, for any number of books, levels, seats and authority   *)
(* processes.                                                              *)
(***************************************************************************)
EXTENDS MakerRegistry, FiniteSetTheorems, TLAPS

\* What the version read by an authority process says of the present: it has
\* not run ahead of the registry, and while it is the current one no book has
\* taken a seat since the read.
VersionTells ==
  \A u \in Updaters :
    plan[u].pc = "read" =>
      /\ plan[u].version <= version
      /\ plan[u].version = version => joined[u] = {}

\* What a registry update remembers of its read.
Plans == [pc : {"idle", "read"}, version : Nat]

\* The invariant behind NoSeatOverwritten.
IInv ==
  /\ version \in Nat /\ plan \in [Updaters -> Plans]
  /\ joined = [u \in Updaters |-> joined[u]]
  /\ VersionTells

\* A change of the set, by a placement, RegisterMaker or DeregisterMaker,
\* counts as one for every read made before it.
LEMMA NewRegistryKeeps ==
  ASSUME IInv, NEW s, NewRegistry(s), UNCHANGED plan
  PROVE  IInv'
<1>1. version' \in Nat /\ version <= version'
  BY DEF IInv, NewRegistry
<1>2. ASSUME NEW u \in Updaters, plan'[u].pc = "read"
      PROVE  plan'[u].version <= version' /\ (plan'[u].version = version' => joined'[u] = {})
  <2>1. plan[u].pc = "read" /\ plan[u].version \in Nat /\ plan[u].version <= version
    BY <1>2 DEF IInv, Plans, VersionTells
  <2>2. CASE s = makers
    BY <1>2, <2>1, <2>2 DEF IInv, VersionTells, NewRegistry
  <2>3. CASE s # makers
    <3>1. version' = version + 1
      BY <2>3 DEF NewRegistry
    <3> QED BY <2>1, <3>1 DEF IInv
  <2> QED BY <2>2, <2>3
<1>3. joined' = [v \in Updaters |-> joined'[v]] /\ plan' \in [Updaters -> Plans]
  BY DEF IInv, NewRegistry
<1> QED
  BY <1>1, <1>2, <1>3 DEF IInv, VersionTells

\* A read starts afresh.
LEMMA ReadRegistryKeeps ==
  ASSUME IInv, NEW u \in Updaters, ReadRegistry(u)
  PROVE  IInv'
<1>1. version' = version /\ version \in Nat
  BY DEF IInv, ReadRegistry, chain
<1>2. plan' \in [Updaters -> Plans] /\ joined' = [v \in Updaters |-> joined'[v]]
  BY <1>1 DEF IInv, ReadRegistry, Plans
<1>3. ASSUME NEW v \in Updaters, plan'[v].pc = "read"
      PROVE  plan'[v].version <= version' /\ (plan'[v].version = version' => joined'[v] = {})
  <2>1. CASE v = u
    BY <1>1, <2>1 DEF IInv, ReadRegistry
  <2>2. CASE v # u
    BY <1>1, <1>3, <2>2 DEF IInv, VersionTells, ReadRegistry
  <2> QED BY <2>1, <2>2
<1> QED
  BY <1>1, <1>2, <1>3 DEF IInv, VersionTells

\* An update that lands makes every other read out of date.
LEMMA UpdateRegistryKeeps ==
  ASSUME IInv, NEW u \in Updaters, NEW list, UpdateRegistry(u, list)
  PROVE  IInv'
<1>1. version' = version + 1 /\ version \in Nat
  BY DEF IInv, UpdateRegistry
<1>2. plan' = [plan EXCEPT ![u] = NoPlan] /\ NoPlan \in Plans /\ NoPlan.pc = "idle"
  BY DEF UpdateRegistry, NoPlan, Plans
<1>3. plan' \in [Updaters -> Plans] /\ joined' = [v \in Updaters |-> joined'[v]]
  BY <1>2 DEF IInv, UpdateRegistry
<1>4. ASSUME NEW v \in Updaters, plan'[v].pc = "read"
      PROVE  plan'[v].version <= version' /\ plan'[v].version # version'
  <2>1. v # u
    BY <1>2, <1>4 DEF IInv
  <2>2. plan'[v] = plan[v] /\ plan[v].version \in Nat
    BY <1>2, <2>1 DEF IInv, Plans
  <2>3. plan[v].version <= version
    BY <1>4, <2>2 DEF IInv, VersionTells
  <2> QED BY <1>1, <2>2, <2>3
<1> QED
  BY <1>1, <1>3, <1>4 DEF IInv, VersionTells

\* Dropping an update keeps the invariant.
LEMMA DropUpdateKeeps ==
  ASSUME IInv, NEW u \in Updaters, DropUpdate(u)
  PROVE  IInv'
<1>1. version' = version
  BY DEF DropUpdate, chain
<1>2. plan' = [plan EXCEPT ![u] = NoPlan] /\ NoPlan \in Plans /\ NoPlan.pc = "idle"
  BY DEF DropUpdate, NoPlan, Plans
<1>3. plan' \in [Updaters -> Plans] /\ joined' = [v \in Updaters |-> joined'[v]]
  BY <1>2 DEF IInv, DropUpdate
<1>4. ASSUME NEW v \in Updaters, plan'[v].pc = "read"
      PROVE  plan'[v].version <= version' /\ (plan'[v].version = version' => joined'[v] = {})
  <2>1. v # u
    BY <1>2, <1>4 DEF IInv
  <2> QED BY <1>1, <1>4, <2>1 DEF IInv, VersionTells, DropUpdate
<1> QED
  BY <1>1, <1>3, <1>4 DEF IInv, VersionTells

\* Books, suspensions and the filler leave registry and plans alone.
LEMMA QuietKeeps ==
  ASSUME IInv, UNCHANGED <<version, plan, joined>>
  PROVE  IInv'
  BY DEF IInv, VersionTells

\* Every step keeps the invariant.
LEMMA NextKeeps ==
  ASSUME IInv, [Next]_vars
  PROVE  IInv'
<1>1. CASE UNCHANGED vars
  BY <1>1, QuietKeeps DEF vars, chain
<1>2. ASSUME NEW b \in Books, NEW q \in LOQuotes, Place(b, q) PROVE IInv'
  BY <1>2, NewRegistryKeeps DEF Place
<1>3. ASSUME NEW b \in Books, RegisterMaker(b) \/ DeregisterMaker(b) PROVE IInv'
  BY <1>3, NewRegistryKeeps DEF RegisterMaker, DeregisterMaker
<1>4. ASSUME NEW b \in Books, NEW q \in MMQuotes, Quote(b, q) PROVE IInv'
  BY <1>4, QuietKeeps DEF Quote
<1>5. ASSUME NEW b \in Books, Empty(b) \/ ToggleSuspension(b) \/ Close(b) PROVE IInv'
  BY <1>5, QuietKeeps DEF Empty, ToggleSuspension, Close
<1>6. ASSUME NEW u \in Updaters, ReadRegistry(u) \/ DropUpdate(u) PROVE IInv'
  BY <1>6, ReadRegistryKeeps, DropUpdateKeeps
<1>7. ASSUME NEW u \in Updaters, NEW list \in Lists, UpdateRegistry(u, list) PROVE IInv'
  BY <1>7, UpdateRegistryKeeps
<1>8. CASE ReadMakers \/ FetchBook \/ ScanAll \/ EndScan \/ (\E side \in {"Bid", "Ask"} : Route(side))
  BY <1>8, QuietKeeps DEF ReadMakers, FetchBook, ScanAll, EndScan, Route, chain
<1> QED
  BY <1>1, <1>2, <1>3, <1>4, <1>5, <1>6, <1>7, <1>8 DEF Next

\* The version an authority process carries is current only while no book has
\* taken a seat since its read.
THEOREM VersionInv == Spec => []IInv
<1>1. Init => IInv
  BY DEF Init, IInv, VersionTells, Plans, NoPlan
<1>2. IInv /\ [Next]_vars => IInv'
  BY NextKeeps
<1> QED
  BY <1>1, <1>2, PTL DEF Spec

\* build_update_registry_ix: an update computed from an old read never
\* overwrites a book that seated itself in the meantime.
THEOREM SeatsSafe == Spec => NoSeatOverwritten
<1> DEFINE Safe == \A u \in Updaters, list \in Lists : UpdateRegistry(u, list) => joined[u] = {}
<1>1. IInv => Safe
  BY DEF IInv, VersionTells, UpdateRegistry
<1>2. IInv => [Safe]_vars
  BY <1>1
<1> QED
  BY <1>2, VersionInv, PTL DEF NoSeatOverwritten

-----------------------------------------------------------------------------
(* The scan *)

\* A book as the scan read it.
Fetched == [key : Books, book : Contents]
\* The state of a taker's scan of the books.
Scans == [pc : {"idle", "fetch", "sent"}, todo : Seq(Books), got : Seq(Fetched),
          route : Seq(Books), side : {"Bid", "Ask"}]

\* The books fetched so far.
Keys(got) == {got[i].key : i \in DOMAIN got}

\* A scan has read, or has still to read, every book that was seated when it
\* began and has been open since; what it read is open or was seen to close;
\* and its route is the one the ladder of what it read gives.
ScanInv ==
  /\ book \in [Books -> Contents] /\ open \subseteq Books /\ makers \in Seq(Books)
  /\ scan \in Scans
  /\ steady \subseteq open
  /\ scan.pc = "fetch" => steady \subseteq Keys(scan.got) \cup Ran(scan.todo)
  /\ Keys(scan.got) \subseteq open \cup gone
  /\ scan.pc = "sent" =>
       scan.route = UniqueBooks(Ladder(scan.got, scan.side), MAX_MAKER_BOOKS_PER_AUCTION)

\* The registry's list stays a list of books.
LEMMA SeatingsType ==
  ASSUME makers \in Seq(Books), NEW b \in Books, NEW q, NEW s \in Seatings(b, q)
  PROVE  s \in Seq(Books)
<1>1. CASE s = makers
  BY <1>1
<1>2. CASE s = Append(makers, b)
  BY <1>2
<1>3. ASSUME NEW e, s = [i \in DOMAIN makers |-> IF makers[i] = e THEN b ELSE makers[i]]
      PROVE  s \in Seq(Books)
  BY <1>3
<1> QED
  BY <1>1, <1>2, <1>3 DEF Seatings

\* Steps that change neither the scan nor what is open.
LEMMA StillScanning ==
  ASSUME ScanInv, UNCHANGED <<scan, open, steady, gone>>,
         book' \in [Books -> Contents], makers' \in Seq(Books)
  PROVE  ScanInv'
  BY DEF ScanInv

\* The contents a book is given.
LEMMA ContentsType ==
  /\ NoBook \in Contents /\ MMQuotes \subseteq Contents /\ LOQuotes \subseteq Contents
<1>1. <<>> \in Seq([offset : Int, size : Nat])
  OBVIOUS
<1> QED
  BY <1>1, RegistryAssumption DEF NoBook, Contents

\* A placing limit order keeps the scan's invariant.
LEMMA PlaceScans ==
  ASSUME ScanInv, NEW b \in Books, NEW q \in LOQuotes, Place(b, q)
  PROVE  ScanInv'
<1>1. book' \in [Books -> Contents] /\ open' = open \cup {b}
  BY ContentsType DEF Place, ScanInv
<1>2. makers' \in Seq(Books) /\ steady' = steady
  <2>1. PICK s \in Seatings(b, q) : NewRegistry(s)
    BY DEF Place
  <2>2. s \in Seq(Books)
    BY <2>1, SeatingsType DEF ScanInv
  <2> QED BY <2>1, <2>2 DEF NewRegistry
<1>3. scan' = scan /\ gone' = gone
  BY DEF Place
<1> QED
  BY <1>1, <1>2, <1>3 DEF ScanInv

\* So does a maker that changes its book.
LEMMA BookScans ==
  ASSUME ScanInv, NEW b \in Books,
         (\E q \in MMQuotes : Quote(b, q)) \/ Empty(b) \/ ToggleSuspension(b)
  PROVE  ScanInv'
<1>1. UNCHANGED <<open, makers, scan, steady, gone>>
  BY DEF Quote, Empty, ToggleSuspension
<1>2. book' \in [Books -> Contents]
  <2>1. book[b] \in Contents /\ book \in [Books -> Contents]
    BY DEF ScanInv
  <2>2. CASE (\E q \in MMQuotes : Quote(b, q)) \/ Empty(b)
    BY <2>1, <2>2, ContentsType DEF Quote, Empty
  <2>3. CASE ToggleSuspension(b)
    <3> DEFINE st == IF book[b].status = "Active" THEN "Suspended" ELSE "Active"
               c == [book[b] EXCEPT !.status = st]
    <3>1. book' = [book EXCEPT ![b] = c]
      BY <2>1, <2>3 DEF ToggleSuspension
    <3>2. c \in Contents
      BY <2>1 DEF Contents
    <3> QED BY <2>1, <3>1, <3>2
  <2> QED BY <2>2, <2>3
<1>3. makers' \in Seq(Books)
  BY <1>1 DEF ScanInv
<1> QED
  BY <1>1, <1>2, <1>3, StillScanning

\* A book that closes leaves the steady ones, and joins the gone ones if the
\* scan has read it.
LEMMA CloseScans ==
  ASSUME ScanInv, NEW b \in Books, Close(b)
  PROVE  ScanInv'
<1>1. /\ book' \in [Books -> Contents] /\ open' = open \ {b} /\ makers' = makers /\ scan' = scan
      /\ steady' = steady \ {b} /\ gone' = gone \cup ({b} \cap Keys(scan.got))
  BY ContentsType DEF Close, ScanInv, Keys
<1>2. Keys(scan.got) \subseteq open' \cup gone'
  BY <1>1 DEF ScanInv
<1> QED
  BY <1>1, <1>2 DEF ScanInv

\* So does the global authority.
LEMMA AuthorityScans ==
  ASSUME ScanInv,
         \/ \E b \in Books : RegisterMaker(b) \/ DeregisterMaker(b)
         \/ \E u \in Updaters : ReadRegistry(u) \/ DropUpdate(u)
                                  \/ \E list \in Lists : UpdateRegistry(u, list)
  PROVE  ScanInv'
<1>1. UNCHANGED <<book, open, scan, steady, gone>>
  BY DEF RegisterMaker, DeregisterMaker, NewRegistry, ReadRegistry, DropUpdate, UpdateRegistry, chain
<1>2. makers' \in Seq(Books)
  <2>0. makers \in Seq(Books)
    BY DEF ScanInv
  <2>1. ASSUME NEW b \in Books, RegisterMaker(b) PROVE makers' \in Seq(Books)
    BY <2>0, <2>1 DEF RegisterMaker, NewRegistry
  <2>2. ASSUME NEW b \in Books, DeregisterMaker(b) PROVE makers' \in Seq(Books)
    <3>1. PICK i \in DOMAIN makers :
            makers' = SubSeq(makers, 1, i - 1) \o SubSeq(makers, i + 1, Len(makers))
      BY <2>2 DEF DeregisterMaker, NewRegistry
    <3>2. i \in 1..Len(makers) /\ Len(makers) \in Nat
      BY <2>0
    <3>3. SubSeq(makers, 1, i - 1) \in Seq(Books) /\ SubSeq(makers, i + 1, Len(makers)) \in Seq(Books)
      BY <2>0, <3>2
    <3> QED BY <3>1, <3>3
  <2>3. ASSUME NEW u \in Updaters, ReadRegistry(u) \/ DropUpdate(u) PROVE makers' \in Seq(Books)
    BY <2>0, <2>3 DEF ReadRegistry, DropUpdate, chain
  <2>4. ASSUME NEW u \in Updaters, NEW list \in Lists, UpdateRegistry(u, list)
        PROVE  makers' \in Seq(Books)
    BY <2>4, RegistryAssumption DEF UpdateRegistry, Lists
  <2> QED BY <2>1, <2>2, <2>3, <2>4
<1>3. book' \in [Books -> Contents]
  BY <1>1 DEF ScanInv
<1> QED
  BY <1>1, <1>2, <1>3, StillScanning

\* A scan over nothing.
LEMMA NoScanType == NoScan \in Scans /\ Keys(NoScan.got) = {}
<1>1. <<>> \in Seq(Books) /\ <<>> \in Seq(Fetched)
  OBVIOUS
<1>2. DOMAIN <<>> = {}
  OBVIOUS
<1>3. NoScan \in Scans
  BY <1>1 DEF NoScan, Scans
<1>4. NoScan.got = <<>>
  BY DEF NoScan
<1> QED
  BY <1>2, <1>3, <1>4 DEF Keys

\* So does reading the registry.
LEMMA ReadMakersScans ==
  ASSUME ScanInv, ReadMakers
  PROVE  ScanInv'
<1>1. UNCHANGED <<book, open, makers>> /\ steady' = Ran(makers) \cap open /\ gone' = {}
  BY DEF ReadMakers, chain
<1>2. scan' = [NoScan EXCEPT !.pc = "fetch", !.todo = makers] /\ makers \in Seq(Books)
  BY DEF ReadMakers, ScanInv
<1>3. scan' \in Scans /\ scan'.pc = "fetch" /\ scan'.todo = makers /\ scan'.got = NoScan.got
  BY <1>2, NoScanType DEF Scans
<1>4. Keys(scan'.got) = {}
  BY <1>3, NoScanType
<1> QED
  BY <1>1, <1>3, <1>4 DEF ScanInv

\* A seat that is no longer an account is not steady, and may be skipped.
LEMMA FetchBookScans ==
  ASSUME ScanInv, FetchBook
  PROVE  ScanInv'
<1> DEFINE h == Head(scan.todo)
           entry == [key |-> h, book |-> book[h]]
           g == IF h \in open THEN Append(scan.got, entry) ELSE scan.got
<1>1. UNCHANGED <<book, open, makers, steady, gone>>
  BY DEF FetchBook, chain
<1>2. /\ scan.todo \in Seq(Books) /\ scan.todo # <<>> /\ scan.got \in Seq(Fetched)
      /\ scan.pc = "fetch" /\ scan \in Scans
  BY DEF ScanInv, FetchBook, Scans
<1>3. h \in Books /\ Tail(scan.todo) \in Seq(Books) /\ Ran(scan.todo) \subseteq {h} \cup Ran(Tail(scan.todo))
  <2> DEFINE td == scan.todo
  <2>1. td \in Seq(Books) /\ td # <<>>
    BY <1>2
  <2> HIDE DEF td
  <2>2. Len(td) \in Nat \ {0} /\ Head(td) = td[1] /\ Head(td) \in Books /\ Tail(td) \in Seq(Books)
        /\ DOMAIN td = 1..Len(td) /\ DOMAIN Tail(td) = 1..(Len(td) - 1)
    BY <2>1
  <2>3. ASSUME NEW i \in DOMAIN td PROVE td[i] \in {Head(td)} \cup Ran(Tail(td))
    <3>1. CASE i = 1
      BY <2>2, <3>1
    <3>2. CASE i # 1
      <4>1. i - 1 \in DOMAIN Tail(td)
        BY <2>2, <3>2
      <4>2. Tail(td)[i - 1] = td[i]
        BY <2>1, <2>2, <3>2
      <4> QED BY <4>1, <4>2 DEF Ran
    <3> QED BY <3>1, <3>2
  <2> QED BY <2>2, <2>3 DEF Ran, td
<1>4. entry \in Fetched /\ entry.key = h
  BY <1>3 DEF Fetched, ScanInv
<1> HIDE DEF entry
<1>5. g \in Seq(Fetched) /\ Keys(g) = IF h \in open THEN Keys(scan.got) \cup {h} ELSE Keys(scan.got)
  <2>1. CASE h \in open
    <3> DEFINE s == scan.got
               a == Append(s, entry)
    <3>1. s \in Seq(Fetched) /\ a \in Seq(Fetched)
      BY <1>2, <1>4
    <3>2. /\ Len(s) \in Nat /\ Len(a) = Len(s) + 1 /\ a[Len(s) + 1] = entry
          /\ \A i \in 1..Len(s) : a[i] = s[i]
          /\ DOMAIN s = 1..Len(s) /\ DOMAIN a = 1..(Len(s) + 1)
      BY <1>2, <1>4
    <3> HIDE DEF s, a
    <3>3. DOMAIN a = DOMAIN s \cup {Len(s) + 1}
      BY <3>2
    <3>4. Keys(a) = Keys(s) \cup {h}
      BY <1>4, <3>2, <3>3 DEF Keys
    <3> QED BY <2>1, <3>1, <3>4 DEF s, a
  <2>2. CASE h \notin open
    BY <1>2, <2>2
  <2> QED BY <2>1, <2>2
<1>6. scan' = [scan EXCEPT !.todo = Tail(scan.todo), !.got = g]
  BY DEF FetchBook, entry
<1> HIDE DEF g, h
<1>7. scan' \in Scans /\ scan'.pc = "fetch" /\ scan'.todo = Tail(scan.todo) /\ scan'.got = g
  BY <1>2, <1>3, <1>5, <1>6 DEF Scans
<1>8. steady \subseteq Keys(g) \cup Ran(Tail(scan.todo))
  BY <1>2, <1>3, <1>5 DEF ScanInv
<1>9. Keys(g) \subseteq open \cup gone
  BY <1>5 DEF ScanInv
<1> QED
  BY <1>1, <1>7, <1>8, <1>9 DEF ScanInv

\* So does listing the books of the market.
LEMMA ScanAllScans ==
  ASSUME ScanInv, ScanAll
  PROVE  ScanInv'
<1> DEFINE active == {b \in open : book[b].status = "Active"}
<1>1. PICK keys \in [1..Cardinality(active) -> active] :
        scan' = [NoScan EXCEPT !.pc = "fetch",
                   !.got = [i \in DOMAIN keys |-> [key |-> keys[i], book |-> book[keys[i]]]]]
  BY DEF ScanAll
<1>2. UNCHANGED <<book, open, makers>> /\ steady' = {} /\ gone' = {}
  BY DEF ScanAll, chain
<1>3. Cardinality(active) \in Nat
  <2>1. active \in SUBSET Books
    BY DEF ScanInv
  <2> QED BY <2>1, RegistryAssumption, FS_Subset, FS_CardinalityType
<1> DEFINE g == [i \in DOMAIN keys |-> [key |-> keys[i], book |-> book[keys[i]]]]
<1>4. g \in Seq(Fetched) /\ Keys(g) \subseteq open
  <2> DEFINE n == Cardinality(active)
  <2>1. DOMAIN keys = 1..n /\ n \in Nat /\ \A i \in 1..n : keys[i] \in open /\ keys[i] \in Books
    BY <1>1, <1>3 DEF ScanInv
  <2> HIDE DEF n
  <2>2. \A i \in 1..n : g[i] \in Fetched /\ g[i].key = keys[i]
    BY <2>1 DEF Fetched, ScanInv
  <2>3. g = [i \in 1..n |-> g[i]]
    BY <2>1
  <2> HIDE DEF g
  <2>4. g \in Seq(Fetched)
    <3>1. g \in [1..n -> Fetched]
      BY <2>2, <2>3
    <3> QED BY <2>1, <3>1
  <2> QED BY <2>1, <2>2, <2>3, <2>4 DEF Keys
<1> HIDE DEF g
<1>5. scan' = [NoScan EXCEPT !.pc = "fetch", !.got = g]
  BY <1>1 DEF g
<1>6. scan' \in Scans /\ scan'.pc = "fetch" /\ scan'.got = g
  BY <1>4, <1>5, NoScanType DEF Scans
<1> QED
  BY <1>2, <1>4, <1>6 DEF ScanInv

\* So does the end of a scan.
LEMMA EndScanScans ==
  ASSUME ScanInv, EndScan
  PROVE  ScanInv'
<1>1. UNCHANGED <<book, open, makers>> /\ scan' = NoScan /\ steady' = {} /\ gone' = {}
  BY DEF EndScan, chain
<1>2. NoScan.pc = "idle"
  BY DEF NoScan
<1> QED
  BY <1>1, <1>2, NoScanType DEF ScanInv

-----------------------------------------------------------------------------
(* Ranks: sorting a finite set by counting the elements before each *)

\* The elements before x in an order of K, and how many they are.
Below(K, L, x) == {y \in K : <<y, x>> \in L}
Rank(K, L, x) == Cardinality(Below(K, L, x))

\* L orders K strictly and totally.
Orders(L, K) ==
  /\ \A x \in K : <<x, x>> \notin L
  /\ \A x, y \in K : x = y \/ <<x, y>> \in L \/ <<y, x>> \in L
  /\ \A x, y, z \in K : <<x, y>> \in L /\ <<y, z>> \in L => <<x, z>> \in L

\* Every element has a rank of its own, lower than those of the elements
\* after it, and the ranks are the numbers below the size of the set.
LEMMA RankType ==
  ASSUME NEW K, IsFiniteSet(K), NEW L, Orders(L, K), NEW x \in K
  PROVE  /\ Cardinality(K) \in Nat /\ Rank(K, L, x) \in Nat
         /\ Rank(K, L, x) <= Cardinality(K) - 1
<1>1. Below(K, L, x) \in SUBSET (K \ {x})
  BY DEF Below, Orders
<1>2. IsFiniteSet(K \ {x}) /\ Cardinality(K \ {x}) = Cardinality(K) - 1
  BY FS_RemoveElement
<1>3. IsFiniteSet(Below(K, L, x)) /\ Cardinality(Below(K, L, x)) <= Cardinality(K \ {x})
  BY <1>1, <1>2, FS_Subset
<1>4. Cardinality(Below(K, L, x)) \in Nat /\ Cardinality(K) \in Nat
  BY <1>3, FS_CardinalityType
<1> QED
  BY <1>2, <1>3, <1>4 DEF Rank

\* Ranks grow along the order.
LEMMA RankLess ==
  ASSUME NEW K, IsFiniteSet(K), NEW L, Orders(L, K), NEW x \in K, NEW y \in K, <<x, y>> \in L
  PROVE  Rank(K, L, x) < Rank(K, L, y)
<1> DEFINE X == Below(K, L, x)
           Y == Below(K, L, y)
<1>1. X \in SUBSET Y /\ x \in Y /\ x \notin X
  BY DEF Below, Orders
<1>2. Y \in SUBSET K
  BY DEF Below
<1> HIDE DEF X, Y
<1>3. IsFiniteSet(Y) /\ IsFiniteSet(X)
  BY <1>1, <1>2, FS_Subset
<1>4. Cardinality(X) <= Cardinality(Y) /\ Cardinality(X) # Cardinality(Y)
  BY <1>1, <1>3, FS_Subset
<1>5. Cardinality(X) \in Nat /\ Cardinality(Y) \in Nat
  BY <1>3, FS_CardinalityType
<1> QED
  BY <1>4, <1>5 DEF Rank, X, Y

\* An element is known by its rank.
LEMMA RankTells ==
  ASSUME NEW K, IsFiniteSet(K), NEW L, Orders(L, K), NEW x \in K, NEW y \in K
  PROVE  /\ Rank(K, L, x) = Rank(K, L, y) => x = y
         /\ Rank(K, L, x) < Rank(K, L, y) => <<x, y>> \in L
<1>1. Rank(K, L, x) \in Nat /\ Rank(K, L, y) \in Nat
  BY RankType
<1>2. x = y \/ <<x, y>> \in L \/ <<y, x>> \in L
  BY DEF Orders
<1>3. /\ <<x, y>> \in L => Rank(K, L, x) < Rank(K, L, y)
      /\ <<y, x>> \in L => Rank(K, L, y) < Rank(K, L, x)
  BY RankLess
<1> QED
  BY <1>1, <1>2, <1>3

\* Every rank below the number of elements is taken.
LEMMA RankHits ==
  ASSUME NEW K, IsFiniteSet(K), NEW L, Orders(L, K), NEW r \in Nat, r < Cardinality(K)
  PROVE  \E x \in K : Rank(K, L, x) = r
<1> DEFINE n == Cardinality(K)
           T == 0..(n - 1)
           f == [x \in K |-> Rank(K, L, x)]
<1>1. n \in Nat /\ n > 0
  BY FS_CardinalityType
<1>2. IsFiniteSet(T) /\ Cardinality(T) = n
  <2> HIDE DEF n
  <2>1. 0 \in Int /\ n - 1 \in Int /\ ~(0 > n - 1) /\ (n - 1) - 0 + 1 = n
    BY <1>1
  <2> QED BY <2>1, FS_Interval
<1>3. f \in [K -> T]
  <2>1. \A x \in K : Rank(K, L, x) \in Nat /\ Rank(K, L, x) <= n - 1
    BY RankType
  <2> HIDE DEF n
  <2> QED BY <1>1, <2>1
<1>4. f \in Injection(K, T)
  <2>1. \A x, y \in K : Rank(K, L, x) = Rank(K, L, y) => x = y
    BY RankTells
  <2>2. \A x, y \in K : f[x] = f[y] => x = y
    BY <2>1
  <2> HIDE DEF f, T
  <2> QED BY <1>3, <2>2 DEF Injection, IsInjective
<1> HIDE DEF f, T
<1>5. f \in Surjection(K, T)
  BY <1>2, <1>4, FS_Injection
<1>6. r \in T
  <2> HIDE DEF n
  <2>1. r < n
    BY DEF n
  <2> QED BY <1>1, <2>1 DEF T
<1>7. PICK x \in K : f[x] = r
  BY <1>5, <1>6 DEF Surjection
<1> QED
  BY <1>7 DEF f

\* Numbers, by size.
Less(K) == {p \in K \X K : p[1] < p[2]}
\* The k-th smallest number of a set, as UniqueBooks picks it.
Nth(K, k) == CHOOSE n \in K : Cardinality({m \in K : m < n}) = k - 1

\* A set of numbers is ordered by <.
LEMMA LessOrders ==
  ASSUME NEW K \in SUBSET Nat
  PROVE  /\ Orders(Less(K), K)
         /\ \A x, y \in K : <<x, y>> \in Less(K) <=> x < y
         /\ \A n \in K : Rank(K, Less(K), n) = Cardinality({m \in K : m < n})
<1>1. \A x, y \in K : <<x, y>> \in Less(K) <=> x < y
  BY DEF Less
<1>2. Orders(Less(K), K)
  BY <1>1 DEF Orders
<1>3. \A n \in K : Below(K, Less(K), n) = {m \in K : m < n}
  BY <1>1 DEF Below
<1> QED
  BY <1>1, <1>2, <1>3 DEF Rank

\* The k-th smallest number of a finite set, for every k, and every number of
\* the set is one.
LEMMA NthIn ==
  ASSUME NEW K \in SUBSET Nat, IsFiniteSet(K)
  PROVE  /\ Cardinality(K) \in Nat
         /\ \A k \in 1..Cardinality(K) : Nth(K, k) \in K
         /\ \A j, k \in 1..Cardinality(K) : Nth(K, j) = Nth(K, k) => j = k
         /\ \A n \in K : \E k \in 1..Cardinality(K) : Nth(K, k) = n
<1> DEFINE c == Cardinality(K)
<1>1. c \in Nat
  BY FS_CardinalityType
<1>2. ASSUME NEW k \in 1..c
      PROVE  Nth(K, k) \in K /\ Cardinality({m \in K : m < Nth(K, k)}) = k - 1
  <2>1. k - 1 \in Nat /\ k - 1 < c
    BY <1>1
  <2>2. \E n \in K : Rank(K, Less(K), n) = k - 1
    BY <2>1, LessOrders, RankHits
  <2>3. \E n \in K : Cardinality({m \in K : m < n}) = k - 1
    BY <2>2, LessOrders
  <2> QED BY <2>3 DEF Nth
<1>3. ASSUME NEW j \in 1..c, NEW k \in 1..c, Nth(K, j) = Nth(K, k) PROVE j = k
  <2>1. j - 1 = k - 1
    BY <1>2, <1>3
  <2> QED BY <1>1, <2>1
<1>4. ASSUME NEW n \in K PROVE \E k \in 1..c : Nth(K, k) = n
  <2> DEFINE r == Rank(K, Less(K), n)
  <2>1. r \in Nat /\ r <= c - 1
    BY LessOrders, RankType
  <2>2. r + 1 \in 1..c /\ (r + 1) - 1 = r
    BY <1>1, <2>1
  <2>3. Nth(K, r + 1) \in K /\ Rank(K, Less(K), Nth(K, r + 1)) = r
    BY <1>2, <2>2, LessOrders
  <2>4. Nth(K, r + 1) = n
    BY <2>3, LessOrders, RankTells
  <2> QED BY <2>2, <2>4
<1> QED
  BY <1>1, <1>2, <1>3, <1>4

-----------------------------------------------------------------------------
(* unique_books_in_order *)

\* Where a ladder shows a book first, and which of these a cap keeps.
Firsts(ladder) == {n \in DOMAIN ladder : \A m \in 1..(n - 1) : ladder[m] # ladder[n]}
Kept(ladder, max) == {n \in Firsts(ladder) : Cardinality({m \in Firsts(ladder) : m < n}) < max}

\* UniqueBooks lists the kept positions in order.
LEMMA UniqueIs ==
  ASSUME NEW ladder, NEW max
  PROVE  UniqueBooks(ladder, max) =
           [k \in 1..Cardinality(Kept(ladder, max)) |-> ladder[Nth(Kept(ladder, max), k)]]
  BY DEF UniqueBooks, Kept, Firsts, Nth

\* Both sets of positions are finite sets of numbers.
LEMMA FirstsType ==
  ASSUME NEW X, NEW ladder \in Seq(X), NEW max
  PROVE  /\ Firsts(ladder) \in SUBSET Nat /\ IsFiniteSet(Firsts(ladder))
         /\ Kept(ladder, max) \in SUBSET Firsts(ladder)
         /\ Kept(ladder, max) \in SUBSET Nat /\ IsFiniteSet(Kept(ladder, max))
<1>1. DOMAIN ladder = 1..Len(ladder) /\ Len(ladder) \in Nat
  OBVIOUS
<1>2. IsFiniteSet(DOMAIN ladder) /\ DOMAIN ladder \subseteq Nat
  BY <1>1, FS_Interval
<1>3. Firsts(ladder) \in SUBSET (DOMAIN ladder)
  BY DEF Firsts
<1>4. Kept(ladder, max) \in SUBSET Firsts(ladder)
  BY DEF Kept
<1> QED
  BY <1>2, <1>3, <1>4, FS_Subset

\* Every book of the ladder has a first rung.
LEMMA FirstExists ==
  ASSUME NEW X, NEW ladder \in Seq(X), NEW p \in DOMAIN ladder
  PROVE  \E n \in Firsts(ladder) : n <= p /\ ladder[n] = ladder[p]
<1> DEFINE S == {n \in 1..p : ladder[n] = ladder[p]}
<1>1. DOMAIN ladder = 1..Len(ladder) /\ Len(ladder) \in Nat /\ p \in Nat /\ p >= 1 /\ p <= Len(ladder)
  OBVIOUS
<1>2. S \in SUBSET Nat /\ p \in S /\ IsFiniteSet(S)
  <2>1. IsFiniteSet(1..p) /\ S \in SUBSET (1..p)
    BY <1>1, FS_Interval
  <2> QED BY <1>1, <2>1, FS_Subset
<1>3. Cardinality(S) \in Nat /\ 0 < Cardinality(S)
  BY <1>2, FS_CardinalityType, FS_EmptySet
<1>4. PICK n \in S : Rank(S, Less(S), n) = 0
  <2> HIDE DEF S
  <2>1. Orders(Less(S), S)
    BY <1>2, LessOrders
  <2>2. 0 \in Nat
    OBVIOUS
  <2> DEFINE L == Less(S)
  <2> HIDE DEF L
  <2>3. \E n \in S : Rank(S, L, n) = 0
    BY <1>2, <1>3, <2>1, <2>2, RankHits DEF L
  <2> QED BY <2>3 DEF L
<1>5. \A m \in S : ~(m < n)
  <2> HIDE DEF S
  <2>1. {m \in S : m < n} \in SUBSET S
    OBVIOUS
  <2>2. IsFiniteSet({m \in S : m < n}) /\ Cardinality({m \in S : m < n}) = 0
    BY <1>2, <1>4, <2>1, LessOrders, FS_Subset
  <2>3. {m \in S : m < n} = {}
    BY <2>2, FS_EmptySet
  <2> QED BY <2>3
<1>6. n \in 1..p /\ ladder[n] = ladder[p] /\ n \in DOMAIN ladder
  BY <1>1
<1>7. ASSUME NEW m \in 1..(n - 1) PROVE ladder[m] # ladder[n]
  <2>1. m \in 1..p /\ m < n
    BY <1>1, <1>6
  <2> QED BY <1>5, <1>6, <2>1
<1> QED
  BY <1>6, <1>7 DEF Firsts

\* The list: books of the ladder, no book twice, no more than the cap.
LEMMA UniqueFacts ==
  ASSUME NEW X, NEW ladder \in Seq(X), NEW max \in Nat
  PROVE  LET u == UniqueBooks(ladder, max)
         IN  /\ u \in Seq(X) /\ Len(u) = Cardinality(Kept(ladder, max)) /\ Len(u) <= max
             /\ \A i, j \in DOMAIN u : u[i] = u[j] => i = j
             /\ Ran(u) = {ladder[n] : n \in Kept(ladder, max)}
<1> DEFINE u == UniqueBooks(ladder, max)
           F == Firsts(ladder)
           K == Kept(ladder, max)
           c == Cardinality(K)
           L == Less(F)
<1>1. /\ F \in SUBSET Nat /\ IsFiniteSet(F) /\ K \in SUBSET F /\ K \in SUBSET Nat /\ IsFiniteSet(K)
      /\ F \subseteq DOMAIN ladder
  BY FirstsType DEF Firsts
<1>2. /\ c \in Nat
      /\ \A k \in 1..c : Nth(K, k) \in K
      /\ \A j, k \in 1..c : Nth(K, j) = Nth(K, k) => j = k
      /\ \A n \in K : \E k \in 1..c : Nth(K, k) = n
  <2> HIDE DEF K
  <2> QED BY <1>1, NthIn
<1>3. u = [k \in 1..c |-> ladder[Nth(K, k)]]
  BY UniqueIs
<1>4. \A n \in F : ladder[n] \in X
  BY <1>1
<1>5. \A m, n \in F : ladder[m] = ladder[n] => m = n
  <2> SUFFICES ASSUME NEW m \in F, NEW n \in F, ladder[m] = ladder[n], m # n PROVE FALSE
    OBVIOUS
  <2>1. m \in Nat /\ n \in Nat /\ m >= 1 /\ n >= 1
    BY <1>1
  <2>2. CASE m < n
    <3>1. m \in 1..(n - 1)
      BY <2>1, <2>2
    <3> QED BY <3>1 DEF Firsts
  <2>3. CASE n < m
    <3>1. n \in 1..(m - 1)
      BY <2>1, <2>3
    <3> QED BY <3>1 DEF Firsts
  <2> QED BY <2>1, <2>2, <2>3
<1> HIDE DEF u, c
<1>6. u \in Seq(X) /\ Len(u) = c /\ DOMAIN u = 1..c
  <2> HIDE DEF F, K
  <2>1. u \in [1..c -> X]
    BY <1>1, <1>2, <1>3, <1>4
  <2> QED BY <1>2, <2>1
<1>7. \A i, j \in DOMAIN u : u[i] = u[j] => i = j
  <2> HIDE DEF F, K
  <2> SUFFICES ASSUME NEW i \in 1..c, NEW j \in 1..c, u[i] = u[j] PROVE i = j
    BY <1>6
  <2>1. ladder[Nth(K, i)] = ladder[Nth(K, j)]
    BY <1>3
  <2>2. Nth(K, i) = Nth(K, j)
    BY <1>1, <1>2, <1>5, <2>1
  <2> QED BY <1>2, <2>2
<1>8. Ran(u) = {ladder[n] : n \in K}
  <2> HIDE DEF F, K
  <2> QED BY <1>2, <1>3, <1>6 DEF Ran
<1>9. c <= max
  <2> DEFINE T == 0..(max - 1)
             f == [n \in K |-> Rank(F, L, n)]
  <2>1. IsFiniteSet(T) /\ Cardinality(T) = max
    <3>1. 0 \in Int /\ max - 1 \in Int /\ (IF 0 > max - 1 THEN 0 ELSE (max - 1) - 0 + 1) = max
      OBVIOUS
    <3> QED BY <3>1, FS_Interval
  <2>2. \A n \in K : Rank(F, L, n) \in T
    <3>1. \A n \in K : Rank(F, L, n) < max
      BY <1>1, LessOrders DEF Kept
    <3> HIDE DEF K, F
    <3>2. \A n \in F : Rank(F, L, n) \in Nat
      BY <1>1, LessOrders, RankType
    <3> QED BY <1>1, <3>1, <3>2
  <2>3. \A m, n \in K : Rank(F, L, m) = Rank(F, L, n) => m = n
    <3> HIDE DEF K, F
    <3> QED BY <1>1, LessOrders, RankTells
  <2>4. f \in Injection(K, T)
    <3> HIDE DEF K, F, L, T
    <3>1. f \in [K -> T] /\ \A m, n \in K : f[m] = f[n] => m = n
      BY <2>2, <2>3
    <3> HIDE DEF f
    <3> QED BY <3>1 DEF Injection, IsInjective
  <2> HIDE DEF f, T, K
  <2>5. Cardinality(K) <= Cardinality(T)
    BY <2>1, <2>4, FS_Injection
  <2> QED BY <2>1, <2>5 DEF c
<1> QED
  BY <1>6, <1>7, <1>8, <1>9 DEF u, c

\* A book left off comes after all that are on, and finds the list full.
LEMMA LeftOff ==
  ASSUME NEW X, NEW ladder \in Seq(X), NEW max \in Nat,
         NEW o \in Firsts(ladder), o \notin Kept(ladder, max)
  PROVE  /\ Cardinality(Kept(ladder, max)) = max
         /\ \A n \in Kept(ladder, max) : n < o
<1> DEFINE F == Firsts(ladder)
           K == Kept(ladder, max)
           L == Less(F)
           T == 0..(max - 1)
           f == [n \in K |-> Rank(F, L, n)]
<1>1. F \in SUBSET Nat /\ IsFiniteSet(F) /\ K \in SUBSET F /\ IsFiniteSet(K) /\ o \in F
  BY FirstsType
<1>2. \A n \in F : n \in K <=> Rank(F, L, n) < max
  BY <1>1, LessOrders DEF Kept
<1>3. o \notin K
  OBVIOUS
<1> HIDE DEF F, K
<1>4. Orders(L, F) /\ \A x, y \in F : <<x, y>> \in L <=> x < y
  BY <1>1, LessOrders
<1> HIDE DEF L
<1>5. Cardinality(F) \in Nat /\ \A n \in F : Rank(F, L, n) \in Nat /\ Rank(F, L, n) <= Cardinality(F) - 1
  BY <1>1, <1>4, RankType
<1>6. \A n \in K : Rank(F, L, n) < Rank(F, L, o)
  BY <1>1, <1>2, <1>3, <1>5
<1>7. \A n \in K : n < o
  BY <1>1, <1>4, <1>6, RankTells
<1>8. IsFiniteSet(T) /\ Cardinality(T) = max
  <2>1. 0 \in Int /\ max - 1 \in Int /\ (IF 0 > max - 1 THEN 0 ELSE (max - 1) - 0 + 1) = max
    OBVIOUS
  <2> QED BY <2>1, FS_Interval
<1>9. f \in [K -> T] /\ \A m, n \in K : f[m] = f[n] => m = n
  <2>1. \A n \in K : Rank(F, L, n) \in T
    BY <1>1, <1>2, <1>5
  <2>2. \A m, n \in K : Rank(F, L, m) = Rank(F, L, n) => m = n
    BY <1>1, <1>4, RankTells
  <2> QED BY <2>1, <2>2
<1>10. \A r \in T : \E n \in K : f[n] = r
  <2> SUFFICES ASSUME NEW r \in T PROVE \E n \in K : f[n] = r
    OBVIOUS
  <2>1. r \in Nat /\ r < max /\ r < Cardinality(F)
    BY <1>1, <1>2, <1>3, <1>5
  <2>2. PICK n \in F : Rank(F, L, n) = r
    BY <1>1, <1>4, <2>1, RankHits
  <2> QED BY <1>2, <2>1, <2>2
<1> HIDE DEF f, T
<1>11. f \in Injection(K, T) /\ f \in Surjection(K, T)
  BY <1>9, <1>10 DEF Injection, IsInjective, Surjection
<1>12. Cardinality(K) = Cardinality(T)
  BY <1>8, <1>11, FS_Injection
<1> QED
  BY <1>7, <1>8, <1>12 DEF K

-----------------------------------------------------------------------------
(* build_ladder_for_side *)

\* A rung is a level of a book that was read, at a price.
LEMMA RungFacts ==
  ASSUME NEW got \in Seq(Fetched), NEW side \in {"Bid", "Ask"}, NEW r \in Rungs(got, side)
  PROVE  /\ r[1] \in DOMAIN got /\ r[1] \in Nat /\ r[2] \in Nat /\ r = <<r[1], r[2]>>
         /\ got[r[1]].key \in Books
         /\ RungPrice(got, side, r) \in Int
<1>1. PICK i \in DOMAIN got : \E j \in Quoted(got[i].book, side) : r = <<i, j>>
  BY DEF Rungs
<1>2. PICK j \in Quoted(got[i].book, side) : r = <<i, j>>
  BY <1>1
<1>3. i \in Nat /\ got[i] \in Fetched
  OBVIOUS
<1> DEFINE c == got[i].book
           lv == LevelsOn(c, side)
<1>4. got[i].key \in Books /\ c \in Contents
  BY <1>3 DEF Fetched
<1>5. c.mid \in Nat /\ lv \in Seq([offset : Int, size : Nat])
  <2> HIDE DEF c
  <2> QED BY <1>4 DEF Contents, LevelsOn
<1>6. j \in DOMAIN lv
  BY <1>2 DEF Quoted
<1> HIDE DEF lv
<1>7. j \in Nat /\ lv[j].offset \in Int
  <2> DEFINE Level == [offset : Int, size : Nat]
  <2>1. lv \in Seq(Level)
    BY <1>5
  <2> HIDE DEF Level
  <2>2. j \in Nat /\ lv[j] \in Level
    BY <1>6, <2>1
  <2> QED BY <2>2 DEF Level
<1>8. r[1] = i /\ r[2] = j
  BY <1>2
<1>9. RungPrice(got, side, r) = c.mid + lv[j].offset
  BY <1>8 DEF RungPrice, lv
<1> HIDE DEF c
<1>10. RungPrice(got, side, r) \in Int
  BY <1>5, <1>7, <1>9
<1> QED
  BY <1>2, <1>3, <1>4, <1>7, <1>8, <1>10

\* Finitely many rungs.
LEMMA RungsFinite ==
  ASSUME NEW got \in Seq(Fetched), NEW side \in {"Bid", "Ask"}
  PROVE  IsFiniteSet(Rungs(got, side))
<1> DEFINE K == {k \in DOMAIN got : /\ got[k].book.status = "Active"
                                    /\ got[k].book.mid # 0 \/ got[k].key \notin MMBooks}
           of == [i \in K |-> {<<i, j>> : j \in Quoted(got[i].book, side)}]
           T == {of[i] : i \in K}
<1>1. IsFiniteSet(K)
  <2>1. DOMAIN got = 1..Len(got) /\ Len(got) \in Nat
    OBVIOUS
  <2>2. IsFiniteSet(DOMAIN got) /\ K \in SUBSET (DOMAIN got)
    BY <2>1, FS_Interval
  <2> QED BY <2>2, FS_Subset
<1>2. ASSUME NEW i \in K PROVE IsFiniteSet(of[i])
  <2> DEFINE lv == LevelsOn(got[i].book, side)
             Q == Quoted(got[i].book, side)
             P == {<<i, j>> : j \in Q}
             f == [j \in Q |-> <<i, j>>]
  <2>1. got[i] \in Fetched
    OBVIOUS
  <2>2. lv \in Seq([offset : Int, size : Nat])
    BY <2>1 DEF Fetched, Contents, LevelsOn
  <2>3. Q \in SUBSET (DOMAIN lv)
    BY DEF Quoted
  <2> HIDE DEF lv
  <2>4. DOMAIN lv = 1..Len(lv) /\ Len(lv) \in Nat
    BY <2>2
  <2>5. IsFiniteSet(Q)
    <3>1. IsFiniteSet(1..Len(lv))
      BY <2>4, FS_Interval
    <3> QED BY <2>3, <2>4, <3>1, FS_Subset
  <2> HIDE DEF Q
  <2>6. f \in Surjection(Q, P)
    BY DEF Surjection
  <2>7. IsFiniteSet(P)
    BY <2>5, <2>6, FS_Surjection
  <2>8. of[i] = P
    BY DEF Q
  <2> QED BY <2>7, <2>8
<1>3. Rungs(got, side) = UNION T
  <2>1. Rungs(got, side) = UNION {{<<i, j>> : j \in Quoted(got[i].book, side)} : i \in K}
    BY DEF Rungs
  <2>2. \A i \in K : of[i] = {<<i, j>> : j \in Quoted(got[i].book, side)}
    OBVIOUS
  <2> HIDE DEF of, K
  <2>3. T = {{<<i, j>> : j \in Quoted(got[i].book, side)} : i \in K}
    BY <2>2
  <2> QED BY <2>1, <2>3, Zenon
<1> HIDE DEF K
<1>4. of \in Surjection(K, T)
  BY DEF Surjection
<1> HIDE DEF of
<1>5. IsFiniteSet(T)
  <2> HIDE DEF T
  <2> QED BY <1>1, <1>4, FS_Surjection
<1>6. \A S \in T : IsFiniteSet(S)
  BY <1>2
<1> HIDE DEF T
<1> QED
  BY <1>3, <1>5, <1>6, FS_UNION

\* The rungs of a ladder in the order of the stable sort.
RungOrder(got, side) ==
  {p \in Rungs(got, side) \X Rungs(got, side) : Before(got, side, p[1], p[2])}

\* Price, then position in the fetched list, orders the rungs.
LEMMA SortOrders ==
  ASSUME NEW got \in Seq(Fetched), NEW side \in {"Bid", "Ask"}
  PROVE  Orders(RungOrder(got, side), Rungs(got, side))
<1> DEFINE R == Rungs(got, side)
           P(r) == RungPrice(got, side, r)
<1>1. \A r, s \in R : <<r, s>> \in RungOrder(got, side) <=> Before(got, side, r, s)
  BY DEF RungOrder
<1>2. \A r \in R : P(r) \in Int /\ r[1] \in Nat /\ r[2] \in Nat /\ r = <<r[1], r[2]>>
  BY RungFacts
<1>3. ASSUME NEW r \in R, NEW s \in R
      PROVE  Before(got, side, r, s) <=>
               \/ side = "Bid" /\ P(r) > P(s)
               \/ side = "Ask" /\ P(r) < P(s)
               \/ P(r) = P(s) /\ r[1] < s[1]
               \/ P(r) = P(s) /\ r[1] = s[1] /\ r[2] < s[2]
  BY DEF Before, Better
<1> HIDE DEF R, P
<1>4. \A x \in R : ~Before(got, side, x, x)
  BY <1>2, <1>3
<1>5. ASSUME NEW x \in R, NEW y \in R
      PROVE  x = y \/ Before(got, side, x, y) \/ Before(got, side, y, x)
  <2>1. (x[1] = y[1] /\ x[2] = y[2]) => x = y
    BY <1>2
  <2>2. P(x) \in Int /\ P(y) \in Int /\ x[1] \in Nat /\ x[2] \in Nat /\ y[1] \in Nat /\ y[2] \in Nat
    BY <1>2
  <2> QED BY <1>3, <2>1, <2>2
<1>6. ASSUME NEW x \in R, NEW y \in R, NEW z \in R, Before(got, side, x, y), Before(got, side, y, z)
      PROVE  Before(got, side, x, z)
  <2>1. /\ P(x) \in Int /\ P(y) \in Int /\ P(z) \in Int /\ x[1] \in Nat /\ x[2] \in Nat
        /\ y[1] \in Nat /\ y[2] \in Nat /\ z[1] \in Nat /\ z[2] \in Nat
    BY <1>2
  <2> QED BY <1>3, <1>6, <2>1
<1> QED
  BY <1>1, <1>4, <1>5, <1>6 DEF Orders, R

\* Each rung is in the ladder at its rank, and each entry is a rung's book.
LEMMA LadderFacts ==
  ASSUME NEW got \in Seq(Fetched), NEW side \in {"Bid", "Ask"}
  PROVE  LET R == Rungs(got, side)
             L == RungOrder(got, side)
             ladder == Ladder(got, side)
         IN  /\ ladder \in Seq(Books) /\ Cardinality(R) \in Nat /\ DOMAIN ladder = 1..Cardinality(R)
             /\ \A r \in R : Rank(R, L, r) + 1 \in DOMAIN ladder
                               /\ ladder[Rank(R, L, r) + 1] = got[r[1]].key
             /\ \A n \in DOMAIN ladder :
                  \E r \in R : Rank(R, L, r) = n - 1 /\ ladder[n] = got[r[1]].key
<1> DEFINE R == Rungs(got, side)
           L == RungOrder(got, side)
           c == Cardinality(R)
           ladder == Ladder(got, side)
           at(n) == CHOOSE r \in R : Cardinality({s \in R : Before(got, side, s, r)}) = n - 1
<1>1. IsFiniteSet(R) /\ Orders(L, R) /\ c \in Nat
  BY RungsFinite, SortOrders, FS_CardinalityType
<1>2. \A r \in R : Rank(R, L, r) = Cardinality({s \in R : Before(got, side, s, r)})
  <2>1. \A r \in R : Below(R, L, r) = {s \in R : Before(got, side, s, r)}
    BY DEF Below, RungOrder
  <2> QED BY <2>1 DEF Rank
<1>3. ladder = [n \in 1..c |-> got[at(n)[1]].key]
  BY DEF Ladder
<1>4. \A r \in R : r[1] \in DOMAIN got /\ got[r[1]].key \in Books
  BY RungFacts
<1> HIDE DEF R, L, ladder, c
<1>5. ASSUME NEW n \in 1..c PROVE at(n) \in R /\ Rank(R, L, at(n)) = n - 1
  <2>1. n - 1 \in Nat /\ n - 1 < c
    BY <1>1
  <2>2. \E r \in R : Rank(R, L, r) = n - 1
    BY <1>1, <2>1, RankHits DEF c
  <2>3. \E r \in R : Cardinality({s \in R : Before(got, side, s, r)}) = n - 1
    BY <1>2, <2>2
  <2> QED BY <1>2, <2>3
<1>6. \A r \in R : Rank(R, L, r) \in Nat /\ Rank(R, L, r) <= c - 1
  BY <1>1, RankType DEF c
<1> HIDE DEF at
<1>7. ladder \in Seq(Books) /\ DOMAIN ladder = 1..c
  <2>1. ladder \in [1..c -> Books]
    BY <1>3, <1>4, <1>5
  <2> QED BY <1>1, <2>1
<1>8. ASSUME NEW r \in R
      PROVE  Rank(R, L, r) + 1 \in 1..c /\ ladder[Rank(R, L, r) + 1] = got[r[1]].key
  <2> DEFINE n == Rank(R, L, r) + 1
  <2>1. n \in 1..c /\ n - 1 = Rank(R, L, r)
    BY <1>1, <1>6
  <2> HIDE DEF n
  <2>2. at(n) = r
    BY <1>1, <1>5, <2>1, RankTells
  <2> QED BY <1>3, <2>1, <2>2 DEF n
<1>9. \A n \in 1..c : \E r \in R : Rank(R, L, r) = n - 1 /\ ladder[n] = got[r[1]].key
  BY <1>3, <1>5
<1> QED
  BY <1>1, <1>7, <1>8, <1>9 DEF R, L, c, ladder

-----------------------------------------------------------------------------
(* The scan's theorems *)

\* Routing a swap keeps the scan's invariant.
LEMMA RouteScans ==
  ASSUME ScanInv, NEW side \in {"Bid", "Ask"}, Route(side)
  PROVE  ScanInv'
<1> DEFINE u == UniqueBooks(Ladder(scan.got, side), MAX_MAKER_BOOKS_PER_AUCTION)
<1>1. UNCHANGED <<book, open, makers, gone>> /\ steady' = {}
      /\ scan' = [scan EXCEPT !.pc = "sent", !.side = side, !.route = u]
  BY DEF Route, chain
<1>2. scan \in Scans /\ scan.got \in Seq(Fetched)
  BY DEF ScanInv, Scans
<1>3. Ladder(scan.got, side) \in Seq(Books)
  BY <1>2, LadderFacts
<1>4. u \in Seq(Books)
  BY <1>3, RegistryAssumption, UniqueFacts
<1> HIDE DEF u
<1>5. scan' \in Scans /\ scan'.pc = "sent" /\ scan'.side = side /\ scan'.route = u /\ scan'.got = scan.got
  BY <1>1, <1>2, <1>4 DEF Scans
<1>6. scan'.route = UniqueBooks(Ladder(scan'.got, scan'.side), MAX_MAKER_BOOKS_PER_AUCTION)
  BY <1>5 DEF u
<1> QED
  BY <1>1, <1>5, <1>6 DEF ScanInv

\* The initial state satisfies the scan's invariant.
LEMMA InitScans ==
  ASSUME Init
  PROVE  ScanInv
<1>1. book \in [Books -> Contents]
  BY ContentsType DEF Init
<1>2. open \subseteq Books /\ makers \in Seq(Books)
  BY RegistryAssumption DEF Init, Lists
<1>3. scan = NoScan /\ steady = {} /\ gone = {}
  BY DEF Init
<1>4. scan.pc = "idle"
  BY <1>3 DEF NoScan
<1> QED
  BY <1>1, <1>2, <1>3, <1>4, NoScanType DEF ScanInv

\* Every step keeps the scan's invariant.
LEMMA NextScans ==
  ASSUME ScanInv, [Next]_vars
  PROVE  ScanInv'
<1>1. CASE UNCHANGED vars
  BY <1>1, StillScanning DEF vars, chain, ScanInv
<1>2. ASSUME NEW b \in Books, NEW q \in LOQuotes, Place(b, q) PROVE ScanInv'
  BY <1>2, PlaceScans
<1>3. ASSUME NEW b \in Books, (\E q \in MMQuotes : Quote(b, q)) \/ Empty(b) \/ ToggleSuspension(b)
      PROVE  ScanInv'
  BY <1>3, BookScans
<1>4. ASSUME NEW b \in Books, Close(b) PROVE ScanInv'
  BY <1>4, CloseScans
<1>5. ASSUME NEW b \in Books, RegisterMaker(b) \/ DeregisterMaker(b) PROVE ScanInv'
  BY <1>5, AuthorityScans
<1>6. ASSUME NEW u \in Updaters,
             ReadRegistry(u) \/ DropUpdate(u) \/ \E list \in Lists : UpdateRegistry(u, list)
      PROVE  ScanInv'
  BY <1>6, AuthorityScans
<1>7. CASE ReadMakers \/ FetchBook \/ ScanAll \/ EndScan
  BY <1>7, ReadMakersScans, FetchBookScans, ScanAllScans, EndScanScans
<1>8. CASE \E side \in {"Bid", "Ask"} : Route(side)
  BY <1>8, RouteScans
<1> QED
  BY <1>1, <1>2, <1>3, <1>4, <1>5, <1>6, <1>7, <1>8 DEF Next

\* The scan's invariant holds in every reachable state.
THEOREM ScanInvariance == Spec => []ScanInv
<1>1. Init => ScanInv
  BY InitScans
<1>2. ScanInv /\ [Next]_vars => ScanInv'
  BY NextScans
<1> QED
  BY <1>1, <1>2, PTL DEF Spec

\* get_registered_maker_books reports every book seated when it began that
\* stayed open, whatever happened to the registry and the other books between
\* its reads.
THEOREM SteadyReported == Spec => []SteadySeatsReported
<1>1. ScanInv => SteadySeatsReported
  <2>1. DOMAIN <<>> = {}
    OBVIOUS
  <2>2. Ran(<<>>) = {}
    BY <2>1 DEF Ran
  <2> QED BY <2>2 DEF ScanInv, SteadySeatsReported, Keys
<1> QED
  BY <1>1, ScanInvariance, PTL

\* A discovered route names each book once, no more than the cap, and only
\* books that were read: closing is all that can make its Swap fail.
THEOREM RouteFailsByClosing == Spec => []OnlyClosingFailsRoute
<1>1. ASSUME ScanInv, scan.pc = "sent", scan.route # <<>>
      PROVE  SwapAccepted(scan.route) \/ \E b \in Ran(scan.route) : b \notin open /\ b \in gone
  <2> DEFINE u == scan.route
             max == MAX_MAKER_BOOKS_PER_AUCTION
             ladder == Ladder(scan.got, scan.side)
  <2>1. /\ scan.got \in Seq(Fetched) /\ scan.side \in {"Bid", "Ask"} /\ u = UniqueBooks(ladder, max)
        /\ Keys(scan.got) \subseteq open \cup gone
    BY <1>1 DEF ScanInv, Scans
  <2>2. ladder \in Seq(Books) /\ \A n \in DOMAIN ladder : ladder[n] \in Keys(scan.got)
    <3>1. ladder \in Seq(Books)
      BY <2>1, LadderFacts
    <3>2. \A r \in Rungs(scan.got, scan.side) : scan.got[r[1]].key \in Keys(scan.got)
      BY <2>1, RungFacts DEF Keys
    <3> QED BY <2>1, <3>1, <3>2, LadderFacts
  <2>3. /\ u \in Seq(Books) /\ Len(u) <= max
        /\ \A i, j \in DOMAIN u : u[i] = u[j] => i = j
        /\ Ran(u) = {ladder[n] : n \in Kept(ladder, max)}
    BY <2>1, <2>2, RegistryAssumption, UniqueFacts
  <2>4. Kept(ladder, max) \subseteq DOMAIN ladder
    BY DEF Kept, Firsts
  <2>5. Ran(u) \subseteq Keys(scan.got)
    BY <2>2, <2>3, <2>4
  <2>6. Len(u) \in 1..max
    <3> HIDE DEF u
    <3>1. u # <<>>
      BY <1>1 DEF u
    <3> QED BY <2>3, <3>1, RegistryAssumption
  <2> QED BY <2>1, <2>3, <2>5, <2>6 DEF SwapAccepted
<1>2. ScanInv => OnlyClosingFailsRoute
  BY <1>1 DEF OnlyClosingFailsRoute
<1> QED
  BY <1>2, ScanInvariance, PTL

\* unique_books_in_order over the sorted ladder: a book is left off only when
\* the list is full, and no rung of it is better than the best of a listed
\* book.
THEOREM CapIsBest == Spec => []CapKeepsBest
<1>1. ASSUME ScanInv, scan.pc = "sent", NEW b \in Books \ Ran(scan.route),
             NEW r \in Rungs(scan.got, scan.side), scan.got[r[1]].key = b
      PROVE  /\ Len(scan.route) = MAX_MAKER_BOOKS_PER_AUCTION
             /\ \A c \in Ran(scan.route) :
                  \E s \in Rungs(scan.got, scan.side) :
                    /\ scan.got[s[1]].key = c
                    /\ ~Better(scan.side, RungPrice(scan.got, scan.side, r),
                               RungPrice(scan.got, scan.side, s))
  <2> DEFINE u == scan.route
             got == scan.got
             side == scan.side
             max == MAX_MAKER_BOOKS_PER_AUCTION
             ladder == Ladder(got, side)
             R == Rungs(got, side)
             L == RungOrder(got, side)
             K == Kept(ladder, max)
             p == Rank(R, L, r) + 1
  <2>1. /\ got \in Seq(Fetched) /\ side \in {"Bid", "Ask"} /\ u = UniqueBooks(ladder, max) /\ max \in Nat
    BY <1>1, RegistryAssumption DEF ScanInv, Scans
  <2>2. r \in R /\ got[r[1]].key = b /\ b \notin Ran(u)
    BY <1>1
  <2> HIDE DEF u, got, side, max
  <2>3. IsFiniteSet(R) /\ Orders(L, R)
    BY <2>1, RungsFinite, SortOrders
  <2>4. /\ ladder \in Seq(Books)
        /\ \A q \in R : Rank(R, L, q) + 1 \in DOMAIN ladder /\ ladder[Rank(R, L, q) + 1] = got[q[1]].key
        /\ \A n \in DOMAIN ladder : \E q \in R : Rank(R, L, q) = n - 1 /\ ladder[n] = got[q[1]].key
    BY <2>1, LadderFacts
  <2>5. \A q \in R : RungPrice(got, side, q) \in Int
    BY <2>1, RungFacts
  <2>6. \A q, s \in R : <<q, s>> \in L => Before(got, side, q, s)
    BY DEF RungOrder
  <2> HIDE DEF R, L, ladder
  <2>7. p \in DOMAIN ladder /\ ladder[p] = b
    BY <2>2, <2>4
  <2>8. PICK o \in Firsts(ladder) : o <= p /\ ladder[o] = b
    BY <2>4, <2>7, FirstExists
  <2>9. Len(u) = Cardinality(K) /\ Ran(u) = {ladder[n] : n \in K}
    BY <2>1, <2>4, UniqueFacts
  <2>10. o \notin K
    BY <2>2, <2>8, <2>9
  <2>11. Cardinality(K) = max /\ \A n \in K : n < o
    BY <2>1, <2>4, <2>8, <2>10, LeftOff
  <2>12. ASSUME NEW c \in Ran(u)
         PROVE  \E s \in R : /\ got[s[1]].key = c
                             /\ ~Better(side, RungPrice(got, side, r), RungPrice(got, side, s))
    <3>1. PICK n \in K : c = ladder[n]
      BY <2>9
    <3>2. n \in DOMAIN ladder /\ n \in Nat /\ o \in Nat /\ p \in Nat
      BY <2>4, <2>7, <2>8 DEF Kept, Firsts
    <3>3. PICK s \in R : Rank(R, L, s) = n - 1 /\ ladder[n] = got[s[1]].key
      BY <2>4, <3>2
    <3>4. Rank(R, L, s) < Rank(R, L, r)
      <4>1. n < o /\ o <= p
        BY <2>8, <2>11
      <4>2. Rank(R, L, r) \in Nat /\ Rank(R, L, s) \in Nat
        BY <2>2, <2>3, RankType
      <4> QED BY <3>2, <3>3, <4>1, <4>2
    <3>5. Before(got, side, s, r)
      BY <2>2, <2>3, <2>6, <3>4, RankTells
    <3>6. ~Better(side, RungPrice(got, side, r), RungPrice(got, side, s))
      <4>1. RungPrice(got, side, r) \in Int /\ RungPrice(got, side, s) \in Int
        BY <2>2, <2>5
      <4> QED BY <3>5, <4>1 DEF Before, Better
    <3> QED BY <3>1, <3>3, <3>6
  <2> QED BY <2>9, <2>11, <2>12 DEF u, got, side, max, R
<1>2. ScanInv => CapKeepsBest
  BY <1>1 DEF CapKeepsBest
<1> QED
  BY <1>2, ScanInvariance, PTL
=============================================================================
