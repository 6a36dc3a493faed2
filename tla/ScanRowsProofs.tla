--------------------------- MODULE ScanRowsProofs ----------------------------
(***************************************************************************)
(* Every row emitted is counted, and a scan that reads one list has no row   *)
(* before it that it emitted, unless pages at a position were pushed back    *)
(* by a new row.                                                            *)
(***************************************************************************)
EXTENDS ScanProofs

-----------------------------------------------------------------------------
(* Rows and places.                                                         *)

LEMMA PlacesFinite ==
  ASSUME NEW S, NEW l \in Seq(S), NEW A \in SUBSET (1..Len(l))
  PROVE  IsFiniteSet(A) /\ Cardinality(A) \in Nat
<1>1. IsFiniteSet(1..Len(l)) BY FS_Interval
<1> QED BY <1>1, FS_Subset, FS_CardinalityType

\* As many rows as places.
LEMMA RowsAtPlaces ==
  ASSUME NEW S, NEW l \in Seq(S), NEW A \in SUBSET (1..Len(l)),
         \A i, j \in DOMAIN l : l[i] = l[j] => i = j, NEW T,
         \A i \in A : l[i] \in T, \A t \in T : \E i \in A : t = l[i]
  PROVE  IsFiniteSet(T) /\ Cardinality(T) = Cardinality(A)
<1> DEFINE f == [i \in A |-> l[i]]
<1>1. f \in Surjection(A, T) BY DEF Surjection
<1>2. A \subseteq DOMAIN l OBVIOUS
<1>3. f \in Injection(A, T) BY <1>2 DEF Injection, IsInjective
<1>4. IsFiniteSet(A) BY PlacesFinite
<1> HIDE DEF f
<1>5. IsFiniteSet(T) /\ (Cardinality(T) = Cardinality(A) <=> f \in Injection(A, T))
  BY <1>1, <1>4, FS_Surjection
<1> QED BY <1>3, <1>5

\* What a page adds.
LEMMA EmitCounts ==
  ASSUME RowsInv, NEW A \in SUBSET (1..Len(listing)), Emit(A)
  PROVE  /\ IsFiniteSet(emitted') /\ sent' \in Nat /\ Cardinality(emitted') <= sent'
         /\ \A row \in emitted' : row \in emitted \/ row \in held
         /\ Fresh /\ (\A i \in A : i > next) /\ sent = Cardinality(emitted) => sent' = Cardinality(emitted')
<1> DEFINE rows == {listing[i] : i \in A}
<1>1. /\ listing \in Seq(held) /\ IsFiniteSet(emitted) /\ sent \in Nat /\ Cardinality(emitted) <= sent
      /\ \A i, j \in DOMAIN listing : listing[i] = listing[j] => i = j
  BY DEF RowsInv, TypeOK, ListedOnce
<1>2. IsFiniteSet(rows) /\ Cardinality(rows) = Cardinality(A) /\ Cardinality(A) \in Nat
  <2>1. PICK l, T : l = listing /\ T = rows OBVIOUS
  <2>2. /\ l \in Seq(held) /\ A \in SUBSET (1..Len(l))
        /\ (\A i \in A : l[i] \in T) /\ (\A t \in T : \E i \in A : t = l[i])
        /\ \A i, j \in DOMAIN l : l[i] = l[j] => i = j
    BY <1>1, <2>1
  <2>3. IsFiniteSet(T) /\ Cardinality(T) = Cardinality(A) BY ONLY <2>2, RowsAtPlaces
  <2>4. Cardinality(A) \in Nat BY ONLY <2>2, PlacesFinite
  <2> QED BY <2>1, <2>3, <2>4
<1>3. emitted' = emitted \cup rows /\ sent' = sent + Cardinality(A) BY DEF Emit
<1>4. rows \subseteq held BY <1>1
<1>5. Fresh /\ (\A i \in A : i > next) => emitted \cap rows = {} BY DEF Fresh
<1> HIDE DEF rows
<1>6. /\ IsFiniteSet(emitted \cup rows)
      /\ Cardinality(emitted \cup rows) = Cardinality(emitted) + Cardinality(rows) - Cardinality(emitted \cap rows)
  BY <1>1, <1>2, FS_Union
<1>7. Cardinality(emitted) \in Nat /\ Cardinality(emitted \cap rows) \in Nat
  BY <1>1, FS_Intersection, FS_CardinalityType
<1>8. emitted \cap rows = {} => Cardinality(emitted \cap rows) = 0 BY FS_EmptySet
<1> QED BY <1>1, <1>2, <1>3, <1>4, <1>5, <1>6, <1>7, <1>8

LEMMA ListIsOnce ==
  ASSUME NEW rows \in SUBSET held, IsFiniteSet(held), NEW o, NEW l \in Listings(rows, o)
  PROVE  l \in Seq(held) /\ \A i, j \in DOMAIN l : l[i] = l[j] => i = j
<1>1. Cardinality(rows) \in Nat BY FS_Subset, FS_CardinalityType
<1>2. /\ l \in [1..Cardinality(rows) -> rows]
      /\ \A i, j \in DOMAIN l : i < j => l[i] # l[j]
  BY DEF Listings
<1>3. l \in Seq(held) BY <1>1, <1>2
<1>4. DOMAIN l = 1..Cardinality(rows) BY <1>2
<1>5. ASSUME NEW i \in DOMAIN l, NEW j \in DOMAIN l, l[i] = l[j] PROVE i = j
  <2>1. ~(i < j) /\ ~(j < i) BY <1>2, <1>5
  <2>2. i \in Int /\ j \in Int BY <1>4
  <2> QED BY <2>1, <2>2
<1> QED BY <1>3, <1>5

-----------------------------------------------------------------------------
(* The shared steps keep the invariant.                                     *)

LEMMA ListRows ==
  ASSUME RowsInv, pc = "start", UNCHANGED moves, NEW ask, "size" \in DOMAIN ask, ask.size \in Nat,
         List(ask), UNCHANGED <<place, sent, emitted>>, warned' \in BOOLEAN
  PROVE  RowsInv'
<1>1. /\ pc = "start" /\ emitted = {} /\ place = <<0, 0, 0>> /\ sent = 0 /\ moves = {}
      /\ req \in Requests /\ IsFiniteSet(held) /\ standing \subseteq held
      /\ (held \cup emitted) \cap Arrivals[Table] = {}
  BY DEF RowsInv, TypeOK
<1>2. pc' = "paging" /\ asked' = ask /\ UNCHANGED <<req, held, standing>> BY DEF List
<1>3. listing' \in Seq(held) /\ \A i, j \in DOMAIN listing' : listing'[i] = listing'[j] => i = j
  <2>1. Passing(ask.filters, held) \in SUBSET held BY DEF Passing
  <2>2. listing' \in Listings(Passing(ask.filters, held), ask.order) BY DEF List
  <2> QED BY <1>1, <2>1, <2>2, ListIsOnce
<1>4. emitted' = {} /\ sent' = 0 /\ next' = 0 /\ pages' = 0 /\ idle' = 0 /\ moves' = {}
  BY <1>1 DEF place
<1>5. IsFiniteSet(emitted') /\ Cardinality(emitted') = 0 BY <1>4, FS_EmptySet
<1>6. TypeOK' BY <1>1, <1>2, <1>4, <1>5 DEF TypeOK
<1>7. ListedOnce' BY <1>3 DEF ListedOnce
<1>8. Fresh' BY <1>4 DEF Fresh
<1>9. Table' = Table BY <1>2 DEF Table
<1> QED BY <1>1, <1>2, <1>3, <1>4, <1>5, <1>6, <1>7, <1>8, <1>9 DEF RowsInv

LEMMA IsSized == \A f, o, z, stop, k, rest : "size" \in DOMAIN [Asked(f, o, z, stop, k) EXCEPT !.rest = rest]
BY DEF Asked

LEMMA AskRows ==
  ASSUME RowsInv, pc = "start", UNCHANGED moves, NEW f, NEW o, NEW z \in Nat, NEW stop, NEW k,
         Ask(f, o, z, stop, k)
  PROVE  RowsInv'
<1> DEFINE ask == Asked(f, o, z, stop, k)
<1>1. ask = [Asked(f, o, z, stop, k) EXCEPT !.rest = <<>>] BY DEF Asked
<1>2. "size" \in DOMAIN ask BY <1>1, IsSized
<1>3. ask.size = z BY DEF Asked
<1>4. List(ask) /\ UNCHANGED <<place, sent, emitted, warned>> BY DEF Ask, result
<1>5. warned \in BOOLEAN BY DEF RowsInv, TypeOK
<1> HIDE DEF ask
<1> QED BY <1>2, <1>3, <1>4, <1>5, ListRows

LEMMA TurnRows ==
  ASSUME RowsInv, pc = "paging", UNCHANGED moves, NEW size \in Nat, NEW A \in SUBSET PageOf(size), NEW ended,
         Emit(A), Turn(size, ended), idle' \in Nat, warned' \in BOOLEAN
  PROVE  RowsInv'
<1>1. /\ next' = next + size /\ pages' = pages + 1 /\ pc' \in {"paging", "done"}
      /\ UNCHANGED <<req, held, standing, asked, listing>>
  BY DEF Turn
<1>2. next \in Nat /\ pages \in Nat BY DEF RowsInv, TypeOK
<1>3. A \in SUBSET (1..Len(listing)) /\ \A i \in A : next < i /\ i <= next + size BY DEF PageOf
<1>4. /\ IsFiniteSet(emitted') /\ sent' \in Nat /\ Cardinality(emitted') <= sent'
      /\ \A row \in emitted' : row \in emitted \/ row \in held
      /\ Fresh /\ (\A i \in A : i > next) /\ sent = Cardinality(emitted) => sent' = Cardinality(emitted')
  BY <1>3, EmitCounts
<1>5. TypeOK' BY <1>1, <1>2, <1>4 DEF RowsInv, TypeOK
<1>6. ListedOnce' BY <1>1 DEF RowsInv, ListedOnce
<1>7. Fresh => Fresh'
  <2> SUFFICES ASSUME Fresh, NEW i \in DOMAIN listing, i > next + size PROVE listing[i] \notin emitted'
    BY <1>1 DEF Fresh
  <2>1. DOMAIN listing = 1..Len(listing) /\ Len(listing) \in Nat BY DEF RowsInv
  <2>2. i > next BY <1>2, <2>1
  <2>3. listing[i] \notin emitted BY <2>2 DEF Fresh
  <2>4. ASSUME NEW j \in A, listing[i] = listing[j] PROVE FALSE
    <3>1. j \in DOMAIN listing /\ j <= next + size BY <1>3, <2>1
    <3>2. i = j BY <2>4, <3>1 DEF RowsInv, ListedOnce
    <3> QED BY <1>2, <2>1, <3>1, <3>2
  <2> QED BY <2>3, <2>4 DEF Emit
<1>8. Table' = Table /\ OfOneList' = OfOneList /\ Keeps' = Keeps BY <1>1 DEF Table, OfOneList, Keeps
<1>9. (\A i \in A : i > next) BY <1>2, <1>3 DEF RowsInv
<1> QED BY <1>1, <1>4, <1>5, <1>6, <1>7, <1>8, <1>9 DEF RowsInv

LEMMA AdvanceRows ==
  ASSUME RowsInv, pc = "paging", UNCHANGED moves, NEW size \in Nat, NEW A \in SUBSET PageOf(size),
         NEW more, NEW capped, Advance(size, A, more, capped), idle' \in Nat
  PROVE  RowsInv'
<1>1. warned' \in BOOLEAN BY DEF Advance
<1>2. \E ended : Turn(size, ended) BY DEF Advance
<1> QED BY <1>1, <1>2, TurnRows DEF Advance

LEMMA AnswerOfRows ==
  ASSUME RowsInv, pc = "paging", UNCHANGED moves, NEW size \in Nat, NEW warns \in BOOLEAN,
         AnswerOf(size, PageOf(size), warns)
  PROVE  RowsInv'
<1>1. idle \in Nat BY DEF RowsInv, TypeOK
<1>2. \E ended : Turn(size, ended) BY DEF AnswerOf
<1> QED BY <1>1, <1>2, TurnRows DEF AnswerOf

LEMMA AnswerRows ==
  ASSUME RowsInv, pc = "paging", UNCHANGED moves, NEW warns \in BOOLEAN, Answer(PageOf(asked.size), warns)
  PROVE  RowsInv'
<1>1. asked.size \in Nat BY DEF RowsInv
<1> QED BY <1>1, AnswerOfRows DEF Answer

\* The rows kept of a page are rows of the page.
LEMMA KeptOfPage ==
  ASSUME NEW size, NEW K \in SUBSET PageOf(size)
  PROVE  Appended(K) \in SUBSET PageOf(size) /\ Trimmed(K) \in SUBSET PageOf(size)
BY DEF Appended, Trimmed

LEMMA SizesAreNat ==
  /\ {PageSize, MaxRows, Everything} \subseteq Nat
  /\ req \in Requests /\ req.limit # Null => WrappedStop \in Int /\ LimitedSize \in Nat
                                             /\ Max({1, Min({MaxRows, WrappedStop})}) \in Nat
<1>1. {PageSize, MaxRows, MaxInt} \subseteq Nat BY SizeAssumption
<1>2. ASSUME req \in Requests, req.limit # Null PROVE WrappedStop \in Int
  <2>1. req.limit \in Nat \cup {Null} /\ req.offset \in Nat \cup {Null} BY <1>2, RequestAssumption
  <2>2. req.limit \in Nat /\ (req.offset # Null => req.offset \in Nat) BY <1>2, <2>1
  <2>3. StopAt(req) \in Int BY <2>2 DEF StopAt
  <2> QED BY <1>1, <2>3 DEF WrappedStop
<1>3. ASSUME NEW n \in Nat, NEW w \in Int PROVE Max({1, Min({n, w})}) \in Nat
  <2>1. Min({n, w}) \in Int
    <3>1. \E x \in {n, w} : \A y \in {n, w} : x <= y BY <1>3
    <3> QED BY <1>3, <3>1 DEF Min
  <2>2. ASSUME NEW m \in Int PROVE Max({1, m}) \in Nat
    <3>1. \E x \in {1, m} : \A y \in {1, m} : x >= y BY <2>2
    <3>2. Max({1, m}) \in {1, m} /\ Max({1, m}) >= 1 BY <2>2, <3>1 DEF Max
    <3> QED BY <2>2, <3>2
  <2> QED BY <2>1, <2>2
<1> QED BY <1>1, <1>2, <1>3 DEF LimitedSize, Everything

\* A page of a loop.
LEMMA PageRows ==
  ASSUME RowsInv, pc = "paging", UNCHANGED moves, NEW size \in Nat \cup {asked.size}, NEW K \in SUBSET PageOf(size),
         NEW A \in {Appended(K), Trimmed(K)}, NEW more, NEW capped, Advance(size, A, more, capped), idle' \in Nat
  PROVE  RowsInv'
<1>1. size \in Nat BY DEF RowsInv
<1>2. A \in SUBSET PageOf(size) BY KeptOfPage
<1> QED BY <1>1, <1>2, AdvanceRows

\* A scan that ends with its first answer.
LEMMA AfterStart ==
  ASSUME RowsInv, pc = "start", UNCHANGED moves, NEW found \in SUBSET held, pc' \in {"done", "failed"},
         UNCHANGED <<req, held, standing, asked, listing, place, warned>>,
         UNCHANGED <<sent, emitted>> \/ (emitted' = found /\ sent' = Cardinality(found))
  PROVE  RowsInv'
<1>1. UNCHANGED <<next, pages, idle>> BY DEF place
<1>2. IsFiniteSet(found) /\ Cardinality(found) \in Nat BY FS_Subset, FS_CardinalityType DEF RowsInv
<1>3. emitted = {} /\ sent = 0 BY DEF RowsInv, TypeOK
<1>4. Cardinality(emitted) = 0 BY <1>3, FS_EmptySet
<1>5. /\ IsFiniteSet(emitted') /\ sent' \in Nat /\ sent' = Cardinality(emitted') /\ emitted' \subseteq held
  BY <1>2, <1>3, <1>4, FS_EmptySet
<1>6. TypeOK' BY <1>1, <1>5 DEF RowsInv, TypeOK
<1>7. ListedOnce' BY DEF RowsInv, ListedOnce
<1>8. Table' = Table /\ OfOneList' = OfOneList /\ Keeps' = Keeps BY DEF Table, OfOneList, Keeps
<1> QED BY <1>1, <1>3, <1>5, <1>6, <1>7, <1>8 DEF RowsInv

-----------------------------------------------------------------------------
(* The steps of the connectors.                                             *)

LEMMA GitHubRows == RowsInv /\ InGitHub!Next /\ UNCHANGED moves => RowsInv'
<1> SUFFICES ASSUME RowsInv, InGitHub!Next, UNCHANGED moves PROVE RowsInv' OBVIOUS
<1>1. CASE InGitHub!GetRepo
  <2> DEFINE found == InGitHub!Passing(InGitHub!Sent \cup InGitHub!Named, held)
  <2>1. found \in SUBSET held BY DEF InGitHub!Passing
  <2>2. InGitHub!Cardinality(found) = Cardinality(found) BY DEF InGitHub!Cardinality, Cardinality
  <2>3. /\ pc = "start" /\ pc' \in {"done", "failed"}
        /\ UNCHANGED <<req, held, standing, asked, listing, place, warned>>
        /\ \/ UNCHANGED <<sent, emitted>>
           \/ emitted' = found /\ sent' = Cardinality(found)
    BY <1>1, <2>2 DEF InGitHub!GetRepo, InGitHub!result, InGitHub!place, place
  <2> HIDE DEF found
  <2> QED BY <2>1, <2>3, AfterStart
<1>2. CASE InGitHub!Start
  <2>1. InGitHub!PerPage \in Nat
    <3>1. InGitHub!LimitedSize = LimitedSize
      BY GitHubCopies DEF InGitHub!LimitedSize, LimitedSize, InGitHub!Max, Max, InGitHub!Min, Min
    <3> QED BY <3>1, SizesAreNat DEF InGitHub!PerPage, InGitHub!Pushes, RowsInv
  <2>2. PICK f, o, stop : Ask(f, o, InGitHub!PerPage, stop, FALSE)
    BY <1>2, GitHubCopies DEF InGitHub!Start
  <2> QED BY <1>2, <2>1, <2>2, AskRows DEF InGitHub!Start
<1>3. CASE InGitHub!Page
  <2>1. PICK K, more, capped : K \in SUBSET PageOf(asked.size) /\ Advance(asked.size, Appended(K), more, capped)
    <3>1. {i \in PageOf(asked.size) : listing[i].is_row} \in SUBSET PageOf(asked.size) OBVIOUS
    <3> QED BY <1>3, <3>1, GitHubCopies DEF InGitHub!Page
  <2>2. pc = "paging" /\ idle' \in Nat BY <1>3 DEF InGitHub!Page, RowsInv, TypeOK
  <2> QED BY <2>1, <2>2, PageRows
<1> QED BY <1>1, <1>2, <1>3 DEF InGitHub!Next

LEMMA SlackRows == RowsInv /\ InSlack!Next /\ UNCHANGED moves => RowsInv'
<1> SUFFICES ASSUME RowsInv, InSlack!Next, UNCHANGED moves PROVE RowsInv' OBVIOUS
<1>1. ASSUME pc = "start", NEW f, NEW o, NEW safe, NEW k, InSlack!ScanWith(f, o, safe, k)
      PROVE  RowsInv'
  <2>1. InSlack!LimitedSize = LimitedSize
    BY SlackCopies DEF InSlack!LimitedSize, LimitedSize, InSlack!Max, Max, InSlack!Min, Min
  <2>2. PICK z, stop : /\ z = PageSize \/ (req.limit # Null /\ z = LimitedSize)
                       /\ Ask(f, o, z, stop, k)
    BY <1>1, <2>1, SlackCopies DEF InSlack!ScanWith
  <2>3. z \in Nat BY <2>2, SizesAreNat DEF RowsInv
  <2> QED BY <1>1, <2>2, <2>3, AskRows
<1>2. CASE InSlack!Page
  <2>1. PICK size, more, capped : /\ size \in {0, asked.size}
                                  /\ Advance(size, Trimmed(PageOf(size)), more, capped)
                                  /\ idle' = IF size = 0 THEN 1 ELSE 0
    BY <1>2, SlackCopies DEF InSlack!Page, InSlack!Kept, InSlack!Reaches
  <2>2. pc = "paging" /\ idle' \in Nat BY <1>2, <2>1 DEF InSlack!Page
  <2> QED BY <2>1, <2>2, PageRows
<1>3. CASE InSlack!PageOfSearch
  <2>1. PICK more, capped : Advance(asked.size, Appended(PageOf(asked.size)), more, capped)
    BY <1>3, SlackCopies DEF InSlack!PageOfSearch
  <2>2. pc = "paging" /\ idle' \in Nat BY <1>3 DEF InSlack!PageOfSearch, RowsInv, TypeOK
  <2> QED BY <2>1, <2>2, PageRows
<1> QED
  BY <1>1, <1>2, <1>3
  DEF InSlack!Next, InSlack!ScanChannels, InSlack!ScanUsers, InSlack!ScanMessages, InSlack!ScanSearch

LEMMA NewRelicRows == RowsInv /\ InNewRelic!Next /\ UNCHANGED moves => RowsInv'
<1> SUFFICES ASSUME RowsInv, InNewRelic!Next, UNCHANGED moves PROVE RowsInv' OBVIOUS
<1>1. CASE InNewRelic!ScanCurated
  <2> DEFINE size == IF req.table = "accounts" THEN Everything ELSE PageSize
  <2>1. PICK f, o, z, stop : z = size /\ Ask(f, o, z, stop, TRUE)
    BY <1>1, NewRelicCopies DEF InNewRelic!ScanCurated, InNewRelic!Everything, Everything
  <2> QED BY <1>1, <2>1, SizesAreNat, AskRows DEF InNewRelic!ScanCurated
<1>2. CASE InNewRelic!Page
  <2>1. PICK size, more, capped : /\ size \in {0, asked.size}
                                  /\ Advance(size, Trimmed(PageOf(size)), more, capped)
                                  /\ idle' = IF size = 0 THEN 1 ELSE 0
    BY <1>2, NewRelicCopies DEF InNewRelic!Page, InNewRelic!Reaches
  <2>2. pc = "paging" /\ idle' \in Nat BY <1>2, <2>1 DEF InNewRelic!Page
  <2> QED BY <2>1, <2>2, PageRows
<1>3. CASE InNewRelic!ScanNRDB
  <2>1. PICK f, o, z, stop : /\ z = MaxRows \/ (req.limit # Null /\ z = WrappedStop /\ WrappedStop >= 0)
                             /\ Ask(f, o, z, stop, TRUE)
    BY <1>3, NewRelicCopies DEF InNewRelic!ScanNRDB, InNewRelic!PushedLimit
  <2>2. z \in Nat BY <2>1, SizesAreNat DEF RowsInv
  <2> QED BY <1>3, <2>1, <2>2, AskRows DEF InNewRelic!ScanNRDB
<1>4. CASE InNewRelic!Results
  <2>1. PICK w \in BOOLEAN : Answer(PageOf(asked.size), w) BY <1>4, NewRelicCopies DEF InNewRelic!Results
  <2> QED BY <1>4, <2>1, AnswerRows DEF InNewRelic!Results
<1> QED BY <1>1, <1>2, <1>3, <1>4 DEF InNewRelic!Next

LEMMA CkanRows == RowsInv /\ InCkan!Next /\ UNCHANGED moves => RowsInv'
<1> SUFFICES ASSUME RowsInv, InCkan!Next, UNCHANGED moves PROVE RowsInv' OBVIOUS
<1>1. CASE InCkan!ScanDatasets \/ InCkan!ScanResources \/ InCkan!ScanList
  <2> DEFINE room == Max({1, Min({MaxRows, WrappedStop})})
  <2>1. InCkan!Max({1, InCkan!Min({MaxRows, InCkan!WrappedStop})}) = room
    BY CkanCopies DEF InCkan!Max, Max, InCkan!Min, Min
  <2>2. room \in Nat \/ req.limit = Null BY SizesAreNat DEF RowsInv
  <2> HIDE DEF room
  <2>3. PICK f, o, z, stop : z \in Nat /\ Ask(f, o, z, stop, FALSE)
    <3>1. CASE InCkan!ScanDatasets
      <4>1. PICK f, o, z, stop, push : /\ push => req.limit # Null
                                       /\ z = (IF push THEN room ELSE PageSize)
                                       /\ Ask(f, o, z, stop, FALSE)
        BY <2>1, <3>1, CkanCopies DEF InCkan!ScanDatasets
      <4> QED BY <2>2, <4>1, SizesAreNat
    <3>2. CASE InCkan!ScanResources \/ InCkan!ScanList
      <4>1. PICK z : z \in {Everything, PageSize} /\ \E f, o, stop : Ask(f, o, z, stop, FALSE)
        BY <3>2, CkanCopies DEF InCkan!ScanResources, InCkan!ScanList, InCkan!Everything, Everything
      <4> QED BY <4>1, SizesAreNat
    <3> QED BY <1>1, <3>1, <3>2
  <2>4. pc = "start" BY <1>1 DEF InCkan!ScanDatasets, InCkan!ScanResources, InCkan!ScanList
  <2> QED BY <2>3, <2>4, AskRows
<1>2. CASE InCkan!Page
  <2>1. PICK K, more, capped : K \in SUBSET PageOf(asked.size) /\ Advance(asked.size, Appended(K), more, capped)
    <3>1. {i \in PageOf(asked.size) : listing[i].is_row} \in SUBSET PageOf(asked.size) OBVIOUS
    <3> QED BY <1>2, <3>1, CkanCopies DEF InCkan!Page
  <2>2. pc = "paging" /\ idle' \in Nat BY <1>2 DEF InCkan!Page, RowsInv, TypeOK
  <2> QED BY <2>1, <2>2, PageRows
<1> QED BY <1>1, <1>2 DEF InCkan!Next

\* On to the comments of the next issue; some of them may have been emitted before.
LEMMA NextKeyRows ==
  ASSUME RowsInv, pc = "paging", UNCHANGED moves, NEW size, NEW A \in SUBSET PageOf(size), Emit(A),
         req.schema = "jira", req.table = "comments", NEW ask, "size" \in DOMAIN ask, ask.size = asked.size, List(ask),
         next' = 0, pages' = 0, idle' \in Nat, warned' \in BOOLEAN
  PROVE  RowsInv'
<1>1. A \in SUBSET (1..Len(listing)) BY DEF PageOf
<1>2. /\ IsFiniteSet(emitted') /\ sent' \in Nat /\ Cardinality(emitted') <= sent'
      /\ \A row \in emitted' : row \in emitted \/ row \in held
  BY <1>1, EmitCounts
<1>3. pc' = "paging" /\ asked' = ask /\ UNCHANGED <<req, held, standing>> BY DEF List
<1>4. listing' \in Seq(held) /\ \A i, j \in DOMAIN listing' : listing'[i] = listing'[j] => i = j
  <2>1. Passing(ask.filters, held) \in SUBSET held BY DEF Passing
  <2>2. listing' \in Listings(Passing(ask.filters, held), ask.order) BY DEF List
  <2> QED BY <2>1, <2>2, ListIsOnce DEF RowsInv
<1>5. TypeOK' BY <1>2, <1>3 DEF RowsInv, TypeOK
<1>6. ListedOnce' BY <1>4 DEF ListedOnce
<1>7. Table' = Table BY <1>3 DEF Table
<1>8. ~OfOneList' BY <1>3 DEF OfOneList
<1> QED BY <1>2, <1>3, <1>4, <1>5, <1>6, <1>7, <1>8 DEF RowsInv

LEMMA JiraRows == RowsInv /\ InJira!Next /\ UNCHANGED moves => RowsInv'
<1> SUFFICES ASSUME RowsInv, InJira!Next, UNCHANGED moves PROVE RowsInv' OBVIOUS
<1>1. \A push \in BOOLEAN : (push => req.limit # Null) => InJira!Size(push) \in Nat
  <2>1. InJira!LimitedSize = LimitedSize
    BY JiraCopies DEF InJira!LimitedSize, LimitedSize, InJira!Max, Max, InJira!Min, Min
  <2> QED BY <2>1, SizesAreNat DEF InJira!Size, RowsInv
<1>2. CASE InJira!ScanIssues
  <2> DEFINE push == req.limit # Null /\ InJira!ConsumedAll /\ InJira!OrderOK /\ ~InJira!Defaulted
             size == InJira!Size(push)
  <2>1. size \in Nat BY <1>1
  <2>2. PICK f, o, stop, k : List(Asked(f, o, size, stop, k)) BY <1>2, JiraCopies DEF InJira!ScanIssues
  <2> HIDE DEF size
  <2>3. PICK ask : ask = [Asked(f, o, size, stop, k) EXCEPT !.rest = <<>>] /\ List(ask) BY <2>2 DEF Asked
  <2>4. pc = "start" /\ warned' \in BOOLEAN /\ UNCHANGED <<place, sent, emitted>>
    BY <1>2 DEF InJira!ScanIssues, InJira!place, place, InJira!Defaulted
  <2>5. "size" \in DOMAIN ask BY <2>3, IsSized
  <2>6. ask.size = size BY <2>3 DEF Asked
  <2> QED BY <2>1, <2>3, <2>4, <2>5, <2>6, ListRows
<1>3. CASE InJira!ScanProjects
  <2> DEFINE push == req.limit # Null /\ InJira!ProjectsLimitSafe
             size == InJira!Size(push)
  <2>1. size \in Nat BY <1>1
  <2>2. PICK f, o, stop : Ask(f, o, size, stop, FALSE) BY <1>3, JiraCopies DEF InJira!ScanProjects
  <2> HIDE DEF size
  <2> QED BY <1>3, <2>1, <2>2, AskRows DEF InJira!ScanProjects
<1>4. CASE InJira!ScanComments
  <2> DEFINE push == req.limit # Null /\ InJira!CommentsLimitSafe
             size == InJira!Size(push)
  <2>1. size \in Nat BY <1>1
  <2>2. PICK f, o, stop, k, rest, ask : ask = [Asked(f, o, size, stop, k) EXCEPT !.rest = rest] /\ List(ask)
    BY <1>4, JiraCopies DEF InJira!ScanComments
  <2> HIDE DEF size
  <2>3. pc = "start" /\ warned' = warned /\ UNCHANGED <<place, sent, emitted>>
    BY <1>4 DEF InJira!ScanComments, InJira!place, place, InJira!result
  <2>4. warned' \in BOOLEAN BY <2>3 DEF RowsInv, TypeOK
  <2>5. "size" \in DOMAIN ask BY <2>2, IsSized
  <2>6. ask.size = size BY <2>2 DEF Asked
  <2> QED BY <2>1, <2>2, <2>3, <2>4, <2>5, <2>6, ListRows
<1>5. CASE InJira!Page
  <2>1. PICK size \in InJira!Sends : /\ \E more, capped : Advance(size, Appended(PageOf(size)), more, capped)
                                     /\ idle' = idle + (IF size = 0 THEN 1 ELSE 0)
    BY <1>5, JiraCopies DEF InJira!Page
  <2>2. size \in Nat BY DEF InJira!Sends
  <2>3. pc = "paging" /\ idle' \in Nat BY <1>5, <2>1 DEF InJira!Page, RowsInv, TypeOK
  <2> QED BY <2>1, <2>2, <2>3, PageRows
<1>6. CASE InJira!NextKey
  <2>1. PICK size \in InJira!Sends :
          /\ pc = "paging" /\ req.schema = "jira" /\ req.table = "comments"
          /\ Emit(Appended(PageOf(size)))
          /\ next' = 0 /\ pages' = 0 /\ idle' = idle + (IF size = 0 THEN 1 ELSE 0)
    BY <1>6, JiraCopies DEF InJira!NextKey, InJira!On, InJira!Here
  <2>2. warned' \in BOOLEAN BY <1>6 DEF InJira!NextKey
  <2>3. PICK f, rest, ask : ask = [asked EXCEPT !.filters = f, !.rest = rest] /\ List(ask)
    BY <1>6, JiraCopies DEF InJira!NextKey
  <2>4. "size" \in DOMAIN ask /\ ask.size = asked.size
    <3>1. "size" \in DOMAIN asked BY <2>1 DEF RowsInv
    <3> QED BY <2>3, <3>1
  <2>5. Appended(PageOf(size)) \in SUBSET PageOf(size) BY KeptOfPage
  <2>6. idle' \in Nat BY <2>1 DEF RowsInv, TypeOK
  <2> QED BY <2>1, <2>2, <2>3, <2>4, <2>5, <2>6, NextKeyRows
<1> QED BY <1>2, <1>3, <1>4, <1>5, <1>6 DEF InJira!Next

LEMMA PostgresRows == RowsInv /\ InPostgres!Next /\ UNCHANGED moves => RowsInv'
<1> SUFFICES ASSUME RowsInv, InPostgres!Next, UNCHANGED moves PROVE RowsInv' OBVIOUS
<1>1. CASE InPostgres!Scan
  <2>1. PICK f, o, z, stop : /\ z = MaxRows \/ (req.limit # Null /\ z = WrappedStop /\ WrappedStop >= 0)
                             /\ Ask(f, o, z, stop, TRUE)
    BY <1>1, PostgresCopies DEF InPostgres!Scan, InPostgres!PushLimit
  <2>2. z \in Nat BY <2>1, SizesAreNat DEF RowsInv
  <2> QED BY <1>1, <2>1, <2>2, AskRows DEF InPostgres!Scan
<1>2. CASE InPostgres!Rows
  <2>1. PICK w \in BOOLEAN : Answer(PageOf(asked.size), w) BY <1>2, PostgresCopies DEF InPostgres!Rows
  <2> QED BY <1>2, <2>1, AnswerRows DEF InPostgres!Rows
<1> QED BY <1>1, <1>2 DEF InPostgres!Next

LEMMA GitRows == RowsInv /\ InGit!Next /\ UNCHANGED moves => RowsInv'
<1> SUFFICES ASSUME RowsInv, InGit!Next, UNCHANGED moves PROVE RowsInv' OBVIOUS
<1>1. CASE InGit!ScanCommits
  <2> DEFINE size == IF ~InGit!Pushes THEN MaxRows ELSE IF WrappedStop < 0 THEN Everything ELSE WrappedStop
  <2>1. size \in Nat BY SizesAreNat DEF InGit!Pushes, RowsInv
  <2>2. PICK f, stop : Ask(f, <<>>, size, stop, TRUE)
    BY <1>1, GitCopies DEF InGit!ScanCommits, InGit!Everything, Everything
  <2> HIDE DEF size
  <2> QED BY <1>1, <2>1, <2>2, AskRows DEF InGit!ScanCommits
<1>2. CASE InGit!ScanWhole
  <2>1. Ask({}, <<>>, MaxRows, Null, TRUE) BY <1>2, GitCopies DEF InGit!ScanWhole
  <2>2. MaxRows \in Nat BY SizesAreNat
  <2> QED BY <1>2, <2>1, <2>2, AskRows DEF InGit!ScanWhole
<1>3. CASE InGit!Output
  <2>1. PICK w \in BOOLEAN : Answer(PageOf(asked.size), w) BY <1>3, GitCopies DEF InGit!Output
  <2> QED BY <1>3, <2>1, AnswerRows DEF InGit!Output
<1> QED BY <1>1, <1>2, <1>3 DEF InGit!Next

LEMMA JaegerRows == RowsInv /\ InJaeger!Next /\ UNCHANGED moves => RowsInv'
<1> SUFFICES ASSUME RowsInv, InJaeger!Next, UNCHANGED moves PROVE RowsInv' OBVIOUS
<1>1. CASE InJaeger!GetTrace \/ InJaeger!SearchTraces \/ InJaeger!ScanServices \/ InJaeger!ScanOperations
  <2>1. PICK f, z : z \in {Everything, 0, MaxRows} /\ Ask(f, <<>>, z, Null, TRUE)
    BY <1>1, JaegerCopies
    DEF InJaeger!GetTrace, InJaeger!SearchTraces, InJaeger!ScanServices, InJaeger!ScanOperations,
        InJaeger!Everything, Everything
  <2>2. pc = "start"
    BY <1>1 DEF InJaeger!GetTrace, InJaeger!SearchTraces, InJaeger!ScanServices, InJaeger!ScanOperations
  <2>3. z \in Nat BY <2>1, SizesAreNat
  <2> QED BY <2>1, <2>2, <2>3, AskRows
<1>2. CASE InJaeger!Decode
  <2>1. PICK size \in InJaeger!Sends, w \in BOOLEAN : AnswerOf(size, PageOf(size), w)
    BY <1>2, JaegerCopies DEF InJaeger!Decode
  <2>2. size \in Nat /\ pc = "paging"
    <3>1. asked.size \in Nat BY <1>2 DEF InJaeger!Decode, RowsInv
    <3>2. InJaeger!Everything \in Nat BY SizesAreNat DEF InJaeger!Everything, Everything
    <3> QED BY <1>2, <3>1, <3>2 DEF InJaeger!Decode, InJaeger!Sends
  <2> QED BY <2>1, <2>2, AnswerOfRows
<1> QED BY <1>1, <1>2 DEF InJaeger!Next

LEMMA DockerRows == RowsInv /\ InDocker!Next /\ UNCHANGED moves => RowsInv'
<1> SUFFICES ASSUME RowsInv, InDocker!Next, UNCHANGED moves PROVE RowsInv' OBVIOUS
<1>1. CASE InDocker!Start
  <2>1. Ask({}, <<>>, Everything, Null, TRUE)
    BY <1>1, DockerCopies DEF InDocker!Start, InDocker!Everything, Everything
  <2>2. Everything \in Nat BY SizesAreNat
  <2> QED BY <1>1, <2>1, <2>2, AskRows DEF InDocker!Start
<1>2. CASE InDocker!Listed
  <2>1. PICK w \in BOOLEAN : Answer(PageOf(asked.size), w) BY <1>2, DockerCopies DEF InDocker!Listed
  <2> QED BY <1>2, <2>1, AnswerRows DEF InDocker!Listed
<1> QED BY <1>1, <1>2 DEF InDocker!Next

-----------------------------------------------------------------------------
(* The service between two pages.                                           *)

LEMMA Halves ==
  ASSUME NEW S, NEW l \in Seq(S), NEW m \in 1..(Len(l) + 1)
  PROVE  /\ SubSeq(l, 1, m - 1) \in Seq(S) /\ Len(SubSeq(l, 1, m - 1)) = m - 1
         /\ \A i \in 1..(m - 1) : SubSeq(l, 1, m - 1)[i] = l[i]
         /\ SubSeq(l, m, Len(l)) \in Seq(S) /\ Len(SubSeq(l, m, Len(l))) = Len(l) - m + 1
         /\ \A i \in 1..(Len(l) - m + 1) : SubSeq(l, m, Len(l))[i] = l[m + i - 1]
<1>1. Len(l) \in Nat OBVIOUS
<1>2. m \in Int /\ m - 1 \in Int /\ Len(l) \in Int /\ 1 \in Int BY <1>1
<1>3. (\A i \in 1..(m - 1) : l[i] \in S) /\ (\A i \in m..Len(l) : l[i] \in S) BY <1>1
<1>4. /\ SubSeq(l, 1, m - 1) \in Seq(S)
      /\ Len(SubSeq(l, 1, m - 1)) = IF 1 <= m - 1 THEN m - 1 - 1 + 1 ELSE 0
      /\ \A i \in 1..(m - 1 - 1 + 1) : SubSeq(l, 1, m - 1)[i] = l[1 + i - 1]
  BY <1>2, <1>3, SubSeqProperties
<1>5. /\ SubSeq(l, m, Len(l)) \in Seq(S)
      /\ Len(SubSeq(l, m, Len(l))) = IF m <= Len(l) THEN Len(l) - m + 1 ELSE 0
      /\ \A i \in 1..(Len(l) - m + 1) : SubSeq(l, m, Len(l))[i] = l[m + i - 1]
  BY <1>2, <1>3, SubSeqProperties
<1>6. Len(SubSeq(l, 1, m - 1)) = m - 1 BY <1>2, <1>4
<1>7. Len(SubSeq(l, m, Len(l))) = Len(l) - m + 1 BY <1>1, <1>2, <1>5
<1>8. \A i \in 1..(m - 1) : SubSeq(l, 1, m - 1)[i] = l[i] BY <1>2, <1>4
<1> QED BY <1>4, <1>5, <1>6, <1>7, <1>8

LEMMA Joined ==
  ASSUME NEW S, NEW s \in Seq(S), NEW t \in Seq(S)
  PROVE  /\ s \o t \in Seq(S) /\ Len(s \o t) = Len(s) + Len(t)
         /\ \A i \in 1..Len(s) : (s \o t)[i] = s[i]
         /\ \A i \in 1..Len(t) : (s \o t)[Len(s) + i] = t[i]
<1>1. Len(s) \in Nat /\ Len(t) \in Nat OBVIOUS
<1>2. /\ s \o t \in Seq(S) /\ Len(s \o t) = Len(s) + Len(t)
      /\ \A i \in 1..(Len(s) + Len(t)) : (s \o t)[i] = IF i <= Len(s) THEN s[i] ELSE t[i - Len(s)]
  BY ConcatProperties
<1>3. ASSUME NEW i \in 1..Len(s) PROVE (s \o t)[i] = s[i]
  <2>1. i \in 1..(Len(s) + Len(t)) /\ i <= Len(s) BY <1>1
  <2> QED BY <1>2, <2>1
<1>4. ASSUME NEW i \in 1..Len(t) PROVE (s \o t)[Len(s) + i] = t[i]
  <2>1. Len(s) + i \in 1..(Len(s) + Len(t)) /\ ~(Len(s) + i <= Len(s)) /\ (Len(s) + i) - Len(s) = i BY <1>1
  <2> QED BY <1>2, <2>1
<1> QED BY <1>2, <1>3, <1>4

\* The list without one of its rows.
LEMMA Without ==
  ASSUME NEW S, NEW l \in Seq(S), NEW at \in 1..Len(l), NEW r,
         r = SubSeq(l, 1, at - 1) \o SubSeq(l, at + 1, Len(l))
  PROVE  /\ r \in Seq(S) /\ Len(r) = Len(l) - 1
         /\ \A i \in 1..Len(r) : r[i] = IF i < at THEN l[i] ELSE l[i + 1]
<1>1. PICK p, q, n : p = SubSeq(l, 1, at - 1) /\ q = SubSeq(l, at + 1, Len(l)) /\ n = Len(l) OBVIOUS
<1>2. n \in Nat /\ at \in 1..n BY <1>1
<1>3. at \in 1..(Len(l) + 1) /\ at + 1 \in 1..(Len(l) + 1) BY <1>1, <1>2
<1>4. p \in Seq(S) /\ Len(p) = at - 1 /\ \A i \in 1..(at - 1) : p[i] = l[i]
  BY <1>1, <1>3, Halves
<1>5. /\ q \in Seq(S) /\ Len(q) = n - (at + 1) + 1
      /\ \A i \in 1..(n - (at + 1) + 1) : q[i] = l[at + 1 + i - 1]
  BY <1>1, <1>3, Halves
<1>6. p \in Seq(S) /\ q \in Seq(S) /\ r = p \o q BY <1>1, <1>4, <1>5
<1>7. /\ r \in Seq(S) /\ Len(r) = Len(p) + Len(q)
      /\ \A i \in 1..Len(p) : r[i] = p[i]
      /\ \A i \in 1..Len(q) : r[Len(p) + i] = q[i]
  BY ONLY <1>6, Joined
<1>8. Len(r) = n - 1 BY ONLY <1>2, <1>4, <1>5, <1>7
<1>9. ASSUME NEW i \in 1..(n - 1) PROVE r[i] = IF i < at THEN l[i] ELSE l[i + 1]
  <2>1. CASE i < at
    <3>1. i \in 1..(at - 1) BY ONLY <1>2, <2>1, i \in 1..(n - 1)
    <3>2. r[i] = p[i] BY <1>4, <1>7, <3>1
    <3> QED BY <1>4, <2>1, <3>1, <3>2
  <2>2. CASE ~(i < at)
    <3>1. PICK j : j = i - (at - 1) OBVIOUS
    <3>2. j \in 1..(n - (at + 1) + 1) /\ (at - 1) + j = i /\ at + 1 + j - 1 = i + 1
      BY ONLY <1>2, <2>2, <3>1, i \in 1..(n - 1)
    <3>3. r[(at - 1) + j] = q[j] BY <1>4, <1>5, <1>7, <3>2
    <3>4. q[j] = l[at + 1 + j - 1] BY <1>5, <3>2
    <3> QED BY ONLY <2>2, <3>2, <3>3, <3>4
  <2> QED BY <2>1, <2>2
<1> QED BY <1>1, <1>7, <1>8, <1>9

\* The same, po being the list up to the new row.
LEMMA With ==
  ASSUME NEW S, NEW l \in Seq(S), NEW at \in 1..(Len(l) + 1), NEW row,
         NEW po \in Seq(S), Len(po) = at, po[at] = row, \A i \in 1..(at - 1) : po[i] = l[i],
         NEW q, q = SubSeq(l, at, Len(l)), NEW r, r = po \o q
  PROVE  /\ r \in Seq(S) /\ Len(r) = Len(l) + 1
         /\ \A i \in 1..Len(r) : r[i] = IF i < at THEN l[i] ELSE IF i = at THEN row ELSE l[i - 1]
<1>1. PICK n : n = Len(l) OBVIOUS
<1>2. n \in Nat /\ at \in 1..(n + 1) BY <1>1
<1>3. /\ q \in Seq(S) /\ Len(q) = n - at + 1
      /\ \A i \in 1..(n - at + 1) : q[i] = l[at + i - 1]
  BY <1>1, Halves
<1>4. po \in Seq(S) /\ q \in Seq(S) /\ r = po \o q BY <1>3
<1>5. /\ r \in Seq(S) /\ Len(r) = Len(po) + Len(q)
      /\ \A i \in 1..Len(po) : r[i] = po[i]
      /\ \A i \in 1..Len(q) : r[Len(po) + i] = q[i]
  BY ONLY <1>4, Joined
<1>6. Len(r) = n + 1 BY ONLY <1>2, <1>3, <1>5, Len(po) = at
<1>7. ASSUME NEW i \in 1..(n + 1) PROVE r[i] = IF i < at THEN l[i] ELSE IF i = at THEN row ELSE l[i - 1]
  <2>1. CASE i < at
    <3>1. i \in 1..(at - 1) /\ i \in 1..at BY ONLY <1>2, <2>1, i \in 1..(n + 1)
    <3>2. r[i] = po[i] /\ po[i] = l[i] BY <1>5, <3>1
    <3> QED BY <2>1, <3>2
  <2>2. CASE i = at
    <3>1. at \in 1..at /\ ~(i < at) BY ONLY <1>2, <2>2
    <3>2. r[at] = po[at] BY <1>5, <3>1
    <3> QED BY <2>2, <3>1, <3>2
  <2>3. CASE i > at
    <3>1. PICK j : j = i - at OBVIOUS
    <3>2. j \in 1..(n - at + 1) /\ at + j = i /\ at + j - 1 = i - 1 /\ ~(i < at) /\ i # at
      BY ONLY <1>2, <2>3, <3>1, i \in 1..(n + 1)
    <3>3. r[at + j] = q[j] BY <1>3, <1>5, <3>2
    <3>4. q[j] = l[at + j - 1] BY <1>3, <3>2
    <3> QED BY ONLY <3>2, <3>3, <3>4
  <2>4. i < at \/ i = at \/ i > at BY ONLY <1>2, i \in 1..(n + 1)
  <2> QED BY <2>1, <2>2, <2>3, <2>4
<1> QED BY <1>1, <1>5, <1>6, <1>7

\* What the steps of the service leave to show: where the list and the place in it are.
LEMMA Moved ==
  ASSUME RowsInv, pc = "paging", UNCHANGED <<req, asked, pages, idle, sent, emitted, warned, pc>>,
         next' \in Nat, IsFiniteSet(held'), standing' \subseteq held', moves' \subseteq {"appear", "vanish"},
         listing' \in Seq(held'), ListedOnce', "appear" \notin moves' => "appear" \notin moves /\ held' \subseteq held,
         Fresh /\ (Keeps \/ "appear" \notin moves') => Fresh'
  PROVE  RowsInv'
<1>1. TypeOK' BY DEF RowsInv, TypeOK
<1>2. Table' = Table /\ OfOneList' = OfOneList /\ Keeps' = Keeps BY DEF Table, OfOneList, Keeps
<1>3. OfOneList /\ (Keeps \/ "appear" \notin moves') => sent = Cardinality(emitted) /\ Fresh BY DEF RowsInv
<1> QED BY <1>1, <1>2, <1>3 DEF RowsInv

LEMMA ListLength ==
  ASSUME RowsInv
  PROVE  /\ listing \in Seq(held) /\ Len(listing) \in Nat /\ DOMAIN listing = 1..Len(listing)
         /\ next \in Nat /\ \A i \in 1..Len(listing) : listing[i] \in held
         /\ \A i, j \in 1..Len(listing) : listing[i] = listing[j] => i = j
<1>1. listing \in Seq(held) /\ next \in Nat BY DEF RowsInv, TypeOK
<1>2. DOMAIN listing = 1..Len(listing) /\ Len(listing) \in Nat BY <1>1
<1> QED BY <1>1, <1>2 DEF RowsInv, ListedOnce

LEMMA AppearList ==
  ASSUME RowsInv, NEW row, NEW at \in 1..(Len(listing) + 1),
         listing' = SubSeq(listing, 1, at - 1) \o <<row>> \o SubSeq(listing, at, Len(listing))
  PROVE  /\ listing' \in Seq(held \cup {row}) /\ Len(listing') = Len(listing) + 1
         /\ DOMAIN listing' = 1..(Len(listing) + 1)
         /\ \A i \in 1..(Len(listing) + 1) :
              listing'[i] = IF i < at THEN listing[i] ELSE IF i = at THEN row ELSE listing[i - 1]
<1>1. PICK l, r, S : l = listing /\ r = listing' /\ S = held \cup {row} OBVIOUS
<1>2. l \in Seq(S) /\ at \in 1..(Len(l) + 1) BY <1>1, ListLength, SeqMonotonic
<1>3. PICK one, p, q, po : /\ one = <<row>> /\ p = SubSeq(l, 1, at - 1) /\ po = p \o one
                           /\ q = SubSeq(l, at, Len(l)) /\ r = po \o q
  BY <1>1
<1>4. one \in Seq(S) /\ Len(one) = 1 /\ one[1] = row
  <2>1. row \in S BY <1>1
  <2> QED BY <1>3, <2>1
<1>5. p \in Seq(S) /\ Len(p) = at - 1 /\ \A i \in 1..(at - 1) : p[i] = l[i]
  BY <1>2, <1>3, Halves
<1>6. po \in Seq(S) /\ Len(po) = at /\ po[at] = row /\ \A i \in 1..(at - 1) : po[i] = l[i]
  <2>1. p \in Seq(S) /\ one \in Seq(S) /\ po = p \o one BY <1>3, <1>4, <1>5
  <2>2. /\ po \in Seq(S) /\ Len(po) = Len(p) + Len(one)
        /\ \A i \in 1..Len(p) : po[i] = p[i]
        /\ \A i \in 1..Len(one) : po[Len(p) + i] = one[i]
    BY ONLY <2>1, Joined
  <2>3. at \in Int /\ 1 \in 1..1 /\ (at - 1) + 1 = at BY <1>2
  <2>4. Len(po) = at BY <1>4, <1>5, <2>2, <2>3
  <2>5. po[(at - 1) + 1] = one[1] BY <1>4, <1>5, <2>2, <2>3
  <2> QED BY <1>4, <1>5, <2>2, <2>3, <2>4, <2>5
<1>7. q = SubSeq(l, at, Len(l)) /\ r = po \o q BY <1>3
<1>8. /\ r \in Seq(S) /\ Len(r) = Len(l) + 1
      /\ \A i \in 1..Len(r) : r[i] = IF i < at THEN l[i] ELSE IF i = at THEN row ELSE l[i - 1]
  BY ONLY <1>2, <1>6, <1>7, With
<1>9. DOMAIN r = 1..(Len(l) + 1) BY <1>8
<1> QED BY <1>1, <1>8, <1>9

LEMMA VanishList ==
  ASSUME RowsInv, NEW at \in DOMAIN listing,
         listing' = SubSeq(listing, 1, at - 1) \o SubSeq(listing, at + 1, Len(listing))
  PROVE  /\ listing' \in Seq(held) /\ Len(listing') = Len(listing) - 1
         /\ DOMAIN listing' = 1..(Len(listing) - 1)
         /\ \A i \in 1..(Len(listing) - 1) : listing'[i] = IF i < at THEN listing[i] ELSE listing[i + 1]
<1>1. PICK l, r : l = listing /\ r = listing' OBVIOUS
<1>2. l \in Seq(held) /\ at \in 1..Len(l) /\ r = SubSeq(l, 1, at - 1) \o SubSeq(l, at + 1, Len(l))
  BY <1>1, ListLength
<1>3. /\ r \in Seq(held) /\ Len(r) = Len(l) - 1
      /\ \A i \in 1..Len(r) : r[i] = IF i < at THEN l[i] ELSE l[i + 1]
  BY ONLY <1>2, Without
<1>4. DOMAIN r = 1..(Len(l) - 1) BY <1>3
<1> QED BY <1>1, <1>3, <1>4

LEMMA VanishRows ==
  ASSUME RowsInv, NEW at \in DOMAIN listing, Vanish(at)
  PROVE  RowsInv'
<1>1. /\ listing \in Seq(held) /\ Len(listing) \in Nat /\ DOMAIN listing = 1..Len(listing) /\ next \in Nat
      /\ \A i \in 1..Len(listing) : listing[i] \in held
      /\ \A i, j \in 1..Len(listing) : listing[i] = listing[j] => i = j
  BY ListLength
<1>2. PICK l, r, n : l = listing /\ r = listing' /\ n = Len(listing) OBVIOUS
<1>3. n \in Nat /\ at \in 1..n BY <1>1, <1>2
<1>5. /\ r \in Seq(held) /\ Len(r) = n - 1
      /\ \A i \in 1..(n - 1) : r[i] = IF i < at THEN l[i] ELSE l[i + 1]
  <2>1. listing' = SubSeq(listing, 1, at - 1) \o SubSeq(listing, at + 1, Len(listing)) BY DEF Vanish
  <2> QED BY <1>2, <2>1, VanishList
<1>6. DOMAIN r = 1..(n - 1) BY <1>5
\* Where a row of the new list was in the old one.
<1>7. PICK old : old = [i \in 1..(n - 1) |-> IF i < at THEN i ELSE i + 1] OBVIOUS
<1>8. \A i \in 1..(n - 1) : old[i] \in 1..n /\ old[i] # at /\ r[i] = l[old[i]] BY <1>3, <1>5, <1>7
<1>9. \A i, j \in 1..(n - 1) : old[i] = old[j] => i = j BY <1>3, <1>7
<1>10. /\ pc = "paging" /\ held' = held \ {l[at]} /\ standing' = standing \ {l[at]}
       /\ moves' = moves \cup {"vanish"} /\ next' = next - Ahead(at)
       /\ UNCHANGED <<req, asked, pages, idle, sent, emitted, warned, pc>>
  BY <1>2 DEF Vanish, result
<1>11. next' \in Nat /\ (next' = next \/ (at <= next /\ next' = next - 1)) BY <1>1, <1>3, <1>10 DEF Ahead
<1>12. IsFiniteSet(held') BY <1>10, FS_RemoveElement DEF RowsInv
<1>13. r \in Seq(held')
  <2>1. \A i \in 1..(n - 1) : r[i] \in held' BY <1>1, <1>2, <1>3, <1>8, <1>10
  <2>2. r = [i \in 1..(n - 1) |-> r[i]] BY <1>5, <1>6
  <2>3. n - 1 \in Nat BY <1>3
  <2> QED BY <2>1, <2>2, <2>3
<1>14. ListedOnce'
  <2>1. \A i, j \in 1..(n - 1) : r[i] = r[j] => i = j BY <1>1, <1>2, <1>8, <1>9
  <2> QED BY <1>2, <1>6, <2>1 DEF ListedOnce
<1>15. Fresh => Fresh'
  <2> SUFFICES ASSUME Fresh, NEW i \in 1..(n - 1), i > next' PROVE r[i] \notin emitted
    BY <1>2, <1>6, <1>10 DEF Fresh
  <2>1. old[i] > next
    <3>1. old[i] = IF i < at THEN i ELSE i + 1 BY <1>7
    <3> QED BY <1>1, <1>3, <1>11, <3>1
  <2> QED BY <1>1, <1>2, <1>8, <2>1 DEF Fresh
<1>16. standing' \subseteq held' /\ moves' \subseteq {"appear", "vanish"} BY <1>10 DEF RowsInv, TypeOK
<1> QED BY <1>2, <1>10, <1>11, <1>12, <1>13, <1>14, <1>15, <1>16, Moved

LEMMA AppearRows ==
  ASSUME RowsInv, NEW row, row \in Arrivals[Table], Appear(row)
  PROVE  RowsInv'
<1>1. /\ listing \in Seq(held) /\ Len(listing) \in Nat /\ DOMAIN listing = 1..Len(listing) /\ next \in Nat
      /\ \A i \in 1..Len(listing) : listing[i] \in held
      /\ \A i, j \in 1..Len(listing) : listing[i] = listing[j] => i = j
  BY ListLength
<1>2. /\ pc = "paging" /\ row \notin held /\ held' = held \cup {row} /\ "appear" \notin moves
      /\ moves' = moves \cup {"appear"}
      /\ UNCHANGED <<req, standing, asked, pages, idle, sent, emitted, warned, pc>>
  BY DEF Appear, result
<1>3. row \notin emitted BY <1>2 DEF RowsInv
<1>4. IsFiniteSet(held') BY <1>2, FS_AddElement DEF RowsInv
<1>5. standing' \subseteq held' /\ moves' \subseteq {"appear", "vanish"} /\ "appear" \in moves'
  BY <1>2 DEF RowsInv, TypeOK
<1>6. listing \in Seq(held') BY <1>1, <1>2, SeqMonotonic
<1>7. CASE UNCHANGED <<listing, next>>
  <2>1. ListedOnce' BY <1>7 DEF RowsInv, ListedOnce
  <2>2. Fresh => Fresh' BY <1>2, <1>7 DEF Fresh
  <2> QED BY <1>1, <1>2, <1>4, <1>5, <1>6, <1>7, <2>1, <2>2, Moved
<1>8. CASE \E at \in 1..(Len(listing) + 1) :
             /\ listing' = SubSeq(listing, 1, at - 1) \o <<row>> \o SubSeq(listing, at, Len(listing))
             /\ next' = next + Ahead(at)
  <2>1. PICK l, r, n : l = listing /\ r = listing' /\ n = Len(listing) OBVIOUS
  <2>2. PICK at \in 1..(n + 1) : /\ r = SubSeq(l, 1, at - 1) \o <<row>> \o SubSeq(l, at, Len(l))
                                 /\ next' = next + Ahead(at)
    BY <1>8, <2>1
  <2>3. n \in Nat BY <1>1, <2>1
  <2>4. PICK S : S = held' OBVIOUS
  <2>6. listing' = SubSeq(listing, 1, at - 1) \o <<row>> \o SubSeq(listing, at, Len(listing))
    BY <2>1, <2>2
  <2>7. /\ r \in Seq(S) /\ DOMAIN r = 1..(n + 1)
        /\ \A i \in 1..(n + 1) : r[i] = IF i < at THEN l[i] ELSE IF i = at THEN row ELSE l[i - 1]
    <3>1. at \in 1..(Len(listing) + 1) BY <2>1, <2>2
    <3>2. /\ listing' \in Seq(held \cup {row}) /\ DOMAIN listing' = 1..(Len(listing) + 1)
          /\ \A i \in 1..(Len(listing) + 1) :
               listing'[i] = IF i < at THEN listing[i] ELSE IF i = at THEN row ELSE listing[i - 1]
      BY <2>6, <3>1, AppearList
    <3> QED BY <1>2, <2>1, <2>4, <3>2
  <2>8. PICK old : old = [i \in 1..(n + 1) |-> IF i < at THEN i ELSE i - 1] OBVIOUS
  <2>9. ASSUME NEW i \in 1..(n + 1), i # at PROVE old[i] \in 1..n /\ r[i] = l[old[i]]
    <3>1. old[i] = IF i < at THEN i ELSE i - 1 BY <2>8
    <3>2. r[i] = IF i < at THEN l[i] ELSE l[i - 1] BY <2>7, <2>9
    <3>3. old[i] \in 1..n BY <2>2, <2>3, <2>9, <3>1
    <3> QED BY <3>1, <3>2, <3>3
  <2>10. \A i, j \in 1..(n + 1) : i # at /\ j # at /\ old[i] = old[j] => i = j BY <2>2, <2>3, <2>8
  <2>11. r[at] = row
    <3>1. at \in 1..(n + 1) /\ ~(at < at) BY <2>2, <2>3
    <3> QED BY <2>7, <3>1
  <2>12. \A i \in 1..(n + 1) : i # at => r[i] # row BY <1>1, <1>2, <2>1, <2>9
  <2>13. ListedOnce'
    <3>1. \A i, j \in 1..(n + 1) : i # at /\ j # at /\ r[i] = r[j] => i = j BY <1>1, <2>1, <2>9, <2>10
    <3>2. \A i, j \in 1..(n + 1) : r[i] = r[j] => i = j BY <2>11, <2>12, <3>1
    <3> QED BY <2>1, <2>7, <3>2 DEF ListedOnce
  <2>14. next' \in Nat BY <1>1, <2>2 DEF Ahead
  <2>15. Fresh /\ Keeps => Fresh'
    <3> SUFFICES ASSUME Fresh, Keeps, NEW i \in 1..(n + 1), i > next' PROVE r[i] \notin emitted
      BY <1>2, <2>1, <2>7 DEF Fresh
    <3>1. CASE i = at BY <1>3, <2>11, <3>1
    <3>2. CASE i # at
      <4>1. asked.keyset
        <5>1. "size" \in DOMAIN asked BY <1>2 DEF RowsInv
        <5>2. asked # Nothing BY <5>1 DEF Nothing
        <5> QED BY <5>2 DEF Keeps
      <4>2. next' = IF at <= next THEN next + 1 ELSE next BY <1>1, <2>2, <4>1 DEF Ahead
      <4>3. old[i] = IF i < at THEN i ELSE i - 1 BY <2>8
      <4>4. old[i] > next BY <1>1, <2>2, <2>3, <3>2, <4>2, <4>3
      <4> QED BY <1>1, <2>1, <2>9, <3>2, <4>4 DEF Fresh
    <3> QED BY <3>1, <3>2
  <2> QED BY <1>2, <1>4, <1>5, <2>1, <2>4, <2>7, <2>13, <2>14, <2>15, Moved
<1> QED BY <1>7, <1>8 DEF Appear

-----------------------------------------------------------------------------
(* The theorems.                                                            *)

LEMMA RowsInit == Init => RowsInv
<1> SUFFICES ASSUME Init PROVE RowsInv OBVIOUS
<1>1. /\ req \in Requests /\ IsFiniteSet(held) /\ standing = held /\ listing = <<>> /\ pc = "start"
      /\ emitted = {} /\ sent = 0 /\ next = 0 /\ pages = 0 /\ idle = 0 /\ moves = {} /\ warned = FALSE
      /\ asked = Nothing /\ held \cap Arrivals[Table] = {}
  BY RequestAssumption DEF Init, Table
<1>2. IsFiniteSet(emitted) /\ Cardinality(emitted) = 0 BY <1>1, FS_EmptySet
<1>3. TypeOK
  <2>1. Cardinality(emitted) <= sent BY <1>1, <1>2
  <2>2. {next, pages, idle, sent} \subseteq Nat BY <1>1
  <2> QED BY <1>1, <2>1, <2>2 DEF TypeOK
<1>4. listing \in Seq(held) /\ DOMAIN listing = {} BY <1>1
<1> QED BY <1>1, <1>2, <1>3, <1>4 DEF RowsInv, place, ListedOnce

LEMMA RowsNext == RowsInv /\ [Next]_vars => RowsInv'
<1> SUFFICES ASSUME RowsInv, [Next]_vars PROVE RowsInv' OBVIOUS
<1>1. CASE Scan
  BY <1>1, GitHubRows, SlackRows, NewRelicRows, CkanRows, JiraRows, PostgresRows, GitRows, JaegerRows, DockerRows
  DEF Scan
<1>2. CASE Fail /\ UNCHANGED moves
  <2>1. /\ pc' = "failed"
        /\ UNCHANGED <<req, held, standing, asked, listing, next, pages, idle, sent, emitted, warned, moves>>
    BY <1>2 DEF Fail, place, result
  <2>2. TypeOK' /\ ListedOnce' /\ Table' = Table /\ OfOneList' = OfOneList /\ Keeps' = Keeps
    BY <2>1 DEF RowsInv, TypeOK, ListedOnce, Table, OfOneList, Keeps
  <2> QED BY <2>1, <2>2 DEF RowsInv
<1>3. CASE \E row \in Arrivals[Table] : Appear(row) BY <1>3, AppearRows
<1>4. CASE \E at \in DOMAIN listing : Vanish(at) BY <1>4, VanishRows
<1>5. CASE UNCHANGED vars
  BY <1>5 DEF vars, place, RowsInv, TypeOK, ListedOnce, Table, OfOneList, Keeps, Fresh
<1> QED BY <1>1, <1>2, <1>3, <1>4, <1>5 DEF Next

\* Every variable of a scan keeps to its values, and every row that any connector emits
\* is counted, so that a count that satisfies the LIMIT is never short of rows.
THEOREM TypeCorrect == Spec => []TypeOK
<1>1. RowsInv => TypeOK BY DEF RowsInv
<1> QED BY RowsInit, RowsNext, <1>1, PTL DEF Spec
==============================================================================
