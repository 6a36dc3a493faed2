----------------------------- MODULE ScanProofs ------------------------------
(***************************************************************************)
(* No scan of any connector reads pages beyond the cap or emits rows beyond *)
(* the LIMIT, whatever the requests, the tables and the sizes.              *)
(***************************************************************************)
EXTENDS Scans, FiniteSetTheorems, FunctionTheorems, SequenceTheorems, TLAPS

-----------------------------------------------------------------------------
(* Scans takes every connector's module with INSTANCE, and with it a copy of  *)
(* the definitions of ConnectorScan.  The copies say the same, so that what   *)
(* is shown once of the shared steps holds for every connector.               *)

LEMMA GitHubCopies ==
  /\ \A f, o, z, stop, k : InGitHub!Ask(f, o, z, stop, k) <=> Ask(f, o, z, stop, k)
  /\ InGitHub!WrappedStop = WrappedStop
  /\ \A K : InGitHub!Appended(K) = Appended(K) /\ InGitHub!Trimmed(K) = Trimmed(K)
  /\ \A n : InGitHub!PageOf(n) = PageOf(n) /\ InGitHub!HasMore(n) = HasMore(n)
  /\ \A n, A, m, c : InGitHub!Advance(n, A, m, c) <=> Advance(n, A, m, c)
  /\ \A A, w : InGitHub!Answer(A, w) <=> Answer(A, w)
  /\ InGitHub!Capped = Capped
<1>1. \A S : InGitHub!Cardinality(S) = Cardinality(S) BY DEF InGitHub!Cardinality, Cardinality
<1>2. \A rows, o : InGitHub!Listings(rows, o) = Listings(rows, o)
  BY <1>1
      DEF InGitHub!Listings, Listings, InGitHub!Before, Before, InGitHub!Lower, Lower,
          InGitHub!SortKey, SortKey
<1>3. \A f, rows : InGitHub!Passing(f, rows) = Passing(f, rows)
  BY DEF InGitHub!Passing, Passing, InGitHub!Passes, Passes
<1>4. \A A : InGitHub!Emit(A) <=> Emit(A) BY <1>1 DEF InGitHub!Emit, Emit
<1>5. \A n, e : InGitHub!Turn(n, e) <=> Turn(n, e) BY DEF InGitHub!Turn, Turn
<1>6. \A n : InGitHub!Satisfied(n) <=> Satisfied(n) BY DEF InGitHub!Satisfied, Satisfied, InGitHub!Limits, Limits
<1>7. \A f, o, z, stop, k : InGitHub!Ask(f, o, z, stop, k) <=> Ask(f, o, z, stop, k)
  <2> SUFFICES ASSUME NEW f, NEW o, NEW z, NEW stop, NEW k
               PROVE  InGitHub!Ask(f, o, z, stop, k) <=> Ask(f, o, z, stop, k)
    OBVIOUS
  <2>1. InGitHub!Asked(f, o, z, stop, k) = Asked(f, o, z, stop, k) BY DEF InGitHub!Asked, Asked
  <2>2. \A ask : InGitHub!List(ask) <=> List(ask) BY <1>2, <1>3 DEF InGitHub!List, List
  <2> QED BY <2>1, <2>2 DEF InGitHub!Ask, Ask, InGitHub!place, place, InGitHub!result, result
<1>8. \A K : InGitHub!Appended(K) = Appended(K) /\ InGitHub!Trimmed(K) = Trimmed(K)
  BY <1>1, <1>6 DEF InGitHub!Appended, Appended, InGitHub!Trimmed, Trimmed
<1>9. \A n, A, m, c : InGitHub!Advance(n, A, m, c) <=> Advance(n, A, m, c)
  BY <1>4, <1>5, <1>6 DEF InGitHub!Advance, Advance
<1>10. \A A, w : InGitHub!Answer(A, w) <=> Answer(A, w)
  BY <1>4, <1>5 DEF InGitHub!Answer, Answer, InGitHub!AnswerOf, AnswerOf
<1> QED
  BY <1>7, <1>8, <1>9, <1>10
      DEF InGitHub!WrappedStop, WrappedStop, InGitHub!StopAt, StopAt, InGitHub!PageOf,
          PageOf, InGitHub!HasMore, HasMore, InGitHub!Capped, Capped, InGitHub!Limits,
          Limits

LEMMA SlackCopies ==
  /\ \A f, o, z, stop, k : InSlack!Ask(f, o, z, stop, k) <=> Ask(f, o, z, stop, k)
  /\ InSlack!WrappedStop = WrappedStop
  /\ \A K : InSlack!Appended(K) = Appended(K) /\ InSlack!Trimmed(K) = Trimmed(K)
  /\ \A n : InSlack!PageOf(n) = PageOf(n) /\ InSlack!HasMore(n) = HasMore(n)
  /\ \A n, A, m, c : InSlack!Advance(n, A, m, c) <=> Advance(n, A, m, c)
  /\ \A A, w : InSlack!Answer(A, w) <=> Answer(A, w)
  /\ InSlack!Capped = Capped
<1>1. \A S : InSlack!Cardinality(S) = Cardinality(S) BY DEF InSlack!Cardinality, Cardinality
<1>2. \A rows, o : InSlack!Listings(rows, o) = Listings(rows, o)
  BY <1>1
      DEF InSlack!Listings, Listings, InSlack!Before, Before, InSlack!Lower, Lower,
          InSlack!SortKey, SortKey
<1>3. \A f, rows : InSlack!Passing(f, rows) = Passing(f, rows)
  BY DEF InSlack!Passing, Passing, InSlack!Passes, Passes
<1>4. \A A : InSlack!Emit(A) <=> Emit(A) BY <1>1 DEF InSlack!Emit, Emit
<1>5. \A n, e : InSlack!Turn(n, e) <=> Turn(n, e) BY DEF InSlack!Turn, Turn
<1>6. \A n : InSlack!Satisfied(n) <=> Satisfied(n) BY DEF InSlack!Satisfied, Satisfied, InSlack!Limits, Limits
<1>7. \A f, o, z, stop, k : InSlack!Ask(f, o, z, stop, k) <=> Ask(f, o, z, stop, k)
  <2> SUFFICES ASSUME NEW f, NEW o, NEW z, NEW stop, NEW k
               PROVE  InSlack!Ask(f, o, z, stop, k) <=> Ask(f, o, z, stop, k)
    OBVIOUS
  <2>1. InSlack!Asked(f, o, z, stop, k) = Asked(f, o, z, stop, k) BY DEF InSlack!Asked, Asked
  <2>2. \A ask : InSlack!List(ask) <=> List(ask) BY <1>2, <1>3 DEF InSlack!List, List
  <2> QED BY <2>1, <2>2 DEF InSlack!Ask, Ask, InSlack!place, place, InSlack!result, result
<1>8. \A K : InSlack!Appended(K) = Appended(K) /\ InSlack!Trimmed(K) = Trimmed(K)
  BY <1>1, <1>6 DEF InSlack!Appended, Appended, InSlack!Trimmed, Trimmed
<1>9. \A n, A, m, c : InSlack!Advance(n, A, m, c) <=> Advance(n, A, m, c)
  BY <1>4, <1>5, <1>6 DEF InSlack!Advance, Advance
<1>10. \A A, w : InSlack!Answer(A, w) <=> Answer(A, w)
  BY <1>4, <1>5 DEF InSlack!Answer, Answer, InSlack!AnswerOf, AnswerOf
<1> QED
  BY <1>7, <1>8, <1>9, <1>10
      DEF InSlack!WrappedStop, WrappedStop, InSlack!StopAt, StopAt, InSlack!PageOf,
          PageOf, InSlack!HasMore, HasMore, InSlack!Capped, Capped, InSlack!Limits, Limits

LEMMA NewRelicCopies ==
  /\ \A f, o, z, stop, k : InNewRelic!Ask(f, o, z, stop, k) <=> Ask(f, o, z, stop, k)
  /\ InNewRelic!WrappedStop = WrappedStop
  /\ \A K : InNewRelic!Appended(K) = Appended(K) /\ InNewRelic!Trimmed(K) = Trimmed(K)
  /\ \A n : InNewRelic!PageOf(n) = PageOf(n) /\ InNewRelic!HasMore(n) = HasMore(n)
  /\ \A n, A, m, c : InNewRelic!Advance(n, A, m, c) <=> Advance(n, A, m, c)
  /\ \A A, w : InNewRelic!Answer(A, w) <=> Answer(A, w)
  /\ InNewRelic!Capped = Capped
<1>1. \A S : InNewRelic!Cardinality(S) = Cardinality(S) BY DEF InNewRelic!Cardinality, Cardinality
<1>2. \A rows, o : InNewRelic!Listings(rows, o) = Listings(rows, o)
  BY <1>1
      DEF InNewRelic!Listings, Listings, InNewRelic!Before, Before, InNewRelic!Lower,
          Lower, InNewRelic!SortKey, SortKey
<1>3. \A f, rows : InNewRelic!Passing(f, rows) = Passing(f, rows)
  BY DEF InNewRelic!Passing, Passing, InNewRelic!Passes, Passes
<1>4. \A A : InNewRelic!Emit(A) <=> Emit(A) BY <1>1 DEF InNewRelic!Emit, Emit
<1>5. \A n, e : InNewRelic!Turn(n, e) <=> Turn(n, e) BY DEF InNewRelic!Turn, Turn
<1>6. \A n : InNewRelic!Satisfied(n) <=> Satisfied(n) BY DEF InNewRelic!Satisfied, Satisfied, InNewRelic!Limits, Limits
<1>7. \A f, o, z, stop, k : InNewRelic!Ask(f, o, z, stop, k) <=> Ask(f, o, z, stop, k)
  <2> SUFFICES ASSUME NEW f, NEW o, NEW z, NEW stop, NEW k
               PROVE  InNewRelic!Ask(f, o, z, stop, k) <=> Ask(f, o, z, stop, k)
    OBVIOUS
  <2>1. InNewRelic!Asked(f, o, z, stop, k) = Asked(f, o, z, stop, k) BY DEF InNewRelic!Asked, Asked
  <2>2. \A ask : InNewRelic!List(ask) <=> List(ask) BY <1>2, <1>3 DEF InNewRelic!List, List
  <2> QED BY <2>1, <2>2 DEF InNewRelic!Ask, Ask, InNewRelic!place, place, InNewRelic!result, result
<1>8. \A K : InNewRelic!Appended(K) = Appended(K) /\ InNewRelic!Trimmed(K) = Trimmed(K)
  BY <1>1, <1>6 DEF InNewRelic!Appended, Appended, InNewRelic!Trimmed, Trimmed
<1>9. \A n, A, m, c : InNewRelic!Advance(n, A, m, c) <=> Advance(n, A, m, c)
  BY <1>4, <1>5, <1>6 DEF InNewRelic!Advance, Advance
<1>10. \A A, w : InNewRelic!Answer(A, w) <=> Answer(A, w)
  BY <1>4, <1>5 DEF InNewRelic!Answer, Answer, InNewRelic!AnswerOf, AnswerOf
<1> QED
  BY <1>7, <1>8, <1>9, <1>10
      DEF InNewRelic!WrappedStop, WrappedStop, InNewRelic!StopAt, StopAt,
          InNewRelic!PageOf, PageOf, InNewRelic!HasMore, HasMore, InNewRelic!Capped,
          Capped, InNewRelic!Limits, Limits

LEMMA CkanCopies ==
  /\ \A f, o, z, stop, k : InCkan!Ask(f, o, z, stop, k) <=> Ask(f, o, z, stop, k)
  /\ InCkan!WrappedStop = WrappedStop
  /\ \A K : InCkan!Appended(K) = Appended(K) /\ InCkan!Trimmed(K) = Trimmed(K)
  /\ \A n : InCkan!PageOf(n) = PageOf(n) /\ InCkan!HasMore(n) = HasMore(n)
  /\ \A n, A, m, c : InCkan!Advance(n, A, m, c) <=> Advance(n, A, m, c)
  /\ \A A, w : InCkan!Answer(A, w) <=> Answer(A, w)
  /\ InCkan!Capped = Capped
<1>1. \A S : InCkan!Cardinality(S) = Cardinality(S) BY DEF InCkan!Cardinality, Cardinality
<1>2. \A rows, o : InCkan!Listings(rows, o) = Listings(rows, o)
  BY <1>1
      DEF InCkan!Listings, Listings, InCkan!Before, Before, InCkan!Lower, Lower,
          InCkan!SortKey, SortKey
<1>3. \A f, rows : InCkan!Passing(f, rows) = Passing(f, rows)
  BY DEF InCkan!Passing, Passing, InCkan!Passes, Passes
<1>4. \A A : InCkan!Emit(A) <=> Emit(A) BY <1>1 DEF InCkan!Emit, Emit
<1>5. \A n, e : InCkan!Turn(n, e) <=> Turn(n, e) BY DEF InCkan!Turn, Turn
<1>6. \A n : InCkan!Satisfied(n) <=> Satisfied(n) BY DEF InCkan!Satisfied, Satisfied, InCkan!Limits, Limits
<1>7. \A f, o, z, stop, k : InCkan!Ask(f, o, z, stop, k) <=> Ask(f, o, z, stop, k)
  <2> SUFFICES ASSUME NEW f, NEW o, NEW z, NEW stop, NEW k
               PROVE  InCkan!Ask(f, o, z, stop, k) <=> Ask(f, o, z, stop, k)
    OBVIOUS
  <2>1. InCkan!Asked(f, o, z, stop, k) = Asked(f, o, z, stop, k) BY DEF InCkan!Asked, Asked
  <2>2. \A ask : InCkan!List(ask) <=> List(ask) BY <1>2, <1>3 DEF InCkan!List, List
  <2> QED BY <2>1, <2>2 DEF InCkan!Ask, Ask, InCkan!place, place, InCkan!result, result
<1>8. \A K : InCkan!Appended(K) = Appended(K) /\ InCkan!Trimmed(K) = Trimmed(K)
  BY <1>1, <1>6 DEF InCkan!Appended, Appended, InCkan!Trimmed, Trimmed
<1>9. \A n, A, m, c : InCkan!Advance(n, A, m, c) <=> Advance(n, A, m, c)
  BY <1>4, <1>5, <1>6 DEF InCkan!Advance, Advance
<1>10. \A A, w : InCkan!Answer(A, w) <=> Answer(A, w)
  BY <1>4, <1>5 DEF InCkan!Answer, Answer, InCkan!AnswerOf, AnswerOf
<1> QED
  BY <1>7, <1>8, <1>9, <1>10
      DEF InCkan!WrappedStop, WrappedStop, InCkan!StopAt, StopAt, InCkan!PageOf, PageOf,
          InCkan!HasMore, HasMore, InCkan!Capped, Capped, InCkan!Limits, Limits

LEMMA JiraCopies ==
  /\ \A f, o, z, stop, k : InJira!Ask(f, o, z, stop, k) <=> Ask(f, o, z, stop, k)
  /\ InJira!WrappedStop = WrappedStop
  /\ \A K : InJira!Appended(K) = Appended(K) /\ InJira!Trimmed(K) = Trimmed(K)
  /\ \A n : InJira!PageOf(n) = PageOf(n) /\ InJira!HasMore(n) = HasMore(n)
  /\ \A n, A, m, c : InJira!Advance(n, A, m, c) <=> Advance(n, A, m, c)
  /\ \A A, w : InJira!Answer(A, w) <=> Answer(A, w)
  /\ InJira!Capped = Capped
  /\ \A f, o, z, stop, k : InJira!Asked(f, o, z, stop, k) = Asked(f, o, z, stop, k)
  /\ \A ask : InJira!List(ask) <=> List(ask)
  /\ \A A : InJira!Emit(A) <=> Emit(A)
  /\ \A n : InJira!Satisfied(n) <=> Satisfied(n)
<1>1. \A S : InJira!Cardinality(S) = Cardinality(S) BY DEF InJira!Cardinality, Cardinality
<1>2. \A rows, o : InJira!Listings(rows, o) = Listings(rows, o)
  BY <1>1
      DEF InJira!Listings, Listings, InJira!Before, Before, InJira!Lower, Lower,
          InJira!SortKey, SortKey
<1>3. \A f, rows : InJira!Passing(f, rows) = Passing(f, rows)
  BY DEF InJira!Passing, Passing, InJira!Passes, Passes
<1>4. \A A : InJira!Emit(A) <=> Emit(A) BY <1>1 DEF InJira!Emit, Emit
<1>5. \A n, e : InJira!Turn(n, e) <=> Turn(n, e) BY DEF InJira!Turn, Turn
<1>6. \A n : InJira!Satisfied(n) <=> Satisfied(n) BY DEF InJira!Satisfied, Satisfied, InJira!Limits, Limits
<1>7. \A f, o, z, stop, k : InJira!Ask(f, o, z, stop, k) <=> Ask(f, o, z, stop, k)
  <2> SUFFICES ASSUME NEW f, NEW o, NEW z, NEW stop, NEW k
               PROVE  InJira!Ask(f, o, z, stop, k) <=> Ask(f, o, z, stop, k)
    OBVIOUS
  <2>1. InJira!Asked(f, o, z, stop, k) = Asked(f, o, z, stop, k) BY DEF InJira!Asked, Asked
  <2>2. \A ask : InJira!List(ask) <=> List(ask) BY <1>2, <1>3 DEF InJira!List, List
  <2> QED BY <2>1, <2>2 DEF InJira!Ask, Ask, InJira!place, place, InJira!result, result
<1>8. \A K : InJira!Appended(K) = Appended(K) /\ InJira!Trimmed(K) = Trimmed(K)
  BY <1>1, <1>6 DEF InJira!Appended, Appended, InJira!Trimmed, Trimmed
<1>9. \A n, A, m, c : InJira!Advance(n, A, m, c) <=> Advance(n, A, m, c)
  BY <1>4, <1>5, <1>6 DEF InJira!Advance, Advance
<1>10. \A A, w : InJira!Answer(A, w) <=> Answer(A, w)
  BY <1>4, <1>5 DEF InJira!Answer, Answer, InJira!AnswerOf, AnswerOf
<1> QED
  BY <1>2, <1>3, <1>4, <1>6, <1>7, <1>8, <1>9, <1>10
      DEF InJira!Asked, Asked, InJira!List, List, InJira!WrappedStop, WrappedStop, InJira!StopAt, StopAt, InJira!PageOf, PageOf,
          InJira!HasMore, HasMore, InJira!Capped, Capped, InJira!Limits, Limits

LEMMA PostgresCopies ==
  /\ \A f, o, z, stop, k : InPostgres!Ask(f, o, z, stop, k) <=> Ask(f, o, z, stop, k)
  /\ InPostgres!WrappedStop = WrappedStop
  /\ \A K : InPostgres!Appended(K) = Appended(K) /\ InPostgres!Trimmed(K) = Trimmed(K)
  /\ \A n : InPostgres!PageOf(n) = PageOf(n) /\ InPostgres!HasMore(n) = HasMore(n)
  /\ \A n, A, m, c : InPostgres!Advance(n, A, m, c) <=> Advance(n, A, m, c)
  /\ \A A, w : InPostgres!Answer(A, w) <=> Answer(A, w)
  /\ InPostgres!Capped = Capped
<1>1. \A S : InPostgres!Cardinality(S) = Cardinality(S) BY DEF InPostgres!Cardinality, Cardinality
<1>2. \A rows, o : InPostgres!Listings(rows, o) = Listings(rows, o)
  BY <1>1
      DEF InPostgres!Listings, Listings, InPostgres!Before, Before, InPostgres!Lower,
          Lower, InPostgres!SortKey, SortKey
<1>3. \A f, rows : InPostgres!Passing(f, rows) = Passing(f, rows)
  BY DEF InPostgres!Passing, Passing, InPostgres!Passes, Passes
<1>4. \A A : InPostgres!Emit(A) <=> Emit(A) BY <1>1 DEF InPostgres!Emit, Emit
<1>5. \A n, e : InPostgres!Turn(n, e) <=> Turn(n, e) BY DEF InPostgres!Turn, Turn
<1>6. \A n : InPostgres!Satisfied(n) <=> Satisfied(n) BY DEF InPostgres!Satisfied, Satisfied, InPostgres!Limits, Limits
<1>7. \A f, o, z, stop, k : InPostgres!Ask(f, o, z, stop, k) <=> Ask(f, o, z, stop, k)
  <2> SUFFICES ASSUME NEW f, NEW o, NEW z, NEW stop, NEW k
               PROVE  InPostgres!Ask(f, o, z, stop, k) <=> Ask(f, o, z, stop, k)
    OBVIOUS
  <2>1. InPostgres!Asked(f, o, z, stop, k) = Asked(f, o, z, stop, k) BY DEF InPostgres!Asked, Asked
  <2>2. \A ask : InPostgres!List(ask) <=> List(ask) BY <1>2, <1>3 DEF InPostgres!List, List
  <2> QED BY <2>1, <2>2 DEF InPostgres!Ask, Ask, InPostgres!place, place, InPostgres!result, result
<1>8. \A K : InPostgres!Appended(K) = Appended(K) /\ InPostgres!Trimmed(K) = Trimmed(K)
  BY <1>1, <1>6 DEF InPostgres!Appended, Appended, InPostgres!Trimmed, Trimmed
<1>9. \A n, A, m, c : InPostgres!Advance(n, A, m, c) <=> Advance(n, A, m, c)
  BY <1>4, <1>5, <1>6 DEF InPostgres!Advance, Advance
<1>10. \A A, w : InPostgres!Answer(A, w) <=> Answer(A, w)
  BY <1>4, <1>5 DEF InPostgres!Answer, Answer, InPostgres!AnswerOf, AnswerOf
<1> QED
  BY <1>7, <1>8, <1>9, <1>10
      DEF InPostgres!WrappedStop, WrappedStop, InPostgres!StopAt, StopAt,
          InPostgres!PageOf, PageOf, InPostgres!HasMore, HasMore, InPostgres!Capped,
          Capped, InPostgres!Limits, Limits

LEMMA GitCopies ==
  /\ \A f, o, z, stop, k : InGit!Ask(f, o, z, stop, k) <=> Ask(f, o, z, stop, k)
  /\ InGit!WrappedStop = WrappedStop
  /\ \A K : InGit!Appended(K) = Appended(K) /\ InGit!Trimmed(K) = Trimmed(K)
  /\ \A n : InGit!PageOf(n) = PageOf(n) /\ InGit!HasMore(n) = HasMore(n)
  /\ \A n, A, m, c : InGit!Advance(n, A, m, c) <=> Advance(n, A, m, c)
  /\ \A A, w : InGit!Answer(A, w) <=> Answer(A, w)
  /\ InGit!Capped = Capped
<1>1. \A S : InGit!Cardinality(S) = Cardinality(S) BY DEF InGit!Cardinality, Cardinality
<1>2. \A rows, o : InGit!Listings(rows, o) = Listings(rows, o)
  BY <1>1
      DEF InGit!Listings, Listings, InGit!Before, Before, InGit!Lower, Lower,
          InGit!SortKey, SortKey
<1>3. \A f, rows : InGit!Passing(f, rows) = Passing(f, rows)
  BY DEF InGit!Passing, Passing, InGit!Passes, Passes
<1>4. \A A : InGit!Emit(A) <=> Emit(A) BY <1>1 DEF InGit!Emit, Emit
<1>5. \A n, e : InGit!Turn(n, e) <=> Turn(n, e) BY DEF InGit!Turn, Turn
<1>6. \A n : InGit!Satisfied(n) <=> Satisfied(n) BY DEF InGit!Satisfied, Satisfied, InGit!Limits, Limits
<1>7. \A f, o, z, stop, k : InGit!Ask(f, o, z, stop, k) <=> Ask(f, o, z, stop, k)
  <2> SUFFICES ASSUME NEW f, NEW o, NEW z, NEW stop, NEW k
               PROVE  InGit!Ask(f, o, z, stop, k) <=> Ask(f, o, z, stop, k)
    OBVIOUS
  <2>1. InGit!Asked(f, o, z, stop, k) = Asked(f, o, z, stop, k) BY DEF InGit!Asked, Asked
  <2>2. \A ask : InGit!List(ask) <=> List(ask) BY <1>2, <1>3 DEF InGit!List, List
  <2> QED BY <2>1, <2>2 DEF InGit!Ask, Ask, InGit!place, place, InGit!result, result
<1>8. \A K : InGit!Appended(K) = Appended(K) /\ InGit!Trimmed(K) = Trimmed(K)
  BY <1>1, <1>6 DEF InGit!Appended, Appended, InGit!Trimmed, Trimmed
<1>9. \A n, A, m, c : InGit!Advance(n, A, m, c) <=> Advance(n, A, m, c)
  BY <1>4, <1>5, <1>6 DEF InGit!Advance, Advance
<1>10. \A A, w : InGit!Answer(A, w) <=> Answer(A, w)
  BY <1>4, <1>5 DEF InGit!Answer, Answer, InGit!AnswerOf, AnswerOf
<1> QED
  BY <1>7, <1>8, <1>9, <1>10
      DEF InGit!WrappedStop, WrappedStop, InGit!StopAt, StopAt, InGit!PageOf, PageOf,
          InGit!HasMore, HasMore, InGit!Capped, Capped, InGit!Limits, Limits

LEMMA JaegerCopies ==
  /\ \A f, o, z, stop, k : InJaeger!Ask(f, o, z, stop, k) <=> Ask(f, o, z, stop, k)
  /\ InJaeger!WrappedStop = WrappedStop
  /\ \A K : InJaeger!Appended(K) = Appended(K) /\ InJaeger!Trimmed(K) = Trimmed(K)
  /\ \A n : InJaeger!PageOf(n) = PageOf(n) /\ InJaeger!HasMore(n) = HasMore(n)
  /\ \A n, A, m, c : InJaeger!Advance(n, A, m, c) <=> Advance(n, A, m, c)
  /\ \A n, A, w : InJaeger!AnswerOf(n, A, w) <=> AnswerOf(n, A, w)
  /\ InJaeger!Capped = Capped
<1>1. \A S : InJaeger!Cardinality(S) = Cardinality(S) BY DEF InJaeger!Cardinality, Cardinality
<1>2. \A rows, o : InJaeger!Listings(rows, o) = Listings(rows, o)
  BY <1>1
      DEF InJaeger!Listings, Listings, InJaeger!Before, Before, InJaeger!Lower, Lower,
          InJaeger!SortKey, SortKey
<1>3. \A f, rows : InJaeger!Passing(f, rows) = Passing(f, rows)
  BY DEF InJaeger!Passing, Passing, InJaeger!Passes, Passes
<1>4. \A A : InJaeger!Emit(A) <=> Emit(A) BY <1>1 DEF InJaeger!Emit, Emit
<1>5. \A n, e : InJaeger!Turn(n, e) <=> Turn(n, e) BY DEF InJaeger!Turn, Turn
<1>6. \A n : InJaeger!Satisfied(n) <=> Satisfied(n) BY DEF InJaeger!Satisfied, Satisfied, InJaeger!Limits, Limits
<1>7. \A f, o, z, stop, k : InJaeger!Ask(f, o, z, stop, k) <=> Ask(f, o, z, stop, k)
  <2> SUFFICES ASSUME NEW f, NEW o, NEW z, NEW stop, NEW k
               PROVE  InJaeger!Ask(f, o, z, stop, k) <=> Ask(f, o, z, stop, k)
    OBVIOUS
  <2>1. InJaeger!Asked(f, o, z, stop, k) = Asked(f, o, z, stop, k) BY DEF InJaeger!Asked, Asked
  <2>2. \A ask : InJaeger!List(ask) <=> List(ask) BY <1>2, <1>3 DEF InJaeger!List, List
  <2> QED BY <2>1, <2>2 DEF InJaeger!Ask, Ask, InJaeger!place, place, InJaeger!result, result
<1>8. \A K : InJaeger!Appended(K) = Appended(K) /\ InJaeger!Trimmed(K) = Trimmed(K)
  BY <1>1, <1>6 DEF InJaeger!Appended, Appended, InJaeger!Trimmed, Trimmed
<1>9. \A n, A, m, c : InJaeger!Advance(n, A, m, c) <=> Advance(n, A, m, c)
  BY <1>4, <1>5, <1>6 DEF InJaeger!Advance, Advance
<1>10. \A n, A, w : InJaeger!AnswerOf(n, A, w) <=> AnswerOf(n, A, w)
  BY <1>4, <1>5 DEF InJaeger!AnswerOf, AnswerOf
<1> QED
  BY <1>7, <1>8, <1>9, <1>10
      DEF InJaeger!WrappedStop, WrappedStop, InJaeger!StopAt, StopAt, InJaeger!PageOf,
          PageOf, InJaeger!HasMore, HasMore, InJaeger!Capped, Capped, InJaeger!Limits,
          Limits

LEMMA DockerCopies ==
  /\ \A f, o, z, stop, k : InDocker!Ask(f, o, z, stop, k) <=> Ask(f, o, z, stop, k)
  /\ InDocker!WrappedStop = WrappedStop
  /\ \A K : InDocker!Appended(K) = Appended(K) /\ InDocker!Trimmed(K) = Trimmed(K)
  /\ \A n : InDocker!PageOf(n) = PageOf(n) /\ InDocker!HasMore(n) = HasMore(n)
  /\ \A n, A, m, c : InDocker!Advance(n, A, m, c) <=> Advance(n, A, m, c)
  /\ \A A, w : InDocker!Answer(A, w) <=> Answer(A, w)
  /\ InDocker!Capped = Capped
<1>1. \A S : InDocker!Cardinality(S) = Cardinality(S) BY DEF InDocker!Cardinality, Cardinality
<1>2. \A rows, o : InDocker!Listings(rows, o) = Listings(rows, o)
  BY <1>1
      DEF InDocker!Listings, Listings, InDocker!Before, Before, InDocker!Lower, Lower,
          InDocker!SortKey, SortKey
<1>3. \A f, rows : InDocker!Passing(f, rows) = Passing(f, rows)
  BY DEF InDocker!Passing, Passing, InDocker!Passes, Passes
<1>4. \A A : InDocker!Emit(A) <=> Emit(A) BY <1>1 DEF InDocker!Emit, Emit
<1>5. \A n, e : InDocker!Turn(n, e) <=> Turn(n, e) BY DEF InDocker!Turn, Turn
<1>6. \A n : InDocker!Satisfied(n) <=> Satisfied(n) BY DEF InDocker!Satisfied, Satisfied, InDocker!Limits, Limits
<1>7. \A f, o, z, stop, k : InDocker!Ask(f, o, z, stop, k) <=> Ask(f, o, z, stop, k)
  <2> SUFFICES ASSUME NEW f, NEW o, NEW z, NEW stop, NEW k
               PROVE  InDocker!Ask(f, o, z, stop, k) <=> Ask(f, o, z, stop, k)
    OBVIOUS
  <2>1. InDocker!Asked(f, o, z, stop, k) = Asked(f, o, z, stop, k) BY DEF InDocker!Asked, Asked
  <2>2. \A ask : InDocker!List(ask) <=> List(ask) BY <1>2, <1>3 DEF InDocker!List, List
  <2> QED BY <2>1, <2>2 DEF InDocker!Ask, Ask, InDocker!place, place, InDocker!result, result
<1>8. \A K : InDocker!Appended(K) = Appended(K) /\ InDocker!Trimmed(K) = Trimmed(K)
  BY <1>1, <1>6 DEF InDocker!Appended, Appended, InDocker!Trimmed, Trimmed
<1>9. \A n, A, m, c : InDocker!Advance(n, A, m, c) <=> Advance(n, A, m, c)
  BY <1>4, <1>5, <1>6 DEF InDocker!Advance, Advance
<1>10. \A A, w : InDocker!Answer(A, w) <=> Answer(A, w)
  BY <1>4, <1>5 DEF InDocker!Answer, Answer, InDocker!AnswerOf, AnswerOf
<1> QED
  BY <1>7, <1>8, <1>9, <1>10
      DEF InDocker!WrappedStop, WrappedStop, InDocker!StopAt, StopAt, InDocker!PageOf,
          PageOf, InDocker!HasMore, HasMore, InDocker!Capped, Capped, InDocker!Limits,
          Limits

-----------------------------------------------------------------------------
(* Counting.                                                               *)

LEMMA MaxOfTwo ==
  ASSUME NEW a \in Int, NEW b \in Int
  PROVE  Max({a, b}) = IF a >= b THEN a ELSE b
BY DEF Max

\* The connectors cut a page where as many rows stand before as there is room for;
\* what is left fits the room, or is the one row that is appended before they look.
LEMMA RoomHolds ==
  ASSUME NEW n \in Nat, NEW K \in SUBSET (1..n), NEW A \in SUBSET K, NEW room \in Int,
         \A i \in A : Cardinality({j \in K : j < i}) < room \/ \A j \in K : i <= j
  PROVE  Cardinality(A) \in Nat /\ Cardinality(A) <= (IF room >= 1 THEN room ELSE 1)
<1> DEFINE before(i) == {j \in K : j < i}
           top == IF room >= 1 THEN room ELSE 1
           f == [i \in A |-> Cardinality(before(i)) + 1]
<1> HIDE DEF f, top
<1>0. \A i \in K : i \in Int OBVIOUS
<1>1. IsFiniteSet(1..n) BY FS_Interval
<1>2. IsFiniteSet(K) /\ IsFiniteSet(A) /\ Cardinality(A) \in Nat
  BY <1>1, FS_Subset, FS_CardinalityType
<1>3. ASSUME NEW i \in K PROVE IsFiniteSet(before(i)) /\ Cardinality(before(i)) \in Nat
  <2>1. before(i) \in SUBSET K OBVIOUS
  <2> QED BY <1>2, <2>1, FS_Subset, FS_CardinalityType
<1>4. ASSUME NEW i \in K, NEW j \in K, i < j
      PROVE  Cardinality(before(i)) < Cardinality(before(j))
  <2>1. i \notin before(i) /\ before(i) \cup {i} \in SUBSET before(j)
    <3>1. i \in Int /\ j \in Int BY <1>0
    <3>2. \A k \in before(i) : k < j BY <1>0, <1>4, <3>1
    <3>3. i \notin before(i) BY <3>1
    <3> QED BY <1>4, <3>2, <3>3
  <2>2. Cardinality(before(i) \cup {i}) = Cardinality(before(i)) + 1
    BY <1>3, <2>1, FS_AddElement
  <2>3. Cardinality(before(i) \cup {i}) <= Cardinality(before(j))
    BY <1>3, <2>1, FS_Subset
  <2> QED BY <1>3, <2>2, <2>3
<1>5. f \in Injection(A, 1..top)
  <2>1. ASSUME NEW i \in A PROVE f[i] \in 1..top
    <3>1. CASE Cardinality(before(i)) < room
      <4>1. Cardinality(before(i)) \in Nat BY <1>3
      <4>2. f[i] = Cardinality(before(i)) + 1 BY DEF f
      <4> HIDE DEF before
      <4> QED BY <3>1, <4>1, <4>2 DEF top
    <3>2. CASE \A j \in K : i <= j
      <4>1. \A j \in K : ~(j < i) BY <1>0, <3>2
      <4>2. before(i) = {} BY <4>1
      <4>3. Cardinality(before(i)) = 0 BY <4>2, FS_EmptySet
      <4>4. f[i] = Cardinality(before(i)) + 1 BY DEF f
      <4> HIDE DEF before
      <4> QED BY <4>3, <4>4 DEF top
    <3> QED BY <3>1, <3>2
  <2>2. ASSUME NEW i \in A, NEW j \in A, f[i] = f[j] PROVE i = j
    <3>1. f[i] = Cardinality(before(i)) + 1 /\ f[j] = Cardinality(before(j)) + 1 BY DEF f
    <3>2. Cardinality(before(i)) = Cardinality(before(j))
      <4>1. Cardinality(before(i)) \in Nat /\ Cardinality(before(j)) \in Nat BY <1>3
      <4>2. Cardinality(before(i)) + 1 = Cardinality(before(j)) + 1 BY <2>2, <3>1
      <4> HIDE DEF before
      <4> QED BY <4>1, <4>2
    <3>3. ~(i < j) /\ ~(j < i)
      <4>1. i < j => Cardinality(before(i)) < Cardinality(before(j)) BY <1>4
      <4>2. j < i => Cardinality(before(j)) < Cardinality(before(i)) BY <1>4
      <4>3. Cardinality(before(i)) \in Nat /\ Cardinality(before(j)) \in Nat BY <1>3
      <4> HIDE DEF before
      <4> QED BY <3>2, <4>1, <4>2, <4>3
    <3> QED BY <1>0, <3>3
  <2>3. f \in [A -> 1..top]
    <3> QED BY <2>1 DEF f
  <2> QED BY <2>2, <2>3 DEF Injection, IsInjective
<1>6. top \in Int /\ top >= 1 BY DEF top
<1>7. IsFiniteSet(1..top) /\ Cardinality(1..top) = top
  <2>1. /\ IsFiniteSet(1..top)
        /\ Cardinality(1..top) = IF 1 > top THEN 0 ELSE top - 1 + 1
    BY <1>6, FS_Interval
  <2> QED BY <1>6, <2>1
<1>8. Cardinality(A) <= Cardinality(1..top)
  <2> QED BY <1>5, <1>7, FS_Injection
<1> QED BY <1>2, <1>7, <1>8 DEF top

LEMMA MaxPagesPositive == MaxPages \in Nat /\ MaxPages >= 1
BY SizeAssumption

LEMMA StopIsInt ==
  ASSUME req \in Requests, req.limit # Null
  PROVE  WrappedStop \in Int
<1>1. req.limit \in Int /\ (req.offset # Null => req.offset \in Int)
  <2>1. req.limit \in Nat \cup {Null} /\ req.offset \in Nat \cup {Null} BY RequestAssumption
  <2>2. req.limit \in Nat /\ (req.offset # Null => req.offset \in Nat) BY <2>1
  <2> QED BY <2>2
<1>3. StopAt(req) \in Int BY <1>1 DEF StopAt
<1>2. MaxInt \in Int BY SizeAssumption
<1> QED BY <1>3, <1>2 DEF WrappedStop

-----------------------------------------------------------------------------
(* What the steps of the connectors have in common.                        *)

LEMMA ListIsSeq ==
  ASSUME NEW S, NEW l \in Seq(S)
  PROVE  l \in Seq({l[i] : i \in DOMAIN l}) /\ Len(l) \in Nat
<1>1. Len(l) \in Nat /\ DOMAIN l = 1..Len(l) OBVIOUS
<1>2. l \in [1..Len(l) -> {l[i] : i \in DOMAIN l}] BY <1>1
<1> QED BY <1>1, <1>2

\* A request went out.
Started ==
  /\ pc = "start" /\ pc' = "paging"
  /\ \E f, o, z, stop, k, rest : asked' = [Asked(f, o, z, stop, k) EXCEPT !.rest = rest]
  /\ asked'.stop \in Int \cup {Null}
  /\ InOneAnswer /\ asked'.stop # Null /\ asked'.stop >= 0 => asked'.size = asked'.stop
  /\ req.schema = "jaeger" => asked'.stop = Null
  /\ \E rows \in SUBSET held : listing' \in [1..Cardinality(rows) -> rows]
  /\ UNCHANGED <<req, held, place, sent>>

LEMMA AfterStarted == BoundInv /\ Started => BoundInv'
<1> SUFFICES ASSUME BoundInv, Started PROVE BoundInv' OBVIOUS
<1> USE DEF BoundInv
<1>1. (req \in Requests /\ IsFiniteSet(held))' BY DEF Started
<1>2. listing' \in Seq({listing'[i] : i \in DOMAIN listing'})
  <2>1. PICK rows \in SUBSET held : listing' \in [1..Cardinality(rows) -> rows] BY DEF Started
  <2>2. Cardinality(rows) \in Nat BY FS_Subset, FS_CardinalityType
  <2>3. listing' \in Seq(rows) BY <2>1, <2>2
  <2> QED BY <2>3, ListIsSeq
<1>3. place' = <<0, 0, 0>> /\ sent' = 0 BY DEF Started, Counters
<1>4. next' = 0 /\ pages' = 0 /\ idle' = 0 BY <1>3 DEF place
<1>5. Counters' BY <1>3, <1>4 DEF Counters, Started
<1>6. InOneAnswer' = InOneAnswer BY DEF Started, InOneAnswer, InNewRelic!Curated, InNewRelic!Here, InNewRelic!Searchable
<1>7. RoomLeft' BY <1>3, <1>4, <1>6, MaxPagesPositive DEF RoomLeft, Started, Asked, OfOneList
<1>8. Bounded'
  <2>1. ASSUME asked'.stop \in Int PROVE 0 <= Max({1, asked'.stop})
    <3>1. Max({1, asked'.stop}) = IF 1 >= asked'.stop THEN 1 ELSE asked'.stop BY <2>1, MaxOfTwo
    <3> QED BY <2>1, <3>1
  <2> QED BY <1>3, <1>4, <2>1, MaxPagesPositive DEF Bounded, Started, OfOneList
<1> QED BY <1>1, <1>2, <1>5, <1>7, <1>8

\* A page was read: of the places `K` of its rows those in `A` were emitted.
Cut(K, A) ==
  /\ K \in SUBSET (1..Len(listing)) /\ A \in SUBSET K
  /\ asked.stop # Null =>
       \A i \in A : Cardinality({j \in K : j < i}) < asked.stop - sent \/ \A j \in K : i <= j
  /\ sent' = sent + Cardinality(A)

Turned ==
  /\ pc = "paging" /\ pc' \in {"paging", "done"}
  /\ ~InOneAnswer
  /\ \E K, A : Cut(K, A)
  /\ pages' = pages + 1
  /\ pc' = "paging" => /\ asked.stop = Null => pages' < MaxPages
                       /\ asked.stop # Null => sent' < asked.stop
  /\ idle' \in Nat /\ (OfOneList => idle' <= MaxPages)
  /\ req.schema = "github" => idle' <= idle + 1 /\ (pc' = "paging" => idle' < MaxPages)
  /\ req.schema = "jira" /\ OfOneList /\ pc' = "paging" => idle' = 0
  /\ UNCHANGED <<req, held, asked, listing>>

LEMMA CutFits ==
  ASSUME BoundInv, pc = "paging", NEW K, NEW A, Cut(K, A)
  PROVE  /\ sent' \in Nat
         /\ asked.stop # Null /\ asked.stop >= 0 => sent' <= Max({1, asked.stop})
<1> USE DEF BoundInv
<1>1. Len(listing) \in Nat /\ sent \in Nat BY DEF Counters
<1>2. asked.stop # Null => asked.stop \in Int BY DEF RoomLeft
<1>3. Cardinality(A) \in Nat
  <2>1. IsFiniteSet(1..Len(listing)) BY <1>1, FS_Interval
  <2> QED BY <2>1, FS_Subset, FS_CardinalityType DEF Cut
<1>4. sent' = sent + Cardinality(A) BY DEF Cut
<1>5. ASSUME asked.stop # Null, asked.stop >= 0 PROVE sent' <= Max({1, asked.stop})
  <2> DEFINE room == asked.stop - sent
  <2>1. asked.stop \in Int BY <1>2, <1>5
  <2>2. room \in Int BY <1>1, <2>1
  <2>3. \A i \in A : Cardinality({j \in K : j < i}) < room \/ \A j \in K : i <= j
    BY <1>5 DEF Cut
  <2>4. K \in SUBSET (1..Len(listing)) /\ A \in SUBSET K BY DEF Cut
  <2>5. Cardinality(A) <= IF room >= 1 THEN room ELSE 1
    <3> HIDE DEF room, BoundInv
    <3> QED BY <1>1, <2>2, <2>3, <2>4, RoomHolds
  <2>6. sent < asked.stop \/ sent = 0 BY <1>5 DEF RoomLeft
  <2>7. Max({1, asked.stop}) = IF 1 >= asked.stop THEN 1 ELSE asked.stop BY <2>1, MaxOfTwo
  <2> QED BY <1>1, <1>3, <1>4, <1>5, <2>1, <2>5, <2>6, <2>7
<1> QED BY <1>1, <1>3, <1>4, <1>5

LEMMA AfterTurned == BoundInv /\ Turned => BoundInv'
<1> SUFFICES ASSUME BoundInv, Turned PROVE BoundInv' OBVIOUS
<1> USE DEF BoundInv
<1>1. (req \in Requests /\ IsFiniteSet(held) /\ listing \in Seq({listing[i] : i \in DOMAIN listing}))' BY DEF Turned
<1>2. PICK K, A : Cut(K, A) BY DEF Turned
<1>3. /\ sent' \in Nat
      /\ asked.stop # Null /\ asked.stop >= 0 => sent' <= Max({1, asked.stop})
  BY <1>2, CutFits DEF Turned
<1>4. Counters' BY <1>3 DEF Turned, Counters
<1>5. InOneAnswer' = InOneAnswer BY DEF Turned, InOneAnswer, InNewRelic!Curated, InNewRelic!Here, InNewRelic!Searchable
<1>6. RoomLeft' BY <1>5 DEF Turned, RoomLeft, Asked, OfOneList
<1>7. Bounded'
  <2>1. asked.stop = Null => pages' <= MaxPages
    BY MaxPagesPositive DEF Turned, RoomLeft, Counters
  <2> QED BY <1>3, <2>1 DEF Turned, Bounded, OfOneList
<1> QED BY <1>1, <1>4, <1>6, <1>7

\* All there is was read at once.
Answered(size) ==
  /\ pc = "paging" /\ pc' = "done"
  /\ InOneAnswer
  /\ asked.stop # Null /\ asked.stop >= 0 => size = asked.size
  /\ sent' = sent + Cardinality(PageOf(size))
  /\ pages' = pages + 1 /\ idle' = idle
  /\ UNCHANGED <<req, held, asked, listing>>

LEMMA AfterAnswered ==
  ASSUME BoundInv, NEW size, Answered(size)
  PROVE  BoundInv'
<1> USE DEF BoundInv
<1>1. (req \in Requests /\ IsFiniteSet(held) /\ listing \in Seq({listing[i] : i \in DOMAIN listing}))' BY DEF Answered
<1>2. next = 0 /\ pages = 0 /\ idle = 0 /\ sent = 0 BY DEF Answered, RoomLeft, place
<1>3. Cardinality(PageOf(size)) \in Nat
  <2>1. IsFiniteSet(1..Len(listing)) BY FS_Interval
  <2>2. PageOf(size) \in SUBSET (1..Len(listing)) BY DEF PageOf
  <2> QED BY <2>1, <2>2, FS_Subset, FS_CardinalityType
<1>4. Counters' BY <1>2, <1>3 DEF Answered, Counters
<1>5. RoomLeft' BY DEF Answered, RoomLeft
<1>6. ASSUME asked.stop # Null, asked.stop >= 0 PROVE sent' <= Max({1, asked.stop})
  <2>1. asked.stop \in Int /\ size = asked.stop BY <1>6 DEF Answered, RoomLeft
  <2>2. PageOf(size) \in SUBSET (1..asked.stop) BY <1>2, <2>1 DEF PageOf
  <2>3. IsFiniteSet(1..asked.stop)
        /\ Cardinality(1..asked.stop) = IF 1 > asked.stop THEN 0 ELSE asked.stop - 1 + 1
    BY <2>1, FS_Interval
  <2>4. Cardinality(PageOf(size)) <= Cardinality(1..asked.stop)
    BY <2>2, <2>3, FS_Subset
  <2>5. Max({1, asked.stop}) = IF 1 >= asked.stop THEN 1 ELSE asked.stop BY <2>1, MaxOfTwo
  <2>6. sent' = Cardinality(PageOf(size)) BY <1>2, <1>3 DEF Answered
  <2> QED BY <1>3, <2>1, <2>3, <2>4, <2>5, <2>6
<1>7. Bounded' BY <1>2, <1>6, MaxPagesPositive DEF Answered, Bounded, OfOneList
<1> QED BY <1>1, <1>4, <1>5, <1>7

LEMMA IdleBounded == BoundInv /\ pc = "paging" => idle \in Nat /\ (OfOneList => idle <= MaxPages)
BY DEF BoundInv, Counters, RoomLeft

\* The scan is at its end without a page.
LEMMA AfterEnd ==
  ASSUME BoundInv, pc' \in {"done", "failed"},
         UNCHANGED <<req, held, asked, listing, pages, idle>>,
         sent' = sent \/ (sent' \in Nat /\ asked = Nothing)
  PROVE  BoundInv'
BY DEF BoundInv, Counters, RoomLeft, Bounded, OfOneList

LEMMA CutAtLimit ==
  ASSUME BoundInv, pc = "paging", NEW K \in SUBSET (1..Len(listing)),
         NEW A \in {Appended(K), Trimmed(K)}, sent' = sent + Cardinality(A)
  PROVE  Cut(K, A)
<1>1. sent \in Nat /\ Len(listing) \in Nat BY DEF BoundInv, Counters
<1>2. asked.stop # Null => asked.stop \in Int BY DEF BoundInv, RoomLeft
<1>3. ASSUME NEW i \in K PROVE Cardinality({j \in K : j < i}) \in Nat
  <2>1. IsFiniteSet(1..Len(listing)) BY <1>1, FS_Interval
  <2>2. {j \in K : j < i} \in SUBSET (1..Len(listing)) OBVIOUS
  <2> QED BY <2>1, <2>2, FS_Subset, FS_CardinalityType
<1>4. A \in SUBSET K BY DEF Appended, Trimmed
<1>5. ASSUME asked.stop # Null, NEW i \in A
      PROVE  Cardinality({j \in K : j < i}) < asked.stop - sent \/ \A j \in K : i <= j
  <2> DEFINE before == Cardinality({j \in K : j < i})
  <2>1. ~(sent + before >= asked.stop) \/ \A j \in K : i <= j
    BY <1>5 DEF Appended, Trimmed, Satisfied, Limits
  <2>2. before \in Nat BY <1>3, <1>4
  <2> HIDE DEF before
  <2>3. ~(sent + before >= asked.stop) => before < asked.stop - sent
    BY <1>1, <1>2, <1>5, <2>2
  <2> QED BY <2>1, <2>3 DEF before
<1> QED BY <1>4, <1>5 DEF Cut

-----------------------------------------------------------------------------
(* The shared steps keep the invariant.                                    *)

LEMMA ListKeeps ==
  ASSUME BoundInv, pc = "start", NEW f, NEW o, NEW z, NEW k, NEW stop, NEW rest,
         stop \in Int \cup {Null}, InOneAnswer /\ stop # Null /\ stop >= 0 => z = stop,
         req.schema = "jaeger" => stop = Null,
         List([Asked(f, o, z, stop, k) EXCEPT !.rest = rest]), UNCHANGED <<place, sent>>
  PROVE  BoundInv'
<1>1. asked' = [Asked(f, o, z, stop, k) EXCEPT !.rest = rest] BY DEF List
<1>2. asked'.stop = stop /\ asked'.size = z BY <1>1 DEF Asked
<1>3. \E rows \in SUBSET held : listing' \in [1..Cardinality(rows) -> rows]
  BY DEF List, Listings, Passing
<1>4. pc' = "paging" /\ UNCHANGED <<req, held>> BY DEF List
<1>5. Started BY <1>1, <1>2, <1>3, <1>4 DEF Started
<1> QED BY <1>5, AfterStarted

LEMMA NothingToCome ==
  \A f, o, z, stop, k : Asked(f, o, z, stop, k) = [Asked(f, o, z, stop, k) EXCEPT !.rest = <<>>]
BY DEF Asked

LEMMA AskKeeps ==
  ASSUME BoundInv, pc = "start", NEW f, NEW o, NEW z, NEW k, NEW stop,
         stop \in Int \cup {Null}, InOneAnswer /\ stop # Null /\ stop >= 0 => z = stop,
         req.schema = "jaeger" => stop = Null,
         Ask(f, o, z, stop, k)
  PROVE  BoundInv'
<1>1. Asked(f, o, z, stop, k) = [Asked(f, o, z, stop, k) EXCEPT !.rest = <<>>] BY NothingToCome
<1>2. List([Asked(f, o, z, stop, k) EXCEPT !.rest = <<>>]) BY <1>1 DEF Ask
<1>3. UNCHANGED <<place, sent>> BY DEF Ask, result
<1> QED BY <1>2, <1>3, ListKeeps

LEMMA AdvanceKeeps ==
  ASSUME BoundInv, pc = "paging", ~InOneAnswer, NEW size, NEW more, NEW capped,
         NEW K \in SUBSET (1..Len(listing)), NEW A \in {Appended(K), Trimmed(K)},
         Advance(size, A, more, capped),
         asked.stop = Null /\ pages + 1 >= MaxPages => capped,
         idle' \in Nat, OfOneList => idle' <= MaxPages,
         req.schema = "github" => idle' <= idle + 1 /\ (pc' = "paging" => idle' < MaxPages),
         req.schema = "jira" /\ OfOneList /\ pc' = "paging" => idle' = 0
  PROVE  BoundInv'
<1>1. sent' = sent + Cardinality(A) BY DEF Advance, Emit
<1>2. Cut(K, A) BY <1>1, CutAtLimit
<1>3. sent' \in Nat /\ pages \in Nat /\ asked.stop \in Int \cup {Null}
  BY <1>2, CutFits DEF BoundInv, Counters, RoomLeft
<1>4. /\ pages' = pages + 1 /\ pc' \in {"paging", "done"}
      /\ UNCHANGED <<req, held, asked, listing>>
      /\ pc' = "paging" => ~(asked.stop # Null /\ sent' >= asked.stop) /\ ~capped
  BY DEF Advance, Turn, Satisfied, Limits
<1>5. \E L, B : Cut(L, B) BY <1>2
<1>6. Turned BY <1>3, <1>4, <1>5, MaxPagesPositive DEF Turned
<1> QED BY <1>6, AfterTurned

LEMMA AnswerOfKeeps ==
  ASSUME BoundInv, pc = "paging", InOneAnswer, NEW size, NEW warns, AnswerOf(size, PageOf(size), warns),
         asked.stop # Null /\ asked.stop >= 0 => size = asked.size
  PROVE  BoundInv'
<1>1. Answered(size) BY DEF Answered, AnswerOf, Emit, Turn
<1> QED BY <1>1, AfterAnswered

LEMMA AnswerKeeps ==
  ASSUME BoundInv, pc = "paging", InOneAnswer, NEW warns, Answer(PageOf(asked.size), warns)
  PROVE  BoundInv'
BY AnswerOfKeeps DEF Answer

-----------------------------------------------------------------------------
(* The steps of the connectors.                                             *)

LEMMA GitHubStep == BoundInv /\ InGitHub!Next => BoundInv'
<1> SUFFICES ASSUME BoundInv, InGitHub!Next PROVE BoundInv' OBVIOUS
<1>1. req.schema = "github" /\ ~InOneAnswer
  BY DEF InGitHub!Next, InGitHub!GetRepo, InGitHub!Start, InGitHub!Page, InGitHub!Here, InOneAnswer
<1>2. CASE InGitHub!GetRepo
  <2> DEFINE found == InGitHub!Passing(InGitHub!Sent \cup InGitHub!Named, held)
  <2>1. Cardinality(found) \in Nat
    <3>1. found \in SUBSET held BY DEF InGitHub!Passing
    <3> QED BY <3>1, FS_Subset, FS_CardinalityType DEF BoundInv
  <2>2. asked = Nothing BY <1>2 DEF InGitHub!GetRepo, BoundInv, Counters
  <2>3. InGitHub!Cardinality(found) = Cardinality(found)
    BY DEF InGitHub!Cardinality, Cardinality
  <2>4. /\ pc' \in {"done", "failed"}
        /\ UNCHANGED <<req, held, asked, listing, place>>
        /\ sent' = sent \/ sent' = Cardinality(found)
    BY <1>2, <2>3 DEF InGitHub!GetRepo, InGitHub!result, InGitHub!place, place
  <2> HIDE DEF found
  <2> QED BY <2>1, <2>2, <2>4, AfterEnd DEF place
<1>3. CASE InGitHub!Start
  <2>1. InGitHub!Pushes => WrappedStop \in Int BY StopIsInt DEF InGitHub!Pushes, BoundInv
  <2>2. PICK f, o, z : Ask(f, o, z, IF InGitHub!Pushes THEN WrappedStop ELSE Null, FALSE)
    BY <1>3, GitHubCopies DEF InGitHub!Start
  <2> QED BY <1>1, <1>3, <2>1, <2>2, AskKeeps DEF InGitHub!Start
<1>4. CASE InGitHub!Page
  <2>1. PICK K \in SUBSET (1..Len(listing)) :
          Advance(asked.size, Appended(K), HasMore(asked.size), Capped \/ (asked.stop # Null /\ idle' >= MaxPages))
    <3>1. {i \in PageOf(asked.size) : listing[i].is_row} \in SUBSET (1..Len(listing)) BY DEF PageOf
    <3> QED BY <1>4, <3>1, GitHubCopies DEF InGitHub!Page, InGitHub!Limits
  <2>2. asked.stop = Null /\ pages + 1 >= MaxPages => Capped BY DEF Capped, Limits
  <2>3. /\ idle \in Nat /\ pages \in Nat /\ idle < MaxPages /\ idle <= pages
        /\ asked.stop = Null => pages < MaxPages
    BY <1>1, <1>4 DEF BoundInv, Counters, RoomLeft, InGitHub!Page
  <2>4. idle' = idle + 1 \/ idle' = 0 BY <1>4 DEF InGitHub!Page
  <2>5. idle' \in Nat /\ idle' <= MaxPages /\ idle' <= idle + 1
    BY <2>3, <2>4, MaxPagesPositive
  <2>6. pc' = "paging" => idle' < MaxPages
    <3>1. pc' = "paging" => ~Capped /\ ~(asked.stop # Null /\ idle' >= MaxPages)
      BY <2>1 DEF Advance, Turn
    <3> QED BY <2>2, <2>3, <2>5, <3>1, MaxPagesPositive
  <2> QED BY <1>1, <1>4, <2>1, <2>2, <2>5, <2>6, AdvanceKeeps DEF InGitHub!Page
<1> QED BY <1>2, <1>3, <1>4 DEF InGitHub!Next

LEMMA SlackStep == BoundInv /\ InSlack!Next => BoundInv'
<1> SUFFICES ASSUME BoundInv, InSlack!Next PROVE BoundInv' OBVIOUS
<1>1. req.schema = "slack" /\ ~InOneAnswer
  BY DEF InSlack!Next, InSlack!ScanChannels, InSlack!ScanUsers, InSlack!ScanMessages, InSlack!ScanSearch,
         InSlack!Page, InSlack!PageOfSearch, InSlack!On, InSlack!Here, InOneAnswer
<1>2. ASSUME pc = "start", NEW f, NEW o, NEW safe, NEW k, InSlack!ScanWith(f, o, safe, k)
      PROVE  BoundInv'
  <2>1. PICK z : Ask(f, o, z, IF req.limit # Null /\ safe THEN WrappedStop ELSE Null, k)
    BY <1>2, SlackCopies DEF InSlack!ScanWith
  <2>2. req.limit # Null => WrappedStop \in Int BY StopIsInt DEF BoundInv
  <2> QED BY <1>1, <1>2, <2>1, <2>2, AskKeeps
<1>3. CASE InSlack!Page
  <2>1. PICK size : /\ Advance(size, Trimmed(PageOf(size)), size = 0 \/ HasMore(size), Capped)
                    /\ idle' = IF size = 0 THEN 1 ELSE 0
    BY <1>3, SlackCopies DEF InSlack!Page, InSlack!Kept
  <2>2. PageOf(size) \in SUBSET (1..Len(listing)) BY DEF PageOf
  <2>3. asked.stop = Null /\ pages + 1 >= MaxPages => Capped BY DEF Capped, Limits
  <2>4. idle' \in Nat /\ idle' <= MaxPages BY <2>1, MaxPagesPositive
  <2> QED BY <1>1, <1>3, <2>1, <2>2, <2>3, <2>4, AdvanceKeeps DEF InSlack!Page
<1>4. CASE InSlack!PageOfSearch
  <2>1. /\ Advance(asked.size, Appended(PageOf(asked.size)), HasMore(asked.size), Capped)
        /\ idle' = idle
    BY <1>4, SlackCopies DEF InSlack!PageOfSearch
  <2>2. PageOf(asked.size) \in SUBSET (1..Len(listing)) BY DEF PageOf
  <2>3. asked.stop = Null /\ pages + 1 >= MaxPages => Capped BY DEF Capped, Limits
  <2>4. idle' \in Nat /\ (OfOneList => idle' <= MaxPages) BY <1>4, <2>1, IdleBounded DEF InSlack!PageOfSearch
  <2> QED BY <1>1, <1>4, <2>1, <2>2, <2>3, <2>4, AdvanceKeeps DEF InSlack!PageOfSearch
<1> QED
  BY <1>2, <1>3, <1>4
  DEF InSlack!Next, InSlack!ScanChannels, InSlack!ScanUsers, InSlack!ScanMessages, InSlack!ScanSearch

LEMMA NewRelicStep == BoundInv /\ InNewRelic!Next => BoundInv'
<1> SUFFICES ASSUME BoundInv, InNewRelic!Next PROVE BoundInv' OBVIOUS
<1>1. req.schema = "newrelic" /\ (InOneAnswer <=> ~InNewRelic!Curated)
  BY DEF InNewRelic!Next, InNewRelic!ScanCurated, InNewRelic!Page, InNewRelic!ScanNRDB, InNewRelic!Results,
         InNewRelic!Curated, InNewRelic!Here, InOneAnswer
<1>2. req.limit # Null => WrappedStop \in Int BY StopIsInt DEF BoundInv
<1>3. CASE InNewRelic!ScanCurated
  <2>1. PICK f, o, z, push : /\ push => req.limit # Null
                             /\ Ask(f, o, z, IF push THEN WrappedStop ELSE Null, TRUE)
    BY <1>3, NewRelicCopies DEF InNewRelic!ScanCurated
  <2> QED BY <1>1, <1>2, <1>3, <2>1, AskKeeps DEF InNewRelic!ScanCurated
<1>4. CASE InNewRelic!Page
  <2>1. PICK size : /\ Advance(size, Trimmed(PageOf(size)), size = 0 \/ HasMore(size),
                               pages = MaxPages - 1 /\ ~InNewRelic!Satisfied(sent'))
                    /\ idle' = IF size = 0 THEN 1 ELSE 0
    BY <1>4, NewRelicCopies DEF InNewRelic!Page
  <2>2. PageOf(size) \in SUBSET (1..Len(listing)) BY DEF PageOf
  <2>3. asked.stop = Null /\ pages + 1 >= MaxPages
          => pages = MaxPages - 1 /\ ~InNewRelic!Satisfied(sent')
    <3>1. asked.stop = Null => ~InNewRelic!Satisfied(sent')
      BY DEF InNewRelic!Satisfied, InNewRelic!Limits
    <3>2. pages \in Nat /\ (asked.stop = Null => pages < MaxPages)
      BY <1>4 DEF BoundInv, Counters, RoomLeft, InNewRelic!Page
    <3> QED BY <3>1, <3>2, MaxPagesPositive
  <2>4. idle' \in Nat /\ idle' <= MaxPages BY <2>1, MaxPagesPositive
  <2> QED BY <1>1, <1>4, <2>1, <2>2, <2>3, <2>4, AdvanceKeeps DEF InNewRelic!Page
<1>5. CASE InNewRelic!ScanNRDB
  <2>1. PICK f, o, push : /\ push => req.limit # Null
                          /\ Ask(f, o, IF push THEN WrappedStop ELSE MaxRows,
                                 IF push THEN WrappedStop ELSE Null, TRUE)
    BY <1>5, NewRelicCopies DEF InNewRelic!ScanNRDB, InNewRelic!PushedLimit
  <2> QED BY <1>1, <1>2, <1>5, <2>1, AskKeeps DEF InNewRelic!ScanNRDB
<1>6. CASE InNewRelic!Results
  <2>1. PICK w : Answer(PageOf(asked.size), w)
    BY <1>6, NewRelicCopies DEF InNewRelic!Results
  <2> QED BY <1>1, <1>6, <2>1, AnswerKeeps DEF InNewRelic!Results
<1> QED BY <1>3, <1>4, <1>5, <1>6 DEF InNewRelic!Next

LEMMA CkanStep == BoundInv /\ InCkan!Next => BoundInv'
<1> SUFFICES ASSUME BoundInv, InCkan!Next PROVE BoundInv' OBVIOUS
<1>1. req.schema = "datagov" /\ ~InOneAnswer
  BY DEF InCkan!Next, InCkan!ScanDatasets, InCkan!ScanResources, InCkan!ScanList, InCkan!Page, InCkan!Here, InOneAnswer
<1>2. req.limit # Null => WrappedStop \in Int BY StopIsInt DEF BoundInv
<1>3. CASE InCkan!ScanDatasets
  <2>1. PICK f, o, z, push : /\ push => req.limit # Null
                             /\ Ask(f, o, z, IF push THEN WrappedStop ELSE Null, FALSE)
    BY <1>3, CkanCopies DEF InCkan!ScanDatasets
  <2> QED BY <1>1, <1>2, <1>3, <2>1, AskKeeps DEF InCkan!ScanDatasets
<1>4. CASE InCkan!ScanResources \/ InCkan!ScanList
  <2>1. PICK f, z : Ask(f, <<>>, z, Null, FALSE)
    BY <1>4, CkanCopies DEF InCkan!ScanResources, InCkan!ScanList
  <2> QED BY <1>1, <1>4, <2>1, AskKeeps DEF InCkan!ScanResources, InCkan!ScanList
<1>5. CASE InCkan!Page
  <2> DEFINE K == {i \in PageOf(asked.size) : listing[i].is_row}
  <2>1. Advance(asked.size, Appended(K), HasMore(asked.size), Capped) /\ idle' = idle
    BY <1>5, CkanCopies DEF InCkan!Page
  <2>2. K \in SUBSET (1..Len(listing)) BY DEF PageOf
  <2>3. asked.stop = Null /\ pages + 1 >= MaxPages => Capped BY DEF Capped, Limits
  <2>4. idle' \in Nat /\ (OfOneList => idle' <= MaxPages) BY <1>5, <2>1, IdleBounded DEF InCkan!Page
  <2> HIDE DEF K
  <2> QED BY <1>1, <1>5, <2>1, <2>2, <2>3, <2>4, AdvanceKeeps DEF InCkan!Page
<1> QED BY <1>3, <1>4, <1>5 DEF InCkan!Next

\* The next list of comments is as long as any, and what is left of the LIMIT is kept.
LEMMA AfterNextKey ==
  ASSUME BoundInv, pc = "paging", ~OfOneList, pages' = 0, idle' \in Nat, next' = 0,
         NEW f, NEW o, NEW z, NEW stop, NEW k, NEW rest, NEW size, stop = asked.stop,
         List([Asked(f, o, z, stop, k) EXCEPT !.rest = rest]),
         Emit(Appended(PageOf(size))), asked.stop # Null => sent' < asked.stop
  PROVE  BoundInv'
<1> USE DEF BoundInv
<1>1. PageOf(size) \in SUBSET (1..Len(listing)) BY DEF PageOf
<1>2. Cut(PageOf(size), Appended(PageOf(size)))
  BY <1>1, CutAtLimit DEF Emit
<1>3. /\ sent' \in Nat
      /\ asked.stop # Null /\ asked.stop >= 0 => sent' <= Max({1, asked.stop})
  BY <1>2, CutFits
<1>4. /\ asked' = [Asked(f, o, z, stop, k) EXCEPT !.rest = rest] /\ asked'.stop = asked.stop
      /\ pc' = "paging" /\ UNCHANGED <<req, held>>
  BY DEF List, Asked
<1>5. listing' \in Seq({listing'[i] : i \in DOMAIN listing'})
  <2>1. PICK rows \in SUBSET held : listing' \in [1..Cardinality(rows) -> rows]
    BY DEF List, Listings, Passing
  <2>2. Cardinality(rows) \in Nat BY FS_Subset, FS_CardinalityType
  <2>3. listing' \in Seq(rows) BY <2>1, <2>2
  <2> QED BY <2>3, ListIsSeq
<1>6. ~OfOneList' /\ ~InOneAnswer' /\ req'.schema = "jira" BY <1>4 DEF OfOneList, InOneAnswer
<1>7. Counters' BY <1>3, <1>4, <1>6 DEF Counters
<1>8. RoomLeft'
  <2>1. asked'.stop \in Int \cup {Null} BY <1>4 DEF RoomLeft
  <2>2. asked' = [Asked(asked'.filters, asked'.order, asked'.size, asked'.stop, asked'.keyset)
                    EXCEPT !.rest = asked'.rest]
    BY <1>4 DEF Asked
  <2> QED BY <1>4, <1>6, <2>1, <2>2, MaxPagesPositive DEF RoomLeft
<1>9. Bounded'
  <2>1. asked'.stop # Null /\ asked'.stop >= 0 => sent' <= Max({1, asked'.stop}) BY <1>3, <1>4
  <2> QED BY <1>6, <2>1, MaxPagesPositive DEF Bounded
<1> QED BY <1>4, <1>5, <1>7, <1>8, <1>9

LEMMA JiraStep == BoundInv /\ InJira!Next => BoundInv'
<1> SUFFICES ASSUME BoundInv, InJira!Next PROVE BoundInv' OBVIOUS
<1>1. req.schema = "jira" /\ ~InOneAnswer
  BY DEF InJira!Next, InJira!ScanIssues, InJira!ScanProjects, InJira!ScanComments, InJira!Page,
         InJira!NextKey, InJira!On, InJira!Here, InOneAnswer
<1>2. req.limit # Null => WrappedStop \in Int BY StopIsInt DEF BoundInv
<1>3. \A push \in BOOLEAN : (push => req.limit # Null) => InJira!Stop(push) \in Int \cup {Null}
  BY <1>2, JiraCopies DEF InJira!Stop
<1>4. CASE InJira!ScanIssues
  <2> DEFINE push == req.limit # Null /\ InJira!ConsumedAll /\ InJira!OrderOK /\ ~InJira!Defaulted
             stop == InJira!Stop(push)
  <2>1. stop \in Int \cup {Null} BY <1>3
  <2>2. PICK f, o, z, s, k : s = stop /\ List(Asked(f, o, z, s, k))
    BY <1>4, JiraCopies DEF InJira!ScanIssues
  <2> HIDE DEF stop
  <2>3. List([Asked(f, o, z, s, k) EXCEPT !.rest = <<>>]) BY <2>2, NothingToCome
  <2>4. pc = "start" /\ UNCHANGED <<place, sent>>
    BY <1>4 DEF InJira!ScanIssues, InJira!place, place
  <2> QED BY <1>1, <2>1, <2>2, <2>3, <2>4, ListKeeps
<1>5. CASE InJira!ScanProjects
  <2> DEFINE push == req.limit # Null /\ InJira!ProjectsLimitSafe
             stop == InJira!Stop(push)
  <2>1. stop \in Int \cup {Null} BY <1>3
  <2>2. PICK f, o, z : Ask(f, o, z, stop, FALSE) BY <1>5, JiraCopies DEF InJira!ScanProjects
  <2> HIDE DEF stop
  <2> QED BY <1>1, <1>5, <2>1, <2>2, AskKeeps DEF InJira!ScanProjects
<1>6. CASE InJira!ScanComments
  <2> DEFINE push == req.limit # Null /\ InJira!CommentsLimitSafe
             stop == InJira!Stop(push)
  <2>1. stop \in Int \cup {Null} BY <1>3
  <2>2. PICK f, o, z, rest : List([Asked(f, o, z, stop, FALSE) EXCEPT !.rest = rest])
    BY <1>6, JiraCopies DEF InJira!ScanComments
  <2> HIDE DEF stop
  <2>3. pc = "start" /\ UNCHANGED <<place, sent>>
    BY <1>6 DEF InJira!ScanComments, InJira!place, place, InJira!result
  <2> QED BY <1>1, <2>1, <2>2, <2>3, ListKeeps
<1>7. CASE InJira!Page
  <2>1. PICK size \in InJira!Sends :
          /\ Advance(size, Appended(PageOf(size)), InJira!Onward(size), Capped)
          /\ idle' = idle + (IF size = 0 THEN 1 ELSE 0)
    BY <1>7, JiraCopies DEF InJira!Page
  <2>2. PageOf(size) \in SUBSET (1..Len(listing)) BY DEF PageOf
  <2>3. asked.stop = Null /\ pages + 1 >= MaxPages => Capped BY DEF Capped, Limits
  <2>4. pc = "paging" /\ idle \in Nat /\ (OfOneList => idle = 0)
    BY <1>1, <1>7, IdleBounded DEF InJira!Page, BoundInv, RoomLeft
  <2>5. idle' \in Nat /\ (OfOneList => idle' <= MaxPages) BY <2>1, <2>4, MaxPagesPositive
  <2>6. OfOneList /\ pc' = "paging" => idle' = 0
    <3>1. pc' = "paging" => InJira!Onward(size) BY <2>1 DEF Advance, Turn
    <3>2. InJira!Onward(size) => size # 0 BY DEF InJira!Onward
    <3> QED BY <2>1, <2>4, <3>1, <3>2
  <2> QED BY <1>1, <2>1, <2>2, <2>3, <2>4, <2>5, <2>6, AdvanceKeeps
<1>8. CASE InJira!NextKey
  <2>1. PICK size \in InJira!Sends :
          /\ pc = "paging" /\ ~Satisfied(sent')
          /\ Emit(Appended(PageOf(size)))
          /\ next' = 0 /\ pages' = 0 /\ idle' = idle + (IF size = 0 THEN 1 ELSE 0)
    BY <1>8, JiraCopies DEF InJira!NextKey, InJira!LastKey
  <2>8. idle' \in Nat /\ ~OfOneList
    BY <1>8, <2>1, IdleBounded DEF InJira!NextKey, InJira!On, InJira!Here, OfOneList
  <2>2. PICK g, o, z, stop, k, r :
          asked = [filters |-> g, order |-> o, size |-> z, stop |-> stop, keyset |-> k, rest |-> r]
    BY <2>1 DEF BoundInv, RoomLeft, Asked
  <2>3. PICK f, rest, ask : ask = [asked EXCEPT !.filters = f, !.rest = rest] /\ List(ask)
    BY <1>8, JiraCopies DEF InJira!NextKey
  <2>4. ask = [Asked(f, o, z, stop, k) EXCEPT !.rest = rest]
    <3>1. [asked EXCEPT !.filters = f]
            = [filters |-> f, order |-> o, size |-> z, stop |-> stop, keyset |-> k, rest |-> r]
      BY <2>2
    <3>2. ask = [[asked EXCEPT !.filters = f] EXCEPT !.rest = rest] BY <2>3
    <3>3. ask = [[filters |-> f, order |-> o, size |-> z, stop |-> stop, keyset |-> k, rest |-> r]
                   EXCEPT !.rest = rest]
      BY <3>1, <3>2
    <3>4. ask = [filters |-> f, order |-> o, size |-> z, stop |-> stop, keyset |-> k, rest |-> rest]
      BY <3>3
    <3>5. [Asked(f, o, z, stop, k) EXCEPT !.rest = rest]
            = [filters |-> f, order |-> o, size |-> z, stop |-> stop, keyset |-> k, rest |-> rest]
      BY DEF Asked
    <3> QED BY <3>4, <3>5
  <2>5. List([Asked(f, o, z, stop, k) EXCEPT !.rest = rest]) BY <2>3, <2>4
  <2>6. asked.stop # Null => sent' < asked.stop
    <3>1. sent' \in Nat
      <4>1. PageOf(size) \in SUBSET (1..Len(listing)) BY DEF PageOf
      <4>2. Cut(PageOf(size), Appended(PageOf(size))) BY <2>1, <4>1, CutAtLimit DEF Emit
      <4> QED BY <2>1, <4>2, CutFits
    <3>2. asked.stop # Null => asked.stop \in Int BY <2>1 DEF BoundInv, RoomLeft
    <3> QED BY <2>1, <3>1, <3>2 DEF Satisfied, Limits
  <2>7. stop = asked.stop BY <2>2
  <2> QED BY <2>1, <2>5, <2>6, <2>7, <2>8, AfterNextKey
<1> QED BY <1>4, <1>5, <1>6, <1>7, <1>8 DEF InJira!Next

LEMMA PostgresStep == BoundInv /\ InPostgres!Next => BoundInv'
<1> SUFFICES ASSUME BoundInv, InPostgres!Next PROVE BoundInv' OBVIOUS
<1>1. InOneAnswer /\ req.schema = "postgres"
  BY DEF InPostgres!Next, InPostgres!Scan, InPostgres!Rows, InPostgres!Here, InOneAnswer
<1>2. req.limit # Null => WrappedStop \in Int BY StopIsInt DEF BoundInv
<1>3. CASE InPostgres!Scan
  <2>1. PICK f, o, push : /\ push => req.limit # Null
                          /\ Ask(f, o, IF push THEN WrappedStop ELSE MaxRows,
                                 IF push THEN WrappedStop ELSE Null, TRUE)
    BY <1>3, PostgresCopies DEF InPostgres!Scan, InPostgres!PushLimit
  <2> QED BY <1>1, <1>2, <1>3, <2>1, AskKeeps DEF InPostgres!Scan
<1>4. CASE InPostgres!Rows
  <2>1. PICK w : Answer(PageOf(asked.size), w) BY <1>4, PostgresCopies DEF InPostgres!Rows
  <2> QED BY <1>1, <1>4, <2>1, AnswerKeeps DEF InPostgres!Rows
<1> QED BY <1>3, <1>4 DEF InPostgres!Next

LEMMA GitStep == BoundInv /\ InGit!Next => BoundInv'
<1> SUFFICES ASSUME BoundInv, InGit!Next PROVE BoundInv' OBVIOUS
<1>1. InOneAnswer /\ req.schema = "git"
  BY DEF InGit!Next, InGit!ScanCommits, InGit!ScanWhole, InGit!Output, InGit!Here, InOneAnswer
<1>2. req.limit # Null => WrappedStop \in Int BY StopIsInt DEF BoundInv
<1>3. CASE InGit!ScanCommits
  <2>1. PICK f, z, stop :
          /\ \/ stop = Null
             \/ req.limit # Null /\ stop = WrappedStop /\ (stop >= 0 => z = stop)
          /\ Ask(f, <<>>, z, stop, TRUE)
    <3>1. CASE InGit!Pushes
      <4>1. WrappedStop \in Int BY <1>2, <3>1 DEF InGit!Pushes
      <4>2. PICK f, z, stop : /\ stop = WrappedStop
                              /\ z = (IF WrappedStop < 0 THEN InGit!Everything ELSE WrappedStop)
                              /\ Ask(f, <<>>, z, stop, TRUE)
        BY <1>3, <3>1, GitCopies DEF InGit!ScanCommits
      <4>3. stop >= 0 => z = stop BY <4>1, <4>2
      <4> QED BY <3>1, <4>2, <4>3 DEF InGit!Pushes
    <3>2. CASE ~InGit!Pushes
      BY <1>3, <3>2, GitCopies DEF InGit!ScanCommits
    <3> QED BY <3>1, <3>2
  <2>2. stop \in Int \cup {Null} BY <1>2, <2>1
  <2> QED BY <1>1, <1>3, <2>1, <2>2, AskKeeps DEF InGit!ScanCommits
<1>4. CASE InGit!ScanWhole
  <2>1. Ask({}, <<>>, MaxRows, Null, TRUE) BY <1>4, GitCopies DEF InGit!ScanWhole
  <2> QED BY <1>4, <2>1, AskKeeps DEF InGit!ScanWhole
<1>5. CASE InGit!Output
  <2>1. PICK w : Answer(PageOf(asked.size), w) BY <1>5, GitCopies DEF InGit!Output
  <2> QED BY <1>1, <1>5, <2>1, AnswerKeeps DEF InGit!Output
<1> QED BY <1>3, <1>4, <1>5 DEF InGit!Next

LEMMA JaegerStep == BoundInv /\ InJaeger!Next => BoundInv'
<1> SUFFICES ASSUME BoundInv, InJaeger!Next PROVE BoundInv' OBVIOUS
<1>1. InOneAnswer
  BY DEF InJaeger!Next, InJaeger!GetTrace, InJaeger!SearchTraces, InJaeger!ScanServices, InJaeger!ScanOperations,
         InJaeger!Decode, InJaeger!Searches, InJaeger!On, InJaeger!Here, InOneAnswer
<1>2. CASE InJaeger!GetTrace \/ InJaeger!SearchTraces \/ InJaeger!ScanServices \/ InJaeger!ScanOperations
  <2>1. PICK f, z : Ask(f, <<>>, z, Null, TRUE)
    BY <1>2, JaegerCopies
    DEF InJaeger!GetTrace, InJaeger!SearchTraces, InJaeger!ScanServices, InJaeger!ScanOperations
  <2>2. pc = "start"
    BY <1>2 DEF InJaeger!GetTrace, InJaeger!SearchTraces, InJaeger!ScanServices, InJaeger!ScanOperations
  <2> QED BY <2>1, <2>2, AskKeeps
<1>3. CASE InJaeger!Decode
  <2>1. PICK size, w : AnswerOf(size, PageOf(size), w) BY <1>3, JaegerCopies DEF InJaeger!Decode
  <2>2. asked.stop = Null /\ pc = "paging" BY <1>3 DEF InJaeger!Decode, InJaeger!Here, BoundInv, RoomLeft
  <2> QED BY <1>1, <2>1, <2>2, AnswerOfKeeps
<1> QED BY <1>2, <1>3 DEF InJaeger!Next

LEMMA DockerStep == BoundInv /\ InDocker!Next => BoundInv'
<1> SUFFICES ASSUME BoundInv, InDocker!Next PROVE BoundInv' OBVIOUS
<1>1. InOneAnswer
  BY DEF InDocker!Next, InDocker!Start, InDocker!Listed, InDocker!Here, InOneAnswer
<1>2. CASE InDocker!Start
  <2>1. PICK z : Ask({}, <<>>, z, Null, TRUE) BY <1>2, DockerCopies DEF InDocker!Start
  <2> QED BY <1>2, <2>1, AskKeeps DEF InDocker!Start
<1>3. CASE InDocker!Listed
  <2>1. Answer(PageOf(asked.size), FALSE) BY <1>3, DockerCopies DEF InDocker!Listed
  <2> QED BY <1>1, <1>3, <2>1, AnswerKeeps DEF InDocker!Listed
<1> QED BY <1>2, <1>3 DEF InDocker!Next

-----------------------------------------------------------------------------
(* The scans and the service.                                               *)

LEMMA AfterMoved ==
  ASSUME BoundInv, pc = "paging", pages > 0, UNCHANGED <<req, asked, pages, idle, sent, pc>>,
         IsFiniteSet(held'), listing' \in Seq({listing'[i] : i \in DOMAIN listing'})
  PROVE  BoundInv'
<1> USE DEF BoundInv
<1>1. ~InOneAnswer BY DEF RoomLeft, place
<1>2. ~InOneAnswer'
  BY <1>1 DEF InOneAnswer, InNewRelic!Curated, InNewRelic!Here, InNewRelic!Searchable
<1>3. Counters' BY DEF Counters
<1>4. RoomLeft' BY <1>2 DEF RoomLeft, OfOneList
<1>5. Bounded' BY DEF Bounded, OfOneList
<1> QED BY <1>3, <1>4, <1>5

LEMMA Around ==
  ASSUME NEW S, NEW l \in Seq(S), NEW m \in 1..(Len(l) + 1), NEW n \in 1..(Len(l) + 1)
  PROVE  SubSeq(l, 1, m - 1) \in Seq(S) /\ SubSeq(l, n, Len(l)) \in Seq(S)
<1>1. Len(l) \in Nat OBVIOUS
<1>2. 1 \in 1..(Len(l) + 1) /\ m - 1 \in 0..Len(l) /\ Len(l) \in (n - 1)..Len(l) BY <1>1
<1>3. SubSeq(l, 1, m - 1) \in Seq(S) BY <1>2, SubSeqProperties
<1>4. SubSeq(l, n, Len(l)) \in Seq(S) BY <1>2, SubSeqProperties
<1> QED BY <1>3, <1>4

LEMMA AppearKeeps ==
  ASSUME BoundInv, NEW row, Appear(row)
  PROVE  BoundInv'
<1> DEFINE S == {listing[i] : i \in DOMAIN listing} \cup {row}
<1>1. IsFiniteSet(held') BY FS_AddElement DEF BoundInv, Appear
<1>2. listing \in Seq(S) BY DEF BoundInv
<1> HIDE DEF S
<1>3. listing' \in Seq(S)
  <2>1. PICK at \in 1..(Len(listing) + 1) :
          listing' = listing \/ listing' = SubSeq(listing, 1, at - 1) \o <<row>> \o SubSeq(listing, at, Len(listing))
    BY DEF Appear
  <2>2. SubSeq(listing, 1, at - 1) \in Seq(S) /\ SubSeq(listing, at, Len(listing)) \in Seq(S)
    BY <1>2, Around
  <2>3. row \in S BY DEF S
  <2>4. <<row>> \in Seq(S) BY <2>3
  <2>5. SubSeq(listing, 1, at - 1) \o <<row>> \in Seq(S) BY <2>2, <2>4, ConcatProperties
  <2>6. (SubSeq(listing, 1, at - 1) \o <<row>>) \o SubSeq(listing, at, Len(listing)) \in Seq(S)
    BY <2>2, <2>5, ConcatProperties
  <2> QED BY <1>2, <2>1, <2>6
<1>4. listing' \in Seq({listing'[i] : i \in DOMAIN listing'}) BY <1>3, ListIsSeq
<1> QED BY <1>1, <1>4, AfterMoved DEF Appear, result

LEMMA VanishKeeps ==
  ASSUME BoundInv, NEW at \in DOMAIN listing, Vanish(at)
  PROVE  BoundInv'
<1> DEFINE S == {listing[i] : i \in DOMAIN listing}
<1>1. IsFiniteSet(held') BY FS_RemoveElement DEF BoundInv, Vanish
<1>2. listing \in Seq(S) BY DEF BoundInv
<1> HIDE DEF S
<1>3. at \in 1..(Len(listing) + 1) /\ at + 1 \in 1..(Len(listing) + 1) BY <1>2
<1>4. SubSeq(listing, 1, at - 1) \in Seq(S) /\ SubSeq(listing, at + 1, Len(listing)) \in Seq(S)
  BY <1>2, <1>3, Around
<1>5. listing' \in Seq(S) BY <1>4 DEF Vanish
<1>6. listing' \in Seq({listing'[i] : i \in DOMAIN listing'}) BY <1>5, ListIsSeq
<1> QED BY <1>1, <1>6, AfterMoved DEF Vanish, result

LEMMA BoundInit == Init => BoundInv
<1> SUFFICES ASSUME Init PROVE BoundInv OBVIOUS
<1>1. req \in Requests /\ IsFiniteSet(held)
  BY RequestAssumption DEF Init, Table
<1>2. listing \in Seq({listing[i] : i \in DOMAIN listing}) BY DEF Init
<1>3. Counters BY DEF Init, Counters, place
<1> QED BY <1>1, <1>2, <1>3 DEF Init, BoundInv, RoomLeft, Bounded

LEMMA BoundNext == BoundInv /\ [Next]_vars => BoundInv'
<1> SUFFICES ASSUME BoundInv, [Next]_vars PROVE BoundInv' OBVIOUS
<1>1. CASE Scan
  BY <1>1, GitHubStep, SlackStep, NewRelicStep, CkanStep, JiraStep, PostgresStep, GitStep, JaegerStep, DockerStep
  DEF Scan
<1>2. CASE Fail
  <2>1. pc' = "failed" /\ UNCHANGED <<req, held, asked, listing, pages, idle, sent>>
    BY <1>2 DEF Fail, place, result
  <2> QED BY <2>1, AfterEnd
<1>3. CASE \E row \in Arrivals[Table] : Appear(row) BY <1>3, AppearKeeps
<1>4. CASE \E at \in DOMAIN listing : Vanish(at) BY <1>4, VanishKeeps
<1>5. CASE UNCHANGED vars
  BY <1>5 DEF vars, place, BoundInv, Counters, RoomLeft, Bounded, OfOneList, InOneAnswer,
              InNewRelic!Curated, InNewRelic!Here, InNewRelic!Searchable
<1> QED BY <1>1, <1>2, <1>3, <1>4, <1>5 DEF Next

\* Whatever is asked of a connector, whatever its service holds and whatever happens
\* to it meanwhile: a scan that no LIMIT stops reads no more than MaxPages pages, one
\* that a LIMIT stops emits no more rows than the LIMIT (but for the row under LIMIT 0),
\* and none reads more than MaxPages pages in a row that have nothing to emit.
THEOREM ScansAreBounded == Spec => []Bounded
<1>1. BoundInv => Bounded BY DEF BoundInv
<1> QED BY BoundInit, BoundNext, <1>1, PTL DEF Spec

-----------------------------------------------------------------------------
(* Warnings.                                                                *)

LEMMA AskTells ==
  ASSUME RestInv, pc = "start", NEW f, NEW o, NEW z, NEW stop, NEW k,
         req.schema = "slack" => z # 0, Ask(f, o, z, stop, k)
  PROVE  RestInv'
<1>1. asked'.size = z /\ pc' = "paging" /\ UNCHANGED <<req, warned>>
  BY DEF Ask, List, Asked, result
<1> QED BY <1>1 DEF RestInv, WarnOfRest, WarnedOfMore

LEMMA AdvanceTells ==
  ASSUME RestInv, pc = "paging", NEW size, NEW A, NEW more, NEW capped,
         Advance(size, A, more, capped), WarnOfRest /\ more => HasMore(size)
  PROVE  RestInv'
<1>1. /\ pc' = IF ~more \/ Satisfied(sent') \/ capped THEN "done" ELSE "paging"
      /\ next' = next + size
      /\ warned' = (warned \/ (more /\ capped))
      /\ UNCHANGED <<req, asked, listing>>
  BY DEF Advance, Turn
<1>2. WarnOfRest' = WarnOfRest BY <1>1 DEF WarnOfRest
<1>3. WarnOfRest /\ warned' => more /\ capped BY <1>1 DEF RestInv
<1>4. WarnOfRest /\ more => next' < Len(listing') BY <1>1 DEF HasMore
<1> QED BY <1>1, <1>2, <1>3, <1>4 DEF RestInv, WarnedOfMore

LEMMA ListIsNotEmpty ==
  ASSUME req \in Requests, req.limit # Null
  PROVE  LimitedSize # 0
<1>1. WrappedStop \in Int /\ PageSize \in Int BY StopIsInt, SizeAssumption
<1>2. Min({PageSize, WrappedStop}) \in {PageSize, WrappedStop} BY <1>1 DEF Min
<1>3. Max({1, Min({PageSize, WrappedStop})}) >= 1 BY <1>1, <1>2, MaxOfTwo
<1> QED BY <1>3 DEF LimitedSize

LEMMA GitHubTells == RestInv /\ InGitHub!Next => RestInv'
<1> SUFFICES ASSUME RestInv, InGitHub!Next PROVE RestInv' OBVIOUS
<1>1. req.schema = "github"
  BY DEF InGitHub!Next, InGitHub!GetRepo, InGitHub!Start, InGitHub!Page, InGitHub!Here
<1>2. CASE InGitHub!GetRepo
  <2>1. pc = "start" /\ pc' \in {"done", "failed"} /\ UNCHANGED <<req, warned>>
    BY <1>2 DEF InGitHub!GetRepo, InGitHub!result
  <2> QED BY <1>1, <2>1 DEF RestInv, WarnOfRest, WarnedOfMore
<1>3. CASE InGitHub!Start
  <2>1. PICK f, o, z, stop, k : Ask(f, o, z, stop, k) BY <1>3, GitHubCopies DEF InGitHub!Start
  <2> QED BY <1>1, <1>3, <2>1, AskTells DEF InGitHub!Start
<1>4. CASE InGitHub!Page
  <2>1. PICK A, capped : Advance(asked.size, A, HasMore(asked.size), capped)
    BY <1>4, GitHubCopies DEF InGitHub!Page
  <2> QED BY <1>4, <2>1, AdvanceTells DEF InGitHub!Page
<1> QED BY <1>2, <1>3, <1>4 DEF InGitHub!Next

LEMMA SlackTells == RestInv /\ InSlack!Next => RestInv'
<1> SUFFICES ASSUME RestInv, InSlack!Next PROVE RestInv' OBVIOUS
<1>1. req.schema = "slack" /\ req \in Requests
  BY DEF InSlack!Next, InSlack!ScanChannels, InSlack!ScanUsers, InSlack!ScanMessages, InSlack!ScanSearch,
         InSlack!Page, InSlack!PageOfSearch, InSlack!On, InSlack!Here, RestInv
<1>2. ASSUME pc = "start", NEW f, NEW o, NEW safe, NEW k, InSlack!ScanWith(f, o, safe, k)
      PROVE  RestInv'
  <2>1. PICK z, stop : /\ z = (IF req.limit # Null /\ safe THEN InSlack!LimitedSize ELSE PageSize)
                       /\ Ask(f, o, z, stop, k)
    BY <1>2, SlackCopies DEF InSlack!ScanWith
  <2>2. InSlack!LimitedSize = LimitedSize
    BY SlackCopies DEF InSlack!LimitedSize, LimitedSize, InSlack!Max, Max, InSlack!Min, Min
  <2>3. z # 0 BY <1>1, <2>1, <2>2, ListIsNotEmpty, SizeAssumption
  <2> QED BY <1>2, <2>1, <2>3, AskTells
<1>3. CASE InSlack!Page
  <2>1. PICK size, A : /\ size \in InSlack!Reaches(asked.size)
                       /\ Advance(size, A, size = 0 \/ HasMore(size), Capped)
    BY <1>3, SlackCopies DEF InSlack!Page
  <2>2. size = 0 => HasMore(size)
    BY <1>1, <1>3, <2>1, SlackCopies DEF RestInv, InSlack!Reaches, InSlack!Page
  <2> QED BY <1>3, <2>1, <2>2, AdvanceTells DEF InSlack!Page
<1>4. CASE InSlack!PageOfSearch
  <2>1. PICK A : Advance(asked.size, A, HasMore(asked.size), Capped)
    BY <1>4, SlackCopies DEF InSlack!PageOfSearch
  <2> QED BY <1>4, <2>1, AdvanceTells DEF InSlack!PageOfSearch
<1> QED
  BY <1>2, <1>3, <1>4
  DEF InSlack!Next, InSlack!ScanChannels, InSlack!ScanUsers, InSlack!ScanMessages, InSlack!ScanSearch

LEMMA CkanTells == RestInv /\ InCkan!Next => RestInv'
<1> SUFFICES ASSUME RestInv, InCkan!Next PROVE RestInv' OBVIOUS
<1>1. req.schema = "datagov"
  BY DEF InCkan!Next, InCkan!ScanDatasets, InCkan!ScanResources, InCkan!ScanList, InCkan!Page, InCkan!Here
<1>2. CASE InCkan!ScanDatasets \/ InCkan!ScanResources \/ InCkan!ScanList
  <2>1. PICK f, o, z, stop, k : Ask(f, o, z, stop, k)
    <3>1. CASE InCkan!ScanDatasets
      <4>1. PICK f, o, z, push : Ask(f, o, z, IF push THEN WrappedStop ELSE Null, FALSE)
        BY <3>1, CkanCopies DEF InCkan!ScanDatasets
      <4> QED BY <4>1
    <3>2. CASE InCkan!ScanResources BY <3>2, CkanCopies DEF InCkan!ScanResources
    <3>3. CASE InCkan!ScanList BY <3>3, CkanCopies DEF InCkan!ScanList
    <3> QED BY <1>2, <3>1, <3>2, <3>3
  <2>2. pc = "start" BY <1>2 DEF InCkan!ScanDatasets, InCkan!ScanResources, InCkan!ScanList
  <2> QED BY <1>1, <2>1, <2>2, AskTells
<1>3. CASE InCkan!Page
  <2>1. PICK A : Advance(asked.size, A, HasMore(asked.size), Capped)
    BY <1>3, CkanCopies DEF InCkan!Page
  <2> QED BY <1>3, <2>1, AdvanceTells DEF InCkan!Page
<1> QED BY <1>2, <1>3 DEF InCkan!Next

LEMMA JiraTells == RestInv /\ InJira!Next => RestInv'
<1> SUFFICES ASSUME RestInv, InJira!Next PROVE RestInv' OBVIOUS
<1>1. req.schema = "jira"
  BY DEF InJira!Next, InJira!ScanIssues, InJira!ScanProjects, InJira!ScanComments, InJira!Page,
         InJira!NextKey, InJira!On, InJira!Here
<1>2. CASE InJira!ScanIssues \/ InJira!ScanComments \/ InJira!NextKey
  <2>1. req.table # "projects"
    BY <1>2 DEF InJira!ScanIssues, InJira!ScanComments, InJira!NextKey, InJira!On
  <2>2. UNCHANGED req
    BY <1>2 DEF InJira!ScanIssues, InJira!ScanComments, InJira!NextKey, InJira!List
  <2> QED BY <1>1, <2>1, <2>2 DEF RestInv, WarnOfRest, WarnedOfMore
<1>3. CASE InJira!ScanProjects
  <2>1. PICK f, o, z, stop, k : Ask(f, o, z, stop, k) BY <1>3, JiraCopies DEF InJira!ScanProjects
  <2> QED BY <1>1, <1>3, <2>1, AskTells DEF InJira!ScanProjects
<1>4. CASE InJira!Page
  <2>1. PICK size, A : Advance(size, A, InJira!Onward(size), Capped)
    BY <1>4, JiraCopies DEF InJira!Page
  <2>2. InJira!Onward(size) => HasMore(size) BY JiraCopies DEF InJira!Onward
  <2> QED BY <1>4, <2>1, <2>2, AdvanceTells DEF InJira!Page
<1> QED BY <1>2, <1>3, <1>4 DEF InJira!Next

LEMMA GitTells == RestInv /\ InGit!Next => RestInv'
<1> SUFFICES ASSUME RestInv, InGit!Next PROVE RestInv' OBVIOUS
<1>1. req.schema = "git"
  BY DEF InGit!Next, InGit!ScanCommits, InGit!ScanWhole, InGit!Output, InGit!Here
<1>2. CASE InGit!ScanCommits \/ InGit!ScanWhole
  <2>1. PICK f, o, z, stop, k : Ask(f, o, z, stop, k)
    BY <1>2, GitCopies DEF InGit!ScanCommits, InGit!ScanWhole
  <2>2. pc = "start" BY <1>2 DEF InGit!ScanCommits, InGit!ScanWhole
  <2> QED BY <1>1, <2>1, <2>2, AskTells
<1>3. CASE InGit!Output
  <2>1. /\ next' = next + asked.size /\ pc = "paging" /\ pc' = "done" /\ UNCHANGED <<req, listing>>
        /\ warned' => HasMore(asked.size)
    BY <1>3, GitCopies DEF InGit!Output, Answer, AnswerOf, Turn
  <2> QED BY <1>1, <2>1 DEF RestInv, WarnOfRest, WarnedOfMore, HasMore
<1> QED BY <1>2, <1>3 DEF InGit!Next

\* The others warn of more than that.
LEMMA OthersTell ==
  RestInv /\ (InNewRelic!Next \/ InPostgres!Next \/ InJaeger!Next \/ InDocker!Next) => RestInv'
<1> SUFFICES ASSUME RestInv, InNewRelic!Next \/ InPostgres!Next \/ InJaeger!Next \/ InDocker!Next
             PROVE  RestInv'
  OBVIOUS
<1>1. CASE InNewRelic!Next
  <2>1. req.schema = "newrelic" /\ UNCHANGED req
    BY <1>1
    DEF InNewRelic!Next, InNewRelic!ScanCurated, InNewRelic!Page, InNewRelic!ScanNRDB, InNewRelic!Results,
        InNewRelic!Curated, InNewRelic!Here, InNewRelic!Ask, InNewRelic!List, InNewRelic!Advance,
        InNewRelic!Answer, InNewRelic!AnswerOf, InNewRelic!Turn
  <2> QED BY <2>1 DEF RestInv, WarnOfRest, WarnedOfMore
<1>2. CASE InPostgres!Next
  <2>1. req.schema = "postgres" /\ UNCHANGED req
    BY <1>2
    DEF InPostgres!Next, InPostgres!Scan, InPostgres!Rows, InPostgres!Here, InPostgres!Ask, InPostgres!List,
        InPostgres!Answer, InPostgres!AnswerOf, InPostgres!Turn
  <2> QED BY <2>1 DEF RestInv, WarnOfRest, WarnedOfMore
<1>3. CASE InJaeger!Next
  <2>1. req.schema = "jaeger" /\ UNCHANGED req
    BY <1>3
    DEF InJaeger!Next, InJaeger!GetTrace, InJaeger!SearchTraces, InJaeger!ScanServices, InJaeger!ScanOperations,
        InJaeger!Decode, InJaeger!On, InJaeger!Here, InJaeger!Ask, InJaeger!List, InJaeger!AnswerOf, InJaeger!Turn,
        InJaeger!Searches
  <2> QED BY <2>1 DEF RestInv, WarnOfRest, WarnedOfMore
<1>4. CASE InDocker!Next
  <2>1. req.schema = "docker" /\ UNCHANGED req
    BY <1>4
    DEF InDocker!Next, InDocker!Start, InDocker!Listed, InDocker!Here, InDocker!Ask, InDocker!List,
        InDocker!Answer, InDocker!AnswerOf, InDocker!Turn
  <2> QED BY <2>1 DEF RestInv, WarnOfRest, WarnedOfMore
<1> QED BY <1>1, <1>2, <1>3, <1>4

\* No list that was read to its end is reported as cut, by the connectors that warn of
\* rows left behind and of nothing else, whatever happens to the service meanwhile.
THEOREM ReportsOnlyCuts == Spec => []WarnedOfMore
<1>1. Init => RestInv BY DEF Init, RestInv, WarnOfRest, WarnedOfMore
<1>2. RestInv /\ [Next]_vars => RestInv'
  <2> SUFFICES ASSUME RestInv, [Next]_vars PROVE RestInv' OBVIOUS
  <2>1. CASE Scan
    BY <2>1, GitHubTells, SlackTells, CkanTells, JiraTells, GitTells, OthersTell DEF Scan
  <2>2. CASE Fail
    BY <2>2 DEF Fail, RestInv, WarnOfRest, WarnedOfMore
  <2>3. CASE \E row \in Arrivals[Table] : Appear(row)
    BY <2>3 DEF Appear, result, RestInv, WarnOfRest, WarnedOfMore
  <2>4. CASE \E at \in DOMAIN listing : Vanish(at)
    BY <2>4 DEF Vanish, result, RestInv, WarnOfRest, WarnedOfMore
  <2>5. CASE UNCHANGED vars
    BY <2>5 DEF vars, RestInv, WarnOfRest, WarnedOfMore
  <2> QED BY <2>1, <2>2, <2>3, <2>4, <2>5 DEF Next
<1>3. RestInv => WarnedOfMore BY DEF RestInv
<1> QED BY <1>1, <1>2, <1>3, PTL DEF Spec
==============================================================================
