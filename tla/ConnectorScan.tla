--------------------------- MODULE ConnectorScan ----------------------------
(***************************************************************************)
(* One Scan of a connector: what all connectors share.                      *)
(*                                                                          *)
(* A scan takes from its ScanRequest what it sends to the service (`asked`), *)
(* reads the service's list of the rows that match in pages and emits them. *)
(* Rows are records over the columns of their table; a literal has the Go   *)
(* type under which it reaches the connector and the value it stands for    *)
(* once SQLite has given it the affinity of the column.  Texts and times    *)
(* are numbers here: only their order and equality matter.                  *)
(*                                                                          *)
(* Every connector has its own module of definitions and actions over the   *)
(* variables declared here; module Scans puts them together with a service  *)
(* whose rows come and go between two pages.                                *)
(***************************************************************************)
EXTENDS ScanContract, FiniteSetsExt

CONSTANTS
  PageSize,  \* rows in a full page
  MaxPages,  \* pages read when no LIMIT is sent (10 in every connector)
  MaxRows,   \* the most rows asked for at once, where a scan may choose (max_rows)
  MaxInt,    \* the largest int
  Window,    \* how far back a service is searched if the request does not say
  Now,       \* and from where
  Slack      \* how far a bound in time is moved out where clocks may be read apart

ASSUME SizeAssumption ==
  {PageSize, MaxPages, MaxRows, MaxInt, Window, Now, Slack} \subseteq Nat \ {0}

\* NULL, or a LIMIT that was not given, is no number.
ASSUME NullAssumption == Null \notin Int

VARIABLES
  req,      \* the ScanRequest
  held,     \* the rows of the table that the service holds
  standing, \* those it has held since the scan began
  asked,    \* what was sent: filters, order, rows per page, rows to stop at
            \* (Null if no LIMIT rides on it), whether pages continue behind the
            \* last row (`keyset`) or at a position, and requests still to come;
            \* 0 rows per page leave their number to the service
  listing,  \* the service's list of the rows that match what was sent
  next,     \* how far the list has been read
  pages,    \* pages read
  idle,     \* pages in a row that had nothing to emit (in Jira, which ends a list there, in all)
  sent,     \* rows emitted, counted
  emitted,  \* rows emitted
  warned,   \* whether a warning was emitted
  pc        \* "start", "paging", "done" or "failed"

result == <<sent, emitted, warned>>
place == <<next, pages, idle>>

Text(v) == [type |-> "string", v |-> v]
Number(v) == [type |-> "int64", v |-> v]

Passes(f, row) ==
  LET cell == row[f.column]
      v(i) == f.values[i].v
      some == \E i \in DOMAIN f.values : cell = v(i)
  IN /\ cell # Null
     /\ \/ f.op \in {"=", "in"} /\ some
        \/ f.op \in {"<>", "notin"} /\ ~some
        \/ f.op = "<" /\ cell < v(1)
        \/ f.op = "<=" /\ cell <= v(1)
        \/ f.op = ">" /\ cell > v(1)
        \/ f.op = ">=" /\ cell >= v(1)
        \/ f.op = "between" /\ v(1) <= cell /\ cell <= v(2)
        \/ f.op = "notbetween" /\ (cell < v(1) \/ v(2) < cell)

Filters == {req.filters[i] : i \in DOMAIN req.filters}
Passing(filters, rows) == {row \in rows : \A f \in filters : Passes(f, row)}

\* ScanRequest.Filter: the first filter on a column, in a set that is empty if
\* there is none.
FilterOn(column) ==
  LET on == {i \in DOMAIN req.filters : req.filters[i].column = column}
  IN {req.filters[i] : i \in {first \in on : \A other \in on : first <= other}}

Typed(f, type) == \A i \in DOMAIN f.values : f.values[i].type = type
EqOf(column, type) == {f \in FilterOn(column) : f.op = "=" /\ Typed(f, type)}

\* Where bounds are gathered in a loop over the filters the last one stays.
LastOn(column, ops, type) ==
  LET on == {i \in DOMAIN req.filters :
               req.filters[i].column = column /\ req.filters[i].op \in ops /\ Typed(req.filters[i], type)}
  IN {req.filters[i] : i \in {last \in on : \A other \in on : other <= last}}
Ups == {">", ">=", "between"}
Downs == {"<", "<=", "between"}
Bound(f, op, v) == [f EXCEPT !.op = op, !.values = <<v>>]
From(f) == f.values[1]
To(f) == f.values[Len(f.values)]
Shift(value, by) == [value EXCEPT !.v = @ + by]

\* limit + offset as an int.
WrappedStop ==
  LET n == StopAt(req) IN IF n > MaxInt THEN n - 2 * (MaxInt + 1) ELSE n

\* All at once, in one page.
Everything == MaxInt

\* Rows in a page when the LIMIT is sent.
LimitedSize == Max({1, Min({PageSize, WrappedStop})})

\* The lists of the rows, in the order sent or in any order.
Listings(rows, order) ==
  {l \in [1..Cardinality(rows) -> rows] :
     /\ \A i, j \in DOMAIN l : i < j => l[i] # l[j]
     /\ \A i, j \in DOMAIN l : i < j => ~Before(order, SortKey(order, l[j]), SortKey(order, l[i]))}

(***************************************************************************)
(* Steps.                                                                   *)
(***************************************************************************)

Asked(filters, order, size, stop, keyset) ==
  [filters |-> filters, order |-> order, size |-> size, stop |-> stop, keyset |-> keyset, rest |-> <<>>]

\* A request goes out and the service lists what matches it.
List(ask) ==
  /\ asked' = ask
  /\ listing' \in Listings(Passing(ask.filters, held), ask.order)
  /\ pc' = "paging"
  /\ UNCHANGED <<req, held, standing>>

Ask(filters, order, size, stop, keyset) ==
  /\ List(Asked(filters, order, size, stop, keyset))
  /\ UNCHANGED <<place, result>>

\* A required filter is missing, a request fails, or emit does.
Fail ==
  /\ pc \in {"start", "paging"}
  /\ pc' = "failed"
  /\ UNCHANGED <<req, held, standing, asked, listing, place, result>>

Limits == asked.stop # Null
Satisfied(count) == Limits /\ count >= asked.stop

\* Mutant: a page that ends with the list counts as cut.
MayHaveMore(size) == next + size <= Len(listing)
HasMore(size) == next + size < Len(listing)

\* How far a service that hands out cursors lets a page reach: it may answer with
\* a cursor and no rows, though not twice in a row.
Reaches(size) == IF idle = 0 /\ HasMore(0) THEN {0, size} ELSE {size}

\* The places of the next page in the list.
PageOf(size) == {i \in 1..Len(listing) : next < i /\ i <= next + size}

\* Of the places kept on this page those filled before the scan is satisfied; the
\* loops that append row by row look at the count after each row.
Appended(kept) == {i \in kept : ~Satisfied(sent + Cardinality({j \in kept : j < i})) \/ \A j \in kept : i <= j}

\* page[:stopAt-sent]
Trimmed(kept) == {i \in kept : ~Satisfied(sent + Cardinality({j \in kept : j < i}))}

\* Mutant: the count starts again with every page.
EmitRecounted(places) ==
  /\ emitted' = emitted \cup {listing[i] : i \in places}
  /\ sent' = Cardinality(places)
Emit(places) ==
  /\ emitted' = emitted \cup {listing[i] : i \in places}
  /\ sent' = sent + Cardinality(places)

\* Mutant: the next page starts at the last row of this one.
TurnOverlapping(size, ended) ==
  /\ next' = next + (IF size > 1 THEN size - 1 ELSE size)
  /\ pages' = pages + 1
  /\ pc' = IF ended THEN "done" ELSE "paging"
  /\ UNCHANGED <<req, held, standing, asked, listing>>

\* One page was read; the scan goes on or is done.
Turn(size, ended) ==
  /\ next' = next + size
  /\ pages' = pages + 1
  /\ pc' = IF ended THEN "done" ELSE "paging"
  /\ UNCHANGED <<req, held, standing, asked, listing>>

\* The same with a warning if the cap on pages cut the list.
Advance(size, places, more, capped) ==
  /\ Emit(places)
  /\ warned' = (warned \/ (more /\ capped))
  /\ Turn(size, ~more \/ Satisfied(sent') \/ capped)

\* Without a LIMIT to stop at, only so many pages are read.
Capped == ~Limits /\ pages + 1 >= MaxPages

\* One answer, of as many rows as the service gives.
AnswerOf(size, places, warns) ==
  /\ Emit(places)
  /\ warned' = warns
  /\ Turn(size, TRUE)
  /\ UNCHANGED idle

\* One answer, of as many rows as were asked for.
Answer(places, warns) == AnswerOf(asked.size, places, warns)
==============================================================================
