---------------------------- MODULE ScanContract ----------------------------
(***************************************************************************)
(* What the planner and the connectors rely on between them: the rows a     *)
(* connector may emit for a ScanRequest (source/source.go).                 *)
(*                                                                          *)
(* Filters, order and LIMIT are hints.  The engine loads whatever is        *)
(* emitted and SQLite evaluates the whole statement over it, so more rows   *)
(* than asked for never hurt, and a row that passes the filters may be left *)
(* out only if LIMIT and OFFSET were offered and as many other rows that    *)
(* pass, none of them behind it in the order asked for, were emitted.       *)
(***************************************************************************)
EXTENDS Integers, FiniteSets, Sequences

CONSTANT Null  \* SQL's NULL, and a nil Limit or Offset

\* NULL is lower than every value.
Lower(v, w) == w # Null /\ (v = Null \/ v < w)

\* Two keys by the terms of an ORDER BY.
Before(order, u, w) ==
  \E i \in (DOMAIN order) \cap (DOMAIN u) \cap (DOMAIN w) :
    /\ \A j \in 1..(i - 1) : u[j] = w[j]
    /\ IF order[i].desc THEN Lower(w[i], u[i]) ELSE Lower(u[i], w[i])

SortKey(order, row) == [i \in DOMAIN order |-> row[order[i].column]]

\* How many rows may be enough: the OFFSET is applied again locally.
StopAt(req) ==
  IF req.limit = Null THEN Null ELSE req.limit + (IF req.offset = Null THEN 0 ELSE req.offset)

\* `want` are the rows that pass the filters.
Serves(req, want, got) ==
  \A missed \in want \ got :
    /\ req.limit # Null
    /\ StopAt(req) <= Cardinality({row \in want \cap got :
                                     ~Before(req.order, SortKey(req.order, missed), SortKey(req.order, row))})
==============================================================================
