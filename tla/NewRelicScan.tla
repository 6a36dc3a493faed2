---------------------------- MODULE NewRelicScan -----------------------------
(***************************************************************************)
(* The tables of the New Relic connector (source/newrelic).  The curated    *)
(* tables come in pages behind a cursor; an event type is one NRQL query    *)
(* over a window of time, whose every clause is exact.                      *)
(***************************************************************************)
EXTENDS ConnectorScan

CONSTANTS
  HardCap,     \* the largest LIMIT of NRQL
  BoolColumns  \* event attributes that are booleans

Here == req.schema = "newrelic"

(***************************************************************************)
(* Curated tables.  Searches narrow, and their idea of equality is not      *)
(* SQLite's; only a policy_id that was sent is honored.                     *)
(***************************************************************************)
Searchable == [accounts |-> {}, entities |-> {"name", "domain", "type", "guid"}, alert_policies |-> {},
               alert_conditions |-> {"policy_id"}, issues |-> {}, incidents |-> {}]
Curated == Here /\ req.table \in DOMAIN Searchable

Criteria == UNION {EqOf(c, "string") : c \in Searchable[req.table]}

\* Mutant: a policy_id counts as honored whether it was sent or not.
PolicyConsumed == {f.column : f \in FilterOn("policy_id")}
Consumed == IF req.table = "alert_conditions" THEN {f.column : f \in Criteria} ELSE {}

LimitSafe == req.order = <<>> /\ \A f \in Filters : f.op = "=" /\ f.column \in Consumed

ScanCurated ==
  /\ pc = "start" /\ Curated
  /\ LET pushes == req.table # "accounts" /\ req.limit # Null /\ LimitSafe
     IN Ask(Criteria, <<>>, IF req.table = "accounts" THEN Everything ELSE PageSize,
            IF pushes THEN WrappedStop ELSE Null, TRUE)

\* One turn of cursorPages; the cap holds under a LIMIT, too.
Page ==
  /\ pc = "paging" /\ Curated
  /\ \E size \in Reaches(asked.size) :
       /\ Advance(size, Trimmed(PageOf(size)), size = 0 \/ HasMore(size),
                  pages = MaxPages - 1 /\ ~Satisfied(sent'))
       /\ idle' = IF size = 0 THEN 1 ELSE 0

(***************************************************************************)
(* Event types.                                                             *)
(***************************************************************************)
IsNumber(value) == value.type = "int64"
IsValue(column, value) ==
  IF column \in BoolColumns THEN value.type = "bool" \/ (IsNumber(value) /\ value.v \in {0, 1})
                            ELSE value.type \in {"string", "int64"}

Translated(f) ==
  \/ f.op \in {"=", "<>", "in", "notin"} /\ \A i \in DOMAIN f.values : IsValue(f.column, f.values[i])
  \/ f.op \in {"<", "<=", ">", ">=", "between"} /\ \A i \in DOMAIN f.values : IsNumber(f.values[i])

\* The ends of the window that the filters on timestamp give.
OnTime(ops) == {f \in Filters : f.column = "timestamp" /\ f.op \in ops}
Ends(ops, i) == {f.values[i].v : f \in {g \in OnTime(ops) : IsNumber(g.values[i])}}
Listed == {{f.values[i].v : i \in DOMAIN f.values} :
             f \in {g \in OnTime({"in"}) : \A i \in DOMAIN g.values : IsNumber(g.values[i])}}

Lowers == Ends({">", ">=", "=", "between"}, 1) \cup {Min(vs) : vs \in Listed}
Uppers == Ends({"<", "<=", "="}, 1) \cup Ends({"between"}, 2) \cup {Max(vs) : vs \in Listed}

\* Mutant: a window that only has an end starts where one without an end does.
SinceFromNow == IF Lowers # {} THEN Max(Lowers) - 1 ELSE Now - Window
Since == IF Lowers # {} THEN Max(Lowers) - 1
         ELSE IF Uppers # {} THEN Min(Uppers) + 1 - Window ELSE Now - Window
Until == IF Uppers = {} THEN {} ELSE {Min(Uppers) + 1}
Windowed == Lowers = {}

At(op, v) == [column |-> "timestamp", op |-> op, values |-> <<Number(v)>>]
Clauses == {f \in Filters : Translated(f)} \cup {At(">=", Since)} \cup {At("<=", v) : v \in Until}

OrderHonored == req.order = <<>> \/ (Len(req.order) = 1 /\ req.order[1].column = "timestamp")
PushedLimit ==
  /\ req.limit # Null /\ WrappedStop <= HardCap
  /\ \A f \in Filters : Translated(f)
  /\ OrderHonored

\* NRQL refuses a negative LIMIT.
ScanNRDB ==
  /\ pc = "start" /\ Here /\ ~Curated /\ (PushedLimit => WrappedStop >= 0)
  /\ Ask(Clauses, IF OrderHonored THEN req.order ELSE <<>>,
         IF PushedLimit THEN WrappedStop ELSE MaxRows,
         IF PushedLimit THEN WrappedStop ELSE Null, TRUE)

Results ==
  /\ pc = "paging" /\ Here /\ ~Curated
  /\ Answer(PageOf(asked.size), (~Limits /\ Len(listing) >= MaxRows) \/ Windowed)

Next == ScanCurated \/ Page \/ ScanNRDB \/ Results
==============================================================================
