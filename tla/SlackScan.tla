------------------------------ MODULE SlackScan ------------------------------
(***************************************************************************)
(* The tables of the Slack connector (source/slack).  Channels, users and    *)
(* messages come in pages behind a cursor, messages newest first; search     *)
(* results in numbered pages, most relevant first.                           *)
(***************************************************************************)
EXTENDS ConnectorScan

Here == req.schema = "slack"
On(table) == Here /\ req.table = table

\* asString: anything else sets no bound.
Stamp(value) == value.type \in {"string", "int64", "float64"}

\* The last filter that bounds ts at this end.
LastBound(ops) ==
  LET on == {i \in DOMAIN req.filters : req.filters[i].column = "ts" /\ req.filters[i].op \in ops}
  IN {req.filters[i] : i \in {last \in on : \A other \in on : other <= last}}
Oldest == {Bound(f, ">=", From(f)) : f \in {g \in LastBound(Ups) : Stamp(From(g))}}
Latest == {Bound(f, "<=", To(f)) : f \in {g \in LastBound(Downs) : Stamp(To(g))}}

\* Mutant: exclusive bounds, which Slack takes for inclusive, count as honored.
AnyBoundSafe ==
  /\ \A f \in Filters : \/ f.column = "channel" /\ f.op = "="
                        \/ f.column = "ts" /\ f.op \in {">", ">=", "<", "<=", "between"}
  /\ req.order \in {<<>>, <<[column |-> "ts", desc |-> TRUE]>>}
MessagesLimitSafe ==
  /\ \A f \in Filters : \/ f.column = "channel" /\ f.op = "="
                        \/ f.column = "ts" /\ f.op \in {">=", "<=", "between"}
  /\ req.order \in {<<>>, <<[column |-> "ts", desc |-> TRUE]>>}

SearchLimitSafe == req.order = <<>> /\ \A f \in Filters : f.column = "query" /\ f.op = "="

\* Channels and users: no filter is honored exactly.
LimitSafe == req.order = <<>> /\ req.filters = <<>>

ScanWith(filters, order, safe, keyset) ==
  LET pushes == req.limit # Null /\ safe
  IN Ask(filters, order, IF pushes THEN LimitedSize ELSE PageSize,
         IF pushes THEN WrappedStop ELSE Null, keyset)

ScanChannels ==
  /\ pc = "start" /\ On("channels")
  /\ ScanWith({f \in EqOf("is_archived", "int64") : f.values[1].v = 0}, <<>>, LimitSafe, TRUE)

ScanUsers ==
  /\ pc = "start" /\ On("users")
  /\ ScanWith({}, <<>>, LimitSafe, TRUE)

ScanMessages ==
  /\ pc = "start" /\ On("messages") /\ EqOf("channel", "string") # {}
  /\ ScanWith(EqOf("channel", "string") \cup Oldest \cup Latest,
              <<[column |-> "ts", desc |-> TRUE]>>, MessagesLimitSafe, TRUE)

ScanSearch ==
  /\ pc = "start" /\ On("search") /\ EqOf("query", "string") # {}
  /\ ScanWith(EqOf("query", "string"), <<>>, SearchLimitSafe, FALSE)

\* Mutant: a page is emitted whole.
Untrimmed(kept) == kept
Kept(places) == Trimmed(places)

\* One turn of cursorPages.
Page ==
  /\ pc = "paging" /\ Here /\ asked.keyset
  /\ \E size \in Reaches(asked.size) :
       /\ Advance(size, Kept(PageOf(size)), size = 0 \/ HasMore(size), Capped)
       /\ idle' = IF size = 0 THEN 1 ELSE 0

\* One turn of the loop of scanSearch.
PageOfSearch ==
  /\ pc = "paging" /\ On("search")
  /\ Advance(asked.size, Appended(PageOf(asked.size)), HasMore(asked.size), Capped)
  /\ UNCHANGED idle

Next == ScanChannels \/ ScanUsers \/ ScanMessages \/ ScanSearch \/ Page \/ PageOfSearch
==============================================================================
