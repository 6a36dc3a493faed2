------------------------------ MODULE CkanScan -------------------------------
(***************************************************************************)
(* The tables of the CKAN connector (source/ckan).  Datasets are searched in *)
(* pages at a position; resources come with their datasets, so an entry of   *)
(* that list is a dataset, which is no row if it has no resource; lists of   *)
(* organizations and groups come whole.  The column q holds the term that    *)
(* was searched for, so a row has it if the service finds the row by it.     *)
(***************************************************************************)
EXTENDS ConnectorScan

CONSTANT Holders  \* for a tag: the stored lists of tags that it is a member of

Here == req.schema = "datagov"

Searched == EqOf("q", "string")
Refused == \E f \in FilterOn("q") : f.op # "="

\* fq terms that select what SQL does.
Exact(f) ==
  /\ f.column \in {"organization", "license_id", "state", "name"}
  /\ f.op \in {"=", "in"} /\ Typed(f, "string")

\* Datasets with one of the tags, rather than with the very list.
Tagged(f) ==
  [f EXCEPT !.op = "in",
            !.values = [v \in UNION {Holders[f.values[i].v] : i \in DOMAIN f.values} |-> Text(v)]]

\* Bounds in whole seconds, inclusive at both ends.
Seconds(f) == [f EXCEPT !.op = CASE f.op = ">" -> ">=" [] f.op = "<" -> "<=" [] OTHER -> f.op]

Narrowed ==
  {Tagged(f) : f \in {g \in Filters : g.column = "tags" /\ g.op \in {"=", "in"} /\ Typed(g, "string")}}
  \cup {Seconds(f) : f \in {g \in Filters : /\ g.column \in {"metadata_created", "metadata_modified"}
                                            /\ g.op \in Ups \cup Downs /\ Typed(g, "string")}}

SortMapped == \A i \in DOMAIN req.order : req.order[i].column \in {"metadata_modified", "metadata_created", "title"}

\* Mutant: a list of tags is taken for honored.
ConsumedTags == \A f \in Filters : f.column \in {"q", "tags"} \/ Exact(f)
Consumed == \A f \in Filters : f.column = "q" \/ Exact(f)

ScanDatasets ==
  /\ pc = "start" /\ Here /\ req.table = "datasets" /\ ~Refused
  /\ LET pushes == req.limit # Null /\ SortMapped /\ Consumed
     IN Ask(Searched \cup {f \in Filters : Exact(f)} \cup Narrowed, IF SortMapped THEN req.order ELSE <<>>,
            IF pushes THEN Max({1, Min({MaxRows, WrappedStop})}) ELSE PageSize,
            IF pushes THEN WrappedStop ELSE Null, FALSE)

ScanResources ==
  /\ pc = "start" /\ Here /\ req.table = "resources" /\ ~Refused
  /\ Ask(Searched, <<>>, PageSize, Null, FALSE)

ScanList ==
  /\ pc = "start" /\ Here /\ req.table \in {"organizations", "groups"}
  /\ Ask({}, <<>>, Everything, Null, FALSE)

\* One turn of the loops of scanDatasets and scanResources.
Page ==
  /\ pc = "paging" /\ Here
  /\ Advance(asked.size, Appended({i \in PageOf(asked.size) : listing[i].is_row}), HasMore(asked.size), Capped)
  /\ UNCHANGED idle

Next == ScanDatasets \/ ScanResources \/ ScanList \/ Page
==============================================================================
