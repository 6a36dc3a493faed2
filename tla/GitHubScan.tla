----------------------------- MODULE GitHubScan -----------------------------
(***************************************************************************)
(* The tables of the GitHub connector (source/github).  A scan sends the    *)
(* equalities its endpoint has parameters for and follows rel="next" links. *)
(* The issues endpoint lists pull requests too: entries that are no rows.    *)
(***************************************************************************)
EXTENDS ConnectorScan

\* path: filters that must be there, parts of the URL; text, int: equalities sent
\* if there; from: where the list starts; sorts: columns of the sort parameter;
\* consumed: columns whose equalities count as honored.
Endpoint == [path |-> {"owner", "repo"}, text |-> {}, int |-> {}, from |-> {}, sorts |-> {},
             consumed |-> {"owner", "repo"}]

Issues == [Endpoint EXCEPT !.text = {"state"}, !.sorts = {"created_at", "updated_at", "comments"},
                           !.consumed = @ \cup {"state"}]
Pulls == [Endpoint EXCEPT !.text = {"state"}, !.sorts = {"created_at", "updated_at"},
                          !.consumed = @ \cup {"state"}]
Repos == [Endpoint EXCEPT !.path = {"owner"}, !.consumed = {"owner", "name", "repo"},
            !.sorts = {"created_at", "updated_at", "pushed_at", "full_name", "name"}]
Commits == [Endpoint EXCEPT !.text = {"path", "author_login"}, !.from = {"sha"},
                            !.consumed = @ \cup {"path", "author_login"}]
Releases == Endpoint
WorkflowRuns ==
  LET sending == {"head_branch", "event", "status", "actor_login", "head_sha"}
  IN [Endpoint EXCEPT !.text = sending, !.consumed = @ \cup sending]
Artifacts == [Endpoint EXCEPT !.text = {"name"}, !.int = {"workflow_run_id"},
                              !.consumed = @ \cup {"name", "workflow_run_id"}]

GitHub == [issues |-> Issues, pulls |-> Pulls, repos |-> Repos, commits |-> Commits,
           releases |-> Releases, workflow_runs |-> WorkflowRuns, artifacts |-> Artifacts]
Here == req.schema = "github"
Table == GitHub[req.table]

Required == \A c \in Table.path : EqOf(c, "string") # {}
Sent == (UNION {EqOf(c, "string") : c \in Table.path \cup Table.text})
        \cup (UNION {EqOf(c, "int64") : c \in Table.int})
        \cup (UNION {{[f EXCEPT !.op = "<="] : f \in EqOf(c, "string")} : c \in Table.from})

SortMapped == req.order # <<>> /\ req.order[1].column \in Table.sorts
\* Mutant: a LIMIT rides on the first of several ORDER BY terms.
FirstTermHonored == req.order = <<>> \/ SortMapped
OrderHonored == req.order = <<>> \/ (Len(req.order) = 1 /\ SortMapped)

\* Mutant: filters that are no equality count as honored.
ConsumedAllColumns == \A f \in Filters : f.column \in Table.consumed
ConsumedAll == \A f \in Filters : f.op = "=" /\ f.column \in Table.consumed
LimitSafe == OrderHonored /\ ConsumedAll

\* Whether the LIMIT rides on the request; pages of issues stay full.
Pushes == req.limit # Null /\ LimitSafe
PerPage == IF Pushes /\ req.table # "issues" THEN LimitedSize ELSE PageSize

\* A repository by its name: one request, which fails if there is none.
Named == IF req.table # "repos" THEN {}
         ELSE IF EqOf("name", "string") # {} THEN EqOf("name", "string") ELSE EqOf("repo", "string")

GetRepo ==
  /\ pc = "start" /\ Here /\ Required /\ Named # {}
  /\ LET found == Passing(Sent \cup Named, held)
     IN IF found = {} THEN pc' = "failed" /\ UNCHANGED result
        ELSE /\ pc' = "done" /\ emitted' = found /\ sent' = Cardinality(found)
             /\ UNCHANGED warned
  /\ UNCHANGED <<req, held, standing, asked, listing, place>>

Start ==
  /\ pc = "start" /\ Here /\ Required /\ Named = {}
  /\ Ask(Sent, IF SortMapped THEN <<req.order[1]>> ELSE <<>>, PerPage,
         IF Pushes THEN WrappedStop ELSE Null, FALSE)

\* One turn of the loop of a scan function.
Page ==
  /\ pc = "paging" /\ Here
  /\ LET kept == {i \in PageOf(asked.size) : listing[i].is_row}
         gaveUp == Limits /\ idle' >= MaxPages
     IN /\ idle' = IF req.table = "issues" /\ kept = {} THEN idle + 1 ELSE 0
        /\ Advance(asked.size, Appended(kept), HasMore(asked.size), Capped \/ gaveUp)

Next == GetRepo \/ Start \/ Page
==============================================================================
