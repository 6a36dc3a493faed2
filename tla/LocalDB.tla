------------------------------- MODULE LocalDB -------------------------------
(***************************************************************************)
(* The per-request SQLite database (localdb/localdb.go) as the engine uses  *)
(* it: one call at a time, in one context, and after a call has failed only *)
(* the inserts of scans that have not noticed yet, and Close.               *)
(*                                                                          *)
(* SQLite and database/sql are external.  A statement fails for any reason  *)
(* of its own and then has no effect.  When the context is cancelled,       *)
(* database/sql rolls an open transaction back in a goroutine of its own    *)
(* (AwaitDone): Commit then refuses without waiting for it.                 *)
(***************************************************************************)
EXTENDS Integers, Sequences, FiniteSets

CONSTANTS
  Schema,         \* the schema names of the query
  Main,           \* the default schema, written "" or "main"
  Name,           \* table names
  Row,            \* rows, of which only the number of values matters
  Width,          \* how many values a row has
  Chunk,          \* the rows of one insert: sequences of rows
  ColCount,       \* how many columns an insert may name
  maxBindParams,  \* cap on the parameters of one statement
  MaxRows         \* bound: rows one table may get

ASSUME SchemaAssumption == Main \in Schema /\ IsFiniteSet(Schema)

\* Every table the engine creates has a column, and every chunk names one.
ASSUME ChunkAssumption ==
  /\ Chunk \subseteq Seq(Row)
  /\ Width \in [Row -> Nat]
  /\ ColCount \subseteq Nat \ {0}
  /\ maxBindParams \in Nat \ {0}
  /\ MaxRows \in Nat

Table == [schema : Schema, name : Name]
MainFile == -1

InsertCall == [op : {"insert"}, table : Table, cols : ColCount, rows : Chunk]
QueryCall == [op : {"query"}, table : Table]
NoCall == [op |-> "none"]

VARIABLES
  pc,         \* where the caller is: in Open, between two calls, in Insert, ...
  dir,        \* the temp directory exists
  deletable,  \* the file system lets go of it
  pool,       \* the sql.DB is open
  conn,       \* its only connection is pinned
  ctxDone,    \* the context of the calls was cancelled
  failed,     \* a call has returned an error
  attached,   \* the schemas in the map of DB
  catalog,    \* the schemas of the connection, each with the number of its file
  content,    \* the committed rows by file and table name
  tx,         \* "none", "open", or "aborted": rolled back behind Insert's back
  pending,    \* what the open transaction has inserted
  start,      \* the loop variable of Insert
  call,       \* the insert or query that runs
  out,        \* the rows Query has scanned so far
  answer,     \* what the last successful Query returned
  result,     \* of the last call: "none" while it runs, "ok" or "error"
  closeErr    \* an error Close has met

handleVars == <<dir, deletable, pool, conn>>
txVars == <<tx, pending, start>>
queryVars == <<out, answer>>
vars == <<pc, handleVars, ctxDone, failed, attached, catalog, content, txVars,
          call, queryVars, result, closeErr>>

Init ==
  /\ pc = "mkdir"
  /\ deletable \in BOOLEAN
  /\ dir = FALSE /\ pool = FALSE /\ conn = FALSE
  /\ ctxDone = FALSE /\ failed = FALSE
  /\ attached = {}
  /\ catalog = [s \in {Main} |-> MainFile]
  /\ content = [k \in {} |-> <<>>]
  /\ tx = "none" /\ pending = <<>> /\ start = 0
  /\ call = NoCall
  /\ out = <<>> /\ answer = <<>>
  /\ result = "none" /\ closeErr = FALSE

\* The function f, extended to map k to v.
With(f, k, v) == [x \in DOMAIN f \cup {k} |-> IF x = k THEN v ELSE f[x]]

Ok == result' = "ok" /\ UNCHANGED failed
Error == result' = "error" /\ failed' = TRUE

-----------------------------------------------------------------------------
(* Open: four steps, each undoing the ones before it when it fails.         *)

Go(from, to) == pc = from /\ pc' = to

RemoveAll == dir' = (dir /\ ~deletable)

afterOpen == <<attached, catalog, content, txVars, call, queryVars, closeErr>>

MkdirTemp ==
  /\ pc = "mkdir"
  /\ \/ dir' = TRUE /\ pc' = "pool" /\ UNCHANGED <<result, failed>>
     \/ pc' = "closed" /\ Error /\ UNCHANGED dir
  /\ UNCHANGED <<deletable, pool, conn, ctxDone, afterOpen>>

OpenPool ==
  /\ pc = "pool"
  /\ \/ pool' = TRUE /\ pc' = "pin" /\ UNCHANGED <<dir, result, failed>>
     \/ RemoveAll /\ pc' = "closed" /\ Error /\ UNCHANGED pool
  /\ UNCHANGED <<deletable, conn, ctxDone, afterOpen>>

PinConn ==
  /\ pc = "pin"
  /\ \/ conn' = TRUE /\ pc' = "ping" /\ UNCHANGED <<dir, pool, result, failed>>
     \/ pool' = FALSE /\ RemoveAll /\ pc' = "closed" /\ Error /\ UNCHANGED conn
  /\ UNCHANGED <<deletable, ctxDone, afterOpen>>

Ping ==
  /\ pc = "ping"
  /\ \/ pc' = "idle" /\ Ok /\ UNCHANGED <<dir, pool, conn>>
     \/ conn' = FALSE /\ pool' = FALSE /\ RemoveAll /\ pc' = "closed" /\ Error
  /\ UNCHANGED <<deletable, ctxDone, afterOpen>>

-----------------------------------------------------------------------------
(* Attach and CreateTable: at most one statement each.                      *)

\* A call that is made only while all went well.
Ready == pc = "idle" /\ ~failed

Attached(s) == s = Main \/ s \in attached

\* Mutant: every schema gets the same file.
FixedIndex == 0

FileIndex == Cardinality(attached)

Attach(s) ==
  /\ Ready
  /\ \/ Attached(s) /\ Ok /\ UNCHANGED <<attached, catalog>>
     \/ /\ ~Attached(s)
        /\ \/ /\ s \notin DOMAIN catalog
              /\ catalog' = With(catalog, s, FileIndex)
              /\ attached' = attached \cup {s}
              /\ Ok
           \/ Error /\ UNCHANGED <<attached, catalog>>
  /\ UNCHANGED <<pc, handleVars, ctxDone, content, txVars, call, queryVars, closeErr>>

\* The place a qualified table name stands for on the connection.
Known(t) == t.schema \in DOMAIN catalog
Place(t) == <<catalog[t.schema], t.name>>
Exists(t) == Known(t) /\ Place(t) \in DOMAIN content

CreateTable(t) ==
  /\ Ready
  /\ \/ /\ Known(t) /\ ~Exists(t)
        /\ content' = With(content, Place(t), <<>>)
        /\ Ok
     \/ Error /\ UNCHANGED content
  /\ UNCHANGED <<pc, handleVars, ctxDone, attached, catalog, txVars, call, queryVars,
                 closeErr>>

-----------------------------------------------------------------------------
(* Insert: batches of one transaction.                                      *)

outsideInsert == <<handleVars, ctxDone, attached, catalog, queryVars, closeErr>>

WrongWidth(c) == \E i \in 1..Len(c.rows) : Width[c.rows[i]] # c.cols

HasRoom(c) == Exists(c.table) => Len(content[Place(c.table)]) + Len(c.rows) <= MaxRows

\* Insert is entered; it returns at once without rows or with a row of another width.
InsertBegin(c) ==
  /\ pc = "idle"
  /\ HasRoom(c)
  /\ \/ c.rows = <<>> /\ Ok /\ UNCHANGED <<pc, call>>
     \/ c.rows # <<>> /\ WrongWidth(c) /\ Error /\ UNCHANGED <<pc, call>>
     \/ /\ c.rows # <<>> /\ ~WrongWidth(c)
        /\ call' = c /\ result' = "none" /\ pc' = "begin"
        /\ UNCHANGED failed
  /\ UNCHANGED <<outsideInsert, content, txVars>>

LeaveInsert == pc' = "idle" /\ call' = NoCall /\ start' = 0

\* SQLite nests no transactions.
BeginTx ==
  /\ pc = "begin"
  /\ \/ /\ tx = "none"
        /\ tx' = "open" /\ pending' = <<>> /\ start' = 0
        /\ pc' = "loop"
        /\ UNCHANGED <<call, result, failed>>
     \/ LeaveInsert /\ Error /\ UNCHANGED <<tx, pending>>
  /\ UNCHANGED <<outsideInsert, content>>

\* Mutant: no lower limit for a row that is too wide by itself.
FitOnly == maxBindParams \div call.cols

BatchRows ==
  LET fit == maxBindParams \div call.cols
  IN  IF fit < 1 THEN 1 ELSE fit

End == IF start + BatchRows < Len(call.rows) THEN start + BatchRows ELSE Len(call.rows)
Batch == SubSeq(call.rows, start + 1, End)
Looping == pc = "loop" /\ start < Len(call.rows)

\* A transaction whose context is done takes no more statements.
Usable == tx = "open" /\ ~ctxDone

ExecBatch ==
  /\ Looping
  /\ Usable /\ Exists(call.table)
  /\ pending' = pending \o Batch
  /\ start' = start + BatchRows
  /\ UNCHANGED <<outsideInsert, pc, content, tx, call, result, failed>>

Rollback == tx' = "none" /\ pending' = <<>>

\* Mutant: the error is returned and the transaction forgotten.
BatchFailsOpen ==
  /\ Looping
  /\ LeaveInsert /\ Error
  /\ UNCHANGED <<outsideInsert, content, tx, pending>>

BatchFails ==
  /\ Looping
  /\ Rollback
  /\ LeaveInsert /\ Error
  /\ UNCHANGED <<outsideInsert, content>>

Commit ==
  /\ pc = "loop" /\ ~Looping
  /\ Usable
  /\ content' = [content EXCEPT ![Place(call.table)] = @ \o pending]
  /\ tx' = "none" /\ pending' = <<>>
  /\ LeaveInsert /\ Ok
  /\ UNCHANGED outsideInsert

\* SQLite fails to commit, and the driver rolls back; or the context is done,
\* and the transaction is left to AwaitDone.
CommitFails ==
  /\ pc = "loop" /\ ~Looping
  /\ \/ tx' = "none" /\ pending' = <<>>
     \/ ctxDone /\ tx = "open" /\ UNCHANGED <<tx, pending>>
  /\ LeaveInsert /\ Error
  /\ UNCHANGED <<outsideInsert, content>>

-----------------------------------------------------------------------------
(* Query: rows are read one by one.                                         *)

outsideQuery == <<handleVars, ctxDone, attached, catalog, content, txVars, closeErr>>

QueryBegin(c) ==
  /\ Ready
  /\ \/ /\ Exists(c.table)
        /\ call' = c /\ out' = <<>> /\ pc' = "iterate" /\ result' = "none"
        /\ UNCHANGED failed
     \/ Error /\ UNCHANGED <<pc, call, out>>
  /\ UNCHANGED <<outsideQuery, answer>>

Rest == Len(content[Place(call.table)]) - Len(out)

NextRow ==
  /\ pc = "iterate" /\ Rest > 0
  /\ out' = Append(out, content[Place(call.table)][Len(out) + 1])
  /\ UNCHANGED <<outsideQuery, pc, call, answer, result, failed>>

LeaveQuery == pc' = "idle" /\ call' = NoCall /\ out' = <<>>

\* Mutant: the end of the iteration is taken for the end of the rows.
QueryTrustsNext ==
  /\ pc = "iterate"
  /\ answer' = out
  /\ LeaveQuery /\ Ok
  /\ UNCHANGED outsideQuery

\* rows.Next reports the end of the rows and an error alike; rows.Err tells.
QueryReturns ==
  /\ pc = "iterate" /\ Rest = 0
  /\ answer' = out
  /\ LeaveQuery /\ Ok
  /\ UNCHANGED outsideQuery

QueryFails ==
  /\ pc = "iterate"
  /\ LeaveQuery /\ Error
  /\ UNCHANGED <<outsideQuery, answer>>

-----------------------------------------------------------------------------
(* Close goes on after an error and returns the first one.                  *)

dataVars == <<deletable, ctxDone, attached, catalog, content, txVars, call, queryVars>>

CloseBegin ==
  /\ Go("idle", "closeConn")
  /\ UNCHANGED <<dataVars, dir, pool, conn, result, failed, closeErr>>

\* Mutant: Close stops at the first error.
CloseConnStops ==
  /\ pc = "closeConn" /\ tx = "none"
  /\ conn' = FALSE
  /\ \/ pc' = "closePool" /\ UNCHANGED <<result, failed, closeErr>>
     \/ pc' = "closed" /\ closeErr' = TRUE /\ Error
  /\ UNCHANGED <<dataVars, dir, pool>>

\* A connection is not released before its transaction has ended.
CloseConn ==
  /\ Go("closeConn", "closePool")
  /\ tx = "none"
  /\ conn' = FALSE
  /\ closeErr' \in {closeErr, TRUE}
  /\ UNCHANGED <<dataVars, dir, pool, result, failed>>

ClosePool ==
  /\ Go("closePool", "rmdir")
  /\ pool' = FALSE
  /\ closeErr' \in {closeErr, TRUE}
  /\ UNCHANGED <<dataVars, dir, conn, result, failed>>

RemoveDir ==
  /\ Go("rmdir", "closed")
  /\ RemoveAll
  /\ closeErr' = (closeErr \/ ~deletable)
  /\ IF closeErr' THEN Error ELSE Ok
  /\ UNCHANGED <<dataVars, pool, conn>>

-----------------------------------------------------------------------------
(* The context, and database/sql's goroutine that waits for its end.        *)

Cancel ==
  /\ ~ctxDone
  /\ ctxDone' = TRUE
  /\ UNCHANGED <<pc, handleVars, failed, attached, catalog, content, txVars, call,
                 queryVars, result, closeErr>>

AwaitDone ==
  /\ ctxDone /\ tx = "open"
  /\ tx' = IF pc = "loop" THEN "aborted" ELSE "none"
  /\ pending' = <<>>
  /\ UNCHANGED <<pc, handleVars, ctxDone, failed, attached, catalog, content, start, call,
                 queryVars, result, closeErr>>

-----------------------------------------------------------------------------
Opening == MkdirTemp \/ OpenPool \/ PinConn \/ Ping
Inserting == BeginTx \/ ExecBatch \/ BatchFails \/ Commit \/ CommitFails
Querying == NextRow \/ QueryReturns \/ QueryFails
Closing == CloseConn \/ ClosePool \/ RemoveDir

Next ==
  \/ Opening \/ Inserting \/ Querying \/ Closing
  \/ CloseBegin \/ Cancel \/ AwaitDone
  \/ \E s \in Schema : Attach(s)
  \/ \E t \in Table : CreateTable(t)
  \/ \E c \in InsertCall : InsertBegin(c)
  \/ \E c \in QueryCall : QueryBegin(c)

\* Code that runs goes on, and so does database/sql's goroutine.
Spec == Init /\ [][Next]_vars /\ WF_vars(Closing) /\ WF_vars(AwaitDone)

-----------------------------------------------------------------------------
TypeOK ==
  /\ pc \in {"mkdir", "pool", "pin", "ping", "idle", "begin", "loop", "iterate",
             "closeConn", "closePool", "rmdir", "closed"}
  /\ dir \in BOOLEAN /\ deletable \in BOOLEAN /\ pool \in BOOLEAN /\ conn \in BOOLEAN
  /\ ctxDone \in BOOLEAN /\ failed \in BOOLEAN /\ closeErr \in BOOLEAN
  /\ attached \subseteq Schema
  /\ DOMAIN catalog \subseteq Schema /\ catalog \in [DOMAIN catalog -> Int]
  /\ DOMAIN content \subseteq Int \X Name /\ content \in [DOMAIN content -> Seq(Row)]
  /\ tx \in {"none", "open", "aborted"}
  /\ pending \in Seq(Row) /\ start \in Nat
  /\ call \in InsertCall \cup QueryCall \cup {NoCall}
  /\ out \in Seq(Row) /\ answer \in Seq(Row)
  /\ result \in {"none", "ok", "error"}

\* Connection and pool live from their step of Open to their step of Close.
HandlesInStep ==
  /\ conn <=> pc \in {"ping", "idle", "begin", "loop", "iterate", "closeConn"}
  /\ pool <=> pc \notin {"mkdir", "pool", "rmdir", "closed"}
  /\ pc = "mkdir" => ~dir

\* The map of DB and the connection agree about what is attached, and schema
\* names stand for files of their own: indexes come from a map that only grows, so
\* a schema that is attached finds its file empty.
FilesApart ==
  /\ DOMAIN catalog = attached \cup {Main} /\ Main \notin attached
  /\ catalog[Main] = MainFile
  /\ \A s \in attached : catalog[s] \in 0..(Cardinality(attached) - 1)
  /\ \A s, u \in DOMAIN catalog : catalog[s] = catalog[u] => s = u
  /\ \A k \in DOMAIN content : \E s \in DOMAIN catalog : k[1] = catalog[s]

\* While the batches run, the transaction holds the first rows of the chunk and
\* nothing else; when Insert has returned it has ended, unless Commit refused and
\* left it to AwaitDone, and then the run has failed and queries nothing.
TxHoldsPrefix ==
  /\ pc \notin {"begin", "loop", "iterate"} => call = NoCall
  /\ pc \in {"begin", "loop"} => call \in InsertCall /\ call.rows # <<>> /\ result = "none"
  /\ pc = "loop" => tx \in {"open", "aborted"}
  /\ pc # "loop" /\ tx = "open" => ctxDone /\ failed
  /\ tx = "aborted" => pc = "loop"
  /\ pc = "loop" /\ tx = "open" =>
       /\ pending = SubSeq(call.rows, 1, IF start < Len(call.rows) THEN start ELSE Len(call.rows))
       /\ start > 0 => Exists(call.table)

\* Query has scanned the first rows of its table.
QueryHoldsPrefix ==
  pc = "iterate" =>
    /\ call \in QueryCall /\ result = "none" /\ tx = "none"
    /\ Exists(call.table)
    /\ Len(out) <= Len(content[Place(call.table)])
    /\ out = SubSeq(content[Place(call.table)], 1, Len(out))

\* The inductive invariant behind ImplementsStore: calls, transaction, map,
\* connection and files agree at every step of Open, Insert and Query.
IInv ==
  /\ TypeOK
  /\ HandlesInStep
  /\ FilesApart
  /\ TxHoldsPrefix
  /\ QueryHoldsPrefix

\* An Insert never asks SQLite for a statement without a row or, unless a single
\* row does already, for one with more parameters than the cap.
StatementsFit ==
  Looping => LET n == Len(Batch)
             IN  n >= 1 /\ (n * call.cols <= maxBindParams \/ n = 1)

\* When Open has failed or Close has returned, no connection, pool or directory is
\* left, except a directory the file system would not delete, and Close says so.
NothingLeft ==
  pc = "closed" => ~conn /\ ~pool /\ (dir => ~deletable /\ result = "error")

\* Close always returns: every transaction that can be open when it is called ends.
CloseReturns == pc = "closeConn" ~> pc = "closed"

\* Whole chunks in, whole tables out: what the files hold under the place of each
\* name, read through the connection, is a TableStore.
Stored ==
  [t \in {u \in Table : Exists(u)} |-> content[Place(t)]]

Store == INSTANCE TableStore WITH
  Call <- InsertCall \cup QueryCall,
  store <- Stored

ImplementsStore == Store!Spec
===============================================================================
