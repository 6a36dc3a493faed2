---------------------------- MODULE LocalDBProofs ----------------------------
(***************************************************************************)
(* Proofs about LocalDB, for any schemas, tables, chunks and caps.          *)
(***************************************************************************)
EXTENDS LocalDB, FiniteSetTheorems, SequenceTheorems, TLAPS

USE SchemaAssumption, ChunkAssumption

\* The calls between which the caller is idle, one action each.
Setup == (\E s \in Schema : Attach(s)) \/ (\E t \in Table : CreateTable(t))
Entering == (\E c \in InsertCall : InsertBegin(c)) \/ (\E c \in QueryCall : QueryBegin(c))
Context == Cancel \/ AwaitDone

LEMMA NextCases ==
  ASSUME [Next]_vars
  PROVE  Opening \/ Setup \/ Entering \/ Inserting \/ Querying \/ CloseBegin \/ Closing
         \/ Context \/ UNCHANGED vars
BY DEF Next, Setup, Entering, Context

-----------------------------------------------------------------------------
(* Helpers.                                                                 *)

LEMMA WithIsFunction ==
  ASSUME NEW f, NEW k, NEW v
  PROVE  /\ DOMAIN With(f, k, v) = DOMAIN f \cup {k}
         /\ With(f, k, v)[k] = v
         /\ \A x \in DOMAIN f : x # k => With(f, k, v)[x] = f[x]
BY DEF With

LEMMA WithType ==
  ASSUME NEW S, NEW D, NEW f, f \in [DOMAIN f -> S], DOMAIN f \subseteq D,
         NEW k \in D, NEW v \in S
  PROVE  /\ DOMAIN With(f, k, v) \subseteq D
         /\ With(f, k, v) \in [DOMAIN With(f, k, v) -> S]
BY DEF With

LEMMA BatchRowsPositive ==
  ASSUME call \in InsertCall
  PROVE  /\ BatchRows \in Nat /\ BatchRows >= 1
         /\ BatchRows * call.cols <= maxBindParams \/ BatchRows = 1
<1>1. call.cols \in Nat \ {0} BY DEF InsertCall
<1>2. \A a \in Nat, b \in Nat \ {0} : a \div b \in Nat /\ (a \div b) * b <= a BY SMT
<1>3. PICK n \in Nat : n = maxBindParams \div call.cols /\ n * call.cols <= maxBindParams
  BY <1>1, <1>2
<1>4. BatchRows = IF n < 1 THEN 1 ELSE n BY <1>3 DEF BatchRows
<1>5. CASE n < 1 BY <1>4, <1>5
<1>6. CASE ~(n < 1) BY <1>3, <1>4, <1>6
<1> QED BY <1>5, <1>6

LEMMA Rows ==
  ASSUME call \in InsertCall, start \in Nat
  PROVE  /\ call.rows \in Seq(Row) /\ Len(call.rows) \in Nat /\ call.table \in Table
         /\ End \in Nat /\ End <= Len(call.rows)
         /\ start < Len(call.rows) => End > start
         /\ start < Len(call.rows) =>
              /\ Batch \in Seq(Row)
              /\ Len(Batch) = End - start
              /\ SubSeq(call.rows, 1, start) \o Batch = SubSeq(call.rows, 1, End)
<1>1. call.rows \in Seq(Row) /\ call.table \in Table BY DEF InsertCall
<1>2. Len(call.rows) \in Nat BY <1>1
<1>3. End \in Nat /\ End <= Len(call.rows) /\ (start < Len(call.rows) => End > start)
  BY <1>2, BatchRowsPositive DEF End
<1>4. ASSUME start < Len(call.rows)
      PROVE  /\ Batch \in Seq(Row) /\ Len(Batch) = End - start
             /\ SubSeq(call.rows, 1, start) \o Batch = SubSeq(call.rows, 1, End)
  <2>1. \A i \in (start + 1)..End : call.rows[i] \in Row
    BY <1>1, <1>2, <1>3, ElementOfSeq
  <2>2. Batch \in Seq(Row) /\ Len(Batch) = End - start
    BY <1>2, <1>3, <1>4, <2>1, SubSeqProperties DEF Batch
  <2>3. SubSeq(call.rows, 1, start) \o SubSeq(call.rows, start + 1, End) = SubSeq(call.rows, 1, End)
    <3>1. /\ 1 \in 1 .. Len(call.rows) + 1 /\ start \in 1 - 1 .. Len(call.rows)
          /\ End \in start .. Len(call.rows)
      BY <1>2, <1>3, <1>4
    <3> QED BY <1>1, <3>1, ConcatAdjacentSubSeq
  <2> QED BY <2>2, <2>3 DEF Batch
<1> QED BY <1>1, <1>2, <1>3, <1>4

-----------------------------------------------------------------------------
(* Types.                                                                   *)

LEMMA TypeOKInit == Init => TypeOK
<1>1. <<>> \in Seq(Row) OBVIOUS
<1>2. ASSUME Init
      PROVE  /\ catalog \in [DOMAIN catalog -> Int] /\ DOMAIN catalog \subseteq Schema
             /\ content \in [DOMAIN content -> Seq(Row)] /\ DOMAIN content \subseteq Int \X Name
  BY <1>2 DEF Init, MainFile
<1>3. ASSUME Init
      PROVE  /\ attached \subseteq Schema
             /\ call \in InsertCall \cup QueryCall \cup {NoCall}
             /\ out \in Seq(Row) /\ answer \in Seq(Row) /\ pending \in Seq(Row) /\ start \in Nat
  BY <1>1, <1>3 DEF Init
<1>4. ASSUME Init
      PROVE  /\ dir \in BOOLEAN /\ deletable \in BOOLEAN /\ pool \in BOOLEAN /\ conn \in BOOLEAN
             /\ ctxDone \in BOOLEAN /\ failed \in BOOLEAN /\ closeErr \in BOOLEAN
             /\ pc = "mkdir" /\ tx = "none" /\ result = "none"
  BY <1>4 DEF Init
<1> QED BY <1>2, <1>3, <1>4 DEF TypeOK

LEMMA TypeOKStep == IInv /\ [Next]_vars => TypeOK'
<1> SUFFICES ASSUME IInv, [Next]_vars PROVE TypeOK' OBVIOUS
<1> USE DEF handleVars, txVars, queryVars, Ok, Error
<1>0. TypeOK /\ <<>> \in Seq(Row) BY DEF IInv
<1>1. CASE Opening
  <2> USE <1>0 DEF TypeOK, afterOpen, RemoveAll
  <2>1. CASE MkdirTemp
    <3>1. /\ dir' \in BOOLEAN /\ failed' \in BOOLEAN /\ result' \in {"none", "ok", "error"}
          /\ pc' \in {"pool", "closed"}
      BY <2>1 DEF MkdirTemp
    <3> QED BY <2>1, <3>1 DEF MkdirTemp
  <2>2. CASE OpenPool
    <3>1. /\ pool' \in BOOLEAN /\ dir' \in BOOLEAN /\ failed' \in BOOLEAN
          /\ result' \in {"none", "ok", "error"} /\ pc' \in {"pin", "closed"}
      BY <2>2 DEF OpenPool
    <3> QED BY <2>2, <3>1 DEF OpenPool
  <2>3. CASE PinConn BY <2>3 DEF PinConn
  <2>4. CASE Ping BY <2>4 DEF Ping
  <2> QED BY <1>1, <2>1, <2>2, <2>3, <2>4 DEF Opening
<1>2. ASSUME NEW s \in Schema, Attach(s) PROVE TypeOK'
  <2>1. FileIndex \in Int
    BY <1>0, FS_Subset, FS_CardinalityType DEF TypeOK, FileIndex
  <2>2. ASSUME catalog' = With(catalog, s, FileIndex)
        PROVE  DOMAIN catalog' \subseteq Schema /\ catalog' \in [DOMAIN catalog' -> Int]
    BY <1>0, <2>1, <2>2, WithType DEF TypeOK
  <2> QED BY <1>0, <1>2, <2>2 DEF Attach, Ready, TypeOK
<1>3. ASSUME NEW t \in Table, CreateTable(t) PROVE TypeOK'
  <2>1. ASSUME Known(t), content' = With(content, Place(t), <<>>)
        PROVE  DOMAIN content' \subseteq Int \X Name /\ content' \in [DOMAIN content' -> Seq(Row)]
    <3>1. Place(t) \in Int \X Name BY <1>0, <2>1 DEF TypeOK, Known, Place, Table
    <3>2. <<>> \in Seq(Row) OBVIOUS
    <3>3. With(content, Place(t), <<>>) \in [DOMAIN With(content, Place(t), <<>>) -> Seq(Row)]
           /\ DOMAIN With(content, Place(t), <<>>) \subseteq Int \X Name
      BY <1>0, <3>1, <3>2, WithType DEF TypeOK
    <3> QED BY <2>1, <3>3
  <2> QED BY <1>0, <1>3, <2>1 DEF CreateTable, Ready, TypeOK
<1>4. ASSUME NEW c \in InsertCall, InsertBegin(c) PROVE TypeOK'
  BY <1>0, <1>4 DEF InsertBegin, outsideInsert, TypeOK
<1>5. ASSUME NEW c \in QueryCall, QueryBegin(c) PROVE TypeOK'
  BY <1>0, <1>5 DEF QueryBegin, outsideQuery, TypeOK, Ready
<1>6. CASE Inserting
  <2>1. CASE BeginTx
    <3>1. /\ pc' \in {"loop", "idle"} /\ tx' \in {"none", "open", "aborted"}
          /\ pending' \in Seq(Row) /\ start' \in Nat
          /\ call' \in InsertCall \cup QueryCall \cup {NoCall}
          /\ failed' \in BOOLEAN /\ result' \in {"none", "ok", "error"}
      <4>1. CASE pc' = "loop" /\ tx' = "open" /\ pending' = <<>> /\ start' = 0
                 /\ UNCHANGED <<call, result, failed>>
        BY <1>0, <4>1 DEF TypeOK
      <4>2. CASE LeaveInsert /\ Error /\ UNCHANGED <<tx, pending>>
        BY <1>0, <4>2 DEF TypeOK, LeaveInsert
      <4> QED BY <2>1, <4>1, <4>2 DEF BeginTx
    <3> QED BY <1>0, <2>1, <3>1 DEF BeginTx, outsideInsert, TypeOK
  <2>2. CASE ExecBatch
    <3>1. call \in InsertCall BY <2>2 DEF ExecBatch, Looping, IInv, TxHoldsPrefix
    <3>2. start \in Nat /\ start < Len(call.rows) BY <1>0, <2>2 DEF ExecBatch, Looping, TypeOK
    <3>3. Batch \in Seq(Row) BY <3>1, <3>2, Rows
    <3>4. pending' \in Seq(Row) BY <1>0, <2>2, <3>3, ConcatProperties DEF ExecBatch, TypeOK
    <3>5. start' \in Nat BY <2>2, <3>1, <3>2, BatchRowsPositive DEF ExecBatch
    <3> QED BY <1>0, <2>2, <3>4, <3>5 DEF ExecBatch, outsideInsert, TypeOK
  <2>3. CASE BatchFails
    BY <1>0, <2>3 DEF BatchFails, Rollback, LeaveInsert, outsideInsert, TypeOK
  <2>4. CASE Commit
    <3>1. DOMAIN content' = DOMAIN content /\ content' \in [DOMAIN content -> Seq(Row)]
      <4>1. \A k \in DOMAIN content : content[k] \o pending \in Seq(Row)
        BY <1>0, ConcatProperties DEF TypeOK
      <4> QED BY <1>0, <2>4, <4>1 DEF Commit, TypeOK
    <3> QED BY <1>0, <2>4, <3>1 DEF Commit, LeaveInsert, outsideInsert, TypeOK
  <2>5. CASE CommitFails
    BY <1>0, <2>5 DEF CommitFails, LeaveInsert, outsideInsert, TypeOK
  <2> QED BY <1>6, <2>1, <2>2, <2>3, <2>4, <2>5 DEF Inserting
<1>7. CASE Querying
  <2>1. CASE NextRow
    <3>1. Exists(call.table) /\ Len(out) < Len(content[Place(call.table)])
      BY <1>0, <2>1 DEF NextRow, Rest, IInv, QueryHoldsPrefix, TypeOK, Exists
    <3>2. content[Place(call.table)][Len(out) + 1] \in Row
      BY <1>0, <3>1, ElementOfSeq DEF TypeOK, Exists
    <3>3. out' \in Seq(Row) BY <1>0, <2>1, <3>2, AppendProperties DEF NextRow, TypeOK
    <3> QED BY <1>0, <2>1, <3>3 DEF NextRow, outsideQuery, TypeOK
  <2>2. CASE QueryReturns \/ QueryFails
    BY <1>0, <2>2 DEF QueryReturns, QueryFails, LeaveQuery, outsideQuery, TypeOK
  <2> QED BY <1>7, <2>1, <2>2 DEF Querying
<1>8. CASE CloseBegin \/ Closing
  <2> USE <1>0 DEF dataVars, Go, TypeOK
  <2>1. CASE CloseBegin BY <2>1 DEF CloseBegin
  <2>2. CASE CloseConn BY <2>2 DEF CloseConn
  <2>3. CASE ClosePool BY <2>3 DEF ClosePool
  <2>4. CASE RemoveDir BY <2>4 DEF RemoveDir, RemoveAll
  <2> QED BY <1>8, <2>1, <2>2, <2>3, <2>4 DEF Closing
<1>9. CASE Context \/ UNCHANGED vars
  <2> USE <1>0 DEF TypeOK
  <2>1. CASE Cancel BY <2>1 DEF Cancel
  <2>2. CASE AwaitDone BY <2>2 DEF AwaitDone
  <2>3. CASE UNCHANGED vars BY <2>3 DEF vars
  <2> QED BY <1>9, <2>1, <2>2, <2>3 DEF Context
<1> QED BY <1>1, <1>2, <1>3, <1>4, <1>5, <1>6, <1>7, <1>8, <1>9, NextCases DEF Setup, Entering

-----------------------------------------------------------------------------
(* The handles of the database.                                             *)

LEMMA HandlesStep == IInv /\ [Next]_vars => HandlesInStep'
<1> SUFFICES ASSUME IInv, [Next]_vars PROVE HandlesInStep' OBVIOUS
<1> USE DEF IInv, HandlesInStep, handleVars
<1>1. CASE Opening
  BY <1>1 DEF Opening, MkdirTemp, OpenPool, PinConn, Ping, RemoveAll
<1>2. CASE Setup
  BY <1>2 DEF Setup, Attach, CreateTable, Ready
<1>3. CASE Entering
  BY <1>3 DEF Entering, InsertBegin, QueryBegin, Ready, outsideInsert, outsideQuery
<1>4. CASE Inserting
  <2>1. UNCHANGED handleVars /\ pc \in {"begin", "loop"} /\ pc' \in {"loop", "idle"}
    BY <1>4 DEF Inserting, BeginTx, ExecBatch, BatchFails, Commit, CommitFails,
      Looping, LeaveInsert, outsideInsert
  <2> QED BY <2>1
<1>5. CASE Querying
  BY <1>5 DEF Querying, NextRow, QueryReturns, QueryFails, LeaveQuery, outsideQuery
<1>6. CASE CloseBegin \/ Closing
  <2>1. CASE CloseBegin BY <2>1 DEF CloseBegin, Go
  <2>2. CASE CloseConn BY <2>2 DEF CloseConn, Go
  <2>3. CASE ClosePool BY <2>3 DEF ClosePool, Go
  <2>4. CASE RemoveDir BY <2>4 DEF RemoveDir, Go
  <2> QED BY <1>6, <2>1, <2>2, <2>3, <2>4 DEF Closing
<1>7. CASE Context \/ UNCHANGED vars
  BY <1>7 DEF Context, Cancel, AwaitDone, vars
<1> QED BY <1>1, <1>2, <1>3, <1>4, <1>5, <1>6, <1>7, NextCases

\* Nothing happens to a closed database, and it is closed by a step that leaves
\* nothing or says so.
LEMMA NothingLeftStep == IInv /\ NothingLeft /\ [Next]_vars => NothingLeft'
<1> SUFFICES ASSUME IInv, NothingLeft, [Next]_vars, pc' = "closed"
             PROVE  (~conn /\ ~pool /\ (dir => ~deletable /\ result = "error"))'
  BY DEF NothingLeft
<1> USE DEF IInv, HandlesInStep, NothingLeft, handleVars
<1>1. CASE Opening
  <2> USE DEF RemoveAll, Error
  <2>1. CASE MkdirTemp BY <2>1 DEF MkdirTemp
  <2>2. CASE OpenPool
    <3>1. dir' = (dir /\ ~deletable) /\ pool' = pool /\ result' = "error" /\ pc = "pool"
          /\ UNCHANGED <<deletable, conn>>
      BY <2>2 DEF OpenPool
    <3> QED BY <3>1
  <2>3. CASE PinConn
    <3>1. dir' = (dir /\ ~deletable) /\ pool' = FALSE /\ result' = "error" /\ pc = "pin"
          /\ UNCHANGED <<deletable, conn>>
      BY <2>3 DEF PinConn
    <3> QED BY <3>1
  <2>4. CASE Ping BY <2>4 DEF Ping
  <2> QED BY <1>1, <2>1, <2>2, <2>3, <2>4 DEF Opening
<1>2. CASE CloseBegin \/ Closing
  <2>1. CASE RemoveDir
    <3>1. /\ pc = "rmdir" /\ dir' = (dir /\ ~deletable) /\ UNCHANGED <<deletable, pool, conn>>
          /\ ~deletable => result' = "error"
      BY <2>1 DEF RemoveDir, Go, RemoveAll, Error, dataVars
    <3> QED BY <3>1
  <2>2. CASE CloseBegin \/ CloseConn \/ ClosePool
    BY <2>2 DEF CloseBegin, CloseConn, ClosePool, Go
  <2> QED BY <1>2, <2>1, <2>2 DEF Closing
<1>3. CASE Context \/ UNCHANGED vars
  BY <1>3 DEF Context, Cancel, AwaitDone, vars
<1>4. CASE Setup BY <1>4 DEF Setup, Attach, CreateTable, Ready
<1>5. CASE Entering BY <1>5 DEF Entering, InsertBegin, QueryBegin, Ready
<1>6. CASE Inserting
  BY <1>6 DEF Inserting, BeginTx, ExecBatch, BatchFails, Commit, CommitFails, Looping, LeaveInsert
<1>7. CASE Querying BY <1>7 DEF Querying, NextRow, QueryReturns, QueryFails, LeaveQuery
<1> QED BY <1>1, <1>2, <1>3, <1>4, <1>5, <1>6, <1>7, NextCases

-----------------------------------------------------------------------------
(* Schemas and their files.                                                 *)

\* Only Attach and CreateTable change what there is on the connection.
LEMMA CatalogUnchanged ==
  ASSUME Opening \/ Entering \/ Inserting \/ Querying \/ CloseBegin \/ Closing \/ Context
         \/ UNCHANGED vars
  PROVE  UNCHANGED <<attached, catalog>> /\ DOMAIN content' = DOMAIN content
<1> USE DEF handleVars
<1>1. CASE Opening BY <1>1 DEF Opening, MkdirTemp, OpenPool, PinConn, Ping, afterOpen
<1>2. CASE Entering BY <1>2 DEF Entering, InsertBegin, QueryBegin, outsideInsert, outsideQuery
<1>3. CASE Inserting
  BY <1>3 DEF Inserting, BeginTx, ExecBatch, BatchFails, Commit, CommitFails, outsideInsert
<1>4. CASE Querying BY <1>4 DEF Querying, NextRow, QueryReturns, QueryFails, outsideQuery
<1>5. CASE CloseBegin \/ Closing
  BY <1>5 DEF CloseBegin, Closing, CloseConn, ClosePool, RemoveDir, dataVars
<1>6. CASE Context \/ UNCHANGED vars BY <1>6 DEF Context, Cancel, AwaitDone, vars
<1> QED BY <1>1, <1>2, <1>3, <1>4, <1>5, <1>6

LEMMA FilesApartStep == IInv /\ [Next]_vars => FilesApart'
<1> SUFFICES ASSUME IInv, [Next]_vars PROVE FilesApart' OBVIOUS
<1>1. CASE UNCHANGED <<attached, catalog>> /\ DOMAIN content' = DOMAIN content
  BY <1>1 DEF IInv, FilesApart
<1>2. ASSUME NEW s \in Schema, Attach(s) PROVE FilesApart'
  <2>0. UNCHANGED content BY <1>2 DEF Attach
  <2>1. CASE UNCHANGED <<attached, catalog>> BY <2>0, <2>1, <1>1
  <2>2. CASE /\ ~Attached(s) /\ s \notin DOMAIN catalog
             /\ catalog' = With(catalog, s, FileIndex)
             /\ attached' = attached \cup {s}
    <3>1. FilesApart BY DEF IInv
    <3>2. s # Main /\ s \notin attached BY <2>2 DEF Attached
    <3>3. IsFiniteSet(attached) /\ Cardinality(attached) \in Nat
      BY FS_Subset, FS_CardinalityType DEF IInv, TypeOK
    <3>4. Cardinality(attached') = Cardinality(attached) + 1
      BY <2>2, <3>2, <3>3, FS_AddElement
    <3>5. /\ DOMAIN catalog' = DOMAIN catalog \cup {s}
          /\ catalog'[s] = Cardinality(attached)
          /\ \A u \in DOMAIN catalog : catalog'[u] = catalog[u]
      <4>1. catalog' = With(catalog, s, Cardinality(attached)) BY <2>2 DEF FileIndex
      <4>2. \A u \in DOMAIN catalog : u # s BY <2>2
      <4>3. DOMAIN catalog' = DOMAIN catalog \cup {s} BY <4>1, WithIsFunction
      <4>4. catalog'[s] = Cardinality(attached) BY <4>1 DEF With
      <4>5. \A u \in DOMAIN catalog : catalog'[u] = catalog[u] BY <4>1, <4>2 DEF With
      <4> QED BY <4>3, <4>4, <4>5
    <3>6. \A u \in DOMAIN catalog : catalog[u] < Cardinality(attached) /\ catalog[u] \in Int
      BY <3>1, <3>3 DEF FilesApart, MainFile
    <3>7. catalog'[Main] = MainFile BY <3>1, <3>5 DEF FilesApart
    <3>8. DOMAIN catalog' = attached' \cup {Main} /\ Main \notin attached'
      BY <2>2, <3>1, <3>2, <3>5 DEF FilesApart
    <3>9. \A u \in attached' : catalog'[u] \in 0..(Cardinality(attached') - 1)
      <4> SUFFICES ASSUME NEW u \in attached'
                   PROVE  catalog'[u] \in 0..(Cardinality(attached') - 1)
        OBVIOUS
      <4>1. CASE u = s BY <4>1, <3>3, <3>4, <3>5
      <4>2. CASE u \in attached
        <5>1. catalog[u] \in 0..(Cardinality(attached) - 1) BY <3>1, <4>2 DEF FilesApart
        <5>2. catalog'[u] = catalog[u] BY <3>1, <3>5, <4>2 DEF FilesApart
        <5> QED BY <5>1, <5>2, <3>3, <3>4
      <4> QED BY <2>2, <4>1, <4>2
    <3>10. \A u, v \in DOMAIN catalog' : catalog'[u] = catalog'[v] => u = v
      BY <3>1, <3>3, <3>5, <3>6 DEF FilesApart
    <3>11. \A k \in DOMAIN content' : \E u \in DOMAIN catalog' : k[1] = catalog'[u]
      BY <2>0, <3>1, <3>5 DEF FilesApart
    <3> QED BY <3>7, <3>8, <3>9, <3>10, <3>11 DEF FilesApart
  <2> QED BY <1>2, <2>1, <2>2 DEF Attach
<1>3. ASSUME NEW t \in Table, CreateTable(t) PROVE FilesApart'
  <2>1. UNCHANGED <<attached, catalog>> BY <1>3 DEF CreateTable
  <2>2. CASE UNCHANGED content BY <1>1, <2>1, <2>2
  <2>3. CASE Known(t) /\ content' = With(content, Place(t), <<>>)
    <3>1. DOMAIN content' = DOMAIN content \cup {Place(t)} BY <2>3, WithIsFunction
    <3>2. t.schema \in DOMAIN catalog /\ Place(t)[1] = catalog[t.schema]
      BY <2>3 DEF Known, Place
    <3> QED BY <2>1, <3>1, <3>2 DEF IInv, FilesApart
  <2> QED BY <1>3, <2>2, <2>3 DEF CreateTable
<1> QED BY <1>1, <1>2, <1>3, CatalogUnchanged, NextCases DEF Setup

-----------------------------------------------------------------------------
(* The transaction and the query.                                           *)

\* A step of Insert leaves the tables there are, and keeps its place in the loop.
LEMMA ExistsUnchanged ==
  ASSUME UNCHANGED catalog, DOMAIN content' = DOMAIN content, NEW t
  PROVE  Exists(t)' <=> Exists(t)
BY DEF Exists, Known, Place

LEMMA TxStep == IInv /\ [Next]_vars => TxHoldsPrefix'
<1> SUFFICES ASSUME IInv, [Next]_vars PROVE TxHoldsPrefix' OBVIOUS
<1>0. TypeOK /\ TxHoldsPrefix BY DEF IInv
<1>1. CASE Opening
  <2>1. UNCHANGED <<tx, ctxDone, call>>
        /\ pc \notin {"begin", "loop", "iterate"} /\ pc' \notin {"begin", "loop"}
        /\ (failed => failed')
    BY <1>1 DEF Opening, MkdirTemp, OpenPool, PinConn, Ping, afterOpen, txVars, Ok, Error
  <2> QED BY <1>0, <2>1 DEF TxHoldsPrefix
<1>2. CASE Setup
  <2>1. UNCHANGED <<tx, ctxDone, pc, call>> /\ pc = "idle" /\ (failed => failed')
    BY <1>2 DEF Setup, Attach, CreateTable, Ready, txVars, Ok, Error
  <2> QED BY <1>0, <2>1 DEF TxHoldsPrefix
<1>3. ASSUME NEW c \in InsertCall, InsertBegin(c) PROVE TxHoldsPrefix'
  <2>1. UNCHANGED <<tx, ctxDone>> /\ pc = "idle" /\ pc' \in {"idle", "begin"}
        /\ (failed => failed') /\ (pc' = "begin" => call' = c /\ c.rows # <<>> /\ result' = "none")
        /\ (pc' = "idle" => call' = call)
    BY <1>3 DEF InsertBegin, outsideInsert, txVars, Ok, Error
  <2> QED BY <1>0, <2>1 DEF TxHoldsPrefix
<1>4. ASSUME NEW c \in QueryCall, QueryBegin(c) PROVE TxHoldsPrefix'
  <2>1. UNCHANGED <<tx, ctxDone>> /\ pc = "idle" /\ pc' \in {"idle", "iterate"} /\ (failed => failed')
        /\ (pc' = "idle" => call' = call)
    BY <1>4 DEF QueryBegin, Ready, outsideQuery, txVars, Ok, Error
  <2> QED BY <1>0, <2>1 DEF TxHoldsPrefix
<1>5. CASE BeginTx
  <2>1. CASE pc' = "loop"
    <3>1. call \in InsertCall /\ call.rows # <<>> /\ result = "none"
      BY <1>0, <1>5 DEF BeginTx, TxHoldsPrefix
    <3>2. tx' = "open" /\ pending' = <<>> /\ start' = 0 /\ UNCHANGED <<call, result>>
      BY <1>5, <2>1 DEF BeginTx, LeaveInsert
    <3>3. SubSeq(call.rows, 1, 0) = <<>> BY SubSeqEmpty
    <3>4. Len(call.rows) \in Nat BY <3>1 DEF InsertCall
    <3>5. (IF 0 < Len(call.rows) THEN 0 ELSE Len(call.rows)) = 0 BY <3>4
    <3> QED BY <2>1, <3>1, <3>2, <3>3, <3>5 DEF TxHoldsPrefix
  <2>2. CASE pc' = "idle" /\ call' = NoCall /\ failed' /\ UNCHANGED <<tx, ctxDone>>
    BY <1>0, <1>5, <2>2 DEF BeginTx, TxHoldsPrefix
  <2> QED BY <1>5, <2>1, <2>2 DEF BeginTx, LeaveInsert, Error, outsideInsert
<1>6. CASE ExecBatch
  <2>1. pc = "loop" /\ tx = "open" /\ start < Len(call.rows) /\ Exists(call.table)
    BY <1>6 DEF ExecBatch, Looping, Usable
  <2>2. call \in InsertCall /\ call.rows # <<>> /\ result = "none" BY <1>0, <2>1 DEF TxHoldsPrefix
  <2>3. start \in Nat BY <1>0 DEF TypeOK
  <2>4. pending = SubSeq(call.rows, 1, start) BY <1>0, <2>1 DEF TxHoldsPrefix
  <2>5. pending' = SubSeq(call.rows, 1, End) /\ start' = start + BatchRows
    BY <1>6, <2>1, <2>2, <2>3, <2>4, Rows DEF ExecBatch
  <2>6. UNCHANGED <<pc, tx, call, result, catalog, content>> BY <1>6 DEF ExecBatch, outsideInsert
  <2>7. End = IF start' < Len(call.rows) THEN start' ELSE Len(call.rows) BY <2>5 DEF End
  <2>8. Exists(call.table)' BY <2>1, <2>6 DEF Exists, Known, Place
  <2> QED BY <2>1, <2>2, <2>5, <2>6, <2>7, <2>8 DEF TxHoldsPrefix
<1>7. CASE BatchFails \/ Commit
  BY <1>7 DEF BatchFails, Commit, Rollback, LeaveInsert, TxHoldsPrefix
<1>8. CASE CommitFails
  BY <1>8 DEF CommitFails, LeaveInsert, Error, outsideInsert, TxHoldsPrefix
<1>9. CASE Querying
  <2>1. UNCHANGED <<tx, ctxDone>> /\ pc = "iterate" /\ pc' \in {"idle", "iterate"} /\ (failed => failed')
        /\ (pc' = "idle" => call' = NoCall)
    BY <1>9 DEF Querying, NextRow, QueryReturns, QueryFails, LeaveQuery, outsideQuery, txVars, Ok, Error
  <2> QED BY <1>0, <2>1 DEF TxHoldsPrefix
<1>10. CASE CloseBegin \/ Closing
  <2>1. UNCHANGED <<tx, ctxDone, call>>
        /\ pc \notin {"begin", "loop", "iterate"} /\ pc' \notin {"begin", "loop"}
        /\ (failed => failed')
    BY <1>10 DEF CloseBegin, Closing, CloseConn, ClosePool, RemoveDir, Go, dataVars, txVars, Ok, Error
  <2> QED BY <1>0, <2>1 DEF TxHoldsPrefix
<1>11. CASE Context
  <2>1. UNCHANGED <<pc, call, result, failed, start, catalog, content>> /\ ctxDone'
        /\ (UNCHANGED <<tx, pending>> \/ tx' = IF pc = "loop" THEN "aborted" ELSE "none")
    BY <1>11 DEF Context, Cancel, AwaitDone, txVars
  <2>2. Exists(call.table)' <=> Exists(call.table) BY <2>1 DEF Exists, Known, Place
  <2> QED BY <1>0, <2>1, <2>2 DEF TxHoldsPrefix
<1>12. CASE UNCHANGED vars
  BY <1>0, <1>12 DEF vars, txVars, TxHoldsPrefix, Exists, Known, Place
<1> QED BY <1>1, <1>2, <1>3, <1>4, <1>5, <1>6, <1>7, <1>8, <1>9, <1>10, <1>11, <1>12, NextCases
        DEF Entering, Inserting

LEMMA QueryStep == IInv /\ [Next]_vars => QueryHoldsPrefix'
<1> SUFFICES ASSUME IInv, [Next]_vars, pc' = "iterate" PROVE QueryHoldsPrefix' BY DEF QueryHoldsPrefix
<1>0. TypeOK /\ TxHoldsPrefix /\ QueryHoldsPrefix BY DEF IInv
<1>1. ASSUME NEW c \in QueryCall, QueryBegin(c) PROVE QueryHoldsPrefix'
  <2>1. /\ pc = "idle" /\ ~failed /\ Exists(c.table)
        /\ call' = c /\ out' = <<>> /\ result' = "none"
        /\ UNCHANGED <<catalog, content, tx>>
    BY <1>1 DEF QueryBegin, Ready, outsideQuery, txVars
  <2>2. tx' = "none" BY <1>0, <2>1 DEF TxHoldsPrefix, TypeOK
  <2>3. Exists(c.table)' BY <2>1 DEF Exists, Known, Place
  <2>4. content[Place(c.table)] \in Seq(Row) BY <1>0, <2>1 DEF Exists, TypeOK
  <2>5. Place(c.table)' = Place(c.table) BY <2>1 DEF Place
  <2>6. SubSeq(content[Place(c.table)], 1, 0) = <<>> BY SubSeqEmpty
  <2>7. 0 <= Len(content[Place(c.table)]) BY <2>4
  <2> QED BY <2>1, <2>2, <2>3, <2>5, <2>6, <2>7 DEF QueryHoldsPrefix
<1>2. CASE NextRow
  <2> DEFINE rows == content[Place(call.table)]
  <2>1. /\ pc = "iterate" /\ out' = Append(out, rows[Len(out) + 1])
        /\ UNCHANGED <<call, result, tx, catalog, content>>
        /\ Rest > 0
    BY <1>2 DEF NextRow, outsideQuery, txVars
  <2>2. /\ call \in QueryCall /\ result = "none" /\ tx = "none" /\ Exists(call.table)
        /\ out = SubSeq(rows, 1, Len(out))
    BY <1>0, <2>1 DEF QueryHoldsPrefix
  <2>3. rows \in Seq(Row) /\ out \in Seq(Row) BY <1>0, <2>2 DEF Exists, TypeOK
  <2>4. Len(out) \in Nat /\ Len(rows) \in Nat /\ Len(out) < Len(rows) BY <2>1, <2>3 DEF Rest
  <2>5. SubSeq(rows, 1, Len(out) + 1) = Append(SubSeq(rows, 1, Len(out)), rows[Len(out) + 1])
    <3>1. 1 \in 1 .. Len(rows) /\ Len(out) + 1 \in 1 .. Len(rows) BY <2>4
    <3> HIDE DEF rows
    <3> QED BY <2>3, <2>4, <3>1, SubSeqRecursiveSecond
  <2>6. out' = SubSeq(rows, 1, Len(out) + 1) BY <2>1, <2>2, <2>5
  <2>7. Len(out') = Len(out) + 1
    <3>1. rows[Len(out) + 1] \in Row BY <2>3, <2>4, ElementOfSeq
    <3> QED BY <2>1, <2>3, <3>1, AppendProperties
  <2>8. Exists(call.table)' /\ Place(call.table)' = Place(call.table)
    BY <2>1, <2>2 DEF Exists, Known, Place
  <2> QED BY <2>1, <2>2, <2>4, <2>6, <2>7, <2>8 DEF QueryHoldsPrefix
<1>3. CASE Context \/ UNCHANGED vars
  <2>1. /\ UNCHANGED <<pc, call, result, out, catalog, content>>
        /\ tx = "none" => UNCHANGED tx
    BY <1>3 DEF Context, Cancel, AwaitDone, vars, txVars, queryVars
  <2>2. Exists(call.table)' = Exists(call.table) /\ Place(call.table)' = Place(call.table)
    BY <2>1 DEF Exists, Known, Place
  <2> QED BY <1>0, <2>1, <2>2 DEF QueryHoldsPrefix
<1>4. ~Opening /\ ~Setup /\ ~Inserting /\ ~CloseBegin /\ ~Closing
  BY DEF Opening, MkdirTemp, OpenPool, PinConn, Ping, Setup, Attach, CreateTable, Ready,
    Inserting, BeginTx, ExecBatch, BatchFails, Commit, CommitFails, LeaveInsert, Looping,
    CloseBegin, Closing, CloseConn, ClosePool, RemoveDir, Go
<1>5. \A c \in InsertCall : ~InsertBegin(c) BY DEF InsertBegin
<1>6. CASE QueryReturns \/ QueryFails BY <1>6 DEF QueryReturns, QueryFails, LeaveQuery
<1> QED BY <1>1, <1>2, <1>3, <1>4, <1>5, <1>6, NextCases DEF Entering, Querying

-----------------------------------------------------------------------------
(* The theorems.                                                            *)

LEMMA IInvInit == Init => IInv
<1> SUFFICES ASSUME Init PROVE IInv OBVIOUS
<1>1. HandlesInStep BY DEF Init, HandlesInStep
<1>2. FilesApart BY DEF Init, FilesApart
<1>3. TxHoldsPrefix /\ QueryHoldsPrefix BY DEF Init, TxHoldsPrefix, QueryHoldsPrefix
<1> QED BY <1>1, <1>2, <1>3, TypeOKInit DEF IInv

LEMMA IInvStep == IInv /\ [Next]_vars => IInv'
BY TypeOKStep, HandlesStep, FilesApartStep, TxStep, QueryStep DEF IInv

\* The calls of the engine, the map of DB, the connection and its files agree at
\* every step of Open, Attach, CreateTable, Insert and Query (localdb.go).
THEOREM CallsKeepTheirState == Spec => []IInv
<1> QED BY IInvInit, IInvStep, PTL DEF Spec

\* No statement of Insert is empty, nor over the cap of parameters unless a single
\* row is, however many columns and rows there are.
THEOREM EveryStatementFits == Spec => []StatementsFit
<1>1. IInv => StatementsFit
  <2> SUFFICES ASSUME IInv, Looping
               PROVE  Len(Batch) >= 1 /\ (Len(Batch) * call.cols <= maxBindParams \/ Len(Batch) = 1)
    BY DEF StatementsFit
  <2>1. call \in InsertCall /\ start \in Nat /\ start < Len(call.rows)
    BY DEF IInv, TypeOK, TxHoldsPrefix, Looping
  <2>2. End \in Nat /\ End > start /\ Len(Batch) = End - start BY <2>1, Rows
  <2>3. BatchRows \in Nat /\ BatchRows >= 1
        /\ (BatchRows * call.cols <= maxBindParams \/ BatchRows = 1)
    BY <2>1, BatchRowsPositive
  <2>4. Len(call.rows) \in Nat BY <2>1, Rows
  <2>5. Len(Batch) \in Nat /\ Len(Batch) >= 1 /\ Len(Batch) <= BatchRows
    BY <2>1, <2>2, <2>3, <2>4 DEF End
  <2>6. call.cols \in Nat BY <2>1 DEF InsertCall
  <2>7. \A a, b, c, m \in Nat : a <= b /\ b * c <= m => a * c <= m BY SMT
  <2>8. CASE BatchRows = 1
    <3>1. \A a, b \in Nat : a >= 1 /\ a <= b /\ b = 1 => a = 1 OBVIOUS
    <3> QED BY <2>3, <2>5, <2>8, <3>1
  <2>9. CASE BatchRows * call.cols <= maxBindParams
    <3>1. maxBindParams \in Nat OBVIOUS
    <3>2. Len(Batch) * call.cols <= maxBindParams
      BY <2>3, <2>5, <2>6, <2>7, <2>9, <3>1
    <3> QED BY <2>5, <3>2
  <2> QED BY <2>3, <2>8, <2>9
<1> QED BY <1>1, CallsKeepTheirState, PTL

\* Whatever step of Open fails, and however Close goes, no connection, pool or
\* directory is left unless the directory cannot be deleted, which Close reports.
THEOREM NothingIsLeft == Spec => []NothingLeft
<1>1. Init => NothingLeft BY DEF Init, NothingLeft
<1> QED BY <1>1, NothingLeftStep, CallsKeepTheirState, PTL DEF Spec

-----------------------------------------------------------------------------
(* LocalDB implements TableStore.                                           *)

\* Two tables have two places.
LEMMA PlacesApart ==
  ASSUME IInv, NEW t \in Table, NEW u \in Table, Exists(t), Exists(u), Place(t) = Place(u)
  PROVE  t = u
<1>1. catalog[t.schema] = catalog[u.schema] /\ t.name = u.name BY DEF Place
<1>2. t.schema = u.schema BY <1>1 DEF IInv, FilesApart, Exists, Known
<1> QED BY <1>1, <1>2 DEF Table

LEMMA StoreInit == Init => Store!Init
<1> SUFFICES ASSUME Init PROVE Store!Init OBVIOUS
<1>1. \A t \in Table : ~Exists(t) BY DEF Init, Exists
<1>2. {u \in Table : Exists(u)} = {} BY <1>1
<1>3. Stored = [t \in {} |-> <<>>] BY <1>2 DEF Stored
<1> QED BY <1>3 DEF Init, Store!Init, NoCall, Store!NoCall

\* What is stored depends on the connection and its files only.
LEMMA StoredUnchanged ==
  ASSUME UNCHANGED <<catalog, content>>
  PROVE  UNCHANGED Stored
BY DEF Stored, Exists, Known, Place

\* A schema that is attached adds no table: its file is one nobody has used.
LEMMA StoredAttach ==
  ASSUME IInv, FilesApart', NEW s \in Schema, s \notin DOMAIN catalog, UNCHANGED content,
         catalog' = With(catalog, s, FileIndex)
  PROVE  UNCHANGED Stored
<1>1. /\ DOMAIN catalog' = DOMAIN catalog \cup {s}
      /\ \A u \in DOMAIN catalog : catalog'[u] = catalog[u]
  BY DEF With
<1>2. ASSUME NEW t \in Table
      PROVE  (Exists(t)' <=> Exists(t)) /\ (Exists(t) => Place(t)' = Place(t))
  <2>1. CASE t.schema \in DOMAIN catalog BY <1>1, <2>1 DEF Exists, Known, Place
  <2>2. CASE t.schema # s /\ t.schema \notin DOMAIN catalog BY <1>1, <2>2 DEF Exists, Known
  <2>3. CASE t.schema = s
    <3>1. ~Exists(t) BY <2>3 DEF Exists, Known
    <3>2. ASSUME Exists(t)' PROVE FALSE
      <4>1. <<catalog'[s], t.name>> \in DOMAIN content BY <2>3, <3>2 DEF Exists, Place
      <4>2. PICK u \in DOMAIN catalog : catalog'[s] = catalog[u]
        BY <4>1 DEF IInv, FilesApart
      <4>3. u = s BY <1>1, <4>2 DEF FilesApart
      <4> QED BY <4>2, <4>3
    <3> QED BY <3>1, <3>2
  <2> QED BY <2>1, <2>2, <2>3
<1> QED BY <1>2 DEF Stored

\* CreateTable adds its table, without rows, and touches no other.
LEMMA StoredCreate ==
  ASSUME IInv, NEW t \in Table, Known(t), ~Exists(t), UNCHANGED catalog,
         content' = With(content, Place(t), <<>>)
  PROVE  Stored' = Store!With(Stored, t, <<>>)
<1>1. \A u : (Known(u)' <=> Known(u)) /\ Place(u)' = Place(u) BY DEF Known, Place
<1>2. /\ DOMAIN content' = DOMAIN content \cup {Place(t)}
      /\ content'[Place(t)] = <<>>
      /\ \A k \in DOMAIN content : k # Place(t) => content'[k] = content[k]
  BY DEF With
<1>3. Place(t) \notin DOMAIN content BY DEF Exists
<1>4. ASSUME NEW u \in Table, Known(u), Place(u) = Place(t) PROVE u = t
  <2>1. catalog[u.schema] = catalog[t.schema] /\ u.name = t.name BY <1>4 DEF Place
  <2>2. u.schema = t.schema BY <1>4, <2>1 DEF IInv, FilesApart, Known
  <2> QED BY <2>1, <2>2 DEF Table
<1>5. \A u \in Table : Exists(u)' <=> (Exists(u) \/ u = t)
  BY <1>1, <1>2, <1>4 DEF Exists
<1>6. \A u \in Table : Exists(u) => content'[Place(u)] = content[Place(u)]
  BY <1>2, <1>3 DEF Exists
<1>7. {u \in Table : Exists(u)'} = {u \in Table : Exists(u)} \cup {t} BY <1>5
<1>8. \A u \in Table : Exists(u)' =>
        content'[Place(u)'] = IF u = t THEN <<>> ELSE Stored[u]
  BY <1>1, <1>2, <1>5, <1>6 DEF Stored
<1>9. DOMAIN Stored = {u \in Table : Exists(u)} BY DEF Stored
<1>10. Stored' = [u \in {v \in Table : Exists(v)'} |-> content'[Place(u)']] BY DEF Stored
<1> QED BY <1>7, <1>8, <1>9, <1>10 DEF Store!With

\* Commit gives the rows of the transaction to the table of the call only.
LEMMA StoredCommit ==
  ASSUME IInv, NEW t \in Table, Exists(t), UNCHANGED catalog, NEW rows,
         content' = [content EXCEPT ![Place(t)] = @ \o rows]
  PROVE  t \in DOMAIN Stored /\ Stored' = [Stored EXCEPT ![t] = @ \o rows]
<1>1. \A u : (Known(u)' <=> Known(u)) /\ Place(u)' = Place(u) BY DEF Known, Place
<1>2. \A u : Exists(u)' <=> Exists(u) BY <1>1 DEF Exists
<1>3. \A u \in Table : Exists(u) =>
        content'[Place(u)] = IF u = t THEN content[Place(t)] \o rows ELSE content[Place(u)]
  BY PlacesApart DEF Exists
<1>4. DOMAIN Stored = {u \in Table : Exists(u)} /\ \A u \in DOMAIN Stored : Stored[u] = content[Place(u)]
  BY DEF Stored
<1>5. Stored' = [u \in {v \in Table : Exists(v)} |-> content'[Place(u)]]
  BY <1>1, <1>2 DEF Stored
<1> QED BY <1>3, <1>4, <1>5

LEMMA StoreStep == IInv /\ IInv' /\ [Next]_vars => [Store!Next]_(Store!vars)
<1> SUFFICES ASSUME IInv, IInv', [Next]_vars PROVE Store!Next \/ UNCHANGED Store!vars
  BY DEF Store!vars
<1>0. TypeOK /\ FilesApart /\ TxHoldsPrefix /\ QueryHoldsPrefix BY DEF IInv
\* The steps that touch no table: they stutter, succeed, fail, or end a call in failure.
<1> DEFINE Quiet == UNCHANGED <<Stored, answer>>
<1>q. ASSUME Quiet,
             \/ UNCHANGED <<call, result>>
             \/ result' = "ok" /\ call = NoCall /\ UNCHANGED call
             \/ result' = "error" /\ call' = NoCall
      PROVE  Store!Next \/ UNCHANGED Store!vars
  BY <1>q DEF Store!Next, Store!Fail, Store!Done, Store!vars, NoCall, Store!NoCall
<1>1. CASE Opening
  <2>1. UNCHANGED <<catalog, content, answer, call>> /\ pc \notin {"begin", "loop", "iterate"}
        /\ (UNCHANGED result \/ result' \in {"ok", "error"})
    BY <1>1 DEF Opening, MkdirTemp, OpenPool, PinConn, Ping, afterOpen, queryVars, Ok, Error
  <2>2. call = NoCall BY <1>0, <2>1 DEF TxHoldsPrefix
  <2> QED BY <1>q, <2>1, <2>2, StoredUnchanged
<1>2. ASSUME NEW s \in Schema, Attach(s) PROVE Store!Next \/ UNCHANGED Store!vars
  <2>1. UNCHANGED <<content, answer, call>> /\ pc = "idle" /\ result' \in {"ok", "error"}
        /\ (UNCHANGED catalog \/ (s \notin DOMAIN catalog /\ catalog' = With(catalog, s, FileIndex)))
    <3>1. UNCHANGED <<content, answer, call>> /\ pc = "idle" BY <1>2 DEF Attach, Ready, queryVars
    <3>2. result' \in {"ok", "error"} BY <1>2 DEF Attach, Ok, Error
    <3>3. UNCHANGED catalog \/ (s \notin DOMAIN catalog /\ catalog' = With(catalog, s, FileIndex))
      BY <1>2 DEF Attach
    <3> QED BY <3>1, <3>2, <3>3
  <2>2. call = NoCall BY <1>0, <2>1 DEF TxHoldsPrefix
  <2>3. UNCHANGED Stored
    <3>1. FilesApart' BY DEF IInv
    <3> QED BY <2>1, <3>1, StoredUnchanged, StoredAttach
  <2> QED BY <1>q, <2>1, <2>2, <2>3
<1>3. ASSUME NEW t \in Table, CreateTable(t) PROVE Store!Next \/ UNCHANGED Store!vars
  <2>1. UNCHANGED <<catalog, answer, call>> /\ pc = "idle"
    BY <1>3 DEF CreateTable, Ready, queryVars
  <2>2. call = NoCall BY <1>0, <2>1 DEF TxHoldsPrefix
  <2>3. CASE Known(t) /\ ~Exists(t) /\ content' = With(content, Place(t), <<>>) /\ result' = "ok"
    <3>1. Stored' = Store!With(Stored, t, <<>>) BY <2>1, <2>3, StoredCreate
    <3>2. t \notin DOMAIN Stored BY <2>3 DEF Stored
    <3> QED BY <2>1, <2>2, <2>3, <3>1, <3>2 DEF Store!Next, Store!Create, NoCall, Store!NoCall
  <2>4. CASE UNCHANGED content /\ result' = "error" BY <1>q, <2>1, <2>2, <2>4, StoredUnchanged
  <2> QED BY <1>3, <2>3, <2>4 DEF CreateTable, Ok, Error
<1>4. ASSUME NEW c \in InsertCall, InsertBegin(c) PROVE Store!Next \/ UNCHANGED Store!vars
  <2>1. UNCHANGED <<catalog, content, answer>> /\ pc = "idle"
        /\ \/ result' \in {"ok", "error"} /\ UNCHANGED call
           \/ result' = "none" /\ call' = c
    BY <1>4 DEF InsertBegin, outsideInsert, queryVars, Ok, Error
  <2>2. call = NoCall BY <1>0, <2>1 DEF TxHoldsPrefix
  <2>3. CASE result' \in {"ok", "error"} /\ UNCHANGED call BY <1>q, <2>1, <2>2, <2>3, StoredUnchanged
  <2>4. CASE result' = "none" /\ call' = c
    BY <2>1, <2>2, <2>4, StoredUnchanged DEF Store!Next, Store!Begin, NoCall, Store!NoCall
  <2> QED BY <2>1, <2>3, <2>4
<1>5. ASSUME NEW c \in QueryCall, QueryBegin(c) PROVE Store!Next \/ UNCHANGED Store!vars
  <2>1. UNCHANGED <<catalog, content, answer>> /\ pc = "idle"
        /\ \/ result' = "error" /\ UNCHANGED call
           \/ result' = "none" /\ call' = c
    BY <1>5 DEF QueryBegin, Ready, outsideQuery, Error
  <2>2. call = NoCall BY <1>0, <2>1 DEF TxHoldsPrefix
  <2>3. CASE result' = "error" /\ UNCHANGED call BY <1>q, <2>1, <2>2, <2>3, StoredUnchanged
  <2>4. CASE result' = "none" /\ call' = c
    BY <2>1, <2>2, <2>4, StoredUnchanged DEF Store!Next, Store!Begin, NoCall, Store!NoCall
  <2> QED BY <2>1, <2>3, <2>4
<1>6. CASE BeginTx \/ ExecBatch \/ BatchFails \/ CommitFails
  <2>1. UNCHANGED <<catalog, content, answer>>
        /\ (UNCHANGED <<call, result>> \/ (result' = "error" /\ call' = NoCall))
    <3> USE DEF LeaveInsert, outsideInsert, queryVars, Error
    <3>1. CASE BeginTx BY <3>1 DEF BeginTx
    <3>2. CASE ExecBatch BY <3>2 DEF ExecBatch
    <3>3. CASE BatchFails BY <3>3 DEF BatchFails
    <3>4. CASE CommitFails BY <3>4 DEF CommitFails
    <3> QED BY <1>6, <3>1, <3>2, <3>3, <3>4
  <2> QED BY <1>q, <2>1, StoredUnchanged
<1>7. CASE Commit
  <2>1. /\ pc = "loop" /\ tx = "open" /\ ~(start < Len(call.rows))
        /\ content' = [content EXCEPT ![Place(call.table)] = @ \o pending]
        /\ result' = "ok" /\ call' = NoCall /\ UNCHANGED <<catalog, answer>>
    BY <1>7 DEF Commit, Looping, Usable, LeaveInsert, outsideInsert, queryVars, Ok
  <2>2. /\ call \in InsertCall /\ call.rows # <<>>
        /\ pending = SubSeq(call.rows, 1, Len(call.rows))
        /\ start > 0 => Exists(call.table)
    BY <1>0, <2>1 DEF TxHoldsPrefix
  <2>3. call.rows \in Seq(Row) /\ call.table \in Table /\ call.op = "insert"
    BY <2>2 DEF InsertCall
  <2>4. pending = call.rows BY <2>2, <2>3, SubSeqFull
  <2>5. Exists(call.table)
    <3>1. Len(call.rows) > 0 /\ start \in Nat BY <1>0, <2>2, <2>3 DEF TypeOK
    <3> QED BY <2>1, <2>2, <3>1
  <2>6. call.table \in DOMAIN Stored /\ Stored' = [Stored EXCEPT ![call.table] = @ \o call.rows]
    BY <2>1, <2>3, <2>4, <2>5, StoredCommit
  <2> QED BY <2>1, <2>3, <2>6 DEF Store!Next, Store!Insert, NoCall, Store!NoCall
<1>8. CASE NextRow \/ QueryFails
  <2>1. UNCHANGED <<catalog, content, answer>>
        /\ (UNCHANGED <<call, result>> \/ (result' = "error" /\ call' = NoCall))
    <3>1. CASE NextRow BY <3>1 DEF NextRow, outsideQuery
    <3>2. CASE QueryFails BY <3>2 DEF QueryFails, LeaveQuery, outsideQuery, Error
    <3> QED BY <1>8, <3>1, <3>2
  <2> QED BY <1>q, <2>1, StoredUnchanged
<1>9. CASE QueryReturns
  <2>1. /\ pc = "iterate" /\ Rest = 0 /\ answer' = out
        /\ result' = "ok" /\ call' = NoCall /\ UNCHANGED <<catalog, content>>
    BY <1>9 DEF QueryReturns, LeaveQuery, outsideQuery, Ok
  <2>2. call \in QueryCall /\ Exists(call.table)
        /\ out = SubSeq(content[Place(call.table)], 1, Len(out))
    BY <1>0, <2>1 DEF QueryHoldsPrefix
  <2>3. content[Place(call.table)] \in Seq(Row) /\ out \in Seq(Row)
    BY <1>0, <2>2 DEF TypeOK, Exists
  <2>4. Len(out) = Len(content[Place(call.table)]) BY <2>1, <2>3 DEF Rest
  <2>5. out = content[Place(call.table)] BY <2>2, <2>3, <2>4, SubSeqFull
  <2>6. call.table \in Table /\ call.op = "query" BY <2>2 DEF QueryCall
  <2>7. call.table \in DOMAIN Stored /\ Stored[call.table] = out BY <2>2, <2>5, <2>6 DEF Stored
  <2> QED BY <2>1, <2>6, <2>7, StoredUnchanged DEF Store!Next, Store!Query, NoCall, Store!NoCall
<1>10. CASE CloseBegin \/ Closing
  <2>1. UNCHANGED <<catalog, content, answer, call>> /\ pc \notin {"begin", "loop", "iterate"}
        /\ (UNCHANGED result \/ result' \in {"ok", "error"})
    BY <1>10 DEF CloseBegin, Closing, CloseConn, ClosePool, RemoveDir, Go, dataVars, queryVars, Ok, Error
  <2>2. call = NoCall BY <1>0, <2>1 DEF TxHoldsPrefix
  <2> QED BY <1>q, <2>1, <2>2, StoredUnchanged
<1>11. CASE Context \/ UNCHANGED vars
  <2>1. UNCHANGED <<catalog, content, answer, call, result>>
    BY <1>11 DEF Context, Cancel, AwaitDone, vars, queryVars
  <2> QED BY <1>q, <2>1, StoredUnchanged
<1> QED BY <1>1, <1>2, <1>3, <1>4, <1>5, <1>6, <1>7, <1>8, <1>9, <1>10, <1>11, NextCases
        DEF Setup, Entering, Inserting, Querying

\* Behind batches, transactions, files and a pinned connection there is a store in
\* which a chunk goes in whole or not at all, and an answer holds a whole table.
THEOREM LocalDBIsStore == Spec => ImplementsStore
<1> QED BY StoreInit, StoreStep, CallsKeepTheirState, PTL DEF Spec, ImplementsStore, Store!Spec

===============================================================================
