------------------------------ MODULE MCLocalDB ------------------------------
(***************************************************************************)
(* An instance of LocalDB for TLC.                                         *)
(***************************************************************************)
EXTENDS LocalDB

\* Rows of 2 and of 5 values, told apart by a number: with maxBindParams = 4 a
\* statement holds two of the first, and one of the second although it is too wide.
Rows == [id : 1..3, width : {2, 5}]
Widths == [r \in Rows |-> r.width]
Ids(w, ids) == [i \in DOMAIN ids |-> [id |-> ids[i], width |-> w]]

\* No row, a batch and a remainder, one row each, a row of another width.
Chunks ==
  {<<>>, Ids(2, <<1, 2, 3>>), Ids(5, <<2, 1>>),
   Ids(2, <<1>>) \o Ids(5, <<2>>)}
===============================================================================
