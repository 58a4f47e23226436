------------------------------- MODULE Tables -------------------------------
(***************************************************************************)
(* The MySQL statements that the CGI programs issue.  The server and the   *)
(* schema are not part of the repository; they are modelled from the way   *)
(* the programs use them.                                                  *)
(*                                                                         *)
(* A WHERE clause of the programs compares for equality the columns        *)
(* that identify a row for them (md5 of file_info; user of                 *)
(* user_file_count; user, md5 and filename of user_file_list and           *)
(* share_file_list).  A table is therefore a function from those columns   *)
(* to the sequence of the rows that hold them, in insertion order.  One    *)
(* statement is atomic, and the programs never open a transaction.         *)
(***************************************************************************)
EXTENDS Sequences, Integers

\* select ... where key: mysql_num_rows(res_set) > 0.
HasRow(table, key) == table[key] # <<>>

\* What process_result_one copies into the caller's buffer: the first row of
\* the result.
FirstRow(table, key) == table[key][1]

\* insert into table values (key, row).
Insert(table, key, row) == [table EXCEPT ![key] = Append(@, row)]

\* delete from table where key: deleting nothing is not an error.
DeleteWhere(table, key) == [table EXCEPT ![key] = <<>>]

\* update table set column where key, for a table whose rows are the column:
\* every row of the key is set, and updating nothing is not an error.
UpdateWhere(table, key, value) ==
  [table EXCEPT ![key] = [i \in 1..Len(@) |-> value]]

\* The same for a WHERE clause that several keys satisfy.
UpdateAmong(table, keys, value) ==
  [k \in DOMAIN table |-> IF k \in keys THEN [i \in 1..Len(table[k]) |-> value]
                                         ELSE table[k]]

\* The same for the column count of rows that have other columns.
UpdateCountWhere(table, key, n) ==
  [table EXCEPT ![key] = [i \in 1..Len(@) |-> [@[i] EXCEPT !.count = n]]]
=============================================================================
