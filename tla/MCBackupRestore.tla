--------------------------- MODULE MCBackupRestore ---------------------------
(***************************************************************************)
(* BackupRestore on three files.  Transactions.duckdb is another file like *)
(* the others.                                                             *)
(***************************************************************************)
EXTENDS BackupRestore

ThreeFiles == <<"AppData.duckdb", "Addresses.duckdb", "Transactions.sqlite">>
=============================================================================
