---------------------------- MODULE SqliteMigrateMC ----------------------------
(***************************************************************************)
(* Instances of SqliteMigrate: two migrating connections, the application's *)
(* own connection, and files that read before they write, that touch TEMP  *)
(* tables first, and that cannot be run twice.                             *)
(***************************************************************************)
EXTENDS SqliteMigrate, TLC

CONSTANTS c1, c2

MCVersions == 1..2
MCScript == (1 :> <<"temp", "insert">>) @@ (2 :> <<"read", "create">>)
MCJournalScript == (1 :> <<"read", "insert">>) @@ (2 :> <<"tempCreate", "create">>)

\* The directory of an old release and of a newer one; and one whose first
\* file was added after the second had been applied.
MCListings == {{1}, {1, 2}, {2}}
===============================================================================
