---------------------------- MODULE MCSqliteStore ----------------------------
(* Symmetric values for the constants of SqliteStore, and its states without *)
(* answer, which no action reads: the steps that set it are checked as steps. *)
EXTENDS SqliteStore, TLC

Symmetric == Permutations(Processes) \cup Permutations(Urls)
             \cup Permutations(Tokens) \cup Permutations(Callers)
Unobserved == <<now, file, conn, call, latest>>
===============================================================================
