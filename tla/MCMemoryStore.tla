----------------------------- MODULE MCMemoryStore -----------------------------
(* Symmetric values for the constants of MemoryStore. *)
EXTENDS MemoryStore, TLC

UrlsAndTokens == Permutations(Urls) \cup Permutations(Tokens)
===============================================================================
