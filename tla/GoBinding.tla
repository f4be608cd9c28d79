------------------------------ MODULE GoBinding ------------------------------
(***************************************************************************)
(* The strings that cross the C boundary (crates/l402-ffi/src/lib.rs) as   *)
(* the Go package uses them (bindings/l402-go/l402.go).  The library keeps *)
(* the last error of each OS thread; a caller owns what                    *)
(* l402_client_receipts_json returns.  The Go package does not lock a      *)
(* goroutine to its thread, so each C call runs on any thread.             *)
(***************************************************************************)
EXTENDS Naturals, Sequences

CONSTANTS
    Goroutines,
    Threads,
    None,           \* a null pointer
    MaxStrings      \* bound on the strings allocated

VARIABLES
    drops,      \* per string allocated so far: how often its memory was given back
    lastError,  \* LAST_ERROR: per thread, the string it owns, or None
    step,       \* per goroutine: idle, failed, or which call's string it is reading
    string      \* per goroutine: the string it was given last, or None

vars == <<drops, lastError, step, string>>

Init ==
    /\ drops = <<>>
    /\ lastError = [t \in Threads |-> None]
    /\ step = [g \in Goroutines |-> "idle"]
    /\ string = [g \in Goroutines |-> None]

Dropped(s) == IF s = None THEN drops ELSE [drops EXCEPT ![s] = @ + 1]

Becomes(g, next, s) ==
    /\ step' = [step EXCEPT ![g] = next]
    /\ string' = [string EXCEPT ![g] = s]

-----------------------------------------------------------------------------
(* The calls that may fail: l402_mock_server_new, l402_client_new_mock,    *)
(* l402_client_get, l402_client_post and l402_client_receipts_json.  Each  *)
(* begins with clear_error, which drops the string of an earlier error.    *)

Succeeds(g, t) ==
    /\ step[g] = "idle"
    /\ drops' = Dropped(lastError[t])
    /\ lastError' = [lastError EXCEPT ![t] = None]
    /\ UNCHANGED <<step, string>>

\* l402_client_receipts_json: the string is the caller's.
Receipts(g, t) ==
    /\ step[g] = "idle"
    /\ Len(drops) < MaxStrings
    /\ drops' = Append(Dropped(lastError[t]), 0)
    /\ lastError' = [lastError EXCEPT ![t] = None]
    /\ Becomes(g, "read_receipts", Len(drops'))

\* set_error: the string is the thread's.
Fails(g, t) ==
    /\ step[g] = "idle"
    /\ Len(drops) < MaxStrings
    /\ drops' = Append(Dropped(lastError[t]), 0)
    /\ lastError' = [lastError EXCEPT ![t] = Len(drops')]
    /\ Becomes(g, "failed", None)

-----------------------------------------------------------------------------
(* lastError of the Go package, and the deferred free of Receipts.         *)

\* l402_last_error_message, of the thread it runs on now.
LastErrorMessage(g, t) ==
    /\ step[g] = "failed"
    /\ Becomes(g, IF lastError[t] = None THEN "idle" ELSE "read_error", lastError[t])
    /\ UNCHANGED <<drops, lastError>>

\* l402_string_free, after C.GoString has copied the string.
StringFree(g) ==
    /\ step[g] \in {"read_receipts", "read_error"}
    /\ drops' = Dropped(string[g])
    /\ Becomes(g, "idle", None)
    /\ UNCHANGED lastError

Next == \E g \in Goroutines :
    \/ StringFree(g)
    \/ \E t \in Threads : Succeeds(g, t) \/ Receipts(g, t) \/ Fails(g, t) \/ LastErrorMessage(g, t)

Spec == Init /\ [][Next]_vars

-----------------------------------------------------------------------------
(* Properties.                                                             *)

\* lib.rs:102, "Do **not** free it with `l402_string_free`": a string has one
\* owner, the library for an error and the caller for receipts, and is given
\* back once.
StringsFreedOnce == \A s \in 1 .. Len(drops) : drops[s] <= 1
===============================================================================
