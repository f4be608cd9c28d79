------------------------------ MODULE TokenStore ------------------------------
(***************************************************************************)
(* What the client relies on in a token store: get returns the token put   *)
(* last for the url, or nothing.  Any other token may be lost at a put;    *)
(* the one put is kept, and only a removal or a loss takes it away, or its *)
(* age in a store whose tokens expire.                                     *)
(***************************************************************************)
CONSTANTS
    Urls,
    Tokens,
    None,
    Expires     \* whether tokens grow too old

VARIABLES
    last,       \* per url: the last token put and since neither removed nor lost, or None
    answer      \* what the last get returned, with its url, or None

vars == <<last, answer>>

Init ==
    /\ last = [u \in Urls |-> None]
    /\ answer = None

Put ==
    /\ \E url \in Urls, token \in Tokens, lost \in SUBSET Urls :
          last' = [u \in Urls |->
                     IF u = url THEN token ELSE IF u \in lost THEN None ELSE last[u]]
    /\ UNCHANGED answer

Get ==
    /\ \E url \in Urls : answer' = [url |-> url, token |-> last[url]]
    /\ UNCHANGED last

Remove ==
    /\ \E url \in Urls : last' = [last EXCEPT ![url] = None]
    /\ UNCHANGED answer

Clear ==
    /\ last' = [u \in Urls |-> None]
    /\ UNCHANGED answer

Expire ==
    /\ Expires
    /\ \E old \in SUBSET Urls : last' = [u \in Urls |-> IF u \in old THEN None ELSE last[u]]
    /\ UNCHANGED answer

Next == Put \/ Get \/ Remove \/ Clear \/ Expire

Spec == Init /\ [][Next]_vars
===============================================================================
