-------------------------------- MODULE Headers --------------------------------
(***************************************************************************)
(* The headers of the protocol (crates/l402-proto/src/challenge.rs and     *)
(* token.rs).  A header is a scheme and a sequence of symbols: the         *)
(* punctuation the parsers look for, and the words between it, each a      *)
(* macaroon, an invoice or a preimage by its number, or other text.  A     *)
(* macaroon that no server here issued has number 0.  Spaces, which the    *)
(* parsers trim, are left out.                                             *)
(***************************************************************************)
EXTENDS Integers, Sequences, FiniteSets, FiniteSetsExt

CONSTANT NotAHeader    \* Err

Symbol(kind, id) == [kind |-> kind, id |-> id]
Text(kind) == Symbol(kind, 0)
Quote == Text("quote")
Comma == Text("comma")
Equals == Text("equals")
Colon == Text("colon")

KnownScheme(header) == header.scheme \in {"L402", "LSAT"}

-----------------------------------------------------------------------------
(* str::split_once, str::trim_matches('"').                                *)

\* The places of a symbol; the text before and after the first of them.
Places(text, symbol) == {k \in 1 .. Len(text) : text[k] = symbol}
Before(text, symbol) == SubSeq(text, 1, Min(Places(text, symbol)) - 1)
After(text, symbol) == SubSeq(text, Min(Places(text, symbol)) + 1, Len(text))

\* Everything from the first symbol that is not a quote to the last.
Unquoted(text) ==
    LET inner == {k \in 1 .. Len(text) : text[k] # Quote}
    IN  IF inner = {} THEN <<>> ELSE SubSeq(text, Min(inner), Max(inner))

-----------------------------------------------------------------------------
(* L402Challenge::from_header.                                             *)

\* Mutant: a comma inside quotes ends the parameter too.
CommasAnywhere(text) == Places(text, Comma)

\* Whether the quotes before a place are an odd number.  A backslash before a
\* quote is nothing to the parser.
InQuotes(text, k) == Cardinality({j \in Places(text, Quote) : j < k}) % 2 = 1

\* The commas that separate parameters.
Commas(text) == {k \in Places(text, Comma) : ~InQuotes(text, k)}

\* parse_params: the text between one such comma and the next; a parameter is
\* known by the place it ends before, and is none if it is empty.
Parameter(text, end) ==
    SubSeq(text, Max({0} \cup {k \in Commas(text) : k < end}) + 1, end - 1)
Params(text) ==
    {end \in Commas(text) \cup {Len(text) + 1} : Parameter(text, end) # <<>>}

\* The value of the last parameter with a key; parse_kv splits at the first
\* equals sign.
WithKey(text, key) ==
    {end \in Params(text) : Before(Parameter(text, end), Equals) = <<Text(key)>>}
Value(text, key) == Unquoted(After(Parameter(text, Max(WithKey(text, key))), Equals))

\* A value that is one word of a kind.  A word is a macaroon if it is base64
\* text, and an invoice if it starts with lnbc or lntb; no text at all is
\* base64 too.
IsA(value, kind) ==
    \/ Len(value) = 1 /\ value[1].kind = kind
    \/ value = <<>> /\ kind = "mac"
Number(value) == IF value = <<>> THEN 0 ELSE value[1].id

\* The numbers of the macaroon and the invoice.
FromHeader(header) ==
    LET text == header.text
        macaroon == Value(text, "macaroon")
        invoice == Value(text, "invoice")
    IN  IF /\ KnownScheme(header)
           /\ \A end \in Params(text) : Places(Parameter(text, end), Equals) # {}
           /\ WithKey(text, "macaroon") # {} /\ WithKey(text, "invoice") # {}
           /\ IsA(macaroon, "mac") /\ IsA(invoice, "inv")
        THEN [macaroon |-> Number(macaroon), invoice |-> Number(invoice)]
        ELSE NotAHeader

-----------------------------------------------------------------------------
(* L402Token::to_header_value.                                             *)

\* Mutant: the preimage first.
ToHeaderSwapped(macaroon, preimage) ==
    [scheme |-> "L402", text |-> <<Symbol("pre", preimage), Colon, Symbol("mac", macaroon)>>]

ToHeader(macaroon, preimage) ==
    [scheme |-> "L402", text |-> <<Symbol("mac", macaroon), Colon, Symbol("pre", preimage)>>]
===============================================================================
