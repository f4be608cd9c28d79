------------------------------ MODULE MCExchange ------------------------------
(* Values for the constants of Exchange. *)
EXTENDS Exchange, TLC

CONSTANTS a, b

\* One payer with any wallet, one with the mock's.
AnyAndMock == a :> Adapters @@ b :> {"mock"}

AnyAndMockServer == a :> {"mock", "other"} @@ b :> {"mock"}

Bolt(number, unit) == [network |-> "lnbc", separator |-> TRUE, number |-> number, unit |-> unit]

\* Other parameters: a note with a comma, an equals sign and a key in quotes,
\* and one with nothing after its equals sign.
Note == <<Text("note"), Equals, Quote, Text("a"), Comma, Text("macaroon"), Equals, Text("b"), Quote>>
Flag == <<Text("a"), Equals>>
EmptyMacaroon == <<Text("macaroon"), Equals, Quote, Quote>>

Header(scheme, text) == [scheme |-> scheme, text |-> text]
Then(s, t) == s \o <<Comma>> \o t

\* Challenges: both orders, notes anywhere, empty parameters, a key twice.
GoodTemplates ==
    {Header("LSAT", Then(Then(Invoice(1), Macaroon(1)), <<>>)),
     Header("L402", Then(Note, Then(Macaroon(1), Invoice(1)))),
     Header("L402", Then(Macaroon(1), Then(Note, Then(<<>>, Then(Flag, Invoice(1)))))),
     Header("L402", Then(Invoice(1), Then(Note, Then(Note, Then(Macaroon(1), Invoice(1))))))}

\* Headers that are none: another scheme, a parameter missing, without a key or
\* with its quote open, a macaroon that is empty or another server's.
BadTemplates ==
    {Header("Bearer", Then(Macaroon(1), Invoice(1))),
     Header("L402", Macaroon(1)),
     Header("L402", Then(Macaroon(1), Then(Invoice(1), <<Text("a")>>))),
     Header("L402", Then(<<Text("note"), Equals, Quote>>, Then(Macaroon(1), Invoice(1)))),
     Header("L402", Then(EmptyMacaroon, Invoice(1))),
     Header("L402", Then(Macaroon(0), Invoice(1)))}
AllTemplates == GoodTemplates \cup BadTemplates

\* With Thousand = 20 a satoshi is 20 msat, a nano 2 msat, a milli 800, a bitcoin 16000.
Readables == {Bolt(30, "pico")}
Unreadables == {Bolt(35, "pico"), Bolt(2, "btc"), Bolt(0, "nano"), Bolt(99999, "pico"),
                Bolt(None, "btc"), Bolt(None, "nano"), Bolt(Invalid, "nano"), Bolt(1, "junk"),
                [Bolt(1, "milli") EXCEPT !.network = "LNBC"],
                [Bolt(5, "nano") EXCEPT !.network = "other"],
                [Bolt(5, "nano") EXCEPT !.separator = FALSE]}
ReadablesAndNot == Readables \cup Unreadables
===============================================================================
