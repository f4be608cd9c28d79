-------------------------------- MODULE Bolt11 --------------------------------
(***************************************************************************)
(* decode_bolt11_amount (crates/l402-proto/src/bolt11.rs): the amount of   *)
(* an invoice, and its rounding to satoshis.                               *)
(*                                                                         *)
(* An invoice is what the decoder tells apart of its text: the network     *)
(* prefix, whether there is a separator, the text of the number and the    *)
(* character after it.  The thousands of the code are Thousand, which is   *)
(* smaller under TLC; so is MaxU64.                                        *)
(***************************************************************************)
EXTENDS Integers

CONSTANTS
    None,       \* Option::None
    Invalid,    \* Err
    Thousand,   \* the ratio of one unit to the next, and of a satoshi to a msat
    MaxU64      \* u64::MAX

ASSUME Bolt11Assumption ==
    /\ Thousand \in Nat \ {0} /\ Thousand % 10 = 0
    /\ MaxU64 \in Nat
    /\ {None, Invalid} \cap Int = {} /\ None # Invalid

\* "other" stands for any other prefix, "junk" for a character that is neither
\* a digit nor a multiplier, and "btc" for none after the number.
Networks == {"lnbc", "lntb", "LNBC", "other"}
Units == {"milli", "micro", "nano", "pico", "btc", "junk"}

\* A number that is absent is None, one that is not all digits Invalid.
IsInvoice(invoice) ==
    /\ DOMAIN invoice = {"network", "separator", "number", "unit"}
    /\ invoice.network \in Networks
    /\ invoice.separator \in BOOLEAN
    /\ invoice.number \in Nat \cup {None, Invalid}
    /\ invoice.unit \in Units

DivCeil(n, d) == (n + d - 1) \div d

\* MULTIPLIERS and BTC_TO_MSAT, for the units that have a factor in msat.
Factor(unit) ==
    CASE unit = "nano" -> Thousand \div 10
      [] unit = "micro" -> Thousand * (Thousand \div 10)
      [] unit = "milli" -> Thousand * Thousand * (Thousand \div 10)
      [] unit = "btc" -> Thousand * Thousand * Thousand * (Thousand \div 10)

\* Mutant: a pico amount is rounded.
ScaledRounding(number, unit) ==
    IF unit = "pico" THEN number \div 10
    ELSE IF number * Factor(unit) <= MaxU64 THEN number * Factor(unit) ELSE Invalid

\* parse_amount_with_multiplier and parse_amount_btc, of a number of digits.
Scaled(number, unit) ==
    IF unit = "pico"
    THEN IF number % 10 = 0 THEN number \div 10 ELSE Invalid
    ELSE IF number * Factor(unit) <= MaxU64 THEN number * Factor(unit) ELSE Invalid

\* The number may be absent only with no multiplier after it; a number that
\* u64 cannot hold is refused before it is scaled, and so is an amount of 0.
DecodeAmount(invoice) ==
    LET number == invoice.number
        msat == Scaled(number, invoice.unit)
    IN  IF invoice.network = "other" \/ ~invoice.separator THEN Invalid
        ELSE IF number = None /\ invoice.unit = "btc" THEN None
        ELSE IF number \notin 0 .. MaxU64 \/ invoice.unit = "junk" \/ msat = 0 THEN Invalid
        ELSE msat

\* InvoiceAmount::satoshis.  Mutant: satoshis_floor.
SatoshisFloor(msat) == msat \div Thousand

Satoshis(msat) == DivCeil(msat, Thousand)

-----------------------------------------------------------------------------
(* What BOLT11 says an invoice asks for, in tenths of a msat: a number of   *)
(* digits, times the unit.                                                 *)

Weight(unit) ==
    CASE unit = "pico" -> 1
      [] unit = "nano" -> Thousand
      [] unit = "micro" -> Thousand * Thousand
      [] unit = "milli" -> Thousand * Thousand * Thousand
      [] unit = "btc" -> Thousand * Thousand * Thousand * Thousand

Pico(invoice) == invoice.number * Weight(invoice.unit)

WellFormed(invoice) ==
    /\ invoice.network # "other"
    /\ invoice.separator
    /\ invoice.number \in Nat
    /\ invoice.unit # "junk"
===============================================================================
