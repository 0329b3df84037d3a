---- MODULE Offers ----
(***************************************************************************)
(* What a 402 response offers, and what the code makes of its price.  The  *)
(* price is read in four places: by the two handlers before they pay, and  *)
(* by the two dry runs (the command's and the MCP tool's, which are alike) *)
(* that tell an agent what a request would cost.                           *)
(*                                                                         *)
(* Amounts that do not fit into 64 bits are left out: the smallest of them *)
(* is more than there are bitcoins.                                        *)
(***************************************************************************)
EXTENDS Integers

CONSTANT NoAmount  \* a challenge that does not state an amount

\* An invoice is of a network, signet ("tbs") and simnet ("sb") among them, and
\* asks for some number of whole bitcoins or of a part of one, or leaves the
\* amount open.
Networks == {"bc", "tb", "bcrt", "tbs", "sb"}
Units    == {"btc", "m", "u", "n", "p", "none"}

\* A Payment challenge may state an amount in satoshis besides, read as an integer
\* with a sign.  A challenge that cannot be parsed, has expired or is not for
\* Lightning is not usable.
IsOffer(offer) ==
  /\ offer.scheme \in {"L402", "Payment"}
  /\ offer.network \in Networks
  /\ offer.digits \in Nat
  /\ offer.unit \in Units
  /\ offer.stated \in Int \cup {NoAmount}
  /\ offer.usable \in BOOLEAN

ASSUME OffersAssumption == NoAmount \notin Int

Offer(scheme, network, digits, unit, stated, usable) ==
  [scheme |-> scheme, network |-> network, digits |-> digits, unit |-> unit,
   stated |-> stated, usable |-> usable]

\* BOLT11: the invoice asks for so many satoshis or more.
AsksFor(offer, sats) ==
  CASE offer.unit = "btc" -> offer.digits * 100000000 >= sats
    [] offer.unit = "m"   -> offer.digits * 100000 >= sats
    [] offer.unit = "u"   -> offer.digits * 100 >= sats
    [] offer.unit = "n"   -> offer.digits >= sats * 10
    [] offer.unit = "p"   -> offer.digits >= sats * 10000
    [] OTHER              -> 0 >= sats

\* The pattern knows three networks and four units.
Readable(offer) ==
  offer.network \in {"bc", "tb", "bcrt"} /\ offer.unit \in {"m", "u", "n", "p"}

\* Whole satoshis, rounded down, of an invoice that the pattern matches.
ParseInvoiceAmountSat(offer) ==
  IF Readable(offer)
  THEN CASE offer.unit = "m" -> offer.digits * 100000
         [] offer.unit = "u" -> offer.digits * 100
         [] offer.unit = "n" -> offer.digits \div 10
         [] OTHER            -> offer.digits \div 10000
  ELSE 0

StatesPrice(offer) == offer.scheme = "Payment" /\ offer.stated \notin {NoAmount, 0}

\* HandleChallenge of the two schemes: a stated amount goes first, unless zero.
HandledAmount(offer) ==
  IF StatesPrice(offer) THEN offer.stated ELSE ParseInvoiceAmountSat(offer)

TooExpensive(offer, limit) == HandledAmount(offer) > 0 /\ HandledAmount(offer) > limit

\* Faulty variant: the amount of the invoice is not looked at.
StatedAlone(offer) == IF offer.stated = NoAmount THEN 0 ELSE offer.stated

\* The dry runs: a stated amount goes first if it is positive.
PreviewedAmount(offer) ==
  IF offer.scheme = "Payment" /\ offer.stated # NoAmount /\ offer.stated > 0
  THEN offer.stated ELSE ParseInvoiceAmountSat(offer)

WithinBudget(offer, limit) ==
  /\ offer.scheme = "L402" => offer.usable
  /\ PreviewedAmount(offer) <= limit

----
(* What the properties tell offers apart by.                               *)

\* The invoice asks for what its challenge states, in whole satoshis; or it states
\* nothing, and the invoice leaves its amount open or gives it in a form that the
\* code reads.
Plain(offer) ==
  IF StatesPrice(offer)
  THEN AsksFor(offer, offer.stated) /\ ~AsksFor(offer, offer.stated + 1)
  ELSE offer.unit = "none" \/ Readable(offer)

BelowZero(offer) == StatesPrice(offer) /\ offer.stated < 0
====
