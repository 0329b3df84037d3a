---- MODULE MCPaymentTransport ----
(* Instances of PaymentTransport for the model checker.                    *)
EXTENDS PaymentTransport, TLC

CONSTANTS r1, r2, r3, d1, d2, p1, p2

Challenge(headers, price) ==
  [status |-> 402, headers |-> headers, usable |-> TRUE, price |-> price]

L402Offer      == Challenge(<<"L402">>, 1)
PaymentOffer   == Challenge(<<"Payment">>, 1)
BothOffer      == Challenge(<<"L402", "Payment">>, 1)
ReversedOffer  == Challenge(<<"Payment", "L402">>, 1)
ExpensiveOffer == Challenge(<<"L402">>, 3)
UnknownAmount  == Challenge(<<"L402">>, 0)
BrokenOffer    == [L402Offer EXCEPT !.usable = FALSE]
Opaque         == Challenge(<< >>, 0)
Free           == [NoAnswer EXCEPT !.status = 200]

L402First    == <<"L402", "Payment">>
PaymentFirst == <<"Payment", "L402">>

\* Three requests of one process to one domain.
SharedDomain == [r \in Requests |-> d1]
OneProcess   == [r \in Requests |-> p1]

\* The first request runs in a process of its own.
TwoProcesses == [r \in Requests |-> IF r = r1 THEN p1 ELSE p2]
TwoDomains   == [r \in Requests |-> IF r = r1 THEN d1 ELSE d2]

PaidOffers == {L402Offer, PaymentOffer, ExpensiveOffer, Opaque}
OneOffer   == {L402Offer}
EveryOffer == {L402Offer, PaymentOffer, BothOffer, BrokenOffer, Free}

Symmetry == Permutations(Requests)
====
