---- MODULE TokenCache ----
(***************************************************************************)
(* What one domain's directory in the L402 token store holds, seen from    *)
(* outside: nothing, the pending token of an invoice that is being paid,   *)
(* or the paid token of an invoice that was settled.  A token is           *)
(* identified by the payment hash it commits to; macaroon, preimage,       *)
(* amounts and creation time are not told apart.                           *)
(***************************************************************************)
CONSTANTS
  Tokens,   \* every payment hash there is
  None      \* stands for "no token"

NoToken    == [tok |-> None, paid |-> FALSE]
Pending(t) == [tok |-> t,    paid |-> FALSE]
Paid(t)    == [tok |-> t,    paid |-> TRUE]

Entry == {NoToken} \cup [tok: Tokens, paid: BOOLEAN]

\* A token without a preimage is pending; so is the absence of a token.
IsPending(e) == ~e.paid

\* Which writes StoreToken performs: the first token of a domain, or the paid
\* version of the token that is pending there.  Every other write is refused.
StoreAllowed(cur, new) ==
  \/ cur = NoToken
  \/ /\ IsPending(cur)
     /\ ~IsPending(new)
     /\ cur.tok = new.tok

\* What a write leaves behind whose check was made before somebody else put
\* `cur` there: paid and pending token are files of their own, and the paid one
\* is preferred, so only a pending token cannot displace a paid one.
WriteOver(cur, new) == IF ~IsPending(cur) /\ IsPending(new) THEN cur ELSE new
====
