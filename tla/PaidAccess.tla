---- MODULE PaidAccess ----
(***************************************************************************)
(* What the payment transport promises its callers.  Access to a domain is *)
(* bought once and then shared by every request to it (L402), or bought by *)
(* one request for itself (Payment).  A request is served only if there is *)
(* access for it or the servers ask for none, and it buys nothing once it  *)
(* has returned.                                                           *)
(***************************************************************************)
CONSTANTS
  Requests, Domains, DomainOf, None,
  Opened,    \* the domains that an earlier run of the program bought
  Free       \* whether a server may serve a request that nobody paid for

VARIABLES
  owner,     \* the request whose purchase opened each domain, the domain
             \* itself if an earlier run did, or None
  single,    \* the requests that bought access for themselves
  outcome    \* what each request returned, "none" before it did

accessVars == <<owner, single, outcome>>

TypeOK ==
  /\ owner \in [Domains -> Requests \cup Opened \cup {None}]
  /\ single \subseteq Requests
  /\ outcome \in [Requests -> {"none", "served", "unpaid", "error"}]

Init ==
  /\ owner = [d \in Domains |-> IF d \in Opened THEN d ELSE None]
  /\ single = {}
  /\ outcome = [r \in Requests |-> "none"]

HasAccess(r) == owner[DomainOf[r]] # None \/ r \in single

BuyForDomain(r) ==
  /\ outcome[r] = "none"
  /\ owner[DomainOf[r]] = None
  /\ owner' = [owner EXCEPT ![DomainOf[r]] = r]
  /\ UNCHANGED <<single, outcome>>

BuyForSelf(r) ==
  /\ outcome[r] = "none"
  /\ ~HasAccess(r)
  /\ single' = single \cup {r}
  /\ UNCHANGED <<owner, outcome>>

Serve(r) ==
  /\ outcome[r] = "none"
  /\ HasAccess(r) \/ Free
  /\ outcome' = [outcome EXCEPT ![r] = "served"]
  /\ UNCHANGED <<owner, single>>

Refuse(r) ==
  /\ outcome[r] = "none"
  /\ \E o \in {"unpaid", "error"} : outcome' = [outcome EXCEPT ![r] = o]
  /\ UNCHANGED <<owner, single>>

Next == \E r \in Requests :
  BuyForDomain(r) \/ BuyForSelf(r) \/ Serve(r) \/ Refuse(r)

Spec == Init /\ [][Next]_accessVars
====
