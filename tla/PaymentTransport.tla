---- MODULE PaymentTransport ----
(***************************************************************************)
(* The payment-aware HTTP transport: PaymentTransport.RoundTrip with the   *)
(* two payment schemes behind it (the L402 handler, which caches its       *)
(* tokens in the shared token store, and the Payment handler, which does   *)
(* not), the payment event log, the Lightning node and the paid servers.   *)
(*                                                                         *)
(* A step is one access to state that somebody else can touch: a store     *)
(* call, a lock operation, a request to the server, a payment, a database  *)
(* write, an atomic load or store.  Everything a request does between two  *)
(* such accesses is private and part of the step before it.                *)
(*                                                                         *)
(* A request pays at most one invoice during its RoundTrip, so the request *)
(* also names that invoice, the token it buys and the event that records   *)
(* the payment.  A token cached by an earlier run is named by its domain.  *)
(***************************************************************************)
EXTENDS Naturals, Sequences

CONSTANTS
  Requests,    \* HTTP requests; each one is a goroutine inside RoundTrip
  Domains,     \* what DomainFromURL returns for them
  Procs,       \* lnget processes, which share the token store and the database
  DomainOf,    \* the domain a request goes to
  ProcOf,      \* the process a request runs in
  HasBody,     \* the requests with a body (POST, PUT, PATCH)
  Cached,      \* the domains whose paid token an earlier run left in the store
  Schemes,     \* the payment schemes in order of preference
  Answers,     \* the responses of a server that sees no valid credential
  MaxCost,     \* the largest invoice that is paid automatically
  Faults,      \* what may go wrong in this instance
  None         \* no request, no token, no event, no scheme

SchemeNames == {"L402", "Payment"}

FaultKinds ==
  { "net",       \* a request to the server fails (or the client's deadline passed)
    "payfail",   \* the node reports a failed payment
    "timeout",   \* PayInvoice gives up while the payment is still in flight
    "mismatch",  \* a Payment preimage does not match the advertised hash
    "log",       \* the event database refuses a write
    "io",        \* the token store refuses a write or a removal
    "crash",     \* a process dies
    "revoke",    \* the server stops honouring a token it sold
    "remove" }   \* the dashboard or `lnget tokens remove` deletes a token

ASSUME TransportAssumption ==
  /\ DomainOf \in [Requests -> Domains]
  /\ ProcOf \in [Requests -> Procs]
  /\ HasBody \subseteq Requests
  /\ Cached \subseteq Domains
  /\ Requests \cap Domains = {}
  /\ Schemes \in Seq(SchemeNames)
  /\ Answers \subseteq [status: Nat, headers: Seq(SchemeNames),
                        usable: BOOLEAN, price: Nat]
  /\ MaxCost \in Nat
  /\ Faults \subseteq FaultKinds
  /\ None \notin Requests \cup Domains \cup SchemeNames

Tokens == Requests \cup Domains

INSTANCE TokenCache

\* The domain that sold a token.
SoldBy(t) == IF t \in Requests THEN DomainOf[t] ELSE t

----
VARIABLES
  pc,           \* where each request is
  cred,         \* the token whose credential a request holds
  answer,       \* the last challenge (or response) a request kept
  bodyRead,     \* the requests whose body reader has been consumed
  eid,          \* ChallengeResult.EventID
  result,       \* what RoundTrip returned
  reported,     \* the payment DoDownload attached to its result
  lock,         \* domainLocks of each process: who holds which
  lastEventID,  \* the two handlers' lastEventID, per process
  lastPayment,  \* the transport's lastPayment, per process
  store,        \* the token store's entry for each domain
  event,        \* the event row of each payment
  enriched,     \* the request whose response metadata an event row carries
  invoice,      \* the node's (and the server's) view of each invoice
  revoked       \* the tokens the server no longer honours

memVars  == <<lock, lastEventID, lastPayment>>
diskVars == <<store, event, enriched>>
envVars  == <<invoice, revoked>>
vars     == <<pc, cred, answer, bodyRead, eid, result, reported,
              memVars, diskVars, envVars>>

\* The steps of RoundTrip taken while the domain's lock is held.
LockedStages ==
  {"recheck", "retryCached", "reissue", "handle", "removeStale", "storePending",
   "pay", "await", "recordFailure", "recordSuccess", "storeToken", "loadEventID",
   "publish", "retryPaid", "enrich"}

Stages == {"start", "sendCached", "invalidate", "sendPlain", "lock"}
            \cup LockedStages \cup {"returned", "done", "crashed"}

Ended == {"done", "crashed"}

NoAnswer == [status |-> 0,   headers |-> << >>, usable |-> FALSE, price |-> 0]
Served   == [status |-> 200, headers |-> << >>, usable |-> FALSE, price |-> 0]

Init ==
  /\ pc          = [r \in Requests |-> "start"]
  /\ cred        = [r \in Requests |-> None]
  /\ answer      = [r \in Requests |-> NoAnswer]
  /\ bodyRead    = {}
  /\ eid         = [r \in Requests |-> None]
  /\ result      = [r \in Requests |-> "none"]
  /\ reported    = [r \in Requests |-> None]
  /\ lock        = [p \in Procs |-> [d \in Domains |-> None]]
  /\ lastEventID = [p \in Procs |-> [s \in SchemeNames |-> None]]
  /\ lastPayment = [p \in Procs |-> None]
  /\ store       = [d \in Domains |-> IF d \in Cached THEN Paid(d) ELSE NoToken]
  /\ event       = [r \in Requests |-> "none"]
  /\ enriched    = [r \in Requests |-> None]
  /\ invoice     = [t \in Tokens |-> IF t \in Cached THEN "settled" ELSE "none"]
  /\ revoked     = {}

----
(* What the steps are made of.                                             *)

Domain(r) == DomainOf[r]
Proc(r)   == ProcOf[r]

Goto(r, stage) ==
  /\ pc' = [pc EXCEPT ![r] = stage]
  /\ UNCHANGED <<result, lock>>

\* Faulty variant: the lock is given back on the way to a response only.
ReturnUnlocksServed(r, outcome) ==
  /\ pc' = [pc EXCEPT ![r] = "returned"]
  /\ result' = [result EXCEPT ![r] = outcome]
  /\ lock' = [lock EXCEPT ![Proc(r)][Domain(r)] =
                IF @ = r /\ outcome # "error" THEN None ELSE @]

\* RoundTrip returns; the deferred Unlock runs if the lock was taken.
Return(r, outcome) ==
  /\ pc' = [pc EXCEPT ![r] = "returned"]
  /\ result' = [result EXCEPT ![r] = outcome]
  /\ lock' = [lock EXCEPT ![Proc(r)][Domain(r)] = IF @ = r THEN None ELSE @]

\* L402 looks at the first WWW-Authenticate header only, Payment at all.
DetectsChallenge(s, a) ==
  CASE s = "L402"    -> a.headers # << >> /\ Head(a.headers) = "L402"
    [] s = "Payment" -> \E i \in DOMAIN a.headers : a.headers[i] = "Payment"

\* The positions in Schemes whose scheme recognises the challenge.
Matching(a) == {i \in DOMAIN Schemes : DetectsChallenge(Schemes[i], a)}

\* detectChallenge: the first scheme that recognises a 402, or None.
MatchedScheme(a) ==
  LET first == {i \in Matching(a) : \A j \in Matching(a) : i <= j} IN
    IF a.status # 402 \/ first = {} THEN None ELSE Schemes[CHOOSE i \in first : TRUE]

\* A challenge of unknown amount (price 0) is not held against the budget.
WithinBudget(a) == ~(a.price > 0 /\ a.price > MaxCost)

\* Faulty variant: GetTokenForDomain without its check for pending tokens.
CachedEvenPending(d) == store[d].tok

\* Only the L402 scheme caches, and only paid tokens count.
CachedCredential(d) == IF IsPending(store[d]) THEN None ELSE store[d].tok

\* The server honours the token of a settled invoice until it revokes it.
Honours(t) == invoice[t] = "settled" /\ t \notin revoked

\* The responses to a request that presents the credential of token t.
Replies(t) == IF Honours(t) THEN {Served} ELSE Answers

\* Faulty variant: the status of the response is not looked at.
AnyOutcome(a) == "served"

Outcome(a) == IF a.status = 402 THEN "unpaid" ELSE "served"

\* Faulty variant: a request without a body counts as consumed, too.
ReadAnyBody(r) == bodyRead' = bodyRead \cup {r}

\* Base.RoundTrip(req), and the clone of req that shares its Body, read the
\* one reader there is; only retryWithCredential takes a fresh one.
ReadBody(r) == bodyRead' = bodyRead \cup ({r} \cap HasBody)

\* A request whose body was read before is shorter than it declares: net/http
\* refuses it, unless it happens to reuse a connection and rewinds the body.
MayFail(r) == r \in bodyRead \/ "net" \in Faults

IsL402(r) == MatchedScheme(answer[r]) = "L402"

\* FileStore.RemoveToken; both callers drop its error.
RemoveOrIgnore(d) ==
  \/ store' = [store EXCEPT ![d] = NoToken]
  \/ "io" \in Faults /\ UNCHANGED store
----
(* RoundTrip up to the domain's lock.                                      *)

LookupCached(r) ==
  /\ pc[r] = "start"
  /\ cred' = [cred EXCEPT ![r] = CachedCredential(Domain(r))]
  /\ Goto(r, IF cred'[r] = None THEN "sendPlain" ELSE "sendCached")
  /\ UNCHANGED <<answer, bodyRead, eid, reported, lastEventID, lastPayment,
                 diskVars, envVars>>

\* Faulty variant: a network error is taken for a rejected credential.
SendCachedErrorRejects(r) ==
  /\ pc[r] = "sendCached"
  /\ ReadBody(r)
  /\ \/ "net" \in Faults /\ Goto(r, "invalidate") /\ UNCHANGED answer
     \/ \E a \in Replies(cred[r]) :
          /\ answer' = [answer EXCEPT ![r] = a]
          /\ IF a.status = 402 THEN Goto(r, "invalidate") ELSE Return(r, "served")
  /\ UNCHANGED <<cred, eid, reported, lastEventID, lastPayment, diskVars, envVars>>

\* The request goes out with the cached credential.
SendCached(r) ==
  /\ pc[r] = "sendCached"
  /\ ReadBody(r)
  /\ \/ /\ "net" \in Faults
        /\ Return(r, "error")
        /\ UNCHANGED answer
     \/ \E a \in Replies(cred[r]) :
          /\ answer' = [answer EXCEPT ![r] = a]
          /\ IF a.status = 402 THEN Goto(r, "invalidate") ELSE Return(r, "served")
  /\ UNCHANGED <<cred, eid, reported, lastEventID, lastPayment, diskVars, envVars>>

\* The credential was rejected: whatever the store now has for the domain
\* goes.  The 402 is kept only if it carries a challenge a scheme knows.
InvalidateCredential(r) ==
  /\ pc[r] = "invalidate"
  /\ RemoveOrIgnore(Domain(r))
  /\ Goto(r, IF MatchedScheme(answer[r]) = None THEN "sendPlain" ELSE "lock")
  /\ UNCHANGED <<cred, answer, bodyRead, eid, reported, lastEventID, lastPayment,
                 event, enriched, envVars>>

\* The request goes out without a credential; a challenge leads to `next`,
\* every other response is the caller's.
SendUnpaid(r, next) ==
  /\ ReadBody(r)
  /\ \/ /\ MayFail(r)
        /\ Return(r, "error")
        /\ UNCHANGED answer
     \/ \E a \in Answers :
          /\ answer' = [answer EXCEPT ![r] = a]
          /\ IF MatchedScheme(a) = None THEN Return(r, Outcome(a)) ELSE Goto(r, next)
  /\ UNCHANGED <<cred, eid, reported, lastEventID, lastPayment, diskVars, envVars>>

SendPlain(r) == pc[r] = "sendPlain" /\ SendUnpaid(r, "lock")

\* Faulty variant: every caller is given a mutex of its own.
LockFreshMutex(r) ==
  /\ pc[r] = "lock"
  /\ pc' = [pc EXCEPT ![r] = "recheck"]
  /\ UNCHANGED <<cred, answer, bodyRead, eid, result, reported,
                 memVars, diskVars, envVars>>

\* Faulty variant: one mutex serves all the domains.
LockAllDomains(r) ==
  /\ pc[r] = "lock"
  /\ \A d \in Domains : lock[Proc(r)][d] = None
  /\ lock' = [lock EXCEPT ![Proc(r)][Domain(r)] = r]
  /\ pc' = [pc EXCEPT ![r] = "recheck"]
  /\ UNCHANGED <<cred, answer, bodyRead, eid, result, reported,
                 lastEventID, lastPayment, diskVars, envVars>>

LockDomain(r) ==
  /\ pc[r] = "lock"
  /\ lock[Proc(r)][Domain(r)] = None
  /\ lock' = [lock EXCEPT ![Proc(r)][Domain(r)] = r]
  /\ pc' = [pc EXCEPT ![r] = "recheck"]
  /\ UNCHANGED <<cred, answer, bodyRead, eid, result, reported,
                 lastEventID, lastPayment, diskVars, envVars>>

----
(* RoundTrip under the lock.                                               *)

\* Faulty variant: no second look at the store once the lock is held.
NoDoubleCheck(r) ==
  /\ pc[r] = "recheck"
  /\ Goto(r, "reissue")
  /\ UNCHANGED <<cred, answer, bodyRead, eid, reported, lastEventID, lastPayment,
                 diskVars, envVars>>

\* Did another request pay for the domain while this one waited?
DoubleCheck(r) ==
  /\ pc[r] = "recheck"
  /\ cred' = [cred EXCEPT ![r] = CachedCredential(Domain(r))]
  /\ Goto(r, IF cred'[r] = None THEN "reissue" ELSE "retryCached")
  /\ UNCHANGED <<answer, bodyRead, eid, reported, lastEventID, lastPayment,
                 diskVars, envVars>>

\* Whatever the server says to the other request's token is the caller's.
RetryCached(r) ==
  /\ pc[r] = "retryCached"
  /\ \/ "net" \in Faults /\ Return(r, "error")
     \/ \E a \in Replies(cred[r]) : Return(r, Outcome(a))
  /\ UNCHANGED <<cred, answer, bodyRead, eid, reported, lastEventID, lastPayment,
                 diskVars, envVars>>

\* The request is sent once more to get a challenge that is not stale.
Reissue(r) == pc[r] = "reissue" /\ SendUnpaid(r, "handle")

\* HandleChallenge refuses a challenge it cannot use or that costs too much.
RejectChallenge(r) ==
  /\ pc[r] = "handle"
  /\ ~(answer[r].usable /\ WithinBudget(answer[r]))
  /\ Return(r, "error")
  /\ UNCHANGED <<cred, answer, bodyRead, eid, reported, lastEventID, lastPayment,
                 diskVars, envVars>>

\* Faulty variant: L402 pays before anything is stored.
AcceptWithoutPending(r) ==
  /\ pc[r] = "handle"
  /\ answer[r].usable /\ WithinBudget(answer[r])
  /\ Goto(r, "pay")
  /\ UNCHANGED <<cred, answer, bodyRead, eid, reported, lastEventID, lastPayment,
                 diskVars, envVars>>

\* Otherwise L402 prepares the store for the new token; Payment just pays.
AcceptChallenge(r) ==
  /\ pc[r] = "handle"
  /\ answer[r].usable /\ WithinBudget(answer[r])
  /\ Goto(r, IF IsL402(r) THEN "removeStale" ELSE "pay")
  /\ UNCHANGED <<cred, answer, bodyRead, eid, reported, lastEventID, lastPayment,
                 diskVars, envVars>>

RemoveStale(r) ==
  /\ pc[r] = "removeStale"
  /\ RemoveOrIgnore(Domain(r))
  /\ Goto(r, "storePending")
  /\ UNCHANGED <<cred, answer, bodyRead, eid, reported, lastEventID, lastPayment,
                 event, enriched, envVars>>

\* Faulty variant: a refused write is only logged.
StoreOrWarn(r, new, next) ==
  LET d == Domain(r) IN
    \/ /\ StoreAllowed(store[d], new)
       /\ store' = [store EXCEPT ![d] = new]
       /\ Goto(r, next)
    \/ /\ ~StoreAllowed(store[d], new) \/ "io" \in Faults
       /\ Goto(r, next)
       /\ UNCHANGED store

\* StoreToken looks at the current token and then writes.  In one process the
\* domain's lock makes that a single step; another process may come between.
RacesAnotherProcess(r) ==
  \E s \in Requests : Domain(s) = Domain(r) /\ Proc(s) # Proc(r)

\* FileStore.StoreToken, as r's HandleChallenge calls it with token `new`.
StoreOrFail(r, new, next) ==
  LET d == Domain(r) IN
    \/ /\ StoreAllowed(store[d], new)
       /\ store' = [store EXCEPT ![d] = new]
       /\ Goto(r, next)
    \/ /\ RacesAnotherProcess(r)
       /\ store' = [store EXCEPT ![d] = WriteOver(@, new)]
       /\ Goto(r, next)
    \/ /\ ~StoreAllowed(store[d], new) \/ "io" \in Faults
       /\ Return(r, "error")
       /\ UNCHANGED store

StorePending(r) ==
  /\ pc[r] = "storePending"
  /\ StoreOrFail(r, Pending(r), "pay")
  /\ UNCHANGED <<cred, answer, bodyRead, eid, reported, lastEventID, lastPayment,
                 event, enriched, envVars>>
PayInvoice(r) ==
  /\ pc[r] = "pay"
  /\ invoice' = [invoice EXCEPT ![r] = "inflight"]
  /\ Goto(r, "await")
  /\ UNCHANGED <<cred, answer, bodyRead, eid, reported, lastEventID, lastPayment,
                 diskVars, revoked>>

\* Faulty variant: a payment in flight is taken for a settled one.
PaymentSucceedsEarly(r) ==
  /\ pc[r] = "await"
  /\ invoice[r] \in {"inflight", "settled"}
  /\ Goto(r, "recordSuccess")
  /\ UNCHANGED <<cred, answer, bodyRead, eid, reported, lastEventID, lastPayment,
                 diskVars, envVars>>

PaymentSucceeds(r) ==
  /\ pc[r] = "await"
  /\ invoice[r] = "settled"
  /\ \/ Goto(r, "recordSuccess")
     \/ /\ "mismatch" \in Faults
        /\ ~IsL402(r)
        /\ Return(r, "error")
  /\ UNCHANGED <<cred, answer, bodyRead, eid, reported, lastEventID, lastPayment,
                 diskVars, envVars>>

\* Faulty variant: PayInvoice gives up on the first update that is not final.
PaymentFailsEarly(r) ==
  /\ pc[r] = "await"
  /\ invoice[r] \in {"failed", "inflight"}
  /\ Goto(r, "recordFailure")
  /\ UNCHANGED <<cred, answer, bodyRead, eid, reported, lastEventID, lastPayment,
                 diskVars, envVars>>

\* PayInvoice returns an error: the node reports a failure, or nothing came
\* before the timeout, whatever becomes of the payment.
PaymentFails(r) ==
  /\ pc[r] = "await"
  /\ invoice[r] = "failed" \/ "timeout" \in Faults
  /\ Goto(r, "recordFailure")
  /\ UNCHANGED <<cred, answer, bodyRead, eid, reported, lastEventID, lastPayment,
                 diskVars, envVars>>

SchemeOf(r) == MatchedScheme(answer[r])

\* The event row is written and its ID becomes the handler's lastEventID; if
\* the database refuses, both stay as they are and the error is only logged.
RecordEvent(r, status) ==
  \/ /\ event' = [event EXCEPT ![r] = status]
     /\ lastEventID' = [lastEventID EXCEPT ![Proc(r)][SchemeOf(r)] = r]
  \/ /\ "log" \in Faults
     /\ UNCHANGED <<event, lastEventID>>

\* The pending token stays in the store.
RecordFailure(r) ==
  /\ pc[r] = "recordFailure"
  /\ RecordEvent(r, "failed")
  /\ Return(r, "error")
  /\ UNCHANGED <<cred, answer, bodyRead, eid, reported, lastPayment,
                 store, enriched, envVars>>

RecordSuccess(r) ==
  /\ pc[r] = "recordSuccess"
  /\ RecordEvent(r, "success")
  /\ Goto(r, IF IsL402(r) THEN "storeToken" ELSE "loadEventID")
  /\ UNCHANGED <<cred, answer, bodyRead, eid, reported, lastPayment,
                 store, enriched, envVars>>

StoreToken(r) ==
  /\ pc[r] = "storeToken"
  /\ StoreOrFail(r, Paid(r), "loadEventID")
  /\ UNCHANGED <<cred, answer, bodyRead, eid, reported, lastEventID, lastPayment,
                 event, enriched, envVars>>

LoadEventID(r) ==
  /\ pc[r] = "loadEventID"
  /\ eid' = [eid EXCEPT ![r] = lastEventID[Proc(r)][SchemeOf(r)]]
  /\ Goto(r, "publish")
  /\ UNCHANGED <<cred, answer, bodyRead, reported, lastEventID, lastPayment,
                 diskVars, envVars>>

PublishPayment(r) ==
  /\ pc[r] = "publish"
  /\ lastPayment' = [lastPayment EXCEPT ![Proc(r)] = r]
  /\ cred' = [cred EXCEPT ![r] = r]
  /\ Goto(r, "retryPaid")
  /\ UNCHANGED <<answer, bodyRead, eid, reported, lastEventID, diskVars, envVars>>

RetryPaid(r) ==
  /\ pc[r] = "retryPaid"
  /\ \/ "net" \in Faults /\ Return(r, "error")
     \/ \E a \in Replies(cred[r]) :
          /\ pc' = [pc EXCEPT ![r] = "enrich"]
          /\ result' = [result EXCEPT ![r] = Outcome(a)]
          /\ UNCHANGED lock
  /\ UNCHANGED <<cred, answer, bodyRead, eid, reported, lastEventID, lastPayment,
                 diskVars, envVars>>

\* The response metadata goes to the event whose ID the scheme returned.
EnrichEvent(r) ==
  /\ pc[r] = "enrich"
  /\ \/ /\ eid[r] # None
        /\ enriched' = [enriched EXCEPT ![eid[r]] = r]
     \/ /\ eid[r] = None \/ "log" \in Faults
        /\ UNCHANGED enriched
  /\ Return(r, result[r])
  /\ UNCHANGED <<cred, answer, bodyRead, eid, reported, lastEventID, lastPayment,
                 store, event, envVars>>

\* DoDownload attaches the transport's last payment to a served download.
DoDownload(r) ==
  /\ pc[r] = "returned"
  /\ pc' = [pc EXCEPT ![r] = "done"]
  /\ reported' = [reported EXCEPT ![r] = IF result[r] = "served"
                                         THEN lastPayment[Proc(r)] ELSE None]
  /\ UNCHANGED <<cred, answer, bodyRead, eid, result, memVars, diskVars, envVars>>

RequestStep(r) ==
  \/ LookupCached(r) \/ SendCached(r) \/ InvalidateCredential(r) \/ SendPlain(r)
  \/ LockDomain(r) \/ DoubleCheck(r) \/ RetryCached(r) \/ Reissue(r)
  \/ RejectChallenge(r) \/ AcceptChallenge(r) \/ RemoveStale(r) \/ StorePending(r)
  \/ PayInvoice(r) \/ PaymentSucceeds(r) \/ PaymentFails(r)
  \/ RecordFailure(r) \/ RecordSuccess(r) \/ StoreToken(r) \/ LoadEventID(r)
  \/ PublishPayment(r) \/ RetryPaid(r) \/ EnrichEvent(r) \/ DoDownload(r)
----
(* The node, the servers and the other processes.                          *)

\* The node resolves a payment, whether or not anybody still waits for it.
NodeResolves(t) ==
  /\ invoice[t] = "inflight"
  /\ \/ invoice' = [invoice EXCEPT ![t] = "settled"]
     \/ "payfail" \in Faults /\ invoice' = [invoice EXCEPT ![t] = "failed"]
  /\ UNCHANGED <<pc, cred, answer, bodyRead, eid, result, reported,
                 memVars, diskVars, revoked>>

\* Expiry, root key rotation or revocation of a token that was sold.
Revoke(t) ==
  /\ "revoke" \in Faults
  /\ Honours(t)
  /\ revoked' = revoked \cup {t}
  /\ UNCHANGED <<pc, cred, answer, bodyRead, eid, result, reported,
                 memVars, diskVars, invoice>>

\* DELETE /api/tokens/{domain}, `lnget tokens remove` and `tokens clear`.
RemoveToken(d) ==
  /\ "remove" \in Faults
  /\ store[d] # NoToken
  /\ store' = [store EXCEPT ![d] = NoToken]
  /\ UNCHANGED <<pc, cred, answer, bodyRead, eid, result, reported,
                 memVars, event, enriched, envVars>>

\* A process dies: its memory goes, the files and the payments stay.
Crash(p) ==
  LET Mine == {r \in Requests : ProcOf[r] = p} IN
    /\ "crash" \in Faults
    /\ \E r \in Mine : pc[r] \notin Ended
    /\ pc' = [r \in Requests |->
                IF r \in Mine /\ pc[r] # "done" THEN "crashed" ELSE pc[r]]
    /\ lock' = [lock EXCEPT ![p] = [d \in Domains |-> None]]
    /\ lastEventID' = [lastEventID EXCEPT ![p] = [s \in SchemeNames |-> None]]
    /\ lastPayment' = [lastPayment EXCEPT ![p] = None]
    /\ UNCHANGED <<cred, answer, bodyRead, eid, result, reported,
                   diskVars, envVars>>

\* Nothing is left to do.  A request that can never end is a deadlock.
Finished ==
  /\ \A r \in Requests : pc[r] \in Ended
  /\ UNCHANGED vars

Environment ==
  \/ \E t \in Tokens : NodeResolves(t) \/ Revoke(t)
  \/ \E d \in Domains : RemoveToken(d)
  \/ \E p \in Procs : Crash(p)

Next ==
  \/ \E r \in Requests : RequestStep(r)
  \/ Environment
  \/ Finished

Spec == Init /\ [][Next]_vars

(***************************************************************************)
(* A goroutine that can run does run, and a request to the server is       *)
(* answered or fails, since http.Client has a timeout.  A sync.Mutex is    *)
(* handed to the longest waiter once that one has starved for a            *)
(* millisecond, so a waiter is passed over finitely often: strong          *)
(* fairness.  Nothing is assumed of the node.                              *)
(***************************************************************************)
Fairness ==
  \A r \in Requests : WF_vars(RequestStep(r)) /\ SF_vars(LockDomain(r))

FairSpec == Spec /\ Fairness

----
(* Properties.                                                             *)

TypeOK ==
  /\ pc \in [Requests -> Stages]
  /\ cred \in [Requests -> Tokens \cup {None}]
  /\ answer \in [Requests -> Answers \cup {NoAnswer, Served}]
  /\ bodyRead \subseteq HasBody
  /\ eid \in [Requests -> Requests \cup {None}]
  /\ result \in [Requests -> {"none", "served", "unpaid", "error"}]
  /\ reported \in [Requests -> Requests \cup {None}]
  /\ lock \in [Procs -> [Domains -> Requests \cup {None}]]
  /\ lastEventID \in [Procs -> [SchemeNames -> Requests \cup {None}]]
  /\ lastPayment \in [Procs -> Requests \cup {None}]
  /\ store \in [Domains -> Entry]
  /\ event \in [Requests -> {"none", "success", "failed"}]
  /\ enriched \in [Requests -> Requests \cup {None}]
  /\ invoice \in [Tokens -> {"none", "inflight", "settled", "failed"}]
  /\ revoked \subseteq Tokens

\* Nothing is presented to a server as paid that was not paid: a paid entry of
\* the store, and a credential a request holds, is the token of a settled
\* invoice of that very domain.  Pending tokens, late settlements, failed
\* payments, other processes and crashes are what could break it.
PaidTokenBacked ==
  /\ \A d \in Domains :
       store[d].paid => /\ invoice[store[d].tok] = "settled"
                        /\ SoldBy(store[d].tok) = d
  /\ \A r \in Requests :
       cred[r] # None => /\ invoice[cred[r]] = "settled"
                         /\ SoldBy(cred[r]) = Domain(r)

\* The event log never claims a payment that did not happen, and response
\* metadata is only ever attached to an event of the same process.
LedgerBacked ==
  \A r \in Requests :
    /\ event[r] = "success" => invoice[r] = "settled"
    /\ enriched[r] # None => /\ event[r] # "none"
                             /\ Proc(enriched[r]) = Proc(r)

\* The L402 invoices of a domain that were paid.
Purchases(d) ==
  {r \in Requests : Domain(r) = d /\ IsL402(r) /\ invoice[r] = "settled"}

\* However many requests of a process meet a 402 at the same time, and however
\* many of their payments fail, a domain's token is bought once: those that
\* waited for the lock find it in the store.
BoughtOnce == \A r, s \in Requests :
  r \in Purchases(Domain(r)) /\ s \in Purchases(Domain(r)) => r = s

\* A domain's lock is held exactly as long as its holder is at work under it, so
\* two requests of a process never buy for one domain at the same time, and none
\* of the many ways out of RoundTrip, nor a crash, leaves a lock that nobody gives
\* back.
LockMatchesWork ==
  /\ \A r \in Requests : pc[r] \in LockedStages => lock[Proc(r)][Domain(r)] = r
  /\ \A p \in Procs, d \in Domains :
       lock[p][d] # None => /\ pc[lock[p][d]] \in LockedStages
                            /\ Proc(lock[p][d]) = p
                            /\ Domain(lock[p][d]) = d

\* A paid token leaves the store only if the server has stopped honouring it.
PaidTokenKept ==
  [][\A d \in Domains : store[d].paid /\ store'[d] # store[d]
                          => store[d].tok \in revoked]_vars

\* Money leaves the node only when it must and never without a trace: at the
\* moment an invoice is handed to the node it is within the budget, the domain
\* has no paid token and, for L402, the token that is pending in the store is
\* the one this invoice buys.
PaysOnlyWhenNeeded ==
  [][\A r \in Requests : invoice[r] = "none" /\ invoice'[r] = "inflight" =>
       /\ WithinBudget(answer[r])
       /\ ~store[Domain(r)].paid
       /\ IsL402(r) => store[Domain(r)] = Pending(r)]_vars

\* A purchase the client learnt of ends with the token in the store or with an
\* error in the caller's hands, never with neither.
PurchaseKeptOrReported ==
  \A r \in Requests :
    /\ pc[r] \in {"returned", "done"}
    /\ r \in Purchases(Domain(r))
    => store[Domain(r)] = Paid(r) \/ result[r] = "error"

\* The payment a download reports may be another request's, as the transport
\* keeps one for all of them; but it is a payment of its own process that was
\* settled, and the download was served.
ReportedReal ==
  \A r \in Requests : reported[r] # None =>
    /\ Proc(reported[r]) = Proc(r)
    /\ invoice[reported[r]] = "settled"
    /\ result[r] = "served"

\* When a request has returned, its event row says exactly what became of its
\* invoice.
LedgerExact ==
  \A r \in Requests : pc[r] \in {"returned", "done"} =>
    /\ event[r] = "success" <=> invoice[r] = "settled"
    /\ event[r] = "failed"  <=> invoice[r] = "failed"

\* Response metadata goes to the event of the payment that got the response.
EnrichedOwn == \A r \in Requests : enriched[r] \in {None, r}

\* A payment that hangs holds up the requests to its own domain and no other:
\* a request returns unless some request to the same domain in its process
\* waits for the node for ever.
BlockedOnlyByOwnDomain ==
  \A r \in Requests :
    (\A s \in Requests : Domain(s) = Domain(r) /\ Proc(s) = Proc(r)
                           => []<>(pc[s] # "await"))
      => <>(pc[r] \in Ended)

\* The tokens that open a domain: those of its paid L402 invoices, and the one
\* that an earlier run left.
Openers(d) == Purchases(d) \cup (Cached \cap {d})

\* The transport implements PaidAccess as long as the servers honour what they
\* sold, the store can be written and payments are resolved before PayInvoice
\* returns: the owner of a domain is the purchase whose token opens it.
Owner(d) == IF Openers(d) = {} THEN None ELSE CHOOSE t \in Openers(d) : TRUE

Access == INSTANCE PaidAccess WITH
  Opened  <- Cached,
  Free    <- \E a \in Answers : a.status # 402,
  owner   <- [d \in Domains |-> Owner(d)],
  single  <- {r \in Requests : invoice[r] = "settled" /\ ~IsL402(r)},
  outcome <- result

AccessSpec == Access!Spec
----
(* What the documentation says and the code does not keep.                 *)

\* "If payment fails: pending token remains for recovery", "Idempotency: Retry
\* payment if it was interrupted" (docs/architecture.md): while the payment
\* that a dead process started is in flight or settled, no other invoice of
\* the same domain is paid.
InterruptedPaymentResumed ==
  [][\A r, s \in Requests :
       /\ invoice[r] = "none" /\ invoice'[r] = "inflight"
       /\ s # r /\ Domain(s) = Domain(r) /\ IsL402(s)
       /\ pc[s] = "crashed"
       => invoice[s] \notin {"inflight", "settled"}]_vars

\* "Buffer the request body so it can be replayed on retries" (the comment at the
\* top of RoundTrip): a request is never sent again with a body that was read.
BodyReplayed ==
  [][\A r \in Requests :
       /\ pc[r] \in {"sendPlain", "reissue"}
       /\ pc'[r] \notin {pc[r], "crashed"}
       => r \notin bodyRead]_vars
====
