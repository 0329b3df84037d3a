---- MODULE PurchaseProofs ----
(***************************************************************************)
(* What PaymentTransport guarantees of locks, metadata and purchases.  The *)
(* domains' locks need no hypothesis.  Then come three sections, each with *)
(* its own hypothesis on the faults and on who shares what:                *)
(*                                                                         *)
(*   OneDomainEach   the requests of a process are to one domain: response *)
(*                   metadata goes to the right event                      *)
(*   OneProcessEach  no two processes go to one domain, whatever else      *)
(*                   fails: a paid token stays, money is spent only when   *)
(*                   it must be, a purchase is kept or its loss reported   *)
(*   Reliable        moreover the store can be written and a payment is    *)
(*                   resolved before PayInvoice returns: a domain is       *)
(*                   bought once and the transport implements PaidAccess   *)
(***************************************************************************)
EXTENDS PaymentTransportProofs

----
(* The domains' locks.                                                     *)

LockInv == TypeInv /\ LockMatchesWork

\* A request enters the locked stages by taking the free lock, and gives up the
\* lock when it leaves them; nobody else's lock changes.
LEMMA LockStep ==
  ASSUME TypeOK, NEW r \in Requests, RequestStep(r)
  PROVE  \/ /\ lock' = lock
            /\ pc'[r] \in LockedStages <=> pc[r] \in LockedStages
         \/ /\ lock[Proc(r)][Domain(r)] = None
            /\ lock' = [lock EXCEPT ![Proc(r)][Domain(r)] = r]
            /\ pc[r] \notin LockedStages /\ pc'[r] \in LockedStages
         \/ /\ lock' = [lock EXCEPT ![Proc(r)][Domain(r)] = IF @ = r THEN None ELSE @]
            /\ pc'[r] \notin LockedStages
<1> USE DEF TypeOK, Goto, Return, LockedStages
<1>1. CASE \/ LookupCached(r) \/ InvalidateCredential(r) \/ LockDomain(r)
           \/ DoubleCheck(r) \/ AcceptChallenge(r) \/ RemoveStale(r) \/ PaymentFails(r)
           \/ LoadEventID(r) \/ PublishPayment(r) \/ DoDownload(r) \/ RejectChallenge(r)
  BY <1>1 DEF LookupCached, InvalidateCredential, LockDomain, DoubleCheck,
    AcceptChallenge, RemoveStale, PaymentFails, LoadEventID, PublishPayment,
    DoDownload, RejectChallenge, memVars
<1>2. CASE SendCached(r) \/ RetryCached(r) \/ RetryPaid(r) \/ PaymentSucceeds(r)
  BY <1>2 DEF SendCached, RetryCached, RetryPaid, PaymentSucceeds
<1>3. CASE SendPlain(r) \/ Reissue(r)
  BY <1>3 DEF SendPlain, Reissue, SendUnpaid
<1>4. CASE StorePending(r) \/ StoreToken(r)
  BY <1>4 DEF StorePending, StoreToken, StoreOrFail
<1>5. CASE RecordFailure(r) \/ RecordSuccess(r) \/ PayInvoice(r) \/ EnrichEvent(r)
  BY <1>5 DEF RecordFailure, RecordSuccess, PayInvoice, EnrichEvent
<1>6. QED
  BY <1>1, <1>2, <1>3, <1>4, <1>5 DEF RequestStep

\* Whoever is at work under a lock holds it.
LEMMA WorkersHold ==
  ASSUME LockInv, NEW r \in Requests, RequestStep(r),
         NEW s \in Requests, pc'[s] \in LockedStages
  PROVE  lock'[Proc(s)][Domain(s)] = s
<1>1. TypeOK /\ r # None /\ s # None
  BY TransportAssumption DEF LockInv, TypeInv
<1>2. CASE s = r
  BY <1>1, <1>2, LockStep, Homes DEF TypeOK, LockInv, LockMatchesWork
<1>3. CASE s # r
  <2>1. lock[Proc(s)][Domain(s)] = s
    BY <1>1, <1>3, OthersKeep DEF LockInv, LockMatchesWork
  <2> DEFINE p == Proc(r)
             d == Domain(r)
  <2>2. /\ p \in Procs /\ d \in Domains
        /\ Proc(s) \in Procs /\ Domain(s) \in Domains
    BY Homes
  <2>3. CASE lock' = lock
    BY <2>1, <2>3
  <2>4. CASE lock[p][d] = None /\ lock' = [lock EXCEPT ![p][d] = r]
    BY <1>1, <2>1, <2>2, <2>4 DEF TypeOK
  <2>5. CASE lock' = [lock EXCEPT ![p][d] = IF @ = r THEN None ELSE @]
    BY <1>1, <1>3, <2>1, <2>2, <2>5 DEF TypeOK
  <2>6. QED
    BY <1>1, <2>3, <2>4, <2>5, LockStep
<1>4. QED
  BY <1>2, <1>3

\* Whoever holds a lock is at work under it.
LEMMA HoldersWork ==
  ASSUME LockInv, NEW r \in Requests, RequestStep(r),
         NEW p \in Procs, NEW d \in Domains, lock'[p][d] # None
  PROVE  /\ pc'[lock'[p][d]] \in LockedStages
         /\ Proc(lock'[p][d]) = p
         /\ Domain(lock'[p][d]) = d
<1> DEFINE h == lock[p][d]
<1>1. TypeOK /\ h \in Requests \cup {None} /\ Proc(r) \in Procs /\ Domain(r) \in Domains
  BY Homes DEF LockInv, TypeInv, TypeOK
<1>2. h # None => pc[h] \in LockedStages /\ Proc(h) = p /\ Domain(h) = d
  BY DEF LockInv, LockMatchesWork
<1>3. ASSUME lock'[p][d] = h, h # r \/ (pc'[r] \in LockedStages <=> pc[r] \in LockedStages)
      PROVE  pc'[h] \in LockedStages
  BY <1>1, <1>2, <1>3, OthersKeep
<1>4. CASE lock' = lock /\ (pc'[r] \in LockedStages <=> pc[r] \in LockedStages)
  BY <1>2, <1>3, <1>4
<1>5. CASE /\ lock' = [lock EXCEPT ![Proc(r)][Domain(r)] = r]
           /\ pc[r] \notin LockedStages /\ pc'[r] \in LockedStages
  <2>1. CASE p = Proc(r) /\ d = Domain(r)
    BY <1>1, <1>5, <2>1 DEF TypeOK
  <2>2. CASE ~(p = Proc(r) /\ d = Domain(r))
    <3>1. lock'[p][d] = h
      BY <1>1, <1>5, <2>2 DEF TypeOK
    <3>2. QED
      BY <1>2, <1>3, <1>5, <3>1
  <2>3. QED
    BY <2>1, <2>2
<1>6. CASE lock' = [lock EXCEPT ![Proc(r)][Domain(r)] = IF @ = r THEN None ELSE @]
  <2>1. lock'[p][d] = h /\ h # r
    BY <1>1, <1>2, <1>6 DEF TypeOK
  <2>2. QED
    BY <1>2, <1>3, <2>1
<1>7. QED
  BY <1>1, <1>4, <1>5, <1>6, LockStep

LEMMA LockNext ==
  ASSUME LockInv, [Next]_vars
  PROVE  LockInv'
<1>1. TypeInv /\ TypeInv' /\ TypeOK
  BY NextType DEF LockInv, TypeInv
<1>2. ASSUME NEW r \in Requests, RequestStep(r)
      PROVE  LockMatchesWork'
  BY <1>2, WorkersHold, HoldersWork DEF LockMatchesWork, Proc, Domain
<1>3. ASSUME NEW p \in Procs, Crash(p)
      PROVE  LockMatchesWork'
  <2>1. ASSUME NEW s \in Requests, pc'[s] \in LockedStages
        PROVE  lock'[Proc(s)][Domain(s)] = s
    <3>1. Proc(s) # p /\ pc[s] \in LockedStages
      BY <1>1, <1>3, <2>1 DEF Crash, TypeOK, LockedStages, Proc
    <3>2. QED
      BY <1>1, <1>3, <3>1, Homes DEF Crash, TypeOK, LockInv, LockMatchesWork
  <2>2. ASSUME NEW q \in Procs, NEW d \in Domains, lock'[q][d] # None
        PROVE  /\ pc'[lock'[q][d]] \in LockedStages
               /\ Proc(lock'[q][d]) = q
               /\ Domain(lock'[q][d]) = d
    <3>1. q # p /\ lock'[q][d] = lock[q][d] /\ lock[q][d] \in Requests
      BY <1>1, <1>3, <2>2 DEF Crash, TypeOK
    <3>2. pc[lock[q][d]] \in LockedStages /\ Proc(lock[q][d]) = q /\ Domain(lock[q][d]) = d
      BY <2>2, <3>1 DEF LockInv, LockMatchesWork
    <3>3. pc'[lock[q][d]] = pc[lock[q][d]]
      BY <1>3, <3>1, <3>2 DEF Crash, Proc
    <3>4. QED
      BY <3>1, <3>2, <3>3
  <2>3. QED
    BY <2>1, <2>2 DEF LockMatchesWork, Proc, Domain
<1>4. CASE UNCHANGED <<pc, lock>>
  BY <1>1, <1>4 DEF LockInv, LockMatchesWork, Proc, Domain
<1>5. UNCHANGED vars => UNCHANGED <<pc, lock>>
  BY DEF vars, memVars
<1>6. Environment => UNCHANGED <<pc, lock>> \/ \E p \in Procs : Crash(p)
  BY DEF Environment, NodeResolves, Revoke, RemoveToken, memVars
<1>7. QED
  BY <1>1, <1>2, <1>3, <1>4, <1>5, <1>6 DEF Next, Finished, LockInv

LEMMA InitLock == Init => LockInv
BY InitType DEF LockInv, LockMatchesWork, Init, LockedStages

LEMMA AlwaysLock == Spec => []LockInv
BY InitLock, LockNext, PTL DEF Spec

\* Every way out of RoundTrip gives the domain's lock back and nobody else's does:
\* a lock is held by a request at work under it, and by every such request, even
\* across failed payments, errors on every path and crashes of other processes.
THEOREM LocksMatchWork == Spec => []LockMatchesWork
<1>1. LockInv => LockMatchesWork
  BY DEF LockInv
<1>2. QED
  BY <1>1, AlwaysLock, PTL

\* Two requests of one process are never both between the second look at the
\* store and the end of RoundTrip for one domain.
THEOREM MutualExclusion ==
  Spec => [](\A r, s \in Requests :
               /\ pc[r] \in LockedStages /\ pc[s] \in LockedStages
               /\ Proc(r) = Proc(s) /\ Domain(r) = Domain(s)
               => r = s)
<1> DEFINE Exclusive ==
      \A r, s \in Requests :
        /\ pc[r] \in LockedStages /\ pc[s] \in LockedStages
        /\ Proc(r) = Proc(s) /\ Domain(r) = Domain(s)
        => r = s
<1>1. LockInv => Exclusive
  BY DEF LockInv, LockMatchesWork
<1>2. QED
  BY <1>1, AlwaysLock, PTL
----
(* Whose event the response metadata goes to.                              *)

\* A handler keeps one lastEventID for all its domains, and only the domain's
\* lock keeps others from setting it between RecordSuccess and LoadEventID.  So
\* every process works on one domain here; and the database takes every row, as
\* a row that is refused leaves the ID of an earlier one behind.
OneDomainEach ==
  /\ "log" \notin Faults
  /\ \A r, s \in Requests : Proc(r) = Proc(s) => Domain(r) = Domain(s)

EventIDInv ==
  /\ LockInv
  /\ \A r \in Requests :
       pc[r] \in {"storeToken", "loadEventID"} => lastEventID[Proc(r)][SchemeOf(r)] = r
  /\ \A r \in Requests : eid[r] \in {None, r}
  /\ EnrichedOwn

LEMMA InitEventID == Init => EventIDInv
<1> SUFFICES ASSUME Init PROVE EventIDInv
  OBVIOUS
<1>1. LockInv
  BY InitLock
<1>2. QED
  BY <1>1 DEF Init, EventIDInv, EnrichedOwn

\* A step records its own event under the lock, reads the handler's ID for itself,
\* or gives its metadata to the event whose ID it read.
LEMMA EventIDStep ==
  ASSUME "log" \notin Faults, TypeInv, NEW r \in Requests, RequestStep(r)
  PROVE  /\ \/ lastEventID' = lastEventID
            \/ /\ pc[r] \in {"recordFailure", "recordSuccess"}
               /\ lastEventID' = [lastEventID EXCEPT ![Proc(r)][SchemeOf(r)] = r]
         /\ \/ eid' = eid
            \/ /\ pc[r] = "loadEventID"
               /\ eid' = [eid EXCEPT ![r] = lastEventID[Proc(r)][SchemeOf(r)]]
         /\ \/ enriched' = enriched
            \/ eid[r] # None /\ enriched' = [enriched EXCEPT ![eid[r]] = r]
         /\ pc'[r] \in {"storeToken", "loadEventID"} =>
              /\ answer' = answer
              /\ \/ pc[r] = "storeToken" /\ lastEventID' = lastEventID
                 \/ lastEventID' = [lastEventID EXCEPT ![Proc(r)][SchemeOf(r)] = r]
<1> USE DEF TypeInv, TypeOK, Goto, Return, memVars, diskVars, envVars
<1>1. CASE RecordFailure(r) \/ RecordSuccess(r)
  BY <1>1 DEF RecordFailure, RecordSuccess, RecordEvent
<1>2. CASE LoadEventID(r) \/ EnrichEvent(r)
  BY <1>2 DEF LoadEventID, EnrichEvent
<1>3. CASE StoreToken(r)
  BY <1>3 DEF StoreToken, StoreOrFail
<1>4. CASE /\ UNCHANGED <<lastEventID, eid, enriched>>
           /\ pc'[r] \notin {"storeToken", "loadEventID"}
  BY <1>4
<1>5. CASE \/ LookupCached(r) \/ SendCached(r) \/ InvalidateCredential(r) \/ SendPlain(r)
           \/ LockDomain(r) \/ DoubleCheck(r) \/ RetryCached(r) \/ Reissue(r)
           \/ RejectChallenge(r) \/ AcceptChallenge(r) \/ RemoveStale(r)
  BY <1>4, <1>5
  DEF LookupCached, SendCached, InvalidateCredential, SendPlain, SendUnpaid, LockDomain,
      DoubleCheck, RetryCached, Reissue, RejectChallenge, AcceptChallenge, RemoveStale
<1>6. CASE \/ StorePending(r) \/ PayInvoice(r) \/ PaymentSucceeds(r) \/ PaymentFails(r)
           \/ PublishPayment(r) \/ RetryPaid(r) \/ DoDownload(r)
  BY <1>4, <1>6
  DEF StorePending, StoreOrFail, PayInvoice, PaymentSucceeds, PaymentFails,
      PublishPayment, RetryPaid, DoDownload
<1>7. QED
  BY <1>1, <1>2, <1>3, <1>5, <1>6 DEF RequestStep

LEMMA EventIDNext ==
  ASSUME OneDomainEach, EventIDInv, [Next]_vars
  PROVE  EventIDInv'
<1>1. LockInv' /\ LockInv /\ TypeInv /\ TypeOK
  BY LockNext DEF EventIDInv, LockInv, TypeInv
<1>2. /\ lastEventID \in [Procs -> [SchemeNames -> Requests \cup {None}]]
      /\ eid \in [Requests -> Requests \cup {None}]
      /\ enriched \in [Requests -> Requests \cup {None}]
  BY <1>1 DEF TypeOK
<1>3. \A s \in Requests : pc[s] \in {"storeToken", "loadEventID"} => SchemeOf(s) \in SchemeNames
  BY <1>1 DEF TypeInv, ChallengedStages
<1>4. ASSUME NEW r \in Requests, RequestStep(r)
      PROVE  EventIDInv'
  <2>1. "log" \notin Faults
    BY DEF OneDomainEach
  <2>2. ASSUME NEW s \in Requests, pc'[s] \in {"storeToken", "loadEventID"}
        PROVE  lastEventID'[Proc(s)][SchemeOf(s)'] = s
    <3>1. CASE s = r
      <4>1. answer' = answer /\ SchemeOf(r)' = SchemeOf(r)
        BY <1>1, <1>4, <2>1, <2>2, <3>1, EventIDStep DEF SchemeOf
      <4>2. SchemeOf(r)' \in SchemeNames
        BY <1>1, <1>4, <2>2, <3>1, RequestStepScheme DEF ChallengedStages
      <4>3. CASE pc[r] = "storeToken" /\ lastEventID' = lastEventID
        BY <3>1, <4>1, <4>3 DEF EventIDInv
      <4>4. CASE lastEventID' = [lastEventID EXCEPT ![Proc(r)][SchemeOf(r)] = r]
        BY <1>2, <3>1, <4>1, <4>2, <4>4, Homes
      <4>5. QED
        BY <1>1, <1>4, <2>1, <2>2, <3>1, <4>3, <4>4, EventIDStep
    <3>2. CASE s # r
      <4>1. pc'[s] = pc[s] /\ SchemeOf(s)' = SchemeOf(s)
        BY <1>1, <1>4, <3>2, OthersKeep DEF SchemeOf
      <4>2. lastEventID[Proc(s)][SchemeOf(s)] = s
        BY <2>2, <4>1 DEF EventIDInv
      <4>3. CASE lastEventID' = lastEventID
        BY <4>1, <4>2, <4>3
      <4>4. CASE /\ pc[r] \in {"recordFailure", "recordSuccess"}
                 /\ lastEventID' = [lastEventID EXCEPT ![Proc(r)][SchemeOf(r)] = r]
        <5>1. Proc(s) # Proc(r)
          BY <1>1, <2>2, <3>2, <4>1, <4>4
          DEF LockInv, LockMatchesWork, LockedStages, OneDomainEach
        <5>2. QED
          BY <1>2, <4>1, <4>2, <4>4, <5>1, Homes
      <4>5. QED
        BY <1>1, <1>4, <2>1, <4>3, <4>4, EventIDStep
    <3>3. QED
      BY <3>1, <3>2
  <2>3. ASSUME NEW s \in Requests
        PROVE  eid'[s] \in {None, s}
    <3>1. CASE eid' = eid
      BY <3>1 DEF EventIDInv
    <3>2. CASE /\ pc[r] = "loadEventID"
               /\ eid' = [eid EXCEPT ![r] = lastEventID[Proc(r)][SchemeOf(r)]]
      BY <1>2, <3>2 DEF EventIDInv
    <3>3. QED
      BY <1>1, <1>4, <2>1, <3>1, <3>2, EventIDStep
  <2>4. ASSUME NEW s \in Requests
        PROVE  enriched'[s] \in {None, s}
    <3>1. CASE enriched' = enriched
      BY <3>1 DEF EventIDInv, EnrichedOwn
    <3>2. CASE eid[r] # None /\ enriched' = [enriched EXCEPT ![eid[r]] = r]
      BY <1>2, <3>2 DEF EventIDInv, EnrichedOwn
    <3>3. QED
      BY <1>1, <1>4, <2>1, <3>1, <3>2, EventIDStep
  <2>5. QED
    BY <1>1, <2>2, <2>3, <2>4 DEF EventIDInv, EnrichedOwn, Proc
<1>5. ASSUME NEW p \in Procs, Crash(p)
      PROVE  EventIDInv'
  <2>1. UNCHANGED <<eid, enriched, answer>>
    BY <1>5 DEF Crash, diskVars
  <2>2. ASSUME NEW s \in Requests, pc'[s] \in {"storeToken", "loadEventID"}
        PROVE  lastEventID'[Proc(s)][SchemeOf(s)'] = s
    <3>1. Proc(s) # p /\ pc'[s] = pc[s]
      BY <1>1, <1>5, <2>2 DEF Crash, TypeOK, Proc
    <3>2. lastEventID'[Proc(s)] = lastEventID[Proc(s)]
      BY <1>2, <1>5, <3>1, Homes DEF Crash
    <3>3. QED
      BY <2>1, <2>2, <3>1, <3>2 DEF EventIDInv, SchemeOf
  <2>3. QED
    BY <1>1, <2>1, <2>2 DEF EventIDInv, EnrichedOwn, Proc
<1>6. CASE UNCHANGED <<pc, answer, eid, lastEventID, enriched>>
  BY <1>1, <1>6 DEF EventIDInv, EnrichedOwn, SchemeOf, Proc
<1>7. QED
  BY <1>4, <1>5, <1>6
  DEF Next, Finished, Environment, NodeResolves, Revoke, RemoveToken, memVars, diskVars,
      vars

\* While a process works on one domain the metadata of a response goes to the
\* event of the very payment that got it, however many requests and processes
\* share the domain and whatever else fails, crashes included.
THEOREM MetadataGoesHome ==
  ASSUME OneDomainEach
  PROVE  Spec => []EnrichedOwn
<1>1. EventIDInv /\ [Next]_vars => EventIDInv'
  BY EventIDNext
<1>2. Spec => []EventIDInv
  BY InitEventID, <1>1, PTL DEF Spec
<1>3. EventIDInv => EnrichedOwn
  BY DEF EventIDInv
<1>4. QED
  BY <1>2, <1>3, PTL
----
(* A purchase ends with its token in the store or with an error.           *)

\* No domain is shared by two processes and no token that was sold is revoked or
\* removed.  Everything else may fail: the network, payments before or after
\* PayInvoice gave up on them, the store, the event database and the processes.
OneProcessEach ==
  /\ Faults \cap {"revoke", "remove"} = {}
  /\ \A r, s \in Requests : Domain(r) = Domain(s) => Proc(r) = Proc(s)

\* From the second look at the store to the new token in it.
BuyingStages ==
  {"reissue", "handle", "removeStale", "storePending", "pay", "await",
   "recordFailure", "recordSuccess", "storeToken"}

\* From the pending token in the store to the paid one.
PendingStages == {"pay", "await", "recordSuccess", "storeToken"}

\* The caller has the error in hand, or is gone.
InError(r) ==
  pc[r] = "crashed" \/ (pc[r] \in {"returned", "done"} /\ result[r] = "error")

\* The fourth conjunct is what makes the last one hold of the others: a buyer that
\* replaces the entry of its domain holds the lock and replaces no paid token.
KeptOf(r) ==
  /\ pc[r] # "invalidate"
  /\ pc[r] = "sendCached" => cred[r] # None
  /\ pc[r] \in {"removeStale", "storePending", "pay"} => WithinBudget(answer[r])
  /\ pc[r] \in BuyingStages => ~store[Domain(r)].paid
  /\ pc[r] \in PendingStages /\ IsL402(r) => store[Domain(r)] = Pending(r)
  /\ invoice[r] = "inflight" =>
       pc[r] \in {"await", "recordFailure"} \/ InError(r)
  /\ invoice[r] = "settled" /\ IsL402(r) =>
       \/ store[Domain(r)] = Paid(r)
       \/ pc[r] \in {"await", "recordSuccess", "recordFailure", "storeToken"}
       \/ InError(r)

KeptInv ==
  /\ BackedInv
  /\ LockInv
  /\ revoked = {}
  /\ \A r \in Requests : KeptOf(r)

LEMMA InitKept == Init => KeptInv
<1> SUFFICES ASSUME Init PROVE KeptInv
  OBVIOUS
<1>1. LockInv
  BY InitLock
<1>2. \A r \in Requests : pc[r] = "start" /\ invoice[r] = "none"
  BY TransportAssumption DEF Init, Tokens
<1>3. revoked = {}
  BY DEF Init
<1>4. QED
  BY <1>1, <1>2, <1>3, InitBacked DEF KeptInv, KeptOf, BuyingStages, PendingStages

\* A credential from the store is accepted.
LEMMA KeptAccepted ==
  ASSUME KeptInv, NEW r \in Requests, SendCached(r)
  PROVE  pc'[r] = "returned"
<1>1. cred[r] # None /\ cred[r] \in Tokens
  BY DEF KeptInv, KeptOf, SendCached, BackedInv, TypeInv, TypeOK
<1>2. Replies(cred[r]) = {Served}
  BY <1>1 DEF KeptInv, BackedInv, PaidTokenBacked, Honours, Replies
<1>3. Served.status # 402
  BY DEF Served
<1>4. QED
  BY <1>2, <1>3 DEF SendCached, Return, KeptInv, BackedInv, TypeInv, TypeOK

\* Unless it rejects a cached credential, a request writes the store only on the
\* way to a token of its own, and only the entry of its own domain.
LEMMA StoreWriters ==
  ASSUME TypeOK, NEW r \in Requests, RequestStep(r), pc[r] # "invalidate",
         NEW d \in Domains, store'[d] # store[d]
  PROVE  d = Domain(r) /\ pc[r] \in {"removeStale", "storePending", "storeToken"}
<1>1. pc[r] \in {"removeStale", "storePending", "storeToken"}
  <2>1. CASE InvalidateCredential(r) \/ RemoveStale(r) \/ StorePending(r) \/ StoreToken(r)
    BY <2>1 DEF InvalidateCredential, RemoveStale, StorePending, StoreToken
  <2>2. CASE store' = store
    BY <2>2
  <2>3. QED
    BY <2>1, <2>2
    DEF RequestStep, diskVars,
        LookupCached, SendCached, SendPlain, SendUnpaid,
        LockDomain, DoubleCheck, RetryCached, Reissue, RejectChallenge, AcceptChallenge,
        PayInvoice, PaymentSucceeds, PaymentFails, RecordFailure, RecordSuccess,
        LoadEventID, PublishPayment, RetryPaid, EnrichEvent, DoDownload
<1>2. d = Domain(r)
  BY StoreStep
<1>3. QED
  BY <1>1, <1>2

\* Only a buyer writes the store, and it finds no paid token there.
LEMMA StoreKeepsPaid ==
  ASSUME KeptInv, NEW r \in Requests, RequestStep(r), NEW d \in Domains,
         store'[d] # store[d]
  PROVE  /\ d = Domain(r)
         /\ pc[r] \in {"removeStale", "storePending", "storeToken"}
         /\ ~store[d].paid
<1>1. TypeOK /\ KeptOf(r)
  BY DEF KeptInv, BackedInv, TypeInv
<1>2. d = Domain(r) /\ pc[r] \in {"removeStale", "storePending", "storeToken"}
  BY <1>1, StoreWriters DEF KeptOf
<1>3. QED
  BY <1>1, <1>2 DEF KeptOf, BuyingStages

\* So whoever is at work under the domain's lock, or knows of its paid token, finds
\* the entry as it was.
LEMMA EntryGuarded ==
  ASSUME OneProcessEach, KeptInv, NEW r \in Requests, RequestStep(r),
         NEW s \in Requests, s # r,
         pc[s] \in LockedStages \/ store[Domain(s)].paid
  PROVE  store'[Domain(s)] = store[Domain(s)]
<1> SUFFICES ASSUME store'[Domain(s)] # store[Domain(s)] PROVE FALSE
  OBVIOUS
<1>1. /\ Domain(s) = Domain(r) /\ ~store[Domain(s)].paid
      /\ pc[r] \in LockedStages
  BY Homes, StoreKeepsPaid DEF LockedStages
<1>2. Proc(s) = Proc(r)
  BY <1>1 DEF OneProcessEach
<1>3. QED
  BY <1>1, <1>2 DEF KeptInv, LockInv, LockMatchesWork

\* A request makes no server break its word.
LEMMA RevokedStep ==
  ASSUME NEW r \in Requests, RequestStep(r)
  PROVE  revoked' = revoked
BY DEF RequestStep, envVars,
       LookupCached, SendCached, InvalidateCredential, SendPlain, SendUnpaid,
       LockDomain, DoubleCheck, RetryCached, Reissue, RejectChallenge, AcceptChallenge,
       RemoveStale, StorePending, PayInvoice, PaymentSucceeds, PaymentFails,
       RecordFailure, RecordSuccess, StoreToken, LoadEventID, PublishPayment,
       RetryPaid, EnrichEvent, DoDownload

LEMMA OwnKept ==
  ASSUME OneProcessEach, KeptInv, NEW r \in Requests, RequestStep(r)
  PROVE  KeptOf(r)'
<1> USE DEF KeptOf, InError, BuyingStages, PendingStages, Goto, Return
<1>1. TypeOK /\ KeptOf(r) /\ Domain(r) \in Domains /\ r \in Tokens
  BY Homes DEF KeptInv, BackedInv, TypeInv, Tokens
<1>2. /\ pc[r] \in UnpaidStages => invoice[r] = "none"
      /\ pc[r] \in SettledStages => invoice[r] = "settled"
  BY DEF KeptInv, BackedInv
<1>3. ~RacesAnotherProcess(r)
  BY DEF OneProcessEach, RacesAnotherProcess
<1> USE DEF TypeOK, memVars, diskVars, envVars, UnpaidStages, SettledStages, IsL402, Domain
<1>4. CASE LookupCached(r) \/ DoubleCheck(r)
  <2>1. store[Domain(r)].paid => store[Domain(r)].tok # None
    BY <1>1, TransportAssumption DEF Entry, NoToken, Tokens
  <2>2. QED
    BY <1>1, <1>2, <1>4, <2>1 DEF LookupCached, DoubleCheck, CachedCredential, IsPending
<1>5. CASE SendCached(r)
  BY <1>1, <1>2, <1>5, KeptAccepted DEF SendCached
<1>6. CASE InvalidateCredential(r)
  BY <1>1, <1>6 DEF InvalidateCredential
<1>7. CASE SendPlain(r)
  BY <1>1, <1>2, <1>7 DEF SendPlain, SendUnpaid
<1>8. CASE LockDomain(r) \/ RetryCached(r) \/ RejectChallenge(r) \/ AcceptChallenge(r)
  BY <1>1, <1>2, <1>8 DEF LockDomain, RetryCached, RejectChallenge, AcceptChallenge
<1>9. CASE Reissue(r)
  BY <1>1, <1>2, <1>9 DEF Reissue, SendUnpaid
<1>10. CASE RemoveStale(r)
  BY <1>1, <1>2, <1>10 DEF RemoveStale, RemoveOrIgnore, NoToken
<1>11. CASE StorePending(r)
  BY <1>1, <1>2, <1>3, <1>11 DEF StorePending, StoreOrFail, Pending
<1>12. CASE PayInvoice(r)
  BY <1>1, <1>2, <1>12 DEF PayInvoice
<1>13. CASE PaymentSucceeds(r) \/ PaymentFails(r)
  BY <1>1, <1>13 DEF PaymentSucceeds, PaymentFails
<1>14. CASE RecordFailure(r) \/ RecordSuccess(r)
  BY <1>1, <1>2, <1>14 DEF RecordFailure, RecordSuccess, SchemeOf
<1>15. CASE StoreToken(r)
  BY <1>1, <1>2, <1>3, <1>15
  DEF StoreToken, StoreOrFail, StoreAllowed, IsPending, Pending, Paid
<1>16. CASE LoadEventID(r) \/ PublishPayment(r) \/ EnrichEvent(r) \/ DoDownload(r)
  BY <1>1, <1>2, <1>16 DEF LoadEventID, PublishPayment, EnrichEvent, DoDownload
<1>17. CASE RetryPaid(r)
  BY <1>1, <1>2, <1>17 DEF RetryPaid
<1>18. QED
  BY <1>4, <1>5, <1>6, <1>7, <1>8, <1>9, <1>10, <1>11, <1>12, <1>13, <1>14, <1>15,
     <1>16, <1>17 DEF RequestStep

\* The others are untouched.
LEMMA OthersKept ==
  ASSUME OneProcessEach, KeptInv, NEW r \in Requests, RequestStep(r),
         NEW s \in Requests, s # r
  PROVE  KeptOf(s)'
<1>1. TypeOK /\ KeptOf(s) /\ Domain(s) \in Domains
  BY Homes DEF KeptInv, BackedInv, TypeInv
<1>2. /\ pc'[s] = pc[s] /\ answer'[s] = answer[s] /\ result'[s] = result[s]
      /\ cred'[s] = cred[s] /\ invoice'[s] = invoice[s]
  BY <1>1, OthersKeep
<1>3. CASE store'[Domain(s)] = store[Domain(s)]
  BY <1>1, <1>2, <1>3 DEF KeptOf, InError, IsL402, Domain
<1>4. CASE store'[Domain(s)] # store[Domain(s)]
  <2>1. pc[s] \notin LockedStages /\ store[Domain(s)] # Paid(s)
    BY <1>4, EntryGuarded DEF Paid
  <2>2. pc[s] \notin BuyingStages \cup PendingStages
    BY <2>1 DEF BuyingStages, PendingStages, LockedStages
  <2>3. QED
    BY <1>1, <1>2, <2>1, <2>2
    DEF KeptOf, InError, IsL402, Domain, BuyingStages, PendingStages
<1>5. QED
  BY <1>3, <1>4

LEMMA KeptNext ==
  ASSUME OneProcessEach, KeptInv, [Next]_vars
  PROVE  KeptInv'
<1>1. BackedInv' /\ LockInv' /\ TypeOK
  BY BackedStep, LockNext DEF KeptInv, BackedInv, TypeInv
<1>2. ASSUME NEW r \in Requests, RequestStep(r)
      PROVE  KeptInv'
  <2>1. \A s \in Requests : KeptOf(s)'
    BY <1>2, OwnKept, OthersKept
  <2>2. revoked' = revoked
    BY <1>2, RevokedStep
  <2>3. QED
    BY <1>1, <2>1, <2>2 DEF KeptInv
<1>3. ASSUME NEW t \in Tokens, NodeResolves(t), NEW s \in Requests
      PROVE  KeptOf(s)'
  <2>1. s \in Tokens /\ KeptOf(s)
    BY DEF Tokens, KeptInv
  <2>2. invoice'[s] = invoice[s] \/ invoice[s] = "inflight"
    BY <1>1, <1>3, <2>1 DEF NodeResolves, TypeOK
  <2>3. invoice'[s] = "inflight" => invoice[s] = "inflight"
    BY <1>1, <1>3, <2>1 DEF NodeResolves, TypeOK
  <2>4. QED
    BY <1>3, <2>1, <2>2, <2>3
    DEF NodeResolves, diskVars, KeptOf, InError, IsL402, Domain
<1>4. ASSUME NEW p \in Procs, Crash(p), NEW s \in Requests
      PROVE  KeptOf(s)'
  <2>1. pc'[s] \in {pc[s], "crashed"}
    BY <1>4 DEF Crash
  <2>2. QED
    BY <1>4, <2>1
    DEF Crash, diskVars, envVars, KeptInv, KeptOf, InError, IsL402, Domain, BuyingStages,
        PendingStages
<1>5. ASSUME UNCHANGED vars
      PROVE  KeptInv'
  BY <1>1, <1>5
  DEF vars, memVars, diskVars, envVars, KeptInv, KeptOf, InError, IsL402, Domain
<1>6. QED
  BY <1>1, <1>2, <1>3, <1>4, <1>5
  DEF Next, Finished, Environment, OneProcessEach, Revoke, RemoveToken, NodeResolves,
      Crash, envVars, KeptInv

LEMMA AlwaysKept ==
  ASSUME OneProcessEach
  PROVE  Spec => []KeptInv
BY InitKept, KeptNext, PTL DEF Spec

\* An L402 invoice that was settled, at once or long after PayInvoice gave up on it,
\* left its token in the store or its caller with an error: no failure of the
\* network, the node, the disk, the event database or a process loses it silently.
THEOREM PurchasesKept ==
  ASSUME OneProcessEach
  PROVE  Spec => []PurchaseKeptOrReported
<1>1. KeptInv => PurchaseKeptOrReported
  BY DEF KeptInv, KeptOf, InError, PurchaseKeptOrReported, Purchases
<1>2. QED
  BY <1>1, AlwaysKept, PTL

\* A paid token never leaves the store, whoever races for it and whatever fails.
THEOREM TokenKept ==
  ASSUME OneProcessEach
  PROVE  Spec => PaidTokenKept
<1>1. ASSUME KeptInv, [Next]_vars, NEW d \in Domains,
             store[d].paid, store'[d] # store[d]
      PROVE  FALSE
  <2>1. ASSUME NEW r \in Requests, RequestStep(r)
        PROVE  FALSE
    BY <1>1, <2>1, StoreKeepsPaid
  <2>2. CASE Environment \/ UNCHANGED vars
    BY <1>1, <2>2
    DEF Environment, NodeResolves, Revoke, RemoveToken, Crash, OneProcessEach, diskVars, vars
  <2>3. QED
    BY <1>1, <2>1, <2>2 DEF Next, Finished
<1>2. KeptInv /\ [Next]_vars =>
        [\A d \in Domains : store[d].paid /\ store'[d] # store[d]
                                => store[d].tok \in revoked]_vars
  BY <1>1
<1>3. QED
  BY <1>2, AlwaysKept, PTL DEF Spec, PaidTokenKept

\* Money leaves the node only within the budget, only while the domain has no
\* paid token, and for L402 only with this invoice's token pending in the store.
THEOREM PaidWhenNeeded ==
  ASSUME OneProcessEach
  PROVE  Spec => PaysOnlyWhenNeeded
<1>1. ASSUME KeptInv, [Next]_vars, NEW r \in Requests,
             invoice[r] = "none", invoice'[r] = "inflight"
      PROVE  /\ WithinBudget(answer[r])
             /\ ~store[Domain(r)].paid
             /\ IsL402(r) => store[Domain(r)] = Pending(r)
  <2>1. TypeOK /\ r \in Tokens
    BY <1>1 DEF KeptInv, BackedInv, TypeInv, Tokens
  <2>2. ASSUME NEW s \in Requests, RequestStep(s)
        PROVE  pc[r] = "pay"
    <3>1. CASE s = r
      BY <1>1, <2>2, <3>1, InvoiceStep
    <3>2. CASE s # r
      BY <1>1, <2>1, <2>2, <3>2, OthersKeep
    <3>3. QED
      BY <3>1, <3>2
  <2>3. ASSUME Environment \/ UNCHANGED vars
        PROVE  FALSE
    BY <1>1, <2>1, <2>3
    DEF Environment, NodeResolves, Revoke, RemoveToken, Crash, envVars, vars, TypeOK
  <2>4. pc[r] = "pay"
    BY <1>1, <2>2, <2>3 DEF Next, Finished
  <2>5. QED
    BY <1>1, <2>4 DEF KeptInv, KeptOf, BuyingStages, PendingStages
<1>2. KeptInv /\ [Next]_vars =>
        [\A r \in Requests : invoice[r] = "none" /\ invoice'[r] = "inflight" =>
           /\ WithinBudget(answer[r])
           /\ ~store[Domain(r)].paid
           /\ IsL402(r) => store[Domain(r)] = Pending(r)]_vars
  BY <1>1
<1>3. QED
  BY <1>2, AlwaysKept, PTL DEF Spec, PaysOnlyWhenNeeded
----
(* One purchase per domain.                                                *)

\* Moreover the store can be written and a payment is resolved before PayInvoice
\* returns.  The network and payments may fail, the event database may refuse its
\* rows, and processes may die.
Reliable == OneProcessEach /\ Faults \cap {"timeout", "io"} = {}

\* The third conjunct is the point: an invoice that is in flight or settled has its
\* token in the store, paid or pending, and a pending one is guarded by a buyer at
\* work or by the death of the only process that goes to the domain.
PurchaseOf(r) ==
  /\ invoice[r] = "inflight" =>
       pc[r] \in {"await", "crashed"} /\ ~store[Domain(r)].paid
  /\ pc[r] = "recordFailure" => invoice[r] = "failed"
  /\ invoice[r] \in {"inflight", "settled"} /\ IsL402(r) =>
       \/ store[Domain(r)] = Paid(r)
       \/ store[Domain(r)] = Pending(r) /\ pc[r] \in PendingStages \cup {"crashed"}
  /\ invoice[r] = "inflight" => \A s \in Requests \ {r} :
       Domain(s) = Domain(r) =>
         invoice[s] # "inflight" /\ ~(IsL402(s) /\ invoice[s] = "settled")
  /\ pc[r] = "crashed" => \A s \in Requests :
       Proc(s) = Proc(r) => pc[s] \in {"crashed", "done"}

PurchaseInv == KeptInv /\ \A r \in Requests : PurchaseOf(r)

LEMMA InitPurchase == Init => PurchaseInv
<1>1. Init => \A r \in Requests : pc[r] = "start" /\ invoice[r] = "none"
  BY TransportAssumption DEF Init, Tokens
<1>2. QED
  BY <1>1, InitKept DEF PurchaseInv, PurchaseOf

\* The answer that made a request pay is the last one it kept.
LEMMA AnswerKept ==
  ASSUME BackedInv, [Next]_vars, NEW s \in Requests, invoice[s] # "none"
  PROVE  answer'[s] = answer[s] /\ (IsL402(s)' <=> IsL402(s))
<1>1. TypeOK /\ pc[s] \notin UnpaidStages
  BY DEF BackedInv, TypeInv
<1>2. ASSUME NEW r \in Requests, RequestStep(r)
      PROVE  answer'[s] = answer[s]
  <2>1. CASE s # r
    BY <1>1, <1>2, <2>1, OthersKeep
  <2>2. CASE s = r
    <3>1. ~(SendCached(r) \/ SendPlain(r) \/ Reissue(r))
      BY <1>1, <2>2 DEF SendCached, SendPlain, Reissue, UnpaidStages
    <3>2. QED
      BY <1>2, <3>1
      DEF RequestStep,
          LookupCached, InvalidateCredential, LockDomain, DoubleCheck, RetryCached,
          RejectChallenge, AcceptChallenge, RemoveStale, StorePending, PayInvoice,
          PaymentSucceeds, PaymentFails, RecordFailure, RecordSuccess, StoreToken,
          LoadEventID, PublishPayment, RetryPaid, EnrichEvent, DoDownload
  <2>3. QED
    BY <2>1, <2>2
<1>3. ASSUME Environment \/ UNCHANGED vars
      PROVE  answer'[s] = answer[s]
  BY <1>3 DEF Environment, NodeResolves, Revoke, RemoveToken, Crash, vars
<1>4. answer'[s] = answer[s]
  BY <1>2, <1>3 DEF Next, Finished
<1>5. QED
  BY <1>4 DEF IsL402

\* When a request pays, no other invoice of the domain is in flight and none of its
\* L402 invoices was ever settled: each would have its token in the store or its
\* buyer in the way.
LEMMA PaysAlone ==
  ASSUME Reliable, PurchaseInv, NEW r \in Requests, pc[r] = "pay",
         NEW s \in Requests \ {r}, Domain(s) = Domain(r)
  PROVE  invoice[s] # "inflight" /\ ~(IsL402(s) /\ invoice[s] = "settled")
<1>1. Proc(s) = Proc(r) /\ ~store[Domain(r)].paid
  BY DEF Reliable, OneProcessEach, PurchaseInv, KeptInv, KeptOf, BuyingStages
<1>2. pc[s] \notin LockedStages
  BY <1>1 DEF PurchaseInv, KeptInv, LockInv, LockMatchesWork, LockedStages
<1>3. pc[s] # "crashed"
  BY <1>1 DEF PurchaseInv, PurchaseOf
<1>4. PurchaseOf(s)
  BY DEF PurchaseInv
<1>5. invoice[s] # "inflight"
  BY <1>2, <1>3, <1>4 DEF PurchaseOf, LockedStages
<1>6. ASSUME IsL402(s), invoice[s] = "settled"
      PROVE  FALSE
  <2>1. store[Domain(r)] = Paid(s) \/ pc[s] \in PendingStages \cup {"crashed"}
    BY <1>4, <1>6 DEF PurchaseOf
  <2>2. QED
    BY <1>1, <1>2, <1>3, <2>1 DEF Paid, PendingStages, LockedStages
<1>7. QED
  BY <1>5, <1>6

\* A request that is over takes no step.
LEMMA StepsAlive ==
  ASSUME NEW r \in Requests, RequestStep(r)
  PROVE  pc[r] \notin {"crashed", "done"}
BY DEF RequestStep, LookupCached, SendCached, InvalidateCredential, SendPlain, LockDomain,
       DoubleCheck, RetryCached, Reissue, RejectChallenge, AcceptChallenge, RemoveStale,
       StorePending, PayInvoice, PaymentSucceeds, PaymentFails, RecordFailure,
       RecordSuccess, StoreToken, LoadEventID, PublishPayment, RetryPaid, EnrichEvent,
       DoDownload

\* The request that takes the step keeps its part of the invariant.
LEMMA OwnPurchase ==
  ASSUME Reliable, PurchaseInv, NEW r \in Requests, RequestStep(r)
  PROVE  /\ invoice'[r] = "inflight" => pc'[r] = "await" /\ ~store'[Domain(r)].paid
         /\ pc'[r] = "recordFailure" => invoice'[r] = "failed"
         /\ invoice'[r] \in {"inflight", "settled"} /\ IsL402(r)' =>
              \/ store'[Domain(r)] = Paid(r)
              \/ store'[Domain(r)] = Pending(r) /\ pc'[r] \in PendingStages
         /\ pc'[r] # "crashed"
<1> USE DEF PurchaseOf, PendingStages, Goto, Return
<1>1. TypeOK /\ PurchaseOf(r) /\ KeptOf(r) /\ Domain(r) \in Domains /\ r \in Tokens
  BY Homes DEF PurchaseInv, KeptInv, BackedInv, TypeInv, Tokens
<1>2. pc[r] \in UnpaidStages => invoice[r] = "none"
  BY DEF PurchaseInv, KeptInv, BackedInv
<1>3. "io" \notin Faults /\ "timeout" \notin Faults /\ ~RacesAnotherProcess(r)
  BY DEF Reliable, OneProcessEach, RacesAnotherProcess
<1> USE DEF TypeOK, memVars, diskVars, envVars, UnpaidStages, IsL402, Domain
<1>4. CASE LookupCached(r) \/ DoubleCheck(r) \/ InvalidateCredential(r)
  BY <1>1, <1>2, <1>4 DEF LookupCached, DoubleCheck, InvalidateCredential
<1>5. CASE SendCached(r) \/ SendPlain(r) \/ Reissue(r)
  BY <1>1, <1>2, <1>5 DEF SendCached, SendPlain, Reissue, SendUnpaid
<1>6. CASE LockDomain(r) \/ RetryCached(r) \/ RejectChallenge(r) \/ AcceptChallenge(r)
  BY <1>1, <1>2, <1>6 DEF LockDomain, RetryCached, RejectChallenge, AcceptChallenge
<1>7. CASE RemoveStale(r) \/ StorePending(r)
  BY <1>1, <1>2, <1>7 DEF RemoveStale, StorePending, StoreOrFail
<1>8. CASE PayInvoice(r)
  BY <1>1, <1>2, <1>8 DEF PayInvoice, KeptOf, BuyingStages
<1>9. CASE PaymentSucceeds(r) \/ PaymentFails(r)
  BY <1>1, <1>3, <1>9 DEF PaymentSucceeds, PaymentFails
<1>10. CASE RecordFailure(r) \/ RecordSuccess(r)
  BY <1>1, <1>10 DEF RecordFailure, RecordSuccess, SchemeOf
<1>11. CASE StoreToken(r)
  BY <1>1, <1>3, <1>11
  DEF StoreToken, StoreOrFail, StoreAllowed, IsPending, Pending, Paid, KeptOf
<1>12. CASE LoadEventID(r) \/ PublishPayment(r) \/ EnrichEvent(r) \/ DoDownload(r)
  BY <1>1, <1>12 DEF LoadEventID, PublishPayment, EnrichEvent, DoDownload
<1>13. CASE RetryPaid(r)
  BY <1>1, <1>13 DEF RetryPaid
<1>14. QED
  BY <1>4, <1>5, <1>6, <1>7, <1>8, <1>9, <1>10, <1>11, <1>12, <1>13 DEF RequestStep

\* Nobody writes the entry of another request's domain while its invoice is in
\* flight or its token is there, nor takes a step after a crash.
LEMMA OthersPurchase ==
  ASSUME Reliable, PurchaseInv, NEW r \in Requests, RequestStep(r),
         NEW s \in Requests, s # r
  PROVE  /\ invoice'[s] = "inflight" =>
              pc'[s] \in {"await", "crashed"} /\ ~store'[Domain(s)].paid
         /\ pc'[s] = "recordFailure" => invoice'[s] = "failed"
         /\ invoice'[s] \in {"inflight", "settled"} /\ IsL402(s)' =>
              \/ store'[Domain(s)] = Paid(s)
              \/ /\ store'[Domain(s)] = Pending(s)
                 /\ pc'[s] \in PendingStages \cup {"crashed"}
<1>1. TypeOK /\ PurchaseOf(s)
  BY DEF PurchaseInv, KeptInv, BackedInv, TypeInv
<1>2. pc'[s] = pc[s] /\ answer'[s] = answer[s] /\ invoice'[s] = invoice[s]
  BY <1>1, OthersKeep
<1>3. CASE store'[Domain(s)] = store[Domain(s)]
  BY <1>1, <1>2, <1>3 DEF PurchaseOf, IsL402
<1>4. CASE store'[Domain(s)] # store[Domain(s)]
  <2>1. pc[s] \notin LockedStages /\ ~store[Domain(s)].paid
    BY <1>4, EntryGuarded DEF Reliable, PurchaseInv
  <2>2. pc[s] # "crashed"
    <3>1. Domain(s) = Domain(r) /\ pc[r] \notin {"crashed", "done"}
      BY <1>4, StoreKeepsPaid, Homes DEF PurchaseInv
    <3>2. QED
      BY <3>1 DEF PurchaseInv, PurchaseOf, Reliable, OneProcessEach
  <2>3. QED
    BY <1>1, <1>2, <2>1, <2>2 DEF PurchaseOf, IsL402, PendingStages, LockedStages, Paid
<1>5. QED
  BY <1>3, <1>4

\* One payment at a time.
LEMMA PaymentsStayApart ==
  ASSUME Reliable, PurchaseInv, [Next]_vars, NEW r \in Requests, RequestStep(r),
         NEW s \in Requests, invoice'[s] = "inflight",
         NEW q \in Requests \ {s}, Domain(q) = Domain(s)
  PROVE  invoice'[q] # "inflight" /\ ~(IsL402(q)' /\ invoice'[q] = "settled")
<1>1. TypeOK /\ BackedInv
  BY DEF PurchaseInv, KeptInv, BackedInv, TypeInv
<1>2. invoice[q] # "none" => (IsL402(q)' <=> IsL402(q))
  BY <1>1, AnswerKept
<1>3. CASE invoice' = invoice
  BY <1>2, <1>3 DEF PurchaseInv, PurchaseOf
<1>4. CASE pc[r] = "pay" /\ invoice' = [invoice EXCEPT ![r] = "inflight"]
  <2>1. r \in Tokens /\ s \in Tokens /\ q \in Tokens
    BY DEF Tokens
  <2>2. CASE s = r
    <3>1. invoice[q] # "inflight" /\ ~(IsL402(q) /\ invoice[q] = "settled")
      BY <1>4, <2>2, PaysAlone
    <3>2. invoice'[q] = invoice[q]
      BY <1>1, <1>4, <2>1, <2>2 DEF TypeOK
    <3>3. QED
      BY <1>2, <3>1, <3>2
  <2>3. CASE s # r
    <3>1. invoice[s] = "inflight"
      BY <1>1, <1>4, <2>1, <2>3 DEF TypeOK
    <3>2. q # r
      BY <1>4, <2>3, <3>1, PaysAlone
    <3>3. invoice'[q] = invoice[q]
      BY <1>1, <1>4, <2>1, <3>2 DEF TypeOK
    <3>4. QED
      BY <1>2, <3>1, <3>3 DEF PurchaseInv, PurchaseOf
  <2>4. QED
    BY <2>2, <2>3
<1>5. QED
  BY <1>3, <1>4, InvoiceStep

LEMMA PurchaseStep ==
  ASSUME Reliable, PurchaseInv, [Next]_vars, NEW r \in Requests, RequestStep(r),
         NEW s \in Requests
  PROVE  PurchaseOf(s)'
<1>1. TypeOK
  BY DEF PurchaseInv, KeptInv, BackedInv, TypeInv
<1>2. /\ invoice'[s] = "inflight" =>
           pc'[s] \in {"await", "crashed"} /\ ~store'[Domain(s)].paid
      /\ pc'[s] = "recordFailure" => invoice'[s] = "failed"
      /\ invoice'[s] \in {"inflight", "settled"} /\ IsL402(s)' =>
           \/ store'[Domain(s)] = Paid(s)
           \/ /\ store'[Domain(s)] = Pending(s)
              /\ pc'[s] \in PendingStages \cup {"crashed"}
  <2>1. CASE s = r
    BY <2>1, OwnPurchase
  <2>2. CASE s # r
    BY <2>2, OthersPurchase
  <2>3. QED
    BY <2>1, <2>2
<1>3. invoice'[s] = "inflight" => \A q \in Requests \ {s} :
        Domain(q) = Domain(s) =>
          invoice'[q] # "inflight" /\ ~(IsL402(q)' /\ invoice'[q] = "settled")
  BY PaymentsStayApart
<1>4. ASSUME pc'[s] = "crashed", NEW q \in Requests, Proc(q) = Proc(s)
      PROVE  pc'[q] \in {"crashed", "done"}
  <2>1. s # r /\ pc'[s] = pc[s]
    BY <1>1, <1>4, OwnPurchase, OthersKeep
  <2>2. pc[q] \in {"crashed", "done"} /\ pc[r] \notin {"crashed", "done"}
    BY <1>1, <1>4, <2>1, StepsAlive DEF PurchaseInv, PurchaseOf
  <2>3. QED
    BY <1>1, <2>2, OthersKeep
<1>5. QED
  BY <1>2, <1>3, <1>4 DEF PurchaseOf, Domain, Proc, Paid, Pending

LEMMA PurchaseNext ==
  ASSUME Reliable, PurchaseInv, [Next]_vars
  PROVE  PurchaseInv'
<1>1. KeptInv' /\ BackedInv /\ TypeOK
  BY KeptNext DEF PurchaseInv, KeptInv, Reliable, BackedInv, TypeInv
<1>2. ASSUME NEW r \in Requests, RequestStep(r), NEW s \in Requests
      PROVE  PurchaseOf(s)'
  BY <1>2, PurchaseStep
<1>3. ASSUME NEW t \in Tokens, NodeResolves(t), NEW s \in Requests
      PROVE  PurchaseOf(s)'
  <2>1. UNCHANGED <<pc, store, answer>>
    BY <1>3 DEF NodeResolves, diskVars
  <2>2. \A q \in Requests :
          /\ invoice'[q] = "inflight" => invoice[q] = "inflight"
          /\ invoice'[q] # invoice[q] => q = t /\ invoice[q] = "inflight"
    BY <1>1, <1>3 DEF NodeResolves, TypeOK, Tokens
  <2>3. ASSUME invoice'[s] = "inflight", NEW q \in Requests \ {s}, Domain(q) = Domain(s)
        PROVE  invoice'[q] # "inflight" /\ ~(IsL402(q) /\ invoice'[q] = "settled")
    <3>1. invoice[s] = "inflight" /\ invoice'[q] = invoice[q]
      BY <2>2, <2>3 DEF PurchaseInv, PurchaseOf
    <3>2. QED
      BY <2>3, <3>1 DEF PurchaseInv, PurchaseOf
  <2>4. invoice[s] = "failed" => invoice'[s] = "failed"
    BY <2>2
  <2>5. invoice'[s] \in {"inflight", "settled"} =>
          invoice[s] \in {"inflight", "settled"}
    BY <2>2
  <2>6. QED
    BY <2>1, <2>2, <2>3, <2>4, <2>5
    DEF PurchaseInv, PurchaseOf, IsL402, Domain, Proc, Paid, Pending
<1>4. ASSUME NEW p \in Procs, Crash(p), NEW s \in Requests
      PROVE  PurchaseOf(s)'
  <2>1. UNCHANGED <<invoice, store, answer>>
    BY <1>4 DEF Crash, diskVars, envVars
  <2>2. pc'[s] \in {pc[s], "crashed"}
    BY <1>4 DEF Crash
  <2>3. ASSUME pc'[s] = "crashed", NEW q \in Requests, Proc(q) = Proc(s)
        PROVE  pc'[q] \in {"crashed", "done"}
    BY <1>4, <2>3 DEF Crash, PurchaseInv, PurchaseOf, Proc
  <2>4. QED
    BY <2>1, <2>2, <2>3 DEF PurchaseInv, PurchaseOf, IsL402, Domain, Proc, Paid, Pending
<1>5. ASSUME UNCHANGED vars, NEW s \in Requests
      PROVE  PurchaseOf(s)'
  <2>1. UNCHANGED <<pc, store, answer, invoice>>
    BY <1>5 DEF vars, diskVars, envVars
  <2>2. QED
    BY <2>1 DEF PurchaseInv, PurchaseOf, IsL402, Domain, Proc, Paid, Pending
<1>6. Environment => (\E t \in Tokens : NodeResolves(t)) \/ (\E p \in Procs : Crash(p))
  BY DEF Environment, Reliable, OneProcessEach, Revoke, RemoveToken
<1>7. QED
  BY <1>1, <1>2, <1>3, <1>4, <1>5, <1>6 DEF Next, Finished, PurchaseInv

LEMMA AlwaysPurchase ==
  ASSUME Reliable
  PROVE  Spec => []PurchaseInv
BY InitPurchase, PurchaseNext, PTL DEF Spec

\* However many requests of however many processes meet a 402 at the same time, for
\* however many domains, and however many payments fail and processes die: as long
\* as each domain has one process that goes to it, its L402 token is paid for once.
THEOREM OnePurchase ==
  ASSUME Reliable
  PROVE  Spec => []BoughtOnce
<1>1. PurchaseInv => BoughtOnce
  <2> SUFFICES ASSUME PurchaseInv,
                      NEW r \in Requests, NEW s \in Requests,
                      r \in Purchases(Domain(r)), s \in Purchases(Domain(r))
               PROVE  r = s
    BY DEF BoughtOnce
  <2>1. ASSUME NEW q \in Requests, q \in Purchases(Domain(r))
        PROVE  store[Domain(r)].tok = q
    <3>1. PurchaseOf(q) /\ IsL402(q) /\ invoice[q] = "settled" /\ Domain(q) = Domain(r)
      BY <2>1 DEF Purchases, PurchaseInv
    <3>2. store[Domain(q)] \in {Paid(q), Pending(q)}
      BY <3>1 DEF PurchaseOf
    <3>3. QED
      BY <3>1, <3>2 DEF Paid, Pending
  <2>2. QED
    BY <2>1
<1>2. QED
  BY <1>1, AlwaysPurchase, PTL
----
(* The transport implements PaidAccess.                                    *)

\* Whether a server may serve a request that nobody paid for.
Gratis == \E a \in Answers : a.status # 402

\* The requests whose last challenge was one the L402 scheme pays.
L402Requests == {s \in Requests : IsL402(s)}

\* Whoever presents a credential presents its own purchase or a token that opened
\* the domain, and a request that has returned buys nothing any more.
AccessOf(r) ==
  /\ cred[r] # None => cred[r] \in {r} \cup L402Requests \cup Cached
  /\ pc[r] \in {"sendCached", "retryCached", "retryPaid"} => cred[r] # None
  /\ pc[r] = "storeToken" => IsL402(r)
  /\ result[r] # "none" => pc[r] \in {"enrich", "returned", "done", "crashed"}
  /\ invoice[r] = "inflight" => result[r] = "none"

\* What holds of a domain: nobody pays the invoices of an earlier run again, and
\* the token that such a run left stays.
OpenedOf(d) ==
  /\ invoice[d] \in {"none", "settled"}
  /\ store[d].paid => store[d].tok \in L402Requests \cup Cached
  /\ d \in Cached => store[d].paid

AccessInv ==
  /\ PurchaseInv
  /\ \A d \in Domains : OpenedOf(d)
  /\ \A r \in Requests : AccessOf(r)

LEMMA InitAccess == Init => AccessInv
<1> SUFFICES ASSUME Init PROVE AccessInv
  OBVIOUS
<1>1. \A d \in Domains : OpenedOf(d)
  BY DEF Init, Tokens, OpenedOf, NoToken, Paid
<1>2. \A r \in Requests : /\ cred[r] = None /\ pc[r] = "start"
                          /\ result[r] = "none" /\ invoice[r] = "none"
  BY TransportAssumption DEF Init, Tokens
<1>3. QED
  BY <1>1, <1>2, InitPurchase DEF AccessInv, AccessOf

\* A step of a request returns at most once, and with a response that was served
\* only if it presented a credential or the server asks for nothing.
LEMMA OutcomeStep ==
  ASSUME Reliable, AccessInv, NEW r \in Requests, RequestStep(r)
  PROVE  /\ \/ result' = result
            \/ /\ result[r] = "none"
               /\ \E o \in {"served", "unpaid", "error"} :
                    /\ result' = [result EXCEPT ![r] = o]
                    /\ o = "served" => cred[r] # None \/ Gratis
         /\ result'[r] # "none" => pc'[r] \in {"enrich", "returned", "done"}
         /\ pc'[r] \in {"sendCached", "retryCached", "retryPaid"} => cred'[r] # None
         /\ pc'[r] = "storeToken" => IsL402(r)'
<1>1. TypeOK /\ AccessOf(r) /\ r # None
  BY TransportAssumption DEF AccessInv, PurchaseInv, KeptInv, BackedInv, TypeInv
<1> USE DEF AccessOf, TypeOK, Goto, Return, IsL402
<1>2. CASE LookupCached(r) \/ InvalidateCredential(r) \/ LockDomain(r) \/ DoubleCheck(r)
  BY <1>1, <1>2 DEF LookupCached, InvalidateCredential, LockDomain, DoubleCheck
<1>3. CASE SendCached(r) \/ RetryCached(r) \/ RetryPaid(r)
  <2>1. \A a : Outcome(a) \in {"served", "unpaid"}
    BY DEF Outcome
  <2>2. CASE SendCached(r)
    BY <1>1, <2>2, KeptAccepted DEF SendCached, AccessInv, PurchaseInv
  <2>3. CASE RetryCached(r)
    BY <1>1, <2>1, <2>3 DEF RetryCached
  <2>4. CASE RetryPaid(r)
    BY <1>1, <2>1, <2>4 DEF RetryPaid
  <2>5. QED
    BY <1>3, <2>2, <2>3, <2>4
<1>4. CASE SendPlain(r) \/ Reissue(r)
  <2>1. \A a \in Answers : Outcome(a) = "unpaid" \/ (Outcome(a) = "served" /\ Gratis)
    BY DEF Outcome, Gratis
  <2>2. QED
    BY <1>1, <1>4, <2>1 DEF SendPlain, Reissue, SendUnpaid
<1>5. CASE RejectChallenge(r) \/ AcceptChallenge(r) \/ RemoveStale(r) \/ PayInvoice(r)
  BY <1>1, <1>5 DEF RejectChallenge, AcceptChallenge, RemoveStale, PayInvoice
<1>6. CASE StorePending(r) \/ StoreToken(r)
  BY <1>1, <1>6 DEF StorePending, StoreToken, StoreOrFail
<1>7. CASE \/ PaymentSucceeds(r) \/ PaymentFails(r) \/ RecordFailure(r)
           \/ RecordSuccess(r) \/ LoadEventID(r)
  BY <1>1, <1>7 DEF PaymentSucceeds, PaymentFails, RecordFailure, RecordSuccess, LoadEventID
<1>8. CASE PublishPayment(r) \/ EnrichEvent(r) \/ DoDownload(r)
  BY <1>1, <1>8 DEF PublishPayment, EnrichEvent, DoDownload
<1>9. QED
  BY <1>2, <1>3, <1>4, <1>5, <1>6, <1>7, <1>8 DEF RequestStep

LEMMA AccessNext ==
  ASSUME Reliable, AccessInv, [Next]_vars
  PROVE  AccessInv'
<1>1. PurchaseInv /\ PurchaseInv' /\ BackedInv /\ TypeInv /\ TypeOK
  BY PurchaseNext DEF AccessInv, PurchaseInv, KeptInv, BackedInv, TypeInv
<1>2. \A s \in L402Requests : invoice[s] = "settled" => s \in L402Requests'
  <2> SUFFICES ASSUME NEW s \in L402Requests, invoice[s] = "settled"
               PROVE  s \in L402Requests'
    OBVIOUS
  <2>1. s \in Requests /\ IsL402(s) /\ invoice[s] # "none"
    BY DEF L402Requests
  <2>2. IsL402(s)' <=> IsL402(s)
    BY <1>1, <2>1, AnswerKept
  <2>3. QED
    BY <2>1, <2>2 DEF L402Requests
<1>3. /\ \A d \in Domains : store[d].paid => invoice[store[d].tok] = "settled"
      /\ \A s \in Requests : cred[s] # None => invoice[cred[s]] = "settled"
  BY <1>1 DEF BackedInv, PaidTokenBacked
<1>4. ASSUME NEW r \in Requests, RequestStep(r)
      PROVE  AccessInv'
  <2>1. ASSUME NEW d \in Domains
        PROVE  invoice'[d] \in {"none", "settled"}
    <3>1. d # r /\ d \in Tokens
      BY TransportAssumption DEF Tokens
    <3>2. QED
      BY <1>1, <1>4, <3>1, InvoiceStep DEF AccessInv, OpenedOf, TypeOK
  <2>2. ASSUME NEW d \in Domains, store'[d].paid
        PROVE  store'[d].tok \in L402Requests' \cup Cached
    <3>1. CASE store'[d] = store[d]
      BY <1>2, <1>3, <2>2, <3>1 DEF AccessInv, OpenedOf
    <3>2. CASE store'[d] \in {NoToken, Pending(r)}
      BY <2>2, <3>2 DEF NoToken, Pending
    <3>3. CASE pc[r] = "storeToken" /\ store'[d] = Paid(r)
      <4>1. IsL402(r) /\ invoice[r] = "settled"
        BY <1>1, <3>3 DEF AccessInv, AccessOf, BackedInv, SettledStages
      <4>2. QED
        BY <1>2, <3>3, <4>1 DEF Paid, L402Requests
    <3>4. QED
      BY <1>1, <1>4, <3>1, <3>2, <3>3, StoreStep
  <2>3. ASSUME NEW d \in Cached
        PROVE  store'[d].paid
    <3>1. d \in Domains /\ store[d].paid
      BY TransportAssumption DEF AccessInv, OpenedOf
    <3>2. store'[d] = store[d]
      BY <1>4, <3>1, StoreKeepsPaid DEF AccessInv, PurchaseInv
    <3>3. QED
      BY <3>1, <3>2
  <2>4. ASSUME NEW s \in Requests
        PROVE  AccessOf(s)'
    <3>1. CASE s # r
      <4>1. /\ cred'[s] = cred[s] /\ pc'[s] = pc[s]
            /\ result'[s] = result[s] /\ invoice'[s] = invoice[s]
        BY <1>1, <1>4, <3>1, OthersKeep
      <4>2. answer'[s] = answer[s]
        BY <1>1, <1>4, <3>1, OthersKeep
      <4>3. IsL402(s)' <=> IsL402(s)
        BY <4>2 DEF IsL402
      <4>4. QED
        BY <1>2, <1>3, <4>1, <4>3 DEF AccessInv, AccessOf
    <3>2. CASE s = r
      <4>1. cred'[r] # None => cred'[r] \in {r} \cup L402Requests' \cup Cached
        BY <1>1, <1>2, <1>3, <1>4, CredStep, Homes DEF AccessInv, AccessOf, OpenedOf
      <4>2. invoice'[r] = "inflight" => pc'[r] = "await"
        BY <1>4, OwnPurchase DEF AccessInv
      <4>3. QED
        BY <1>4, <3>2, <4>1, <4>2, OutcomeStep DEF AccessOf
    <3>3. QED
      BY <3>1, <3>2
  <2>5. QED
    BY <1>1, <2>1, <2>2, <2>3, <2>4 DEF AccessInv, OpenedOf
<1>5. ASSUME NEW t \in Tokens, NodeResolves(t)
      PROVE  AccessInv'
  <2>1. UNCHANGED <<store, cred, pc, result, answer>>
    BY <1>5 DEF NodeResolves, diskVars
  <2>2. \A u \in Tokens : invoice'[u] # invoice[u] => u = t /\ invoice[u] = "inflight"
    BY <1>1, <1>5 DEF NodeResolves, TypeOK
  <2>3. \A d \in Domains : invoice'[d] = invoice[d]
    BY <2>2 DEF AccessInv, OpenedOf, Tokens
  <2>4. \A s \in Requests : invoice'[s] = "inflight" => invoice[s] = "inflight"
    BY <1>1, <1>5 DEF NodeResolves, TypeOK, Tokens
  <2>5. QED
    BY <1>1, <2>1, <2>3, <2>4
    DEF AccessInv, AccessOf, OpenedOf, L402Requests, IsL402
<1>6. ASSUME NEW p \in Procs, Crash(p)
      PROVE  AccessInv'
  <2>1. UNCHANGED <<store, cred, result, answer, invoice>>
    BY <1>6 DEF Crash, diskVars, envVars
  <2>2. \A s \in Requests : pc'[s] \in {pc[s], "crashed"}
    BY <1>6 DEF Crash
  <2>3. QED
    BY <1>1, <2>1, <2>2 DEF AccessInv, AccessOf, OpenedOf, L402Requests, IsL402
<1>7. CASE UNCHANGED vars
  BY <1>1, <1>7
  DEF vars, diskVars, envVars, AccessInv, AccessOf, OpenedOf, L402Requests, IsL402
<1>8. Environment => (\E t \in Tokens : NodeResolves(t)) \/ (\E p \in Procs : Crash(p))
  BY DEF Environment, Reliable, OneProcessEach, Revoke, RemoveToken
<1>9. QED
  BY <1>4, <1>5, <1>6, <1>7, <1>8 DEF Next, Finished

\* The requests that bought access for themselves.
Singles == {r \in Requests : invoice[r] = "settled" /\ ~IsL402(r)}

Owners == [d \in Domains |-> Owner(d)]

LEMMA OwnerOf ==
  ASSUME NEW d \in Domains
  PROVE  /\ Owner(d) = None <=> Openers(d) = {}
         /\ Owner(d) # None => Owner(d) \in Openers(d)
<1>1. None \notin Openers(d)
  BY TransportAssumption DEF Openers, Purchases
<1>2. QED
  BY <1>1 DEF Owner

\* Which invoices are settled, and for what, is all that the abstract state of a
\* domain depends on.
LEMMA SamePurchases ==
  ASSUME \A s \in Requests : (invoice'[s] = "settled") <=> (invoice[s] = "settled"),
         \A s \in Requests : invoice[s] = "settled" => (IsL402(s)' <=> IsL402(s))
  PROVE  Owners' = Owners /\ Singles' = Singles
<1>1. ASSUME NEW d \in Domains
      PROVE  Owner(d)' = Owner(d)
  <2>1. Purchases(d)' = Purchases(d)
    BY DEF Purchases, Domain
  <2>2. Openers(d)' = Openers(d)
    BY <2>1 DEF Openers
  <2>3. QED
    BY <2>2 DEF Owner
<1>2. QED
  BY <1>1 DEF Owners, Singles

\* Whoever holds a credential has access.
LEMMA CredentialOpens ==
  ASSUME AccessInv, NEW r \in Requests, cred[r] # None
  PROVE  Owners[DomainOf[r]] # None \/ r \in Singles
<1> DEFINE t == cred[r]
<1>1. /\ t \in {r} \cup L402Requests \cup Cached
      /\ invoice[t] = "settled"
      /\ SoldBy(t) = Domain(r)
  BY DEF AccessInv, AccessOf, PurchaseInv, KeptInv, BackedInv, PaidTokenBacked
<1>2. Domain(r) \in Domains /\ Domain(r) = DomainOf[r]
  BY Homes DEF Domain
<1>3. CASE t \in Cached
  <2>1. t = Domain(r)
    BY <1>1, <1>3, TransportAssumption DEF SoldBy
  <2>2. t \in Openers(Domain(r))
    BY <1>3, <2>1 DEF Openers
  <2>3. QED
    BY <1>2, <2>2, OwnerOf DEF Owners
<1>4. CASE t \in Requests /\ IsL402(t)
  <2>1. Domain(t) = Domain(r)
    BY <1>1, <1>4 DEF SoldBy, Domain
  <2>2. t \in Openers(Domain(r))
    BY <1>1, <1>4, <2>1 DEF Openers, Purchases
  <2>3. QED
    BY <1>2, <2>2, OwnerOf DEF Owners
<1>5. CASE t = r /\ ~IsL402(t)
  BY <1>1, <1>5 DEF Singles
<1>6. QED
  BY <1>1, <1>3, <1>4, <1>5 DEF L402Requests

\* Nobody else has bought the domain when a payment for it is settled.
LEMMA BuysUnowned ==
  ASSUME AccessInv, NEW r \in Requests, invoice[r] = "inflight"
  PROVE  Openers(Domain(r)) = {} /\ result[r] = "none" /\ r \notin Singles
<1>1. PurchaseOf(r) /\ AccessOf(r) /\ OpenedOf(Domain(r))
  BY Homes DEF AccessInv, PurchaseInv
<1>2. Domain(r) \notin Cached
  BY <1>1 DEF PurchaseOf, OpenedOf
<1>3. ASSUME NEW s \in Purchases(Domain(r))
      PROVE  FALSE
  <2>1. s \in Requests /\ Domain(s) = Domain(r) /\ IsL402(s) /\ invoice[s] = "settled"
    BY <1>3 DEF Purchases
  <2>2. s # r
    BY <2>1
  <2>3. QED
    BY <1>1, <2>1, <2>2 DEF PurchaseOf
<1>4. QED
  BY <1>1, <1>2, <1>3 DEF Openers, AccessOf, Singles

LEMMA InitMapsToInit ==
  ASSUME Init
  PROVE  Access!Init
<1>1. \A r \in Requests : invoice[r] = "none"
  BY TransportAssumption DEF Init, Tokens
<1>2. \A d \in Domains : Openers(d) = Cached \cap {d}
  BY <1>1 DEF Purchases, Openers
<1>3. \A d \in Domains : Owner(d) = IF d \in Cached THEN d ELSE None
  <2> SUFFICES ASSUME NEW d \in Domains
               PROVE  Owner(d) = IF d \in Cached THEN d ELSE None
    OBVIOUS
  <2>1. CASE d \in Cached
    <3>1. Openers(d) = {d}
      BY <1>2, <2>1
    <3>2. QED
      BY <2>1, <3>1 DEF Owner
  <2>2. CASE d \notin Cached
    BY <1>2, <2>2 DEF Owner
  <2>3. QED
    BY <2>1, <2>2
<1>4. QED
  BY <1>1, <1>3 DEF Access!Init, Init

\* A settled invoice opens a domain or serves one request, a return serves or
\* refuses, and everything else the transport does is invisible to its callers.
LEMMA StepMapsToStep ==
  ASSUME Reliable, AccessInv, [Next]_vars
  PROVE  Access!Next \/ UNCHANGED <<Owners, Singles, result>>
<1>1. BackedInv /\ TypeOK
  BY DEF AccessInv, PurchaseInv, KeptInv, BackedInv, TypeInv
<1>2. \A s \in Requests : invoice[s] # "none" => (IsL402(s)' <=> IsL402(s))
  <2> SUFFICES ASSUME NEW s \in Requests, invoice[s] # "none"
               PROVE  IsL402(s)' <=> IsL402(s)
    OBVIOUS
  <2>1. QED
    BY <1>1, AnswerKept
<1>3. ASSUME NEW r \in Requests, RequestStep(r)
      PROVE  Access!Next \/ UNCHANGED <<Owners, Singles, result>>
  <2>1. \A s \in Requests : (invoice'[s] = "settled") <=> (invoice[s] = "settled")
    BY <1>1, <1>3, InvoiceStep DEF TypeOK, Tokens, BackedInv, UnpaidStages
  <2>2. Owners' = Owners /\ Singles' = Singles
    BY <1>2, <2>1, SamePurchases
  <2>3. ASSUME result[r] = "none",
               NEW o \in {"served", "unpaid", "error"},
               result' = [result EXCEPT ![r] = o],
               o = "served" => cred[r] # None \/ Gratis
        PROVE  Access!Next
    <3>1. CASE o = "served"
      <4>1. Owners[DomainOf[r]] # None \/ r \in Singles \/ Gratis
        BY <2>3, <3>1, CredentialOpens
      <4>2. Access!Serve(r)
        BY <2>2, <2>3, <3>1, <4>1
        DEF Access!Serve, Access!HasAccess, Owners, Singles, Gratis
      <4>3. QED
        BY <4>2 DEF Access!Next
    <3>2. CASE o # "served"
      <4>1. Access!Refuse(r)
        BY <2>2, <2>3, <3>2 DEF Access!Refuse, Owners, Singles
      <4>2. QED
        BY <4>1 DEF Access!Next
    <3>3. QED
      BY <3>1, <3>2
  <2>4. QED
    BY <1>3, <2>2, <2>3, OutcomeStep
<1>4. ASSUME NEW t \in Tokens, NodeResolves(t)
      PROVE  Access!Next \/ UNCHANGED <<Owners, Singles, result>>
  <2>1. t \in Requests /\ invoice[t] = "inflight" /\ answer' = answer /\ result' = result
    BY <1>4 DEF NodeResolves, AccessInv, OpenedOf, Tokens
  <2>2. /\ Openers(Domain(t)) = {} /\ result[t] = "none" /\ t \notin Singles
        /\ Owners[DomainOf[t]] = None
    <3>1. Openers(Domain(t)) = {} /\ result[t] = "none" /\ t \notin Singles
      BY <2>1, BuysUnowned
    <3>2. QED
      BY <2>1, <3>1, OwnerOf, Homes DEF Owners, Domain
  <2>3. \A s \in Requests : IsL402(s)' <=> IsL402(s)
    BY <2>1 DEF IsL402
  <2>4. CASE invoice' = [invoice EXCEPT ![t] = "failed"]
    <3>1. \A s \in Requests : (invoice'[s] = "settled") <=> (invoice[s] = "settled")
      BY <1>1, <2>1, <2>4 DEF TypeOK, Tokens
    <3>2. QED
      BY <2>1, <2>3, <3>1, SamePurchases
  <2>5. CASE invoice' = [invoice EXCEPT ![t] = "settled"]
    <3>1. \A s \in Requests :
            (invoice'[s] = "settled") <=> (invoice[s] = "settled" \/ s = t)
      BY <1>1, <2>1, <2>5 DEF TypeOK, Tokens
    <3>2. \A d \in Domains :
            Openers(d)' = IF d = Domain(t) /\ IsL402(t) THEN {t} ELSE Openers(d)
      <4> SUFFICES ASSUME NEW d \in Domains
                   PROVE  Openers(d)' = IF d = Domain(t) /\ IsL402(t)
                                        THEN {t} ELSE Openers(d)
        OBVIOUS
      <4>1. Purchases(d)' = {s \in Requests : /\ Domain(s) = d /\ IsL402(s)
                                              /\ invoice[s] = "settled" \/ s = t}
        BY <2>3, <3>1 DEF Purchases, Domain
      <4>2. QED
        BY <2>1, <2>2, <4>1 DEF Openers, Purchases
    <3>3. CASE IsL402(t)
      <4>1. Singles' = Singles
        BY <2>3, <3>1, <3>3 DEF Singles
      <4>2. ASSUME NEW d \in Domains
            PROVE  Owner(d)' = IF d = Domain(t) THEN t ELSE Owner(d)
        <5>1. CASE d = Domain(t)
          <6>1. Openers(d)' = {t}
            BY <3>2, <3>3, <5>1
          <6>2. QED
            BY <5>1, <6>1 DEF Owner
        <5>2. CASE d # Domain(t)
          <6>1. Openers(d)' = Openers(d)
            BY <3>2, <5>2
          <6>2. QED
            BY <5>2, <6>1 DEF Owner
        <5>3. QED
          BY <5>1, <5>2
      <4>3. Owners' = [Owners EXCEPT ![DomainOf[t]] = t]
        BY <4>2 DEF Owners, Domain
      <4>4. Access!BuyForDomain(t)
        BY <2>1, <2>2, <4>1, <4>3 DEF Access!BuyForDomain, Owners, Singles
      <4>5. QED
        BY <2>1, <4>4 DEF Access!Next
    <3>4. CASE ~IsL402(t)
      <4>1. ASSUME NEW d \in Domains
            PROVE  Owner(d)' = Owner(d)
        <5>1. Openers(d)' = Openers(d)
          BY <3>2, <3>4
        <5>2. QED
          BY <5>1 DEF Owner
      <4>2. Owners' = Owners
        BY <4>1 DEF Owners
      <4>3. Singles' = Singles \cup {t}
        BY <2>1, <2>3, <3>1, <3>4 DEF Singles
      <4>4. Access!BuyForSelf(t)
        BY <2>1, <2>2, <4>2, <4>3 DEF Access!BuyForSelf, Access!HasAccess, Owners, Singles
      <4>5. QED
        BY <2>1, <4>4 DEF Access!Next
    <3>5. QED
      BY <3>3, <3>4
  <2>6. QED
    BY <1>4, <2>4, <2>5 DEF NodeResolves
<1>5. CASE UNCHANGED <<invoice, answer, result>>
  <2>1. \A s \in Requests : IsL402(s)' <=> IsL402(s)
    BY <1>5 DEF IsL402
  <2>2. QED
    BY <1>5, <2>1, SamePurchases
<1>6. UNCHANGED vars => UNCHANGED <<invoice, answer, result>>
  BY DEF vars, envVars
<1>7. Environment =>
        (\E t \in Tokens : NodeResolves(t)) \/ UNCHANGED <<invoice, answer, result>>
  BY DEF Environment, Reliable, OneProcessEach, Revoke, RemoveToken, Crash, envVars
<1>8. QED
  BY <1>3, <1>4, <1>5, <1>6, <1>7 DEF Next, Finished

\* What the callers see is PaidAccess: a domain is opened once, by one payment or by
\* an earlier run, for all its requests; no request is served without access of its
\* own or its domain's, unless the servers ask for none; and nothing is bought for a
\* request that has returned, even if processes die and nobody learns of it.
THEOREM ImplementsPaidAccess ==
  ASSUME Reliable
  PROVE  Spec => AccessSpec
<1>1. Init => Access!Init
  BY InitMapsToInit
<1>2. AccessInv /\ [Next]_vars => [Access!Next]_Access!accessVars
  BY StepMapsToStep DEF Access!accessVars, Owners, Singles
<1>3. AccessInv /\ [Next]_vars => AccessInv'
  BY AccessNext
<1>4. Init => AccessInv
  BY InitAccess
<1>5. QED
  BY <1>1, <1>2, <1>3, <1>4, PTL DEF Spec, AccessSpec, Access!Spec
====
