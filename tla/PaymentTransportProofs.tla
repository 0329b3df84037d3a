---- MODULE PaymentTransportProofs ----
(***************************************************************************)
(* Theorems about PaymentTransport, for any number of requests, domains    *)
(* and processes.                                                          *)
(***************************************************************************)
EXTENDS PaymentTransport, TLAPS

\* The stages in which the request has a challenge some scheme recognised.
ChallengedStages ==
  {"handle", "removeStale", "storePending", "pay", "await", "recordFailure",
   "recordSuccess", "storeToken", "loadEventID", "publish", "retryPaid", "enrich"}

\* TypeOK is not inductive alone: the event ID a scheme returns is read from
\* the handler that the challenge selected.
TypeInv ==
  /\ TypeOK
  /\ \A r \in Requests : pc[r] \in ChallengedStages => SchemeOf(r) \in SchemeNames

\* What detectChallenge returns is one of the configured schemes, or none.
LEMMA MatchedSchemeType ==
  ASSUME NEW a
  PROVE  MatchedScheme(a) \in SchemeNames \cup {None}
<1> DEFINE first == {i \in Matching(a) : \A j \in Matching(a) : i <= j}
<1>1. CASE first = {}
  BY <1>1 DEF MatchedScheme
<1>2. CASE first # {}
  <2>1. (CHOOSE i \in first : TRUE) \in DOMAIN Schemes
    BY <1>2 DEF Matching
  <2>2. \A i \in DOMAIN Schemes : Schemes[i] \in SchemeNames
    BY TransportAssumption
  <2>3. QED
    BY <1>2, <2>1, <2>2 DEF MatchedScheme
<1>3. QED
  BY <1>1, <1>2

LEMMA InitType == Init => TypeInv
  BY TransportAssumption
  DEF Init, TypeInv, TypeOK, ChallengedStages, Stages, LockedStages, Entry, Paid,
      NoToken, Tokens, SchemeNames
\* Where a request goes and runs.
LEMMA Homes ==
  /\ \A r \in Requests : Domain(r) \in Domains /\ Proc(r) \in Procs
  /\ HasBody \subseteq Requests
BY TransportAssumption DEF Domain, Proc

\* The variables every step of RoundTrip may change.
ControlOK ==
  /\ pc \in [Requests -> Stages]
  /\ result \in [Requests -> {"none", "served", "unpaid", "error"}]
  /\ lock \in [Procs -> [Domains -> Requests \cup {None}]]

\* A step that only moves on leaves the control state well-typed ...
LEMMA GotoType ==
  ASSUME TypeOK, NEW r \in Requests, NEW stage \in Stages, Goto(r, stage)
  PROVE  ControlOK'
BY DEF TypeOK, Goto, ControlOK

\* ... and so does a return.
LEMMA ReturnType ==
  ASSUME TypeOK, NEW r \in Requests,
         NEW outcome \in {"none", "served", "unpaid", "error"}, Return(r, outcome)
  PROVE  ControlOK'
BY Homes DEF TypeOK, Return, Stages, ControlOK

LEMMA OutcomeType == \A a : Outcome(a) \in {"none", "served", "unpaid", "error"}
BY DEF Outcome

\* What the store can be made to hold.
LEMMA EntryType ==
  /\ NoToken \in Entry
  /\ \A t \in Tokens : Pending(t) \in Entry /\ Paid(t) \in Entry
BY DEF NoToken, Pending, Paid, Entry

LEMMA StoreOrFailType ==
  ASSUME TypeOK, NEW r \in Requests, NEW new \in Entry, NEW next, StoreOrFail(r, new, next)
  PROVE  store' \in [Domains -> Entry]
BY Homes DEF TypeOK, StoreOrFail, WriteOver

LEMMA RecordEventType ==
  ASSUME TypeOK, NEW r \in Requests, NEW status \in {"success", "failed"},
         RecordEvent(r, status), SchemeOf(r) \in SchemeNames
  PROVE  /\ event' \in [Requests -> {"none", "success", "failed"}]
         /\ lastEventID' \in [Procs -> [SchemeNames -> Requests \cup {None}]]
<1> DEFINE IDs == [SchemeNames -> Requests \cup {None}]
           p   == Proc(r)
           s   == SchemeOf(r)
<1>1. p \in Procs
  BY Homes
<1>2. [lastEventID[p] EXCEPT ![s] = r] \in IDs
  BY <1>1 DEF TypeOK
<1>3. [lastEventID EXCEPT ![p] = [lastEventID[p] EXCEPT ![s] = r]] \in [Procs -> IDs]
  BY <1>1, <1>2 DEF TypeOK
<1>4. lastEventID' \in [Procs -> IDs]
  <2>1. CASE UNCHANGED lastEventID
    BY <2>1 DEF TypeOK
  <2>2. CASE lastEventID' = [lastEventID EXCEPT ![p][s] = r]
    BY <2>2, <1>3
  <2>3. QED
    BY <2>1, <2>2 DEF RecordEvent
<1>5. event' \in [Requests -> {"none", "success", "failed"}]
  BY DEF TypeOK, RecordEvent
<1>6. QED
  BY <1>4, <1>5

\* Every step of a request keeps the types.
LEMMA RequestStepTypeOK ==
  ASSUME TypeInv, NEW r \in Requests, RequestStep(r)
  PROVE  TypeOK'
<1> USE DEF memVars, diskVars, envVars
<1>0. TypeOK
  BY DEF TypeInv
<1>a. \A s \in {"start", "sendCached", "invalidate", "sendPlain", "lock", "returned",
                 "done"} \cup LockedStages : s \in Stages
  BY DEF Stages
<1>1. CASE LookupCached(r)
  <2>1. ControlOK'
    BY <1>1, <1>0, <1>a, GotoType DEF LookupCached, LockedStages
  <2>2. cred' \in [Requests -> Tokens \cup {None}]
    BY <1>1, <1>0, Homes DEF LookupCached, TypeOK, CachedCredential, IsPending, Entry, NoToken
  <2>3. QED
    BY <1>1, <1>0, <2>1, <2>2 DEF LookupCached, TypeOK, ControlOK
<1>2. CASE SendCached(r)
  <2>1. ControlOK'
    BY <1>2, <1>0, <1>a, GotoType, ReturnType DEF SendCached, LockedStages
  <2>2. bodyRead' \subseteq HasBody
    BY <1>2, <1>0 DEF SendCached, TypeOK, ReadBody
  <2>3. answer' \in [Requests -> Answers \cup {NoAnswer, Served}]
    BY <1>2, <1>0 DEF SendCached, TypeOK, Replies
  <2>4. QED
    BY <1>2, <1>0, <2>1, <2>2, <2>3 DEF SendCached, TypeOK, ControlOK
<1>3. CASE InvalidateCredential(r)
  <2>1. ControlOK'
    BY <1>3, <1>0, <1>a, GotoType DEF InvalidateCredential, LockedStages
  <2>2. store' \in [Domains -> Entry]
    BY <1>3, <1>0, EntryType, Homes DEF InvalidateCredential, TypeOK, RemoveOrIgnore
  <2>3. QED
    BY <1>3, <1>0, <2>1, <2>2 DEF InvalidateCredential, TypeOK, ControlOK
<1>4. CASE SendPlain(r)
  <2>1. ControlOK'
    BY <1>4, <1>0, <1>a, GotoType, ReturnType, OutcomeType DEF SendPlain, LockedStages, SendUnpaid
  <2>2. bodyRead' \subseteq HasBody
    BY <1>4, <1>0 DEF SendPlain, TypeOK, SendUnpaid, ReadBody
  <2>3. answer' \in [Requests -> Answers \cup {NoAnswer, Served}]
    BY <1>4, <1>0 DEF SendPlain, TypeOK, SendUnpaid
  <2>4. QED
    BY <1>4, <1>0, <2>1, <2>2, <2>3 DEF SendPlain, TypeOK, ControlOK, SendUnpaid
<1>5. CASE LockDomain(r)
  <2>1. ControlOK'
    BY <1>5, <1>0, <1>a, Homes DEF LockDomain, LockedStages, TypeOK, ControlOK
  <2>2. QED
    BY <1>5, <1>0, <2>1 DEF LockDomain, TypeOK, ControlOK
<1>6. CASE DoubleCheck(r)
  <2>1. ControlOK'
    BY <1>6, <1>0, <1>a, GotoType DEF DoubleCheck, LockedStages
  <2>2. cred' \in [Requests -> Tokens \cup {None}]
    BY <1>6, <1>0, Homes DEF DoubleCheck, TypeOK, CachedCredential, IsPending, Entry, NoToken
  <2>3. QED
    BY <1>6, <1>0, <2>1, <2>2 DEF DoubleCheck, TypeOK, ControlOK
<1>7. CASE RetryCached(r)
  <2>1. ControlOK'
    BY <1>7, <1>0, <1>a, ReturnType, OutcomeType DEF RetryCached, LockedStages
  <2>2. QED
    BY <1>7, <1>0, <2>1 DEF RetryCached, TypeOK, ControlOK
<1>8. CASE Reissue(r)
  <2>1. ControlOK'
    BY <1>8, <1>0, <1>a, GotoType, ReturnType, OutcomeType DEF Reissue, LockedStages, SendUnpaid
  <2>2. bodyRead' \subseteq HasBody
    BY <1>8, <1>0 DEF Reissue, TypeOK, SendUnpaid, ReadBody
  <2>3. answer' \in [Requests -> Answers \cup {NoAnswer, Served}]
    BY <1>8, <1>0 DEF Reissue, TypeOK, SendUnpaid
  <2>4. QED
    BY <1>8, <1>0, <2>1, <2>2, <2>3 DEF Reissue, TypeOK, ControlOK, SendUnpaid
<1>9. CASE RejectChallenge(r)
  <2>1. ControlOK'
    BY <1>9, <1>0, <1>a, ReturnType DEF RejectChallenge, LockedStages
  <2>2. QED
    BY <1>9, <1>0, <2>1 DEF RejectChallenge, TypeOK, ControlOK
<1>10. CASE AcceptChallenge(r)
  <2>1. ControlOK'
    BY <1>10, <1>0, <1>a, GotoType DEF AcceptChallenge, LockedStages
  <2>2. QED
    BY <1>10, <1>0, <2>1 DEF AcceptChallenge, TypeOK, ControlOK
<1>11. CASE RemoveStale(r)
  <2>1. ControlOK'
    BY <1>11, <1>0, <1>a, GotoType DEF RemoveStale, LockedStages
  <2>2. store' \in [Domains -> Entry]
    BY <1>11, <1>0, EntryType, Homes DEF RemoveStale, TypeOK, RemoveOrIgnore
  <2>3. QED
    BY <1>11, <1>0, <2>1, <2>2 DEF RemoveStale, TypeOK, ControlOK
<1>12. CASE StorePending(r)
  <2>1. ControlOK'
    BY <1>12, <1>0, <1>a, GotoType, ReturnType DEF StorePending, LockedStages, StoreOrFail
  <2>2. store' \in [Domains -> Entry]
    BY <1>12, <1>0, EntryType, StoreOrFailType DEF StorePending, TypeOK, Tokens
  <2>3. QED
    BY <1>12, <1>0, <2>1, <2>2 DEF StorePending, TypeOK, ControlOK
<1>13. CASE PayInvoice(r)
  <2>1. ControlOK'
    BY <1>13, <1>0, <1>a, GotoType DEF PayInvoice, LockedStages
  <2>2. invoice' \in [Tokens -> {"none", "inflight", "settled", "failed"}]
    BY <1>13, <1>0 DEF PayInvoice, TypeOK
  <2>3. QED
    BY <1>13, <1>0, <2>1, <2>2 DEF PayInvoice, TypeOK, ControlOK
<1>14. CASE PaymentSucceeds(r)
  <2>1. ControlOK'
    BY <1>14, <1>0, <1>a, GotoType, ReturnType DEF PaymentSucceeds, LockedStages
  <2>2. QED
    BY <1>14, <1>0, <2>1 DEF PaymentSucceeds, TypeOK, ControlOK
<1>15. CASE PaymentFails(r)
  <2>1. ControlOK'
    BY <1>15, <1>0, <1>a, GotoType DEF PaymentFails, LockedStages
  <2>2. QED
    BY <1>15, <1>0, <2>1 DEF PaymentFails, TypeOK, ControlOK
<1>16. CASE RecordFailure(r)
  <2>1. ControlOK'
    BY <1>16, <1>0, <1>a, ReturnType DEF RecordFailure, LockedStages
  <2>2. SchemeOf(r) \in SchemeNames
    BY <1>16, <1>0 DEF RecordFailure, TypeOK, TypeInv, ChallengedStages
  <2>3. /\ event' \in [Requests -> {"none", "success", "failed"}]
        /\ lastEventID' \in [Procs -> [SchemeNames -> Requests \cup {None}]]
    BY <1>16, <1>0, <2>2, RecordEventType DEF RecordFailure, TypeOK
  <2>4. QED
    BY <1>16, <1>0, <2>1, <2>2, <2>3 DEF RecordFailure, TypeOK, ControlOK
<1>17. CASE RecordSuccess(r)
  <2>1. ControlOK'
    BY <1>17, <1>0, <1>a, GotoType DEF RecordSuccess, LockedStages
  <2>2. SchemeOf(r) \in SchemeNames
    BY <1>17, <1>0 DEF RecordSuccess, TypeOK, TypeInv, ChallengedStages
  <2>3. /\ event' \in [Requests -> {"none", "success", "failed"}]
        /\ lastEventID' \in [Procs -> [SchemeNames -> Requests \cup {None}]]
    BY <1>17, <1>0, <2>2, RecordEventType DEF RecordSuccess, TypeOK
  <2>4. QED
    BY <1>17, <1>0, <2>1, <2>2, <2>3 DEF RecordSuccess, TypeOK, ControlOK
<1>18. CASE StoreToken(r)
  <2>1. ControlOK'
    BY <1>18, <1>0, <1>a, GotoType, ReturnType DEF StoreToken, LockedStages, StoreOrFail
  <2>2. store' \in [Domains -> Entry]
    BY <1>18, <1>0, EntryType, StoreOrFailType DEF StoreToken, TypeOK, Tokens
  <2>3. QED
    BY <1>18, <1>0, <2>1, <2>2 DEF StoreToken, TypeOK, ControlOK
<1>19. CASE LoadEventID(r)
  <2>1. ControlOK'
    BY <1>19, <1>0, <1>a, GotoType DEF LoadEventID, LockedStages
  <2>2. eid' \in [Requests -> Requests \cup {None}]
    BY <1>19, <1>0, Homes DEF LoadEventID, TypeOK, TypeInv, ChallengedStages
  <2>3. QED
    BY <1>19, <1>0, <2>1, <2>2 DEF LoadEventID, TypeOK, ControlOK
<1>20. CASE PublishPayment(r)
  <2>1. ControlOK'
    BY <1>20, <1>0, <1>a, GotoType DEF PublishPayment, LockedStages
  <2>2. cred' \in [Requests -> Tokens \cup {None}]
    BY <1>20, <1>0 DEF PublishPayment, TypeOK, Tokens
  <2>3. lastPayment' \in [Procs -> Requests \cup {None}]
    BY <1>20, <1>0, Homes DEF PublishPayment, TypeOK
  <2>4. QED
    BY <1>20, <1>0, <2>1, <2>2, <2>3 DEF PublishPayment, TypeOK, ControlOK
<1>21. CASE RetryPaid(r)
  <2>1. ControlOK'
    <3>1. CASE Return(r, "error")
      BY <3>1, <1>0, ReturnType
    <3>2. CASE /\ \E a \in Replies(cred[r]) :
                    result' = [result EXCEPT ![r] = Outcome(a)]
               /\ pc' = [pc EXCEPT ![r] = "enrich"]
               /\ UNCHANGED lock
      BY <3>2, <1>0, <1>a, OutcomeType DEF LockedStages, ControlOK, TypeOK
    <3>3. QED
      BY <1>21, <3>1, <3>2 DEF RetryPaid
  <2>2. QED
    BY <1>21, <1>0, <2>1 DEF RetryPaid, TypeOK, ControlOK
<1>22. CASE EnrichEvent(r)
  <2>1. ControlOK'
    BY <1>22, <1>0, <1>a, ReturnType DEF EnrichEvent, LockedStages, TypeOK
  <2>2. enriched' \in [Requests -> Requests \cup {None}]
    BY <1>22, <1>0 DEF EnrichEvent, TypeOK
  <2>3. QED
    BY <1>22, <1>0, <2>1, <2>2 DEF EnrichEvent, TypeOK, ControlOK
<1>23. CASE DoDownload(r)
  <2>1. ControlOK'
    BY <1>23, <1>0, <1>a DEF DoDownload, LockedStages, TypeOK, ControlOK
  <2>2. reported' \in [Requests -> Requests \cup {None}]
    BY <1>23, <1>0, Homes DEF DoDownload, TypeOK
  <2>3. QED
    BY <1>23, <1>0, <2>1, <2>2 DEF DoDownload, TypeOK, ControlOK
<1>24. QED
  BY <1>1, <1>2, <1>3, <1>4, <1>5, <1>6, <1>7, <1>8, <1>9, <1>10, <1>11, <1>12, <1>13, <1>14, <1>15, <1>16, <1>17, <1>18, <1>19, <1>20, <1>21, <1>22, <1>23
     DEF RequestStep

\* A step of one request leaves what belongs to the others alone.
LEMMA OthersKeep ==
  ASSUME TypeOK, NEW r \in Requests, RequestStep(r), NEW s \in Requests, s # r
  PROVE  /\ pc'[s] = pc[s]
         /\ answer'[s] = answer[s]
         /\ cred'[s] = cred[s]
         /\ eid'[s] = eid[s]
         /\ event'[s] = event[s]
         /\ result'[s] = result[s]
         /\ invoice'[s] = invoice[s]
<1> USE DEF TypeOK, Goto, Return, memVars, diskVars, envVars
<1>1. CASE \/ LookupCached(r) \/ InvalidateCredential(r) \/ LockDomain(r)
           \/ DoubleCheck(r) \/ AcceptChallenge(r) \/ RemoveStale(r) \/ PaymentFails(r)
           \/ LoadEventID(r) \/ PublishPayment(r) \/ DoDownload(r) \/ RejectChallenge(r)
  BY <1>1 DEF LookupCached, InvalidateCredential, LockDomain, DoubleCheck,
    AcceptChallenge, RemoveStale, PaymentFails, LoadEventID, PublishPayment,
    DoDownload, RejectChallenge
<1>2. CASE SendCached(r) \/ RetryCached(r) \/ RetryPaid(r) \/ PaymentSucceeds(r)
  BY <1>2 DEF SendCached, RetryCached, RetryPaid, PaymentSucceeds
<1>3. CASE SendPlain(r) \/ Reissue(r)
  BY <1>3 DEF SendPlain, Reissue, SendUnpaid
<1>4. CASE StorePending(r) \/ StoreToken(r)
  BY <1>4 DEF StorePending, StoreToken, StoreOrFail
<1>5. CASE RecordFailure(r) \/ RecordSuccess(r)
  BY <1>5 DEF RecordFailure, RecordSuccess, RecordEvent
<1>6. CASE PayInvoice(r)
  BY <1>6 DEF PayInvoice, Tokens
<1>7. CASE EnrichEvent(r)
  BY <1>7 DEF EnrichEvent
<1>8. QED
  BY <1>1, <1>2, <1>3, <1>4, <1>5, <1>6, <1>7 DEF RequestStep

\* A request that has a challenge in hand got it from its second request.
LEMMA RequestStepScheme ==
  ASSUME TypeInv, NEW r \in Requests, RequestStep(r),
         NEW s \in Requests, pc'[s] \in ChallengedStages
  PROVE  SchemeOf(s)' \in SchemeNames
<1>1. CASE s # r
  BY <1>1, OthersKeep DEF TypeInv, SchemeOf
<1>2. CASE s = r /\ Reissue(r)
  BY <1>2, MatchedSchemeType
  DEF Reissue, SendUnpaid, Return, Goto, TypeInv, TypeOK, SchemeOf, ChallengedStages
<1>3. CASE s = r /\ pc[r] \in ChallengedStages /\ UNCHANGED answer
  BY <1>3 DEF TypeInv, SchemeOf
<1>4. CASE s = r /\ ~Reissue(r)
  <2>1. pc[r] \in ChallengedStages /\ UNCHANGED answer
    BY <1>4
    DEF TypeInv, TypeOK, ChallengedStages, RequestStep, Goto, Return,
        LookupCached, SendCached, InvalidateCredential, SendPlain, SendUnpaid,
        LockDomain, DoubleCheck, RetryCached, RejectChallenge, AcceptChallenge,
        RemoveStale, StorePending, StoreOrFail, PayInvoice, PaymentSucceeds,
        PaymentFails, RecordFailure, RecordSuccess, StoreToken, LoadEventID,
        PublishPayment, RetryPaid, EnrichEvent, DoDownload
  <2>2. QED
    BY <2>1, <1>4, <1>3
<1>5. QED
  BY <1>1, <1>2, <1>4
\* Neither the environment nor a crash gives a request a challenge.
LEMMA EnvironmentType ==
  ASSUME TypeInv, Environment
  PROVE  TypeInv'
<1> USE DEF memVars, diskVars, envVars
<1>1. ASSUME NEW t \in Tokens, NodeResolves(t)
      PROVE  TypeInv'
  BY <1>1 DEF NodeResolves, TypeInv, TypeOK, SchemeOf
<1>2. ASSUME NEW t \in Tokens, Revoke(t)
      PROVE  TypeInv'
  BY <1>2 DEF Revoke, TypeInv, TypeOK, SchemeOf
<1>3. ASSUME NEW d \in Domains, RemoveToken(d)
      PROVE  TypeInv'
  BY <1>3, EntryType DEF RemoveToken, TypeInv, TypeOK, SchemeOf
<1>4. ASSUME NEW p \in Procs, Crash(p)
      PROVE  TypeInv'
  <2>1. TypeOK'
    BY <1>4 DEF Crash, TypeInv, TypeOK, Stages
  <2>2. ASSUME NEW s \in Requests, pc'[s] \in ChallengedStages
        PROVE  SchemeOf(s)' \in SchemeNames
    BY <1>4, <2>2 DEF Crash, TypeInv, TypeOK, SchemeOf, ChallengedStages
  <2>3. QED
    BY <2>1, <2>2 DEF TypeInv
<1>5. QED
  BY <1>1, <1>2, <1>3, <1>4 DEF Environment

LEMMA NextType ==
  ASSUME TypeInv, [Next]_vars
  PROVE  TypeInv'
<1>1. ASSUME NEW r \in Requests, RequestStep(r)
      PROVE  TypeInv'
  BY <1>1, RequestStepTypeOK, RequestStepScheme DEF TypeInv
<1>2. CASE UNCHANGED vars
  BY <1>2 DEF vars, memVars, diskVars, envVars, TypeInv, TypeOK, SchemeOf
<1>3. QED
  BY <1>1, <1>2, EnvironmentType DEF Next, Finished

\* Every reachable state of the transport, the store and the event log is
\* well-typed, whatever fails.
THEOREM TypeCorrect == Spec => []TypeOK
<1>1. Spec => []TypeInv
  BY InitType, NextType, PTL DEF Spec
<1>2. TypeInv => TypeOK
  BY DEF TypeInv
<1>3. QED
  BY <1>1, <1>2, PTL
----
(* Paid tokens are backed by settled invoices.                             *)

\* The stages before PayInvoice and those after it has returned a preimage.
UnpaidStages ==
  {"start", "sendCached", "invalidate", "sendPlain", "lock", "recheck", "retryCached",
   "reissue", "handle", "removeStale", "storePending", "pay"}

SettledStages ==
  {"recordSuccess", "storeToken", "loadEventID", "publish", "retryPaid", "enrich"}

\* A paid token comes from StoreToken and a credential from the store or from a
\* payment that was just made, so the stage of a request has to say what the
\* node did for it.
BackedInv ==
  /\ TypeInv
  /\ \A r \in Requests : pc[r] \in UnpaidStages => invoice[r] = "none"
  /\ \A r \in Requests : pc[r] \in SettledStages => invoice[r] = "settled"
  /\ PaidTokenBacked

LEMMA InitBacked == Init => BackedInv
<1> SUFFICES ASSUME Init PROVE BackedInv
  OBVIOUS
<1>1. TypeInv
  BY InitType
<1>2. \A d \in Domains : store[d].paid => store[d].tok = d /\ invoice[d] = "settled"
  BY DEF Init, Paid, NoToken, Tokens
<1>3. \A d \in Domains : SoldBy(d) = d
  BY TransportAssumption DEF SoldBy
<1>4. \A r \in Requests : invoice[r] = "none" /\ pc[r] = "start" /\ cred[r] = None
  BY TransportAssumption DEF Init, Tokens
<1>5. QED
  BY <1>1, <1>2, <1>3, <1>4 DEF BackedInv, PaidTokenBacked, UnpaidStages, SettledStages

\* Of all the steps of a request only PayInvoice touches an invoice.
LEMMA InvoiceStep ==
  ASSUME NEW r \in Requests, RequestStep(r)
  PROVE  \/ invoice' = invoice
         \/ pc[r] = "pay" /\ invoice' = [invoice EXCEPT ![r] = "inflight"]
BY DEF RequestStep, memVars, diskVars, envVars,
       LookupCached, SendCached, InvalidateCredential, SendPlain, SendUnpaid,
       LockDomain, DoubleCheck, RetryCached, Reissue, RejectChallenge, AcceptChallenge,
       RemoveStale, StorePending, PayInvoice, PaymentSucceeds,
       PaymentFails, RecordFailure, RecordSuccess, StoreToken, LoadEventID,
       PublishPayment, RetryPaid, EnrichEvent, DoDownload

\* Of all the steps of a request only StoreToken makes an entry paid.
LEMMA StoreStep ==
  ASSUME TypeOK, NEW r \in Requests, RequestStep(r), NEW d \in Domains
  PROVE  \/ store'[d] = store[d]
         \/ store'[d] \in {NoToken, Pending(r)} /\ d = Domain(r)
         \/ pc[r] = "storeToken" /\ d = Domain(r) /\ store'[d] = Paid(r)
<1> USE DEF TypeOK, memVars, diskVars, envVars
<1>0. \A cur : /\ WriteOver(cur, Pending(r)) \in {cur, Pending(r)}
               /\ WriteOver(cur, Paid(r)) = Paid(r)
  BY DEF WriteOver, IsPending, Paid
<1>1. CASE InvalidateCredential(r) \/ RemoveStale(r)
  BY <1>1 DEF InvalidateCredential, RemoveStale, RemoveOrIgnore
<1>2. CASE StorePending(r) \/ StoreToken(r)
  BY <1>0, <1>2 DEF StorePending, StoreToken, StoreOrFail
<1>3. CASE store' = store
  BY <1>3
<1>4. QED
  BY <1>1, <1>2, <1>3
  DEF RequestStep,
      LookupCached, SendCached, SendPlain, SendUnpaid,
      LockDomain, DoubleCheck, RetryCached, Reissue, RejectChallenge, AcceptChallenge,
      PayInvoice, PaymentSucceeds, PaymentFails, RecordFailure, RecordSuccess,
      LoadEventID, PublishPayment, RetryPaid, EnrichEvent, DoDownload

\* A request's credential is what the store has as paid, or its own purchase.
LEMMA CredStep ==
  ASSUME TypeOK, NEW r \in Requests, RequestStep(r)
  PROVE  \/ cred'[r] \in {cred[r], None}
         \/ store[Domain(r)].paid /\ cred'[r] = store[Domain(r)].tok
         \/ pc[r] = "publish" /\ cred'[r] = r
<1> USE DEF TypeOK, memVars, diskVars, envVars
<1>1. CASE LookupCached(r) \/ DoubleCheck(r)
  BY <1>1 DEF LookupCached, DoubleCheck, CachedCredential, IsPending
<1>2. CASE PublishPayment(r)
  BY <1>2 DEF PublishPayment
<1>3. CASE cred' = cred
  BY <1>3
<1>4. QED
  BY <1>1, <1>2, <1>3
  DEF RequestStep,
      SendCached, InvalidateCredential, SendPlain, SendUnpaid,
      LockDomain, RetryCached, Reissue, RejectChallenge, AcceptChallenge, RemoveStale,
      StorePending, PayInvoice, PaymentSucceeds, PaymentFails, RecordFailure,
      RecordSuccess, StoreToken, LoadEventID, RetryPaid, EnrichEvent, DoDownload

\* A request reaches the stages after a payment through a settled invoice, and
\* never returns to the stages before it.
LEMMA StageStep ==
  ASSUME TypeOK, NEW r \in Requests, RequestStep(r)
  PROVE  /\ pc'[r] \in SettledStages =>
              \/ pc[r] \in SettledStages
              \/ pc[r] = "await" /\ invoice[r] = "settled"
         /\ pc'[r] \in UnpaidStages => pc[r] \in UnpaidStages \ {"pay"}
<1> USE DEF TypeOK, SettledStages, UnpaidStages, Goto, Return
<1>1. CASE \/ LookupCached(r) \/ InvalidateCredential(r) \/ LockDomain(r)
           \/ DoubleCheck(r) \/ AcceptChallenge(r) \/ RemoveStale(r) \/ PaymentFails(r)
           \/ LoadEventID(r) \/ PublishPayment(r) \/ DoDownload(r) \/ RejectChallenge(r)
  BY <1>1 DEF LookupCached, InvalidateCredential, LockDomain, DoubleCheck,
    AcceptChallenge, RemoveStale, PaymentFails, LoadEventID, PublishPayment,
    DoDownload, RejectChallenge
<1>2. CASE SendCached(r) \/ RetryCached(r) \/ RetryPaid(r) \/ PaymentSucceeds(r)
  BY <1>2 DEF SendCached, RetryCached, RetryPaid, PaymentSucceeds
<1>3. CASE SendPlain(r) \/ Reissue(r)
  BY <1>3 DEF SendPlain, Reissue, SendUnpaid
<1>4. CASE StorePending(r) \/ StoreToken(r)
  BY <1>4 DEF StorePending, StoreToken, StoreOrFail
<1>5. CASE RecordFailure(r) \/ RecordSuccess(r) \/ PayInvoice(r) \/ EnrichEvent(r)
  BY <1>5 DEF RecordFailure, RecordSuccess, PayInvoice, EnrichEvent
<1>6. QED
  BY <1>1, <1>2, <1>3, <1>4, <1>5 DEF RequestStep
\* A settled invoice stays settled.
LEMMA SettledStays ==
  ASSUME BackedInv, [Next]_vars, NEW t \in Tokens, invoice[t] = "settled"
  PROVE  invoice'[t] = "settled"
<1>1. ASSUME NEW r \in Requests, RequestStep(r)
      PROVE  invoice'[t] = "settled"
  BY <1>1, InvoiceStep DEF BackedInv, UnpaidStages, TypeInv, TypeOK
<1>2. CASE Environment
  BY <1>2 DEF Environment, NodeResolves, Revoke, RemoveToken, Crash, envVars,
              BackedInv, TypeInv, TypeOK
<1>3. CASE UNCHANGED vars
  BY <1>3 DEF vars, envVars
<1>4. QED
  BY <1>1, <1>2, <1>3 DEF Next, Finished

LEMMA BackedStep ==
  ASSUME BackedInv, [Next]_vars
  PROVE  BackedInv'
<1>1. TypeInv /\ TypeInv' /\ TypeOK
  BY NextType DEF BackedInv, TypeInv
<1>2. ASSUME NEW d \in Domains, store[d].paid
      PROVE  /\ store[d].tok \in Tokens
             /\ invoice'[store[d].tok] = "settled"
             /\ SoldBy(store[d].tok) = d
  <2>1. store[d].tok \in Tokens
    BY <1>1, <1>2 DEF TypeOK, Entry, NoToken
  <2>2. QED
    BY <1>2, <2>1, SettledStays DEF BackedInv, PaidTokenBacked
<1>3. ASSUME NEW s \in Requests, cred[s] # None
      PROVE  invoice'[cred[s]] = "settled" /\ SoldBy(cred[s]) = Domain(s)
  <2>1. cred[s] \in Tokens
    BY <1>1, <1>3 DEF TypeOK
  <2>2. QED
    BY <1>3, <2>1, SettledStays DEF BackedInv, PaidTokenBacked
<1>4. ASSUME NEW r \in Requests, RequestStep(r)
      PROVE  BackedInv'
  <2>0. r \in Tokens /\ Domain(r) \in Domains /\ SoldBy(r) = Domain(r)
    BY Homes DEF Tokens, SoldBy, Domain
  <2>1. ASSUME NEW s \in Requests, pc'[s] \in UnpaidStages
        PROVE  invoice'[s] = "none"
    <3>1. CASE s = r
      <4>1. pc[r] \in UnpaidStages /\ pc[r] # "pay"
        BY <1>1, <1>4, <2>1, <3>1, StageStep
      <4>2. invoice' = invoice
        BY <1>4, <4>1, InvoiceStep
      <4>3. QED
        BY <3>1, <4>1, <4>2 DEF BackedInv
    <3>2. CASE s # r
      BY <1>1, <1>4, <2>1, <3>2, OthersKeep DEF BackedInv
    <3>3. QED
      BY <3>1, <3>2
  <2>2. ASSUME NEW s \in Requests, pc'[s] \in SettledStages
        PROVE  invoice'[s] = "settled"
    <3>1. invoice[s] = "settled"
      BY <1>1, <1>4, <2>2, StageStep, OthersKeep DEF BackedInv
    <3>2. QED
      BY <3>1, SettledStays DEF Tokens
  <2>3. ASSUME NEW d \in Domains, store'[d].paid
        PROVE  invoice'[store'[d].tok] = "settled" /\ SoldBy(store'[d].tok) = d
    <3>1. CASE store'[d] = store[d]
      BY <1>2, <2>3, <3>1
    <3>2. CASE store'[d] \in {NoToken, Pending(r)}
      BY <2>3, <3>2 DEF NoToken, Pending
    <3>3. CASE pc[r] = "storeToken" /\ d = Domain(r) /\ store'[d] = Paid(r)
      <4>1. invoice[r] = "settled"
        BY <3>3 DEF BackedInv, SettledStages
      <4>2. invoice'[r] = "settled"
        BY <2>0, <4>1, SettledStays
      <4>3. QED
        BY <2>0, <3>3, <4>2 DEF Paid
    <3>4. QED
      BY <1>1, <1>4, <3>1, <3>2, <3>3, StoreStep
  <2>4. ASSUME NEW s \in Requests, cred'[s] # None
        PROVE  invoice'[cred'[s]] = "settled" /\ SoldBy(cred'[s]) = Domain(s)
    <3>1. CASE cred'[s] = cred[s]
      BY <1>3, <2>4, <3>1
    <3>2. CASE s = r /\ store[Domain(r)].paid /\ cred'[r] = store[Domain(r)].tok
      BY <1>2, <2>0, <3>2
    <3>3. CASE s = r /\ pc[r] = "publish" /\ cred'[r] = r
      <4>1. invoice[r] = "settled"
        BY <3>3 DEF BackedInv, SettledStages
      <4>2. invoice'[r] = "settled"
        BY <2>0, <4>1, SettledStays
      <4>3. QED
        BY <2>0, <3>3, <4>2
    <3>4. QED
      BY <1>1, <1>4, <2>4, <3>1, <3>2, <3>3, CredStep, OthersKeep
  <2>5. QED
    BY <1>1, <2>1, <2>2, <2>3, <2>4 DEF BackedInv, PaidTokenBacked
<1>5. ASSUME Environment
      PROVE  BackedInv'
  <2>1. \A s \in Requests : pc'[s] \in {pc[s], "crashed"}
    BY <1>1, <1>5 DEF Environment, NodeResolves, Revoke, RemoveToken, Crash, TypeOK
  <2>2. ASSUME NEW s \in Requests, pc'[s] \in UnpaidStages
        PROVE  invoice'[s] = "none"
    <3>1. invoice[s] = "none"
      BY <2>1, <2>2 DEF BackedInv, UnpaidStages
    <3>2. QED
      BY <1>1, <1>5, <3>1 DEF Environment, NodeResolves, Revoke, RemoveToken, Crash,
                              TypeOK, envVars, Tokens
  <2>3. cred' = cred
    BY <1>5 DEF Environment, NodeResolves, Revoke, RemoveToken, Crash
  <2>4. \A d \in Domains : store'[d] = store[d] \/ store'[d] = NoToken
    BY <1>1, <1>5 DEF Environment, NodeResolves, Revoke, RemoveToken, Crash, TypeOK,
                      diskVars
  <2>5. ASSUME NEW s \in Requests, pc'[s] \in SettledStages
        PROVE  invoice'[s] = "settled"
    <3>1. invoice[s] = "settled"
      BY <2>1, <2>5 DEF BackedInv, SettledStages
    <3>2. QED
      BY <3>1, SettledStays DEF Tokens
  <2>6. ASSUME NEW d \in Domains, store'[d].paid
        PROVE  invoice'[store'[d].tok] = "settled" /\ SoldBy(store'[d].tok) = d
    BY <1>2, <2>4, <2>6 DEF NoToken
  <2>7. PaidTokenBacked'
    BY <1>3, <2>3, <2>6 DEF PaidTokenBacked, Domain
  <2>8. QED
    BY <1>1, <2>2, <2>5, <2>7 DEF BackedInv
<1>6. ASSUME UNCHANGED vars
      PROVE  BackedInv'
  BY <1>1, <1>6 DEF vars, memVars, diskVars, envVars, BackedInv, PaidTokenBacked, Domain
<1>7. QED
  BY <1>4, <1>5, <1>6 DEF Next, Finished

\* No entry of the store and no credential is ever presented as paid unless the
\* node settled an invoice of that very domain for it: with failing payments,
\* late settlements, pending tokens, crashes and other processes around.
THEOREM PaidTokensBacked == Spec => []PaidTokenBacked
<1>1. Spec => []BackedInv
  BY InitBacked, BackedStep, PTL DEF Spec
<1>2. BackedInv => PaidTokenBacked
  BY DEF BackedInv
<1>3. QED
  BY <1>1, <1>2, PTL
----
(* The event log is backed by the node.                                    *)

\* An event ID that somebody holds is that of a row which exists and belongs to
\* a payment of the same process.
IssuedTo(p, id) == id # None => event[id] # "none" /\ Proc(id) = p

LedgerInv ==
  /\ BackedInv
  /\ \A p \in Procs, s \in SchemeNames : IssuedTo(p, lastEventID[p][s])
  /\ \A r \in Requests : IssuedTo(Proc(r), eid[r])
  /\ LedgerBacked

LEMMA InitLedger == Init => LedgerInv
BY InitBacked, Homes DEF Init, LedgerInv, LedgerBacked, IssuedTo

\* Rows are only added, each for the payment that the request has just made; a
\* handler's last event ID is that row, and what the scheme returns is the last
\* event ID.
LEMMA LedgerStep ==
  ASSUME TypeInv, NEW r \in Requests, RequestStep(r)
  PROVE  /\ \A s \in Requests : event[s] # "none" => event'[s] # "none"
         /\ \A s \in Requests : event'[s] = "success" =>
               event[s] = "success" \/ (s = r /\ pc[r] = "recordSuccess")
         /\ \A p \in Procs, s \in SchemeNames :
               \/ lastEventID'[p][s] = lastEventID[p][s]
               \/ lastEventID'[p][s] = r /\ p = Proc(r) /\ event'[r] # "none"
         /\ \A s \in Requests :
               \/ eid'[s] = eid[s]
               \/ s = r /\ \E t \in SchemeNames : eid'[r] = lastEventID[Proc(r)][t]
         /\ \A s \in Requests :
               enriched'[s] = enriched[s] \/ (enriched'[s] = r /\ s = eid[r])
<1> USE DEF TypeInv, TypeOK, memVars, diskVars, envVars
<1>1. CASE RecordFailure(r) \/ RecordSuccess(r)
  <2>1. PICK status \in {"success", "failed"} :
          /\ RecordEvent(r, status)
          /\ status = "success" => pc[r] = "recordSuccess"
    BY <1>1 DEF RecordFailure, RecordSuccess
  <2>2. SchemeOf(r) \in SchemeNames /\ Proc(r) \in Procs
    BY <1>1, Homes DEF RecordFailure, RecordSuccess, ChallengedStages
  <2>3. UNCHANGED <<eid, enriched>>
    BY <1>1 DEF RecordFailure, RecordSuccess
  <2>4. QED
    BY <2>1, <2>2, <2>3 DEF RecordEvent
<1>2. CASE LoadEventID(r)
  BY <1>2 DEF LoadEventID, ChallengedStages
<1>3. CASE EnrichEvent(r)
  BY <1>3 DEF EnrichEvent
<1>4. CASE UNCHANGED <<event, lastEventID, eid, enriched>>
  BY <1>4
<1>5. QED
  BY <1>1, <1>2, <1>3, <1>4
  DEF RequestStep,
      LookupCached, SendCached, InvalidateCredential, SendPlain, SendUnpaid,
      LockDomain, DoubleCheck, RetryCached, Reissue, RejectChallenge, AcceptChallenge,
      RemoveStale, StorePending, PayInvoice, PaymentSucceeds, PaymentFails, StoreToken,
      PublishPayment, RetryPaid, DoDownload

LEMMA LedgerNext ==
  ASSUME LedgerInv, [Next]_vars
  PROVE  LedgerInv'
<1>1. BackedInv /\ BackedInv' /\ TypeInv /\ TypeOK
  BY BackedStep DEF LedgerInv, BackedInv, TypeInv
<1>2. \A p \in Procs, s \in SchemeNames : lastEventID[p][s] \in Requests \cup {None}
  BY <1>1 DEF TypeOK
<1>3. \A s \in Requests : eid[s] \in Requests \cup {None}
  BY <1>1 DEF TypeOK
<1>4. \A s \in Requests : Proc(s)' = Proc(s)
  BY DEF Proc
<1>5. ASSUME NEW r \in Requests, RequestStep(r)
      PROVE  LedgerInv'
  <2>1. \A s \in Requests : event[s] # "none" => event'[s] # "none"
    BY <1>1, <1>5, LedgerStep
  <2>2. ASSUME NEW p \in Procs, NEW s \in SchemeNames
        PROVE  IssuedTo(p, lastEventID[p][s])'
    <3>1. CASE lastEventID'[p][s] = lastEventID[p][s]
      BY <1>2, <2>1, <3>1 DEF LedgerInv, IssuedTo, Proc
    <3>2. CASE lastEventID'[p][s] = r /\ p = Proc(r) /\ event'[r] # "none"
      BY <3>2 DEF IssuedTo, Proc
    <3>3. QED
      BY <1>1, <1>5, <3>1, <3>2, LedgerStep
  <2>3. ASSUME NEW s \in Requests
        PROVE  IssuedTo(Proc(s), eid[s])'
    <3>1. CASE eid'[s] = eid[s]
      BY <1>3, <2>1, <3>1 DEF LedgerInv, IssuedTo, Proc
    <3>2. ASSUME s = r, NEW t \in SchemeNames, eid'[r] = lastEventID[Proc(r)][t]
          PROVE  IssuedTo(Proc(s), eid[s])'
      BY <1>2, <2>1, <3>2, Homes DEF LedgerInv, IssuedTo, Proc
    <3>3. QED
      BY <1>1, <1>5, <3>1, <3>2, LedgerStep
  <2>4. ASSUME NEW s \in Requests, event'[s] = "success"
        PROVE  invoice'[s] = "settled"
    <3>1. invoice[s] = "settled"
      BY <1>1, <1>5, <2>4, LedgerStep DEF LedgerInv, LedgerBacked, BackedInv, SettledStages
    <3>2. QED
      BY <1>1, <3>1, SettledStays DEF Tokens
  <2>5. ASSUME NEW s \in Requests, enriched'[s] # None
        PROVE  event'[s] # "none" /\ Proc(enriched'[s]) = Proc(s)
    <3>1. CASE enriched'[s] = enriched[s]
      BY <2>1, <2>5, <3>1 DEF LedgerInv, LedgerBacked
    <3>2. CASE enriched'[s] = r /\ s = eid[r]
      <4>1. s # None
        BY TransportAssumption
      <4>2. QED
        BY <2>1, <3>2, <4>1 DEF LedgerInv, IssuedTo
    <3>3. QED
      BY <1>1, <1>5, <3>1, <3>2, LedgerStep
  <2>6. QED
    BY <1>1, <2>2, <2>3, <2>4, <2>5 DEF LedgerInv, LedgerBacked, Proc
<1>6. ASSUME Environment
      PROVE  LedgerInv'
  <2>1. UNCHANGED <<event, enriched, eid>>
    BY <1>6 DEF Environment, NodeResolves, Revoke, RemoveToken, Crash, diskVars
  <2>2. \A p \in Procs, s \in SchemeNames : lastEventID'[p][s] \in {lastEventID[p][s], None}
    BY <1>1, <1>6 DEF Environment, NodeResolves, Revoke, RemoveToken, Crash, memVars, TypeOK
  <2>3. \A s \in Requests : event[s] = "success" => invoice'[s] = "settled"
    BY <1>1, SettledStays DEF LedgerInv, LedgerBacked, Tokens
  <2>4. QED
    BY <1>1, <2>1, <2>2, <2>3 DEF LedgerInv, LedgerBacked, IssuedTo, Proc
<1>7. ASSUME UNCHANGED vars
      PROVE  LedgerInv'
  BY <1>1, <1>7 DEF vars, memVars, diskVars, envVars, LedgerInv, LedgerBacked, IssuedTo, Proc
<1>8. QED
  BY <1>5, <1>6, <1>7 DEF Next, Finished

\* The event log never shows a payment as made that the node did not settle, and
\* response metadata only ever reaches a row of the same process, whatever fails.
THEOREM LedgerIsBacked == Spec => []LedgerBacked
<1>1. Spec => []LedgerInv
  BY InitLedger, LedgerNext, PTL DEF Spec
<1>2. LedgerInv => LedgerBacked
  BY DEF LedgerInv
<1>3. QED
  BY <1>1, <1>2, PTL
----
(* What a download reports as its payment.                                 *)

\* A transport's last payment is one that its process has made.
LastPaymentReal ==
  \A p \in Procs : lastPayment[p] # None =>
    Proc(lastPayment[p]) = p /\ invoice[lastPayment[p]] = "settled"

ReportInv ==
  /\ BackedInv
  /\ LastPaymentReal
  /\ \A r \in Requests : reported[r] # None => pc[r] = "done"
  /\ ReportedReal

LEMMA InitReport == Init => ReportInv
BY InitBacked DEF Init, ReportInv, LastPaymentReal, ReportedReal

\* Only PublishPayment sets the last payment, and only DoDownload reports it.
LEMMA ReportStep ==
  ASSUME NEW r \in Requests, RequestStep(r)
  PROVE  /\ pc[r] # "done"
         /\ \/ lastPayment' = lastPayment
            \/ pc[r] = "publish" /\ lastPayment' = [lastPayment EXCEPT ![Proc(r)] = r]
         /\ \/ reported' = reported
            \/ /\ reported' = [reported EXCEPT ![r] = IF result[r] = "served"
                                                      THEN lastPayment[Proc(r)] ELSE None]
               /\ pc' = [pc EXCEPT ![r] = "done"]
               /\ UNCHANGED <<result, lastPayment>>
<1> USE DEF memVars
<1>1. CASE PublishPayment(r)
  BY <1>1 DEF PublishPayment
<1>2. CASE DoDownload(r)
  BY <1>2 DEF DoDownload
<1>3. QED
  BY <1>1, <1>2
  DEF RequestStep,
      LookupCached, SendCached, InvalidateCredential, SendPlain, SendUnpaid,
      LockDomain, DoubleCheck, RetryCached, Reissue, RejectChallenge, AcceptChallenge,
      RemoveStale, StorePending, PayInvoice, PaymentSucceeds, PaymentFails, StoreToken,
      RecordFailure, RecordSuccess, LoadEventID, RetryPaid, EnrichEvent

LEMMA ReportNext ==
  ASSUME ReportInv, [Next]_vars
  PROVE  ReportInv'
<1>1. BackedInv' /\ TypeOK /\ TypeInv
  BY BackedStep DEF ReportInv, BackedInv, TypeInv
<1>2. \A t \in Requests : invoice[t] = "settled" => invoice'[t] = "settled"
  BY SettledStays DEF ReportInv, Tokens
<1>3. /\ lastPayment \in [Procs -> Requests \cup {None}]
      /\ reported \in [Requests -> Requests \cup {None}]
      /\ pc \in [Requests -> Stages]
  BY <1>1 DEF TypeOK
<1>4. \A s \in Requests : Proc(s)' = Proc(s) /\ Proc(s) \in Procs
  BY Homes DEF Proc
<1>5. ASSUME NEW r \in Requests, RequestStep(r)
      PROVE  ReportInv'
  <2>1. pc[r] = "publish" => invoice'[r] = "settled"
    BY <1>2 DEF ReportInv, BackedInv, SettledStages
  <2>2. LastPaymentReal'
    <3> SUFFICES ASSUME NEW p \in Procs, lastPayment'[p] # None
                 PROVE  Proc(lastPayment'[p]) = p /\ invoice'[lastPayment'[p]] = "settled"
      BY DEF LastPaymentReal, Proc
    <3>1. CASE lastPayment' = lastPayment
      BY <1>2, <1>3, <3>1 DEF ReportInv, LastPaymentReal
    <3>2. CASE pc[r] = "publish" /\ lastPayment' = [lastPayment EXCEPT ![Proc(r)] = r]
      <4>1. CASE p = Proc(r)
        BY <1>3, <2>1, <3>2, <4>1
      <4>2. CASE p # Proc(r)
        BY <1>2, <1>3, <3>2, <4>2 DEF ReportInv, LastPaymentReal
      <4>3. QED
        BY <4>1, <4>2
    <3>3. QED
      BY <1>5, <3>1, <3>2, ReportStep
  <2>3. ASSUME NEW s \in Requests, reported'[s] # None
        PROVE  /\ pc'[s] = "done"
               /\ Proc(reported'[s]) = Proc(s)
               /\ invoice'[reported'[s]] = "settled"
               /\ result'[s] = "served"
    <3>1. CASE reported'[s] = reported[s]
      <4>1. pc[s] = "done" /\ s # r
        BY <1>5, <2>3, <3>1, ReportStep DEF ReportInv
      <4>2. pc'[s] = pc[s] /\ result'[s] = result[s]
        BY <1>1, <1>5, <4>1, OthersKeep
      <4>3. QED
        BY <1>2, <1>3, <2>3, <3>1, <4>1, <4>2 DEF ReportInv, ReportedReal
    <3>2. CASE /\ s = r /\ reported'[s] = lastPayment[Proc(r)] /\ result[r] = "served"
               /\ pc' = [pc EXCEPT ![r] = "done"] /\ result' = result
      <4>1. lastPayment[Proc(r)] \in Requests
        BY <1>3, <1>4, <2>3, <3>2
      <4>2. QED
        BY <1>2, <1>3, <1>4, <2>3, <3>2, <4>1 DEF ReportInv, LastPaymentReal
    <3>3. QED
      BY <1>3, <1>5, <2>3, <3>1, <3>2, ReportStep
  <2>4. QED
    BY <1>1, <2>2, <2>3 DEF ReportInv, ReportedReal, Proc
<1>6. ASSUME Environment
      PROVE  ReportInv'
  <2>1. UNCHANGED <<reported, result>>
    BY <1>6 DEF Environment, NodeResolves, Revoke, RemoveToken, Crash
  <2>2. \A s \in Requests : pc[s] = "done" => pc'[s] = "done"
    BY <1>6 DEF Environment, NodeResolves, Revoke, RemoveToken, Crash
  <2>3. \A p \in Procs : lastPayment'[p] \in {lastPayment[p], None}
    BY <1>3, <1>6 DEF Environment, NodeResolves, Revoke, RemoveToken, Crash, memVars
  <2>4. LastPaymentReal'
    BY <1>2, <1>3, <2>3 DEF ReportInv, LastPaymentReal, Proc
  <2>5. ReportedReal'
    BY <1>2, <1>3, <2>1 DEF ReportInv, ReportedReal, Proc
  <2>6. QED
    BY <1>1, <2>1, <2>2, <2>4, <2>5 DEF ReportInv
<1>7. ASSUME UNCHANGED vars
      PROVE  ReportInv'
  BY <1>1, <1>7 DEF vars, memVars, envVars, ReportInv, LastPaymentReal, ReportedReal, Proc
<1>8. QED
  BY <1>5, <1>6, <1>7 DEF Next, Finished

\* What a download reports as its payment is a settled purchase of its process,
\* though it may be another request's, and it was served; whatever fails.
THEOREM ReportsAreReal == Spec => []ReportedReal
<1>1. Spec => []ReportInv
  BY InitReport, ReportNext, PTL DEF Spec
<1>2. ReportInv => ReportedReal
  BY DEF ReportInv
<1>3. QED
  BY <1>1, <1>2, PTL
----
(* What the event log says of a request that has returned.                 *)

\* The database takes every row, and PayInvoice tells what became of a payment.
Recorded == Faults \cap {"log", "timeout", "mismatch"} = {}

RowOf(r) ==
  /\ pc[r] \in UnpaidStages \cup {"await", "recordFailure", "recordSuccess"} => event[r] = "none"
  /\ pc[r] = "recordFailure" => invoice[r] = "failed"
  /\ pc[r] \in SettledStages \ {"recordSuccess"} => event[r] = "success"
  /\ pc[r] \in {"returned", "done"} =>
       <<event[r], invoice[r]>> \in
         {<<"none", "none">>, <<"success", "settled">>, <<"failed", "failed">>}

RowInv == BackedInv /\ \A r \in Requests : RowOf(r)

LEMMA InitRow == Init => RowInv
BY InitBacked DEF Init, RowInv, RowOf, UnpaidStages, SettledStages

LEMMA OwnRow ==
  ASSUME Recorded, RowInv, NEW r \in Requests, RequestStep(r)
  PROVE  RowOf(r)'
<1> USE DEF RowOf, UnpaidStages, SettledStages, Goto, Return
<1>1. TypeOK /\ RowOf(r) /\ r \in Tokens
  BY DEF RowInv, BackedInv, TypeInv, Tokens
<1>2. /\ pc[r] \in UnpaidStages => invoice[r] = "none"
      /\ pc[r] \in SettledStages => invoice[r] = "settled"
  BY DEF RowInv, BackedInv
<1> USE DEF TypeOK, memVars, diskVars, envVars
<1>3. CASE LookupCached(r) \/ InvalidateCredential(r) \/ LockDomain(r) \/ DoubleCheck(r)
  BY <1>1, <1>2, <1>3 DEF LookupCached, InvalidateCredential, LockDomain, DoubleCheck
<1>4. CASE SendCached(r) \/ RetryCached(r) \/ RejectChallenge(r) \/ AcceptChallenge(r)
  BY <1>1, <1>2, <1>4 DEF SendCached, RetryCached, RejectChallenge, AcceptChallenge
<1>5. CASE SendPlain(r) \/ Reissue(r)
  BY <1>1, <1>2, <1>5 DEF SendPlain, Reissue, SendUnpaid
<1>6. CASE RemoveStale(r) \/ StorePending(r) \/ StoreToken(r)
  BY <1>1, <1>2, <1>6 DEF RemoveStale, RemoveOrIgnore, StorePending, StoreToken, StoreOrFail
<1>7. CASE PayInvoice(r)
  BY <1>1, <1>7 DEF PayInvoice
<1>8. CASE PaymentSucceeds(r) \/ PaymentFails(r)
  BY <1>1, <1>8 DEF PaymentSucceeds, PaymentFails, Recorded
<1>9. CASE RecordFailure(r) \/ RecordSuccess(r)
  BY <1>1, <1>2, <1>9 DEF RecordFailure, RecordSuccess, RecordEvent, Recorded
<1>10. CASE LoadEventID(r) \/ PublishPayment(r) \/ RetryPaid(r) \/ EnrichEvent(r)
  BY <1>1, <1>2, <1>10 DEF LoadEventID, PublishPayment, RetryPaid, EnrichEvent
<1>11. CASE DoDownload(r)
  BY <1>1, <1>11 DEF DoDownload
<1>12. QED
  BY <1>3, <1>4, <1>5, <1>6, <1>7, <1>8, <1>9, <1>10, <1>11 DEF RequestStep

LEMMA RowNext ==
  ASSUME Recorded, RowInv, [Next]_vars
  PROVE  RowInv'
<1>1. BackedInv' /\ TypeOK
  BY BackedStep DEF RowInv, BackedInv, TypeInv
<1>2. ASSUME NEW r \in Requests, RequestStep(r), NEW s \in Requests
      PROVE  RowOf(s)'
  <2>1. CASE s = r
    BY <1>2, <2>1, OwnRow
  <2>2. CASE s # r
    <3>1. pc'[s] = pc[s] /\ event'[s] = event[s] /\ invoice'[s] = invoice[s]
      BY <1>1, <1>2, <2>2, OthersKeep
    <3>2. QED
      BY <3>1 DEF RowInv, RowOf
  <2>3. QED
    BY <2>1, <2>2
<1>3. ASSUME Environment, NEW s \in Requests
      PROVE  RowOf(s)'
  <2>1. /\ event' = event
        /\ pc'[s] \in {pc[s], "crashed"}
    BY <1>1, <1>3
    DEF Environment, NodeResolves, Revoke, RemoveToken, Crash, diskVars, TypeOK
  <2>2. invoice'[s] = invoice[s] \/ invoice[s] = "inflight"
    BY <1>1, <1>3
    DEF Environment, NodeResolves, Revoke, RemoveToken, Crash, envVars, TypeOK, Tokens
  <2>3. QED
    BY <2>1, <2>2 DEF RowInv, RowOf, UnpaidStages, SettledStages
<1>4. ASSUME UNCHANGED vars, NEW s \in Requests
      PROVE  RowOf(s)'
  BY <1>4 DEF vars, diskVars, envVars, RowInv, RowOf
<1>5. QED
  BY <1>1, <1>2, <1>3, <1>4 DEF RowInv, Next, Finished

\* Once a request has returned its event row says what became of its invoice,
\* whoever crashes, revokes, removes or races, if every row is taken and every
\* payment is waited for.
THEOREM LedgerMatches ==
  ASSUME Recorded
  PROVE  Spec => []LedgerExact
<1>1. RowInv /\ [Next]_vars => RowInv'
  BY RowNext
<1>2. Spec => []RowInv
  BY InitRow, <1>1, PTL DEF Spec
<1>3. RowInv => LedgerExact
  BY DEF RowInv, RowOf, LedgerExact
<1>4. QED
  BY <1>2, <1>3, PTL
====
