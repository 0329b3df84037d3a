---- MODULE EventLog ----
(***************************************************************************)
(* The payment event log: opening the SQLite database and migrating it     *)
(* (events.NewStore), recording a payment and adding the response metadata *)
(* to it (events.Logger), and reading it back, page by page (ListEvents as *)
(* the dashboard's payments page and the MCP tool drive it) or summed up   *)
(* (GetStats, GetSpendingByDomain).                                        *)
(*                                                                         *)
(* Several processes open one database file; in each, several payments and *)
(* readers run at the same time.  A payment is made by the handler of its  *)
(* scheme, of which a process has one for all domains.  A step is one SQL  *)
(* statement, which SQLite makes atomic, or an access to the clock or to   *)
(* the id that the payments of a handler share.                            *)
(***************************************************************************)
EXTENDS Naturals, Sequences, FiniteSets, FiniteSetsExt

CONSTANTS
  Procs,      \* lnget processes that share the database
  Payments,   \* payments to be recorded
  ProcOf,     \* the process that makes each payment
  SchemeOf,   \* the scheme it is made under
  DomainOf,   \* the domain it goes to
  Amount,     \* the satoshis it costs
  Succeeds,   \* the payments the node settles
  Readers,    \* the processes in which somebody looks at the log
  Limit,      \* the size of a page (PAGE_SIZE, or the tool's limit)
  Faults,     \* what may go wrong in this instance
  None        \* no row, no domain

FaultKinds ==
  { "busy",     \* SQLite answers SQLITE_BUSY
    "crash" }   \* a process dies

ASSUME EventLogAssumption ==
  /\ ProcOf \in [Payments -> Procs]
  /\ Amount \in [Payments -> Nat]
  /\ Succeeds \subseteq Payments
  /\ Readers \subseteq Procs
  /\ Limit \in Nat \ {0}
  /\ Faults \subseteq FaultKinds
  /\ None \notin Payments
  /\ \A e \in Payments : DomainOf[e] # None

Domains == {DomainOf[e] : e \in Payments}

\* A process has one handler for each scheme.
Handler(e) == <<ProcOf[e], SchemeOf[e]>>
Handlers   == {Handler(e) : e \in Payments}

VARIABLES
  schema,   \* the migrations the database file has seen
  conn,     \* where each process is with NewStore
  stage,    \* where each payment is with its event
  stamp,    \* the created_at a payment's event was given
  clock,    \* the next instant
  rows,     \* the events table; a row's id is its index
  eid,      \* the id RecordEvent returned for a payment, then the one it enriches
  lastEventID, \* the id each handler stored last; 0 if none
  pager     \* the reader of each process

dbVars    == <<schema, conn>>
eventVars == <<stage, stamp, clock, rows, eid, lastEventID>>
vars      == <<dbVars, eventVars, pager>>

NoWalk == [on |-> FALSE, domain |-> None, offset |-> 0, known |-> {}, seen |-> {}]

Init ==
  /\ schema = "none"
  /\ conn   = [p \in Procs |-> "closed"]
  /\ stage  = [e \in Payments |-> "paying"]
  /\ stamp  = [e \in Payments |-> 0]
  /\ clock  = 1
  /\ rows   = << >>
  /\ eid    = [e \in Payments |-> 0]
  /\ lastEventID = [h \in Handlers |-> 0]
  /\ pager  = [p \in Procs |-> NoWalk]

----
(* NewStore: OpenSqlite, then every *.up.sql file in sorted order.         *)

OpenSqlite(p) ==
  /\ conn[p] = "closed"
  /\ conn' = [conn EXCEPT ![p] = "migrate1"]
  /\ UNCHANGED <<schema, eventVars, pager>>

\* NewStore closes the database and returns the error.
OpenFails(p) ==
  /\ conn' = [conn EXCEPT ![p] = "failed"]
  /\ UNCHANGED <<schema, eventVars, pager>>

\* 000001_events: CREATE TABLE IF NOT EXISTS, and three indexes likewise.
CreateTable(p) ==
  /\ conn[p] = "migrate1"
  /\ schema' = IF schema = "none" THEN "events" ELSE schema
  /\ conn' = [conn EXCEPT ![p] = "migrate2"]
  /\ UNCHANGED <<eventVars, pager>>

\* 000002_add_scheme: ALTER TABLE ADD COLUMN, which has no IF NOT EXISTS.
AddScheme(p) ==
  /\ conn[p] = "migrate2"
  /\ IF schema = "events"
     THEN /\ schema' = "scheme"
          /\ conn' = [conn EXCEPT ![p] = "open"]
          /\ UNCHANGED <<eventVars, pager>>
     ELSE OpenFails(p)

MigrationRefused(p) ==
  /\ "busy" \in Faults
  /\ conn[p] \in {"migrate1", "migrate2"}
  /\ OpenFails(p)

----
(* HandleChallenge from the end of the payment on, and the response to the *)
(* request that is sent again.                                             *)

Logging(e) == conn[ProcOf[e]] = "open"

InHand == {"recording", "storing", "loading", "enriching"}

\* RoundTrip holds the lock of the payment's domain until it returns.
HasLock(e) ==
  \A f \in Payments :
    ProcOf[f] = ProcOf[e] /\ DomainOf[f] = DomainOf[e] => stage[f] \notin InHand

Moves(e, to) == stage' = [stage EXCEPT ![e] = to]

\* Faulty variant: payments of one domain need not wait for one another.
StampUnlocked(e) ==
  /\ Logging(e)
  /\ stage[e] = "paying"
  /\ stamp' = [stamp EXCEPT ![e] = clock]
  /\ clock' = clock + 1
  /\ Moves(e, "recording")
  /\ UNCHANGED <<dbVars, rows, eid, lastEventID, pager>>

\* The payment has succeeded or failed: RecordPaymentSuccess or -Failure builds
\* the event, with time.Now(), before it inserts it.
StampEvent(e) ==
  /\ Logging(e)
  /\ stage[e] = "paying"
  /\ HasLock(e)
  /\ stamp' = [stamp EXCEPT ![e] = clock]
  /\ clock' = clock + 1
  /\ Moves(e, "recording")
  /\ UNCHANGED <<dbVars, rows, eid, lastEventID, pager>>

\* After a failed payment HandleChallenge returns its error; nothing is enriched.
Recorded(e) == Moves(e, IF e \in Succeeds THEN "loading" ELSE "done")

\* Faulty variant: the row does not say which payment it records.
RowWithoutHash(e) == [payment |-> None, created |-> stamp[e], response |-> None]

Row(e) == [payment |-> e, created |-> stamp[e], response |-> None]

\* A refused insert is logged, and lastEventID stays as it is.
InsertEvent(e) ==
  /\ Logging(e)
  /\ stage[e] = "recording"
  /\ \/ /\ rows' = Append(rows, Row(e))
        /\ eid' = [eid EXCEPT ![e] = Len(rows) + 1]
        /\ Moves(e, "storing")
     \/ /\ "busy" \in Faults
        /\ Recorded(e)
        /\ UNCHANGED <<rows, eid>>
  /\ UNCHANGED <<dbVars, stamp, clock, lastEventID, pager>>

\* h.lastEventID.Store(eventID)
StoreEventID(e) ==
  /\ Logging(e)
  /\ stage[e] = "storing"
  /\ lastEventID' = [lastEventID EXCEPT ![Handler(e)] = eid[e]]
  /\ Recorded(e)
  /\ UNCHANGED <<dbVars, stamp, clock, rows, eid, pager>>

\* h.lastEventID.Load(), for the result that HandleChallenge returns.
LoadEventID(e) ==
  /\ Logging(e)
  /\ stage[e] = "loading"
  /\ eid' = [eid EXCEPT ![e] = lastEventID[Handler(e)]]
  /\ Moves(e, "enriching")
  /\ UNCHANGED <<dbVars, stamp, clock, rows, lastEventID, pager>>

\* The token cannot be stored, or the request fails that is sent again.
NoResponse(e) ==
  /\ Logging(e)
  /\ stage[e] \in {"loading", "enriching"}
  /\ Moves(e, "done")
  /\ UNCHANGED <<dbVars, stamp, clock, rows, eid, lastEventID, pager>>

\* The response came; an id of 0 names no event.
EnrichEvent(e) ==
  /\ Logging(e)
  /\ stage[e] = "enriching"
  /\ \/ eid[e] # 0 /\ rows' = [rows EXCEPT ![eid[e]].response = e]
     \/ (eid[e] = 0 \/ "busy" \in Faults) /\ UNCHANGED rows
  /\ Moves(e, "done")
  /\ UNCHANGED <<dbVars, stamp, clock, eid, lastEventID, pager>>

----
(* ListEvents and its readers.                                             *)

Status(i) == IF rows[i].payment \in Succeeds THEN "success" ELSE "failed"

\* The rows a filter lets through; no domain matches all.
Filtered(domain) ==
  {i \in DOMAIN rows : domain \in {None, DomainOf[rows[i].payment]}}

Newer(i, j) == rows[i].created > rows[j].created

\* Faulty variant: the page is cut before the filter is applied.
PageThenFilter(domain, limit, offset) ==
  {i \in Filtered(domain) :
     Cardinality({j \in DOMAIN rows : Newer(j, i)}) \in offset .. offset + limit - 1}

\* WHERE domain ... ORDER BY created_at DESC LIMIT limit OFFSET offset.
ListEvents(domain, limit, offset) ==
  {i \in Filtered(domain) :
     Cardinality({j \in Filtered(domain) : Newer(j, i)}) \in offset .. offset + limit - 1}

\* A reader starts over: the first page, with or without a domain filter.
StartWalk(p) ==
  /\ p \in Readers
  /\ conn[p] = "open"
  /\ ~pager[p].on
  /\ \E domain \in Domains \cup {None} :
       pager' = [pager EXCEPT ![p] = [NoWalk EXCEPT !.on = TRUE, !.domain = domain,
                                                    !.known = Filtered(domain)]]
  /\ UNCHANGED <<dbVars, eventVars>>

\* The next page; a page that is not full is the last one.
NextPage(p) ==
  LET w    == pager[p]
      page == ListEvents(w.domain, Limit, w.offset) IN
    /\ conn[p] = "open"
    /\ w.on
    /\ pager' = [pager EXCEPT ![p].seen   = @ \cup page,
                              ![p].offset = @ + Limit,
                              ![p].on     = Cardinality(page) = Limit]
    /\ UNCHANGED <<dbVars, eventVars>>

----
(* GetStats and GetSpendingByDomain: two statements over one table.        *)

Spent(ids) == MapThenSumSet(LAMBDA i : Amount[rows[i].payment], ids)

Successes == {i \in DOMAIN rows : Status(i) = "success"}

GetStats ==
  [ totalSpent      |-> Spent(Successes),
    totalPayments   |-> Cardinality(Successes),
    failedPayments  |-> Cardinality({i \in DOMAIN rows : Status(i) = "failed"}),
    domainsAccessed |-> Cardinality({DomainOf[rows[i].payment] : i \in Successes}) ]

\* Faulty variant: failed payments are grouped, too.
SpendingOfAllRows ==
  LET Of(d) == {i \in DOMAIN rows : DomainOf[rows[i].payment] = d} IN
    {[domain |-> d, total |-> Spent(Of(d)), payments |-> Cardinality(Of(d))] :
       d \in {DomainOf[rows[i].payment] : i \in DOMAIN rows}}

GetSpendingByDomain ==
  LET Of(d) == {i \in Successes : DomainOf[rows[i].payment] = d} IN
    {[domain |-> d, total |-> Spent(Of(d)), payments |-> Cardinality(Of(d))] :
       d \in {DomainOf[rows[i].payment] : i \in Successes}}

----
\* A process dies, or ends: its payments record nothing any more.
Crash(p) ==
  /\ "crash" \in Faults
  /\ conn[p] \notin {"closed", "dead"}
  /\ conn' = [conn EXCEPT ![p] = "dead"]
  /\ pager' = [pager EXCEPT ![p].on = FALSE]
  /\ UNCHANGED <<schema, eventVars>>

Next ==
  \/ \E p \in Procs :
       \/ OpenSqlite(p) \/ CreateTable(p) \/ AddScheme(p) \/ MigrationRefused(p)
       \/ StartWalk(p) \/ NextPage(p) \/ Crash(p)
  \/ \E e \in Payments :
       \/ StampEvent(e) \/ InsertEvent(e) \/ StoreEventID(e) \/ LoadEventID(e)
       \/ NoResponse(e) \/ EnrichEvent(e)

Spec == Init /\ [][Next]_vars

----
(* Properties.                                                             *)

RowType == [payment: Payments, created: Nat, response: Payments \cup {None}]

Walk == [on: BOOLEAN, domain: Domains \cup {None}, offset: Nat,
         known: SUBSET Nat, seen: SUBSET Nat]

TypeOK ==
  /\ schema \in {"none", "events", "scheme"}
  /\ conn \in [Procs -> {"closed", "migrate1", "migrate2", "open", "failed", "dead"}]
  /\ stage \in [Payments -> InHand \cup {"paying", "done"}]
  /\ stamp \in [Payments -> Nat]
  /\ clock \in Nat \ {0}
  /\ rows \in Seq(RowType)
  /\ eid \in [Payments -> Nat]
  /\ lastEventID \in [Handlers -> Nat]
  /\ pager \in [Procs -> Walk]

HasRow(e) == \E i \in DOMAIN rows : rows[i].payment = e

\* The handler's lastEventID is shared, so that the metadata of a response may land
\* in the wrong row (run shared_event_id).  Not in any row, though: it is a row of
\* the same handler, and the row of another payment to the same domain only if the
\* payment itself was never recorded, as payments to one domain take turns.
MetadataStaysNear ==
  \A i \in DOMAIN rows : rows[i].response # None =>
    LET e == rows[i].response
        f == rows[i].payment IN
      /\ e \in Succeeds
      /\ Handler(f) = Handler(e)
      /\ DomainOf[f] = DomainOf[e] => f = e \/ ~HasRow(e)

\* A reader that walks the pages to the end misses no event that was there when
\* it started, whatever is recorded meanwhile and with whichever time.
PagingMissesNothing ==
  \A p \in Procs :
    conn[p] = "open" /\ ~pager[p].on => pager[p].known \subseteq pager[p].seen

\* The totals of the dashboard's header are those of its table of domains, and
\* every event is one of the two kinds it counts.
TotalsAgree ==
  LET byDomain == GetSpendingByDomain IN
    /\ GetStats.totalSpent = MapThenSumSet(LAMBDA g : g.total, byDomain)
    /\ GetStats.totalPayments = MapThenSumSet(LAMBDA g : g.payments, byDomain)
    /\ GetStats.domainsAccessed = Cardinality(byDomain)
    /\ GetStats.totalPayments + GetStats.failedPayments = Len(rows)

----
(* What the documentation says and the code does not keep.                 *)

\* "lnget automatically records all L402 payment events to a SQLite database"
\* (README.md): a process that is not refused by SQLite can open the log.
LogOpens == \A p \in Procs : conn[p] # "failed"
====
