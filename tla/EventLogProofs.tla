---- MODULE EventLogProofs ----
(* What EventLog guarantees for any number of processes and payments.      *)
EXTENDS EventLog, SequenceTheorems, FiniteSetTheorems, WellFoundedInduction, TLAPS

----
(* Type correctness.                                                       *)

\* Updating a row, if it exists, leaves all others alone.
LEMMA UpdateRow ==
  ASSUME NEW log \in Seq(RowType), NEW i, NEW e \in Payments
  PROVE  LET new == [log EXCEPT ![i].response = e] IN
           /\ new \in Seq(RowType)
           /\ DOMAIN new = DOMAIN log
           /\ \A j \in DOMAIN log :
                new[j] = IF j = i THEN [log[j] EXCEPT !.response = e] ELSE log[j]
<1> DEFINE new == [log EXCEPT ![i].response = e]
<1>1. /\ DOMAIN new = DOMAIN log
      /\ \A j \in DOMAIN log :
           new[j] = IF j = i THEN [log[j] EXCEPT !.response = e] ELSE log[j]
  OBVIOUS
<1>2. \A j \in DOMAIN log : log[j] \in RowType
  OBVIOUS
<1>3. \A j \in DOMAIN log : new[j] \in RowType
  BY <1>1, <1>2 DEF RowType
<1>4. new \in [1 .. Len(log) -> RowType] /\ Len(log) \in Nat
  <2>1. new = [j \in DOMAIN log |-> new[j]]
    BY <1>1
  <2>2. DOMAIN log = 1 .. Len(log) /\ Len(log) \in Nat
    OBVIOUS
  <2>3. QED
    BY <2>1, <2>2, <1>3
<1>5. new \in Seq(RowType)
  BY <1>4, SeqDef
<1>6. QED
  BY <1>1, <1>5

LEMMA InitType == Init => TypeOK
BY DEF Init, TypeOK, Walk, NoWalk

LEMMA HandlerType == \A e \in Payments : Handler(e) \in Handlers
BY DEF Handlers

\* What is let through are rows.
LEMMA FilteredType ==
  ASSUME TypeOK, NEW domain
  PROVE  Filtered(domain) \in SUBSET Nat
BY DEF TypeOK, Filtered

LEMMA PagerType ==
  ASSUME TypeOK, NEW p \in Procs, StartWalk(p) \/ NextPage(p) \/ Crash(p)
  PROVE  pager' \in [Procs -> Walk]
<1>1. pager \in [Procs -> Walk]
  BY DEF TypeOK
<1>2. CASE StartWalk(p)
  <2>1. PICK domain \in Domains \cup {None} :
          pager' = [pager EXCEPT ![p] = [NoWalk EXCEPT !.on = TRUE, !.domain = domain,
                                                       !.known = Filtered(domain)]]
    BY <1>2 DEF StartWalk
  <2>2. [NoWalk EXCEPT !.on = TRUE, !.domain = domain, !.known = Filtered(domain)] \in Walk
    BY FilteredType DEF Walk, NoWalk
  <2>3. QED
    BY <1>1, <2>1, <2>2
<1>3. CASE NextPage(p)
  <2> DEFINE w    == pager[p]
             page == ListEvents(w.domain, Limit, w.offset)
             next == [w EXCEPT !.seen = @ \cup page, !.offset = @ + Limit,
                               !.on = Cardinality(page) = Limit]
  <2>1. page \in SUBSET Nat
    BY FilteredType DEF ListEvents
  <2>2. w \in Walk /\ Limit \in Nat
    BY <1>1, EventLogAssumption
  <2>3. pager' = [pager EXCEPT ![p] = next]
    BY <1>3 DEF NextPage
  <2>4. next \in Walk
    <3>1. w.seen \cup page \in SUBSET Nat /\ w.offset + Limit \in Nat
      BY <2>1, <2>2 DEF Walk
    <3>2. (Cardinality(page) = Limit) \in BOOLEAN
      OBVIOUS
    <3> HIDE DEF page, w
    <3>3. QED
      BY <2>2, <3>1, <3>2 DEF Walk
  <2>5. QED
    BY <1>1, <2>3, <2>4
<1>4. CASE Crash(p)
  BY <1>1, <1>4 DEF Crash, Walk
<1>5. QED
  BY <1>2, <1>3, <1>4

LEMMA NextType == TypeOK /\ [Next]_vars => TypeOK'
<1> SUFFICES ASSUME TypeOK, [Next]_vars PROVE TypeOK'
  OBVIOUS
<1> USE DEF TypeOK, dbVars, eventVars
<1>1. ASSUME NEW p \in Procs,
             \/ OpenSqlite(p) \/ CreateTable(p) \/ AddScheme(p) \/ MigrationRefused(p)
             \/ StartWalk(p) \/ NextPage(p) \/ Crash(p)
      PROVE  TypeOK'
  BY <1>1, PagerType DEF OpenSqlite, CreateTable, AddScheme, MigrationRefused, OpenFails,
              StartWalk, NextPage, Crash
<1>2. ASSUME NEW e \in Payments,
             StampEvent(e) \/ StoreEventID(e) \/ LoadEventID(e) \/ NoResponse(e)
      PROVE  TypeOK'
  <2>1. CASE StampEvent(e) \/ NoResponse(e)
    <3>1. stage' \in [Payments -> InHand \cup {"paying", "done"}]
      BY <2>1 DEF StampEvent, NoResponse, Moves, InHand
    <3>2. CASE StampEvent(e)
      BY <3>1, <3>2 DEF StampEvent
    <3>3. CASE NoResponse(e)
      BY <3>1, <3>3 DEF NoResponse
    <3>4. QED
      BY <2>1, <3>2, <3>3
  <2>2. CASE StoreEventID(e)
    <3>1. lastEventID' \in [Handlers -> Nat]
      BY <2>2 DEF StoreEventID
    <3>2. QED
      BY <2>2, <3>1 DEF StoreEventID, Moves, Recorded, InHand
  <2>3. CASE LoadEventID(e)
    <3>1. eid' \in [Payments -> Nat]
      BY <2>3, HandlerType DEF LoadEventID
    <3>2. QED
      BY <2>3, <3>1 DEF LoadEventID, Moves, InHand
  <2>4. QED
    BY <1>2, <2>1, <2>2, <2>3
<1>3. ASSUME NEW e \in Payments, InsertEvent(e) PROVE TypeOK'
  <2>1. Row(e) \in RowType
    BY DEF Row, RowType
  <2>2. rows' \in Seq(RowType)
    <3>1. rows \in Seq(RowType)
      OBVIOUS
    <3>2. Append(rows, Row(e)) \in Seq(RowType)
      BY <2>1, <3>1, AppendProperties
    <3>3. QED
      BY <1>3, <3>1, <3>2 DEF InsertEvent
  <2>3. Len(rows) + 1 \in Nat
    OBVIOUS
  <2>4. QED
    BY <1>3, <2>2, <2>3 DEF InsertEvent, Moves, Recorded, InHand
<1>4. ASSUME NEW e \in Payments, EnrichEvent(e) PROVE TypeOK'
  <2>1. rows' \in Seq(RowType)
    <3>1. rows \in Seq(RowType)
      OBVIOUS
    <3>2. [rows EXCEPT ![eid[e]].response = e] \in Seq(RowType)
      BY <3>1, UpdateRow
    <3>3. QED
      BY <1>4, <3>1, <3>2 DEF EnrichEvent
  <2>2. QED
    BY <1>4, <2>1 DEF EnrichEvent, Moves
<1>5. CASE UNCHANGED vars
  BY <1>5 DEF vars
<1>6. QED
  BY <1>1, <1>2, <1>3, <1>4, <1>5 DEF Next

\* The variables always have the values of their types (what NewStore, the
\* migrations, the Logger and the readers assign to them).
THEOREM TypeCorrect == Spec => []TypeOK
BY InitType, NextType, PTL DEF Spec

----
(* Whose row response metadata lands in.                                   *)

\* Payments of a process to one domain take turns from the lock to the response.
TakeTurns ==
  \A e, f \in Payments :
    /\ ProcOf[f] = ProcOf[e] /\ DomainOf[f] = DomainOf[e]
    /\ stage[e] \in InHand /\ stage[f] \in InHand
    => f = e

InLog(log, e) == \E i \in DOMAIN log : log[i].payment = e

\* The row of an id is one that payment e may enrich.
MayEnrich(log, e, id) ==
  \/ id = 0 /\ ~InLog(log, e)
  \/ /\ id \in DOMAIN log
     /\ Handler(log[id].payment) = Handler(e)
     /\ DomainOf[log[id].payment] = DomainOf[e] => log[id].payment = e \/ ~InLog(log, e)

\* What each stage of a payment knows of its row and of the ids.
IDsNear ==
  \A e \in Payments :
    /\ stage[e] \in {"paying", "recording"} => ~InLog(rows, e)
    /\ stage[e] = "storing" => eid[e] \in DOMAIN rows /\ rows[eid[e]].payment = e
    /\ stage[e] = "loading" => MayEnrich(rows, e, lastEventID[Handler(e)])
    /\ stage[e] = "enriching" => MayEnrich(rows, e, eid[e])
    /\ stage[e] \in {"loading", "enriching"} => e \in Succeeds

\* An id that a handler stored is that of one of its payments.
StoredIDs ==
  \A h \in Handlers :
    \/ lastEventID[h] = 0
    \/ lastEventID[h] \in DOMAIN rows /\ Handler(rows[lastEventID[h]].payment) = h

Answered ==
  \A i \in DOMAIN rows : rows[i].response # None =>
    /\ stage[rows[i].response] = "done"
    /\ rows[i].response \in Succeeds
    /\ MayEnrich(rows, rows[i].response, i)

RowInv == TypeOK /\ TakeTurns /\ IDsNear /\ StoredIDs /\ Answered

LEMMA InitRows == Init => RowInv
<1> SUFFICES ASSUME Init PROVE RowInv
  OBVIOUS
<1>1. DOMAIN rows = {}
  BY DEF Init
<1>2. \A e \in Payments : stage[e] = "paying"
  BY DEF Init
<1>3. \A h \in Handlers : lastEventID[h] = 0
  BY DEF Init
<1>4. QED
  BY <1>1, <1>2, <1>3, InitType
  DEF RowInv, TakeTurns, InHand, IDsNear, InLog, StoredIDs, Answered

\* Only StampEvent takes a payment in hand, and it waits for the lock.
LEMMA TurnsNext == TypeOK /\ TakeTurns /\ [Next]_vars => TakeTurns'
<1> SUFFICES ASSUME TypeOK, TakeTurns, [Next]_vars PROVE TakeTurns'
  OBVIOUS
<1> USE DEF TypeOK, TakeTurns, InHand
<1>1. ASSUME NEW e \in Payments, StampEvent(e) PROVE TakeTurns'
  BY <1>1 DEF StampEvent, HasLock, Moves
<1>2. ASSUME NEW e \in Payments,
             \/ InsertEvent(e) \/ StoreEventID(e) \/ LoadEventID(e)
             \/ NoResponse(e) \/ EnrichEvent(e)
      PROVE  TakeTurns'
  BY <1>2 DEF InsertEvent, StoreEventID, LoadEventID, NoResponse, EnrichEvent, Moves,
              Recorded
<1>3. CASE UNCHANGED stage
  BY <1>3
<1>4. QED
  BY <1>1, <1>2, <1>3
  DEF Next, vars, eventVars, OpenSqlite, CreateTable, AddScheme, MigrationRefused,
      OpenFails, StartWalk, NextPage, Crash

\* A step that changes no row leaves what an id may stand for as it was.
LEMMA MayEnrichKept ==
  ASSUME NEW log, NEW new, DOMAIN new = DOMAIN log,
         \A i \in DOMAIN log : new[i].payment = log[i].payment
  PROVE  /\ \A f : InLog(new, f) <=> InLog(log, f)
         /\ \A f, id : MayEnrich(new, f, id) <=> MayEnrich(log, f, id)
<1>1. \A f : InLog(new, f) <=> InLog(log, f)
  BY DEF InLog
<1>2. QED
  BY <1>1 DEF MayEnrich

LEMMA InsertRows ==
  ASSUME RowInv, NEW e \in Payments, InsertEvent(e)
  PROVE  IDsNear' /\ StoredIDs' /\ Answered'
<1> USE DEF RowInv, TypeOK
<1>1. CASE rows' = Append(rows, Row(e)) /\ eid' = [eid EXCEPT ![e] = Len(rows) + 1]
           /\ Moves(e, "storing")
  <2>1. /\ DOMAIN rows' = DOMAIN rows \cup {Len(rows) + 1}
        /\ \A i \in DOMAIN rows : rows'[i] = rows[i]
        /\ rows'[Len(rows) + 1] = Row(e)
        /\ Len(rows) + 1 \in Nat
    BY <1>1
  <2>2. Row(e).payment = e /\ Row(e).response = None
    BY DEF Row
  <2>3. /\ \A f \in Payments \ {e} : stage'[f] = stage[f] /\ eid'[f] = eid[f]
        /\ stage'[e] = "storing" /\ eid'[e] = Len(rows) + 1
        /\ stage[e] = "recording" /\ lastEventID' = lastEventID
    BY <1>1 DEF InsertEvent, Moves
  <2>4. \A f \in Payments \ {e} : InLog(rows', f) <=> InLog(rows, f)
    BY <2>1, <2>2 DEF InLog
  <2>5. \A f \in Payments \ {e} : \A id : MayEnrich(rows, f, id) => MayEnrich(rows', f, id)
    BY <2>1, <2>4 DEF MayEnrich
  <2>6. IDsNear'
    BY <2>1, <2>2, <2>3, <2>4, <2>5 DEF IDsNear
  <2>7. StoredIDs'
    BY <2>1, <2>3 DEF StoredIDs
  <2>8. Answered'
    <3>1. \A i \in DOMAIN rows : rows[i] \in RowType
      OBVIOUS
    <3>2. ASSUME NEW i \in DOMAIN rows', rows'[i].response # None
          PROVE  /\ stage'[rows'[i].response] = "done"
                 /\ rows'[i].response \in Succeeds
                 /\ MayEnrich(rows', rows'[i].response, i)
      <4>1. i \in DOMAIN rows /\ rows'[i] = rows[i]
        BY <2>1, <2>2, <3>2
      <4>2. rows[i].response \in Payments
        BY <3>1, <3>2, <4>1 DEF RowType
      <4>3. /\ stage[rows[i].response] = "done"
            /\ rows[i].response \in Succeeds
            /\ MayEnrich(rows, rows[i].response, i)
        BY <3>2, <4>1 DEF Answered
      <4>4. QED
        BY <2>3, <2>5, <4>1, <4>2, <4>3
    <3>3. QED
      BY <3>2 DEF Answered
  <2>9. QED
    BY <2>6, <2>7, <2>8
<1>2. CASE Recorded(e) /\ UNCHANGED <<rows, eid>>
  <2>1. \A f, id : /\ InLog(rows', f) <=> InLog(rows, f)
                   /\ MayEnrich(rows', f, id) <=> MayEnrich(rows, f, id)
    BY <1>2, MayEnrichKept
  <2>2. /\ \A f \in Payments \ {e} : stage'[f] = stage[f]
        /\ stage'[e] = IF e \in Succeeds THEN "loading" ELSE "done"
        /\ stage[e] = "recording" /\ lastEventID' = lastEventID
    BY <1>2 DEF InsertEvent, Recorded, Moves
  <2>3. \A id \in DOMAIN rows : id # 0
    OBVIOUS
  <2>4. MayEnrich(rows, e, lastEventID[Handler(e)])
    BY <2>2, HandlerType DEF IDsNear, StoredIDs, MayEnrich
  <2>5. IDsNear'
    BY <1>2, <2>1, <2>2, <2>4 DEF IDsNear
  <2>6. StoredIDs' /\ Answered'
    <3>1. \A i \in DOMAIN rows : rows[i] \in RowType
      OBVIOUS
    <3>2. QED
      BY <1>2, <2>1, <2>2, <3>1 DEF StoredIDs, Answered, RowType
  <2>7. QED
    BY <2>5, <2>6
<1>3. QED
  BY <1>1, <1>2 DEF InsertEvent

LEMMA StoreRows ==
  ASSUME RowInv, NEW e \in Payments, StoreEventID(e)
  PROVE  IDsNear' /\ StoredIDs' /\ Answered'
<1> USE DEF RowInv, TypeOK
<1>1. /\ rows' = rows /\ eid' = eid /\ stage[e] = "storing"
      /\ eid[e] \in DOMAIN rows /\ rows[eid[e]].payment = e
      /\ lastEventID' = [lastEventID EXCEPT ![Handler(e)] = eid[e]]
  BY DEF StoreEventID, IDsNear
<1>2. \A f, id : /\ InLog(rows', f) <=> InLog(rows, f)
                 /\ MayEnrich(rows', f, id) <=> MayEnrich(rows, f, id)
  BY <1>1, MayEnrichKept
<1>3. /\ \A f \in Payments \ {e} : stage'[f] = stage[f]
      /\ stage'[e] = IF e \in Succeeds THEN "loading" ELSE "done"
  BY DEF StoreEventID, Recorded, Moves
<1>4. /\ lastEventID'[Handler(e)] = eid[e]
      /\ \A h \in Handlers \ {Handler(e)} : lastEventID'[h] = lastEventID[h]
  BY <1>1, HandlerType
<1>5. MayEnrich(rows, e, eid[e])
  BY <1>1 DEF MayEnrich
<1>6. ASSUME NEW f \in Payments \ {e}, stage[f] = "loading"
      PROVE  MayEnrich(rows, f, lastEventID'[Handler(f)])
  <2>1. CASE Handler(f) = Handler(e)
    <3>1. ProcOf[f] = ProcOf[e]
      BY <2>1 DEF Handler
    <3>2. DomainOf[f] # DomainOf[e]
      BY <1>1, <1>6, <3>1 DEF TakeTurns, InHand
    <3>3. QED
      BY <1>1, <1>4, <2>1, <3>2 DEF MayEnrich
  <2>2. CASE Handler(f) # Handler(e)
    BY <1>4, <1>6, <2>2, HandlerType DEF IDsNear
  <2>3. QED
    BY <2>1, <2>2
<1>7. IDsNear'
  BY <1>1, <1>2, <1>3, <1>4, <1>5, <1>6 DEF IDsNear
<1>8. StoredIDs'
  BY <1>1, <1>4 DEF StoredIDs
<1>9. Answered'
  <2>1. \A i \in DOMAIN rows : rows[i] \in RowType
    OBVIOUS
  <2>2. QED
    BY <1>1, <1>2, <1>3, <2>1 DEF Answered, RowType
<1>10. QED
  BY <1>7, <1>8, <1>9

LEMMA LoadRows ==
  ASSUME RowInv, NEW e \in Payments, StampEvent(e) \/ LoadEventID(e) \/ NoResponse(e)
  PROVE  IDsNear' /\ StoredIDs' /\ Answered'
<1> USE DEF RowInv, TypeOK
<1>1. /\ rows' = rows /\ lastEventID' = lastEventID
      /\ \A f \in Payments \ {e} : stage'[f] = stage[f] /\ eid'[f] = eid[f]
  BY DEF StampEvent, LoadEventID, NoResponse, Moves
<1>2. \/ stage[e] = "paying" /\ stage'[e] = "recording"
      \/ /\ stage[e] = "loading" /\ stage'[e] = "enriching"
         /\ eid'[e] = lastEventID[Handler(e)]
      \/ stage[e] \in {"loading", "enriching"} /\ stage'[e] = "done"
  BY DEF StampEvent, LoadEventID, NoResponse, Moves
<1>3. \A f, id : /\ InLog(rows', f) <=> InLog(rows, f)
                 /\ MayEnrich(rows', f, id) <=> MayEnrich(rows, f, id)
  BY <1>1, MayEnrichKept
<1>4. IDsNear'
  BY <1>1, <1>2, <1>3 DEF IDsNear
<1>5. StoredIDs'
  BY <1>1 DEF StoredIDs
<1>6. Answered'
  <2>1. \A i \in DOMAIN rows : rows[i] \in RowType
    OBVIOUS
  <2>2. QED
    BY <1>1, <1>2, <1>3, <2>1 DEF Answered, RowType
<1>7. QED
  BY <1>4, <1>5, <1>6

LEMMA EnrichRows ==
  ASSUME RowInv, NEW e \in Payments, EnrichEvent(e)
  PROVE  IDsNear' /\ StoredIDs' /\ Answered'
<1> USE DEF RowInv, TypeOK
<1>1. /\ DOMAIN rows' = DOMAIN rows
      /\ \A i \in DOMAIN rows : /\ rows'[i].payment = rows[i].payment
                                /\ \/ rows'[i].response = rows[i].response
                                   \/ i = eid[e] /\ rows'[i].response = e
  <2>1. \A i \in DOMAIN rows : rows[i] \in RowType
    OBVIOUS
  <2>2. CASE rows' = [rows EXCEPT ![eid[e]].response = e]
    BY <2>1, <2>2, UpdateRow DEF RowType
  <2>3. QED
    BY <2>2 DEF EnrichEvent
<1>2. /\ stage[e] = "enriching" /\ eid' = eid /\ lastEventID' = lastEventID
      /\ stage'[e] = "done" /\ \A f \in Payments \ {e} : stage'[f] = stage[f]
  BY DEF EnrichEvent, Moves
<1>3. \A f, id : /\ InLog(rows', f) <=> InLog(rows, f)
                 /\ MayEnrich(rows', f, id) <=> MayEnrich(rows, f, id)
  BY <1>1, MayEnrichKept
<1>4. IDsNear'
  BY <1>1, <1>2, <1>3 DEF IDsNear
<1>5. StoredIDs'
  BY <1>1, <1>2 DEF StoredIDs
<1>6. Answered'
  <2>1. \A i \in DOMAIN rows : rows[i] \in RowType
    OBVIOUS
  <2>2. MayEnrich(rows, e, eid[e]) /\ e \in Succeeds
    BY <1>2 DEF IDsNear
  <2>3. ASSUME NEW i \in DOMAIN rows, rows'[i].response # None
        PROVE  /\ stage'[rows'[i].response] = "done"
               /\ rows'[i].response \in Succeeds
               /\ MayEnrich(rows, rows'[i].response, i)
    <3>1. CASE rows'[i].response = e /\ i = eid[e]
      BY <1>2, <2>2, <3>1
    <3>2. CASE rows'[i].response = rows[i].response
      <4>1. rows[i].response \in Payments
        BY <2>1, <2>3, <3>2 DEF RowType
      <4>2. QED
        BY <1>2, <2>3, <3>2, <4>1 DEF Answered
    <3>3. QED
      BY <1>1, <3>1, <3>2
  <2>4. QED
    BY <1>1, <1>3, <2>3 DEF Answered
<1>7. QED
  BY <1>4, <1>5, <1>6

LEMMA RowNext == RowInv /\ [Next]_vars => RowInv'
<1> SUFFICES ASSUME RowInv, [Next]_vars PROVE IDsNear' /\ StoredIDs' /\ Answered'
  BY NextType, TurnsNext DEF RowInv
<1>1. CASE UNCHANGED eventVars
  <2>1. \A f, id : /\ InLog(rows', f) <=> InLog(rows, f)
                   /\ MayEnrich(rows', f, id) <=> MayEnrich(rows, f, id)
    BY <1>1, MayEnrichKept DEF eventVars
  <2>2. QED
    BY <1>1, <2>1 DEF eventVars, RowInv, IDsNear, StoredIDs, Answered
<1>2. QED
  BY <1>1, InsertRows, StoreRows, LoadRows, EnrichRows
  DEF Next, vars, OpenSqlite, CreateTable, AddScheme, MigrationRefused,
      OpenFails, StartWalk, NextPage, Crash

\* The metadata of a response goes to a row of the same handler, and to that of
\* another payment to the same domain only if the payment itself has no row: however
\* the payments of a process interleave on the id they share, and whatever SQLite
\* refuses.
THEOREM MetadataIsNear == Spec => []MetadataStaysNear
<1>1. RowInv => MetadataStaysNear
  <2> SUFFICES ASSUME RowInv, NEW i \in DOMAIN rows, rows[i].response # None
               PROVE  LET e == rows[i].response
                          f == rows[i].payment IN
                        /\ e \in Succeeds
                        /\ Handler(f) = Handler(e)
                        /\ DomainOf[f] = DomainOf[e] => f = e \/ ~HasRow(e)
    BY DEF MetadataStaysNear
  <2>1. i # 0
    BY DEF RowInv, TypeOK
  <2>2. QED
    BY <2>1 DEF RowInv, Answered, MayEnrich, InLog, HasRow
<1>2. QED
  BY <1>1, InitRows, RowNext, PTL DEF Spec

----
(* The second migration runs once, so the database opens once.             *)

OpenedOnce ==
  /\ TypeOK
  /\ schema # "scheme" => \A p \in Procs : conn[p] # "open"
  /\ \A p, q \in Procs : conn[p] = "open" /\ conn[q] = "open" => p = q

\* Of all the processes that share a database at most one has it open, and after
\* that one has ended none has: ADD COLUMN succeeds once in the life of the file.
THEOREM OpensOnce == Spec => []OpenedOnce
<1>1. Init => OpenedOnce
  BY InitType DEF Init, OpenedOnce
<1>2. OpenedOnce /\ [Next]_vars => OpenedOnce'
  <2> SUFFICES ASSUME OpenedOnce, [Next]_vars PROVE OpenedOnce'
    OBVIOUS
  <2> USE DEF OpenedOnce, TypeOK, dbVars
  <2>1. TypeOK'
    BY NextType
  <2>2. ASSUME NEW p \in Procs,
               \/ OpenSqlite(p) \/ CreateTable(p) \/ AddScheme(p)
               \/ MigrationRefused(p) \/ Crash(p)
        PROVE  OpenedOnce'
    BY <2>1, <2>2 DEF OpenSqlite, CreateTable, AddScheme, MigrationRefused, OpenFails, Crash
  <2>3. CASE UNCHANGED dbVars
    BY <2>1, <2>3
  <2>4. QED
    BY <2>2, <2>3 
    DEF Next, vars, StartWalk, NextPage, StampEvent, InsertEvent, StoreEventID,
        LoadEventID, NoResponse, EnrichEvent
<1>3. QED
  BY <1>1, <1>2, PTL DEF Spec
----
(* Pages.  The rank of a row is the number of newer rows that the same     *)
(* filter lets through: the position ORDER BY created_at DESC gives it.    *)

Rank(S, created, i) == Cardinality({j \in S : created[j] > created[i]})

\* The rows of a query, each with an instant of its own.
Dated(S, created) ==
  /\ IsFiniteSet(S)
  /\ \A i \in S : created[i] \in Nat
  /\ \A i, j \in S : created[i] = created[j] => i = j

LEMMA RankType ==
  ASSUME NEW S, NEW created, Dated(S, created), NEW i \in S
  PROVE  Rank(S, created, i) \in Nat /\ IsFiniteSet({j \in S : created[j] > created[i]})
<1>1. {j \in S : created[j] > created[i]} \in SUBSET S
  OBVIOUS
<1>2. QED
  BY <1>1, FS_Subset, FS_CardinalityType DEF Rank, Dated

\* The newer of two rows has the smaller rank.
LEMMA RankOrder ==
  ASSUME NEW S, NEW created, Dated(S, created), NEW i \in S, NEW j \in S,
         created[j] > created[i]
  PROVE  Rank(S, created, j) < Rank(S, created, i)
<1> DEFINE N(k) == {l \in S : created[l] > created[k]}
<1>1. /\ N(j) \in SUBSET N(i) /\ N(j) # N(i)
  <2>1. \A l \in S : created[l] \in Nat
    BY DEF Dated
  <2>2. \A l \in N(j) : l \in N(i)
    BY <2>1
  <2>3. j \in N(i) /\ j \notin N(j)
    BY <2>1
  <2>4. QED
    BY <2>2, <2>3
<1>2. /\ IsFiniteSet(N(i))
      /\ Cardinality(N(i)) \in Nat /\ Cardinality(N(j)) \in Nat
  BY RankType DEF Rank
<1> HIDE DEF N
<1>3. Cardinality(N(j)) <= Cardinality(N(i)) /\ Cardinality(N(i)) # Cardinality(N(j))
  BY <1>1, <1>2, FS_Subset
<1>4. Cardinality(N(j)) < Cardinality(N(i))
  BY <1>2, <1>3
<1>5. QED
  BY <1>4 DEF Rank, N

LEMMA RankInjective ==
  ASSUME NEW S, NEW created, Dated(S, created), NEW i \in S, NEW j \in S,
         Rank(S, created, i) = Rank(S, created, j)
  PROVE  i = j
<1>1. created[i] \in Nat /\ created[j] \in Nat
  BY DEF Dated
<1>2. Rank(S, created, i) \in Nat
  BY RankType
<1>3. ~(created[i] > created[j]) /\ ~(created[j] > created[i])
  BY <1>2, RankOrder
<1>4. created[i] = created[j]
  BY <1>1, <1>3
<1>5. QED
  BY <1>4 DEF Dated

\* Ranks have no gaps: the least rank from k on is k, since the rows before the row
\* that has it are of ranks below k, of which there are at most k.
LEMMA SomeRank ==
  ASSUME NEW S, NEW created, Dated(S, created), NEW i \in S,
         NEW k \in Nat, k <= Rank(S, created, i)
  PROVE  \E j \in S : Rank(S, created, j) = k
<1> DEFINE rank == [j \in S |-> Rank(S, created, j)]
           T    == {n \in Nat : \E j \in S : n = rank[j] /\ k <= n}
           R    == OpToRel(<, Nat)
<1>1. \A j \in S : rank[j] \in Nat /\ rank[j] = Rank(S, created, j)
  BY RankType
<1>2. T # {}
  BY <1>1
<1>3. PICK m \in T : \A n \in T : ~(<<n, m>> \in R)
  <2>1. T \subseteq Nat /\ IsWellFoundedOn(R, Nat)
    BY NatLessThanWellFounded
  <2> HIDE DEF T, R
  <2> QED
    BY <1>2, <2>1, WFMin
<1>4. \A n \in T : ~(n < m)
  BY <1>3 DEF OpToRel
<1>5. PICK j \in S : m = rank[j] /\ k <= m
  BY <1>3
<1> DEFINE N == {l \in S : created[l] > created[j]}
<1>6. \A l \in N : rank[l] \in 0 .. (k - 1)
  <2> SUFFICES ASSUME NEW l \in N PROVE rank[l] \in 0 .. (k - 1)
    OBVIOUS
  <2>1. rank[l] < m /\ rank[l] \in Nat
    BY <1>1, <1>5, RankOrder
  <2>2. rank[l] \notin T
    BY <1>4, <2>1
  <2>3. ~(k <= rank[l])
    BY <2>1, <2>2
  <2>4. QED
    BY <2>1, <2>3
<1>7. [l \in N |-> rank[l]] \in Injection(N, 0 .. (k - 1))
  <2>1. [l \in N |-> rank[l]] \in [N -> 0 .. (k - 1)]
    BY <1>6
  <2>2. \A a, b \in N : rank[a] = rank[b] => a = b
    BY <1>1, RankInjective
  <2>3. QED
    BY <2>1, <2>2 DEF Injection, IsInjective
<1>8. IsFiniteSet(0 .. (k - 1)) /\ Cardinality(0 .. (k - 1)) = k
  <2>1. 0 \in Int /\ k - 1 \in Int
    OBVIOUS
  <2>2. /\ IsFiniteSet(0 .. (k - 1))
        /\ Cardinality(0 .. (k - 1)) = IF 0 > k - 1 THEN 0 ELSE (k - 1) - 0 + 1
    BY <2>1, FS_Interval
  <2>3. QED
    BY <2>2
<1>9. Cardinality(N) <= k
  <2> HIDE DEF N, rank
  <2> QED
    BY <1>7, <1>8, FS_Injection
<1>10. m <= k /\ m \in Nat
  BY <1>1, <1>5, <1>9 DEF Rank
<1>11. QED
  BY <1>1, <1>5, <1>10

\* A page that some row comes after is full.
LEMMA FullPage ==
  ASSUME NEW S, NEW created, Dated(S, created), NEW i \in S,
         NEW offset \in Nat, NEW limit \in Nat \ {0}, offset + limit <= Rank(S, created, i)
  PROVE  Cardinality({j \in S : Rank(S, created, j) \in offset .. offset + limit - 1}) = limit
<1> DEFINE positions == offset .. offset + limit - 1
           page      == {j \in S : Rank(S, created, j) \in positions}
           rank      == [j \in page |-> Rank(S, created, j)]
<1>1. rank \in Injection(page, positions)
  <2>1. rank \in [page -> positions]
    OBVIOUS
  <2>2. \A a, b \in page : rank[a] = rank[b] => a = b
    BY RankInjective
  <2>3. QED
    BY <2>1, <2>2 DEF Injection, IsInjective
<1>2. rank \in Surjection(page, positions)
  <2>1. \A k \in positions : \E j \in page : rank[j] = k
    <3> SUFFICES ASSUME NEW k \in positions PROVE \E j \in page : rank[j] = k
      OBVIOUS
    <3>1. Rank(S, created, i) \in Nat
      BY RankType
    <3>2. k \in Nat /\ k <= offset + limit - 1
      OBVIOUS
    <3>3. k <= Rank(S, created, i)
      BY <3>1, <3>2
    <3>4. PICK j \in S : Rank(S, created, j) = k
      BY <3>2, <3>3, SomeRank
    <3>5. QED
      BY <3>4
  <2>2. rank \in [page -> positions]
    OBVIOUS
  <2>3. QED
    BY <2>1, <2>2 DEF Surjection
<1>3. IsFiniteSet(positions) /\ Cardinality(positions) = limit
  <2>1. offset \in Int /\ offset + limit - 1 \in Int
    OBVIOUS
  <2>2. /\ IsFiniteSet(positions)
        /\ Cardinality(positions) = IF offset > offset + limit - 1
                                    THEN 0 ELSE offset + limit - 1 - offset + 1
    BY <2>1, FS_Interval
  <2>3. QED
    BY <2>2
<1>4. Cardinality(page) = Cardinality(positions)
  <2> HIDE DEF positions, page, rank
  <2> QED
    BY <1>1, <1>2, <1>3, FS_Injection
<1>5. QED
  BY <1>3, <1>4

\* A row that joins the others pushes some of them back and none forward.
LEMMA RankGrows ==
  ASSUME NEW S, NEW created, Dated(S, created), NEW T, NEW later, Dated(T, later),
         S \subseteq T, \A j \in S : later[j] = created[j], NEW i \in S
  PROVE  Rank(S, created, i) <= Rank(T, later, i)
<1> DEFINE before == {j \in S : created[j] > created[i]}
           after  == {j \in T : later[j] > later[i]}
<1>1. before \in SUBSET after
  OBVIOUS
<1>2. IsFiniteSet(after)
  BY RankType
<1>3. QED
  <2> HIDE DEF before, after
  <2>1. Cardinality(before) <= Cardinality(after)
    BY <1>1, <1>2, FS_Subset
  <2>2. QED
    BY <2>1 DEF Rank, before, after
\* The instants of the rows differ, as a payment's event is stamped once and
\* inserted once.
StampInv ==
  /\ \A e \in Payments : stamp[e] < clock
  /\ \A e, f \in Payments :
       /\ stage[e] # "paying" /\ stage[f] # "paying"
       /\ stamp[e] = stamp[f]
       => e = f
  /\ \A i \in DOMAIN rows :
       /\ rows[i].created = stamp[rows[i].payment]
       /\ stage[rows[i].payment] \notin {"paying", "recording"}
  /\ \A i, j \in DOMAIN rows : rows[i].payment = rows[j].payment => i = j

Created == [i \in DOMAIN rows |-> rows[i].created]

RankIn(domain, i) == Rank(Filtered(domain), Created, i)

\* However far a walk has come, it has seen the rows it knew of that are now before
\* its offset: rows move back only.
WalkOf(p) ==
  LET w == pager[p] IN
    /\ w.known \subseteq Filtered(w.domain)
    /\ \A i \in w.known : RankIn(w.domain, i) < w.offset => i \in w.seen
    /\ conn[p] # "dead" /\ ~w.on => w.known \subseteq w.seen

WalkInv ==
  /\ TypeOK
  /\ StampInv
  /\ \A p \in Procs : WalkOf(p)

LEMMA RowTyped ==
  ASSUME TypeOK
  PROVE  /\ Len(rows) \in Nat /\ DOMAIN rows = 1 .. Len(rows)
         /\ \A i \in DOMAIN rows : rows[i] \in RowType
BY DEF TypeOK

\* EnrichEvent changes neither what a row is about nor when it was created.
LEMMA EnrichKeeps ==
  ASSUME TypeOK, NEW e \in Payments, EnrichEvent(e)
  PROVE  /\ DOMAIN rows' = DOMAIN rows
         /\ \A i \in DOMAIN rows : /\ rows'[i].payment = rows[i].payment
                                   /\ rows'[i].created = rows[i].created
<1>1. rows \in Seq(RowType) /\ \A i \in DOMAIN rows : rows[i] \in RowType
  BY RowTyped DEF TypeOK
<1>2. CASE rows' = [rows EXCEPT ![eid[e]].response = e]
  BY <1>1, <1>2, UpdateRow DEF RowType
<1>3. QED
  BY <1>2 DEF EnrichEvent

LEMMA FilteredDated ==
  ASSUME TypeOK, StampInv, NEW domain
  PROVE  Dated(Filtered(domain), Created)
<1>1. IsFiniteSet(DOMAIN rows)
  BY RowTyped, FS_Interval
<1>2. Filtered(domain) \in SUBSET (DOMAIN rows)
  BY DEF Filtered
<1>3. IsFiniteSet(Filtered(domain))
  BY <1>1, <1>2, FS_Subset
<1>4. \A i \in Filtered(domain) : Created[i] = rows[i].created /\ rows[i].created \in Nat
  BY <1>2, RowTyped DEF Created, RowType
<1>5. ASSUME NEW i \in Filtered(domain), NEW j \in Filtered(domain), Created[i] = Created[j]
      PROVE  i = j
  <2>1. /\ i \in DOMAIN rows /\ rows[i].payment \in Payments
        /\ j \in DOMAIN rows /\ rows[j].payment \in Payments
    BY <1>2, RowTyped DEF RowType
  <2>2. stamp[rows[i].payment] = stamp[rows[j].payment]
    BY <1>4, <1>5, <2>1 DEF StampInv
  <2>3. stage[rows[i].payment] # "paying" /\ stage[rows[j].payment] # "paying"
    BY <2>1 DEF StampInv
  <2>4. rows[i].payment = rows[j].payment
    BY <2>1, <2>2, <2>3 DEF StampInv
  <2>5. QED
    BY <2>1, <2>4 DEF StampInv
<1>6. QED
  BY <1>3, <1>4, <1>5 DEF Dated

\* The rank is what ListEvents sorts by.
LEMMA PageByRank ==
  ASSUME NEW domain, NEW offset
  PROVE  ListEvents(domain, Limit, offset) =
           {i \in Filtered(domain) : RankIn(domain, i) \in offset .. offset + Limit - 1}
<1>1. ASSUME NEW i \in Filtered(domain)
      PROVE  {j \in Filtered(domain) : Newer(j, i)} =
               {j \in Filtered(domain) : Created[j] > Created[i]}
  BY DEF Filtered, Newer, Created
<1>2. \A i \in Filtered(domain) :
        Cardinality({j \in Filtered(domain) : Newer(j, i)}) = RankIn(domain, i)
  BY <1>1 DEF RankIn, Rank
<1>3. QED
  BY <1>2 DEF ListEvents

LEMMA InitWalk == Init => WalkInv
<1> SUFFICES ASSUME Init PROVE WalkInv
  OBVIOUS
<1>1. TypeOK
  BY InitType
<1>2. StampInv
  BY DEF Init, StampInv
<1>3. \A p \in Procs : pager[p] = NoWalk
  BY DEF Init
<1>4. QED
  BY <1>1, <1>2, <1>3 DEF WalkInv, WalkOf, NoWalk

LEMMA StampNext ==
  ASSUME TypeOK, StampInv, [Next]_vars
  PROVE  StampInv'
<1>1. \A i \in DOMAIN rows : rows[i] \in RowType /\ rows[i].payment \in Payments
  BY RowTyped DEF RowType
<1>2. ASSUME NEW e \in Payments, StampEvent(e)
      PROVE  StampInv'
  BY <1>1, <1>2 DEF StampEvent, Moves, StampInv, TypeOK
<1>3. ASSUME NEW e \in Payments, InsertEvent(e)
      PROVE  StampInv'
  <2>1. stage[e] = "recording" /\ stamp' = stamp /\ clock' = clock
    BY <1>3 DEF InsertEvent
  <2>2. \A f \in Payments : /\ f # e => stage'[f] = stage[f]
                            /\ stage'[e] \in {"storing", "loading", "done"}
    BY <1>3 DEF InsertEvent, Moves, Recorded, TypeOK
  <2>3. CASE rows' = rows
    BY <1>1, <2>1, <2>2, <2>3 DEF StampInv
  <2>4. CASE rows' = Append(rows, Row(e))
    <3>1. /\ DOMAIN rows' = DOMAIN rows \cup {Len(rows) + 1}
          /\ \A i \in DOMAIN rows : rows'[i] = rows[i]
          /\ rows'[Len(rows) + 1] = Row(e)
      BY <2>4 DEF TypeOK
    <3>2. Row(e).payment = e /\ Row(e).created = stamp[e]
      BY DEF Row
    <3>3. \A i \in DOMAIN rows : rows[i].payment # e
      BY <2>1 DEF StampInv
    <3>4. QED
      BY <1>1, <2>1, <2>2, <3>1, <3>2, <3>3 DEF StampInv
  <2>5. QED
    BY <1>3, <2>3, <2>4 DEF InsertEvent
<1>4. ASSUME NEW e \in Payments, EnrichEvent(e)
      PROVE  StampInv'
  <2>1. /\ DOMAIN rows' = DOMAIN rows
        /\ \A i \in DOMAIN rows : /\ rows'[i].payment = rows[i].payment
                                  /\ rows'[i].created = rows[i].created
    BY <1>4, EnrichKeeps
  <2>2. stamp' = stamp /\ clock' = clock
    BY <1>4 DEF EnrichEvent
  <2>3. \A f \in Payments : stage'[f] = stage[f] \/ (f = e /\ stage'[f] = "done")
    BY <1>4 DEF EnrichEvent, Moves, TypeOK
  <2>4. stage[e] = "enriching"
    BY <1>4 DEF EnrichEvent
  <2>5. QED
    BY <1>1, <2>1, <2>2, <2>3, <2>4 DEF StampInv
<1>5. ASSUME NEW e \in Payments, StoreEventID(e) \/ LoadEventID(e) \/ NoResponse(e)
      PROVE  StampInv'
  <2>1. /\ rows' = rows /\ stamp' = stamp /\ clock' = clock
        /\ stage[e] \in {"storing", "loading", "enriching"}
        /\ stage'[e] \in {"loading", "enriching", "done"}
        /\ \A f \in Payments \ {e} : stage'[f] = stage[f]
    BY <1>5 DEF StoreEventID, LoadEventID, NoResponse, Moves, Recorded, TypeOK
  <2>2. QED
    BY <1>1, <2>1 DEF StampInv
<1>6. CASE UNCHANGED eventVars
  BY <1>6 DEF eventVars, StampInv
<1>7. QED
  BY <1>2, <1>3, <1>4, <1>5, <1>6
  DEF Next, vars, OpenSqlite, CreateTable, AddScheme, MigrationRefused,
      OpenFails, StartWalk, NextPage, Crash
RowsDated == \A domain : Dated(Filtered(domain), Created)

LEMMA AlwaysDated == TypeOK /\ StampInv => RowsDated
BY FilteredDated DEF RowsDated

\* Whatever is recorded or enriched meanwhile: a filter lets the same rows through
\* as before, and each of them is where it was or further back.
LEMMA RowsMoveBack ==
  ASSUME TypeOK, StampInv, TypeOK', StampInv', [Next]_vars, NEW domain
  PROVE  /\ Filtered(domain) \subseteq Filtered(domain)'
         /\ \A i \in Filtered(domain) :
              /\ RankIn(domain, i) \in Nat /\ RankIn(domain, i)' \in Nat
              /\ RankIn(domain, i) <= RankIn(domain, i)'
<1>1. /\ DOMAIN rows \subseteq DOMAIN rows'
      /\ \A i \in DOMAIN rows : /\ rows'[i].payment = rows[i].payment
                                /\ rows'[i].created = rows[i].created
  <2>1. ASSUME NEW e \in Payments, InsertEvent(e), rows' # rows
        PROVE  /\ DOMAIN rows \subseteq DOMAIN rows'
               /\ \A i \in DOMAIN rows : rows'[i] = rows[i]
    <3>1. rows' = Append(rows, Row(e))
      BY <2>1 DEF InsertEvent
    <3>2. QED
      BY <3>1 DEF TypeOK
  <2>2. ASSUME NEW e \in Payments, EnrichEvent(e)
        PROVE  /\ DOMAIN rows \subseteq DOMAIN rows'
               /\ \A i \in DOMAIN rows : /\ rows'[i].payment = rows[i].payment
                                         /\ rows'[i].created = rows[i].created
    BY <2>2, EnrichKeeps
  <2>3. CASE rows' = rows
    BY <2>3
  <2>4. QED
    BY <2>1, <2>2, <2>3
    DEF Next, vars, eventVars, OpenSqlite, CreateTable, AddScheme, MigrationRefused,
        OpenFails, StartWalk, NextPage, Crash, StampEvent, StoreEventID, LoadEventID,
        NoResponse
<1>2. Filtered(domain) \subseteq Filtered(domain)'
  BY <1>1 DEF Filtered
<1>3. \A i \in Filtered(domain) : Created'[i] = Created[i]
  BY <1>1 DEF Filtered, Created
<1>4. RowsDated'
  BY AlwaysDated, PTL
<1>5. Dated(Filtered(domain), Created) /\ Dated(Filtered(domain)', Created')
  BY <1>4, FilteredDated DEF RowsDated
<1>6. \A i \in Filtered(domain) :
        /\ Rank(Filtered(domain), Created, i) \in Nat
        /\ Rank(Filtered(domain)', Created', i) \in Nat
        /\ Rank(Filtered(domain), Created, i) <= Rank(Filtered(domain)', Created', i)
  BY <1>2, <1>3, <1>5, RankGrows, RankType
<1>7. QED
  BY <1>2, <1>6 DEF RankIn

LEMMA WalkNext ==
  ASSUME WalkInv, [Next]_vars
  PROVE  WalkInv'
<1>1. TypeOK /\ StampInv /\ TypeOK' /\ StampInv'
  BY NextType, StampNext DEF WalkInv
<1>2. ASSUME NEW p \in Procs, pager'[p] = pager[p], conn'[p] # "dead" => conn[p] # "dead"
      PROVE  WalkOf(p)'
  <2> DEFINE w == pager[p]
  <2>1. PICK d : d = w.domain
    OBVIOUS
  <2>2. /\ w.known \subseteq Filtered(d)
        /\ \A i \in w.known : RankIn(d, i) < w.offset => i \in w.seen
        /\ conn[p] # "dead" /\ ~w.on => w.known \subseteq w.seen
        /\ w.offset \in Nat
    BY <2>1 DEF WalkInv, WalkOf, TypeOK, Walk
  <2>3. /\ Filtered(d) \subseteq Filtered(d)'
        /\ \A i \in Filtered(d) :
             /\ RankIn(d, i) \in Nat /\ RankIn(d, i)' \in Nat
             /\ RankIn(d, i) <= RankIn(d, i)'
    BY <1>1, RowsMoveBack
  <2>4. QED
    BY <1>2, <2>1, <2>2, <2>3 DEF WalkOf
<1>3. ASSUME NEW p \in Procs, StartWalk(p)
      PROVE  WalkOf(p)'
  <2>1. UNCHANGED <<conn, rows>>
    BY <1>3 DEF StartWalk, dbVars, eventVars
  <2>2. PICK domain \in Domains \cup {None} :
          pager' = [pager EXCEPT ![p] = [NoWalk EXCEPT !.on = TRUE, !.domain = domain,
                                                       !.known = Filtered(domain)]]
    BY <1>3 DEF StartWalk
  <2>3. \A i \in Filtered(domain) : RankIn(domain, i)' \in Nat
    BY <1>1, RowsMoveBack
  <2> DEFINE w == pager'[p]
  <2>4. /\ w.on = TRUE /\ w.offset = 0 /\ w.domain = domain
        /\ w.known = Filtered(domain) /\ w.seen = {}
    BY <1>1, <2>2 DEF NoWalk, TypeOK
  <2>5. Filtered(domain)' = Filtered(domain)
    BY <2>1 DEF Filtered
  <2>6. QED
    BY <2>3, <2>4, <2>5 DEF WalkOf
<1>4. ASSUME NEW p \in Procs, NextPage(p)
      PROVE  WalkOf(p)'
  <2>0. PICK d : d = pager[p].domain
    OBVIOUS
  <2> DEFINE w    == pager[p]
             page == ListEvents(d, Limit, w.offset)
             S    == Filtered(d)
  <2>1. UNCHANGED <<conn, rows>> /\ Limit \in Nat \ {0} /\ w.offset \in Nat
    BY <1>1, <1>4, EventLogAssumption DEF NextPage, dbVars, eventVars, TypeOK, Walk
  <2>2. /\ w.known \subseteq S
        /\ \A i \in w.known : RankIn(d, i) < w.offset => i \in w.seen
    BY <2>0 DEF WalkInv, WalkOf
  <2>3. /\ pager'[p].known = w.known /\ pager'[p].domain = d
        /\ pager'[p].offset = w.offset + Limit /\ pager'[p].seen = w.seen \cup page
        /\ pager'[p].on = (Cardinality(page) = Limit)
    BY <1>1, <1>4, <2>0 DEF NextPage, TypeOK, Walk
  <2>4. page = {i \in S : RankIn(d, i) \in w.offset .. w.offset + Limit - 1}
    BY PageByRank
  <2>5. Dated(S, Created)
    BY <1>1, FilteredDated
  <2>6. \A i \in S : RankIn(d, i) \in Nat
    BY <2>5, RankType DEF RankIn
  <2>7. S' = S /\ Created' = Created
    BY <2>1 DEF Filtered, Created
  <2> HIDE DEF page, S, w
  <2>8. \A i \in w.known : RankIn(d, i) < w.offset + Limit => i \in w.seen \cup page
    BY <2>1, <2>2, <2>4, <2>6
  <2>9. ASSUME Cardinality(page) # Limit, NEW i \in w.known
        PROVE  i \in w.seen \cup page
    <3>1. ~(w.offset + Limit <= RankIn(d, i))
      BY <2>1, <2>2, <2>4, <2>5, <2>9, FullPage DEF RankIn, S
    <3>2. QED
      BY <2>1, <2>2, <2>6, <2>8, <3>1
  <2>10. Filtered(d)' = S /\ \A i : RankIn(d, i)' = RankIn(d, i)
    BY <2>7 DEF RankIn, S
  <2>11. QED
    BY <2>2, <2>3, <2>8, <2>9, <2>10 DEF WalkOf
<1>5. ASSUME NEW p \in Procs, Crash(p)
      PROVE  WalkOf(p)'
  <2> DEFINE w == pager[p]
  <2>1. /\ w.known \subseteq Filtered(w.domain)
        /\ \A i \in w.known : RankIn(w.domain, i) < w.offset => i \in w.seen
    BY DEF WalkInv, WalkOf
  <2>2. /\ pager'[p].known = w.known /\ pager'[p].domain = w.domain
        /\ pager'[p].offset = w.offset /\ pager'[p].seen = w.seen
        /\ conn'[p] = "dead" /\ rows' = rows
    BY <1>1, <1>5 DEF Crash, TypeOK, Walk, eventVars
  <2>3. \A d : Filtered(d)' = Filtered(d) /\ \A i : RankIn(d, i)' = RankIn(d, i)
    BY <2>2 DEF RankIn, Filtered, Created
  <2>4. QED
    BY <2>1, <2>2, <2>3 DEF WalkOf
<1>6. ASSUME NEW p \in Procs,
             ~(StartWalk(p) \/ NextPage(p) \/ Crash(p))
      PROVE  pager'[p] = pager[p] /\ (conn'[p] # "dead" => conn[p] # "dead")
  <2>1. ASSUME NEW q \in Procs,
               \/ OpenSqlite(q) \/ CreateTable(q) \/ AddScheme(q) \/ MigrationRefused(q)
        PROVE  pager'[p] = pager[p] /\ (conn'[p] # "dead" => conn[p] # "dead")
    BY <1>1, <2>1
    DEF OpenSqlite, CreateTable, AddScheme, MigrationRefused, OpenFails, TypeOK
  <2>2. ASSUME NEW q \in Procs, q # p, StartWalk(q) \/ NextPage(q) \/ Crash(q)
        PROVE  pager'[p] = pager[p] /\ (conn'[p] # "dead" => conn[p] # "dead")
    BY <1>1, <2>2 DEF StartWalk, NextPage, Crash, TypeOK, dbVars
  <2>3. CASE UNCHANGED <<dbVars, pager>>
    BY <2>3 DEF dbVars
  <2>4. QED
    BY <1>6, <2>1, <2>2, <2>3
    DEF Next, vars, StampEvent, InsertEvent, StoreEventID, LoadEventID, NoResponse,
        EnrichEvent
<1>7. QED
  BY <1>1, <1>2, <1>3, <1>4, <1>5, <1>6 DEF WalkInv

\* A reader that pages to the end has seen every event that was there when it
\* started: events recorded meanwhile, even with an older instant than some that are
\* there, only push rows back, and a page that is not full is the last one.
THEOREM PagingIsComplete == Spec => []PagingMissesNothing
<1>1. WalkInv /\ [Next]_vars => WalkInv'
  BY WalkNext
<1>2. Spec => []WalkInv
  BY InitWalk, <1>1, PTL DEF Spec
<1>3. WalkInv => PagingMissesNothing
  BY DEF WalkInv, WalkOf, PagingMissesNothing
<1>4. QED
  BY <1>2, <1>3, PTL

----
(* The totals.  The sums of FiniteSetsExt are recursive functions on the   *)
(* subsets of a set.  That such a function exists and that it is the only  *)
(* one is proved by induction, for which a set of numbers or of subsets    *)
(* stands, and then what it gives for disjoint sets and for groups.        *)

\* A set of numbers that holds 0, and with a number the next one, holds them all.
LEMMA SetInduction ==
  ASSUME NEW S \in SUBSET Nat, 0 \in S, \A n \in S : n + 1 \in S
  PROVE  S = Nat
<1> DEFINE T == Nat \ S
<1>1. SUFFICES ASSUME T # {} PROVE FALSE
  OBVIOUS
<1> DEFINE R == OpToRel(<, Nat)
<1>2. IsWellFoundedOn(R, Nat)
  BY NatLessThanWellFounded
<1>3. \A x, y \in Nat : x < y => <<x, y>> \in R
  BY DEF OpToRel
<1>4. PICK x \in T : \A y \in T : ~ (<<y, x>> \in R)
  <2>1. T \subseteq Nat
    OBVIOUS
  <2> HIDE DEF T, R
  <2> QED
    BY <1>1, <1>2, <2>1, WFMin
<1>5. x \in Nat /\ x # 0
  BY <1>4
<1>6. x - 1 \in Nat /\ <<x - 1, x>> \in R
  BY <1>3, <1>5 DEF OpToRel
<1>7. x - 1 \in S
  <2> HIDE DEF R
  <2> QED
    BY <1>4, <1>6
<1>8. (x - 1) + 1 = x
  BY <1>5
<1>9. x \in S
  BY <1>7, <1>8
<1> QED
  BY <1>4, <1>9

\* A set of finite sets that holds the empty set, and with a set every larger one.
LEMMA SubsetInduction ==
  ASSUME NEW S, IsFiniteSet(S), NEW P \in SUBSET (SUBSET S), {} \in P,
         \A T \in P : \A x \in S \ T : T \cup {x} \in P
  PROVE  P = SUBSET S
<1> DEFINE Sized == {n \in Nat : \A T \in SUBSET S : Cardinality(T) = n => T \in P}
<1>1. \A T \in SUBSET S : IsFiniteSet(T) /\ Cardinality(T) \in Nat
  BY FS_Subset, FS_CardinalityType
<1>2. 0 \in Sized
  BY <1>1, FS_EmptySet
<1>3. ASSUME NEW n \in Sized
      PROVE  n + 1 \in Sized
  <2>1. SUFFICES ASSUME NEW T \in SUBSET S, Cardinality(T) = n + 1
                 PROVE  T \in P
    OBVIOUS
  <2>2. T # {}
    <3>1. n \in Nat /\ Cardinality({}) = 0
      BY FS_EmptySet
    <3>2. Cardinality(T) # 0
      BY <2>1, <3>1
    <3>3. QED
      BY <3>1, <3>2
  <2>3. PICK x \in T : TRUE
    BY <2>2
  <2>4. Cardinality(T \ {x}) = n
    BY <1>1, <2>1, <2>3, FS_RemoveElement
  <2>5. T \ {x} \in P
    BY <2>4
  <2>6. T = (T \ {x}) \cup {x}
    BY <2>3
  <2>7. x \in S \ (T \ {x})
    BY <2>3
  <2>8. QED
    BY <2>5, <2>6, <2>7
<1>4. Sized = Nat
  <2> HIDE DEF Sized
  <2>1. Sized \in SUBSET Nat
    BY DEF Sized
  <2>2. \A n \in Sized : n + 1 \in Sized
    BY <1>3
  <2>3. QED
    BY <1>2, <2>1, <2>2, SetInduction
<1>5. ASSUME NEW T \in SUBSET S
      PROVE  T \in P
  BY <1>1, <1>4
<1>6. QED
  BY <1>5

\* `sum` gives every subset of S the sum of what `f` gives its elements.
Sums(sum, f, S) ==
  /\ sum \in [SUBSET S -> Nat]
  /\ sum[{}] = 0
  /\ \A T \in SUBSET S : \A x \in T : sum[T] = f[x] + sum[T \ {x}]

\* A finite set has sums: those of a set with one more element are made of the old.
LEMMA SumExists ==
  ASSUME NEW S, IsFiniteSet(S), NEW f \in [S -> Nat]
  PROVE  \E sum : Sums(sum, f, S)
<1> DEFINE P == {T \in SUBSET S : \E sum : Sums(sum, f, T)}
<1>1. {} \in P
  <2>1. Sums([T \in SUBSET {} |-> 0], f, {})
    BY DEF Sums
  <2>2. QED
    BY <2>1
<1>2. ASSUME NEW U \in P, NEW e \in S \ U
      PROVE  U \cup {e} \in P
  <2>1. PICK old : Sums(old, f, U)
    OBVIOUS
  <2> DEFINE V   == U \cup {e}
             new == [T \in SUBSET V |-> IF e \in T THEN f[e] + old[T \ {e}] ELSE old[T]]
  <2>2. \A T \in SUBSET V : T \ {e} \in SUBSET U /\ (e \notin T => T \in SUBSET U)
    OBVIOUS
  <2>3. \A T \in SUBSET U : old[T] \in Nat
    BY <2>1 DEF Sums
  <2>4. new \in [SUBSET V -> Nat]
    BY <2>2, <2>3
  <2>5. new[{}] = 0
    BY <2>1 DEF Sums
  <2>6. ASSUME NEW T \in SUBSET V, NEW x \in T
        PROVE  new[T] = f[x] + new[T \ {x}]
    <3>0. T \ {x} \in SUBSET V
      OBVIOUS
    <3>1. CASE x = e
      BY <3>0, <3>1
    <3>2. CASE x # e /\ e \notin T
      BY <2>1, <2>2, <3>0, <3>2 DEF Sums
    <3>3. CASE x # e /\ e \in T
      <4>1. /\ T \ {e} \in SUBSET U /\ x \in T \ {e}
            /\ (T \ {e}) \ {x} = (T \ {x}) \ {e}
        BY <2>2, <3>3
      <4>2. old[T \ {e}] = f[x] + old[(T \ {x}) \ {e}]
        BY <2>1, <4>1 DEF Sums
      <4>3. new[T] = f[e] + old[T \ {e}] /\ new[T \ {x}] = f[e] + old[(T \ {x}) \ {e}]
        BY <3>0, <3>3
      <4>4. f[e] \in Nat /\ f[x] \in Nat /\ old[(T \ {x}) \ {e}] \in Nat
        BY <2>2, <2>3, <3>0
      <4>5. QED
        BY <4>2, <4>3, <4>4
    <3>4. QED
      BY <3>1, <3>2, <3>3
  <2> HIDE DEF new
  <2>7. Sums(new, f, V)
    BY <2>4, <2>5, <2>6 DEF Sums
  <2>8. QED
    BY <2>7
<1>3. P = SUBSET S
  <2> HIDE DEF P
  <2>1. P \in SUBSET (SUBSET S)
    BY DEF P
  <2>2. \A T \in P : \A x \in S \ T : T \cup {x} \in P
    BY <1>2
  <2>3. QED
    BY <1>1, <2>1, <2>2, SubsetInduction
<1>4. S \in P
  BY <1>3
<1>5. QED
  BY <1>4

\* How MapThenSumSet goes through a set: `it` is what its recursion defines.
Goes(it, f, S) ==
  it = [s \in SUBSET S |->
          IF s = {} THEN 0
          ELSE f[CHOOSE x \in s : TRUE] + it[s \ {CHOOSE x \in s : TRUE}]]

\* The order does not matter: any way to take the elements out gives the sum.
LEMMA SumGoes ==
  ASSUME NEW S, NEW f, NEW sum, Sums(sum, f, S)
  PROVE  Goes(sum, f, S)
<1>1. ASSUME NEW s \in SUBSET S
      PROVE  sum[s] = IF s = {} THEN 0
                      ELSE f[CHOOSE x \in s : TRUE] + sum[s \ {CHOOSE x \in s : TRUE}]
  <2>1. CASE s = {}
    BY <2>1 DEF Sums
  <2>2. CASE s # {}
    <3>1. (CHOOSE x \in s : TRUE) \in s
      BY <2>2
    <3>2. QED
      BY <2>2, <3>1 DEF Sums
  <2>3. QED
    BY <2>1, <2>2
<1>2. sum = [s \in SUBSET S |-> sum[s]]
  BY DEF Sums
<1>3. QED
  BY <1>1, <1>2 DEF Goes

\* There is one sum.
LEMMA SumUnique ==
  ASSUME NEW S, IsFiniteSet(S), NEW f, NEW sum, Sums(sum, f, S), NEW it, Goes(it, f, S)
  PROVE  it = sum
<1> DEFINE P == {n \in Nat : \A T \in SUBSET S : Cardinality(T) = n => it[T] = sum[T]}
<1>1. \A T \in SUBSET S : IsFiniteSet(T) /\ Cardinality(T) \in Nat
  BY FS_Subset, FS_CardinalityType
<1>2. \A T \in SUBSET S :
        it[T] = IF T = {} THEN 0
                ELSE f[CHOOSE x \in T : TRUE] + it[T \ {CHOOSE x \in T : TRUE}]
  BY DEF Goes
<1>3. 0 \in P
  <2>1. it[{}] = sum[{}]
    BY <1>2 DEF Sums
  <2>2. \A T \in SUBSET S : Cardinality(T) = 0 => T = {}
    BY <1>1, FS_EmptySet
  <2>3. QED
    BY <2>1, <2>2
<1>4. ASSUME NEW n \in P
      PROVE  n + 1 \in P
  <2>1. SUFFICES ASSUME NEW T \in SUBSET S, Cardinality(T) = n + 1
                 PROVE  it[T] = sum[T]
    OBVIOUS
  <2> DEFINE x == CHOOSE e \in T : TRUE
  <2>2. T # {}
    <3>1. n \in Nat /\ Cardinality({}) = 0
      BY FS_EmptySet
    <3>2. Cardinality(T) # 0
      BY <2>1, <3>1
    <3>3. QED
      BY <3>1, <3>2
  <2>3. x \in T
    BY <2>2
  <2>4. it[T] = f[x] + it[T \ {x}]
    BY <1>2, <2>2
  <2> HIDE DEF x
  <2>5. Cardinality(T \ {x}) = n
    <3>1. n \in Nat /\ IsFiniteSet(T)
      BY <1>1
    <3>2. QED
      BY <2>1, <2>3, <3>1, FS_RemoveElement
  <2>6. it[T \ {x}] = sum[T \ {x}]
    BY <2>5
  <2>7. QED
    BY <2>3, <2>4, <2>6 DEF Sums
<1>5. P = Nat
  <2> HIDE DEF P
  <2>1. P \in SUBSET Nat
    BY DEF P
  <2>2. \A n \in P : n + 1 \in P
    BY <1>4
  <2>3. QED
    BY <1>3, <2>1, <2>2, SetInduction
<1>6. \A T \in SUBSET S : it[T] = sum[T]
  BY <1>1, <1>5
<1>7. it = [T \in SUBSET S |-> it[T]] /\ sum = [T \in SUBSET S |-> sum[T]]
  BY DEF Goes, Sums
<1>8. QED
  BY <1>6, <1>7

\* What is defined by the recursion is the sum.
LEMMA SumDefined ==
  ASSUME NEW S, IsFiniteSet(S), NEW f, NEW sum, Sums(sum, f, S)
  PROVE  (CHOOSE it : Goes(it, f, S)) = sum
<1>1. Goes(CHOOSE it : Goes(it, f, S), f, S)
  BY SumGoes
<1>2. QED
  BY <1>1, SumUnique

\* The sums of a set are also those of its subsets.
LEMMA SumRestricts ==
  ASSUME NEW S, NEW f, NEW sum, Sums(sum, f, S), NEW T \in SUBSET S
  PROVE  Sums([U \in SUBSET T |-> sum[U]], f, T)
<1>1. \A U \in SUBSET T : U \in SUBSET S /\ sum[U] \in Nat
  BY DEF Sums
<1>2. \A U \in SUBSET T : \A x \in U : U \ {x} \in SUBSET T
  OBVIOUS
<1>3. QED
  BY <1>1, <1>2 DEF Sums

\* Counting is summing ones.
LEMMA CountSums ==
  ASSUME NEW S, IsFiniteSet(S)
  PROVE  Sums([T \in SUBSET S |-> Cardinality(T)], [x \in S |-> 1], S)
<1>1. ASSUME NEW T \in SUBSET S
      PROVE  /\ Cardinality(T) \in Nat
             /\ \A x \in T : Cardinality(T) = 1 + Cardinality(T \ {x})
  <2>1. IsFiniteSet(T) /\ Cardinality(T) \in Nat
    BY FS_Subset, FS_CardinalityType
  <2>2. ASSUME NEW x \in T
        PROVE  Cardinality(T) = 1 + Cardinality(T \ {x})
    <3>1. Cardinality(T \ {x}) = Cardinality(T) - 1
      BY <2>1, FS_RemoveElement
    <3>2. QED
      BY <2>1, <3>1
  <2>3. QED
    BY <2>1, <2>2
<1>2. Cardinality({}) = 0
  BY FS_EmptySet
<1>3. \A T \in SUBSET S : \A x \in T : x \in S /\ T \ {x} \in SUBSET S
  OBVIOUS
<1>4. QED
  BY <1>1, <1>2, <1>3 DEF Sums

\* The sum over two disjoint sets is that of their sums.
LEMMA SumDisjoint ==
  ASSUME NEW S, IsFiniteSet(S), NEW f \in [S -> Nat], NEW sum, Sums(sum, f, S),
         NEW A \in SUBSET S, NEW B \in SUBSET S, A \cap B = {}
  PROVE  sum[A \cup B] = sum[A] + sum[B]
<1> DEFINE P == {T \in SUBSET B : sum[A \cup T] = sum[A] + sum[T]}
<1>1. \A T \in SUBSET S : sum[T] \in Nat
  BY DEF Sums
<1>2. {} \in P
  <2>1. A \cup {} = A
    OBVIOUS
  <2>2. QED
    BY <1>1, <2>1 DEF Sums
<1>3. ASSUME NEW T \in P, NEW x \in B \ T
      PROVE  T \cup {x} \in P
  <2>1. /\ T \cup {x} \in SUBSET S /\ A \cup (T \cup {x}) \in SUBSET S
        /\ A \cup T \in SUBSET S /\ T \in SUBSET S
        /\ (T \cup {x}) \ {x} = T /\ (A \cup (T \cup {x})) \ {x} = A \cup T
    OBVIOUS
  <2>2. \A U \in SUBSET S : \A y \in U : sum[U] = f[y] + sum[U \ {y}]
    BY DEF Sums
  <2>3. /\ sum[T \cup {x}] = f[x] + sum[(T \cup {x}) \ {x}]
        /\ sum[A \cup (T \cup {x})] = f[x] + sum[(A \cup (T \cup {x})) \ {x}]
    <3>1. x \in T \cup {x} /\ x \in A \cup (T \cup {x})
      OBVIOUS
    <3> HIDE DEF P
    <3>2. QED
      BY <2>1, <2>2, <3>1
  <2>4. f[x] \in Nat /\ sum[A] \in Nat /\ sum[T] \in Nat
    BY <1>1, <2>1
  <2>5. sum[A \cup (T \cup {x})] = sum[A] + sum[T \cup {x}]
    BY <2>1, <2>3, <2>4
  <2>6. QED
    BY <2>5
<1>4. P = SUBSET B
  <2> HIDE DEF P
  <2>1. P \in SUBSET (SUBSET B)
    BY DEF P
  <2>2. \A T \in P : \A x \in B \ T : T \cup {x} \in P
    BY <1>3
  <2>3. IsFiniteSet(B)
    BY FS_Subset
  <2>4. QED
    BY <1>2, <2>1, <2>2, <2>3, SubsetInduction
<1>5. B \in P
  BY <1>4
<1>6. QED
  BY <1>5

\* A table with one line for each group of S: `key` says which group an element is
\* in, `group` which elements a group has, and `entry` which line is the group's.
Grouped(S, K, key, group, G, entry) ==
  /\ key \in [S -> K]
  /\ group \in [K -> SUBSET S]
  /\ \A d \in K : \A i \in S : i \in group[d] <=> key[i] = d
  /\ entry \in [K -> G]
  /\ \A c, d \in K : entry[c] = entry[d] => c = d
  /\ \A g \in G : \E d \in K : g = entry[d]

\* The lines of such a table, each with the sum of its group, sum up to the sum of all.
LEMMA SumOfGroups ==
  ASSUME NEW S, IsFiniteSet(S), NEW K, IsFiniteSet(K),
         NEW key, NEW group, NEW G, NEW entry, Grouped(S, K, key, group, G, entry),
         NEW f \in [S -> Nat], NEW sum, Sums(sum, f, S),
         NEW val, NEW total, Sums(total, val, G),
         \A d \in K : val[entry[d]] = sum[group[d]]
  PROVE  total[G] = sum[S]
<1> USE DEF Grouped
<1> DEFINE Lines(D)   == {entry[d] : d \in D}
           Members(D) == {i \in S : key[i] \in D}
           P == {D \in SUBSET K : total[Lines(D)] = sum[Members(D)]}
<1>1. {} \in P
  <2>1. Lines({}) = {} /\ Members({}) = {}
    OBVIOUS
  <2>2. QED
    BY <2>1 DEF Sums
<1>2. ASSUME NEW D \in P, NEW d \in K \ D
      PROVE  D \cup {d} \in P
  <2> DEFINE Mine == group[d]
  <2>1. /\ Lines(D \cup {d}) \in SUBSET G
        /\ entry[d] \in Lines(D \cup {d})
        /\ Lines(D \cup {d}) \ {entry[d]} = Lines(D)
    OBVIOUS
  <2>2. total[Lines(D \cup {d})] = val[entry[d]] + total[Lines(D)]
    <3>1. \A U \in SUBSET G : \A g \in U : total[U] = val[g] + total[U \ {g}]
      BY DEF Sums
    <3> DEFINE U == Lines(D \cup {d})
    <3>2. U \in SUBSET G /\ entry[d] \in U /\ U \ {entry[d]} = Lines(D)
      BY <2>1
    <3> HIDE DEF U
    <3>3. total[U] = val[entry[d]] + total[U \ {entry[d]}]
      BY <3>1, <3>2
    <3>4. QED
      BY <3>2, <3>3 DEF U
  <2>3. /\ Members(D \cup {d}) = Members(D) \cup Mine
        /\ Members(D) \cap Mine = {}
        /\ Members(D) \in SUBSET S /\ Mine \in SUBSET S
    OBVIOUS
  <2>4. sum[Members(D \cup {d})] = sum[Members(D)] + sum[Mine]
    <3> DEFINE A == Members(D)
    <3>1. /\ A \in SUBSET S /\ Mine \in SUBSET S /\ A \cap Mine = {}
          /\ Members(D \cup {d}) = A \cup Mine
      BY <2>3
    <3> HIDE DEF A, Mine, P
    <3>2. sum[A \cup Mine] = sum[A] + sum[Mine]
      BY <3>1, SumDisjoint
    <3>3. QED
      BY <3>1, <3>2 DEF A
  <2>5. sum[Members(D)] \in Nat /\ sum[Mine] \in Nat
    BY <2>3 DEF Sums
  <2>6. total[Lines(D)] = sum[Members(D)] /\ val[entry[d]] = sum[Mine]
    OBVIOUS
  <2>7. total[Lines(D \cup {d})] = sum[Members(D \cup {d})]
    <3> HIDE DEF Lines, Members, Mine
    <3>1. QED
      BY <2>2, <2>4, <2>5, <2>6
  <2>8. QED
    BY <2>7
<1>3. P = SUBSET K
  <2> HIDE DEF P
  <2>1. P \in SUBSET (SUBSET K)
    BY DEF P
  <2>2. \A D \in P : \A d \in K \ D : D \cup {d} \in P
    BY <1>2
  <2>3. QED
    BY <1>1, <2>1, <2>2, SubsetInduction
<1>4. K \in P
  BY <1>3
<1>5. Lines(K) = G /\ Members(K) = S
  OBVIOUS
<1>6. QED
  BY <1>4, <1>5

\* Spent sums the amounts of the rows it is given.
LEMMA SpentSums ==
  ASSUME NEW S, IsFiniteSet(S), NEW f, \A i \in S : f[i] = Amount[rows[i].payment],
         NEW sum, Sums(sum, f, S), NEW T \in SUBSET S
  PROVE  Spent(T) = sum[T]
<1> DEFINE Of(it) == it = [s \in SUBSET T |->
                       IF s = {} THEN 0
                       ELSE Amount[rows[CHOOSE x \in s : TRUE].payment]
                              + it[s \ {CHOOSE x \in s : TRUE}]]
           part == [U \in SUBSET T |-> sum[U]]
           it0  == CHOOSE it : Of(it)
<1>1. Spent(T) = it0[T]
  BY DEF Spent, MapThenSumSet, MapThenFoldSet
<1>2. Sums(part, f, T) /\ IsFiniteSet(T)
  <2>1. Sums([U \in SUBSET T |-> sum[U]], f, T)
    BY SumRestricts
  <2>2. QED
    BY <2>1, FS_Subset
<1>3. ASSUME NEW it
      PROVE  Of(it) <=> Goes(it, f, T)
  <2>1. \A s \in SUBSET T : s # {} => (CHOOSE x \in s : TRUE) \in S
    OBVIOUS
  <2>2. \A s \in SUBSET T :
          (IF s = {} THEN 0
           ELSE Amount[rows[CHOOSE x \in s : TRUE].payment]
                  + it[s \ {CHOOSE x \in s : TRUE}])
          = (IF s = {} THEN 0
             ELSE f[CHOOSE x \in s : TRUE] + it[s \ {CHOOSE x \in s : TRUE}])
    BY <2>1
  <2>3. QED
    BY <2>2 DEF Goes
<1>4. Goes(part, f, T)
  <2> HIDE DEF part
  <2>1. QED
    BY <1>2, SumGoes
<1> HIDE DEF Of, part
<1>5. Of(it0)
  BY <1>3, <1>4
<1> HIDE DEF it0
<1>6. it0 = part
  BY <1>2, <1>3, <1>5, SumUnique
<1>7. QED
  BY <1>1, <1>6 DEF part

\* The sums over the lines of the table of domains.
LEMMA TotalSums ==
  ASSUME NEW G, IsFiniteSet(G), NEW total, Sums(total, [g \in G |-> g.total], G)
  PROVE  MapThenSumSet(LAMBDA g : g.total, G) = total[G]
<1> DEFINE Of(it) == it = [s \in SUBSET G |->
                       IF s = {} THEN 0
                       ELSE (CHOOSE x \in s : TRUE).total
                              + it[s \ {CHOOSE x \in s : TRUE}]]
           val == [g \in G |-> g.total]
           it0 == CHOOSE it : Of(it)
<1>1. MapThenSumSet(LAMBDA g : g.total, G) = it0[G]
  BY DEF MapThenSumSet, MapThenFoldSet
<1>2. ASSUME NEW it
      PROVE  Of(it) <=> Goes(it, val, G)
  <2>1. \A s \in SUBSET G : s # {} => (CHOOSE x \in s : TRUE) \in G
    OBVIOUS
  <2>2. \A s \in SUBSET G :
          (IF s = {} THEN 0
           ELSE (CHOOSE x \in s : TRUE).total + it[s \ {CHOOSE x \in s : TRUE}])
          = (IF s = {} THEN 0
             ELSE val[CHOOSE x \in s : TRUE] + it[s \ {CHOOSE x \in s : TRUE}])
    BY <2>1
  <2>3. QED
    BY <2>2 DEF Goes
<1> HIDE DEF Of, val
<1>3. Sums(total, val, G)
  BY DEF val
<1>4. Goes(total, val, G)
  BY <1>3, SumGoes
<1>5. Of(it0)
  BY <1>2, <1>4
<1> HIDE DEF it0
<1>6. it0 = total
  BY <1>2, <1>3, <1>5, SumUnique
<1>7. QED
  BY <1>1, <1>6

LEMMA PaymentSums ==
  ASSUME NEW G, IsFiniteSet(G), NEW total, Sums(total, [g \in G |-> g.payments], G)
  PROVE  MapThenSumSet(LAMBDA g : g.payments, G) = total[G]
<1> DEFINE Of(it) == it = [s \in SUBSET G |->
                       IF s = {} THEN 0
                       ELSE (CHOOSE x \in s : TRUE).payments
                              + it[s \ {CHOOSE x \in s : TRUE}]]
           val == [g \in G |-> g.payments]
           it0 == CHOOSE it : Of(it)
<1>1. MapThenSumSet(LAMBDA g : g.payments, G) = it0[G]
  BY DEF MapThenSumSet, MapThenFoldSet
<1>2. ASSUME NEW it
      PROVE  Of(it) <=> Goes(it, val, G)
  <2>1. \A s \in SUBSET G : s # {} => (CHOOSE x \in s : TRUE) \in G
    OBVIOUS
  <2>2. \A s \in SUBSET G :
          (IF s = {} THEN 0
           ELSE (CHOOSE x \in s : TRUE).payments + it[s \ {CHOOSE x \in s : TRUE}])
          = (IF s = {} THEN 0
             ELSE val[CHOOSE x \in s : TRUE] + it[s \ {CHOOSE x \in s : TRUE}])
    BY <2>1
  <2>3. QED
    BY <2>2 DEF Goes
<1> HIDE DEF Of, val
<1>3. Sums(total, val, G)
  BY DEF val
<1>4. Goes(total, val, G)
  BY <1>3, SumGoes
<1>5. Of(it0)
  BY <1>2, <1>4
<1> HIDE DEF it0
<1>6. it0 = total
  BY <1>2, <1>3, <1>5, SumUnique
<1>7. QED
  BY <1>1, <1>6

\* Each domain with a success is one line of the table, and its rows are one group.
LEMMA TotalsFollow == TypeOK => TotalsAgree
<1> SUFFICES ASSUME TypeOK PROVE TotalsAgree
  OBVIOUS
<1> DEFINE N      == DOMAIN rows
           S      == Successes
           key    == [i \in S |-> DomainOf[rows[i].payment]]
           K      == {DomainOf[rows[i].payment] : i \in S}
           Of(d)  == {i \in S : DomainOf[rows[i].payment] = d}
           Line(d) == [domain |-> d, total |-> Spent(Of(d)), payments |-> Cardinality(Of(d))]
           entry  == [d \in K |-> Line(d)]
           group  == [d \in K |-> Of(d)]
           G      == GetSpendingByDomain
           f      == [i \in S |-> Amount[rows[i].payment]]
<1>1. /\ N = 1 .. Len(rows) /\ Len(rows) \in Nat
      /\ \A i \in N : rows[i].payment \in Payments
  <2>1. rows \in Seq(RowType)
    BY DEF TypeOK
  <2>2. N = 1 .. Len(rows) /\ Len(rows) \in Nat /\ \A i \in N : rows[i] \in RowType
    BY <2>1
  <2>3. QED
    BY <2>2 DEF RowType
<1>2. IsFiniteSet(N) /\ Cardinality(N) = Len(rows)
  BY <1>1, FS_Interval
<1>3. S \in SUBSET N /\ IsFiniteSet(S)
  <2>1. S \in SUBSET N
    BY DEF Successes
  <2>2. QED
    BY <1>2, <2>1, FS_Subset
<1>4. f \in [S -> Nat]
  BY <1>1, <1>3, EventLogAssumption
<1>5. /\ key \in [S -> K] /\ IsFiniteSet(K)
  <2>1. key \in Surjection(S, K)
    BY DEF Surjection
  <2>2. QED
    BY <1>3, <2>1, FS_Surjection DEF Surjection
<1>6. /\ entry \in [K -> G]
      /\ \A c, d \in K : entry[c] = entry[d] => c = d
      /\ \A g \in G : \E d \in K : g = entry[d]
  <2>1. G = {Line(d) : d \in K}
    BY DEF GetSpendingByDomain
  <2>2. \A d \in K : Line(d).domain = d
    OBVIOUS
  <2> HIDE DEF Line, G, K
  <2>3. QED
    BY <2>1, <2>2
<1>7. IsFiniteSet(G) /\ Cardinality(G) = Cardinality(K)
  <2> HIDE DEF entry, G, K
  <2>1. entry \in Bijection(K, G)
    BY <1>6 DEF Bijection, Injection, Surjection, IsInjective
  <2>2. ExistsBijection(K, G)
    BY <2>1 DEF ExistsBijection
  <2>3. QED
    BY <1>5, <2>2, FS_Bijection
<1>8. PICK sum : Sums(sum, f, S)
  BY <1>3, <1>4, SumExists
<1>9. \A T \in SUBSET S : Spent(T) = sum[T]
  <2>1. \A i \in S : f[i] = Amount[rows[i].payment]
    OBVIOUS
  <2> HIDE DEF S, f
  <2>2. QED
    BY <1>3, <1>8, <2>1, SpentSums
<1>10. /\ group \in [K -> SUBSET S]
       /\ \A d \in K : \A i \in S : i \in group[d] <=> key[i] = d
       /\ \A d \in K : /\ entry[d].total = Spent(group[d])
                      /\ entry[d].payments = Cardinality(group[d])
  OBVIOUS
<1> HIDE DEF entry, key, group, S, K, G
<1>11. Grouped(S, K, key, group, G, entry)
  BY <1>5, <1>6, <1>10 DEF Grouped
<1>12. GetStats.totalSpent = MapThenSumSet(LAMBDA g : g.total, G)
  <2> DEFINE val == [g \in G |-> g.total]
  <2> HIDE DEF f
  <2>1. \A d \in K : val[entry[d]] = sum[group[d]]
    BY <1>6, <1>9, <1>10
  <2>2. val \in [G -> Nat]
    <3>1. \A d \in K : sum[group[d]] \in Nat
      BY <1>8, <1>10 DEF Sums
    <3>2. \A g \in G : g.total \in Nat
      BY <1>6, <1>9, <1>10, <3>1
    <3>3. QED
      BY <3>2
  <2> HIDE DEF val
  <2>3. PICK total : Sums(total, val, G)
    BY <1>7, <2>2, SumExists
  <2>4. total[G] = sum[S]
    BY <1>3, <1>4, <1>5, <1>8, <1>11, <2>1, <2>3, SumOfGroups
  <2>5. MapThenSumSet(LAMBDA g : g.total, G) = total[G]
    BY <1>7, <2>3, TotalSums DEF val
  <2>6. GetStats.totalSpent = sum[S]
    BY <1>9 DEF GetStats, S
  <2>7. QED
    BY <2>4, <2>5, <2>6
<1>13. GetStats.totalPayments = MapThenSumSet(LAMBDA g : g.payments, G)
  <2> DEFINE val   == [g \in G |-> g.payments]
             one   == [i \in S |-> 1]
             count == [T \in SUBSET S |-> Cardinality(T)]
  <2>1. \A d \in K : val[entry[d]] = count[group[d]]
    BY <1>6, <1>10
  <2>2. Sums(count, one, S) /\ one \in [S -> Nat]
    <3>1. Sums([T \in SUBSET S |-> Cardinality(T)], [i \in S |-> 1], S)
      BY <1>3, CountSums
    <3>2. QED
      BY <3>1
  <2>3. val \in [G -> Nat]
    <3>1. \A d \in K : count[group[d]] \in Nat
      BY <2>2, <1>10 DEF Sums
    <3>2. \A g \in G : val[g] \in Nat
      <4> HIDE DEF val, count
      <4>1. QED
        BY <1>6, <2>1, <3>1
    <3>3. QED
      BY <3>2
  <2>4. GetStats.totalPayments = count[S]
    BY DEF GetStats, S
  <2> HIDE DEF val, one, count
  <2>5. PICK total : Sums(total, val, G)
    BY <1>7, <2>3, SumExists
  <2>6. total[G] = count[S]
    BY <1>3, <1>5, <1>11, <2>1, <2>2, <2>5, SumOfGroups
  <2>7. MapThenSumSet(LAMBDA g : g.payments, G) = total[G]
    BY <1>7, <2>5, PaymentSums DEF val
  <2>8. QED
    BY <2>4, <2>6, <2>7
<1>14. GetStats.domainsAccessed = Cardinality(G)
  BY <1>7 DEF GetStats, K, S
<1>15. GetStats.totalPayments + GetStats.failedPayments = Len(rows)
  <2> DEFINE F == {i \in N : Status(i) = "failed"}
  <2>1. S \cup F = N /\ S \cap F = {} /\ F \in SUBSET N
    BY DEF S, Successes, Status
  <2>2. IsFiniteSet(F)
    BY <1>2, <2>1, FS_Subset
  <2>3. GetStats.totalPayments = Cardinality(S) /\ GetStats.failedPayments = Cardinality(F)
    BY DEF GetStats, S
  <2> HIDE DEF F
  <2>4. Cardinality(S) + Cardinality(F) = Cardinality(N)
    <3>1. Cardinality(S \cap F) = 0
      BY <2>1, FS_EmptySet
    <3>2. Cardinality(S) \in Nat /\ Cardinality(F) \in Nat
      BY <1>3, <2>2, FS_CardinalityType
    <3>3. Cardinality(S \cup F) = Cardinality(S) + Cardinality(F) - Cardinality(S \cap F)
      BY <1>3, <2>2, FS_Union
    <3>4. QED
      BY <2>1, <3>1, <3>2, <3>3
  <2>5. QED
    BY <1>2, <2>3, <2>4
<1>16. QED
  BY <1>12, <1>13, <1>14, <1>15 DEF TotalsAgree, G

\* The totals of the dashboard's header are the sums over its table of domains, in
\* spite of their different conditions: whatever is recorded, by any processes.
THEOREM TotalsAlwaysAgree == Spec => []TotalsAgree
BY TypeCorrect, TotalsFollow, PTL
====
