---- MODULE CommandsProofs ----
(***************************************************************************)
(* Theorems about Commands: what holds of the sessions and of the          *)
(* downloads by themselves holds of any number of terminals running any    *)
(* commands, and what their exit codes are worth.                          *)
(***************************************************************************)
EXTENDS Commands, DownloadsProofs, LNCSessionsProofs

\* Where each terminal is: at a command of its scenario, unless it is idle.
Placed ==
  /\ program \in Programs
  /\ at \in [Terminals -> Nat \ {0}]
  /\ pc \in [Terminals -> Stages]
  /\ \A p \in Terminals : pc[p] # "idle" => at[p] <= Len(program[p])

----
\* A command that is run is well-formed.
LEMMA CmdWellFormed ==
  ASSUME Placed, NEW p \in Terminals, at[p] <= Len(program[p])
  PROVE  WellFormed(Cmd(p))
<1>1. at[p] \in Nat \ {0} /\ Len(program[p]) \in Nat
  BY CommandsAssumption DEF Placed
<1>2. at[p] \in 1..Len(program[p])
  BY <1>1
<1>3. QED
  BY <1>2, CommandsAssumption DEF Placed, Cmd

\* The settings of a command name sessions where the code expects them.
LEMMA SessionSettings ==
  ASSUME NEW c, WellFormed(c), NEW s \in {"session_id", "phrase"}
  PROVE  Setting(Settings(c), s) \in Sessions \cup {None}
<1>1. Setting(c.file, s) \in Sessions \cup {None} /\ Setting(c.env, s) \in Sessions \cup {None}
  BY DEF WellFormed
<1>2. s \notin DOMAIN Defaults
  BY DEF Defaults
<1>3. Setting(LoadConfig(c), s) \in Sessions \cup {None}
  BY <1>1, <1>2 DEF Setting, LoadConfig
<1>4. ASSUME NEW settings
      PROVE  Setting(Override(c, settings), s) = Setting(settings, s)
  BY DEF Setting, Override
<1>5. QED
  BY <1>3, <1>4 DEF Settings

LEMMA PhraseType ==
  ASSUME NEW c, WellFormed(c)
  PROVE  Phrase(c) \in Sessions \cup {None}
BY DEF Phrase, WellFormed

\* The ways in which a step may move a terminal on.
LEMMA MovePlaced ==
  ASSUME Placed, NEW p \in Terminals, NEW stage \in Stages, Goto(p, stage),
         program' = program, at' = at, at[p] <= Len(program[p])
  PROVE  Placed'
BY DEF Placed, Goto, Cmd

LEMMA LeavePlaced ==
  ASSUME Placed, NEW p \in Terminals, NEW code, Leave(p, code)
  PROVE  Placed'
<1>1. Following(p) \in Nat \ {0}
  <2>1. at[p] \in Nat \ {0} /\ Len(program[p]) \in Nat
    BY CommandsAssumption DEF Placed
  <2>2. QED
    BY <2>1 DEF Following
<1>2. at' = [at EXCEPT ![p] = Following(p)] /\ program' = program
  BY DEF Leave
<1>3. pc' = [pc EXCEPT ![p] = "idle"]
  BY DEF Leave, Goto
<1>4. QED
  BY <1>1, <1>2, <1>3 DEF Placed, Stages, Cmd

LEMMA EndPlaced ==
  ASSUME Placed, NEW p \in Terminals, pc[p] # "idle", NEW code, EndRequest(p, code)
  PROVE  Placed'
<1>1. CASE Exit(p, code)
  BY <1>1, LeavePlaced DEF Exit
<1>2. CASE Goto(p, "serving") /\ UNCHANGED <<program, at>>
  BY <1>2, MovePlaced DEF Placed, Stages
<1>3. QED
  BY <1>1, <1>2 DEF EndRequest

LEMMA CallPlaced ==
  ASSUME Placed, NEW p \in Terminals, CallDryRun(p) \/ CallDownload(p)
  PROVE  Placed'
<1>1. at[p] \in Nat \ {0} /\ Len(program[p]) \in Nat
  BY CommandsAssumption DEF Placed
<1>2. /\ at' = [at EXCEPT ![p] = @ + 1] /\ program' = program
      /\ at[p] < Len(program[p])
      /\ pc' = pc \/ pc' = [pc EXCEPT ![p] = "sent"]
      /\ pc[p] = "serving"
  BY DEF CallDryRun, CallDownload, Goto
<1>3. at' \in [Terminals -> Nat \ {0}] /\ at'[p] = at[p] + 1
  BY <1>1, <1>2 DEF Placed
<1>4. pc' \in [Terminals -> Stages] /\ pc'[p] \in {"serving", "sent"}
  BY <1>2 DEF Placed, Stages
<1>5. ASSUME NEW q \in Terminals
      PROVE  pc'[q] # "idle" => at'[q] <= Len(program'[q])
  <2>1. CASE q = p
    BY <1>1, <1>2, <1>3, <1>4, <2>1
  <2>2. CASE q # p
    <3>1. pc'[q] = pc[q] /\ at'[q] = at[q]
      BY <1>2, <2>2 DEF Placed
    <3>2. QED
      BY <1>2, <3>1 DEF Placed, Cmd
  <2>3. QED
    BY <2>1, <2>2
<1>6. QED
  BY <1>2, <1>3, <1>4, <1>5 DEF Placed

LEMMA PlacedInit == Init => Placed
BY DEF Init, Placed, Stages

LEMMA PlacedStep ==
  ASSUME Placed, NEW p \in Terminals, ProcessStep(p) \/ WorldStep(p)
  PROVE  Placed'
<1> USE DEF StayPut, Exit
<1>a. pc[p] # "idle" => at[p] <= Len(program[p])
  BY DEF Placed
<1>1. CASE Refuse(p) \/ Preview(p) \/ RefuseRequest(p) \/ EndListed(p) \/ EndRevoke(p)
           \/ NodeAnswers(p) \/ Shutdown(p) \/ Kill(p)
  BY <1>1, LeavePlaced
  DEF Refuse, Preview, RefuseRequest, EndListed, EndRevoke, NodeAnswers, Shutdown, Kill
<1>2. CASE Begin(p)
  <2>1. at[p] <= Len(program[p]) /\ UNCHANGED <<program, at>>
    BY <1>2 DEF Begin
  <2>2. \E stage \in Stages : Goto(p, stage)
    BY <1>2 DEF Begin, Stages
  <2>3. QED
    BY <2>1, <2>2, MovePlaced
<1>3. CASE StartBackend(p) \/ Receive(p) \/ ReadSession(p) \/ RevokeNext(p) \/ RelayAnswers(p)
           \/ NodeResolves(p)
  BY <1>3
  DEF StartBackend, Receive, ReadSession, RevokeNext, RelayAnswers, NodeResolves, commandVars,
      Placed, Cmd
<1>4. CASE UseBackend(p)
  BY <1>4, <1>a, MovePlaced DEF UseBackend, Started, Stages
<1>5. CASE AskNode(p)
  BY <1>5, <1>a, MovePlaced, LeavePlaced DEF AskNode, Started, Stages
<1>6. CASE SendRequest(p) \/ Answered(p) \/ Rejected(p) \/ PayInvoice(p)
  BY <1>6, <1>a, MovePlaced DEF SendRequest, Answered, Rejected, PayInvoice, Stages
<1>7. CASE RequestFails(p) \/ RefuseToPay(p) \/ PaymentFails(p) \/ Finish(p)
  BY <1>7, EndPlaced DEF RequestFails, RefuseToPay, PaymentFails, Finish
<1>8. CASE StorePaid(p)
  BY <1>8, <1>a, MovePlaced, EndPlaced DEF StorePaid, Stages
<1>9. CASE Listen(p)
  BY <1>9, <1>a, MovePlaced, LeavePlaced DEF Listen, Stages
<1>10. CASE Revoke(p)
  BY <1>10, <1>a, MovePlaced, LeavePlaced DEF Revoke, Stages
<1>11. CASE CallDryRun(p) \/ CallDownload(p)
  BY <1>11, CallPlaced
<1>12. CASE Challenged(p)
  BY <1>12, <1>a, MovePlaced DEF Challenged, Placed, Stages, Cmd
<1>13. QED
  BY <1>1, <1>2, <1>3, <1>4, <1>5, <1>6, <1>7, <1>8, <1>9, <1>10, <1>11, <1>12
  DEF ProcessStep, WorldStep, StartUp, Request, Manage

LEMMA PlacedNext ==
  ASSUME Placed, [Next]_vars
  PROVE  Placed'
<1>1. CASE NewVersion \/ UNCHANGED vars
  BY <1>1 DEF NewVersion, vars, commandVars, Placed, Cmd
<1>2. QED
  BY <1>1, PlacedStep DEF Next, Finished

LEMMA AlwaysPlaced == Spec => []Placed
BY PlacedInit, PlacedNext, PTL DEF Spec

----
(* Every step of a command is a step, or none, of the sessions and of the  *)
(* downloads.                                                              *)

LEMMA LeaveParts ==
  ASSUME NEW p \in Terminals, NEW code, Leave(p, code) \/ EndRequest(p, code)
  PROVE  [SessionsNext]_sessionVars /\ [DownloadsNext]_downloadVars
<1>1. (Hangup(p) /\ Close(p)) \/ (UNCHANGED sessionVars /\ Close(p))
  BY DEF Leave, EndRequest, Exit
<1>2. QED
  BY <1>1 DEF SessionsNext, DownloadsNext

LEMMA BackendParts ==
  ASSUME NEW p \in Terminals, NEW c, WellFormed(c), CreateBackend(p, Settings(c))
  PROVE  SessionsNext
<1> DEFINE settings == Settings(c)
           id       == Setting(settings, "session_id")
           phrase   == Setting(settings, "phrase")
           short    == Setting(settings, "ephemeral") = TRUE
<1>1. id \in Sessions \cup {None} /\ phrase \in Sessions \cup {None} /\ short \in BOOLEAN
  BY SessionSettings
<1>2. \/ \E stage \in {"noop", "connectLND", "failed"} : UseOther(p, stage)
      \/ id # None /\ UseSession(p, id)
      \/ phrase # None /\ UsePhrase(p, phrase, short)
      \/ ListSessions(p)
  BY DEF CreateBackend
<1> HIDE DEF settings, id, phrase, short
<1>3. QED
  BY <1>1, <1>2 DEF SessionsNext

\* `pair` without a phrase is refused before it begins.
LEMMA PairHasPhrase ==
  ASSUME NEW c, c.kind = "pair", Refusal(c) = None
  PROVE  Phrase(c) # None
<1> DEFINE failed == {i \in DOMAIN Checks(c) : Checks(c)[i].fails}
<1> SUFFICES ASSUME Phrase(c) = None
             PROVE  FALSE
  OBVIOUS
<1>0. /\ DOMAIN Checks(c) = 1..6
      /\ Checks(c)[2] = [code |-> 1, fails |-> c.kind = "pair" /\ Phrase(c) = None]
      /\ \A i \in 1..6 : Checks(c)[i].code \in {1, 2}
  BY DEF Checks
<1>1. 2 \in DOMAIN Checks(c) /\ Checks(c)[2].fails
  <2> DEFINE missing == c.kind = "pair" /\ Phrase(c) = None
  <2>1. missing = TRUE
    BY Zenon
  <2>2. Checks(c)[2] = [code |-> 1, fails |-> missing]
    BY <1>0
  <2> HIDE DEF missing
  <2>3. QED
    BY <1>0, <2>1, <2>2
<1>2. failed # {}
  BY <1>1
<1>3. Checks(c)[CHOOSE i \in failed : \A j \in failed : i <= j].code = None
  BY <1>2 DEF Refusal
<1>4. failed \subseteq 1..6
  BY <1>0
<1>5. \E i \in failed : \A j \in failed : i <= j
  BY <1>1, <1>4
<1>6. PICK i \in 1..6 : Checks(c)[i].code = None
  BY <1>3, <1>4, <1>5
<1>7. QED
  BY <1>0, <1>6, CommandsAssumption

LEMMA BeginParts ==
  ASSUME Placed, NEW p \in Terminals, Begin(p)
  PROVE  [SessionsNext]_sessionVars /\ UNCHANGED downloadVars
<1> DEFINE c     == Cmd(p)
           short == "ephemeral" \in c.opts
<1>1. at[p] <= Len(program[p]) /\ Refusal(c) = None /\ UNCHANGED downloadVars
  BY DEF Begin
<1>2. WellFormed(c)
  BY <1>1, CmdWellFormed
<1>3. CASE UNCHANGED sessionVars
  BY <1>1, <1>3
<1>4. CASE CreateBackend(p, Settings(c))
  BY <1>1, <1>2, <1>4, BackendParts
<1>5. CASE c.kind = "pair" /\ UsePhrase(p, Phrase(c), short)
  <2>1. Phrase(c) # None
    BY <1>1, <1>5, PairHasPhrase
  <2>2. Phrase(c) \in Sessions
    BY <1>2, <2>1, PhraseType
  <2>3. short \in BOOLEAN
    OBVIOUS
  <2> HIDE DEF short, c
  <2>4. QED
    BY <1>1, <1>5, <2>2, <2>3 DEF SessionsNext
<1>6. CASE ListSessions(p)
  BY <1>1, <1>6 DEF SessionsNext
<1>7. QED
  BY <1>3, <1>4, <1>5, <1>6 DEF Begin

LEMMA AskParts ==
  ASSUME Placed, NEW p \in Terminals, SendRequest(p) \/ CallDownload(p)
  PROVE  UNCHANGED sessionVars /\ DownloadsNext
<1>1. at[p] \in Nat \ {0} /\ Len(program[p]) \in Nat
  BY CommandsAssumption DEF Placed
<1>2. CASE SendRequest(p)
  <2> DEFINE resume == "resume" \in Cmd(p).opts
  <2>1. WellFormed(Cmd(p))
    BY <1>2, CmdWellFormed DEF Placed, SendRequest
  <2>2. Cmd(p).path \in Paths \cup {None} /\ resume \in BOOLEAN
    BY <2>1 DEF WellFormed
  <2>3. Ask(p, Cmd(p).path, resume) /\ UNCHANGED sessionVars
    BY <1>2 DEF SendRequest
  <2> HIDE DEF resume
  <2>4. QED
    BY <2>2, <2>3 DEF DownloadsNext
<1>3. CASE CallDownload(p)
  <2>1. at[p] + 1 \in 1..Len(program[p])
    BY <1>1, <1>3 DEF CallDownload
  <2>2. WellFormed(NextCall(p))
    BY <2>1, CommandsAssumption DEF Placed, NextCall
  <2>3. NextCall(p).path \in Paths \cup {None}
    BY <2>2 DEF WellFormed
  <2>4. QED
    BY <1>3, <2>3 DEF CallDownload, DownloadsNext
<1>4. QED
  BY <1>2, <1>3

LEMMA StepParts ==
  ASSUME Placed, NEW p \in Terminals, ProcessStep(p) \/ WorldStep(p)
  PROVE  [SessionsNext]_sessionVars /\ [DownloadsNext]_downloadVars
<1>1. CASE Refuse(p) \/ Preview(p) \/ RefuseRequest(p) \/ EndListed(p) \/ EndRevoke(p)
           \/ NodeAnswers(p) \/ Shutdown(p) \/ Kill(p)
  BY <1>1, LeaveParts
  DEF Refuse, Preview, RefuseRequest, EndListed, EndRevoke, NodeAnswers, Shutdown, Kill, Exit
<1>2. CASE Begin(p)
  BY <1>2, BeginParts
<1>3. CASE StartBackend(p) \/ UseBackend(p) \/ RelayAnswers(p) \/ ReadSession(p)
  <2>1. /\ StartStep(p) \/ FallBack(p) \/ RelayStep(p) \/ ReadListed(p)
        /\ UNCHANGED downloadVars
    BY <1>3 DEF StartBackend, UseBackend, RelayAnswers, ReadSession
  <2>2. QED
    BY <2>1 DEF SessionsNext, StartStep
<1>4. CASE RevokeNext(p)
  BY <1>4 DEF RevokeNext, SessionsNext
<1>5. CASE Revoke(p)
  <2>1. WellFormed(Cmd(p))
    BY <1>5, CmdWellFormed DEF Revoke, Placed
  <2>2. Cmd(p).session \in Sessions \cup {None}
    BY <2>1 DEF WellFormed
  <2>3. CASE Cmd(p).session # None /\ RevokeOne(Cmd(p).session) /\ UNCHANGED downloadVars
    BY <2>2, <2>3 DEF SessionsNext
  <2>4. QED
    BY <1>5, <2>3, LeaveParts DEF Revoke, Exit
<1>6. CASE AskNode(p)
  BY <1>6, LeaveParts DEF AskNode, Exit
<1>7. CASE SendRequest(p) \/ CallDownload(p)
  BY <1>7, AskParts
<1>8. CASE Answered(p) \/ Receive(p)
  BY <1>8 DEF Answered, Receive, DownloadsNext
<1>9. CASE RequestFails(p) \/ RefuseToPay(p) \/ PaymentFails(p) \/ Finish(p)
  BY <1>9, LeaveParts DEF RequestFails, RefuseToPay, PaymentFails, Finish
<1>10. CASE Challenged(p) \/ Rejected(p) \/ PayInvoice(p) \/ CallDryRun(p) \/ NodeResolves(p)
  BY <1>10 DEF Challenged, Rejected, PayInvoice, CallDryRun, NodeResolves
<1>11. CASE StorePaid(p)
  BY <1>11, LeaveParts DEF StorePaid
<1>12. CASE Listen(p)
  BY <1>12, LeaveParts DEF Listen, Exit
<1>13. QED
  BY <1>1, <1>2, <1>3, <1>4, <1>5, <1>6, <1>7, <1>8, <1>9, <1>10, <1>11, <1>12
  DEF ProcessStep, WorldStep, StartUp, Request, Manage

LEMMA NextParts ==
  ASSUME Placed, [Next]_vars
  PROVE  [SessionsNext]_sessionVars /\ [DownloadsNext]_downloadVars
<1>1. CASE NewVersion
  BY <1>1 DEF NewVersion, DownloadsNext
<1>2. CASE UNCHANGED vars
  BY <1>2 DEF vars
<1>3. QED
  BY <1>1, <1>2, StepParts DEF Next, Finished

\* Commands, in any terminals and in any order, use the sessions as LNCSessions
\* says they are used: the start-up, the listings and the way out of a process
\* make no other step of the session files and the relay.
THEOREM RefinesSessions == Spec => SessionsSpec
<1>1. Init => SessionsInit
  BY DEF Init
<1>2. Placed /\ [Next]_vars => [SessionsNext]_sessionVars
  BY NextParts
<1>3. QED
  BY <1>1, <1>2, AlwaysPlaced, PTL DEF Spec, SessionsSpec

\* And the output files as Downloads says, so that what a request does is a
\* download, at whatever point its command exits or is killed.
THEOREM RefinesDownloads == Spec => DownloadsSpec
<1>1. Init => DownloadsInit
  BY DEF Init
<1>2. Placed /\ [Next]_vars => [DownloadsNext]_downloadVars
  BY NextParts
<1>3. QED
  BY <1>1, <1>2, AlwaysPlaced, PTL DEF Spec, DownloadsSpec

\* However many commands run, no two write the file of one session at a time.
THEOREM CommandsOneWriter == Spec => []OneWriterPerSession
BY RefinesSessions, OneWriter, PTL

\* Whatever else goes on, a command resumes the newest session it could read.
THEOREM CommandsNewestChosen == Spec => []NewestReadableChosen
BY RefinesSessions, NewestChosen, PTL

\* Output files that no two requests had at once hold their chunks in order.
THEOREM CommandsFilesInOrder == Spec => []FileInOrder
BY RefinesDownloads, FilesInOrder, PTL

\* A download that a command takes for complete is complete.
THEOREM CommandsDoneMeansWhole == Spec => []DoneIsWhole
BY RefinesDownloads, DoneMeansWhole, PTL

----
(* Types, and what the stage of a terminal says of its command.            *)

\* The part of TypeOK that is about the commands alone.
Typed ==
  /\ exit     \in [Terminals -> Codes \cup {None, Killed}]
  /\ report   \in [Terminals ->
       [cached : BOOLEAN, requires_payment : BOOLEAN, within_budget : BOOLEAN]]
  /\ invoice  \in [Terminals -> {"none", "inFlight", "settled", "failed"}]
  /\ token    \in BOOLEAN
  /\ cred     \in [Terminals -> {"none", "cached", "retried"}]
  /\ listener \in Terminals \cup {None}

\* A refusal exits with 1 or 2.
LEMMA RefusalCode ==
  ASSUME NEW c
  PROVE  Refusal(c) \in {1, 2, None}
<1> DEFINE failed == {i \in DOMAIN Checks(c) : Checks(c)[i].fails}
<1>1. /\ DOMAIN Checks(c) = 1..6
      /\ \A i \in 1..6 : Checks(c)[i].code \in {1, 2}
  BY DEF Checks
<1>2. CASE failed = {}
  BY <1>2 DEF Refusal
<1>3. CASE failed # {}
  <2>1. failed \subseteq 1..6
    BY <1>1
  <2>2. \E i \in failed : \A j \in failed : i <= j
    BY <1>3, <2>1
  <2>3. (CHOOSE i \in failed : \A j \in failed : i <= j) \in 1..6
    BY <2>1, <2>2
  <2>4. Refusal(c) = Checks(c)[CHOOSE i \in failed : \A j \in failed : i <= j].code
    BY <1>3 DEF Refusal
  <2>5. QED
    BY <1>1, <2>3, <2>4
<1>4. QED
  BY <1>2, <1>3

LEMMA NothingTyped ==
  ASSUME Typed, NEW p \in Terminals, NothingTold(p)
  PROVE  report' \in [Terminals ->
           [cached : BOOLEAN, requires_payment : BOOLEAN, within_budget : BOOLEAN]]
<1>1. NoReport \in [cached : BOOLEAN, requires_payment : BOOLEAN, within_budget : BOOLEAN]
  BY DEF NoReport
<1>2. QED
  BY <1>1 DEF Typed, NothingTold

LEMMA LeaveTyped ==
  ASSUME Typed, NEW p \in Terminals, NEW code \in Codes \cup {Killed},
         Leave(p, code), NothingTold(p)
  PROVE  Typed'
BY NothingTyped DEF Typed, Leave

LEMMA EndTyped ==
  ASSUME Typed, NEW p \in Terminals, NEW code \in Codes, EndRequest(p, code)
  PROVE  Typed'
<1>1. CASE Exit(p, code)
  BY <1>1, LeaveTyped DEF Exit
<1>2. CASE /\ exit' = [exit EXCEPT ![p] = code]
           /\ invoice' = [invoice EXCEPT ![p] = "none"]
           /\ cred' = [cred EXCEPT ![p] = "none"]
           /\ NothingTold(p)
           /\ UNCHANGED <<token, listener>>
  BY <1>2, NothingTyped DEF Typed
<1>3. QED
  BY <1>1, <1>2 DEF EndRequest

LEMMA LookTyped ==
  ASSUME Typed, NEW p \in Terminals, NEW c, NEW limit, Look(p, c, limit)
  PROVE  report' \in [Terminals ->
           [cached : BOOLEAN, requires_payment : BOOLEAN, within_budget : BOOLEAN]]
<1> DEFINE due == c.offer # None
           fit == c.offer # None /\ WithinBudget(c.offer, limit)
<1>1. due \in BOOLEAN /\ fit \in BOOLEAN
  OBVIOUS
<1>2. \/ report' = [report EXCEPT ![p] =
             [cached |-> token, requires_payment |-> due, within_budget |-> fit]]
      \/ report' = [report EXCEPT ![p] = [NoReport EXCEPT !.cached = token]]
  BY DEF Look
<1> HIDE DEF due, fit
<1> DEFINE Report == [cached : BOOLEAN, requires_payment : BOOLEAN, within_budget : BOOLEAN]
<1>3. [NoReport EXCEPT !.cached = token] \in Report
  BY DEF NoReport, Typed
<1>4. \A priced, within \in BOOLEAN :
        [cached |-> token, requires_payment |-> priced, within_budget |-> within] \in Report
  BY DEF Typed
<1>5. report \in [Terminals -> Report]
  BY DEF Typed
<1> HIDE DEF Report
<1>6. report' \in [Terminals -> Report]
  BY <1>1, <1>2, <1>3, <1>4, <1>5
<1>7. QED
  BY <1>6 DEF Report

LEMMA TypedStep ==
  ASSUME Placed, Typed, NEW p \in Terminals, ProcessStep(p) \/ WorldStep(p)
  PROVE  Typed'
<1> USE DEF StayPut, Exit
<1>1. CASE Refuse(p)
  BY <1>1, LeaveTyped, RefusalCode DEF Refuse, Codes
<1>2. CASE \/ RefuseRequest(p) \/ EndListed(p) \/ EndRevoke(p) \/ NodeAnswers(p)
           \/ Shutdown(p) \/ Kill(p)
  BY <1>2, LeaveTyped
  DEF RefuseRequest, EndListed, EndRevoke, NodeAnswers, Shutdown, Kill, Codes
<1>3. CASE Preview(p)
  <2>1. report' \in [Terminals ->
          [cached : BOOLEAN, requires_payment : BOOLEAN, within_budget : BOOLEAN]]
    BY <1>3, LookTyped DEF Preview
  <2>2. Leave(p, 10)
    BY <1>3 DEF Preview
  <2>3. QED
    BY <2>1, <2>2 DEF Leave, Typed, Codes
<1>4. CASE Begin(p)
  BY <1>4 DEF Begin, Typed
<1>5. CASE \/ StartBackend(p) \/ UseBackend(p) \/ Answered(p) \/ Receive(p)
           \/ ReadSession(p) \/ RevokeNext(p) \/ RelayAnswers(p)
  BY <1>5
  DEF StartBackend, UseBackend, Answered, Receive, ReadSession, RevokeNext, RelayAnswers,
      commandVars, Typed
<1>6. CASE AskNode(p)
  <2>1. CASE StayPut
    BY <2>1 DEF Typed
  <2>2. QED
    BY <1>6, <2>1, LeaveTyped DEF AskNode, Codes
<1>7. CASE Listen(p)
  <2>1. CASE listener' = p /\ UNCHANGED <<exit, invoice, token, cred, report>>
    BY <2>1 DEF Typed
  <2>2. QED
    BY <1>7, <2>1, LeaveTyped DEF Listen, Codes
<1>8. CASE Revoke(p)
  <2>1. CASE StayPut
    BY <2>1 DEF Typed
  <2>2. QED
    BY <1>8, <2>1, LeaveTyped DEF Revoke, Codes
<1>9. CASE RequestFails(p) \/ RefuseToPay(p) \/ PaymentFails(p) \/ Finish(p)
  BY <1>9, EndTyped DEF RequestFails, RefuseToPay, PaymentFails, Finish, Codes
<1>10. CASE StorePaid(p)
  <2>1. CASE /\ token' \in BOOLEAN
             /\ cred' = [cred EXCEPT ![p] = "retried"]
             /\ UNCHANGED <<exit, invoice, listener, report>>
    BY <2>1 DEF Typed
  <2>2. QED
    BY <1>10, <2>1, EndTyped DEF StorePaid, Codes
<1>11. CASE PayInvoice(p) \/ NodeResolves(p) \/ CallDownload(p)
  BY <1>11 DEF PayInvoice, NodeResolves, CallDownload, Attach, Typed
<1>12. CASE CallDryRun(p)
  BY <1>12, LookTyped DEF CallDryRun, Typed, Codes
<1>13. CASE SendRequest(p) \/ Challenged(p) \/ Rejected(p)
  BY <1>13 DEF SendRequest, Attach, Challenged, Rejected, Typed
<1>14. QED
  BY <1>1, <1>2, <1>3, <1>4, <1>5, <1>6, <1>7, <1>8, <1>9, <1>10, <1>11, <1>12, <1>13
  DEF ProcessStep, WorldStep, StartUp, Request, Manage

LEMMA TypedNext ==
  ASSUME Placed, Typed, [Next]_vars
  PROVE  Typed'
<1>1. CASE NewVersion \/ UNCHANGED vars
  BY <1>1 DEF NewVersion, vars, commandVars, Typed
<1>2. QED
  BY <1>1, TypedStep DEF Next, Finished

LEMMA TypedInit == Init => Typed
<1>1. NoReport \in [cached : BOOLEAN, requires_payment : BOOLEAN, within_budget : BOOLEAN]
  BY DEF NoReport
<1> SUFFICES ASSUME Init
             PROVE  Typed
  OBVIOUS
<1>2. report \in [Terminals ->
        [cached : BOOLEAN, requires_payment : BOOLEAN, within_budget : BOOLEAN]]
  BY <1>1 DEF Init
<1>3. /\ exit = [p \in Terminals |-> None]
      /\ invoice = [p \in Terminals |-> "none"]
      /\ token = FALSE
      /\ cred = [p \in Terminals |-> "none"]
      /\ listener = None
  BY DEF Init
<1>4. QED
  BY <1>2, <1>3 DEF Typed

\* Every variable stays within its type, for any terminals and scenarios.
THEOREM CommandsTypeCorrect == Spec => []TypeOK
<1>1. Placed /\ Typed /\ SessionsTypeOK /\ DownloadsTypeOK => TypeOK
  BY DEF Placed, Typed, TypeOK
<1>2. Spec => []Typed
  BY TypedInit, TypedNext, AlwaysPlaced, PTL DEF Spec
<1>3. QED
  BY <1>1, <1>2, AlwaysPlaced, RefinesSessions, RefinesDownloads, SessionsTypeCorrect,
     TypeCorrect, PTL
====
