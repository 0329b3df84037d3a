---- MODULE ExitCodesProofs ----
(***************************************************************************)
(* Theorems about Commands: an exit code tells what has happened, the lack *)
(* of a Lightning backend keeps no request from being sent, a request does *)
(* what its dry run has told, and no more is paid than the user has said.  *)
(***************************************************************************)
EXTENDS CommandsProofs

\* What the stage of a terminal says of the command it is at.
Employed(p) ==
  /\ pc[p] = "preview" => "dry_run" \in Cmd(p).opts
  /\ pc[p] \in {"opening", "listening"} => Cmd(p).kind = "serve"
  /\ pc[p] = "listing" => Cmd(p).kind \in {"sessions", "revoke_all"}
  /\ pc[p] \in {"revoking", "revoked"} => Cmd(p).kind = "revoke"
  /\ pc[p] = "asking node" => Cmd(p).kind \in {"pair", "status", "info"}

\* What it says of the request, the payment and the exit code.
InProgress(p) ==
  /\ pc[p] \notin {"idle", "serving"} => exit[p] = None
  /\ pc[p] \notin {"sent", "challenged", "paying", "answered"} => transfer[p] = NoTransfer
  /\ pc[p] \in {"sent", "challenged", "paying"} =>
       transfer[p].stage = "asking" /\ ~transfer[p].touched
  /\ pc[p] = "answered" => transfer[p].stage \notin {"off", "asking"} /\ Honoured(p)
  /\ pc[p] \in {"challenged", "paying"} => Cmd(p).offer # None
  /\ invoice[p] # "none" =>
       pc[p] = "paying" \/ (pc[p] \in {"sent", "answered"} /\ cred[p] = "retried")

\* No file was opened for an answer that refused.
GoodStatus(p) ==
  transfer[p].stage \in {"copying", "done"} /\ transfer[p].path # None =>
    transfer[p].status # 404

RequestInv ==
  /\ Placed /\ Typed /\ DownloadsTypeOK
  /\ \A p \in Terminals : Employed(p) /\ InProgress(p) /\ GoodStatus(p)

----
(* What a step leaves to the other terminals.                              *)

Untouched(q) == UNCHANGED <<pc[q], at[q], exit[q], invoice[q], cred[q], transfer[q], program>>

LEMMA OthersUntouched ==
  ASSUME RequestInv, NEW p \in Terminals, ProcessStep(p) \/ WorldStep(p),
         NEW q \in Terminals \ {p}
  PROVE  Untouched(q)
<1> USE DEF StayPut, Exit, Goto, Untouched
<1>1. ASSUME NEW code, Leave(p, code) \/ EndRequest(p, code)
      PROVE  Untouched(q)
  BY <1>1 DEF RequestInv, Placed, Typed, DownloadsTypeOK, Leave, EndRequest, Close
<1>2. CASE \/ Refuse(p) \/ Preview(p) \/ RefuseRequest(p) \/ EndListed(p) \/ EndRevoke(p)
           \/ NodeAnswers(p) \/ Shutdown(p) \/ Kill(p) \/ RequestFails(p) \/ RefuseToPay(p)
           \/ PaymentFails(p) \/ Finish(p)
  BY <1>1, <1>2
  DEF Refuse, Preview, RefuseRequest, EndListed, EndRevoke, NodeAnswers, Shutdown, Kill,
      RequestFails, RefuseToPay, PaymentFails, Finish
<1>3. CASE Begin(p)
  BY <1>3 DEF Begin, RequestInv, Placed, Typed, downloadVars
<1>4. CASE StartBackend(p) \/ ReadSession(p) \/ RevokeNext(p) \/ RelayAnswers(p)
  BY <1>4 DEF StartBackend, ReadSession, RevokeNext, RelayAnswers, commandVars, downloadVars
<1>5. CASE UseBackend(p)
  BY <1>5 DEF UseBackend, RequestInv, Placed, downloadVars
<1>6. CASE AskNode(p) \/ Listen(p) \/ Revoke(p) \/ StorePaid(p)
  BY <1>1, <1>6
  DEF AskNode, Listen, Revoke, StorePaid, RequestInv, Placed, Typed, downloadVars
<1>7. CASE SendRequest(p) \/ CallDownload(p)
  BY <1>7 DEF SendRequest, CallDownload, Attach, Ask, RequestInv, Placed, Typed, DownloadsTypeOK
<1>8. CASE Answered(p)
  BY <1>8 DEF Answered, Respond, Reply, RequestInv, Placed, DownloadsTypeOK
<1>9. CASE Challenged(p) \/ Rejected(p) \/ PayInvoice(p) \/ CallDryRun(p) \/ NodeResolves(p)
  BY <1>9
  DEF Challenged, Rejected, PayInvoice, CallDryRun, NodeResolves, RequestInv, Placed, Typed, downloadVars
<1>10. CASE Receive(p)
  BY <1>10
  DEF Receive, DownloadStep, OpenOutput, RefuseStatus, PrintBody, CopyChunk, CopyDone,
      CopyFails, Stage, RequestInv, DownloadsTypeOK
<1>11. QED
  BY <1>2, <1>3, <1>4, <1>5, <1>6, <1>7, <1>8, <1>9, <1>10
  DEF ProcessStep, WorldStep, StartUp, Request, Manage

LEMMA UntouchedKeeps ==
  ASSUME NEW q \in Terminals, Untouched(q), Employed(q), InProgress(q), GoodStatus(q)
  PROVE  Employed(q)' /\ InProgress(q)' /\ GoodStatus(q)'
<1>1. /\ pc'[q] = pc[q] /\ exit'[q] = exit[q] /\ invoice'[q] = invoice[q]
      /\ cred'[q] = cred[q] /\ transfer'[q] = transfer[q]
      /\ Cmd(q)' = Cmd(q)
  BY DEF Untouched, Cmd
<1>2. Employed(q)'
  BY <1>1 DEF Employed
<1>3. Honoured(q) => Honoured(q)'
  BY <1>1 DEF Honoured
<1>4. InProgress(q)'
  BY <1>1, <1>3 DEF InProgress
<1>5. GoodStatus(q)'
  BY <1>1 DEF GoodStatus
<1>6. QED
  BY <1>2, <1>4, <1>5

----
(* What a step does to its own terminal.                                   *)

\* The request of a terminal is over, and its invoice and transfer gone.
Over(p, stage, code) ==
  /\ pc'[p] = stage /\ exit'[p] = code /\ invoice'[p] = "none"
  /\ transfer'[p] = NoTransfer

LEMMA LeaveOver ==
  ASSUME RequestInv, NEW p \in Terminals, NEW code, Leave(p, code)
  PROVE  Over(p, "idle", code)
BY DEF Leave, Close, Goto, Over, RequestInv, Placed, Typed, DownloadsTypeOK

LEMMA EndOver ==
  ASSUME RequestInv, NEW p \in Terminals, NEW code, EndRequest(p, code)
  PROVE  Over(p, "idle", code) \/ Over(p, "serving", code)
<1>1. CASE Exit(p, code)
  BY <1>1, LeaveOver DEF Exit
<1>2. CASE /\ Goto(p, "serving") /\ Close(p)
           /\ exit' = [exit EXCEPT ![p] = code] /\ invoice' = [invoice EXCEPT ![p] = "none"]
  BY <1>2 DEF Close, Goto, Over, RequestInv, Placed, Typed, DownloadsTypeOK
<1>3. QED
  BY <1>1, <1>2 DEF EndRequest

LEMMA OverKeeps ==
  ASSUME NEW p \in Terminals, NEW stage \in {"idle", "serving"}, NEW code, Over(p, stage, code)
  PROVE  Employed(p)' /\ InProgress(p)' /\ GoodStatus(p)'
<1>1. /\ pc'[p] \in {"idle", "serving"} /\ invoice'[p] = "none" /\ transfer'[p] = NoTransfer
  BY DEF Over
<1>2. Employed(p)'
  BY <1>1 DEF Employed
<1>3. InProgress(p)'
  BY <1>1 DEF InProgress
<1>4. GoodStatus(p)'
  BY <1>1 DEF GoodStatus, NoTransfer
<1>5. QED
  BY <1>2, <1>3, <1>4

\* A step that only moves the terminal on, to a stage without a request.
LEMMA MoveKeeps ==
  ASSUME RequestInv, NEW p \in Terminals, NEW stage \in Stages, Goto(p, stage),
         UNCHANGED <<program, at, invoice, downloadVars>>,
         exit'[p] = None,
         pc[p] \notin {"sent", "challenged", "paying", "answered"},
         stage \notin {"sent", "challenged", "paying", "answered"},
         stage = "preview" => "dry_run" \in Cmd(p).opts,
         stage \in {"opening", "listening"} => Cmd(p).kind = "serve",
         stage = "listing" => Cmd(p).kind \in {"sessions", "revoke_all"},
         stage \in {"revoking", "revoked"} => Cmd(p).kind = "revoke",
         stage = "asking node" => Cmd(p).kind \in {"pair", "status", "info"}
  PROVE  Employed(p)' /\ InProgress(p)' /\ GoodStatus(p)'
<1>1. /\ pc'[p] = stage /\ Cmd(p)' = Cmd(p) /\ invoice'[p] = invoice[p]
      /\ transfer'[p] = transfer[p]
  BY DEF RequestInv, Placed, Goto, Cmd, downloadVars
<1>2. InProgress(p) /\ GoodStatus(p)
  BY DEF RequestInv
<1>3. Employed(p)'
  BY <1>1 DEF Employed
<1>4. InProgress(p)'
  BY <1>1, <1>2 DEF InProgress
<1>5. GoodStatus(p)'
  BY <1>1, <1>2 DEF GoodStatus
<1>6. QED
  BY <1>3, <1>4, <1>5

LEMMA StillKeeps ==
  ASSUME NEW p, Employed(p), InProgress(p), GoodStatus(p),
         UNCHANGED <<program, at, pc, exit, invoice, cred, downloadVars>>
  PROVE  Employed(p)' /\ InProgress(p)' /\ GoodStatus(p)'
<1>1. Employed(p)'
  BY DEF Employed, Cmd
<1>2. InProgress(p)'
  BY DEF InProgress, Honoured, Cmd, downloadVars
<1>3. GoodStatus(p)'
  BY DEF GoodStatus, downloadVars
<1>4. QED
  BY <1>1, <1>2, <1>3

\* A step in the middle of a request: what it may change, and how.
LEMMA RequestKeeps ==
  ASSUME RequestInv, NEW p \in Terminals,
         NEW stage \in {"sent", "challenged", "paying", "answered"},
         pc'[p] = stage, Cmd(p)' = Cmd(p), exit'[p] = None,
         stage # "answered" => transfer'[p].stage = "asking" /\ ~transfer'[p].touched,
         stage = "answered" => transfer'[p].stage \notin {"off", "asking"} /\ Honoured(p)',
         GoodStatus(p)',
         stage \in {"challenged", "paying"} => Cmd(p).offer # None,
         invoice'[p] # "none" => stage = "paying" \/ (stage \in {"sent", "answered"} /\ cred'[p] = "retried")
  PROVE  Employed(p)' /\ InProgress(p)' /\ GoodStatus(p)'
<1>1. Employed(p)'
  BY DEF Employed
<1>2. InProgress(p)'
  BY DEF InProgress
<1>3. QED
  BY <1>1, <1>2

\* The request is sent: nothing has been opened or paid for it.
LEMMA AskKept ==
  ASSUME RequestInv, NEW p \in Terminals, NEW path, NEW resume, Ask(p, path, resume),
         pc[p] \in {"ready", "serving"}, Goto(p, "sent"), exit'[p] = None,
         UNCHANGED invoice
  PROVE  Employed(p)' /\ InProgress(p)' /\ GoodStatus(p)'
<1>1. pc'[p] = "sent" /\ invoice[p] = "none" /\ invoice' = invoice
  BY DEF RequestInv, Placed, InProgress, Goto
<1>2. transfer'[p].stage = "asking" /\ ~transfer'[p].touched
  BY DEF RequestInv, DownloadsTypeOK, Ask, NoTransfer
<1>3. Employed(p)'
  BY <1>1 DEF Employed
<1>4. InProgress(p)'
  BY <1>1, <1>2 DEF InProgress
<1>5. GoodStatus(p)'
  BY <1>2 DEF GoodStatus
<1>6. QED
  BY <1>3, <1>4, <1>5

\* The copy of a body keeps the answer, and looked at its status to begin with.
LEMMA ReceiveKeeps ==
  ASSUME RequestInv, NEW p \in Terminals, DownloadStep(p), transfer[p].stage \notin {"off", "asking"}
  PROVE  transfer'[p].stage \notin {"off", "asking"} /\ GoodStatus(p)'
<1> DEFINE t == transfer[p]
<1>0. transfer \in [Terminals -> TransferStates] /\ GoodStatus(p)
  BY DEF RequestInv, DownloadsTypeOK, TransferStates
<1>1. ASSUME NEW stage \in {"copying", "done", "cut", "failed"}, Stage(p, stage)
      PROVE  transfer'[p].stage = stage /\ transfer'[p].path = t.path
             /\ transfer'[p].status = t.status
  BY <1>0, <1>1, StageUpdate DEF Stage
<1>2. CASE OpenOutput(p)
  <2>1. t.status # 404
    BY <1>2 DEF OpenOutput
  <2>2. CASE transfer' = [transfer EXCEPT ![p].stage = "copying", ![p].touched = TRUE]
    <3>1. transfer'[p] = [t EXCEPT !.stage = "copying", !.touched = TRUE]
      BY <1>0, <2>2
    <3>2. transfer'[p].stage = "copying" /\ transfer'[p].status = t.status
      BY <1>0, <3>1, OpenUpdate
    <3>3. QED
      BY <2>1, <3>2 DEF GoodStatus
  <2>3. CASE Stage(p, "failed")
    BY <1>1, <2>3 DEF GoodStatus
  <2>4. QED
    BY <1>2, <2>2, <2>3 DEF OpenOutput
<1>3. CASE RefuseStatus(p) \/ CopyFails(p)
  BY <1>1, <1>3 DEF RefuseStatus, CopyFails, GoodStatus
<1>4. CASE PrintBody(p)
  BY <1>1, <1>4 DEF PrintBody, GoodStatus
<1>5. CASE CopyDone(p)
  BY <1>0, <1>1, <1>5 DEF CopyDone, GoodStatus
<1>6. CASE CopyChunk(p)
  <2>1. transfer'[p].stage = t.stage /\ transfer'[p].path = t.path
        /\ transfer'[p].status = t.status
    BY <1>0, <1>6 DEF CopyChunk, TransferStates
  <2>2. QED
    BY <1>0, <2>1 DEF GoodStatus
<1>7. QED
  BY <1>2, <1>3, <1>4, <1>5, <1>6 DEF DownloadStep

LEMMA OwnStep ==
  ASSUME RequestInv, NEW p \in Terminals, ProcessStep(p) \/ WorldStep(p)
  PROVE  Employed(p)' /\ InProgress(p)' /\ GoodStatus(p)'
<1> USE DEF StayPut, Exit
<1>a. Employed(p) /\ InProgress(p) /\ GoodStatus(p) /\ Placed /\ Typed /\ DownloadsTypeOK
  BY DEF RequestInv
<1>b. ASSUME NEW code, Leave(p, code) \/ EndRequest(p, code)
      PROVE  Employed(p)' /\ InProgress(p)' /\ GoodStatus(p)'
  BY <1>b, LeaveOver, EndOver, OverKeeps
<1>1. CASE \/ Refuse(p) \/ Preview(p) \/ RefuseRequest(p) \/ EndListed(p) \/ EndRevoke(p)
           \/ NodeAnswers(p) \/ Shutdown(p) \/ Kill(p) \/ RequestFails(p) \/ RefuseToPay(p)
           \/ PaymentFails(p) \/ Finish(p)
  BY <1>b, <1>1
  DEF Refuse, Preview, RefuseRequest, EndListed, EndRevoke, NodeAnswers, Shutdown, Kill,
      RequestFails, RefuseToPay, PaymentFails, Finish
<1>2. CASE Begin(p)
  <2>1. /\ UNCHANGED <<program, at, invoice, downloadVars>>
        /\ exit'[p] = None
        /\ pc[p] = "idle"
    BY <1>2, <1>a DEF Begin, Typed
  <2>2. \/ Goto(p, "preview") /\ "dry_run" \in Cmd(p).opts
        \/ Goto(p, "starting")
        \/ Goto(p, "opening") /\ Cmd(p).kind = "serve"
        \/ Goto(p, "listing") /\ Cmd(p).kind \in {"sessions", "revoke_all"}
        \/ Goto(p, "revoking") /\ Cmd(p).kind = "revoke"
    BY <1>2 DEF Begin
  <2>3. QED
    BY <2>1, <2>2, MoveKeeps DEF Stages
<1>3. CASE StartBackend(p) \/ ReadSession(p) \/ RevokeNext(p) \/ RelayAnswers(p)
  <2>1. UNCHANGED <<program, at, pc, exit, invoice, cred, downloadVars>>
    BY <1>3 DEF StartBackend, ReadSession, RevokeNext, RelayAnswers, commandVars
  <2>2. QED
    BY <1>a, <2>1, StillKeeps
<1>4. CASE UseBackend(p)
  <2>1. /\ Goto(p, "serving") \/ Goto(p, "ready")
        /\ pc[p] = "starting"
        /\ UNCHANGED <<program, at, invoice, exit, downloadVars>>
    BY <1>4 DEF UseBackend, Started
  <2>2. exit'[p] = None
    BY <1>a, <2>1 DEF InProgress
  <2>3. QED
    BY <2>1, <2>2, MoveKeeps DEF Stages
<1>5. CASE AskNode(p)
  <2>1. CASE Goto(p, "asking node") /\ StayPut /\ UNCHANGED downloadVars
    <3>1. pc[p] = "starting" /\ Cmd(p).kind \in {"pair", "status", "info"}
      BY <1>5 DEF AskNode, Started
    <3>2. exit'[p] = None
      BY <1>a, <2>1, <3>1 DEF InProgress
    <3>3. QED
      BY <2>1, <3>1, <3>2, MoveKeeps DEF Stages
  <2>2. QED
    BY <1>b, <1>5, <2>1 DEF AskNode
<1>6. CASE Listen(p)
  <2>1. CASE Goto(p, "listening") /\ UNCHANGED <<program, at, invoice, exit, downloadVars>>
    <3>1. pc[p] = "opening" /\ Cmd(p).kind = "serve"
      BY <1>a, <1>6 DEF Listen, Employed
    <3>2. exit'[p] = None
      BY <1>a, <2>1, <3>1 DEF InProgress
    <3>3. QED
      BY <2>1, <3>1, <3>2, MoveKeeps DEF Stages
  <2>2. QED
    BY <1>b, <1>6, <2>1 DEF Listen
<1>7. CASE Revoke(p)
  <2>1. CASE Goto(p, "revoked") /\ StayPut /\ UNCHANGED downloadVars
    <3>1. pc[p] = "revoking" /\ Cmd(p).kind = "revoke"
      BY <1>a, <1>7 DEF Revoke, Employed
    <3>2. exit'[p] = None
      BY <1>a, <2>1, <3>1 DEF InProgress
    <3>3. QED
      BY <2>1, <3>1, <3>2, MoveKeeps DEF Stages
  <2>2. QED
    BY <1>b, <1>7, <2>1 DEF Revoke
<1>8. CASE SendRequest(p)
  <2>1. exit'[p] = None
    BY <1>a, <1>8 DEF SendRequest, InProgress
  <2>2. QED
    BY <1>8, <2>1, AskKept DEF SendRequest
<1>9. CASE CallDownload(p)
  <2>1. exit'[p] = None
    BY <1>a, <1>9 DEF CallDownload, Typed
  <2>2. QED
    BY <1>9, <2>1, AskKept DEF CallDownload
<1>10. CASE CallDryRun(p)
  <2>1. pc'[p] = "serving" /\ pc[p] = "serving" /\ invoice' = invoice /\ transfer' = transfer
    BY <1>10 DEF CallDryRun, downloadVars
  <2>2. Employed(p)' /\ InProgress(p)'
    BY <1>a, <2>1 DEF Employed, InProgress
  <2>3. QED
    BY <1>a, <2>1, <2>2 DEF GoodStatus
<1>11. CASE Answered(p)
  <2>1. /\ pc'[p] = "answered" /\ exit'[p] = None /\ Cmd(p)' = Cmd(p)
        /\ cred' = cred /\ invoice' = invoice /\ Honoured(p) /\ pc[p] = "sent"
    BY <1>a, <1>11 DEF Answered, Placed, InProgress, Goto, Cmd
  <2>2. transfer'[p].stage = "answered"
    <3>1. PICK status, first : Reply(p, status, first)
      BY <1>11 DEF Answered, Respond
    <3>2. QED
      BY <1>a, <3>1 DEF Reply, DownloadsTypeOK
  <2>3. Honoured(p)' /\ GoodStatus(p)'
    BY <2>1, <2>2 DEF Honoured, GoodStatus
  <2>4. QED
    BY <1>a, <2>1, <2>2, <2>3, RequestKeeps DEF InProgress
<1>12. CASE Challenged(p) \/ Rejected(p)
  <2>1. /\ pc[p] = "sent" /\ exit'[p] = None /\ Cmd(p)' = Cmd(p)
        /\ invoice' = invoice /\ transfer' = transfer
        /\ Cmd(p).offer # None /\ cred[p] # "retried"
        /\ pc'[p] \in {"sent", "challenged"}
    BY <1>a, <1>12
    DEF Challenged, Rejected, Placed, InProgress, Honoured, Goto, Cmd, downloadVars
  <2>2. transfer[p].stage = "asking" /\ ~transfer[p].touched /\ invoice[p] = "none"
    BY <1>a, <2>1 DEF InProgress
  <2>3. GoodStatus(p)'
    BY <1>a, <2>1 DEF GoodStatus
  <2>4. QED
    BY <2>1, <2>2, <2>3, RequestKeeps
<1>13. CASE PayInvoice(p)
  <2>1. /\ pc'[p] = "paying" /\ exit'[p] = None /\ Cmd(p)' = Cmd(p) /\ pc[p] = "challenged"
        /\ transfer' = transfer
    BY <1>a, <1>13 DEF PayInvoice, Placed, InProgress, Goto, Cmd, downloadVars
  <2>2. transfer[p].stage = "asking" /\ ~transfer[p].touched /\ Cmd(p).offer # None
    BY <1>a, <2>1 DEF InProgress
  <2>3. GoodStatus(p)'
    BY <1>a, <2>1 DEF GoodStatus
  <2>4. QED
    BY <2>1, <2>2, <2>3, RequestKeeps
<1>14. CASE StorePaid(p)
  <2>1. CASE /\ cred' = [cred EXCEPT ![p] = "retried"] /\ Goto(p, "sent")
             /\ UNCHANGED <<downloadVars, program, at, exit, invoice>>
    <3>1. /\ pc'[p] = "sent" /\ exit'[p] = None /\ Cmd(p)' = Cmd(p) /\ pc[p] = "paying"
          /\ transfer' = transfer /\ cred'[p] = "retried"
      BY <1>a, <1>14, <2>1 DEF StorePaid, Placed, Typed, InProgress, Goto, Cmd, downloadVars
    <3>2. transfer[p].stage = "asking" /\ ~transfer[p].touched
      BY <1>a, <3>1 DEF InProgress
    <3>3. GoodStatus(p)'
      BY <1>a, <3>1 DEF GoodStatus
    <3>4. QED
      BY <2>1, <3>1, <3>2, <3>3, RequestKeeps
  <2>2. QED
    BY <1>b, <1>14, <2>1 DEF StorePaid
<1>15. CASE Receive(p)
  <2>1. /\ pc'[p] = "answered" /\ exit'[p] = None /\ Cmd(p)' = Cmd(p)
        /\ cred' = cred /\ invoice' = invoice /\ Honoured(p) /\ pc[p] = "answered"
        /\ transfer[p].stage \notin {"off", "asking"}
    BY <1>a, <1>15 DEF Receive, InProgress, Cmd
  <2>2. transfer'[p].stage \notin {"off", "asking"} /\ GoodStatus(p)'
    BY <1>15, <2>1, ReceiveKeeps DEF Receive
  <2>3. Honoured(p)'
    BY <2>1 DEF Honoured
  <2>4. QED
    BY <1>a, <2>1, <2>2, <2>3, RequestKeeps DEF InProgress
<1>16. CASE NodeResolves(p)
  <2>1. /\ pc' = pc /\ exit' = exit /\ Cmd(p)' = Cmd(p) /\ cred' = cred
        /\ transfer' = transfer /\ invoice[p] # "none"
    BY <1>16 DEF NodeResolves, Cmd, downloadVars
  <2>2. Employed(p)'
    BY <1>a, <2>1 DEF Employed
  <2>3. Honoured(p)' = Honoured(p)
    BY <2>1 DEF Honoured
  <2>4. InProgress(p)'
    BY <1>a, <2>1, <2>3 DEF InProgress
  <2>5. GoodStatus(p)'
    BY <1>a, <2>1 DEF GoodStatus
  <2>6. QED
    BY <2>2, <2>4, <2>5
<1>17. QED
  BY <1>1, <1>2, <1>3, <1>4, <1>5, <1>6, <1>7, <1>8, <1>9, <1>10, <1>11, <1>12, <1>13, <1>14,
     <1>15, <1>16
  DEF ProcessStep, WorldStep, StartUp, Request, Manage

LEMMA RequestInit == Init => RequestInv
<1> SUFFICES ASSUME Init
             PROVE  RequestInv
  OBVIOUS
<1>1. Placed /\ Typed /\ DownloadsTypeOK
  BY PlacedInit, TypedInit, InitFile DEF Init, FileInv, TypeInv
<1>2. ASSUME NEW p \in Terminals
      PROVE  Employed(p) /\ InProgress(p) /\ GoodStatus(p)
  <2>1. /\ pc[p] = "idle" /\ exit[p] = None /\ invoice[p] = "none"
        /\ transfer[p] = NoTransfer
    BY DEF Init, DownloadsInit
  <2>2. Employed(p)
    BY <2>1 DEF Employed
  <2>3. InProgress(p)
    BY <2>1 DEF InProgress
  <2>4. GoodStatus(p)
    BY <2>1 DEF GoodStatus, NoTransfer
  <2>5. QED
    BY <2>2, <2>3, <2>4
<1>3. QED
  BY <1>1, <1>2 DEF RequestInv

LEMMA RequestNext ==
  ASSUME RequestInv, DownloadsTypeOK', [Next]_vars
  PROVE  RequestInv'
<1>1. Placed' /\ Typed'
  BY PlacedNext, TypedNext DEF RequestInv
<1>2. ASSUME NEW q \in Terminals
      PROVE  Employed(q)' /\ InProgress(q)' /\ GoodStatus(q)'
  <2>1. Employed(q) /\ InProgress(q) /\ GoodStatus(q)
    BY DEF RequestInv
  <2>2. CASE \E p \in Terminals : ProcessStep(p) \/ WorldStep(p)
    <3>1. PICK p \in Terminals : ProcessStep(p) \/ WorldStep(p)
      BY <2>2
    <3>2. CASE p = q
      BY <3>1, <3>2, OwnStep
    <3>3. CASE p # q
      BY <2>1, <3>1, <3>3, OthersUntouched, UntouchedKeeps
    <3>4. QED
      BY <3>2, <3>3
  <2>3. CASE NewVersion
    <3>1. UNCHANGED <<program, at, pc, exit, invoice, cred, transfer>>
      BY <2>3 DEF NewVersion, ChangeResource, commandVars
    <3>2. Untouched(q)
      BY <3>1 DEF Untouched
    <3>3. QED
      BY <2>1, <3>2, UntouchedKeeps
  <2>4. CASE UNCHANGED vars
    BY <2>1, <2>4, StillKeeps DEF vars, commandVars
  <2>5. QED
    BY <2>2, <2>3, <2>4 DEF Next, Finished
<1>3. QED
  BY <1>1, <1>2 DEF RequestInv

LEMMA DownloadsTyped == Spec => []DownloadsTypeOK
BY RefinesDownloads, TypeCorrect, PTL

LEMMA AlwaysRequest == Spec => []RequestInv
BY RequestInit, RequestNext, DownloadsTyped, PTL DEF Spec

----
(* How a command or a call that is a request comes to its end.             *)

HowEnded(p) ==
  \/ pc[p] = "idle" /\ Refusal(Cmd(p)) # None /\ exit'[p] \in {1, 2}
  \/ pc[p] = "preview" /\ exit'[p] = 10
  \/ pc[p] = "starting" /\ (BadHeader(Cmd(p)) \/ BadPath(Cmd(p))) /\ exit'[p] \in {1, 2}
  \/ pc[p] = "sent" /\ exit'[p] = 4
  \/ pc[p] = "challenged" /\ exit'[p] \in {2, 3}
  \/ pc[p] = "paying" /\ exit'[p] \in {3, 4}
  \/ pc[p] = "answered" /\ exit'[p] \in {1, 4}
  \/ pc[p] = "answered" /\ exit'[p] = 0 /\ transfer[p].stage = "done"

LEMMA CodesNotNone == None \notin Codes /\ Killed \notin Codes
BY CommandsAssumption DEF Codes, Killed

LEMMA Ended ==
  ASSUME RequestInv, NEW p \in Terminals, Ends(p, Codes), ProcessStep(p) \/ WorldStep(p)
  PROVE  HowEnded(p)
<1> USE DEF StayPut, Exit
<1>a. /\ Employed(p) /\ InProgress(p) /\ Placed /\ Typed
      /\ Cmd(p).kind \in {"get", "call"}
      /\ pc[p] # "serving"
      /\ exit'[p] \in Codes
      /\ pc'[p] # pc[p] \/ at'[p] # at[p]
  BY DEF RequestInv, Ends
<1>b. ASSUME NEW code, Leave(p, code) \/ EndRequest(p, code)
      PROVE  exit'[p] = code
  BY <1>b, LeaveOver, EndOver DEF Over
<1>c. pc[p] \notin {"idle", "serving"} => exit' # exit
  BY <1>a, CodesNotNone DEF InProgress
<1>1. CASE Refuse(p)
  BY <1>1, <1>b, RefusalCode DEF Refuse, HowEnded
<1>2. CASE Preview(p)
  BY <1>2, <1>b DEF Preview, HowEnded
<1>3. CASE RefuseRequest(p)
  BY <1>3, <1>b DEF RefuseRequest, Started, HowEnded
<1>4. CASE EndListed(p) \/ EndRevoke(p) \/ NodeAnswers(p) \/ Listen(p) \/ Revoke(p)
  BY <1>4, <1>a DEF EndListed, EndRevoke, NodeAnswers, Listen, Revoke, Employed
<1>5. CASE Shutdown(p)
  BY <1>5, <1>a DEF Shutdown, Employed
<1>6. CASE Kill(p)
  <2>1. Leave(p, Killed)
    BY <1>6 DEF Kill
  <2>2. QED
    BY <2>1, <1>a, <1>b, CodesNotNone
<1>7. CASE RequestFails(p)
  BY <1>7, <1>b DEF RequestFails, HowEnded
<1>8. CASE RefuseToPay(p)
  BY <1>8, <1>b DEF RefuseToPay, HowEnded
<1>9. CASE PaymentFails(p)
  BY <1>9, <1>b DEF PaymentFails, HowEnded
<1>10. CASE Finish(p)
  <2>1. \/ transfer[p].stage = "done" /\ EndRequest(p, 0)
        \/ EndRequest(p, 1)
        \/ EndRequest(p, 4)
    BY <1>10 DEF Finish
  <2>2. pc[p] = "answered"
    BY <1>10 DEF Finish
  <2>3. QED
    BY <1>b, <2>1, <2>2 DEF HowEnded
<1>11. CASE Begin(p)
  <2>1. exit'[p] = None
    BY <1>11, <1>a DEF Begin, Typed
  <2>2. QED
    BY <1>a, <2>1, CodesNotNone
<1>12. CASE StorePaid(p)
  <2>1. pc[p] = "paying"
    BY <1>12 DEF StorePaid
  <2>2. EndRequest(p, 3)
    BY <1>12, <1>c, <2>1 DEF StorePaid
  <2>3. QED
    BY <1>b, <2>1, <2>2 DEF HowEnded
<1>13. CASE AskNode(p)
  BY <1>13, <1>a DEF AskNode
<1>14. CASE \/ StartBackend(p) \/ UseBackend(p) \/ SendRequest(p) \/ Answered(p)
            \/ Challenged(p) \/ Rejected(p) \/ PayInvoice(p) \/ Receive(p)
            \/ ReadSession(p) \/ RevokeNext(p)
  BY <1>14, <1>c
  DEF StartBackend, UseBackend, Started, SendRequest, Answered, Challenged, Rejected,
      PayInvoice, Receive, ReadSession, RevokeNext
<1>15. CASE RelayAnswers(p) \/ NodeResolves(p)
  BY <1>15, <1>a DEF RelayAnswers, NodeResolves, commandVars
<1>16. CASE CallDryRun(p) \/ CallDownload(p)
  BY <1>16, <1>a DEF CallDryRun, CallDownload
<1>17. QED
  BY <1>1, <1>2, <1>3, <1>4, <1>5, <1>6, <1>7, <1>8, <1>9, <1>10, <1>11, <1>12, <1>13, <1>14,
     <1>15, <1>16
  DEF ProcessStep, WorldStep, StartUp, Request, Manage

\* Only a step of the terminal itself ends its request.
LEMMA EndedNext ==
  ASSUME RequestInv, [Next]_vars, NEW p \in Terminals, Ends(p, Codes)
  PROVE  HowEnded(p)
<1>1. pc'[p] # pc[p] \/ at'[p] # at[p]
  BY DEF Ends
<1>2. CASE \E q \in Terminals : ProcessStep(q) \/ WorldStep(q)
  <2>1. PICK q \in Terminals : ProcessStep(q) \/ WorldStep(q)
    BY <1>2
  <2>2. CASE q # p
    BY <1>1, <2>1, <2>2, OthersUntouched DEF Untouched
  <2>3. QED
    BY <2>1, <2>2, Ended
<1>3. CASE NewVersion \/ UNCHANGED vars
  BY <1>1, <1>3 DEF NewVersion, vars, commandVars
<1>4. QED
  BY <1>2, <1>3 DEF Next, Finished

LEMMA FewerCodes ==
  ASSUME NEW p, NEW codes, codes \subseteq Codes, Ends(p, codes)
  PROVE  Ends(p, Codes)
BY DEF Ends

\* The exit code is true: 0 only when the body has come to its end, with a good
\* status if it went to a file, and was free or had a proof of payment; 2 and 10 only when no invoice is in flight
\* or settled; 2, 3 and 10 only when the output file has not been opened.
THEOREM ExitCodesAreTrue == Spec => ExitCodesTruthful
<1>1. ASSUME RequestInv, [Next]_vars, NEW p \in Terminals
      PROVE  /\ Ends(p, {0}) => /\ transfer[p].stage = "done"
                                /\ Honoured(p)
                                /\ transfer[p].path # None => transfer[p].status # 404
             /\ Ends(p, {2, 3, 10}) => ~transfer[p].touched
             /\ Ends(p, {2, 10}) => invoice[p] = "none"
  <2>a. InProgress(p) /\ GoodStatus(p)
    BY <1>1 DEF RequestInv
  <2>1. CASE Ends(p, {0})
    <3>1. exit'[p] = 0
      BY <2>1 DEF Ends
    <3>2. HowEnded(p)
      BY <1>1, <2>1, FewerCodes, EndedNext DEF Codes
    <3>3. pc[p] = "answered" /\ transfer[p].stage = "done"
      BY <3>1, <3>2 DEF HowEnded
    <3>4. QED
      BY <2>a, <3>1, <3>3 DEF InProgress, GoodStatus, Ends
  <2>2. CASE Ends(p, {2, 3, 10})
    <3>1. exit'[p] \in {2, 3, 10}
      BY <2>2 DEF Ends
    <3>2. HowEnded(p)
      BY <1>1, <2>2, FewerCodes, EndedNext DEF Codes
    <3>3. pc[p] \in {"idle", "preview", "starting", "challenged", "paying"}
      BY <3>1, <3>2 DEF HowEnded
    <3>4. ~transfer[p].touched
      BY <2>a, <3>3 DEF InProgress, NoTransfer
    <3>5. exit'[p] \in {2, 10} => pc[p] \in {"idle", "preview", "starting", "challenged"}
      BY <3>2 DEF HowEnded
    <3>6. exit'[p] \in {2, 10} => invoice[p] = "none"
      BY <2>a, <3>5 DEF InProgress
    <3>7. QED
      BY <3>1, <3>4, <3>6 DEF Ends
  <2>3. Ends(p, {2, 10}) => Ends(p, {2, 3, 10})
    BY DEF Ends
  <2>4. QED
    BY <2>1, <2>2, <2>3
<1>2. RequestInv /\ [Next]_vars =>
        [\A p \in Terminals : Pending(p) =>
           /\ Ends(p, {0}) => /\ transfer[p].stage = "done"
                              /\ Honoured(p)
                              /\ transfer[p].path # None => transfer[p].status # 404
           /\ Ends(p, {2, 3, 10}) => ~transfer[p].touched
           /\ Ends(p, {2, 10}) => invoice[p] = "none"]_vars
  BY <1>1
<1>3. QED
  BY <1>2, AlwaysRequest, PTL DEF Spec, ExitCodesTruthful

\* A request with sound arguments is sent whether or not there is a backend,
\* and one that costs nothing is never refused for the sake of a payment.
THEOREM BackendIsNotNeeded == Spec => BackendNeverInTheWay
<1>1. ASSUME RequestInv, [Next]_vars, NEW p \in Terminals, Ends(p, Codes)
      PROVE  \/ Refusal(Cmd(p)) # None \/ BadHeader(Cmd(p)) \/ BadPath(Cmd(p))
             \/ "dry_run" \in Cmd(p).opts
             \/ transfer[p].stage # "off" /\ (Cmd(p).offer = None => exit'[p] \notin {2, 3})
  <2>1. InProgress(p) /\ Employed(p)
    BY <1>1 DEF RequestInv
  <2>2. HowEnded(p)
    BY <1>1, EndedNext
  <2>3. CASE pc[p] \in {"idle", "preview", "starting"}
    BY <2>1, <2>2, <2>3 DEF HowEnded, Employed
  <2>4. CASE pc[p] \in {"sent", "challenged", "paying", "answered"}
    <3>1. transfer[p].stage # "off"
      BY <2>1, <2>4 DEF InProgress
    <3>2. Cmd(p).offer = None => exit'[p] \notin {2, 3}
      BY <2>1, <2>2, <2>4 DEF HowEnded, InProgress
    <3>3. QED
      BY <3>1, <3>2
  <2>5. QED
    BY <2>2, <2>3, <2>4 DEF HowEnded
<1>2. RequestInv /\ [Next]_vars =>
        [\A p \in Terminals : Pending(p) /\ Ends(p, Codes) =>
           \/ Refusal(Cmd(p)) # None \/ BadHeader(Cmd(p)) \/ BadPath(Cmd(p))
           \/ "dry_run" \in Cmd(p).opts
           \/ transfer[p].stage # "off" /\ (Cmd(p).offer = None => exit'[p] \notin {2, 3})]_vars
  BY <1>1
<1>3. QED
  BY <1>2, AlwaysRequest, PTL DEF Spec, BackendNeverInTheWay
----
(* How prices are read.                                                    *)

\* The amount of an invoice that the code can read, or that is left open, is
\* rounded down to a whole satoshi, and by less than one.
LEMMA RoundedDown ==
  ASSUME NEW o, IsOffer(o)
  PROVE  /\ ParseInvoiceAmountSat(o) \in Nat
         /\ Readable(o) \/ o.unit = "none" => ~AsksFor(o, ParseInvoiceAmountSat(o) + 1)
<1>1. o.digits \in Nat
  BY DEF IsOffer
<1>2. CASE ~Readable(o)
  <2>1. ParseInvoiceAmountSat(o) = 0
    BY <1>2 DEF ParseInvoiceAmountSat
  <2>2. o.unit = "none" => ~AsksFor(o, 1)
    BY DEF AsksFor
  <2>3. QED
    BY <1>2, <2>1, <2>2
<1>3. CASE Readable(o) /\ o.unit = "m"
  BY <1>1, <1>3 DEF ParseInvoiceAmountSat, AsksFor
<1>4. CASE Readable(o) /\ o.unit = "u"
  BY <1>1, <1>4 DEF ParseInvoiceAmountSat, AsksFor
<1>5. CASE Readable(o) /\ o.unit = "n"
  <2>1. o.digits \div 10 \in Nat /\ o.digits < 10 * (o.digits \div 10 + 1)
    BY <1>1
  <2>2. ParseInvoiceAmountSat(o) = o.digits \div 10
    BY <1>5 DEF ParseInvoiceAmountSat
  <2>3. AsksFor(o, o.digits \div 10 + 1) <=> o.digits >= (o.digits \div 10 + 1) * 10
    BY <1>5 DEF AsksFor
  <2>4. QED
    BY <1>1, <2>1, <2>2, <2>3
<1>6. CASE Readable(o) /\ o.unit = "p"
  <2>1. o.digits \div 10000 \in Nat /\ o.digits < 10000 * (o.digits \div 10000 + 1)
    BY <1>1
  <2>2. ParseInvoiceAmountSat(o) = o.digits \div 10000
    BY <1>6 DEF ParseInvoiceAmountSat
  <2>3. AsksFor(o, o.digits \div 10000 + 1) <=> o.digits >= (o.digits \div 10000 + 1) * 10000
    BY <1>6 DEF AsksFor
  <2>4. QED
    BY <1>1, <2>1, <2>2, <2>3
<1>7. Readable(o) => o.unit = "m" \/ o.unit = "u" \/ o.unit = "n" \/ o.unit = "p"
  BY DEF Readable
<1>8. QED
  BY <1>2, <1>3, <1>4, <1>5, <1>6, <1>7, Zenon

\* An invoice that asks for so many satoshis asks for fewer.
LEMMA AsksForFewer ==
  ASSUME NEW o, IsOffer(o), NEW more \in Int, NEW fewer \in Int, fewer <= more,
         AsksFor(o, more)
  PROVE  AsksFor(o, fewer)
<1>1. o.digits \in Nat
  BY DEF IsOffer
<1>2. fewer * 10 <= more * 10 /\ fewer * 10000 <= more * 10000
  OBVIOUS
<1>3. QED
  BY <1>1, <1>2 DEF AsksFor

\* The handlers, which leave out a stated zero, and the dry runs, which ask for
\* a positive amount, read the same price unless a stated amount is negative.
LEMMA SameReading ==
  ASSUME NEW o, IsOffer(o), ~BelowZero(o)
  PROVE  HandledAmount(o) = PreviewedAmount(o) /\ HandledAmount(o) \in Nat
<1>1. o.stated = NoAmount \/ o.stated \in Int
  BY DEF IsOffer
<1>2. ParseInvoiceAmountSat(o) \in Nat
  BY RoundedDown
<1>3. CASE StatesPrice(o)
  <2>1. o.scheme = "Payment" /\ o.stated # NoAmount /\ o.stated \in Nat /\ o.stated > 0
    BY <1>1, <1>3 DEF StatesPrice, BelowZero
  <2>2. QED
    BY <1>3, <2>1 DEF HandledAmount, PreviewedAmount
<1>4. CASE ~StatesPrice(o)
  <2>1. ~(o.scheme = "Payment" /\ o.stated # NoAmount /\ o.stated > 0)
    BY <1>1, <1>4 DEF StatesPrice
  <2>2. QED
    BY <1>2, <1>4, <2>1 DEF HandledAmount, PreviewedAmount
<1>5. QED
  BY <1>3, <1>4

\* What is refused as too expensive a dry run says not to be within the budget.
LEMMA DearIsToldDear ==
  ASSUME NEW o, IsOffer(o), NEW limit \in Int, TooExpensive(o, limit)
  PROVE  ~WithinBudget(o, limit)
<1>1. HandledAmount(o) > 0 /\ HandledAmount(o) > limit
  BY DEF TooExpensive
<1>2. ~BelowZero(o)
  BY <1>1 DEF HandledAmount, BelowZero, IsOffer, StatesPrice
<1>3. QED
  BY <1>1, <1>2, SameReading DEF WithinBudget

\* What is not too expensive is within the budget of a dry run, if neither the
\* amount stated nor the limit is negative.
LEMMA CheapIsToldCheap ==
  ASSUME NEW o, IsOffer(o), ~BelowZero(o), o.usable, NEW limit \in Nat,
         ~TooExpensive(o, limit)
  PROVE  WithinBudget(o, limit)
BY SameReading DEF WithinBudget, TooExpensive

\* What is not too expensive asks for less than a satoshi above the limit, or
\* above zero, if the offer is plain.
LEMMA LimitKept ==
  ASSUME NEW o, IsOffer(o), Plain(o), NEW limit \in Int, ~TooExpensive(o, limit)
  PROVE  ~AsksFor(o, (IF limit > 0 THEN limit ELSE 0) + 1)
<1> DEFINE price == HandledAmount(o)
           most  == IF limit > 0 THEN limit ELSE 0
<1>1. price \in Int /\ ~AsksFor(o, price + 1)
  BY RoundedDown DEF HandledAmount, Plain, StatesPrice, IsOffer
<1>2. price <= most /\ most \in Int
  BY <1>1 DEF TooExpensive
<1> HIDE DEF price, most
<1>3. price + 1 <= most + 1
  BY <1>1, <1>2
<1>4. ~AsksFor(o, most + 1)
  BY <1>1, <1>2, <1>3, AsksForFewer
<1>5. QED
  BY <1>4 DEF most
----
(* What was told of a price, and what is paid.                             *)

\* What the stage of a terminal says of the kind of its command, and the command
\* of the settings.
Equipped(p) ==
  /\ pc[p] \in {"preview", "ready"} => Cmd(p).kind = "get"
  /\ pc[p] = "serving" => Cmd(p).kind \in {"mcp", "call"}
  /\ pc[p] \in {"sent", "challenged", "paying", "answered"} => Cmd(p).kind \in {"get", "call"}
  /\ pc[p] # "idle" /\ Cmd(p).kind = "get" => cfg[p] = Settings(Cmd(p))
  /\ pc[p] # "idle" /\ Cmd(p).kind \in {"get", "mcp", "call"} => cfg[p].max_cost \in Int
  /\ pc[p] # "idle" /\ Cmd(p).kind = "get" => cfg[p].max_cost >= 0
  /\ invoice[p] # "none" => Cmd(p).offer # None /\ Affordable(p)

\* The command or call that a report can be of: an MCP server is still at the call
\* it has answered, a terminal is beyond the get it has run.
Subject(p) == IF pc[p] = "serving" THEN at[p] ELSE at[p] - 1

LimitOf(p, c) == IF c.kind = "get" THEN Settings(c).max_cost ELSE cfg[p].max_cost

\* A report is true of the price.
Told(p) ==
  Subject(p) > 0 /\ report[p].requires_payment =>
    LET c == program[p][Subject(p)] IN
      c.kind \in {"get", "call"} /\ "dry_run" \in c.opts =>
        (report[p].within_budget <=> WithinBudget(c.offer, LimitOf(p, c)))

PriceInv ==
  /\ RequestInv
  /\ DOMAIN cfg = Terminals
  /\ \A p \in Terminals : Equipped(p) /\ Told(p)

LEMMA PriceInit == Init => PriceInv
<1> SUFFICES ASSUME Init
             PROVE  PriceInv
  OBVIOUS
<1>1. RequestInv /\ DOMAIN cfg = Terminals
  BY RequestInit DEF Init
<1>2. ASSUME NEW p \in Terminals
      PROVE  Equipped(p) /\ Told(p)
  <2>1. pc[p] = "idle" /\ invoice[p] = "none" /\ report[p] = NoReport
    BY DEF Init
  <2>2. ~report[p].requires_payment
    BY <2>1 DEF NoReport
  <2>3. Equipped(p)
    BY <2>1 DEF Equipped
  <2>4. Told(p)
    BY <2>1, <2>2 DEF Told
  <2>5. QED
    BY <2>3, <2>4
<1>3. QED
  BY <1>1, <1>2 DEF PriceInv

\* No step writes the settings or the report of another terminal.
LEMMA OthersSettings ==
  ASSUME PriceInv, NEW p \in Terminals, ProcessStep(p) \/ WorldStep(p)
  PROVE  /\ DOMAIN cfg' = Terminals
         /\ \A q \in Terminals \ {p} : cfg'[q] = cfg[q] /\ report'[q] = report[q]
<1> USE DEF StayPut, Exit, NothingTold
<1>a. DOMAIN cfg = Terminals /\ DOMAIN report = Terminals
  BY DEF PriceInv, RequestInv, Typed
<1>1. ASSUME NEW code, Exit(p, code) \/ EndRequest(p, code)
      PROVE  /\ DOMAIN cfg' = Terminals
             /\ \A q \in Terminals \ {p} : cfg'[q] = cfg[q] /\ report'[q] = report[q]
  BY <1>a, <1>1 DEF Leave, EndRequest
<1>2. CASE \/ Refuse(p) \/ RefuseRequest(p) \/ EndListed(p) \/ EndRevoke(p)
           \/ NodeAnswers(p) \/ Shutdown(p) \/ Kill(p) \/ RequestFails(p) \/ RefuseToPay(p)
           \/ PaymentFails(p) \/ Finish(p)
  BY <1>1, <1>2
  DEF Refuse, RefuseRequest, EndListed, EndRevoke, NodeAnswers, Shutdown, Kill,
      RequestFails, RefuseToPay, PaymentFails, Finish
<1>3. CASE Begin(p)
  BY <1>a, <1>3 DEF Begin
<1>4. CASE \/ StartBackend(p) \/ ReadSession(p) \/ RevokeNext(p) \/ RelayAnswers(p)
           \/ UseBackend(p) \/ SendRequest(p) \/ CallDownload(p) \/ Answered(p)
           \/ Challenged(p) \/ Rejected(p) \/ PayInvoice(p) \/ NodeResolves(p)
           \/ Receive(p)
  BY <1>a, <1>4
  DEF StartBackend, ReadSession, RevokeNext, RelayAnswers, commandVars, UseBackend,
      SendRequest, CallDownload, Answered, Challenged, Rejected, PayInvoice, NodeResolves,
      Receive
<1>5. CASE AskNode(p) \/ Listen(p) \/ Revoke(p) \/ StorePaid(p)
  BY <1>1, <1>a, <1>5 DEF AskNode, Listen, Revoke, StorePaid
<1>6. CASE Preview(p)
  BY <1>a, <1>6 DEF Preview, Look, Leave
<1>7. CASE CallDryRun(p)
  BY <1>a, <1>7 DEF CallDryRun, Look
<1>8. QED
  BY <1>2, <1>3, <1>4, <1>5, <1>6, <1>7 DEF ProcessStep, WorldStep, StartUp, Request, Manage

LEMMA UntouchedPriced ==
  ASSUME NEW q \in Terminals, Untouched(q), cfg'[q] = cfg[q], report'[q] = report[q],
         Equipped(q), Told(q)
  PROVE  Equipped(q)' /\ Told(q)'
<1>1. /\ pc'[q] = pc[q] /\ at'[q] = at[q] /\ invoice'[q] = invoice[q]
      /\ program' = program
      /\ Cmd(q)' = Cmd(q)
  BY DEF Untouched, Cmd
<1>2. Affordable(q)' <=> Affordable(q)
  BY <1>1 DEF Affordable
<1>3. Equipped(q)'
  BY <1>1, <1>2 DEF Equipped
<1>4. Told(q)'
  BY <1>1 DEF Told, Subject, LimitOf
<1>5. QED
  BY <1>3, <1>4

\* A command that ends leaves no report but the one of a dry run.
LEMMA LeavePriced ==
  ASSUME PriceInv, NEW p \in Terminals, NEW code, Leave(p, code), NothingTold(p)
  PROVE  Equipped(p)' /\ Told(p)'
<1>1. pc'[p] = "idle" /\ invoice'[p] = "none"
  BY LeaveOver DEF Over, PriceInv
<1>2. report'[p] = NoReport
  BY DEF NothingTold, PriceInv, RequestInv, Typed
<1>3. ~report'[p].requires_payment
  BY <1>2 DEF NoReport
<1>4. Equipped(p)'
  BY <1>1 DEF Equipped
<1>5. Told(p)'
  BY <1>1, <1>3 DEF Told
<1>6. QED
  BY <1>4, <1>5

LEMMA EndPriced ==
  ASSUME PriceInv, NEW p \in Terminals, pc[p] # "idle", NEW code, EndRequest(p, code)
  PROVE  Equipped(p)' /\ Told(p)'
<1>1. CASE Exit(p, code)
  BY <1>1, LeavePriced DEF Exit
<1>2. CASE /\ Cmd(p).kind = "call"
           /\ Goto(p, "serving")
           /\ invoice' = [invoice EXCEPT ![p] = "none"]
           /\ NothingTold(p)
           /\ UNCHANGED <<program, at, cfg>>
  <2>1. /\ pc'[p] = "serving" /\ invoice'[p] = "none" /\ report'[p] = NoReport
        /\ Cmd(p)' = Cmd(p) /\ cfg' = cfg
    BY <1>2 DEF NothingTold, PriceInv, RequestInv, Placed, Typed, Goto, Cmd
  <2>2. ~report'[p].requires_payment
    BY <2>1 DEF NoReport
  <2>3. Equipped(p)'
    BY <1>2, <2>1 DEF PriceInv, Equipped
  <2>4. Told(p)'
    BY <2>1, <2>2 DEF Told
  <2>5. QED
    BY <2>3, <2>4
<1>3. QED
  BY <1>1, <1>2 DEF EndRequest

\* A step within a command, which keeps its settings and what was told before it.
LEMMA StayPriced ==
  ASSUME PriceInv, NEW p \in Terminals, pc[p] # "idle" \/ pc'[p] = pc[p],
         UNCHANGED <<program, at, cfg, report>>,
         pc[p] = "serving" \/ pc'[p] = "serving" => pc'[p] = pc[p],
         pc'[p] = "ready" => Cmd(p).kind = "get",
         pc'[p] = "preview" => pc[p] = "preview",
         pc'[p] \in {"sent", "challenged", "paying", "answered"} =>
           pc[p] \in {"ready", "sent", "challenged", "paying", "answered"},
         invoice'[p] # "none" =>
           invoice[p] # "none" \/ (Cmd(p).offer # None /\ Affordable(p))
  PROVE  Equipped(p)' /\ Told(p)'
<1>1. Equipped(p) /\ Told(p)
  BY DEF PriceInv
<1>2. Cmd(p)' = Cmd(p)
  BY DEF Cmd
<1>3. Affordable(p)' <=> Affordable(p)
  BY <1>2 DEF Affordable
<1>4. Equipped(p)'
  BY <1>1, <1>2, <1>3 DEF Equipped
<1>5. Subject(p)' = Subject(p)
  BY DEF Subject
<1>6. Told(p)'
  BY <1>1, <1>5 DEF Told, LimitOf
<1>7. QED
  BY <1>4, <1>6
\* Valid looks at the settings of every get that is not refused.
LEMMA RefusalValid ==
  ASSUME NEW c, Refusal(c) = None, c.kind = "get"
  PROVE  Settings(c).max_cost >= 0
<1> DEFINE failed == {i \in DOMAIN Checks(c) : Checks(c)[i].fails}
<1> DEFINE invalid == c.kind \in {"get", "serve"} /\ ~Valid(Settings(c))
<1>1. /\ DOMAIN Checks(c) = 1..6
      /\ \A i \in 1..6 : Checks(c)[i].code \in {1, 2}
  BY DEF Checks
<1>a. Checks(c)[5].fails = invalid
  <2>1. Checks(c)[5] = [code |-> 1, fails |-> invalid]
    BY DEF Checks
  <2>2. QED
    BY <2>1
<1>2. CASE failed # {}
  <2>1. failed \subseteq 1..6
    BY <1>1
  <2>2. \E i \in failed : \A j \in failed : i <= j
    BY <1>2, <2>1
  <2>3. (CHOOSE i \in failed : \A j \in failed : i <= j) \in 1..6
    BY <2>1, <2>2
  <2>4. Refusal(c) = Checks(c)[CHOOSE i \in failed : \A j \in failed : i <= j].code
    BY <1>2 DEF Refusal
  <2>5. Refusal(c) \in {1, 2}
    BY <1>1, <2>3, <2>4
  <2>6. QED
    BY <2>5, CommandsAssumption
<1>3. CASE failed = {}
  <2>1. 5 \in DOMAIN Checks(c)
    BY <1>1
  <2>2. ~Checks(c)[5].fails
    BY <1>3, <2>1
  <2>3. ~invalid
    BY <1>a, <2>2
  <2>4. QED
    BY <2>3 DEF Valid
<1>4. QED
  BY <1>2, <1>3

LEMMA BeginPriced ==
  ASSUME PriceInv, NEW p \in Terminals, Begin(p)
  PROVE  Equipped(p)' /\ Told(p)'
<1> DEFINE c == Cmd(p)
<1>1. /\ UNCHANGED <<program, at, invoice, report>>
      /\ pc[p] = "idle"
      /\ at[p] <= Len(program[p])
      /\ Refusal(c) = None
      /\ cfg'[p] = Settings(c)
      /\ c' = c
  BY DEF Begin, PriceInv, Cmd
<1>2. \/ pc'[p] = "preview" /\ c.kind = "get"
      \/ pc'[p] = "starting" /\ c.kind \in {"get", "mcp", "status", "info", "pair"}
      \/ pc'[p] = "opening" /\ c.kind = "serve"
      \/ pc'[p] = "listing" /\ c.kind \in {"sessions", "revoke_all"}
      \/ pc'[p] = "revoking" /\ c.kind = "revoke"
  BY DEF Begin, Goto, PriceInv, RequestInv, Placed
<1>3. c.kind # "call" /\ pc'[p] \notin {"idle", "serving"}
  BY <1>2
<1>4. /\ at[p] \in Nat \ {0} /\ Len(program[p]) \in Nat
      /\ program \in Programs
  BY CommandsAssumption DEF PriceInv, RequestInv, Placed
<1>5. Settings(c).max_cost \in Int
  BY <1>1, CmdWellFormed DEF WellFormed, PriceInv, RequestInv
<1>6. c.kind = "get" => Settings(c).max_cost >= 0
  BY <1>1, RefusalValid
<1>7. invoice'[p] = "none"
  BY <1>1 DEF PriceInv, RequestInv, InProgress
<1>8. Equipped(p)'
  BY <1>1, <1>2, <1>5, <1>6, <1>7 DEF Equipped
<1>9. Told(p)'
  <2>1. Told(p)
    BY DEF PriceInv
  <2>2. Subject(p) = at[p] - 1 /\ Subject(p)' = at[p] - 1
    BY <1>1, <1>3 DEF Subject
  <2>3. at[p] > 1 => program[p][at[p] - 1].kind # "call"
    BY <1>1, <1>3, <1>4, CommandsAssumption DEF CallsServed, Cmd
  <2>4. ASSUME at[p] > 1, report[p].requires_payment, program[p][at[p] - 1].kind \in {"get", "call"},
               "dry_run" \in program[p][at[p] - 1].opts
        PROVE  report[p].within_budget <=>
                 WithinBudget(program[p][at[p] - 1].offer, Settings(program[p][at[p] - 1]).max_cost)
    BY <1>4, <2>1, <2>2, <2>3, <2>4 DEF Told, LimitOf
  <2>5. QED
    BY <1>1, <1>3, <1>4, <2>1, <2>2, <2>3, <2>4 DEF Told, LimitOf
<1>10. QED
  BY <1>8, <1>9

\* The report of a dry run, or none of a price when its request has failed.
LEMMA LookReport ==
  ASSUME PriceInv, NEW p \in Terminals, NEW c, NEW limit, Look(p, c, limit)
  PROVE  report'[p].requires_payment =>
           (report'[p].within_budget <=> WithinBudget(c.offer, limit))
<1>1. DOMAIN report = Terminals
  BY DEF PriceInv, RequestInv, Typed
<1> DEFINE due == c.offer # None
           fit == c.offer # None /\ WithinBudget(c.offer, limit)
<1>2. CASE report' = [report EXCEPT ![p] =
             [cached |-> token, requires_payment |-> due, within_budget |-> fit]]
  <2>1. report'[p] = [cached |-> token, requires_payment |-> due, within_budget |-> fit]
    BY <1>1, <1>2
  <2>2. report'[p].requires_payment = due /\ report'[p].within_budget = fit
    BY <2>1
  <2>3. QED
    BY <2>2
<1>3. CASE report' = [report EXCEPT ![p] = [NoReport EXCEPT !.cached = token]]
  <2>1. report'[p].requires_payment = FALSE
    BY <1>1, <1>3 DEF NoReport
  <2>2. QED
    BY <2>1
<1>4. QED
  BY <1>2, <1>3 DEF Look

LEMMA PreviewPriced ==
  ASSUME PriceInv, NEW p \in Terminals, Preview(p)
  PROVE  Equipped(p)' /\ Told(p)'
<1>1. /\ Cmd(p).kind = "get" /\ cfg[p] = Settings(Cmd(p))
  BY DEF Preview, PriceInv, Equipped
<1>2. /\ pc'[p] = "idle" /\ invoice'[p] = "none"
      /\ program' = program
      /\ at'[p] = at[p] + 1
  <2>1. pc'[p] = "idle" /\ invoice'[p] = "none"
    BY LeaveOver DEF Over, PriceInv, Preview
  <2>2. QED
    BY <1>1, <2>1 DEF Preview, Leave, Following, PriceInv, RequestInv, Placed
<1>3. report'[p].requires_payment =>
        (report'[p].within_budget <=> WithinBudget(Cmd(p).offer, Settings(Cmd(p)).max_cost))
  BY <1>1, LookReport DEF Preview
<1>4. at[p] \in Nat
  BY DEF PriceInv, RequestInv, Placed
<1>5. Equipped(p)'
  BY <1>2 DEF Equipped
<1>6. Told(p)'
  <2>1. Subject(p)' = at[p]
    BY <1>2, <1>4 DEF Subject
  <2>2. program'[p][Subject(p)'] = Cmd(p)
    BY <1>2, <2>1 DEF Cmd
  <2>3. QED
    BY <1>1, <1>2, <1>3, <2>1, <2>2 DEF Told, LimitOf
<1>7. QED
  BY <1>5, <1>6

\* The next call of a server that has one is a call.
LEMMA NextIsCall ==
  ASSUME PriceInv, NEW p \in Terminals, pc[p] = "serving", at[p] < Len(program[p])
  PROVE  NextCall(p).kind = "call" /\ at[p] \in Nat
<1>1. /\ at[p] \in Nat \ {0} /\ Len(program[p]) \in Nat /\ program \in Programs
      /\ Cmd(p).kind \in {"mcp", "call"}
  BY CommandsAssumption DEF PriceInv, RequestInv, Placed, Equipped
<1>2. at[p] + 1 \in 1..Len(program[p]) /\ at[p] + 1 > 1 /\ (at[p] + 1) - 1 = at[p]
  BY <1>1
<1>3. program[p][at[p] + 1].kind = "call" <=>
        at[p] + 1 > 1 /\ program[p][(at[p] + 1) - 1].kind \in {"mcp", "call"}
  BY <1>1, <1>2, CommandsAssumption DEF CallsServed
<1>4. QED
  BY <1>1, <1>2, <1>3 DEF NextCall, Cmd

LEMMA CallPriced ==
  ASSUME PriceInv, NEW p \in Terminals, CallDryRun(p) \/ CallDownload(p)
  PROVE  Equipped(p)' /\ Told(p)'
<1>1. /\ pc[p] = "serving" /\ at[p] < Len(program[p])
      /\ UNCHANGED <<program, cfg, invoice>>
      /\ at'[p] = at[p] + 1
  BY DEF CallDryRun, CallDownload, PriceInv, RequestInv, Placed
<1>2. NextCall(p).kind = "call" /\ at[p] \in Nat
  BY <1>1, NextIsCall
<1>3. Cmd(p)' = NextCall(p)
  BY <1>1 DEF Cmd, NextCall
<1>4. Equipped(p) /\ Told(p) /\ Cmd(p).kind \in {"mcp", "call"} /\ invoice[p] = "none"
  BY <1>1 DEF PriceInv, Equipped, RequestInv, InProgress
<1>5. CASE CallDryRun(p)
  <2>1. /\ pc'[p] = "serving"
        /\ report'[p].requires_payment =>
             (report'[p].within_budget <=> WithinBudget(NextCall(p).offer, cfg[p].max_cost))
    BY <1>1, <1>5, LookReport DEF CallDryRun
  <2>2. Equipped(p)'
    BY <1>1, <1>2, <1>3, <1>4, <2>1 DEF Equipped
  <2>3. program'[p][Subject(p)'] = NextCall(p)
    BY <1>1, <2>1 DEF Subject, NextCall
  <2>4. Told(p)'
    BY <1>1, <1>2, <2>1, <2>3 DEF Told, LimitOf
  <2>5. QED
    BY <2>2, <2>4
<1>6. CASE CallDownload(p)
  <2>1. pc'[p] = "sent" /\ report' = report
    BY <1>6 DEF CallDownload, Goto, PriceInv, RequestInv, Placed
  <2>2. Equipped(p)'
    BY <1>1, <1>2, <1>3, <1>4, <2>1 DEF Equipped
  <2>3. Subject(p)' = Subject(p)
    BY <1>1, <1>2, <2>1 DEF Subject
  <2>4. Told(p)'
    BY <1>1, <1>4, <2>1, <2>3 DEF Told, LimitOf
  <2>5. QED
    BY <2>2, <2>4
<1>7. QED
  BY <1>5, <1>6

\* Once an MCP server's backend is up or given up, no call has been reported of.
LEMMA ServePriced ==
  ASSUME PriceInv, NEW p \in Terminals, UseBackend(p)
  PROVE  Equipped(p)' /\ Told(p)'
<1>1. /\ UNCHANGED <<program, at, cfg, invoice, report>>
      /\ pc[p] = "starting"
      /\ Cmd(p)' = Cmd(p)
  BY DEF UseBackend, Started, StayPut, Cmd
<1>2. CASE Cmd(p).kind = "mcp" /\ pc'[p] = "serving"
  <2>1. Equipped(p) /\ Told(p) /\ invoice[p] = "none"
    BY <1>1 DEF PriceInv, RequestInv, InProgress
  <2>2. Equipped(p)'
    BY <1>1, <1>2, <2>1 DEF Equipped
  <2>3. program'[p][Subject(p)'] = Cmd(p)
    BY <1>1, <1>2 DEF Subject, Cmd
  <2>4. Told(p)'
    BY <1>1, <1>2, <2>1, <2>3 DEF Told
  <2>5. QED
    BY <2>2, <2>4
<1>3. CASE Cmd(p).kind = "get" /\ pc'[p] = "ready"
  BY <1>1, <1>3, StayPriced
<1>4. QED
  BY <1>2, <1>3 DEF UseBackend, Goto, PriceInv, RequestInv, Placed
LEMMA OwnPriced ==
  ASSUME PriceInv, NEW p \in Terminals, ProcessStep(p) \/ WorldStep(p)
  PROVE  Equipped(p)' /\ Told(p)'
<1> USE DEF StayPut
<1>a. RequestInv /\ Placed /\ Typed /\ InProgress(p) /\ Equipped(p)
  BY DEF PriceInv, RequestInv
<1>b. pc \in [Terminals -> Stages]
  BY <1>a DEF Placed
<1>1. CASE \/ Refuse(p) \/ RefuseRequest(p) \/ EndListed(p) \/ EndRevoke(p)
           \/ NodeAnswers(p) \/ Shutdown(p) \/ Kill(p)
  BY <1>1, LeavePriced
  DEF Refuse, RefuseRequest, EndListed, EndRevoke, NodeAnswers, Shutdown, Kill, Exit
<1>2. CASE RequestFails(p) \/ RefuseToPay(p) \/ PaymentFails(p) \/ Finish(p)
  BY <1>2, EndPriced DEF RequestFails, RefuseToPay, PaymentFails, Finish
<1>3. CASE Begin(p) \/ Preview(p) \/ UseBackend(p) \/ CallDryRun(p) \/ CallDownload(p)
  BY <1>3, BeginPriced, PreviewPriced, ServePriced, CallPriced
<1>4. CASE StartBackend(p) \/ ReadSession(p) \/ RevokeNext(p) \/ RelayAnswers(p) \/ Receive(p)
  <2>1. UNCHANGED <<program, at, pc, cfg, report, invoice>>
    BY <1>4
    DEF StartBackend, ReadSession, RevokeNext, RelayAnswers, Receive, commandVars
  <2>2. /\ UNCHANGED <<program, at, cfg, report>>
        /\ pc'[p] = pc[p] /\ invoice'[p] = invoice[p]
    BY <2>1
  <2>3. pc[p] = "ready" => Cmd(p).kind = "get"
    BY <1>a DEF Equipped
  <2>4. QED
    BY <2>2, <2>3, StayPriced
<1>5. CASE AskNode(p)
  <2>1. CASE pc[p] = "starting" /\ Goto(p, "asking node") /\ StayPut
    <3>1. pc'[p] = "asking node"
      BY <1>b, <2>1 DEF Goto
    <3>2. QED
      BY <2>1, <3>1, StayPriced
  <2>2. QED
    BY <1>5, <2>1, LeavePriced DEF AskNode, Started, Exit
<1>6. CASE SendRequest(p)
  <2>1. /\ pc[p] = "ready" /\ pc'[p] = "sent"
        /\ UNCHANGED <<program, at, cfg, report, invoice>>
    BY <1>b, <1>6 DEF SendRequest, Goto
  <2>2. QED
    BY <2>1, StayPriced
<1>7. CASE Answered(p)
  <2>1. pc[p] = "sent" /\ pc'[p] = "answered" /\ StayPut
    BY <1>b, <1>7 DEF Answered, Goto
  <2>2. QED
    BY <2>1, StayPriced
<1>8. CASE Challenged(p) \/ Rejected(p)
  <2>1. /\ pc[p] = "sent" /\ pc'[p] \in {"sent", "challenged"}
        /\ UNCHANGED <<program, at, cfg, report, invoice>>
    BY <1>b, <1>8 DEF Challenged, Rejected, Goto
  <2>2. QED
    BY <2>1, StayPriced
<1>9. CASE PayInvoice(p)
  <2>1. /\ pc[p] = "challenged" /\ pc'[p] = "paying"
        /\ Cmd(p).offer # None /\ Affordable(p)
        /\ UNCHANGED <<program, at, cfg, report>>
    BY <1>a, <1>b, <1>9 DEF PayInvoice, Goto, InProgress
  <2>2. QED
    BY <2>1, StayPriced
<1>10. CASE NodeResolves(p)
  <2>1. invoice[p] # "none" /\ UNCHANGED <<program, at, pc, cfg, report>>
    BY <1>10 DEF NodeResolves
  <2>2. pc'[p] = pc[p]
    BY <2>1
  <2>3. pc[p] = "ready" => Cmd(p).kind = "get"
    BY <1>a DEF Equipped
  <2>4. QED
    BY <2>1, <2>2, <2>3, StayPriced
<1>11. CASE StorePaid(p)
  <2>1. CASE /\ pc[p] = "paying" /\ Goto(p, "sent")
             /\ UNCHANGED <<program, at, cfg, report, invoice>>
    <3>1. pc'[p] = "sent"
      BY <1>b, <2>1 DEF Goto
    <3>2. QED
      BY <2>1, <3>1, StayPriced
  <2>2. QED
    BY <1>11, <2>1, EndPriced DEF StorePaid
<1>12. CASE Listen(p)
  <2>1. CASE /\ pc[p] = "opening" /\ Goto(p, "listening")
             /\ UNCHANGED <<program, at, cfg, report, invoice>>
    <3>1. pc'[p] = "listening"
      BY <1>b, <2>1 DEF Goto
    <3>2. QED
      BY <2>1, <3>1, StayPriced
  <2>2. QED
    BY <1>12, <2>1, LeavePriced DEF Listen, Exit
<1>13. CASE Revoke(p)
  <2>1. CASE pc[p] = "revoking" /\ Goto(p, "revoked") /\ StayPut
    <3>1. pc'[p] = "revoked"
      BY <1>b, <2>1 DEF Goto
    <3>2. QED
      BY <2>1, <3>1, StayPriced
  <2>2. QED
    BY <1>13, <2>1, LeavePriced DEF Revoke, Exit
<1>14. QED
  BY <1>1, <1>2, <1>3, <1>4, <1>5, <1>6, <1>7, <1>8, <1>9, <1>10, <1>11, <1>12, <1>13
  DEF ProcessStep, WorldStep, StartUp, Request, Manage

LEMMA PriceNext ==
  ASSUME PriceInv, RequestInv', [Next]_vars
  PROVE  PriceInv'
<1>1. CASE \E p \in Terminals : ProcessStep(p) \/ WorldStep(p)
  <2>1. PICK p \in Terminals : ProcessStep(p) \/ WorldStep(p)
    BY <1>1
  <2>2. RequestInv
    BY DEF PriceInv
  <2>3. DOMAIN cfg' = Terminals
    BY <2>1, OthersSettings
  <2>4. ASSUME NEW q \in Terminals, q # p
        PROVE  Equipped(q)' /\ Told(q)'
    <3>1. Untouched(q)
      BY <2>1, <2>2, <2>4, OthersUntouched
    <3>2. cfg'[q] = cfg[q] /\ report'[q] = report[q]
      BY <2>1, <2>4, OthersSettings
    <3>3. Equipped(q) /\ Told(q)
      BY DEF PriceInv
    <3>4. QED
      BY <3>1, <3>2, <3>3, UntouchedPriced
  <2>5. QED
    BY <2>1, <2>3, <2>4, OwnPriced DEF PriceInv
<1>2. CASE NewVersion \/ UNCHANGED vars
  <2>1. UNCHANGED <<program, at, pc, cfg, exit, report, invoice, cred, transfer>>
    BY <1>2 DEF NewVersion, ChangeResource, vars, commandVars, downloadVars
  <2>2. ASSUME NEW q \in Terminals
        PROVE  Equipped(q)' /\ Told(q)'
    <3>1. Untouched(q)
      BY <2>1 DEF Untouched
    <3>2. Equipped(q) /\ Told(q)
      BY DEF PriceInv
    <3>3. QED
      BY <2>1, <3>1, <3>2, UntouchedPriced
  <2>3. QED
    BY <2>1, <2>2 DEF PriceInv
<1>3. QED
  BY <1>1, <1>2 DEF Next, Finished

LEMMA AlwaysPriced == Spec => []PriceInv
BY PriceInit, PriceNext, AlwaysRequest, PTL DEF Spec

\* An invoice is sent out where a challenge was found affordable, and a request is
\* refused with 2 where one was found too dear.
LEMMA Verdict ==
  ASSUME PriceInv, [Next]_vars, NEW p \in Terminals
  PROVE  /\ invoice[p] = "none" /\ invoice'[p] = "inFlight" =>
              pc[p] = "challenged" /\ Affordable(p)
         /\ pc[p] = "challenged" /\ Ends(p, {2}) =>
              Cmd(p).offer.usable /\ TooExpensive(Cmd(p).offer, cfg[p].max_cost)
<1> USE DEF StayPut, Exit
<1>a. RequestInv /\ Typed /\ Placed /\ InProgress(p)
  BY DEF PriceInv, RequestInv
<1>b. Ends(p, {2}) => exit'[p] = 2 /\ <<pc[p], at[p]>>' # <<pc[p], at[p]>>
  BY DEF Ends
<1>c. ASSUME NEW code, Leave(p, code) \/ EndRequest(p, code)
      PROVE  exit'[p] = code /\ invoice'[p] = "none"
  BY <1>a, <1>c, LeaveOver, EndOver DEF Over
<1>d. pc[p] = "challenged" => exit[p] # 2
  BY <1>a, CommandsAssumption DEF InProgress
<1>1. CASE ProcessStep(p) \/ WorldStep(p)
  <2>1. CASE \/ Refuse(p) \/ Preview(p) \/ RefuseRequest(p) \/ EndListed(p) \/ EndRevoke(p)
             \/ NodeAnswers(p) \/ Shutdown(p) \/ RequestFails(p) \/ PaymentFails(p) \/ Finish(p)
    BY <1>c, <2>1
    DEF Refuse, Preview, RefuseRequest, Started, EndListed, EndRevoke, NodeAnswers, Shutdown,
        RequestFails, PaymentFails, Finish
  <2>2. CASE Kill(p)
    BY <1>b, <1>c, <2>2 DEF Kill, Killed
  <2>3. CASE RefuseToPay(p)
    BY <1>b, <1>c, <2>3 DEF RefuseToPay, Affordable
  <2>4. CASE PayInvoice(p)
    BY <1>b, <1>d, <2>4 DEF PayInvoice
  <2>5. CASE \/ Begin(p) \/ UseBackend(p) \/ SendRequest(p) \/ Answered(p) \/ Challenged(p)
             \/ Rejected(p) \/ Receive(p) \/ ReadSession(p) \/ RevokeNext(p)
             \/ StartBackend(p) \/ CallDryRun(p) \/ CallDownload(p)
    BY <2>5
    DEF Begin, UseBackend, Started, SendRequest, Answered, Challenged, Rejected, Receive,
        ReadSession, RevokeNext, StartBackend, CallDryRun, CallDownload
  <2>6. CASE AskNode(p) \/ Listen(p) \/ Revoke(p) \/ StorePaid(p)
    BY <1>c, <2>6 DEF AskNode, Started, Listen, Revoke, StorePaid
  <2>7. CASE RelayAnswers(p)
    BY <1>b, <2>7 DEF RelayAnswers, commandVars
  <2>8. CASE NodeResolves(p)
    BY <1>b, <2>8 DEF NodeResolves
  <2>9. QED
    BY <1>1, <2>1, <2>2, <2>3, <2>4, <2>5, <2>6, <2>7, <2>8
    DEF ProcessStep, WorldStep, StartUp, Request, Manage
<1>2. CASE \E q \in Terminals \ {p} : ProcessStep(q) \/ WorldStep(q)
  <2>1. Untouched(p)
    BY <1>a, <1>2, OthersUntouched
  <2>2. QED
    BY <1>b, <2>1 DEF Untouched
<1>3. CASE NewVersion \/ UNCHANGED vars
  BY <1>b, <1>3 DEF NewVersion, vars, commandVars
<1>4. QED
  BY <1>1, <1>2, <1>3 DEF Next, Finished

\* A request is refused for its price only where its dry run has said that the
\* price is not within the budget, whatever the signs of amounts and limits; and it
\* is paid only where it was said to be, unless the amount stated or the limit of
\* an MCP server is below zero.
THEOREM PreviewsAreKept == Spec => PreviewsKept
<1>1. ASSUME PriceInv, [Next]_vars, NEW p \in Terminals,
             Pending(p), Previewed(p), report[p].requires_payment
      PROVE  /\ RefusedIfDear(p)
             /\ ~BelowZero(Cmd(p).offer) /\ cfg[p].max_cost >= 0 => PaidUnlessDear(p)
  <2> DEFINE last == program[p][at[p] - 1]
             limit == cfg[p].max_cost
  <2>1. CASE pc[p] = "challenged"
    <3>1. /\ Equipped(p) /\ Told(p) /\ Placed
          /\ Cmd(p).offer # None
      BY <1>1, <2>1 DEF PriceInv, RequestInv, InProgress
    <3>2. /\ at[p] \in Nat \ {0} /\ Len(program[p]) \in Nat /\ program \in Programs
          /\ at[p] \in 1..Len(program[p])
      BY <1>1, <3>1, CommandsAssumption DEF Placed, Pending
    <3>3. IsOffer(Cmd(p).offer)
      BY <1>1, <3>1, CmdWellFormed DEF WellFormed, Pending
    <3>4. Cmd(p).kind \in {"get", "call"} /\ limit \in Int
      BY <2>1, <3>1 DEF Equipped
    <3>5. /\ at[p] > 1
          /\ last.kind \in {"get", "call"} /\ "dry_run" \in last.opts
          /\ last.offer = Cmd(p).offer
          /\ last.kind = "get" => Settings(last) = Settings(Cmd(p))
      BY <1>1 DEF Previewed
    <3>6. last.kind = "get" => Settings(last).max_cost = limit
      <4>1. Cmd(p).kind = "call" => last.kind \in {"mcp", "call"}
        BY <3>2, CommandsAssumption DEF CallsServed, Cmd
      <4>2. QED
        BY <2>1, <3>1, <3>4, <3>5, <4>1 DEF Equipped
    <3>7. Subject(p) = at[p] - 1 /\ Subject(p) > 0
      BY <2>1, <3>2, <3>5 DEF Subject
    <3>8. report[p].within_budget <=> WithinBudget(Cmd(p).offer, limit)
      BY <1>1, <3>1, <3>5, <3>6, <3>7 DEF Told, LimitOf
    <3>9. RefusedIfDear(p)
      BY <1>1, <3>3, <3>4, <3>8, DearIsToldDear, Verdict DEF RefusedIfDear
    <3>10. ASSUME ~BelowZero(Cmd(p).offer), limit >= 0
           PROVE  PaidUnlessDear(p)
      BY <1>1, <3>3, <3>4, <3>8, <3>10, CheapIsToldCheap, Verdict
      DEF PaidUnlessDear, Affordable
    <3>11. QED
      BY <3>9, <3>10
  <2>2. QED
    BY <1>1, <2>1, Verdict DEF RefusedIfDear, PaidUnlessDear
<1>2. PriceInv /\ [Next]_vars =>
        [\A p \in Terminals : Pending(p) /\ Previewed(p) /\ report[p].requires_payment =>
           /\ RefusedIfDear(p)
           /\ ~BelowZero(Cmd(p).offer) /\ cfg[p].max_cost >= 0 => PaidUnlessDear(p)]_vars
  BY <1>1
<1>3. QED
  BY <1>2, AlwaysPriced, PTL DEF Spec, PreviewsKept

\* What a request in progress has been asked for is within its limit.
LEMMA BudgetHeld ==
  ASSUME PriceInv, NEW p \in Terminals, invoice[p] # "none", Plain(Cmd(p).offer)
  PROVE  ~AsksFor(Cmd(p).offer, Budget(p) + 1)
<1>1. Equipped(p) /\ InProgress(p) /\ Placed
  BY DEF PriceInv, RequestInv
<1>2. pc[p] \in {"sent", "paying", "answered"} /\ Cmd(p).offer # None /\ Affordable(p)
  BY <1>1 DEF Equipped, InProgress
<1>3. cfg[p].max_cost \in Int
  BY <1>1, <1>2 DEF Equipped
<1>4. IsOffer(Cmd(p).offer)
  BY <1>1, <1>2, CmdWellFormed DEF WellFormed, Placed
<1>5. QED
  BY <1>2, <1>3, <1>4, LimitKept DEF Affordable, Budget

\* The budget is kept whichever way the limit was set, and by an MCP server too,
\* for every offer whose invoice the code can read or whose challenge states what
\* its invoice asks for.  The run settings shows what is paid for the others.
THEOREM BudgetIsKept == Spec => []BudgetKept
<1>1. PriceInv => BudgetKept
  BY BudgetHeld DEF BudgetKept
<1>2. QED
  BY <1>1, AlwaysPriced, PTL

\* A get that was told in this way runs with the limit it was told.
LEMMA LimitAsTold ==
  ASSUME NEW c, c.kind = "get", ToldByFlag(c)
  PROVE  Settings(c).max_cost = ToldLimit(c)
<1>1. "max_cost" \in DOMAIN LoadConfig(c)
  BY DEF LoadConfig, Defaults
<1>2. QED
  BY <1>1 DEF Settings, Override, FlagValue, ToldLimit, ToldByFlag

\* Of parameters, flag, environment and file, whichever of them there are, the one
\* that goes first sets the limit; but `settings` shows that parameters without
\* the flag do not.
THEOREM FlagsAreObeyed == Spec => []FlagsObeyed
<1>1. ASSUME PriceInv, NEW p \in Terminals, invoice[p] # "none",
             Cmd(p).kind = "get", ToldByFlag(Cmd(p)), Plain(Cmd(p).offer)
      PROVE  ~AsksFor(Cmd(p).offer, ToldLimit(Cmd(p)) + 1)
  <2>1. Equipped(p) /\ InProgress(p)
    BY <1>1 DEF PriceInv, RequestInv
  <2>2. pc[p] # "idle"
    BY <1>1, <2>1 DEF InProgress
  <2>3. cfg[p].max_cost = ToldLimit(Cmd(p)) /\ cfg[p].max_cost \in Nat
    BY <1>1, <2>1, <2>2, LimitAsTold DEF Equipped
  <2>4. Budget(p) = ToldLimit(Cmd(p))
    BY <2>3 DEF Budget
  <2>5. QED
    BY <1>1, <2>4, BudgetHeld
<1>2. PriceInv => FlagsObeyed
  BY <1>1 DEF FlagsObeyed
<1>3. QED
  BY <1>2, AlwaysPriced, PTL
====
