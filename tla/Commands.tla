---- MODULE Commands ----
(***************************************************************************)
(* lnget's commands from their arguments to their exit code: the settings, *)
(* the token store, the Lightning backend or the one that stands in for    *)
(* it, the request with its payment, the output file, and the way out.     *)
(*                                                                         *)
(* Commands are run one after the other in each terminal, and at the same  *)
(* time in several.  They share the session files and the relay            *)
(* (LNCSessions), the output files (Downloads), the token store and the    *)
(* port of the API server.  A payment is the short form of what            *)
(* PaymentTransport does in detail: one request per process, one domain.   *)
(***************************************************************************)
EXTENDS LNCSessions, Downloads, Offers

CONSTANTS
  Programs,       \* the commands of each terminal, in every scenario
  DefaultMaxCost  \* DefaultMaxCostSats

VARIABLES
  program,   \* the scenario
  at,        \* the command each terminal is at
  pc,        \* how far it has come
  cfg,       \* the settings of the process
  exit,      \* the exit code of the last command, or the result of a call
  report,    \* what the command or call before has told, if it was a dry run
  invoice,   \* what has become of the invoice the command pays
  token,     \* whether the token store holds a paid token for the server
  cred,      \* the credential a request goes out with: cached, or retried with
  listener   \* the terminal whose API server has the port

commandVars == <<program, at, pc, cfg, exit, report, invoice, token, cred, listener>>
vars == <<sessionVars, downloadVars, commandVars>>

----
(* Settings.  A map from names to values stands for the file, for the      *)
(* environment and for the flags that were given.                          *)

Defaults == [mode |-> "lnd", max_cost |-> DefaultMaxCost, auto_pay |-> TRUE]

\* viper fills in the settings it has a default or a line of the file for; the
\* environment only overrides those.
LoadConfig(c) ==
  [s \in DOMAIN Defaults \cup DOMAIN c.file |->
     IF s \in DOMAIN c.env THEN c.env[s]
     ELSE IF s \in DOMAIN c.file THEN c.file[s] ELSE Defaults[s]]

\* The variable of a flag: the JSON parameters are written over what was parsed.
FlagValue(c, s) == IF s \in DOMAIN c.params THEN c.params[s] ELSE c.flags[s]

\* Faulty variant: the flag's default is taken whether or not it was given.
OverrideAlways(c, settings) ==
  [s \in DOMAIN settings |->
     IF s = "max_cost" THEN IF "max_cost" \in DOMAIN c.flags THEN FlagValue(c, s) ELSE DefaultMaxCost
     ELSE settings[s]]

\* loadConfigWithOverrides, for the main command: it asks which flags were given
\* on the command line before it takes a flag's variable.
Override(c, settings) ==
  [s \in DOMAIN settings |->
     IF s = "max_cost" /\ s \in DOMAIN c.flags THEN FlagValue(c, s)
     ELSE IF s = "auto_pay" /\ "no_pay" \in c.opts THEN FALSE ELSE settings[s]]

Settings(c) == IF c.kind = "get" THEN Override(c, LoadConfig(c)) ELSE LoadConfig(c)

Setting(settings, s) == IF s \in DOMAIN settings THEN settings[s] ELSE None

Valid(settings) ==
  /\ settings.max_cost >= 0
  /\ settings.mode \in {"lnd", "lnc", "neutrino", "none"}

\* resolvePairingPhrase: the argument or stdin, or else the environment.
Phrase(c) == IF c.session # None THEN c.session ELSE Setting(c.env, "phrase")

\* What a command checks before it touches anything shared, in its order, and
\* what it exits with.
Checks(c) ==
  << [code |-> 2, fails |-> c.kind = "get" /\ "bad_url" \in c.opts],
     [code |-> 1, fails |-> c.kind = "pair" /\ Phrase(c) = None],
     [code |-> 1, fails |-> "bad_config" \in c.opts],
     [code |-> 2, fails |-> c.kind = "get" /\ "bad_scheme" \in c.opts],
     [code |-> 1, fails |-> c.kind \in {"get", "serve"} /\ ~Valid(Settings(c))],
     [code |-> 1, fails |-> c.kind \notin {"status", "info"} /\ "bad_dirs" \in c.opts] >>

Refusal(c) ==
  LET failed == {i \in DOMAIN Checks(c) : Checks(c)[i].fails} IN
    IF failed = {} THEN None
    ELSE Checks(c)[CHOOSE i \in failed : \A j \in failed : i <= j].code

NoReport == [cached |-> FALSE, requires_payment |-> FALSE, within_budget |-> FALSE]

\* What commands and settings say of files, sessions and prices is one of them,
\* or nothing.
WellFormed(c) ==
  /\ c.path \in Paths \cup {None}
  /\ c.session \in Sessions \cup {None}
  /\ \A s \in {"session_id", "phrase"}, given \in {c.file, c.env} :
       Setting(given, s) \in Sessions \cup {None}
  /\ c.offer = None \/ IsOffer(c.offer)
  /\ Settings(c).max_cost \in Int

\* A server's calls are listed behind it, and nothing else is.
CallsServed(commands) ==
  \A i \in 1..Len(commands) :
    commands[i].kind = "call" <=> i > 1 /\ commands[i - 1].kind \in {"mcp", "call"}

ASSUME CommandsAssumption ==
  /\ None \notin Nat
  /\ \A scenario \in Programs, p \in Terminals :
       /\ Len(scenario[p]) \in Nat
       /\ \A i \in 1..Len(scenario[p]) : WellFormed(scenario[p][i])
       /\ CallsServed(scenario[p])

----
Init ==
  /\ SessionsInit
  /\ DownloadsInit
  /\ program \in Programs
  /\ at       = [p \in Terminals |-> 1]
  /\ pc       = [p \in Terminals |-> "idle"]
  /\ cfg      = [p \in Terminals |-> Defaults]
  /\ exit     = [p \in Terminals |-> None]
  /\ report   = [p \in Terminals |-> NoReport]
  /\ invoice  = [p \in Terminals |-> "none"]
  /\ token    = FALSE
  /\ cred     = [p \in Terminals |-> "none"]
  /\ listener = None

Cmd(p) == program[p][at[p]]

Goto(p, stage) == pc' = [pc EXCEPT ![p] = stage]

\* An MCP server is the last command of its terminal; the calls it serves are
\* listed behind it.
Following(p) == IF Cmd(p).kind \in {"mcp", "call"} THEN Len(program[p]) + 1 ELSE at[p] + 1

\* The deferred Stop and Close of a command, and the end of its process.
Leave(p, code) ==
  /\ Goto(p, "idle")
  /\ at'       = [at EXCEPT ![p] = Following(p)]
  /\ exit'     = [exit EXCEPT ![p] = code]
  /\ invoice'  = [invoice EXCEPT ![p] = "none"]
  /\ cred'     = [cred EXCEPT ![p] = "none"]
  /\ cfg'      = [cfg EXCEPT ![p] = Defaults]
  /\ listener' = IF listener = p THEN None ELSE listener
  /\ Hangup(p)
  /\ Close(p)
  /\ UNCHANGED <<program, token>>

NothingTold(p) == report' = [report EXCEPT ![p] = NoReport]

Exit(p, code) == Leave(p, code) /\ NothingTold(p)

\* The request is over: the command exits, or the tool call returns.
EndRequest(p, code) ==
  \/ Cmd(p).kind = "get" /\ Exit(p, code)
  \/ /\ Cmd(p).kind = "call"
     /\ Goto(p, "serving")
     /\ exit'    = [exit EXCEPT ![p] = code]
     /\ invoice' = [invoice EXCEPT ![p] = "none"]
     /\ cred'    = [cred EXCEPT ![p] = "none"]
     /\ Close(p)
     /\ NothingTold(p)
     /\ UNCHANGED <<sessionVars, program, at, cfg, token, listener>>

\* A step of a command that leaves its place and what it shares alone.
StayPut == UNCHANGED <<program, at, cfg, exit, invoice, token, cred, listener, report>>

----
(* Start-up.                                                               *)

Refuse(p) ==
  /\ pc[p] = "idle"
  /\ at[p] <= Len(program[p])
  /\ Refusal(Cmd(p)) # None
  /\ Exit(p, Refusal(Cmd(p)))

CreateBackend(p, settings) ==
  LET id     == Setting(settings, "session_id")
      phrase == Setting(settings, "phrase") IN
  \/ settings.mode = "lnd"  /\ UseOther(p, "connectLND")
  \/ settings.mode = "none" /\ UseOther(p, "noop")
  \/ settings.mode = "neutrino" /\ UseOther(p, "failed")
  \/ settings.mode = "lnc" /\ \/ id # None /\ UseSession(p, id)
                              \/ /\ id = None /\ phrase # None
                                 /\ UsePhrase(p, phrase, Setting(settings, "ephemeral") = TRUE)
                              \/ id = None /\ phrase = None /\ ListSessions(p)

\* A dry run looks at the token store and sends a HEAD request; the commands
\* that need a node create their backend, and the others have none.
Begin(p) ==
  LET c == Cmd(p) IN
  /\ pc[p] = "idle"
  /\ at[p] <= Len(program[p])
  /\ Refusal(c) = None
  /\ cfg'  = [cfg EXCEPT ![p] = Settings(c)]
  /\ exit' = [exit EXCEPT ![p] = None]
  /\ \/ c.kind = "get" /\ "dry_run" \in c.opts /\ Goto(p, "preview") /\ UNCHANGED sessionVars
     \/ /\ c.kind \in {"get", "mcp", "status", "info"} /\ "dry_run" \notin c.opts
        /\ Goto(p, "starting") /\ CreateBackend(p, Settings(c))
     \/ /\ c.kind = "pair" /\ Goto(p, "starting")
        /\ UsePhrase(p, Phrase(c), "ephemeral" \in c.opts)
     \/ c.kind = "serve" /\ Goto(p, "opening") /\ UNCHANGED sessionVars
     \/ c.kind \in {"sessions", "revoke_all"} /\ Goto(p, "listing") /\ ListSessions(p)
     \/ c.kind = "revoke" /\ Goto(p, "revoking") /\ UNCHANGED sessionVars
  /\ UNCHANGED <<downloadVars, program, at, invoice, token, cred, listener, report>>

\* The token store and a HEAD request, whose failure counts as a free answer.
Look(p, c, limit) ==
  \/ report' = [report EXCEPT ![p] =
       [cached |-> token, requires_payment |-> c.offer # None,
        within_budget |-> c.offer # None /\ WithinBudget(c.offer, limit)]]
  \/ /\ "network" \in Faults
     /\ report' = [report EXCEPT ![p] = [NoReport EXCEPT !.cached = token]]

Preview(p) ==
  /\ pc[p] = "preview"
  /\ Look(p, Cmd(p), cfg[p].max_cost)
  /\ Leave(p, 10)

StartBackend(p) ==
  /\ pc[p] = "starting"
  /\ StartStep(p)
  /\ StayPut
  /\ UNCHANGED <<pc, downloadVars>>

Started(p) == pc[p] = "starting" /\ link[p] \in {"up", "noop", "failed"}

BadHeader(c) == "bad_header" \in c.opts
BadPath(c)   == "bad_path" \in c.opts /\ c.path # None

\* Headers and output path are looked at when the backend is up already.
RefuseRequest(p) ==
  /\ Started(p)
  /\ Cmd(p).kind = "get"
  /\ BadHeader(Cmd(p)) \/ BadPath(Cmd(p))
  /\ Exit(p, IF BadHeader(Cmd(p)) THEN 1 ELSE 2)

\* Faulty variant: a backend that does not start ends the command.
StartedOrGone(p) ==
  \/ Started(p) /\ link[p] = "failed" /\ Exit(p, 1)
  \/ /\ Started(p)
     /\ link[p] # "failed"
     /\ Cmd(p).kind \in {"get", "mcp"}
     /\ ~BadHeader(Cmd(p)) /\ ~BadPath(Cmd(p))
     /\ Goto(p, IF Cmd(p).kind = "mcp" THEN "serving" ELSE "ready")
     /\ StayPut
     /\ UNCHANGED <<sessionVars, downloadVars>>

\* A get or an MCP server goes on without a backend that did not start.
UseBackend(p) ==
  /\ Started(p)
  /\ Cmd(p).kind \in {"get", "mcp"}
  /\ ~BadHeader(Cmd(p)) /\ ~BadPath(Cmd(p))
  /\ FallBack(p)
  /\ Goto(p, IF Cmd(p).kind = "mcp" THEN "serving" ELSE "ready")
  /\ StayPut
  /\ UNCHANGED downloadVars

\* pair, info and status ask the node, without a timeout; status never fails.
AskNode(p) ==
  /\ Started(p)
  /\ Cmd(p).kind \in {"pair", "status", "info"}
  /\ \/ /\ link[p] = "up"
        /\ Goto(p, "asking node") /\ StayPut /\ UNCHANGED <<sessionVars, downloadVars>>
     \/ link[p] # "up" /\ Exit(p, IF Cmd(p).kind = "status" THEN 0 ELSE 1)

NodeAnswers(p) ==
  /\ pc[p] = "asking node"
  /\ Exit(p, 0) \/ ("network" \in Faults /\ Exit(p, IF Cmd(p).kind = "status" THEN 0 ELSE 1))

----
(* The request of a get, or of a call of the MCP server's download tool.   *)

\* A request goes out with the token of the store, if there is one.
Attach(p) == cred' = [cred EXCEPT ![p] = IF token THEN "cached" ELSE "none"]

SendRequest(p) ==
  /\ pc[p] = "ready"
  /\ Goto(p, "sent")
  /\ Ask(p, Cmd(p).path, "resume" \in Cmd(p).opts)
  /\ Attach(p)
  /\ UNCHANGED <<sessionVars, program, at, cfg, exit, invoice, token, listener, report>>

NextCall(p) == program[p][at[p] + 1]

CallDryRun(p) ==
  /\ pc[p] = "serving"
  /\ at[p] < Len(program[p])
  /\ "dry_run" \in NextCall(p).opts
  /\ Look(p, NextCall(p), cfg[p].max_cost)
  /\ at' = [at EXCEPT ![p] = @ + 1]
  /\ exit' = [exit EXCEPT ![p] = 0]
  /\ UNCHANGED <<sessionVars, downloadVars, program, pc, cfg, invoice, token, cred, listener>>

CallDownload(p) ==
  /\ pc[p] = "serving"
  /\ at[p] < Len(program[p])
  /\ "dry_run" \notin NextCall(p).opts
  /\ Goto(p, "sent")
  /\ at'   = [at EXCEPT ![p] = @ + 1]
  /\ exit' = [exit EXCEPT ![p] = None]
  /\ Ask(p, NextCall(p).path, FALSE)
  /\ Attach(p)
  /\ UNCHANGED <<sessionVars, program, cfg, invoice, token, listener, report>>

Honoured(p) == Cmd(p).offer = None \/ cred[p] # "none"

\* The server answers a request for what is free, or with a proof of payment, be
\* it with a refusal: a 402 without a challenge, or a second one after the
\* payment, is taken as the answer.
Answered(p) ==
  /\ pc[p] = "sent"
  /\ Honoured(p)
  /\ Respond(p)
  /\ Goto(p, "answered")
  /\ StayPut
  /\ UNCHANGED sessionVars

\* It asks for payment otherwise.  A token that another process has stored in the
\* meantime is used for a second try.
Challenged(p) ==
  /\ pc[p] = "sent"
  /\ ~Honoured(p)
  /\ \/ token  /\ cred' = [cred EXCEPT ![p] = "retried"] /\ UNCHANGED pc
     \/ ~token /\ Goto(p, "challenged") /\ UNCHANGED cred
  /\ UNCHANGED <<sessionVars, downloadVars, program, at, cfg, exit, invoice, token, listener, report>>

\* A cached token that the server takes no longer is removed from the store.
Rejected(p) ==
  /\ "reject" \in Faults
  /\ pc[p] = "sent"
  /\ Cmd(p).offer # None
  /\ cred[p] = "cached"
  /\ token' = FALSE
  /\ cred'  = [cred EXCEPT ![p] = "none"]
  /\ Goto(p, "challenged")
  /\ UNCHANGED <<sessionVars, downloadVars, program, at, cfg, exit, invoice, listener, report>>

RequestFails(p) == "network" \in Faults /\ pc[p] = "sent" /\ EndRequest(p, 4)

\* Faulty variant: the price is not looked at.
AffordableUnpriced(p) == Cmd(p).offer.usable

Affordable(p) == Cmd(p).offer.usable /\ ~TooExpensive(Cmd(p).offer, cfg[p].max_cost)

RefuseToPay(p) ==
  /\ pc[p] = "challenged"
  /\ \/ ~Cmd(p).offer.usable /\ EndRequest(p, 3)
     \/ Cmd(p).offer.usable /\ ~Affordable(p) /\ EndRequest(p, 2)
     \/ Affordable(p) /\ link[p] # "up" /\ EndRequest(p, 3)

PayInvoice(p) ==
  /\ pc[p] = "challenged"
  /\ Affordable(p)
  /\ link[p] = "up"
  /\ Goto(p, "paying")
  /\ invoice' = [invoice EXCEPT ![p] = "inFlight"]
  /\ UNCHANGED <<sessionVars, downloadVars, program, at, cfg, exit, token, cred, listener, report>>

\* Paid: an L402 token is stored, a Payment credential is not, and the request is
\* sent again with it.
StorePaid(p) ==
  LET stored == Cmd(p).offer.scheme = "L402" IN
  /\ pc[p] = "paying"
  /\ invoice[p] = "settled"
  /\ \/ /\ token' = (stored \/ token)
        /\ cred'  = [cred EXCEPT ![p] = "retried"]
        /\ Goto(p, "sent")
        /\ UNCHANGED <<sessionVars, downloadVars, program, at, cfg, exit, invoice, listener, report>>
     \/ stored /\ "disk" \in Faults /\ EndRequest(p, 3)

\* The node reports a failure; or the payment's or the whole request's timeout
\* passes, whatever has become of the invoice.
PaymentFails(p) ==
  /\ pc[p] = "paying"
  /\ \/ invoice[p] # "settled" /\ EndRequest(p, 3)
     \/ EndRequest(p, 4)

Receive(p) ==
  /\ pc[p] = "answered"
  /\ DownloadStep(p)
  /\ StayPut
  /\ UNCHANGED <<pc, sessionVars>>

\* Faulty variant: a body that was cut off is reported as a success.
FinishAlways(p) ==
  /\ pc[p] = "answered"
  /\ transfer[p].stage \in {"done", "cut"}
  /\ EndRequest(p, 0)

\* classifyError tells a broken connection from every other failure, when the
\* body goes to a file.
Finish(p) ==
  /\ pc[p] = "answered"
  /\ \/ transfer[p].stage = "done"   /\ EndRequest(p, 0)
     \/ transfer[p].stage = "cut"    /\ EndRequest(p, IF transfer[p].path = None THEN 1 ELSE 4)
     \/ transfer[p].stage = "failed" /\ EndRequest(p, 1)

----
(* The API server, and the commands about sessions.                        *)

\* The event log and the token store are opened before the port.
Listen(p) ==
  /\ pc[p] = "opening"
  /\ \/ /\ listener = None
        /\ listener' = p
        /\ Goto(p, "listening")
        /\ UNCHANGED <<sessionVars, downloadVars, program, at, cfg, exit, invoice, token, cred, report>>
     \/ (listener # None \/ "disk" \in Faults) /\ Exit(p, 1)

\* A signal, the end of stdin, or an error of the listener.
Shutdown(p) ==
  /\ pc[p] \in {"serving", "listening"}
  /\ Exit(p, 0) \/ Exit(p, 1)

ReadSession(p) ==
  /\ pc[p] = "listing"
  /\ ReadListed(p)
  /\ StayPut
  /\ UNCHANGED <<pc, downloadVars>>

RevokeNext(p) ==
  /\ pc[p] = "listing"
  /\ todo[p] = {}
  /\ Cmd(p).kind = "revoke_all"
  /\ \E s \in found[p] : RevokeListed(p, s)
  /\ StayPut
  /\ UNCHANGED <<pc, downloadVars>>

EndListed(p) ==
  /\ pc[p] = "listing"
  /\ todo[p] = {}
  /\ Cmd(p).kind = "sessions" \/ found[p] = {}
  /\ Exit(p, 0)

\* The session that is named, which must be there.
Revoke(p) ==
  LET s == Cmd(p).session IN
  /\ pc[p] = "revoking"
  /\ \/ /\ s # None
        /\ sessionFile[s] # "absent"
        /\ RevokeOne(s)
        /\ Goto(p, "revoked")
        /\ StayPut
        /\ UNCHANGED downloadVars
     \/ s = None /\ Exit(p, 1)
     \/ s # None /\ sessionFile[s] = "absent" /\ Exit(p, 1)

EndRevoke(p) == pc[p] = "revoked" /\ Exit(p, 0)

----
(* The world around the commands.                                          *)

RelayAnswers(p) ==
  /\ RelayStep(p)
  /\ UNCHANGED <<downloadVars, commandVars>>

NodeResolves(p) ==
  /\ invoice[p] = "inFlight"
  /\ \E outcome \in {"settled", "failed"} : invoice' = [invoice EXCEPT ![p] = outcome]
  /\ UNCHANGED <<sessionVars, downloadVars, program, at, pc, cfg, exit, token, cred, listener, report>>

NewVersion ==
  /\ ChangeResource
  /\ UNCHANGED <<sessionVars, commandVars>>

\* What a shell says of a process that was killed.
Killed == 137

Kill(p) ==
  /\ "kill" \in Faults
  /\ pc[p] # "idle"
  /\ Exit(p, Killed)

Finished ==
  /\ \A p \in Terminals : pc[p] = "idle" /\ at[p] > Len(program[p])
  /\ UNCHANGED vars

StartUp(p) ==
  \/ Refuse(p) \/ Begin(p) \/ Preview(p)
  \/ StartBackend(p) \/ RefuseRequest(p) \/ UseBackend(p) \/ AskNode(p)

Request(p) ==
  \/ SendRequest(p) \/ Answered(p) \/ Challenged(p) \/ Rejected(p) \/ RequestFails(p)
  \/ RefuseToPay(p) \/ PayInvoice(p) \/ StorePaid(p) \/ PaymentFails(p)
  \/ Receive(p) \/ Finish(p)

Manage(p) ==
  \/ Listen(p) \/ ReadSession(p) \/ RevokeNext(p) \/ EndListed(p)
  \/ Revoke(p) \/ EndRevoke(p)

\* What a process does by itself.
ProcessStep(p) == StartUp(p) \/ Request(p) \/ Manage(p)

\* What it waits for: its user or agent, the node, the relay and the kernel.
WorldStep(p) ==
  \/ CallDryRun(p) \/ CallDownload(p) \/ Shutdown(p) \/ NodeAnswers(p)
  \/ RelayAnswers(p) \/ NodeResolves(p) \/ Kill(p)

Next ==
  \/ \E p \in Terminals : ProcessStep(p) \/ WorldStep(p)
  \/ NewVersion
  \/ Finished

\* Start's timer, the client's and the payment's timeout bound every wait of a
\* process but those for its user and for a node that is asked for its name.
Fairness == \A p \in Terminals : WF_vars(ProcessStep(p))

Spec == Init /\ [][Next]_vars /\ Fairness

----
Codes == {0, 1, 2, 3, 4, 10}

Stages ==
  {"idle", "preview", "starting", "ready", "sent", "challenged", "paying", "answered",
   "asking node", "opening", "listening", "serving", "listing", "revoking", "revoked"}

TypeOK ==
  /\ SessionsTypeOK
  /\ DownloadsTypeOK
  /\ at       \in [Terminals -> Nat \ {0}]
  /\ pc       \in [Terminals -> Stages]
  /\ exit     \in [Terminals -> Codes \cup {None, Killed}]
  /\ report   \in [Terminals ->
       [cached : BOOLEAN, requires_payment : BOOLEAN, within_budget : BOOLEAN]]
  /\ invoice  \in [Terminals -> {"none", "inFlight", "settled", "failed"}]
  /\ token    \in BOOLEAN
  /\ cred     \in [Terminals -> {"none", "cached", "retried"}]
  /\ listener \in Terminals \cup {None}

\* A command or call of p that is a request ends with one of the codes.
Ends(p, codes) ==
  /\ Cmd(p).kind \in {"get", "call"}
  /\ pc[p] # "serving"
  /\ exit'[p] \in codes
  /\ <<pc[p], at[p]>>' # <<pc[p], at[p]>>

Pending(p) == at[p] <= Len(program[p])

\* The exit code tells an agent what has happened: on 0 the whole body was
\* received, of a good status if it went to a file, and the request had a proof of
\* payment if there was a price; on 2 and 10 nothing was paid, and on 2, 3 and 10
\* the output file is as it was, whatever the order in which arguments, backend,
\* request and file come to be looked at.  What goes to stdout says nothing of
\* the status: a refusal is printed, with 0.
ExitCodesTruthful ==
  [][\A p \in Terminals : Pending(p) =>
       /\ Ends(p, {0}) => /\ transfer[p].stage = "done"
                          /\ Honoured(p)
                          /\ transfer[p].path # None => transfer[p].status # 404
       /\ Ends(p, {2, 3, 10}) => ~transfer[p].touched
       /\ Ends(p, {2, 10}) => invoice[p] = "none"]_vars

\* A missing Lightning backend never keeps a request with sound arguments from
\* being sent, nor one that costs nothing from being served.
BackendNeverInTheWay ==
  [][\A p \in Terminals : Pending(p) /\ Ends(p, Codes) =>
       \/ Refusal(Cmd(p)) # None \/ BadHeader(Cmd(p)) \/ BadPath(Cmd(p))
       \/ "dry_run" \in Cmd(p).opts
       \/ transfer[p].stage # "off" /\ (Cmd(p).offer = None => exit'[p] \notin {2, 3})]_vars

\* What the user has said about paying: JSON parameters before flags, flags
\* before the environment, the environment before the file.
ToldLimit(c) ==
  IF "max_cost" \in DOMAIN c.params THEN c.params.max_cost
  ELSE IF "max_cost" \in DOMAIN c.flags THEN c.flags.max_cost
  ELSE LoadConfig(c).max_cost

ToldToPay(c) == "no_pay" \notin c.opts /\ LoadConfig(c).auto_pay

\* No invoice is paid that the user's flags, parameters and settings rule out,
\* whatever its form and whatever its challenge states; the limit is in whole
\* satoshis, and an invoice may ask for a fraction of one more.
PaysAsTold ==
  \A p \in Terminals : invoice[p] # "none" /\ Cmd(p).kind = "get" =>
    ToldToPay(Cmd(p)) /\ ~AsksFor(Cmd(p).offer, ToldLimit(Cmd(p)) + 1)

\* JSON parameters set a limit where the flag does so too.
ToldByFlag(c) == "max_cost" \in DOMAIN c.params => "max_cost" \in DOMAIN c.flags

\* The limit of parameters and flag, of the flag alone, of the environment or of
\* the file, the first of them that there is, is the one a plain offer is held
\* to.
FlagsObeyed ==
  \A p \in Terminals :
    invoice[p] # "none" /\ Cmd(p).kind = "get" /\ ToldByFlag(Cmd(p)) /\ Plain(Cmd(p).offer) =>
      ~AsksFor(Cmd(p).offer, ToldLimit(Cmd(p)) + 1)

\* A limit below zero, which an MCP server accepts, is one of zero.
Budget(p) == IF cfg[p].max_cost > 0 THEN cfg[p].max_cost ELSE 0

\* No request, of the command line or of an MCP server, and wherever its limit
\* comes from, pays a plain offer that asks for a satoshi more than its max_cost:
\* one whose amount the code can read, or that asks for what its challenge states.
BudgetKept ==
  \A p \in Terminals :
    invoice[p] # "none" /\ Plain(Cmd(p).offer) => ~AsksFor(Cmd(p).offer, Budget(p) + 1)

\* The command or call before was a dry run of this one.
Previewed(p) ==
  /\ at[p] > 1
  /\ LET last == program[p][at[p] - 1] IN
       /\ last.kind \in {"get", "call"}
       /\ "dry_run" \in last.opts
       /\ last.offer = Cmd(p).offer
       /\ last.kind = "get" => Settings(last) = Settings(Cmd(p))

PaidUnlessDear(p) ==
  invoice[p] = "none" /\ invoice'[p] = "inFlight" => report[p].within_budget

RefusedIfDear(p) ==
  pc[p] = "challenged" /\ Ends(p, {2}) => ~report[p].within_budget

\* What a dry run tells an agent of a price is what the request then does: it is
\* refused for its price only if the price was not within the budget, and paid
\* only if it was, unless the amount stated or the limit is below zero.  Each of
\* the two reads the price with code of its own.
PreviewsKept ==
  [][\A p \in Terminals : Pending(p) /\ Previewed(p) /\ report[p].requires_payment =>
       /\ RefusedIfDear(p)
       /\ ~BelowZero(Cmd(p).offer) /\ cfg[p].max_cost >= 0 => PaidUnlessDear(p)]_vars

Resting == {"idle", "serving", "listening", "asking node"}

\* Every command comes to an end, or to where it waits for somebody, though
\* relay, node and server may be silent and other processes hold the session.
EveryCommandEnds ==
  \A p \in Terminals : pc[p] \notin Resting ~> pc[p] \in Resting
====
