---- MODULE LNCSessions ----
(***************************************************************************)
(* Lightning Node Connect: the session files under ~/.lnget/lnc, the start *)
(* and stop of an LNCBackend, and the choice of the session to resume.     *)
(*                                                                         *)
(* A session is a pairing with a node: it begins with a phrase that can be *)
(* used once, has a mailbox on the relay, which serves one client at a     *)
(* time, and is resumed from its file.  A step is one system call on the   *)
(* files or one event of Start's select; getConn runs beside Start and may *)
(* be answered after Start has given up.  LND's backend and the one that   *)
(* does nothing are told apart by the stages they go through.              *)
(***************************************************************************)
EXTENDS UserMachine, Naturals, Sequences

CONSTANTS
  Sessions,   \* the pairings the user's node may have with lnget
  Saved       \* those saved by earlier commands, in the order they were made

ASSUME SessionsAssumption ==
  /\ None \notin Sessions
  /\ Saved \in Seq(Sessions)

VARIABLES
  sessionFile, \* what each session's file holds: "absent", "half" or "whole"
  created,     \* the sessions that were ever saved, oldest first
  paired,      \* the sessions whose pairing phrase has been used
  relay,       \* the terminal whose process each mailbox serves
  link,        \* how far each process's backend has come
  session,     \* the session it loads, resumes or pairs
  origin,      \* where that came from: a "file", a "phrase" or an "ephemeral" one
  dial,        \* the goroutine that waits in getConn
  todo,        \* the session files ListSessions has yet to read
  found,       \* the sessions it has read
  steady       \* history: those whose files were whole ever since it began

sessionVars ==
  <<sessionFile, created, paired, relay, link, session, origin, dial, todo, found, steady>>

SessionsInit ==
  /\ sessionFile = [s \in Sessions |->
                      IF \E i \in DOMAIN Saved : Saved[i] = s THEN "whole" ELSE "absent"]
  /\ created = Saved
  /\ paired  = {s \in Sessions : \E i \in DOMAIN Saved : Saved[i] = s}
  /\ relay   = [s \in Sessions |-> None]
  /\ link    = [p \in Terminals |-> "off"]
  /\ session = [p \in Terminals |-> None]
  /\ origin  = [p \in Terminals |-> "file"]
  /\ dial    = [p \in Terminals |-> "none"]
  /\ todo    = [p \in Terminals |-> {}]
  /\ found   = [p \in Terminals |-> {}]
  /\ steady  = [p \in Terminals |-> {}]

Files(contents) == {s \in Sessions : sessionFile[s] \in contents}

\* An ID is made of the time it was made, so names and times are in one order.
Before(s, t) ==
  \E i, j \in DOMAIN created : i < j /\ created[i] = s /\ created[j] = t

LinkTo(p, stage) == link' = [link EXCEPT ![p] = stage]

fileVars == <<sessionFile, created, steady>>
listVars == <<todo, found>>
dialVars == <<paired, relay, dial>>

\* What becomes of the history when a file stops being whole.
NoLongerWhole(s) == steady' = [p \in Terminals |-> steady[p] \ {s}]

----
(* What createBackend and `lnget ln lnc pair` ask for.                      *)

UseSession(p, s) ==
  /\ link[p] = "off"
  /\ session' = [session EXCEPT ![p] = s]
  /\ origin'  = [origin EXCEPT ![p] = "file"]
  /\ LinkTo(p, "loading")
  /\ UNCHANGED <<fileVars, listVars, dialVars>>

UsePhrase(p, s, ephemeral) ==
  /\ link[p] = "off"
  /\ session' = [session EXCEPT ![p] = s]
  /\ origin'  = [origin EXCEPT ![p] = IF ephemeral THEN "ephemeral" ELSE "phrase"]
  /\ LinkTo(p, "dialing")
  /\ UNCHANGED <<fileVars, listVars, dialVars>>

\* The backend that does nothing, lnd's, or one that cannot be created.
UseOther(p, stage) ==
  /\ link[p] = "off"
  /\ LinkTo(p, stage)
  /\ UNCHANGED <<fileVars, listVars, dialVars, session, origin>>

\* ListSessions reads the directory, then the files in the order of their names.
ListSessions(p) ==
  /\ link[p] = "off"
  /\ todo'   = [todo EXCEPT ![p] = Files({"half", "whole"})]
  /\ found'  = [found EXCEPT ![p] = {}]
  /\ steady' = [steady EXCEPT ![p] = Files({"whole"})]
  /\ origin' = [origin EXCEPT ![p] = "file"]
  /\ LinkTo(p, "listing")
  /\ UNCHANGED <<sessionFile, created, session, dialVars>>

NextListed(p, s) == s \in todo[p] /\ \A t \in todo[p] : ~Before(t, s)

ReadListed(p) ==
  /\ link[p] = "listing"
  /\ \E s \in todo[p] :
       /\ NextListed(p, s)
       /\ todo'  = [todo EXCEPT ![p] = @ \ {s}]
       /\ found' = [found EXCEPT ![p] = IF sessionFile[s] = "whole" THEN @ \cup {s} ELSE @]
  /\ UNCHANGED <<fileVars, dialVars, link, session, origin>>

\* Faulty variant: the first session listed is resumed.
OldestFound(p) == {s \in found[p] : \A t \in found[p] : ~Before(t, s)}

NewestFound(p) == {s \in found[p] : \A t \in found[p] : ~Before(s, t)}

\* createBackend resumes the newest session it could read.
EndListing(p) ==
  /\ link[p] = "listing"
  /\ todo[p] = {}
  /\ \/ /\ found[p] = {}
        /\ LinkTo(p, "failed")
        /\ UNCHANGED session
     \/ /\ \E s \in NewestFound(p) : session' = [session EXCEPT ![p] = s]
        /\ LinkTo(p, "loading")
  /\ UNCHANGED <<fileVars, listVars, dialVars, origin>>

\* NewLNCBackend takes phrase, mailbox and keys from the file.
LoadSession(p) ==
  /\ link[p] = "loading"
  /\ LinkTo(p, IF sessionFile[session[p]] = "whole" THEN "dialing" ELSE "failed")
  /\ UNCHANGED <<fileVars, listVars, dialVars, session, origin>>

----
(* LNCBackend.Start.                                                        *)

OpenWebsocket(p) ==
  /\ link[p] = "dialing"
  /\ \/ LinkTo(p, "connecting") /\ dial' = [dial EXCEPT ![p] = "running"]
     \/ "network" \in Faults /\ LinkTo(p, "failed") /\ UNCHANGED dial
  /\ UNCHANGED <<fileVars, listVars, session, origin, paired, relay>>

\* The node answers in a free mailbox: a new phrase once, a known key from then on.
DialAnswered(p) ==
  /\ dial[p] = "running"
  /\ relay[session[p]] = None
  /\ (origin[p] = "file") <=> (session[p] \in paired)
  /\ dial'   = [dial EXCEPT ![p] = "connected"]
  /\ relay'  = [relay EXCEPT ![session[p]] = p]
  /\ paired' = paired \cup {session[p]}
  /\ UNCHANGED <<fileVars, listVars, link, session, origin>>

DialFails(p) ==
  /\ "network" \in Faults
  /\ dial[p] = "running"
  /\ dial' = [dial EXCEPT ![p] = "failed"]
  /\ UNCHANGED <<fileVars, listVars, link, session, origin, paired, relay>>

\* Faulty variant: the session is saved as soon as the websocket is there.
ConnectedEarly(p) ==
  /\ link[p] = "connecting"
  /\ dial[p] \in {"running", "connected"}
  /\ LinkTo(p, IF origin[p] = "ephemeral" THEN "up" ELSE "saving")
  /\ UNCHANGED <<fileVars, listVars, dialVars, session, origin>>

\* The result of getConn: a session is saved, unless it is a new ephemeral one.
Connected(p) ==
  /\ link[p] = "connecting"
  /\ dial[p] = "connected"
  /\ LinkTo(p, IF origin[p] = "ephemeral" THEN "up" ELSE "saving")
  /\ UNCHANGED <<fileVars, listVars, dialVars, session, origin>>

\* Faulty variant: no timer, so only the relay's answer ends the wait.
GiveUpWhenRefused(p) ==
  /\ link[p] = "connecting"
  /\ \/ dial[p] = "failed"
     \/ dial[p] = "running" /\ relay[session[p]] \notin {p, None}
  /\ LinkTo(p, "failed")
  /\ UNCHANGED <<fileVars, listVars, dialVars, session, origin>>

\* The call failed, the relay says the session is in use or unknown, or the
\* timer fires: it may win over a connection that has just been made.  The
\* goroutine stays in getConn.
GiveUp(p) ==
  /\ link[p] = "connecting"
  /\ LinkTo(p, "failed")
  /\ UNCHANGED <<fileVars, listVars, dialVars, session, origin>>

\* SaveSession rewrites the file in place; a new session's file is created.
TruncateSession(p) ==
  /\ link[p] = "saving"
  /\ LET s == session[p] IN
       \/ /\ sessionFile' = [sessionFile EXCEPT ![s] = "half"]
          /\ created' = IF \E i \in DOMAIN created : created[i] = s
                        THEN created ELSE Append(created, s)
          /\ NoLongerWhole(s)
          /\ LinkTo(p, "filling")
       \/ /\ "disk" \in Faults
          /\ LinkTo(p, "up")
          /\ UNCHANGED fileVars
  /\ UNCHANGED <<listVars, dialVars, session, origin>>

\* The write lands in the file, unless it was revoked in between.
FillSession(p) ==
  /\ link[p] = "filling"
  /\ \/ sessionFile' = [sessionFile EXCEPT ![session[p]] =
                          IF @ = "absent" THEN "absent" ELSE "whole"]
     \/ "disk" \in Faults /\ UNCHANGED sessionFile
  /\ LinkTo(p, "up")
  /\ UNCHANGED <<created, steady, listVars, dialVars, session, origin>>

----
(* The other backends, stopping, and `lnget ln lnc revoke`.                 *)

\* LNDBackend.Start: one call that connects or fails.
ConnectLND(p) ==
  /\ link[p] = "connectLND"
  /\ LinkTo(p, "up") \/ LinkTo(p, "failed")
  /\ UNCHANGED <<fileVars, listVars, dialVars, session, origin>>

\* A backend that could not be created or started is replaced by the Noop one.
FallBack(p) ==
  /\ link' = [link EXCEPT ![p] = IF @ = "failed" THEN "noop" ELSE @]
  /\ UNCHANGED <<fileVars, listVars, dialVars, session, origin>>

\* Stop closes the connection, and what is left ends with the process.
Hangup(p) ==
  /\ relay'   = [s \in Sessions |-> IF relay[s] = p THEN None ELSE relay[s]]
  /\ dial'    = [dial EXCEPT ![p] = "none"]
  /\ session' = [session EXCEPT ![p] = None]
  /\ todo'    = [todo EXCEPT ![p] = {}]
  /\ found'   = [found EXCEPT ![p] = {}]
  /\ steady'  = [steady EXCEPT ![p] = {}]
  /\ LinkTo(p, "off")
  /\ UNCHANGED <<sessionFile, created, paired, origin>>

DeleteSession(s) ==
  /\ sessionFile' = [sessionFile EXCEPT ![s] = "absent"]
  /\ NoLongerWhole(s)
  /\ UNCHANGED <<created, dialVars, link, session, origin>>

RevokeOne(s) == DeleteSession(s) /\ UNCHANGED listVars

\* revoke --all goes on whether or not the file was still there.
RevokeListed(p, s) ==
  /\ s \in found[p]
  /\ found' = [found EXCEPT ![p] = @ \ {s}]
  /\ DeleteSession(s)
  /\ UNCHANGED todo

StartStep(p) ==
  \/ ReadListed(p) \/ EndListing(p) \/ LoadSession(p)
  \/ OpenWebsocket(p) \/ Connected(p) \/ GiveUp(p)
  \/ TruncateSession(p) \/ FillSession(p)
  \/ ConnectLND(p)

RelayStep(p) == DialAnswered(p) \/ DialFails(p)

\* What a command may ask of this module.
SessionsNext ==
  \/ \E p \in Terminals :
       \/ \E s \in Sessions : UseSession(p, s)
       \/ \E s \in Sessions, ephemeral \in BOOLEAN : UsePhrase(p, s, ephemeral)
       \/ \E stage \in {"noop", "connectLND", "failed"} : UseOther(p, stage)
       \/ ListSessions(p)
       \/ StartStep(p)
       \/ RelayStep(p)
       \/ FallBack(p)
       \/ Hangup(p)
       \/ \E s \in found[p] : RevokeListed(p, s)
  \/ \E s \in Sessions : RevokeOne(s)

SessionsSpec == SessionsInit /\ [][SessionsNext]_sessionVars

----
LinkStages ==
  {"off", "noop", "listing", "loading", "dialing", "connecting",
   "saving", "filling", "connectLND", "up", "failed"}

SessionsTypeOK ==
  /\ sessionFile \in [Sessions -> {"absent", "half", "whole"}]
  /\ created \in Seq(Sessions)
  /\ paired \subseteq Sessions
  /\ relay   \in [Sessions -> Terminals \cup {None}]
  /\ link    \in [Terminals -> LinkStages]
  /\ session \in [Terminals -> Sessions \cup {None}]
  /\ origin  \in [Terminals -> {"file", "phrase", "ephemeral"}]
  /\ dial    \in [Terminals -> {"none", "running", "connected", "failed"}]
  /\ todo    \in [Terminals -> SUBSET Sessions]
  /\ found   \in [Terminals -> SUBSET Sessions]
  /\ steady  \in [Terminals -> SUBSET Sessions]

\* A session's file is written without a lock.  What keeps two processes from
\* writing it at the same time is that each holds the session's mailbox: it is
\* saved after the connection is made, and the relay serves one client.
OneWriterPerSession ==
  \A p \in Terminals : link[p] \in {"saving", "filling"} =>
    /\ relay[session[p]] = p
    /\ \A q \in Terminals \ {p} :
         link[q] \in {"saving", "filling"} => session[q] # session[p]

\* The process resumes the newest of the sessions that could be read all the
\* while it was listing them, and finds one if there was any, whatever other
\* processes pair, save or revoke in the meantime.
NewestReadableChosen ==
  \A p \in Terminals :
    link[p] # "listing" => \A s \in steady[p] : session[p] # None /\ ~Before(session[p], s)
====
