---- MODULE LNCSessionsProofs ----
(***************************************************************************)
(* Theorems about LNCSessions, for any number of processes and sessions    *)
(* and any faults.                                                         *)
(***************************************************************************)
EXTENDS LNCSessions, TLAPS

\* The stages before a process asks the relay for the session's mailbox, and
\* those in which it writes the session's file.
DownStages   == {"off", "listing", "loading", "dialing"}
WriteStages  == {"saving", "filling"}

\* A process writes a session only while it holds its mailbox: the connection
\* comes first, and which session it is does not change after that.
MailboxHeld ==
  \A p \in Terminals :
    /\ link[p] \in DownStages => dial[p] = "none"
    /\ link[p] \in {"loading", "dialing"} \/ dial[p] # "none" => session[p] \in Sessions
    /\ dial[p] = "connected" => relay[session[p]] = p
    /\ link[p] \in WriteStages => dial[p] = "connected"

WriterInv == SessionsTypeOK /\ MailboxHeld

Known(s) == \E i \in DOMAIN created : created[i] = s

\* A session that stayed whole is known, and until the process has chosen one
\* it is still to be read or has been.
SteadyListed ==
  /\ \A s \in Sessions : sessionFile[s] # "absent" => Known(s)
  /\ \A p \in Terminals :
       /\ \A s \in steady[p] : sessionFile[s] = "whole"
       /\ link[p] = "off" => steady[p] = {}
       /\ link[p] = "listing" => steady[p] \subseteq todo[p] \cup found[p]

ChoiceInv == WriterInv /\ SteadyListed /\ NewestReadableChosen

----
LEMMA InitSessions == SessionsInit => ChoiceInv
<1> SUFFICES ASSUME SessionsInit PROVE ChoiceInv
  OBVIOUS
<1>1. SessionsTypeOK
  BY SessionsAssumption DEF SessionsInit, SessionsTypeOK, LinkStages
<1>2. MailboxHeld
  BY DEF SessionsInit, MailboxHeld, DownStages, WriteStages
<1>3. SteadyListed /\ NewestReadableChosen
  BY DEF SessionsInit, SteadyListed, Known, NewestReadableChosen
<1>4. QED
  BY <1>1, <1>2, <1>3 DEF ChoiceInv, WriterInv

\* What a process asks of its backend, and what becomes of that.
LEMMA SessionsTypeStep ==
  ASSUME WriterInv, NEW p \in Terminals,
         \/ \E s \in Sessions : UseSession(p, s)
         \/ \E s \in Sessions, ephemeral \in BOOLEAN : UsePhrase(p, s, ephemeral)
         \/ \E stage \in {"noop", "connectLND", "failed"} : UseOther(p, stage)
         \/ ListSessions(p)
         \/ StartStep(p) \/ RelayStep(p) \/ FallBack(p) \/ Hangup(p)
         \/ \E s \in found[p] : RevokeListed(p, s)
  PROVE  SessionsTypeOK'
<1>a. /\ SessionsTypeOK
      /\ dial[p] # "none" => session[p] \in Sessions
      /\ link[p] = "saving" => session[p] \in Sessions
  BY DEF WriterInv, MailboxHeld, WriteStages
<1> USE <1>a DEF SessionsTypeOK, LinkTo, fileVars, listVars, dialVars
<1>1. CASE \E s \in Sessions : UseSession(p, s)
  BY <1>1 DEF UseSession, LinkStages
<1>2. CASE \E s \in Sessions, ephemeral \in BOOLEAN : UsePhrase(p, s, ephemeral)
  BY <1>2 DEF UsePhrase, LinkStages
<1>3. CASE \E stage \in {"noop", "connectLND", "failed"} : UseOther(p, stage)
  BY <1>3 DEF UseOther, LinkStages
<1>4. CASE ListSessions(p)
  BY <1>4 DEF ListSessions, LinkStages, Files
<1>5. CASE ReadListed(p)
  BY <1>5 DEF ReadListed
<1>6. CASE EndListing(p)
  BY <1>6 DEF EndListing, NewestFound, LinkStages
<1>7. CASE LoadSession(p)
  BY <1>7 DEF LoadSession, LinkStages
<1>8. CASE OpenWebsocket(p)
  BY <1>8 DEF OpenWebsocket, LinkStages
<1>9. CASE Connected(p) \/ GiveUp(p) \/ ConnectLND(p)
  BY <1>9 DEF Connected, GiveUp, ConnectLND, LinkStages
<1>10. CASE TruncateSession(p)
  <2>1. sessionFile' \in [Sessions -> {"absent", "half", "whole"}]
    BY <1>10 DEF TruncateSession
  <2>2. created' \in Seq(Sessions)
    <3>1. session[p] \in Sessions => Append(created, session[p]) \in Seq(Sessions)
      OBVIOUS
    <3>2. QED
      BY <1>10, <3>1 DEF TruncateSession
  <2>3. steady' \in [Terminals -> SUBSET Sessions] /\ link' \in [Terminals -> LinkStages]
    BY <1>10 DEF TruncateSession, NoLongerWhole, LinkStages
  <2>4. QED
    BY <1>10, <2>1, <2>2, <2>3 DEF TruncateSession
<1>11. CASE FillSession(p)
  BY <1>11 DEF FillSession, LinkStages
<1>12. CASE DialAnswered(p)
  BY <1>12 DEF DialAnswered
<1>13. CASE DialFails(p)
  BY <1>13 DEF DialFails
<1>14. CASE FallBack(p)
  BY <1>14 DEF FallBack, LinkStages
<1>15. CASE Hangup(p)
  BY <1>15 DEF Hangup, LinkStages
<1>16. CASE \E s \in found[p] : RevokeListed(p, s)
  BY <1>16 DEF RevokeListed, DeleteSession, NoLongerWhole
<1>17. QED
  BY <1>1, <1>2, <1>3, <1>4, <1>5, <1>6, <1>7, <1>8, <1>9, <1>10, <1>11, <1>12,
     <1>13, <1>14, <1>15, <1>16 DEF StartStep, RelayStep

LEMMA SessionsTypeNext ==
  ASSUME WriterInv, [SessionsNext]_sessionVars
  PROVE  SessionsTypeOK'
<1>1. ASSUME NEW s \in Sessions, RevokeOne(s)
      PROVE  SessionsTypeOK'
  BY <1>1
  DEF RevokeOne, DeleteSession, NoLongerWhole, WriterInv, SessionsTypeOK, listVars, dialVars
<1>2. CASE UNCHANGED sessionVars
  BY <1>2 DEF sessionVars, WriterInv, SessionsTypeOK
<1>3. QED
  BY <1>1, <1>2, SessionsTypeStep DEF SessionsNext
----
(* One writer per session.                                                 *)

\* A step of one process leaves what another holds.
LEMMA OthersHold ==
  ASSUME WriterInv, NEW p \in Terminals, NEW q \in Terminals, q # p,
         link'[q] = link[q], dial'[q] = dial[q], session'[q] = session[q],
         \A s \in Sessions : relay[s] = q => relay'[s] = q
  PROVE  /\ link'[q] \in DownStages => dial'[q] = "none"
         /\ link'[q] \in {"loading", "dialing"} \/ dial'[q] # "none" => session'[q] \in Sessions
         /\ dial'[q] = "connected" => relay'[session'[q]] = q
         /\ link'[q] \in WriteStages => dial'[q] = "connected"
BY DEF WriterInv, MailboxHeld

LEMMA MailboxStep ==
  ASSUME WriterInv, NEW p \in Terminals,
         \/ \E s \in Sessions : UseSession(p, s)
         \/ \E s \in Sessions, ephemeral \in BOOLEAN : UsePhrase(p, s, ephemeral)
         \/ \E stage \in {"noop", "connectLND", "failed"} : UseOther(p, stage)
         \/ ListSessions(p)
         \/ StartStep(p) \/ RelayStep(p) \/ FallBack(p) \/ Hangup(p)
         \/ \E s \in found[p] : RevokeListed(p, s)
  PROVE  MailboxHeld'
<1>1. ASSUME NEW q \in Terminals, q # p
      PROVE  /\ link'[q] = link[q] /\ dial'[q] = dial[q] /\ session'[q] = session[q]
             /\ \A s \in Sessions : relay[s] = q => relay'[s] = q
  <2> USE <1>1 DEF WriterInv, SessionsTypeOK, LinkTo, fileVars, listVars, dialVars
  <2>1. CASE DialAnswered(p)
    <3>1. q # None
      BY MachineAssumption
    <3>2. QED
      BY <2>1, <3>1 DEF DialAnswered
  <2>2. CASE Hangup(p)
    BY <2>2 DEF Hangup
  <2>3. CASE relay' = relay
    <3>1. CASE \/ \E s \in Sessions : UseSession(p, s)
               \/ \E s \in Sessions, ephemeral \in BOOLEAN : UsePhrase(p, s, ephemeral)
               \/ \E stage \in {"noop", "connectLND", "failed"} : UseOther(p, stage)
               \/ ListSessions(p)
      BY <2>3, <3>1 DEF UseSession, UsePhrase, UseOther, ListSessions
    <3>2. CASE ReadListed(p) \/ EndListing(p) \/ LoadSession(p) \/ OpenWebsocket(p)
      BY <2>3, <3>2 DEF ReadListed, EndListing, LoadSession, OpenWebsocket
    <3>3. CASE \/ Connected(p) \/ GiveUp(p) \/ TruncateSession(p) \/ FillSession(p)
               \/ ConnectLND(p)
      BY <2>3, <3>3 DEF Connected, GiveUp, TruncateSession, FillSession, ConnectLND
    <3>4. CASE DialFails(p) \/ FallBack(p) \/ \E s \in found[p] : RevokeListed(p, s)
      BY <2>3, <3>4 DEF DialFails, FallBack, RevokeListed, DeleteSession
    <3>5. QED
      BY <2>1, <2>2, <3>1, <3>2, <3>3, <3>4 DEF StartStep, RelayStep
  <2>4. relay' = relay \/ DialAnswered(p) \/ Hangup(p)
    BY DEF UseSession, UsePhrase, UseOther, ListSessions, StartStep, ReadListed, EndListing,
           LoadSession, OpenWebsocket, Connected, GiveUp, TruncateSession, FillSession,
           ConnectLND, RelayStep, DialFails, FallBack, RevokeListed, DeleteSession
  <2>5. QED
    BY <2>1, <2>2, <2>3, <2>4
<1>2. /\ link'[p] \in DownStages => dial'[p] = "none"
      /\ link'[p] \in {"loading", "dialing"} \/ dial'[p] # "none" => session'[p] \in Sessions
      /\ dial'[p] = "connected" => relay'[session'[p]] = p
      /\ link'[p] \in WriteStages => dial'[p] = "connected"
  <2> USE DEF WriterInv, SessionsTypeOK, MailboxHeld, DownStages, WriteStages, LinkTo,
              fileVars, listVars, dialVars
  <2>1. CASE \/ \E s \in Sessions : UseSession(p, s)
             \/ \E s \in Sessions, ephemeral \in BOOLEAN : UsePhrase(p, s, ephemeral)
    BY <2>1 DEF UseSession, UsePhrase
  <2>2. CASE \/ \E stage \in {"noop", "connectLND", "failed"} : UseOther(p, stage)
             \/ ListSessions(p)
    BY <2>2 DEF UseOther, ListSessions
  <2>3. CASE ReadListed(p)
    BY <2>3 DEF ReadListed
  <2>4. CASE EndListing(p)
    BY <2>4 DEF EndListing, NewestFound
  <2>5. CASE LoadSession(p) \/ OpenWebsocket(p)
    BY <2>5 DEF LoadSession, OpenWebsocket
  <2>6. CASE Connected(p) \/ GiveUp(p)
    BY <2>6 DEF Connected, GiveUp
  <2>7. CASE TruncateSession(p) \/ FillSession(p)
    BY <2>7 DEF TruncateSession, FillSession
  <2>8. CASE ConnectLND(p) \/ FallBack(p)
    BY <2>8 DEF ConnectLND, FallBack
  <2>9. CASE DialAnswered(p)
    BY <2>9 DEF DialAnswered
  <2>10. CASE DialFails(p)
    BY <2>10 DEF DialFails
  <2>11. CASE Hangup(p)
    BY <2>11 DEF Hangup
  <2>12. CASE \E s \in found[p] : RevokeListed(p, s)
    BY <2>12 DEF RevokeListed, DeleteSession
  <2>13. QED
    BY <2>1, <2>2, <2>3, <2>4, <2>5, <2>6, <2>7, <2>8, <2>9, <2>10, <2>11, <2>12
    DEF StartStep, RelayStep
<1>3. QED
  BY <1>1, <1>2, OthersHold DEF MailboxHeld

LEMMA WriterNext ==
  ASSUME WriterInv, [SessionsNext]_sessionVars
  PROVE  WriterInv'
<1>1. ASSUME NEW s \in Sessions, RevokeOne(s)
      PROVE  MailboxHeld'
  BY <1>1 DEF RevokeOne, DeleteSession, WriterInv, MailboxHeld, listVars, dialVars
<1>2. CASE UNCHANGED sessionVars
  BY <1>2, SessionsTypeNext DEF sessionVars, WriterInv, MailboxHeld
<1>3. QED
  BY <1>1, <1>2, MailboxStep, SessionsTypeNext DEF SessionsNext, WriterInv

LEMMA AlwaysWriter == SessionsSpec => []WriterInv
<1>1. SessionsInit => WriterInv
  BY InitSessions DEF ChoiceInv
<1>2. QED
  BY <1>1, WriterNext, PTL DEF SessionsSpec

\* Every reachable state of the session files, the relay and the backends is
\* well-typed, for any number of processes and sessions.
THEOREM SessionsTypeCorrect == SessionsSpec => []SessionsTypeOK
<1>1. WriterInv => SessionsTypeOK
  BY DEF WriterInv
<1>2. QED
  BY <1>1, AlwaysWriter, PTL

LEMMA HeldIsAlone == WriterInv => OneWriterPerSession
<1> SUFFICES ASSUME WriterInv, NEW p \in Terminals, link[p] \in WriteStages
             PROVE  /\ relay[session[p]] = p
                    /\ \A q \in Terminals \ {p} : link[q] \in WriteStages => session[q] # session[p]
  BY DEF OneWriterPerSession, WriteStages
<1>1. \A q \in Terminals : link[q] \in WriteStages => relay[session[q]] = q
  BY DEF WriterInv, MailboxHeld
<1>2. QED
  BY <1>1

\* SaveSession takes no lock and needs none: a session's file is only written by
\* the one process that holds its mailbox, however many resume it.
THEOREM OneWriter == SessionsSpec => []OneWriterPerSession
BY AlwaysWriter, HeldIsAlone, PTL
----
(* The newest session that can be read.                                    *)

\* Sessions are only ever added behind the others.
Grows ==
  \/ created' = created
  \/ \E s \in Sessions : ~Known(s) /\ created' = Append(created, s)

LEMMA OrderKept ==
  ASSUME WriterInv, Grows, NEW s, Known(s), NEW x, Before(x, s)'
  PROVE  Before(x, s)
<1>1. CASE created' = created
  BY <1>1 DEF Before
<1>2. CASE \E new \in Sessions : ~Known(new) /\ created' = Append(created, new)
  <2>1. PICK new \in Sessions : ~Known(new) /\ created' = Append(created, new)
    BY <1>2
  <2>2. created \in Seq(Sessions)
    BY DEF WriterInv, SessionsTypeOK
  <2>3. PICK i \in DOMAIN created', j \in DOMAIN created' :
          i < j /\ created'[i] = x /\ created'[j] = s
    BY DEF Before
  <2>4. new # s
    BY <2>1
  <2>5. j \in DOMAIN created /\ created[j] = s
    BY <2>1, <2>2, <2>3, <2>4
  <2>6. i \in DOMAIN created /\ created[i] = x
    BY <2>1, <2>2, <2>3, <2>5
  <2>7. QED
    BY <2>3, <2>5, <2>6 DEF Before
<1>3. QED
  BY <1>1, <1>2 DEF Grows

LEMMA KnownKept ==
  ASSUME WriterInv, Grows, NEW s, Known(s)
  PROVE  Known(s)'
<1>1. created \in Seq(Sessions)
  BY DEF WriterInv, SessionsTypeOK
<1>2. CASE created' = created
  BY <1>2 DEF Known
<1>3. CASE \E new \in Sessions : created' = Append(created, new)
  <2>1. PICK i \in DOMAIN created : created[i] = s
    BY DEF Known
  <2>2. i \in DOMAIN created' /\ created'[i] = s
    BY <1>1, <1>3, <2>1
  <2>3. QED
    BY <2>2 DEF Known
<1>4. QED
  BY <1>2, <1>3 DEF Grows

\* What ChoiceInv says of one process.
Chosen(q) ==
  /\ link[q] = "off" => steady[q] = {}
  /\ link[q] = "listing" => steady[q] \subseteq todo[q] \cup found[q]
  /\ link[q] # "listing" => \A s \in steady[q] : session[q] # None /\ ~Before(session[q], s)

SteadyWhole == \A q \in Terminals : \A s \in steady[q] : sessionFile[s] = "whole"

FilesKnown == \A s \in Sessions : sessionFile[s] # "absent" => Known(s)

LEMMA ChoiceParts ==
  ChoiceInv <=> WriterInv /\ FilesKnown /\ SteadyWhole /\ \A q \in Terminals : Chosen(q)
BY DEF ChoiceInv, SteadyListed, NewestReadableChosen, FilesKnown, SteadyWhole, Chosen

LEMMA SteadyKnown ==
  ASSUME ChoiceInv, NEW q \in Terminals, NEW s \in steady[q]
  PROVE  Known(s)
BY ChoiceParts DEF FilesKnown, SteadyWhole, WriterInv, SessionsTypeOK

\* A process that does nothing keeps its choice, whatever becomes of the files.
LEMMA ChoiceKept ==
  ASSUME ChoiceInv, Grows, NEW q \in Terminals,
         link'[q] = link[q], session'[q] = session[q], todo'[q] = todo[q], found'[q] = found[q],
         steady'[q] \subseteq steady[q]
  PROVE  Chosen(q)'
<1>1. Chosen(q) /\ WriterInv
  BY ChoiceParts
<1>2. ASSUME link'[q] # "listing", NEW s \in steady'[q]
      PROVE  session'[q] # None /\ ~Before(session[q], s)'
  <2>1. s \in steady[q] /\ Known(s)
    BY <1>2, SteadyKnown
  <2>2. session[q] # None /\ ~Before(session[q], s)
    BY <1>1, <1>2, <2>1 DEF Chosen
  <2>3. QED
    BY <1>1, <2>1, <2>2, OrderKept
<1>3. QED
  BY <1>1, <1>2 DEF Chosen, Before

\* A step that leaves the files alone.
LEMMA QuietStep ==
  ASSUME ChoiceInv, NEW p \in Terminals, UNCHANGED fileVars, Chosen(p)',
         \A q \in Terminals \ {p} : /\ link'[q] = link[q] /\ session'[q] = session[q]
                                    /\ todo'[q] = todo[q] /\ found'[q] = found[q]
  PROVE  FilesKnown' /\ SteadyWhole' /\ \A q \in Terminals : Chosen(q)'
<1>1. FilesKnown' /\ SteadyWhole'
  BY ChoiceParts DEF fileVars, FilesKnown, SteadyWhole, Known
<1>2. Grows
  BY DEF fileVars, Grows
<1>3. ASSUME NEW q \in Terminals, q # p
      PROVE  Chosen(q)'
  BY <1>2, <1>3, ChoiceKept DEF fileVars
<1>4. QED
  BY <1>1, <1>3

\* A step that changes a file, or forgets sessions that were whole.
LEMMA FileStep ==
  ASSUME ChoiceInv, Grows, FilesKnown', SteadyWhole',
         UNCHANGED <<session, todo, found>>,
         \A q \in Terminals : steady'[q] \subseteq steady[q],
         \A q \in Terminals :
           link'[q] = link[q] \/ (link[q] \notin {"off", "listing"} /\ link'[q] \notin {"off", "listing"})
  PROVE  \A q \in Terminals : Chosen(q)'
<1> SUFFICES ASSUME NEW q \in Terminals PROVE Chosen(q)'
  OBVIOUS
<1>1. CASE link'[q] = link[q]
  BY <1>1, ChoiceKept
<1>2. CASE link[q] \notin {"off", "listing"} /\ link'[q] \notin {"off", "listing"}
  <2>1. ASSUME NEW s \in steady'[q]
        PROVE  session[q] # None /\ ~Before(session[q], s)'
    <3>1. s \in steady[q] /\ Known(s)
      BY <2>1, SteadyKnown
    <3>2. session[q] # None /\ ~Before(session[q], s) /\ WriterInv
      BY <1>2, <3>1, ChoiceParts DEF Chosen
    <3>3. QED
      BY <3>1, <3>2, OrderKept
  <2>2. QED
    BY <1>2, <2>1 DEF Chosen, Before
<1>3. QED
  BY <1>1, <1>2

LEMMA ChoiceStep ==
  ASSUME ChoiceInv, NEW p \in Terminals,
         \/ \E s \in Sessions : UseSession(p, s)
         \/ \E s \in Sessions, ephemeral \in BOOLEAN : UsePhrase(p, s, ephemeral)
         \/ \E stage \in {"noop", "connectLND", "failed"} : UseOther(p, stage)
         \/ ListSessions(p)
         \/ StartStep(p) \/ RelayStep(p) \/ FallBack(p) \/ Hangup(p)
         \/ \E s \in found[p] : RevokeListed(p, s)
  PROVE  FilesKnown' /\ SteadyWhole' /\ \A q \in Terminals : Chosen(q)'
<1>a. /\ SessionsTypeOK /\ MailboxHeld /\ FilesKnown /\ SteadyWhole /\ Chosen(p)
      /\ \A q \in Terminals : Chosen(q)
  BY ChoiceParts DEF WriterInv
<1>b. /\ link \in [Terminals -> LinkStages] /\ session \in [Terminals -> Sessions \cup {None}]
      /\ todo \in [Terminals -> SUBSET Sessions] /\ found \in [Terminals -> SUBSET Sessions]
      /\ steady \in [Terminals -> SUBSET Sessions]
      /\ sessionFile \in [Sessions -> {"absent", "half", "whole"}]
      /\ created \in Seq(Sessions)
  BY <1>a DEF SessionsTypeOK
<1>1. CASE \/ \E s \in Sessions : UseSession(p, s)
           \/ \E s \in Sessions, ephemeral \in BOOLEAN : UsePhrase(p, s, ephemeral)
           \/ \E stage \in {"noop", "connectLND", "failed"} : UseOther(p, stage)
  <2>1. /\ link[p] = "off" /\ link'[p] \notin {"off", "listing"} /\ UNCHANGED fileVars
        /\ \A q \in Terminals \ {p} : /\ link'[q] = link[q] /\ session'[q] = session[q]
                                       /\ todo'[q] = todo[q] /\ found'[q] = found[q]
    BY <1>1, <1>b DEF UseSession, UsePhrase, UseOther, LinkTo, listVars
  <2>2. Chosen(p)'
    BY <2>1, <1>a DEF Chosen, fileVars
  <2>3. QED
    BY <2>1, <2>2, QuietStep
<1>2. CASE ListSessions(p)
  <2>1. /\ link'[p] = "listing" /\ todo'[p] = Files({"half", "whole"})
        /\ steady'[p] = Files({"whole"})
        /\ UNCHANGED <<sessionFile, created>>
        /\ \A q \in Terminals \ {p} : /\ link'[q] = link[q] /\ session'[q] = session[q]
                                       /\ todo'[q] = todo[q] /\ found'[q] = found[q]
                                       /\ steady'[q] = steady[q]
    BY <1>2, <1>b DEF ListSessions, LinkTo
  <2>2. FilesKnown'
    BY <2>1, <1>a DEF FilesKnown, Known
  <2>3. SteadyWhole'
    BY <2>1, <1>a DEF SteadyWhole, Files
  <2>4. Chosen(p)'
    BY <2>1 DEF Chosen, Files
  <2>5. ASSUME NEW q \in Terminals, q # p
        PROVE  Chosen(q)'
    BY <2>1, <2>5, ChoiceKept DEF Grows
  <2>6. QED
    BY <2>2, <2>3, <2>4, <2>5
<1>3. CASE ReadListed(p)
  <2>1. PICK s \in todo[p] :
          /\ todo'  = [todo EXCEPT ![p] = @ \ {s}]
          /\ found' = [found EXCEPT ![p] = IF sessionFile[s] = "whole" THEN @ \cup {s} ELSE @]
    BY <1>3 DEF ReadListed
  <2>2. link[p] = "listing" /\ UNCHANGED <<fileVars, link, session>>
    BY <1>3 DEF ReadListed
  <2>3. Chosen(p)'
    <3>1. steady'[p] \subseteq todo'[p] \cup found'[p]
      <4>1. steady[p] \subseteq todo[p] \cup found[p]
        BY <2>2, <1>a DEF Chosen
      <4>2. s \in steady[p] => sessionFile[s] = "whole"
        BY <1>a DEF SteadyWhole
      <4>3. todo'[p] = todo[p] \ {s} /\ (sessionFile[s] = "whole" => s \in found'[p])
            /\ found[p] \subseteq found'[p]
        BY <2>1, <1>b
      <4>4. QED
        BY <2>2, <4>1, <4>2, <4>3 DEF fileVars
    <3>2. QED
      BY <2>2, <3>1 DEF Chosen
  <2>4. QED
    BY <2>1, <2>2, <2>3, <1>b, QuietStep
<1>4. CASE EndListing(p)
  <2>1. /\ link[p] = "listing" /\ todo[p] = {} /\ link'[p] \notin {"off", "listing"}
        /\ UNCHANGED fileVars
        /\ \A q \in Terminals \ {p} : /\ link'[q] = link[q] /\ session'[q] = session[q]
                                       /\ todo'[q] = todo[q] /\ found'[q] = found[q]
    BY <1>4, <1>b DEF EndListing, LinkTo, listVars
  <2>2. steady[p] \subseteq found[p]
    BY <2>1, <1>a DEF Chosen
  <2>3. ASSUME NEW s \in steady[p]
        PROVE  session'[p] # None /\ ~Before(session'[p], s)
    <3>1. PICK new \in NewestFound(p) : session' = [session EXCEPT ![p] = new]
      BY <1>4, <2>2, <2>3 DEF EndListing
    <3>2. session'[p] = new /\ new \in found[p] /\ ~Before(new, s)
      BY <3>1, <2>2, <2>3, <1>b DEF NewestFound
    <3>3. new # None
      BY <3>2, <1>b, SessionsAssumption
    <3>4. QED
      BY <3>2, <3>3
  <2>4. Chosen(p)'
    BY <2>1, <2>3 DEF Chosen, fileVars, Before
  <2>5. QED
    BY <2>1, <2>4, QuietStep
<1>5. CASE LoadSession(p) \/ OpenWebsocket(p) \/ Connected(p) \/ GiveUp(p) \/ ConnectLND(p)
           \/ DialAnswered(p) \/ DialFails(p) \/ FallBack(p)
  <2>1. /\ UNCHANGED <<fileVars, session, todo, found>>
        /\ \A q \in Terminals \ {p} : link'[q] = link[q]
        /\ \/ link'[p] = link[p]
           \/ link[p] \notin {"off", "listing"} /\ link'[p] \notin {"off", "listing"}
    BY <1>5, <1>b
    DEF LoadSession, OpenWebsocket, Connected, GiveUp, ConnectLND, DialAnswered, DialFails,
        FallBack, LinkTo, listVars
  <2>2. Chosen(p)'
    BY <2>1, <1>a DEF Chosen, fileVars, Before
  <2>3. QED
    BY <2>1, <2>2, QuietStep
<1>6. CASE TruncateSession(p)
  <2> DEFINE s == session[p]
  <2>1. /\ link[p] = "saving" /\ link'[p] \in {"filling", "up"} /\ s \in Sessions
        /\ UNCHANGED <<session, todo, found>> /\ \A q \in Terminals \ {p} : link'[q] = link[q]
    BY <1>6, <1>a, <1>b DEF TruncateSession, LinkTo, listVars, MailboxHeld, WriteStages
  <2>2. CASE UNCHANGED fileVars
    <3>1. FilesKnown' /\ SteadyWhole' /\ Grows /\ \A q \in Terminals : steady'[q] \subseteq steady[q]
      BY <2>2, <1>a DEF fileVars, FilesKnown, SteadyWhole, Known, Grows
    <3>2. QED
      BY <2>1, <3>1, FileStep
  <2>3. CASE ~UNCHANGED fileVars
    <3>1. /\ sessionFile' = [sessionFile EXCEPT ![s] = "half"]
          /\ created' = IF Known(s) THEN created ELSE Append(created, s)
          /\ steady' = [q \in Terminals |-> steady[q] \ {s}]
      BY <1>6, <2>3 DEF TruncateSession, Known, NoLongerWhole
    <3>2. Grows /\ WriterInv
      BY <2>1, <3>1, ChoiceParts DEF Grows
    <3>3. Known(s)'
      <4>1. CASE Known(s)
        BY <2>1, <3>2, <4>1, KnownKept DEF Known
      <4>2. CASE ~Known(s)
        <5>1. created' = Append(created, s)
          BY <3>1, <4>2
        <5>2. Len(created) + 1 \in DOMAIN created' /\ created'[Len(created) + 1] = s
          BY <5>1, <2>1, <1>b
        <5>3. QED
          BY <2>1, <5>2 DEF Known
      <4>3. QED
        BY <4>1, <4>2
    <3>4. FilesKnown'
      <4> SUFFICES ASSUME NEW x \in Sessions, sessionFile'[x] # "absent" PROVE Known(x)'
        BY DEF FilesKnown
      <4>1. CASE x = s
        <5>1. \E i \in DOMAIN created' : created'[i] = session[p]
          BY <3>3, <2>1 DEF Known
        <5>2. QED
          BY <4>1, <5>1 DEF Known
      <4>2. CASE x # s
        BY <3>1, <3>2, <4>2, <1>a, <1>b, KnownKept DEF FilesKnown
      <4>3. QED
        BY <4>1, <4>2
    <3>5. SteadyWhole' /\ \A q \in Terminals : steady'[q] \subseteq steady[q]
      BY <3>1, <1>a, <1>b, <2>1 DEF SteadyWhole
    <3>6. QED
      BY <2>1, <3>2, <3>4, <3>5, FileStep
  <2>4. QED
    BY <2>2, <2>3
<1>7. CASE FillSession(p)
  <2>1. /\ link[p] = "filling" /\ link'[p] = "up"
        /\ UNCHANGED <<created, steady, session, todo, found>>
        /\ \A q \in Terminals \ {p} : link'[q] = link[q]
    BY <1>7, <1>b DEF FillSession, LinkTo, listVars
  <2>2. \A s \in Sessions : /\ sessionFile'[s] # "absent" => sessionFile[s] # "absent"
                            /\ sessionFile[s] = "whole" => sessionFile'[s] = "whole"
    BY <1>7, <1>b DEF FillSession
  <2>3. FilesKnown'
    BY <2>1, <2>2, <1>a DEF FilesKnown, Known
  <2>4. SteadyWhole' /\ Grows
    BY <2>1, <2>2, <1>a, <1>b DEF SteadyWhole, Grows
  <2>5. QED
    BY <2>1, <2>3, <2>4, FileStep
<1>8. CASE Hangup(p)
  <2>1. /\ link'[p] = "off" /\ steady'[p] = {} /\ UNCHANGED <<sessionFile, created>>
        /\ \A q \in Terminals \ {p} : /\ link'[q] = link[q] /\ session'[q] = session[q]
                                       /\ todo'[q] = todo[q] /\ found'[q] = found[q]
                                       /\ steady'[q] = steady[q]
    BY <1>8, <1>b DEF Hangup, LinkTo
  <2>2. FilesKnown' /\ SteadyWhole'
    BY <2>1, <1>a DEF FilesKnown, Known, SteadyWhole
  <2>3. Chosen(p)'
    BY <2>1 DEF Chosen
  <2>4. ASSUME NEW q \in Terminals, q # p
        PROVE  Chosen(q)'
    BY <2>1, <2>4, ChoiceKept DEF Grows
  <2>5. QED
    BY <2>2, <2>3, <2>4
<1>9. CASE \E s \in found[p] : RevokeListed(p, s)
  <2>1. PICK s \in found[p] : RevokeListed(p, s)
    BY <1>9
  <2>2. /\ UNCHANGED <<created, link, session, todo>>
        /\ sessionFile' = [sessionFile EXCEPT ![s] = "absent"]
        /\ steady' = [q \in Terminals |-> steady[q] \ {s}]
        /\ found' = [found EXCEPT ![p] = @ \ {s}]
    BY <2>1 DEF RevokeListed, DeleteSession, NoLongerWhole
  <2>3. FilesKnown'
    BY <2>2, <1>a, <1>b DEF FilesKnown, Known
  <2>4. SteadyWhole' /\ Grows
    BY <2>2, <1>a, <1>b DEF SteadyWhole, Grows
  <2>5. Chosen(p)'
    BY <2>2, <1>a, <1>b DEF Chosen, Before
  <2>6. ASSUME NEW q \in Terminals, q # p
        PROVE  Chosen(q)'
    BY <2>2, <2>4, <2>6, <1>b, ChoiceKept
  <2>7. QED
    BY <2>3, <2>4, <2>5, <2>6
<1>10. QED
  BY <1>1, <1>2, <1>3, <1>4, <1>5, <1>6, <1>7, <1>8, <1>9 DEF StartStep, RelayStep

LEMMA ChoiceNext ==
  ASSUME ChoiceInv, [SessionsNext]_sessionVars
  PROVE  ChoiceInv'
<1>1. WriterInv'
  BY WriterNext DEF ChoiceInv
<1>2. ASSUME NEW s \in Sessions, RevokeOne(s)
      PROVE  FilesKnown' /\ SteadyWhole' /\ \A q \in Terminals : Chosen(q)'
  <2>1. /\ UNCHANGED <<created, link, session, todo, found>>
        /\ sessionFile' = [sessionFile EXCEPT ![s] = "absent"]
        /\ steady' = [q \in Terminals |-> steady[q] \ {s}]
    BY <1>2 DEF RevokeOne, DeleteSession, NoLongerWhole, listVars
  <2>2. /\ FilesKnown /\ SteadyWhole
        /\ sessionFile \in [Sessions -> {"absent", "half", "whole"}]
        /\ steady \in [Terminals -> SUBSET Sessions]
    BY ChoiceParts DEF WriterInv, SessionsTypeOK
  <2>3. FilesKnown' /\ SteadyWhole' /\ Grows
    BY <2>1, <2>2 DEF FilesKnown, Known, SteadyWhole, Grows
  <2>4. QED
    BY <2>1, <2>3, FileStep
<1>3. CASE UNCHANGED sessionVars
  BY <1>1, <1>3
  DEF sessionVars, ChoiceInv, SteadyListed, NewestReadableChosen, Known, Before
<1>4. ASSUME FilesKnown' /\ SteadyWhole' /\ \A q \in Terminals : Chosen(q)'
      PROVE  ChoiceInv'
  BY <1>1, <1>4
  DEF ChoiceInv, SteadyListed, NewestReadableChosen, FilesKnown, SteadyWhole, Chosen
<1>5. QED
  BY <1>2, <1>3, <1>4, ChoiceStep DEF SessionsNext

\* createBackend resumes the newest session that could be read all the while it
\* listed them, whatever other processes pair, save or revoke beside it.
THEOREM NewestChosen == SessionsSpec => []NewestReadableChosen
<1>1. ChoiceInv => NewestReadableChosen
  BY DEF ChoiceInv
<1>2. QED
  BY <1>1, InitSessions, ChoiceNext, PTL DEF SessionsSpec
====
