---- MODULE TokenFiles ----
(***************************************************************************)
(* The token store on disk: l402.FileStore, one directory per domain with  *)
(* the paid token, the pending token and the domain's name in three files, *)
(* written and read by the aperture FileStore it wraps.                    *)
(*                                                                         *)
(* A step is one system call.  No file is locked: the clients (requests of *)
(* one or several processes, the dashboard, `lnget tokens`) interleave at  *)
(* will, and two domains may have to share a directory.  There is no       *)
(* fairness, so a client may also die between any two of its steps.        *)
(***************************************************************************)
EXTENDS Naturals, Sequences

CONSTANTS
  Domains,    \* domain names, each a sequence of characters
  Tokens,     \* the payment hashes of the tokens that are bought
  Clients,    \* whoever calls the store
  Programs,   \* the calls each client makes, in every scenario of an instance
  DiskFaults, \* whether a write or a removal may fail
  None        \* no token, no file, no name

INSTANCE TokenCache

\* The characters SanitizeDomain keeps; it replaces the colon and drops the
\* rest, for which the slash stands.
Kept == {"h", "p", "_", "."}
Characters == Kept \cup {":", "/"}

SafeByte(c) == IF c = ":" THEN <<"_">> ELSE IF c \in Kept THEN <<c>> ELSE << >>

SanitizeDomain(name) ==
  LET safe[i \in 0 .. Len(name)] ==
        IF i = 0 THEN << >> ELSE safe[i - 1] \o SafeByte(name[i])
  IN  safe[Len(name)]

Dirs == {SanitizeDomain(name) : name \in Domains}

Get(name)        == [op |-> "get",    name |-> name, new |-> NoToken]
Put(name, token) == [op |-> "store",  name |-> name, new |-> token]
Remove(name)     == [op |-> "remove", name |-> name, new |-> NoToken]
AllTokens        == [op |-> "list",   name |-> << >>, new |-> NoToken]
ClearTokens      == [op |-> "clear",  name |-> << >>, new |-> NoToken]

Calls == {AllTokens, ClearTokens}
  \cup UNION {{Get(n), Remove(n)} \cup {Put(n, e) : e \in Entry \ {NoToken}} :
                n \in Domains}

Unreadables == {"empty", "garbled"}
Returns     == {"error", "stored", "removed", "listed", "cleared"}

ASSUME TokenFilesAssumption ==
  /\ Programs \subseteq [Clients -> Seq(Calls)]
  /\ DiskFaults \in BOOLEAN
  /\ Domains \subseteq Seq(Characters)
  /\ None \notin Tokens \cup Domains \cup Dirs \cup Unreadables \cup Returns
  /\ Tokens \cap (Unreadables \cup Returns) = {}
  /\ \A name \in Domains : SanitizeDomain(name) \notin {<< >>, <<".">>, <<".", ".">>}

VARIABLES
  program,  \* the scenario
  dirs,     \* the directories that exist
  files,    \* what each directory holds
  at,       \* the call each client is making
  stage,    \* how far it has come
  here,     \* the directory it works on
  todo,     \* the files RemoveAll, or the directories a listing, has yet to visit
  current,  \* what CurrentToken returned to StoreToken
  fd,       \* the clients whose open file is still linked
  result,   \* what the call returned
  listed,   \* the domains and tokens AllTokens or ListDomains has found
  since     \* history: the credentials each directory has had during the call

diskVars   == <<dirs, files>>
clientVars == <<at, stage, here, todo, current, fd, result, listed>>

NoFiles == [paid |-> None, pending |-> None, name |-> None]

\* The credential a directory yields: the paid token, if it can be read.
Credential(held) == IF held.paid \in Tokens THEN held.paid ELSE None

NoHistory == [dir \in Dirs |-> {}]

Init ==
  /\ program \in Programs
  /\ dirs = {}
  /\ files   = [dir \in Dirs |-> NoFiles]
  /\ at      = [c \in Clients |-> 1]
  /\ stage   = [c \in Clients |-> "idle"]
  /\ here    = [c \in Clients |-> None]
  /\ todo    = [c \in Clients |-> {}]
  /\ current = [c \in Clients |-> NoToken]
  /\ fd      = {}
  /\ result  = [c \in Clients |-> None]
  /\ listed  = [c \in Clients |-> {}]
  /\ since   = [c \in Clients |-> NoHistory]

----
Call(c) == program[c][at[c]]
Held(c) == files[here[c]]

Goto(c, s) == stage' = [stage EXCEPT ![c] = s]

\* The call returns; a client that got an error, or a credential, stops.
Return(c, value) ==
  /\ result' = [result EXCEPT ![c] = value]
  /\ IF (value = "error" /\ Call(c).op = "store") \/ value \in Tokens
     THEN Goto(c, "end") /\ UNCHANGED at
     ELSE Goto(c, "idle") /\ at' = [at EXCEPT ![c] = @ + 1]

\* getDomainStore creates the directory; RemoveAll and a listing read one.
Begin(c) ==
  /\ stage[c] = "idle"
  /\ at[c] <= Len(program[c])
  /\ LET dir == SanitizeDomain(Call(c).name) IN
       CASE Call(c).op \in {"get", "store"} ->
              /\ here' = [here EXCEPT ![c] = dir]
              /\ dirs' = dirs \cup {dir}
              /\ Goto(c, "statPaid")
              /\ UNCHANGED <<todo, listed>>
         [] Call(c).op = "remove" ->
              /\ here' = [here EXCEPT ![c] = dir]
              /\ todo' = [todo EXCEPT ![c] = {f \in DOMAIN NoFiles : files[dir][f] # None}]
              /\ Goto(c, "unlink")
              /\ UNCHANGED <<dirs, listed>>
         [] Call(c).op \in {"list", "clear"} ->
              /\ todo' = [todo EXCEPT ![c] = dirs]
              /\ listed' = [listed EXCEPT ![c] = {}]
              /\ Goto(c, "nextDir")
              /\ UNCHANGED <<dirs, here>>
  /\ UNCHANGED <<files, at, current, fd, result>>

----
(* CurrentToken, for GetToken, StoreToken, AllTokens and ListDomains.      *)

\* Faulty variant: StoreToken replaces whatever is there.
FoundReplaces(c, token) ==
  /\ current' = [current EXCEPT ![c] = token]
  /\ CASE Call(c).op = "get"   -> Return(c, IF token.paid THEN token.tok ELSE None)
       [] Call(c).op = "store" -> Goto(c, "create") /\ UNCHANGED <<at, result>>
       [] OTHER                -> /\ Goto(c, IF token = NoToken THEN "nextDir" ELSE "readName")
                                  /\ UNCHANGED <<at, result>>

\* Faulty variant: AllTokens ends at the first directory without a token.
FoundStopsListing(c, token) ==
  /\ current' = [current EXCEPT ![c] = token]
  /\ CASE Call(c).op = "get"   -> Return(c, IF token.paid THEN token.tok ELSE None)
       [] Call(c).op = "store" -> IF StoreAllowed(token, Call(c).new)
                                  THEN Goto(c, "create") /\ UNCHANGED <<at, result>>
                                  ELSE Return(c, "error")
       [] OTHER                -> IF token = NoToken
                                  THEN Return(c, "listed")
                                  ELSE Goto(c, "readName") /\ UNCHANGED <<at, result>>

\* The call goes on with the token it found, or with none.
Found(c, token) ==
  /\ current' = [current EXCEPT ![c] = token]
  /\ CASE Call(c).op = "get"   -> Return(c, IF token.paid THEN token.tok ELSE None)
       [] Call(c).op = "store" -> IF StoreAllowed(token, Call(c).new)
                                  THEN Goto(c, "create") /\ UNCHANGED <<at, result>>
                                  ELSE Return(c, "error")
       [] OTHER                -> /\ Goto(c, IF token = NoToken THEN "nextDir" ELSE "readName")
                                  /\ UNCHANGED <<at, result>>

\* Faulty variant: ListDomains ends at the first directory it cannot read.
UnreadableEndsClear(c) ==
  /\ IF Call(c).op = "clear"
     THEN Goto(c, "removeNext") /\ UNCHANGED <<at, result>>
     ELSE Return(c, IF Call(c).op = "get" THEN None ELSE "error")
  /\ UNCHANGED current

\* A transport that gets an error from GetToken goes on without a credential,
\* and ListDomains without the directory.
Unreadable(c) ==
  /\ IF Call(c).op = "clear"
     THEN Goto(c, "nextDir") /\ UNCHANGED <<at, result>>
     ELSE Return(c, IF Call(c).op = "get" THEN None ELSE "error")
  /\ UNCHANGED current

\* Faulty variant: the pending file is looked for first.
StatPendingFirst(c) ==
  /\ stage[c] = "statPaid"
  /\ Goto(c, IF Held(c).pending # None THEN "readPending"
             ELSE IF Held(c).paid # None THEN "readPaid" ELSE "statPending")
  /\ UNCHANGED <<diskVars, at, here, todo, current, fd, result, listed>>

StatPaid(c) ==
  /\ stage[c] = "statPaid"
  /\ Goto(c, IF Held(c).paid # None THEN "readPaid" ELSE "statPending")
  /\ UNCHANGED <<diskVars, at, here, todo, current, fd, result, listed>>

StatPending(c) ==
  /\ stage[c] = "statPending"
  /\ IF Held(c).pending # None
     THEN Goto(c, "readPending") /\ UNCHANGED <<at, current, result>>
     ELSE Found(c, NoToken)
  /\ UNCHANGED <<diskVars, here, todo, fd, listed>>

\* The file may have gone since, or be half written.
ReadToken(c) ==
  /\ \/ /\ stage[c] = "readPaid"
        /\ IF Held(c).paid \in Tokens THEN Found(c, Paid(Held(c).paid)) ELSE Unreadable(c)
     \/ /\ stage[c] = "readPending"
        /\ IF Held(c).pending \in Tokens THEN Found(c, Pending(Held(c).pending))
           ELSE Unreadable(c)
  /\ UNCHANGED <<diskVars, here, todo, fd, listed>>

----
(* StoreToken, once it knows that the write is allowed.                    *)

Target(c) == IF Call(c).new.paid THEN "paid" ELSE "pending"

\* os.WriteFile opens the file, creating or truncating it ...
CreateFile(c) ==
  /\ stage[c] = "create"
  /\ \/ /\ here[c] \in dirs
        /\ files' = [files EXCEPT ![here[c]][Target(c)] = "empty"]
        /\ fd' = fd \cup {c}
        /\ Goto(c, "fill")
        /\ UNCHANGED <<at, result>>
     \/ /\ here[c] \notin dirs \/ DiskFaults
        /\ Return(c, "error")
        /\ UNCHANGED <<files, fd>>
  /\ UNCHANGED <<dirs, here, todo, current, listed>>

\* ... and writes the token.  Two writers of one file may mix their bytes; the
\* bytes of a writer whose file was unlinked are nobody's.
FillFile(c) ==
  /\ stage[c] = "fill"
  /\ \/ /\ \E content \in {Call(c).new.tok}
             \cup (IF Held(c)[Target(c)] = "empty" THEN {} ELSE {"garbled"}) :
             files' = IF c \in fd THEN [files EXCEPT ![here[c]][Target(c)] = content]
                                  ELSE files
        /\ Goto(c, IF current[c] = NoToken THEN "writeName" ELSE "unlinkPending")
        /\ UNCHANGED <<at, result>>
     \/ /\ DiskFaults
        /\ Return(c, "error")
        /\ UNCHANGED files
  /\ fd' = fd \ {c}
  /\ UNCHANGED <<dirs, here, todo, current, listed>>

\* Faulty variant: the file is emptied and stays.
EmptyFile(dir, f) ==
  /\ files' = [files EXCEPT ![dir][f] = "empty"]
  /\ UNCHANGED fd

\* The clients that are writing the file lose it.
Unlink(dir, f) ==
  /\ files' = [files EXCEPT ![dir][f] = None]
  /\ fd' = {c \in fd : here[c] # dir \/ Target(c) # f}

\* A paid token has taken the place of the pending one, whose removal is best
\* effort.
UnlinkPending(c) ==
  /\ stage[c] = "unlinkPending"
  /\ Unlink(here[c], "pending") \/ (DiskFaults /\ UNCHANGED <<files, fd>>)
  /\ Goto(c, "writeName")
  /\ UNCHANGED <<dirs, at, here, todo, current, result, listed>>

\* storeDomainMetadata, best effort, too.
WriteName(c) ==
  /\ stage[c] = "writeName"
  /\ \/ /\ dirs' = dirs \cup {here[c]}
        /\ files' = [files EXCEPT ![here[c]].name = Call(c).name]
     \/ DiskFaults /\ UNCHANGED diskVars
  /\ Return(c, "stored")
  /\ UNCHANGED <<here, todo, current, fd, listed>>

----
(* RemoveToken: os.RemoveAll of the directory.                             *)

UnlinkFile(c) ==
  /\ stage[c] = "unlink"
  /\ \E f \in todo[c] :
       /\ Unlink(here[c], f)
       /\ todo' = [todo EXCEPT ![c] = @ \ {f}]
  /\ UNCHANGED <<dirs, at, stage, here, current, result, listed>>

\* `lnget tokens clear` goes on whatever becomes of one directory, and says so.
Removed(c, outcome) ==
  IF Call(c).op = "clear"
  THEN /\ result' = [result EXCEPT ![c] = IF outcome = "error" THEN "error" ELSE @]
       /\ Goto(c, "removeNext")
       /\ UNCHANGED at
  ELSE Return(c, outcome)

\* The directory goes if nothing was put into it behind RemoveAll's back.
RemoveDir(c) ==
  /\ stage[c] = "unlink"
  /\ \/ /\ todo[c] = {}
        /\ dirs' = IF Held(c) = NoFiles THEN dirs \ {here[c]} ELSE dirs
        /\ Removed(c, "removed")
        /\ UNCHANGED todo
     \/ /\ DiskFaults
        /\ todo' = [todo EXCEPT ![c] = {}]
        /\ Removed(c, "error")
        /\ UNCHANGED dirs
  /\ UNCHANGED <<files, here, current, fd, listed>>

----
(* AllTokens and ListDomains, and what `lnget tokens clear` does with it.  *)

\* Whoever is asked whether to go on with a clear may decline.
NextDir(c) ==
  /\ stage[c] = "nextDir"
  /\ \/ \E dir \in todo[c] :
          /\ here' = [here EXCEPT ![c] = dir]
          /\ todo' = [todo EXCEPT ![c] = @ \ {dir}]
          /\ dirs' = dirs \cup {dir}
          /\ Goto(c, "statPaid")
          /\ UNCHANGED <<at, result>>
     \/ /\ todo[c] = {}
        /\ Return(c, "listed")
        /\ UNCHANGED <<dirs, here, todo>>
     \/ /\ todo[c] = {}
        /\ Call(c).op = "clear"
        /\ Goto(c, "removeNext")
        /\ result' = [result EXCEPT ![c] = None]
        /\ UNCHANGED <<dirs, at, here, todo>>
  /\ UNCHANGED <<files, current, fd, listed>>

\* Faulty variant: the underscores are dropped and no colon is put back.
OriginalHostOnly(dir) ==
  IF files[dir].name # None THEN files[dir].name
  ELSE SelectSeq(dir, LAMBDA c : c # "_")

\* Without the metadata file the last underscore is taken for a colon.
GetOriginalDomain(dir) ==
  LET cut == {i \in DOMAIN dir : dir[i] = "_"} IN
    IF files[dir].name # None THEN files[dir].name
    ELSE [i \in DOMAIN dir |->
            IF i \in cut /\ \A j \in cut : j <= i THEN ":" ELSE dir[i]]

ReadName(c) ==
  /\ stage[c] = "readName"
  /\ listed' = [listed EXCEPT ![c] =
       @ \cup {[name |-> GetOriginalDomain(here[c]), dir |-> here[c], token |-> current[c]]}]
  /\ Goto(c, "nextDir")
  /\ UNCHANGED <<diskVars, at, here, todo, current, fd, result>>

RemoveNext(c) ==
  /\ stage[c] = "removeNext"
  /\ \/ \E row \in listed[c] :
          LET dir == SanitizeDomain(row.name) IN
          /\ listed' = [listed EXCEPT ![c] = @ \ {row}]
          /\ here' = [here EXCEPT ![c] = dir]
          /\ todo' = [todo EXCEPT ![c] = {f \in DOMAIN NoFiles : files[dir][f] # None}]
          /\ Goto(c, "unlink")
          /\ UNCHANGED <<at, result>>
     \/ /\ listed[c] = {}
        /\ Return(c, IF result[c] = "error" THEN "error" ELSE "cleared")
        /\ UNCHANGED <<here, todo, listed>>
  /\ UNCHANGED <<diskVars, current, fd>>

----
ClientStep(c) ==
  \/ Begin(c) \/ StatPaid(c) \/ StatPending(c) \/ ReadToken(c)
  \/ CreateFile(c) \/ FillFile(c) \/ UnlinkPending(c) \/ WriteName(c)
  \/ UnlinkFile(c) \/ RemoveDir(c) \/ NextDir(c) \/ ReadName(c) \/ RemoveNext(c)

\* Every client in the middle of a read sees what the step did to the store.
Observe == since' = [c \in Clients |->
  IF (stage[c] = "idle" /\ stage'[c] = "idle") \/ stage[c] = "end"
  THEN since[c]
  ELSE [dir \in Dirs |-> (IF stage[c] = "idle" THEN {} ELSE since[c][dir])
                           \cup {Credential(files'[dir])}]]

Next == \E c \in Clients : ClientStep(c) /\ Observe /\ UNCHANGED program

vars == <<program, diskVars, clientVars, since>>

Spec == Init /\ [][Next]_vars

----
(* Properties.                                                             *)

Stages ==
  {"idle", "statPaid", "readPaid", "statPending", "readPending", "create", "fill",
   "unlinkPending", "writeName", "unlink", "nextDir", "readName", "removeNext", "end"}

TypeOK ==
  /\ dirs \subseteq Dirs
  /\ files \in [Dirs -> [paid: Tokens \cup Unreadables \cup {None},
                         pending: Tokens \cup Unreadables \cup {None},
                         name: Domains \cup {None}]]
  /\ \A c \in Clients : at[c] \in 1 .. Len(program[c]) + 1
  /\ stage \in [Clients -> Stages]
  /\ here \in [Clients -> Dirs \cup {None}]
  /\ current \in [Clients -> Entry]
  /\ fd \subseteq Clients
  /\ result \in [Clients -> Tokens \cup Returns \cup {None}]

\* The call a client has just finished, if it is one of the given kind.
Finished(c, op) ==
  /\ stage[c] \in {"idle", "end"}
  /\ LET last == IF stage[c] = "end" THEN at[c] ELSE at[c] - 1 IN
       last > 0 /\ program[c][last].op = op

\* GetToken takes several system calls and no lock, and yet the credential it
\* yields, or the lack of one, is what the directory had at some moment in
\* between: the transport may treat the lookup as a single step.
LookupsAtomic ==
  \A c \in Clients : Finished(c, "get") => result[c] \in since[c][here[c]]

\* A listing that succeeds has every domain whose paid token was there all the
\* time, whatever other clients wrote and removed meanwhile.
ListingComplete ==
  \A c \in Clients : Finished(c, "list") /\ result[c] = "listed" =>
    \A dir \in Dirs : \A t \in Tokens :
      since[c][dir] = {t} => \E row \in listed[c] : row.dir = dir /\ row.token = Paid(t)

\* No token outlives a `lnget tokens clear` that reported no failure, if it was
\* there from the moment the clear began: the names it goes by are read from
\* directories that others fill, empty and cannot read meanwhile.
ClearedAll ==
  \A c \in Clients : Finished(c, "clear") /\ result[c] = "cleared" =>
    \A dir \in Dirs, t \in Tokens : since[c][dir] # {t}

\* The domain a listing shows leads back to the token it shows, with or without
\* the metadata file: `lnget tokens remove` of that name removes that token.
ListedNamesLeadBack ==
  \A c \in Clients : \A row \in listed[c] : SanitizeDomain(row.name) = row.dir

\* The files implement one entry per directory, which is written in a single
\* step: a reader never finds a token that is neither the old nor the new one,
\* a paid token is never replaced behind the back of its owner unless two
\* writers have raced for the directory, and nothing but a removal takes it away.
EntryOf(held) ==
  IF held.paid \in Tokens THEN Paid(held.paid)
  ELSE IF held.pending \in Tokens THEN Pending(held.pending)
  ELSE NoToken

\* What a writer takes the entry to be while it works on the files.
Expected(c) == IF stage[c] = "unlinkPending" THEN Call(c).new ELSE current[c]

Racing(dir) == \E c \in Clients :
  /\ stage[c] \in {"create", "fill", "unlinkPending"}
  /\ here[c] = dir
  /\ EntryOf(files[dir]) # Expected(c)

Removing(dir) == \E c \in Clients : stage[c] = "unlink" /\ here[c] = dir

Entries == INSTANCE TokenStore WITH
  entry    <- [dir \in Dirs |-> EntryOf(files[dir])],
  racing   <- {dir \in Dirs : Racing(dir)},
  removing <- {dir \in Dirs : Removing(dir)}

StoreSpec == Entries!Spec
====
