---- MODULE TokenFilesProofs ----
(***************************************************************************)
(* Proofs about the token store on disk, for any clients, programs, domain *)
(* names and tokens, and whether or not the disk fails.                    *)
(***************************************************************************)
EXTENDS TokenFiles, SequenceTheorems, WellFoundedInduction, TLAPS

----
(* Names.  SanitizeDomain is a loop, so its results are proved by induction *)
(* over a prefix of the name, for which a set of numbers stands.            *)

LEMMA SetInduction ==
  ASSUME NEW S \in SUBSET Nat, 0 \in S, \A n \in S : n + 1 \in S
  PROVE  S = Nat
<1> DEFINE T == Nat \ S
<1>1. SUFFICES ASSUME T # {} PROVE FALSE
  OBVIOUS
<1> DEFINE R == OpToRel(<, Nat)
<1>2. IsWellFoundedOn(R, Nat)
  BY NatLessThanWellFounded
<1>3. \A x, y \in Nat : x < y => <<x, y>> \in R
  BY DEF OpToRel
<1>4. PICK x \in T : \A y \in T : ~ (<<y, x>> \in R)
  <2>1. T \subseteq Nat
    OBVIOUS
  <2> HIDE DEF T, R
  <2> QED
    BY <1>1, <1>2, <2>1, WFMin
<1>5. x \in Nat /\ x # 0
  BY <1>4
<1>6. x - 1 \in Nat /\ <<x - 1, x>> \in R
  BY <1>3, <1>5 DEF OpToRel
<1>7. x - 1 \in S
  <2> HIDE DEF R
  <2> QED
    BY <1>4, <1>6
<1>8. (x - 1) + 1 = x
  BY <1>5
<1>9. x \in S
  BY <1>7, <1>8
<1> QED
  BY <1>4, <1>9

LEMMA SafeByteType ==
  ASSUME NEW c
  PROVE  SafeByte(c) \in Seq(Kept)
<1>1. <<"_">> \in Seq(Kept)
  BY DEF Kept
<1>2. ASSUME c \in Kept PROVE <<c>> \in Seq(Kept)
  BY <1>2
<1>3. << >> \in Seq(Kept)
  OBVIOUS
<1> QED
  BY <1>1, <1>2, <1>3, Zenon DEF SafeByte

LEMMA SafeLoop ==
  ASSUME NEW name \in Seq(Characters)
  PROVE  \E safe \in [0 .. Len(name) -> Seq(Kept)] :
           /\ safe[0] = << >>
           /\ \A i \in 1 .. Len(name) : safe[i] = safe[i - 1] \o SafeByte(name[i])
           /\ SanitizeDomain(name) = safe[Len(name)]
<1> DEFINE n == Len(name)
           Loop(f, m) == f = [i \in 0 .. m |-> IF i = 0 THEN << >>
                                 ELSE f[i - 1] \o SafeByte(name[i])]
           S == {m \in Nat : \E f \in [0 .. m -> Seq(Kept)] : Loop(f, m)}
<1>1. 0 \in S
  <2>1. [i \in 0 .. 0 |-> << >>] \in [0 .. 0 -> Seq(Kept)]
    OBVIOUS
  <2>2. Loop([i \in 0 .. 0 |-> << >>], 0)
    OBVIOUS
  <2> QED
    BY <2>1, <2>2
<1>2. ASSUME NEW m \in S PROVE m + 1 \in S
  <2>1. PICK f \in [0 .. m -> Seq(Kept)] : Loop(f, m)
    OBVIOUS
  <2> DEFINE g == [i \in 0 .. m + 1 |-> IF i = m + 1 THEN f[m] \o SafeByte(name[m + 1])
                                        ELSE f[i]]
  <2>2. f[m] \o SafeByte(name[m + 1]) \in Seq(Kept)
    BY SafeByteType, ConcatProperties
  <2>3. g \in [0 .. m + 1 -> Seq(Kept)]
    BY <2>2
  <2>a. \A i \in 0 .. m : f[i] = IF i = 0 THEN << >> ELSE f[i - 1] \o SafeByte(name[i])
    BY <2>1
  <2>b. \A i \in 0 .. m : g[i] = f[i]
    BY <2>3
  <2>c. g[m + 1] = f[m] \o SafeByte(name[m + 1])
    BY <2>3
  <2>4. ASSUME NEW i \in 0 .. m + 1
        PROVE  g[i] = IF i = 0 THEN << >> ELSE g[i - 1] \o SafeByte(name[i])
    <3> HIDE DEF g
    <3>1. CASE i = 0
      <4>1. 0 \in 0 .. m
        OBVIOUS
      <4>2. f[0] = << >> /\ g[0] = f[0]
        BY <2>a, <2>b, <4>1
      <4> QED
        BY <3>1, <4>2
    <3>2. CASE i \in 1 .. m
      <4>1. i - 1 \in 0 .. m /\ i \in 0 .. m /\ i # 0
        BY <3>2
      <4> QED
        BY <2>a, <2>b, <4>1
    <3>3. CASE i = m + 1
      <4>1. i - 1 = m /\ m \in 0 .. m /\ i # 0
        BY <3>3
      <4> QED
        BY <2>b, <2>c, <3>3, <4>1
    <3> QED
      BY <3>1, <3>2, <3>3
  <2>5. Loop(g, m + 1)
    BY <2>3, <2>4
  <2>6. m + 1 \in Nat
    OBVIOUS
  <2> HIDE DEF Loop, g
  <2> QED
    BY <2>3, <2>5, <2>6
<1>3. n \in S
  <2>1. S \in SUBSET Nat
    <3> HIDE DEF Loop
    <3> QED
      OBVIOUS
  <2>2. n \in Nat
    OBVIOUS
  <2> HIDE DEF S
  <2> QED
    BY <1>1, <1>2, <2>1, <2>2, SetInduction
<1> DEFINE safe == CHOOSE f : Loop(f, n)
<1>4. PICK f \in [0 .. n -> Seq(Kept)] : Loop(f, n)
  BY <1>3
<1>5. Loop(safe, n)
  BY <1>4
<1> QED
  OBVIOUS

\* A directory's name has safe characters only ...
LEMMA SanitizeType ==
  ASSUME NEW name \in Seq(Characters)
  PROVE  SanitizeDomain(name) \in Seq(Kept)
<1>1. PICK safe \in [0 .. Len(name) -> Seq(Kept)] : SanitizeDomain(name) = safe[Len(name)]
  BY SafeLoop
<1> QED
  BY <1>1

\* ... and is what becomes of every name that differs from it in colons only.
SameButColons(name, dir) ==
  /\ Len(name) = Len(dir)
  /\ \A i \in 1 .. Len(dir) : name[i] = dir[i] \/ (dir[i] = "_" /\ name[i] = ":")

LEMMA SanitizeInverse ==
  ASSUME NEW dir \in Seq(Kept), NEW name \in Seq(Characters), SameButColons(name, dir)
  PROVE  SanitizeDomain(name) = dir
<1> DEFINE n == Len(dir)
           Prefix(m) == [i \in 1 .. m |-> dir[i]]
<1>1. PICK safe \in [0 .. n -> Seq(Kept)] :
        /\ safe[0] = << >>
        /\ \A i \in 1 .. n : safe[i] = safe[i - 1] \o SafeByte(name[i])
        /\ SanitizeDomain(name) = safe[n]
  BY SafeLoop DEF SameButColons
<1>2. n \in Nat
  OBVIOUS
<1>3. ASSUME NEW i \in 1 .. n PROVE SafeByte(name[i]) = <<dir[i]>> /\ dir[i] \in Kept
  <2>1. dir[i] \in Kept
    OBVIOUS
  <2>2. ":" \notin Kept /\ "_" \in Kept
    BY DEF Kept
  <2>3. name[i] = dir[i] \/ (dir[i] = "_" /\ name[i] = ":")
    BY DEF SameButColons
  <2> QED
    BY <2>1, <2>2, <2>3 DEF SafeByte
<1> DEFINE S == {m \in Nat : m <= n => safe[m] = Prefix(m)}
<1>4. 0 \in S
  BY <1>1
<1>5. ASSUME NEW m \in S PROVE m + 1 \in S
  <2> SUFFICES ASSUME m + 1 <= n PROVE safe[m + 1] = Prefix(m + 1)
    OBVIOUS
  <2>1. m + 1 \in 1 .. n /\ m <= n
    BY <1>2
  <2>2. safe[m] = Prefix(m) /\ Prefix(m) \in Seq(Kept) /\ Len(Prefix(m)) = m
    BY <1>3, <2>1
  <2>3. safe[m + 1] = Prefix(m) \o <<dir[m + 1]>>
    <3>1. (m + 1) - 1 = m
      BY <2>1
    <3>2. safe[m + 1] = safe[m] \o SafeByte(name[m + 1])
      BY <1>1, <2>1, <3>1
    <3> QED
      BY <1>3, <2>1, <2>2, <3>2
  <2>4. Prefix(m) \o <<dir[m + 1]>> = Prefix(m + 1)
    BY <1>3, <2>1, <2>2
  <2> QED
    BY <2>3, <2>4
<1>6. n \in S
  <2>1. S \in SUBSET Nat
    OBVIOUS
  <2> HIDE DEF S
  <2> QED
    BY <1>2, <1>4, <1>5, <2>1, SetInduction
<1>7. Prefix(n) = dir
  OBVIOUS
<1>8. safe[n] = Prefix(n)
  BY <1>2, <1>6
<1> HIDE DEF S, Prefix
<1> QED
  BY <1>1, <1>7, <1>8

LEMMA DirsType == Dirs \subseteq Seq(Kept)
BY SanitizeType, TokenFilesAssumption DEF Dirs

\* With or without its metadata, a directory has a name that leads back to it.
LEMMA OriginalLeadsBack ==
  ASSUME NEW dir \in Dirs,
         files[dir].name # None => SanitizeDomain(files[dir].name) = dir
  PROVE  SanitizeDomain(GetOriginalDomain(dir)) = dir
<1> DEFINE name == [i \in DOMAIN dir |->
              IF dir[i] = "_" /\ (\A j \in DOMAIN dir : dir[j] = "_" => j <= i)
              THEN ":" ELSE dir[i]]
<1>1. dir \in Seq(Kept)
  BY DirsType
<1>2. CASE files[dir].name = None
  <2>1. GetOriginalDomain(dir) = name
    BY <1>2 DEF GetOriginalDomain
  <2>2. Kept \subseteq Characters
    BY DEF Characters
  <2>3. name \in Seq(Characters) /\ Len(name) = Len(dir)
    <3>1. DOMAIN dir = 1 .. Len(dir) /\ Len(dir) \in Nat
      BY <1>1
    <3>2. \A i \in 1 .. Len(dir) : dir[i] \in Characters
      <4>1. \A i \in 1 .. Len(dir) : dir[i] \in Kept
        BY <1>1
      <4> QED
        BY <2>2, <4>1, Zenon
    <3>3. name \in [1 .. Len(dir) -> Characters]
      <4>1. ":" \in Characters
        BY DEF Characters
      <4>2. \A i \in 1 .. Len(dir) : name[i] \in Characters
        BY <3>1, <3>2, <4>1
      <4> QED
        BY <3>1, <4>2
    <3> HIDE DEF name
    <3> QED
      BY <3>1, <3>3
  <2>4. SameButColons(name, dir)
    <3>1. DOMAIN dir = 1 .. Len(dir)
      BY <1>1
    <3>2. \A i \in 1 .. Len(dir) : name[i] = dir[i] \/ (dir[i] = "_" /\ name[i] = ":")
      BY <3>1
    <3> HIDE DEF name
    <3> QED
      BY <2>3, <3>2 DEF SameButColons
  <2> HIDE DEF name
  <2> QED
    BY <1>1, <2>1, <2>3, <2>4, SanitizeInverse
<1>3. CASE files[dir].name # None
  BY <1>3 DEF GetOriginalDomain
<1> QED
  BY <1>2, <1>3

----
(* Where a client can be, and what it then holds.                          *)

FileNames == DOMAIN NoFiles

LookStages  == {"statPaid", "readPaid", "statPending", "readPending"}
WriteStages == {"create", "fill", "unlinkPending", "writeName"}
ListStages  == {"nextDir", "readName"}

Op(c)      == Call(c).op
Working(c) == stage[c] \notin {"idle", "end"}

ClientsTyped ==
  /\ program \in Programs
  /\ at \in [Clients -> Nat \ {0}]
  /\ todo \in [Clients -> SUBSET (Dirs \cup FileNames)]
  /\ listed \in [Clients -> SUBSET [name: Seq(Characters), dir: Dirs, token: Entry]]
  /\ since \in [Clients -> [Dirs -> SUBSET (Tokens \cup {None})]]

\* The stage of a client tells the kind of call it is in and the directory.
Placed(c) ==
  /\ stage[c] # "idle" => at[c] \in 1 .. Len(program[c])
  /\ stage[c] \in LookStages => Op(c) \in {"get", "store", "list", "clear"}
  /\ stage[c] \in WriteStages => Op(c) = "store"
  /\ stage[c] \in ListStages => Op(c) \in {"list", "clear"}
  /\ stage[c] = "unlink" => Op(c) \in {"remove", "clear"} /\ todo[c] \subseteq FileNames
  /\ stage[c] = "removeNext" => Op(c) = "clear"
  /\ stage[c] \in LookStages \cup WriteStages \cup {"unlink", "readName"} => here[c] \in Dirs
  /\ stage[c] \in LookStages \cup ListStages /\ Op(c) \in {"list", "clear"}
       => todo[c] \subseteq Dirs
  /\ stage[c] \in LookStages \cup WriteStages /\ Op(c) \in {"get", "store"}
       => here[c] = SanitizeDomain(Call(c).name)

TypeInv == TypeOK /\ ClientsTyped /\ \A c \in Clients : Placed(c)

\* The name file of a directory names a domain that is kept there.
NamesKept == \A dir \in Dirs :
  files[dir].name # None => SanitizeDomain(files[dir].name) = dir

NameInv == TypeInv /\ NamesKept /\ ListedNamesLeadBack

\* A writer has been allowed to replace the token it found, and removes the
\* pending token only behind a paid one.
WriteAllowed(c) ==
  /\ stage[c] \in {"create", "fill", "unlinkPending"} => StoreAllowed(current[c], Call(c).new)
  /\ stage[c] = "unlinkPending" => Call(c).new.paid

\* A file is in a directory that exists, also while it is open.
FilesPlaced ==
  /\ \A dir \in Dirs : files[dir] # NoFiles => dir \in dirs
  /\ \A c \in fd : stage[c] = "fill" /\ files[here[c]][Target(c)] # None

\* The history of a call holds the present, and a client that looks for a
\* pending token has seen the directory without a paid one.
Witnessed(c) ==
  /\ Working(c) => \A dir \in Dirs : Credential(files[dir]) \in since[c][dir]
  /\ stage[c] \in {"statPending", "readPending"} => None \in since[c][here[c]]

\* A token that has been there all the time is in a directory still to be
\* visited, in the one that is being read, or found.
Seen(c, dir, t) ==
  \/ \E row \in listed[c] : row.dir = dir /\ row.token = Paid(t)
  \/ dir \in todo[c]
  \/ /\ dir = here[c]
     /\ \/ stage[c] \in {"statPaid", "readPaid"}
        \/ stage[c] = "readName" /\ current[c] = Paid(t)

ListsAll(c) ==
  stage[c] \in LookStages \cup ListStages /\ Op(c) \in {"list", "clear"} =>
    \A dir \in Dirs, t \in Tokens : since[c][dir] = {t} => Seen(c, dir, t)

\* Such a token is in a directory still to be removed, or in the one that is
\* being removed.
ClearsAll(c) ==
  stage[c] \in {"unlink", "removeNext"} /\ Op(c) = "clear" /\ result[c] # "error" =>
    \A dir \in Dirs, t \in Tokens : since[c][dir] = {t} =>
      \/ \E row \in listed[c] : row.dir = dir
      \/ stage[c] = "unlink" /\ dir = here[c] /\ "paid" \in todo[c]

StoreInv == NameInv /\ FilesPlaced /\ \A c \in Clients : WriteAllowed(c)

HistoryInv == StoreInv /\ \A c \in Clients : Witnessed(c)

LookupInv == HistoryInv /\ LookupsAtomic

ListingInv ==
  HistoryInv /\ ListingComplete /\ ClearedAll
  /\ \A c \in Clients : ListsAll(c) /\ ClearsAll(c)

----
(* Facts about the calls and about single steps.                           *)

LEMMA CallTypes ==
  ASSUME NEW call \in Calls
  PROVE  /\ call.op \in {"get", "store", "remove", "list", "clear"}
         /\ call.op \in {"get", "store", "remove"} => call.name \in Domains
         /\ call.op = "store" => call.new \in Entry \ {NoToken}
BY DEF Calls, Get, Put, Remove, AllTokens, ClearTokens

LEMMA TheCall ==
  ASSUME TypeInv, NEW c \in Clients, at[c] \in 1 .. Len(program[c])
  PROVE  Call(c) \in Calls
<1>1. program[c] \in Seq(Calls)
  BY TokenFilesAssumption DEF TypeInv, ClientsTyped
<1> QED
  BY <1>1 DEF Call

LEMMA SanitizedDir ==
  ASSUME NEW name \in Domains
  PROVE  SanitizeDomain(name) \in Dirs
BY DEF Dirs

\* The three ways a call begins.
BeginsLookup(c) ==
  /\ Op(c) \in {"get", "store"}
  /\ here' = [here EXCEPT ![c] = SanitizeDomain(Call(c).name)]
  /\ dirs' = dirs \cup {SanitizeDomain(Call(c).name)}
  /\ Goto(c, "statPaid")
  /\ UNCHANGED <<todo, listed>>

BeginsRemoval(c) ==
  /\ Op(c) = "remove"
  /\ here' = [here EXCEPT ![c] = SanitizeDomain(Call(c).name)]
  /\ todo' = [todo EXCEPT ![c] =
       {f \in FileNames : files[SanitizeDomain(Call(c).name)][f] # None}]
  /\ Goto(c, "unlink")
  /\ UNCHANGED <<dirs, listed>>

BeginsListing(c) ==
  /\ Op(c) \in {"list", "clear"}
  /\ todo' = [todo EXCEPT ![c] = dirs]
  /\ listed' = [listed EXCEPT ![c] = {}]
  /\ Goto(c, "nextDir")
  /\ UNCHANGED <<dirs, here>>

LEMMA BeginCases ==
  ASSUME TypeInv, NEW c \in Clients, Begin(c)
  PROVE  /\ stage[c] = "idle"
         /\ at[c] \in 1 .. Len(program[c])
         /\ BeginsLookup(c) \/ BeginsRemoval(c) \/ BeginsListing(c)
         /\ UNCHANGED <<files, at, current, fd, result>>
<1>1. at[c] \in 1 .. Len(program[c])
  <2>1. program[c] \in Seq(Calls) /\ at[c] \in Nat \ {0}
    BY TokenFilesAssumption DEF TypeInv, ClientsTyped
  <2> QED
    BY <2>1 DEF Begin
<1>2. Op(c) \in {"get", "store", "remove", "list", "clear"}
  BY <1>1, TheCall, CallTypes DEF Op
<1>3. CASE Op(c) \in {"get", "store"}
  BY <1>1, <1>3 DEF Begin, Op, BeginsLookup
<1>4. CASE Op(c) = "remove"
  BY <1>1, <1>4 DEF Begin, Op, BeginsRemoval, FileNames
<1>5. CASE Op(c) \in {"list", "clear"}
  BY <1>1, <1>5 DEF Begin, Op, BeginsListing
<1> QED
  BY <1>2, <1>3, <1>4, <1>5

\* A step of one client leaves the others where they are; at most it unlinks
\* the file they write.
LEMMA OthersKept ==
  ASSUME TypeInv, NEW c \in Clients, ClientStep(c), NEW k \in Clients, k # c
  PROVE  /\ at'[k] = at[k] /\ stage'[k] = stage[k] /\ here'[k] = here[k]
         /\ todo'[k] = todo[k] /\ current'[k] = current[k]
         /\ result'[k] = result[k] /\ listed'[k] = listed[k]
         /\ k \in fd' => k \in fd
<1> USE DEF TypeInv, TypeOK, ClientsTyped, diskVars, Goto, Return
<1>1. CASE Begin(c)
  <2> HIDE DEF TypeInv
  <2>1. BeginsLookup(c) \/ BeginsRemoval(c) \/ BeginsListing(c)
    BY <1>1, BeginCases
  <2>2. UNCHANGED <<files, at, current, fd, result>>
    BY <1>1, BeginCases
  <2> QED
    BY <2>1, <2>2 DEF TypeInv, BeginsLookup, BeginsRemoval, BeginsListing
<1>2. CASE StatPaid(c)
  BY <1>2 DEF StatPaid
<1>3. CASE StatPending(c)
  BY <1>3 DEF StatPending, Found
<1>4. CASE ReadToken(c)
  <2>1. ASSUME NEW token, Found(c, token)
        PROVE  /\ at'[k] = at[k] /\ stage'[k] = stage[k]
               /\ current'[k] = current[k] /\ result'[k] = result[k]
    BY <2>1 DEF Found
  <2>2. ASSUME Unreadable(c)
        PROVE  /\ at'[k] = at[k] /\ stage'[k] = stage[k]
               /\ current'[k] = current[k] /\ result'[k] = result[k]
    BY <2>2 DEF Unreadable
  <2> QED
    BY <1>4, <2>1, <2>2 DEF ReadToken
<1>5. CASE CreateFile(c)
  BY <1>5 DEF CreateFile
<1>6. CASE FillFile(c)
  BY <1>6 DEF FillFile
<1>7. CASE UnlinkPending(c)
  BY <1>7 DEF UnlinkPending, Unlink
<1>8. CASE WriteName(c)
  BY <1>8 DEF WriteName
<1>9. CASE UnlinkFile(c)
  BY <1>9 DEF UnlinkFile, Unlink
<1>10. CASE RemoveDir(c)
  BY <1>10 DEF RemoveDir, Removed
<1>11. CASE NextDir(c)
  BY <1>11 DEF NextDir
<1>12. CASE ReadName(c)
  BY <1>12 DEF ReadName
<1>13. CASE RemoveNext(c)
  BY <1>13 DEF RemoveNext
<1> QED
  BY <1>1, <1>2, <1>3, <1>4, <1>5, <1>6, <1>7, <1>8, <1>9, <1>10, <1>11, <1>12, <1>13
     DEF ClientStep

\* Returning ends the call, or the program.
LEMMA ReturnTypes ==
  ASSUME TypeInv, NEW c \in Clients, at[c] \in 1 .. Len(program[c]),
         NEW value \in Tokens \cup Returns \cup {None}, Return(c, value)
  PROVE  /\ result' \in [Clients -> Tokens \cup Returns \cup {None}]
         /\ stage' \in [Clients -> Stages]
         /\ at' \in [Clients -> Nat \ {0}]
         /\ result'[c] = value
         /\ \/ stage'[c] = "idle" /\ at'[c] = at[c] + 1
            \/ stage'[c] = "end" /\ at'[c] = at[c] /\ (Op(c) = "store" \/ value \in Tokens)
<1>1. /\ result \in [Clients -> Tokens \cup Returns \cup {None}]
      /\ stage \in [Clients -> Stages]
      /\ at \in [Clients -> Nat \ {0}]
  BY DEF TypeInv, TypeOK, ClientsTyped
<1>2. result' = [result EXCEPT ![c] = value]
  BY DEF Return
<1>3. \/ stage' = [stage EXCEPT ![c] = "idle"] /\ at' = [at EXCEPT ![c] = @ + 1]
      \/ /\ stage' = [stage EXCEPT ![c] = "end"] /\ UNCHANGED at
         /\ Op(c) = "store" \/ value \in Tokens
  BY DEF Return, Goto, Op
<1>4. {"idle", "end"} \subseteq Stages
  BY DEF Stages
<1>5. result' \in [Clients -> Tokens \cup Returns \cup {None}] /\ result'[c] = value
  BY <1>1, <1>2
<1>6. stage' \in [Clients -> Stages] /\ stage'[c] \in {"idle", "end"}
  BY <1>1, <1>3, <1>4
<1>7. at' \in [Clients -> Nat \ {0}]
  BY <1>1, <1>3
<1>8. \/ stage'[c] = "idle" /\ at'[c] = at[c] + 1
      \/ stage'[c] = "end" /\ at'[c] = at[c] /\ (Op(c) = "store" \/ value \in Tokens)
  BY <1>1, <1>3
<1> QED
  BY <1>5, <1>6, <1>7, <1>8

\* What is common to the steps that follow a look at the store.
LEMMA FoundTypes ==
  ASSUME TypeInv, NEW c \in Clients, at[c] \in 1 .. Len(program[c]),
         stage[c] \in LookStages, NEW token \in Entry, Found(c, token)
  PROVE  /\ result' \in [Clients -> Tokens \cup Returns \cup {None}]
         /\ stage' \in [Clients -> Stages]
         /\ at' \in [Clients -> Nat \ {0}]
         /\ current' = [current EXCEPT ![c] = token]
         /\ \/ /\ Op(c) = "get"
               /\ result'[c] = IF token.paid THEN token.tok ELSE None
               /\ \/ stage'[c] = "idle" /\ at'[c] = at[c] + 1
                  \/ stage'[c] = "end" /\ at'[c] = at[c]
            \/ /\ Op(c) = "store" /\ ~StoreAllowed(token, Call(c).new)
               /\ \/ stage'[c] = "idle" /\ at'[c] = at[c] + 1
                  \/ stage'[c] = "end" /\ at'[c] = at[c]
            \/ /\ Op(c) = "store" /\ StoreAllowed(token, Call(c).new)
               /\ stage'[c] = "create" /\ UNCHANGED <<at, result>>
            \/ /\ Op(c) \in {"list", "clear"}
               /\ stage'[c] = IF token = NoToken THEN "nextDir" ELSE "readName"
               /\ UNCHANGED <<at, result>>
<1>1. Op(c) \in {"get", "store", "list", "clear"}
  BY DEF TypeInv, Placed
<1>2. stage \in [Clients -> Stages] /\ {"create", "nextDir", "readName"} \subseteq Stages
  BY DEF TypeInv, TypeOK, Stages
<1>3. /\ result \in [Clients -> Tokens \cup Returns \cup {None}]
      /\ at \in [Clients -> Nat \ {0}]
  BY DEF TypeInv, TypeOK, ClientsTyped
<1>4. CASE Op(c) = "get"
  <2>1. Return(c, IF token.paid THEN token.tok ELSE None) /\ current' = [current EXCEPT ![c] = token]
    BY <1>4 DEF Found, Op
  <2>2. (IF token.paid THEN token.tok ELSE None) \in Tokens \cup Returns \cup {None}
    BY DEF Entry, NoToken
  <2> QED
    BY <1>4, <2>1, <2>2, ReturnTypes
<1>5. CASE Op(c) = "store" /\ ~StoreAllowed(token, Call(c).new)
  <2>1. Return(c, "error") /\ current' = [current EXCEPT ![c] = token]
    BY <1>5 DEF Found, Op
  <2>2. "error" \in Tokens \cup Returns \cup {None}
    BY DEF Returns
  <2> QED
    BY <1>5, <2>1, <2>2, ReturnTypes
<1>6. CASE Op(c) = "store" /\ StoreAllowed(token, Call(c).new)
  BY <1>2, <1>3, <1>6 DEF Found, Goto, Op
<1>7. CASE Op(c) \in {"list", "clear"}
  BY <1>2, <1>3, <1>7 DEF Found, Goto, Op
<1> QED
  BY <1>1, <1>4, <1>5, <1>6, <1>7

LEMMA UnreadableTypes ==
  ASSUME TypeInv, NEW c \in Clients, at[c] \in 1 .. Len(program[c]),
         stage[c] \in LookStages, Unreadable(c)
  PROVE  /\ result' \in [Clients -> Tokens \cup Returns \cup {None}]
         /\ stage' \in [Clients -> Stages]
         /\ at' \in [Clients -> Nat \ {0}]
         /\ UNCHANGED current
         /\ \/ Op(c) = "clear" /\ stage'[c] = "nextDir" /\ UNCHANGED <<at, result>>
            \/ /\ Op(c) # "clear"
               /\ result'[c] = IF Op(c) = "get" THEN None ELSE "error"
               /\ \/ stage'[c] = "idle" /\ at'[c] = at[c] + 1
                  \/ stage'[c] = "end" /\ at'[c] = at[c]
<1>1. CASE Op(c) = "clear"
  BY <1>1 DEF Unreadable, Goto, Op, TypeInv, TypeOK, ClientsTyped, Stages
<1>2. CASE Op(c) # "clear"
  <2>1. Return(c, IF Op(c) = "get" THEN None ELSE "error") /\ UNCHANGED current
    BY <1>2 DEF Unreadable, Op
  <2>2. (IF Op(c) = "get" THEN None ELSE "error") \in Tokens \cup Returns \cup {None}
    BY DEF Returns
  <2> QED
    BY <1>2, <2>1, <2>2, ReturnTypes
<1> QED
  BY <1>1, <1>2

----
(* Types and places.                                                       *)

FileTypes == [Dirs -> [paid: Tokens \cup Unreadables \cup {None},
                       pending: Tokens \cup Unreadables \cup {None},
                       name: Domains \cup {None}]]

StateTypes ==
  /\ dirs \subseteq Dirs
  /\ files \in FileTypes
  /\ fd \subseteq Clients
  /\ at \in [Clients -> Nat \ {0}]
  /\ stage \in [Clients -> Stages]
  /\ here \in [Clients -> Dirs \cup {None}]
  /\ todo \in [Clients -> SUBSET (Dirs \cup FileNames)]
  /\ current \in [Clients -> Entry]
  /\ result \in [Clients -> Tokens \cup Returns \cup {None}]
  /\ listed \in [Clients -> SUBSET [name: Seq(Characters), dir: Dirs, token: Entry]]

LEMMA HasStateTypes == ASSUME TypeInv PROVE StateTypes
BY DEF TypeInv, TypeOK, ClientsTyped, StateTypes, FileTypes

\* What one write or removal does to the files.
Written(dir, f, value) == [files EXCEPT ![dir][f] = value]

LEMMA WrittenTypes ==
  ASSUME files \in FileTypes, NEW dir \in Dirs, NEW f \in {"paid", "pending"},
         NEW value \in Tokens \cup Unreadables \cup {None}
  PROVE  /\ Written(dir, f, value) \in FileTypes
         /\ Written(dir, f, value)[dir][f] = value
         /\ \A g \in FileNames : g # f => Written(dir, f, value)[dir][g] = files[dir][g]
         /\ \A d \in Dirs : d # dir => Written(dir, f, value)[d] = files[d]
<1>1. CASE f = "paid"
  BY <1>1 DEF Written, FileTypes, FileNames, NoFiles
<1>2. CASE f = "pending"
  BY <1>2 DEF Written, FileTypes, FileNames, NoFiles
<1> QED
  BY <1>1, <1>2

LEMMA NamedTypes ==
  ASSUME files \in FileTypes, NEW dir \in Dirs, NEW value \in Domains \cup {None}
  PROVE  /\ Written(dir, "name", value) \in FileTypes
         /\ Written(dir, "name", value)[dir].name = value
         /\ Written(dir, "name", value)[dir].paid = files[dir].paid
         /\ Written(dir, "name", value)[dir].pending = files[dir].pending
         /\ \A d \in Dirs : d # dir => Written(dir, "name", value)[d] = files[d]
BY DEF Written, FileTypes

LEMMA OriginalTypes ==
  ASSUME TypeInv, NEW dir \in Dirs
  PROVE  GetOriginalDomain(dir) \in Seq(Characters)
<1>1. dir \in Seq(Kept) /\ Kept \cup {":"} \subseteq Characters
  BY DirsType DEF Characters
<1>2. CASE files[dir].name = None
  <2> DEFINE name == [i \in DOMAIN dir |->
                IF dir[i] = "_" /\ (\A j \in DOMAIN dir : dir[j] = "_" => j <= i)
                THEN ":" ELSE dir[i]]
  <2>1. DOMAIN dir = 1 .. Len(dir) /\ Len(dir) \in Nat
    BY <1>1
  <2>2. \A i \in 1 .. Len(dir) : dir[i] \in Characters /\ ":" \in Characters
    BY <1>1
  <2>3. \A i \in 1 .. Len(dir) : name[i] \in Characters
    BY <2>1, <2>2
  <2>4. name \in [1 .. Len(dir) -> Characters]
    BY <2>1, <2>3
  <2>5. GetOriginalDomain(dir) = name
    BY <1>2 DEF GetOriginalDomain
  <2> HIDE DEF name
  <2> QED
    BY <2>1, <2>4, <2>5
<1>3. CASE files[dir].name # None
  <2>1. files[dir].name \in Domains
    BY <1>3 DEF TypeInv, TypeOK
  <2> QED
    BY <1>3, <2>1, TokenFilesAssumption DEF GetOriginalDomain
<1> QED
  BY <1>2, <1>3

LEMMA BeginTypes ==
  ASSUME TypeInv, NEW c \in Clients, Begin(c), UNCHANGED program
  PROVE  StateTypes' /\ Placed(c)' /\ at'[c] <= Len(program[c]) + 1
<1>1. StateTypes
  BY HasStateTypes
<1>2. /\ at[c] \in 1 .. Len(program[c])
      /\ BeginsLookup(c) \/ BeginsRemoval(c) \/ BeginsListing(c)
      /\ UNCHANGED <<files, at, current, fd, result>>
  BY BeginCases
<1>3. Call(c) \in Calls /\ Call(c)' = Call(c)
  BY <1>2, TheCall DEF Call
<1>4. CASE BeginsLookup(c)
  <2>1. SanitizeDomain(Call(c).name) \in Dirs
    BY <1>3, <1>4, CallTypes, SanitizedDir DEF BeginsLookup, Op
  <2>2. StateTypes' /\ stage'[c] = "statPaid" /\ here'[c] = SanitizeDomain(Call(c).name)
    BY <1>1, <1>2, <1>4, <2>1 DEF StateTypes, BeginsLookup, Goto, Stages
  <2> QED
    BY <1>2, <1>3, <1>4, <2>1, <2>2
       DEF Placed, BeginsLookup, Op, LookStages, WriteStages, ListStages
<1>5. CASE BeginsRemoval(c)
  <2>1. SanitizeDomain(Call(c).name) \in Dirs
    BY <1>3, <1>5, CallTypes, SanitizedDir DEF BeginsRemoval, Op
  <2>2. StateTypes' /\ stage'[c] = "unlink" /\ here'[c] \in Dirs /\ todo'[c] \subseteq FileNames
    BY <1>1, <1>2, <1>5, <2>1 DEF StateTypes, BeginsRemoval, Goto, Stages
  <2> QED
    BY <1>2, <1>3, <1>5, <2>1, <2>2
       DEF Placed, BeginsRemoval, Op, LookStages, WriteStages, ListStages
<1>6. CASE BeginsListing(c)
  <2>1. StateTypes' /\ stage'[c] = "nextDir" /\ todo'[c] \subseteq Dirs
    BY <1>1, <1>2, <1>6 DEF StateTypes, BeginsListing, Goto, Stages
  <2> QED
    BY <1>2, <1>3, <1>6, <2>1
       DEF Placed, BeginsListing, Op, LookStages, WriteStages, ListStages
<1> QED
  BY <1>2, <1>4, <1>5, <1>6

LEMMA LookTypes ==
  ASSUME TypeInv, NEW c \in Clients, UNCHANGED program,
         StatPaid(c) \/ StatPending(c) \/ ReadToken(c)
  PROVE  StateTypes' /\ Placed(c)' /\ at'[c] <= Len(program[c]) + 1
<1>1. StateTypes /\ Placed(c)
  BY HasStateTypes DEF TypeInv
<1>2. stage[c] \in LookStages /\ at[c] \in 1 .. Len(program[c]) /\ at[c] \in Nat
  BY <1>1 DEF StatPaid, StatPending, ReadToken, LookStages, Placed, StateTypes
<1>3. /\ Op(c) \in {"get", "store", "list", "clear"}
      /\ here[c] \in Dirs
      /\ Op(c) \in {"list", "clear"} => todo[c] \subseteq Dirs
      /\ Op(c) \in {"get", "store"} => here[c] = SanitizeDomain(Call(c).name)
  BY <1>1, <1>2 DEF Placed
<1>4. UNCHANGED at => Call(c)' = Call(c)
  BY DEF Call
<1>5. UNCHANGED <<dirs, files, here, todo, fd, listed>>
  BY DEF StatPaid, StatPending, ReadToken, diskVars
<1>6. CASE StatPaid(c)
  <2>1. UNCHANGED <<at, current, result>> /\ stage'[c] \in {"readPaid", "statPending"}
    BY <1>1, <1>6 DEF StatPaid, Goto, StateTypes
  <2>2. StateTypes'
    <3>1. \E s \in {"readPaid", "statPending"} : stage' = [stage EXCEPT ![c] = s]
      BY <1>6 DEF StatPaid, Goto
    <3>2. stage' \in [Clients -> Stages]
      BY <1>1, <3>1 DEF StateTypes, Stages
    <3> QED
      BY <1>1, <1>5, <2>1, <3>2 DEF StateTypes
  <2> QED
    BY <1>2, <1>3, <1>4, <1>5, <2>1, <2>2 DEF Placed, Op, LookStages, WriteStages, ListStages
<1>7. ASSUME NEW token \in Entry, Found(c, token)
      PROVE  StateTypes' /\ Placed(c)' /\ at'[c] <= Len(program[c]) + 1
  <2>1. StateTypes'
    <3>1. /\ result' \in [Clients -> Tokens \cup Returns \cup {None}]
          /\ stage' \in [Clients -> Stages]
          /\ at' \in [Clients -> Nat \ {0}]
          /\ current' = [current EXCEPT ![c] = token]
      BY <1>2, <1>7, FoundTypes
    <3> QED
      BY <1>1, <1>5, <3>1 DEF StateTypes
  <2>2. \/ stage'[c] = "idle" /\ at'[c] = at[c] + 1
        \/ stage'[c] = "end" /\ at'[c] = at[c]
        \/ Op(c) = "store" /\ stage'[c] = "create" /\ UNCHANGED at
        \/ Op(c) \in {"list", "clear"} /\ stage'[c] \in {"nextDir", "readName"} /\ UNCHANGED at
    BY <1>2, <1>7, FoundTypes
  <2> QED
    BY <1>2, <1>3, <1>4, <1>5, <2>1, <2>2 DEF Placed, Op, LookStages, WriteStages, ListStages
<1>8. ASSUME Unreadable(c)
      PROVE  StateTypes' /\ Placed(c)' /\ at'[c] <= Len(program[c]) + 1
  <2>1. StateTypes'
    BY <1>1, <1>2, <1>5, <1>8, UnreadableTypes DEF StateTypes
  <2>2. \/ stage'[c] = "idle" /\ at'[c] = at[c] + 1
        \/ stage'[c] = "end" /\ at'[c] = at[c]
        \/ Op(c) = "clear" /\ stage'[c] = "nextDir" /\ UNCHANGED at
    BY <1>2, <1>8, UnreadableTypes
  <2> QED
    BY <1>2, <1>3, <1>4, <1>5, <2>1, <2>2 DEF Placed, Op, LookStages, WriteStages, ListStages
<1>9. CASE StatPending(c)
  <2>1. CASE Found(c, NoToken)
    BY <1>7, <2>1 DEF Entry
  <2>2. CASE Goto(c, "readPending") /\ UNCHANGED <<at, current, result>>
    <3>1. StateTypes' /\ stage'[c] = "readPending"
      BY <1>1, <1>5, <2>2 DEF StateTypes, Goto, Stages
    <3> QED
      BY <1>2, <1>3, <1>4, <1>5, <2>2, <3>1 DEF Placed, Op, LookStages, WriteStages, ListStages
  <2> QED
    BY <1>9, <2>1, <2>2 DEF StatPending
<1>10. CASE ReadToken(c)
  <2>1. \A t \in Tokens : Paid(t) \in Entry /\ Pending(t) \in Entry
    BY DEF Paid, Pending, Entry
  <2> QED
    BY <1>7, <1>8, <1>10, <2>1 DEF ReadToken
<1> QED
  BY <1>6, <1>9, <1>10

\* Where a writer is and what it writes.
LEMMA WriterPlace ==
  ASSUME TypeInv, NEW c \in Clients, stage[c] \in WriteStages
  PROVE  /\ at[c] \in 1 .. Len(program[c]) /\ at[c] \in Nat
         /\ Op(c) = "store" /\ Call(c).op = "store"
         /\ here[c] \in Dirs /\ here[c] = SanitizeDomain(Call(c).name)
         /\ Call(c).name \in Domains
         /\ Call(c).new \in Entry /\ Call(c).new # NoToken
         /\ Call(c).new.tok \in Tokens /\ Call(c).new.paid \in BOOLEAN
         /\ Target(c) \in {"paid", "pending"}
<1>1. /\ at[c] \in 1 .. Len(program[c]) /\ at[c] \in Nat /\ Op(c) = "store"
      /\ here[c] \in Dirs /\ here[c] = SanitizeDomain(Call(c).name)
  BY DEF TypeInv, ClientsTyped, Placed, WriteStages
<1>2. Call(c).name \in Domains /\ Call(c).new \in Entry \ {NoToken}
  BY <1>1, TheCall, CallTypes DEF Op
<1> QED
  BY <1>1, <1>2 DEF Op, Entry, Target

LEMMA WriteTypes ==
  ASSUME TypeInv, NEW c \in Clients, UNCHANGED program,
         CreateFile(c) \/ FillFile(c) \/ UnlinkPending(c) \/ WriteName(c)
  PROVE  StateTypes' /\ Placed(c)' /\ at'[c] <= Len(program[c]) + 1
<1>1. StateTypes
  BY HasStateTypes
<1>2. stage[c] \in WriteStages
  BY DEF CreateFile, FillFile, UnlinkPending, WriteName, WriteStages
<1>3. /\ at[c] \in 1 .. Len(program[c]) /\ at[c] \in Nat /\ Op(c) = "store"
      /\ here[c] \in Dirs /\ here[c] = SanitizeDomain(Call(c).name)
      /\ Call(c).name \in Domains /\ Call(c).new.tok \in Tokens
      /\ Target(c) \in {"paid", "pending"}
  BY <1>2, WriterPlace
<1>4. UNCHANGED at => Call(c)' = Call(c)
  BY DEF Call
<1>5. UNCHANGED <<here, todo, current, listed>>
  BY DEF CreateFile, FillFile, UnlinkPending, WriteName
<1>6. dirs' \subseteq Dirs
  BY <1>1, <1>3 DEF CreateFile, FillFile, UnlinkPending, WriteName, diskVars, StateTypes
<1>7. files' \in FileTypes /\ fd' \subseteq Clients
  <2>1. {"empty", "garbled"} \subseteq Unreadables
    BY DEF Unreadables
  <2>2. files \in FileTypes /\ fd \subseteq Clients
    BY <1>1 DEF StateTypes
  <2>3. CASE CreateFile(c)
    <3>1. files' = Written(here[c], Target(c), "empty") \/ UNCHANGED files
      BY <2>3 DEF CreateFile, Written
    <3> QED
      BY <1>3, <2>1, <2>2, <2>3, <3>1, WrittenTypes DEF CreateFile
  <2>4. CASE FillFile(c)
    <3>1. \/ \E content \in {Call(c).new.tok, "garbled"} :
               files' = Written(here[c], Target(c), content)
          \/ UNCHANGED files
      BY <2>4 DEF FillFile, Written
    <3> QED
      BY <1>3, <2>1, <2>2, <2>4, <3>1, WrittenTypes DEF FillFile
  <2>5. CASE UnlinkPending(c)
    <3>1. files' = Written(here[c], "pending", None) \/ UNCHANGED files
      BY <2>5 DEF UnlinkPending, Unlink, Written
    <3> QED
      BY <1>3, <2>2, <2>5, <3>1, WrittenTypes DEF UnlinkPending, Unlink
  <2>6. CASE WriteName(c)
    <3>1. files' = Written(here[c], "name", Call(c).name) \/ UNCHANGED files
      BY <2>6 DEF WriteName, Written, diskVars
    <3> QED
      BY <1>3, <2>2, <2>6, <3>1, NamedTypes DEF WriteName
  <2> QED
    BY <2>3, <2>4, <2>5, <2>6
<1>8. /\ result' \in [Clients -> Tokens \cup Returns \cup {None}]
      /\ stage' \in [Clients -> Stages]
      /\ at' \in [Clients -> Nat \ {0}]
      /\ \/ stage'[c] = "idle" /\ at'[c] = at[c] + 1
         \/ stage'[c] = "end" /\ at'[c] = at[c]
         \/ stage'[c] \in WriteStages /\ UNCHANGED at
  <2>1. {"error", "stored"} \subseteq Tokens \cup Returns \cup {None}
    BY DEF Returns
  <2>2. ASSUME NEW s \in WriteStages, Goto(c, s), UNCHANGED <<at, result>>
        PROVE  /\ result' \in [Clients -> Tokens \cup Returns \cup {None}]
               /\ stage' \in [Clients -> Stages]
               /\ at' \in [Clients -> Nat \ {0}]
               /\ stage'[c] \in WriteStages
    BY <1>1, <2>2 DEF Goto, StateTypes, WriteStages, Stages
  <2>3. \/ Return(c, "error") \/ Return(c, "stored")
        \/ \E s \in WriteStages : Goto(c, s) /\ UNCHANGED <<at, result>>
    BY DEF CreateFile, FillFile, UnlinkPending, WriteName, WriteStages
  <2>4. CASE Return(c, "error") \/ Return(c, "stored")
    BY <1>3, <2>1, <2>4, ReturnTypes
  <2>5. CASE \E s \in WriteStages : Goto(c, s) /\ UNCHANGED <<at, result>>
    BY <2>2, <2>5
  <2> QED
    BY <2>3, <2>4, <2>5
<1>9. StateTypes'
  BY <1>1, <1>5, <1>6, <1>7, <1>8 DEF StateTypes
<1>10. CASE stage'[c] \in {"idle", "end"}
  BY <1>3, <1>8, <1>9, <1>10 DEF Placed, LookStages, WriteStages, ListStages
<1>11. CASE stage'[c] \in WriteStages /\ UNCHANGED at
  BY <1>3, <1>4, <1>5, <1>9, <1>11 DEF Placed, Op, LookStages, WriteStages, ListStages
<1> QED
  BY <1>8, <1>10, <1>11

LEMMA RemovalTypes ==
  ASSUME TypeInv, NEW c \in Clients, UNCHANGED program, UnlinkFile(c) \/ RemoveDir(c)
  PROVE  StateTypes' /\ Placed(c)' /\ at'[c] <= Len(program[c]) + 1
<1>1. StateTypes
  BY HasStateTypes
<1>2. /\ stage[c] = "unlink" /\ at[c] \in 1 .. Len(program[c]) /\ at[c] \in Nat
      /\ Op(c) \in {"remove", "clear"} /\ todo[c] \subseteq FileNames /\ here[c] \in Dirs
  BY DEF TypeInv, ClientsTyped, Placed, UnlinkFile, RemoveDir
<1>3. UNCHANGED at => Call(c)' = Call(c)
  BY DEF Call
<1>4. CASE UnlinkFile(c)
  <2>1. PICK f \in todo[c] : Unlink(here[c], f) /\ todo' = [todo EXCEPT ![c] = @ \ {f}]
    BY <1>4 DEF UnlinkFile
  <2>2. files' = Written(here[c], f, None) /\ fd' \subseteq fd
    BY <2>1 DEF Unlink, Written
  <2>3. f \in {"paid", "pending", "name"}
    BY <1>2, <2>1 DEF FileNames, NoFiles
  <2>4. files' \in FileTypes
    BY <1>1, <1>2, <2>2, <2>3, WrittenTypes, NamedTypes DEF StateTypes
  <2>5. todo' \in [Clients -> SUBSET (Dirs \cup FileNames)] /\ todo'[c] \subseteq FileNames
    BY <1>1, <1>2, <2>1 DEF StateTypes
  <2>6. UNCHANGED <<dirs, at, stage, here, current, result, listed>>
    BY <1>4 DEF UnlinkFile
  <2>7. StateTypes'
    BY <1>1, <2>2, <2>4, <2>5, <2>6 DEF StateTypes
  <2> QED
    BY <1>2, <1>3, <2>5, <2>6, <2>7 DEF Placed, Op, LookStages, WriteStages, ListStages
<1>5. CASE RemoveDir(c)
  <2>1. UNCHANGED <<files, here, current, fd, listed>>
    BY <1>5 DEF RemoveDir
  <2>2. dirs' \subseteq Dirs /\ todo' \in [Clients -> SUBSET (Dirs \cup FileNames)]
    BY <1>1, <1>5 DEF RemoveDir, StateTypes
  <2>3. PICK outcome \in {"removed", "error"} : Removed(c, outcome)
    BY <1>5 DEF RemoveDir
  <2>4. CASE Op(c) = "clear"
    <3>1. /\ result' = [result EXCEPT ![c] = IF outcome = "error" THEN "error" ELSE @]
          /\ stage' = [stage EXCEPT ![c] = "removeNext"] /\ UNCHANGED at
      BY <2>3, <2>4 DEF Removed, Goto, Op
    <3>2. StateTypes' /\ stage'[c] = "removeNext"
      BY <1>1, <2>1, <2>2, <3>1 DEF StateTypes, Returns, Stages
    <3> QED
      BY <1>2, <1>3, <2>1, <2>4, <3>1, <3>2 DEF Placed, Op, LookStages, WriteStages, ListStages
  <2>5. CASE Op(c) # "clear"
    <3>1. Return(c, outcome) /\ outcome \in Tokens \cup Returns \cup {None}
      BY <2>3, <2>5 DEF Removed, Op, Returns
    <3>2. /\ result' \in [Clients -> Tokens \cup Returns \cup {None}]
          /\ stage' \in [Clients -> Stages]
          /\ at' \in [Clients -> Nat \ {0}]
          /\ \/ stage'[c] = "idle" /\ at'[c] = at[c] + 1
             \/ stage'[c] = "end" /\ at'[c] = at[c]
      BY <1>2, <3>1, ReturnTypes
    <3>3. StateTypes'
      BY <1>1, <2>1, <2>2, <3>2 DEF StateTypes
    <3> QED
      BY <1>2, <3>2, <3>3 DEF Placed, LookStages, WriteStages, ListStages
  <2> QED
    BY <2>4, <2>5
<1> QED
  BY <1>4, <1>5

LEMMA ListTypes ==
  ASSUME NameInv, NEW c \in Clients, UNCHANGED program,
         NextDir(c) \/ ReadName(c) \/ RemoveNext(c)
  PROVE  StateTypes' /\ Placed(c)' /\ at'[c] <= Len(program[c]) + 1
<1>1. TypeInv /\ StateTypes
  BY HasStateTypes DEF NameInv
<1>2. /\ stage[c] \in ListStages \cup {"removeNext"}
      /\ at[c] \in 1 .. Len(program[c]) /\ at[c] \in Nat
      /\ Op(c) \in {"list", "clear"}
  BY <1>1 DEF TypeInv, ClientsTyped, Placed, NextDir, ReadName, RemoveNext, ListStages
<1>3. UNCHANGED at => Call(c)' = Call(c)
  BY DEF Call
<1>4. ASSUME NEW value \in {"listed", "error", "cleared"}, Return(c, value)
      PROVE  /\ result' \in [Clients -> Tokens \cup Returns \cup {None}]
             /\ stage' \in [Clients -> Stages]
             /\ at' \in [Clients -> Nat \ {0}]
             /\ \/ stage'[c] = "idle" /\ at'[c] = at[c] + 1
                \/ stage'[c] = "end" /\ at'[c] = at[c]
  <2>1. value \in Tokens \cup Returns \cup {None}
    BY <1>4 DEF Returns
  <2> QED
    BY <1>1, <1>2, <1>4, <2>1, ReturnTypes
<1>5. CASE NextDir(c)
  <2>1. UNCHANGED <<files, current, fd, listed>> /\ todo[c] \subseteq Dirs /\ stage[c] = "nextDir"
    BY <1>1, <1>2, <1>5 DEF NextDir, TypeInv, Placed, ListStages
  <2>2. ASSUME NEW dir \in todo[c],
               here' = [here EXCEPT ![c] = dir], todo' = [todo EXCEPT ![c] = @ \ {dir}],
               dirs' = dirs \cup {dir}, Goto(c, "statPaid"), UNCHANGED <<at, result>>
        PROVE  StateTypes' /\ Placed(c)'
    <3>1. StateTypes' /\ stage'[c] = "statPaid" /\ here'[c] \in Dirs /\ todo'[c] \subseteq Dirs
      BY <1>1, <2>1, <2>2 DEF StateTypes, Goto, Stages
    <3> QED
      BY <1>2, <1>3, <2>2, <3>1 DEF Placed, Op, LookStages, WriteStages, ListStages
  <2>3. ASSUME Return(c, "listed"), UNCHANGED <<dirs, here, todo>>
        PROVE  StateTypes' /\ Placed(c)' /\ at'[c] <= Len(program[c]) + 1
    <3>1. StateTypes'
      BY <1>1, <1>4, <2>1, <2>3 DEF StateTypes
    <3> QED
      BY <1>2, <1>4, <2>3, <3>1 DEF Placed, LookStages, WriteStages, ListStages
  <2>4. ASSUME Op(c) = "clear", Goto(c, "removeNext"), result' = [result EXCEPT ![c] = None],
               UNCHANGED <<dirs, at, here, todo>>
        PROVE  StateTypes' /\ Placed(c)'
    <3>1. StateTypes' /\ stage'[c] = "removeNext"
      BY <1>1, <2>1, <2>4 DEF StateTypes, Goto, Stages
    <3> QED
      BY <1>2, <1>3, <2>4, <3>1 DEF Placed, Op, LookStages, WriteStages, ListStages
  <2> QED
    BY <1>2, <1>5, <2>2, <2>3, <2>4 DEF NextDir, Op
<1>6. CASE ReadName(c)
  <2>1. UNCHANGED <<dirs, files, at, here, todo, current, fd, result>> /\ here[c] \in Dirs
        /\ todo[c] \subseteq Dirs
    BY <1>1, <1>2, <1>6 DEF ReadName, diskVars, TypeInv, Placed, ListStages
  <2>2. [name |-> GetOriginalDomain(here[c]), dir |-> here[c], token |-> current[c]]
          \in [name: Seq(Characters), dir: Dirs, token: Entry]
    BY <1>1, <2>1, OriginalTypes DEF StateTypes
  <2>3. StateTypes' /\ stage'[c] = "nextDir"
    BY <1>1, <1>6, <2>1, <2>2 DEF ReadName, StateTypes, Goto, Stages
  <2> QED
    BY <1>2, <1>3, <2>1, <2>3 DEF Placed, Op, LookStages, WriteStages, ListStages
<1>7. CASE RemoveNext(c)
  <2>1. UNCHANGED <<dirs, files, current, fd>> /\ Op(c) = "clear"
    BY <1>1, <1>7 DEF RemoveNext, diskVars, TypeInv, Placed
  <2>2. ASSUME NEW row \in listed[c],
               listed' = [listed EXCEPT ![c] = @ \ {row}],
               here' = [here EXCEPT ![c] = SanitizeDomain(row.name)],
               todo' = [todo EXCEPT ![c] =
                 {f \in DOMAIN NoFiles : files[SanitizeDomain(row.name)][f] # None}],
               Goto(c, "unlink"), UNCHANGED <<at, result>>
        PROVE  StateTypes' /\ Placed(c)'
    <3>1. SanitizeDomain(row.name) \in Dirs
      BY <1>1, <2>2 DEF NameInv, ListedNamesLeadBack, StateTypes
    <3>2. StateTypes' /\ stage'[c] = "unlink" /\ here'[c] \in Dirs /\ todo'[c] \subseteq FileNames
      BY <1>1, <2>1, <2>2, <3>1 DEF StateTypes, Goto, Stages, FileNames
    <3> QED
      BY <1>2, <1>3, <2>1, <2>2, <3>2 DEF Placed, Op, LookStages, WriteStages, ListStages
  <2>3. ASSUME NEW value \in {"error", "cleared"}, Return(c, value), UNCHANGED <<here, todo, listed>>
        PROVE  StateTypes' /\ Placed(c)' /\ at'[c] <= Len(program[c]) + 1
    <3>1. StateTypes'
      BY <1>1, <1>4, <2>1, <2>3 DEF StateTypes
    <3> QED
      BY <1>2, <1>4, <2>3, <3>1 DEF Placed, LookStages, WriteStages, ListStages
  <2> QED
    BY <1>2, <1>7, <2>2, <2>3 DEF RemoveNext
<1> QED
  BY <1>5, <1>6, <1>7

\* The history grows with every step of anybody.
LEMMA SinceGrows ==
  ASSUME TypeInv, Observe, NEW k \in Clients
  PROVE  /\ DOMAIN since' = Clients
         /\ Working(k) => \A dir \in Dirs :
              since'[k][dir] = since[k][dir] \cup {Credential(files'[dir])}
         /\ stage[k] = "idle" /\ stage'[k] # "idle" => \A dir \in Dirs :
              since'[k][dir] = {Credential(files'[dir])}
         /\ stage[k] = "end" \/ (stage[k] = "idle" /\ stage'[k] = "idle") =>
              since'[k] = since[k]
BY DEF Observe, Working

LEMMA SinceTypes ==
  ASSUME TypeInv, Observe
  PROVE  since' \in [Clients -> [Dirs -> SUBSET (Tokens \cup {None})]]
<1> SUFFICES ASSUME NEW k \in Clients
             PROVE  since'[k] \in [Dirs -> SUBSET (Tokens \cup {None})]
  BY DEF Observe
<1>1. \A dir \in Dirs : Credential(files'[dir]) \in Tokens \cup {None}
  BY DEF Credential
<1>2. since[k] \in [Dirs -> SUBSET (Tokens \cup {None})]
  BY DEF TypeInv, ClientsTyped
<1> QED
  BY <1>1, <1>2 DEF Observe

LEMMA TypeStep ==
  ASSUME NameInv, NEW c \in Clients, ClientStep(c), Observe, UNCHANGED program
  PROVE  TypeInv'
<1>1. TypeInv
  BY DEF NameInv
<1>2. StateTypes' /\ Placed(c)' /\ at'[c] <= Len(program[c]) + 1
  BY <1>1, BeginTypes, LookTypes, WriteTypes, RemovalTypes, ListTypes DEF ClientStep
<1>3. ASSUME NEW k \in Clients, k # c
      PROVE  Placed(k)' /\ at'[k] \in 1 .. Len(program[k]) + 1
  <2>1. /\ at'[k] = at[k] /\ stage'[k] = stage[k] /\ here'[k] = here[k] /\ todo'[k] = todo[k]
        /\ Call(k)' = Call(k)
    BY <1>1, <1>3, OthersKept DEF Call
  <2>2. Placed(k) /\ at[k] \in 1 .. Len(program[k]) + 1
    BY <1>1 DEF TypeInv, TypeOK
  <2> QED
    BY <2>1, <2>2 DEF Placed, Op
<1>4. at'[c] \in 1 .. Len(program[c]) + 1
  <2>1. at'[c] \in Nat \ {0} /\ Len(program[c]) \in Nat
    BY <1>1, <1>2, TokenFilesAssumption DEF StateTypes, TypeInv, ClientsTyped
  <2> QED
    BY <1>2, <2>1
<1>5. TypeOK'
  BY <1>2, <1>3, <1>4 DEF TypeOK, StateTypes, FileTypes
<1>6. ClientsTyped'
  <2>1. since' \in [Clients -> [Dirs -> SUBSET (Tokens \cup {None})]]
    BY <1>1, SinceTypes
  <2>2. program' \in Programs
    BY <1>1 DEF TypeInv, ClientsTyped
  <2>3. /\ at' \in [Clients -> Nat \ {0}]
        /\ todo' \in [Clients -> SUBSET (Dirs \cup FileNames)]
        /\ listed' \in [Clients -> SUBSET [name: Seq(Characters), dir: Dirs, token: Entry]]
    BY <1>2, Zenon DEF StateTypes
  <2> QED
    BY <2>1, <2>2, <2>3 DEF ClientsTyped
<1> QED
  BY <1>2, <1>3, <1>5, <1>6 DEF TypeInv

\* All that happens to the files.
LEMMA FileSteps ==
  ASSUME TypeInv, NEW c \in Clients, ClientStep(c)
  PROVE  \/ UNCHANGED files
         \/ /\ stage[c] = "create" /\ here[c] \in dirs /\ UNCHANGED dirs
            /\ files' = Written(here[c], Target(c), "empty")
         \/ /\ stage[c] = "fill" /\ c \in fd /\ UNCHANGED dirs
            /\ \E content \in {Call(c).new.tok, "garbled"} :
                 files' = Written(here[c], Target(c), content)
         \/ /\ stage[c] = "unlinkPending" /\ UNCHANGED dirs
            /\ files' = Written(here[c], "pending", None)
         \/ /\ stage[c] = "writeName" /\ dirs' = dirs \cup {here[c]}
            /\ files' = Written(here[c], "name", Call(c).name)
         \/ /\ stage[c] = "unlink" /\ UNCHANGED dirs
            /\ \E f \in todo[c] : files' = Written(here[c], f, None)
<1>1. CASE Begin(c)
  BY <1>1, BeginCases
<1>2. CASE StatPaid(c) \/ StatPending(c) \/ ReadToken(c) \/ NextDir(c) \/ ReadName(c) \/ RemoveNext(c)
  BY <1>2 DEF StatPaid, StatPending, ReadToken, NextDir, ReadName, RemoveNext, diskVars
<1>3. CASE CreateFile(c)
  BY <1>3 DEF CreateFile, Written
<1>4. CASE FillFile(c)
  BY <1>4 DEF FillFile, Written
<1>5. CASE UnlinkPending(c)
  BY <1>5 DEF UnlinkPending, Unlink, Written
<1>6. CASE WriteName(c)
  BY <1>6 DEF WriteName, Written, diskVars
<1>7. CASE UnlinkFile(c)
  BY <1>7 DEF UnlinkFile, Unlink, Written
<1>8. CASE RemoveDir(c)
  BY <1>8 DEF RemoveDir
<1> QED
  BY <1>1, <1>2, <1>3, <1>4, <1>5, <1>6, <1>7, <1>8 DEF ClientStep

LEMMA NamesStep ==
  ASSUME NameInv, NEW c \in Clients, ClientStep(c), Observe, UNCHANGED program
  PROVE  NameInv'
<1>1. TypeInv /\ StateTypes /\ NamesKept /\ ListedNamesLeadBack
  BY HasStateTypes DEF NameInv
<1>2. TypeInv'
  BY TypeStep
<1>3. ASSUME NEW dir \in Dirs, files'[dir].name # None
      PROVE  SanitizeDomain(files'[dir].name) = dir
  <2>1. SanitizeDomain(files[dir].name) = dir \/ files[dir].name = None
    BY <1>1 DEF NamesKept
  <2>2. files \in FileTypes
    BY <1>1 DEF StateTypes
  <2>3. ASSUME NEW f \in {"paid", "pending"}, NEW value \in Tokens \cup Unreadables \cup {None},
               here[c] \in Dirs, files' = Written(here[c], f, value)
        PROVE  files'[dir].name = files[dir].name
    <3>1. "name" \in FileNames
      BY DEF FileNames, NoFiles
    <3>2. files'[dir]["name"] = files[dir]["name"]
      BY <2>2, <2>3, <3>1, WrittenTypes
    <3> QED
      BY <3>2
  <2>4. {"empty", "garbled", None} \subseteq Tokens \cup Unreadables \cup {None}
    BY DEF Unreadables
  <2>5. CASE UNCHANGED files
    BY <1>3, <2>1, <2>5
  <2>6. CASE stage[c] = "create" /\ files' = Written(here[c], Target(c), "empty")
    BY <1>1, <1>3, <2>1, <2>3, <2>4, <2>6, WriterPlace DEF WriteStages
  <2>7. CASE stage[c] = "fill" /\ \E content \in {Call(c).new.tok, "garbled"} :
               files' = Written(here[c], Target(c), content)
    BY <1>1, <1>3, <2>1, <2>3, <2>4, <2>7, WriterPlace DEF WriteStages
  <2>8. CASE stage[c] = "unlinkPending" /\ files' = Written(here[c], "pending", None)
    BY <1>1, <1>3, <2>1, <2>3, <2>4, <2>8, WriterPlace DEF WriteStages
  <2>9. CASE stage[c] = "writeName" /\ files' = Written(here[c], "name", Call(c).name)
    <3>1. /\ here[c] \in Dirs /\ Call(c).name \in Domains
          /\ here[c] = SanitizeDomain(Call(c).name)
      BY <1>1, <2>9, WriterPlace DEF WriteStages
    <3> QED
      BY <1>3, <2>1, <2>2, <2>9, <3>1, NamedTypes
  <2>10. CASE stage[c] = "unlink" /\ \E f \in todo[c] : files' = Written(here[c], f, None)
    <3>1. PICK f \in todo[c] : files' = Written(here[c], f, None)
      BY <2>10
    <3>2. here[c] \in Dirs /\ f \in {"paid", "pending", "name"}
      BY <1>1, <2>10, <3>1 DEF TypeInv, Placed, FileNames, NoFiles
    <3>3. CASE f \in {"paid", "pending"}
      BY <1>3, <2>1, <2>3, <2>4, <3>1, <3>2, <3>3
    <3>4. CASE f = "name"
      BY <1>3, <2>1, <2>2, <3>1, <3>2, <3>4, NamedTypes
    <3> QED
      BY <3>2, <3>3, <3>4
  <2> QED
    BY <1>1, <2>5, <2>6, <2>7, <2>8, <2>9, <2>10, FileSteps
<1>4. NamesKept'
  BY <1>3 DEF NamesKept
<1>5. ASSUME NEW k \in Clients, NEW row \in listed'[k]
      PROVE  SanitizeDomain(row.name) = row.dir
  <2>1. \A r \in listed[k] : SanitizeDomain(r.name) = r.dir
    BY <1>1 DEF ListedNamesLeadBack
  <2>2. CASE k # c
    BY <1>1, <1>5, <2>1, <2>2, OthersKept
  <2>3. CASE k = c /\ Begin(c)
    <3>1. BeginsLookup(c) \/ BeginsRemoval(c) \/ BeginsListing(c)
      BY <1>1, <2>3, BeginCases
    <3>2. listed' = listed \/ listed' = [listed EXCEPT ![c] = {}]
      BY <3>1 DEF BeginsLookup, BeginsRemoval, BeginsListing
    <3> QED
      BY <1>1, <1>5, <2>1, <2>3, <3>2 DEF StateTypes
  <2>4. CASE k = c /\ ReadName(c)
    <3>1. here[c] \in Dirs
      BY <1>1, <2>4 DEF ReadName, TypeInv, Placed
    <3>2. SanitizeDomain(GetOriginalDomain(here[c])) = here[c]
      BY <1>1, <3>1, OriginalLeadsBack DEF NamesKept
    <3>3. row \in listed[k] \/ row = [name |-> GetOriginalDomain(here[c]), dir |-> here[c],
                                      token |-> current[c]]
      BY <1>1, <1>5, <2>4 DEF ReadName, StateTypes
    <3> QED
      BY <2>1, <3>2, <3>3
  <2>5. CASE k = c /\ RemoveNext(c)
    <3>1. listed'[k] \subseteq listed[k]
      BY <1>1, <2>5 DEF RemoveNext, StateTypes
    <3> QED
      BY <1>5, <2>1, <3>1
  <2>6. CASE k = c /\ UNCHANGED listed
    BY <1>5, <2>1, <2>6
  <2>7. UNCHANGED listed \/ Begin(c) \/ ReadName(c) \/ RemoveNext(c)
    BY DEF ClientStep, StatPaid, StatPending, ReadToken, CreateFile, FillFile, UnlinkPending,
           WriteName, UnlinkFile, RemoveDir, NextDir
  <2> QED
    BY <2>2, <2>3, <2>4, <2>5, <2>6, <2>7
<1>6. ListedNamesLeadBack'
  BY <1>5 DEF ListedNamesLeadBack
<1> QED
  BY <1>2, <1>4, <1>6 DEF NameInv

LEMMA InitNames == Init => NameInv
<1> SUFFICES ASSUME Init PROVE NameInv
  OBVIOUS
<1> USE DEF Init
<1>1. TypeOK
  <2>1. files \in FileTypes
    BY DEF FileTypes, NoFiles
  <2>2. \A c \in Clients : program[c] \in Seq(Calls)
    BY TokenFilesAssumption
  <2>3. \A c \in Clients : at[c] \in 1 .. Len(program[c]) + 1
    BY <2>2
  <2>4. stage \in [Clients -> Stages]
    BY DEF Stages
  <2>5. current \in [Clients -> Entry]
    BY DEF Entry
  <2> QED
    BY <2>1, <2>3, <2>4, <2>5 DEF TypeOK, FileTypes
<1>2. ClientsTyped
  BY DEF ClientsTyped, NoHistory
<1>3. \A c \in Clients : Placed(c)
  BY DEF Placed, LookStages, WriteStages, ListStages
<1>4. NamesKept /\ ListedNamesLeadBack
  BY DEF NamesKept, NoFiles, ListedNamesLeadBack
<1> QED
  BY <1>1, <1>2, <1>3, <1>4 DEF NameInv, TypeInv

LEMMA NamesStutter ==
  ASSUME NameInv, UNCHANGED vars
  PROVE  NameInv'
<1> USE DEF vars, diskVars, clientVars
<1>1. TypeOK' /\ ClientsTyped'
  BY DEF NameInv, TypeInv, TypeOK, ClientsTyped
<1>2. \A c \in Clients : Placed(c)'
  BY DEF NameInv, TypeInv, Placed, Op, Call
<1>3. NamesKept' /\ ListedNamesLeadBack'
  BY DEF NameInv, NamesKept, ListedNamesLeadBack
<1> QED
  BY <1>1, <1>2, <1>3 DEF NameInv, TypeInv

LEMMA NamesInvariant == Spec => []NameInv
<1>1. NameInv /\ [Next]_vars => NameInv'
  BY NamesStep, NamesStutter DEF Next
<1> QED
  BY <1>1, InitNames, PTL DEF Spec

\* The token store is always of its types.
THEOREM TypeCorrect == Spec => []TypeOK
<1>1. NameInv => TypeOK
  BY DEF NameInv, TypeInv
<1> QED
  BY <1>1, NamesInvariant, PTL

\* The name a listing shows for a directory leads back to it, with or without
\* the metadata file and whoever writes and removes files meanwhile.
THEOREM NamesLeadBack == Spec => []ListedNamesLeadBack
<1>1. NameInv => ListedNamesLeadBack
  BY DEF NameInv
<1> QED
  BY <1>1, NamesInvariant, PTL

----
(* Each directory behaves like one entry.                                  *)

WriterInv == NameInv /\ \A c \in Clients : WriteAllowed(c)

LEMMA InitWriters == Init => WriterInv
BY InitNames DEF WriterInv, WriteAllowed, Init

LEMMA WritersStep ==
  ASSUME WriterInv, NEW c \in Clients, ClientStep(c), Observe, UNCHANGED program
  PROVE  WriterInv'
<1>1. NameInv /\ TypeInv /\ StateTypes
  BY HasStateTypes DEF WriterInv, NameInv
<1>2. NameInv'
  BY <1>1, NamesStep
<1>3. ASSUME NEW k \in Clients, k # c
      PROVE  WriteAllowed(k)'
  <2>1. stage'[k] = stage[k] /\ current'[k] = current[k] /\ Call(k)' = Call(k)
    BY <1>1, <1>3, OthersKept DEF Call
  <2> QED
    BY <2>1 DEF WriterInv, WriteAllowed
<1>4. WriteAllowed(c)'
  <2> SUFFICES ASSUME stage'[c] \in {"create", "fill", "unlinkPending"}
               PROVE  /\ StoreAllowed(current'[c], Call(c)'.new)
                      /\ stage'[c] = "unlinkPending" => Call(c)'.new.paid
    BY DEF WriteAllowed
  <2>1. stage[c] \in LookStages \cup WriteStages
    <3>1. CASE Begin(c)
      BY <1>1, <3>1, BeginCases
         DEF BeginsLookup, BeginsRemoval, BeginsListing, Goto, StateTypes
    <3>2. ASSUME Return(c, "error") \/ Return(c, "listed") \/ Return(c, "cleared")
                 \/ Return(c, "removed")
          PROVE FALSE
      BY <1>1, <3>2 DEF Return, Goto, StateTypes
    <3>3. CASE UnlinkFile(c)
      BY <1>1, <3>3 DEF UnlinkFile, StateTypes
    <3>4. CASE RemoveDir(c)
      BY <1>1, <3>2, <3>4 DEF RemoveDir, Removed, Goto, StateTypes
    <3>5. CASE NextDir(c)
      BY <1>1, <3>2, <3>5 DEF NextDir, Goto, StateTypes
    <3>6. CASE ReadName(c)
      BY <1>1, <3>6 DEF ReadName, Goto, StateTypes
    <3>7. CASE RemoveNext(c)
      BY <1>1, <3>2, <3>7 DEF RemoveNext, Goto, StateTypes
    <3> QED
      BY <3>1, <3>3, <3>4, <3>5, <3>6, <3>7
         DEF ClientStep, StatPaid, StatPending, ReadToken, CreateFile, FillFile,
             UnlinkPending, WriteName, LookStages, WriteStages
  <2>2. at[c] \in 1 .. Len(program[c])
    BY <1>1, <2>1 DEF TypeInv, Placed, LookStages, WriteStages
  <2>3. UNCHANGED at => Call(c)' = Call(c)
    BY DEF Call
  <2>4. ASSUME NEW token \in Entry, Found(c, token), stage[c] \in LookStages
        PROVE  stage'[c] = "create" /\ StoreAllowed(current'[c], Call(c)'.new)
    BY <1>1, <2>2, <2>3, <2>4, FoundTypes DEF StateTypes
  <2>5. ASSUME Unreadable(c), stage[c] \in LookStages PROVE FALSE
    BY <1>1, <2>2, <2>5, UnreadableTypes
  <2>6. CASE StatPaid(c)
    BY <1>1, <2>6 DEF StatPaid, Goto, StateTypes
  <2>7. CASE StatPending(c)
    <3>1. stage[c] \in LookStages /\ ~Goto(c, "readPending")
      BY <1>1, <2>7 DEF StatPending, LookStages, Goto, StateTypes
    <3>2. Found(c, NoToken) /\ NoToken \in Entry
      BY <2>7, <3>1 DEF StatPending, Entry
    <3> QED
      BY <2>4, <3>1, <3>2
  <2>8. CASE ReadToken(c)
    <3>1. stage[c] \in LookStages
      BY <2>8 DEF ReadToken, LookStages
    <3>2. \E token \in Entry : Found(c, token)
      BY <2>5, <2>8, <3>1 DEF ReadToken, Entry, Paid, Pending
    <3> QED
      BY <2>4, <3>1, <3>2
  <2>9. ASSUME Return(c, "error") \/ Return(c, "stored") PROVE FALSE
    BY <1>1, <2>9 DEF Return, Goto, StateTypes
  <2>10. CASE CreateFile(c)
    <3>1. /\ stage[c] = "create" /\ stage' = [stage EXCEPT ![c] = "fill"]
          /\ UNCHANGED <<at, current>>
      BY <2>9, <2>10 DEF CreateFile, Goto
    <3> QED
      BY <1>1, <2>3, <3>1 DEF WriterInv, WriteAllowed, StateTypes
  <2>11. CASE FillFile(c)
    <3>1. /\ stage[c] = "fill" /\ UNCHANGED <<at, current>>
          /\ stage' = [stage EXCEPT ![c] = IF current[c] = NoToken THEN "writeName"
                                           ELSE "unlinkPending"]
      BY <2>9, <2>11 DEF FillFile, Goto
    <3>2. current[c] # NoToken /\ StoreAllowed(current[c], Call(c).new)
      BY <1>1, <3>1 DEF WriterInv, WriteAllowed, StateTypes
    <3>3. Call(c).new.paid
      BY <3>2 DEF StoreAllowed, IsPending
    <3> QED
      BY <2>3, <3>1, <3>2, <3>3
  <2>12. CASE UnlinkPending(c)
    BY <1>1, <2>12 DEF UnlinkPending, Goto, StateTypes
  <2>13. CASE WriteName(c)
    BY <2>9, <2>13 DEF WriteName
  <2> QED
    BY <2>1, <2>6, <2>7, <2>8, <2>10, <2>11, <2>12, <2>13
       DEF ClientStep, LookStages, WriteStages, Begin, UnlinkFile, RemoveDir, NextDir,
           ReadName, RemoveNext
<1> QED
  BY <1>2, <1>3, <1>4 DEF WriterInv

LEMMA WritersInvariant == Spec => []WriterInv
<1>1. WriterInv /\ UNCHANGED vars => WriterInv'
  BY NamesStutter DEF WriterInv, WriteAllowed, Call, vars, diskVars, clientVars
<1>2. WriterInv /\ [Next]_vars => WriterInv'
  BY <1>1, WritersStep DEF Next
<1> QED
  BY <1>2, InitWriters, PTL DEF Spec

LEMMA EntryTypes ==
  ASSUME files \in FileTypes, NEW dir \in Dirs
  PROVE  /\ EntryOf(files[dir]) \in Entry
         /\ EntryOf(files[dir]).paid <=> files[dir].paid \in Tokens
         /\ EntryOf(files[dir]) = NoToken <=>
              files[dir].paid \notin Tokens /\ files[dir].pending \notin Tokens
<1>1. None \notin Tokens
  BY TokenFilesAssumption
<1>2. CASE files[dir].paid \in Tokens
  BY <1>1, <1>2 DEF EntryOf, Entry, Paid, NoToken
<1>3. CASE files[dir].paid \notin Tokens /\ files[dir].pending \in Tokens
  BY <1>1, <1>3 DEF EntryOf, Entry, Pending, NoToken
<1>4. CASE files[dir].paid \notin Tokens /\ files[dir].pending \notin Tokens
  BY <1>4 DEF EntryOf, Entry, NoToken
<1> QED
  BY <1>2, <1>3, <1>4

\* What becomes of an entry when a file is emptied, spoilt or removed ...
LEMMA EntrySpoilt ==
  ASSUME files \in FileTypes, NEW dir \in Dirs, NEW f \in {"paid", "pending"},
         NEW value \in Unreadables \cup {None}, files' = Written(dir, f, value)
  PROVE  LET was == EntryOf(files[dir])
             is  == EntryOf(files'[dir])
         IN  /\ \/ is = was
                \/ is = NoToken
                \/ was.paid /\ \E t \in Tokens : is = Pending(t)
             /\ f = "pending" /\ was.paid => is = was
             /\ f = "paid" /\ ~was.paid => is = was
             /\ was = NoToken => is = was
<1>1. value \notin Tokens /\ value \in Tokens \cup Unreadables \cup {None}
  BY TokenFilesAssumption
<1>2. files'[dir][f] = value /\ \A g \in FileNames : g # f => files'[dir][g] = files[dir][g]
  BY <1>1, WrittenTypes
<1>3. {"paid", "pending"} \subseteq FileNames
  BY DEF FileNames, NoFiles
<1>4. EntryOf(files[dir]).paid <=> files[dir].paid \in Tokens
  BY EntryTypes
<1>5. CASE f = "paid"
  <2>1. files'[dir].paid = value /\ files'[dir].pending = files[dir].pending
    BY <1>2, <1>3, <1>5
  <2>2. EntryOf(files'[dir]) =
          IF files[dir].pending \in Tokens THEN Pending(files[dir].pending) ELSE NoToken
    BY <1>1, <2>1 DEF EntryOf
  <2>3. CASE files[dir].paid \in Tokens
    BY <1>4, <1>5, <2>2, <2>3, EntryTypes
  <2>4. CASE files[dir].paid \notin Tokens
    BY <1>4, <1>5, <2>2, <2>4 DEF EntryOf
  <2> QED
    BY <2>3, <2>4
<1>6. CASE f = "pending"
  <2>1. files'[dir].pending = value /\ files'[dir].paid = files[dir].paid
    BY <1>2, <1>3, <1>6
  <2>2. EntryOf(files'[dir]) =
          IF files[dir].paid \in Tokens THEN Paid(files[dir].paid) ELSE NoToken
    BY <1>1, <2>1 DEF EntryOf
  <2> QED
    BY <1>4, <1>6, <2>2 DEF EntryOf
<1> QED
  BY <1>5, <1>6

\* ... and when a token is written to one.
LEMMA EntryStored ==
  ASSUME files \in FileTypes, NEW dir \in Dirs, NEW new \in Entry, new # NoToken,
         NEW f, f = IF new.paid THEN "paid" ELSE "pending",
         files' = Written(dir, f, new.tok)
  PROVE  EntryOf(files'[dir]) = WriteOver(EntryOf(files[dir]), new)
<1>1. /\ new.tok \in Tokens /\ new.paid \in BOOLEAN
      /\ f \in {"paid", "pending"}
      /\ new = [tok |-> new.tok, paid |-> new.paid]
  BY DEF Entry
<1>2. files'[dir][f] = new.tok /\ \A g \in FileNames : g # f => files'[dir][g] = files[dir][g]
  BY <1>1, WrittenTypes
<1>3. {"paid", "pending"} \subseteq FileNames
  BY DEF FileNames, NoFiles
<1>4. EntryOf(files[dir]).paid <=> files[dir].paid \in Tokens
  BY EntryTypes
<1>5. CASE new.paid
  <2>1. files'[dir].paid = new.tok
    BY <1>2, <1>5
  <2> QED
    BY <1>1, <1>5, <2>1 DEF EntryOf, WriteOver, IsPending, Paid
<1>6. CASE ~new.paid
  <2>1. files'[dir].pending = new.tok /\ files'[dir].paid = files[dir].paid
    BY <1>2, <1>3, <1>6
  <2> QED
    BY <1>1, <1>4, <1>6, <2>1 DEF EntryOf, WriteOver, IsPending, Pending
<1> QED
  BY <1>1, <1>5, <1>6

\* What TokenStore lets become of the entry of one directory.
EntryMoves(dir) ==
  LET was == EntryOf(files[dir])
      is  == EntryOf(files'[dir])
  IN  \/ is = was
      \/ \E new \in Entry : StoreAllowed(was, new) /\ is = new
      \/ Racing(dir) /\ \E new \in Entry : is = WriteOver(was, new)
      \/ /\ Racing(dir) \/ Removing(dir)
         /\ is = NoToken \/ (was.paid /\ \E t \in Tokens : is = Pending(t))

LEMMA EntryStep ==
  ASSUME WriterInv, NEW c \in Clients, ClientStep(c)
  PROVE  \/ UNCHANGED files
         \/ \E dir \in Dirs : EntryMoves(dir) /\ \A d \in Dirs : d # dir => files'[d] = files[d]
<1>1. TypeInv /\ files \in FileTypes
  BY HasStateTypes DEF WriterInv, NameInv, StateTypes
<1>2. WriteAllowed(c)
  BY DEF WriterInv
<1>3. Unreadables \cup {None} \subseteq Tokens \cup Unreadables \cup {None}
      /\ {"empty", "garbled"} \subseteq Unreadables
  BY DEF Unreadables
<1> DEFINE dir == here[c]
           was == EntryOf(files[dir])
<1> SUFFICES ASSUME ~UNCHANGED files
             PROVE  /\ dir \in Dirs
                    /\ EntryMoves(dir)
                    /\ \A d \in Dirs : d # dir => files'[d] = files[d]
  OBVIOUS
<1>4. ASSUME stage[c] \in {"create", "fill", "unlinkPending"}
      PROVE  \/ was = Expected(c)
             \/ Racing(dir)
  BY <1>4 DEF Racing
<1>5. ASSUME stage[c] \in {"create", "fill"}
      PROVE  Expected(c) = current[c]
  BY <1>5 DEF Expected
<1>6. CASE stage[c] = "create" /\ files' = Written(here[c], Target(c), "empty")
  <2>1. dir \in Dirs /\ Target(c) \in {"paid", "pending"}
    BY <1>1, <1>6, WriterPlace DEF WriteStages
  <2>2. \A d \in Dirs : d # dir => files'[d] = files[d]
    BY <1>1, <1>3, <1>6, <2>1, WrittenTypes
  <2>3. /\ \/ EntryOf(files'[dir]) = was
           \/ EntryOf(files'[dir]) = NoToken
           \/ was.paid /\ \E t \in Tokens : EntryOf(files'[dir]) = Pending(t)
        /\ Target(c) = "pending" /\ was.paid => EntryOf(files'[dir]) = was
        /\ Target(c) = "paid" /\ ~was.paid => EntryOf(files'[dir]) = was
        /\ was = NoToken => EntryOf(files'[dir]) = was
    BY <1>1, <1>3, <1>6, <2>1, EntrySpoilt
  <2>4. CASE Racing(dir)
    BY <2>1, <2>2, <2>3, <2>4 DEF EntryMoves
  <2>5. CASE was = current[c]
    <3>1. was = NoToken \/ (~was.paid /\ Call(c).new.paid)
      BY <1>2, <1>6, <2>5 DEF WriteAllowed, StoreAllowed, IsPending
    <3>2. Call(c).new.paid => Target(c) = "paid"
      BY DEF Target
    <3>3. EntryOf(files'[dir]) = was
      BY <2>3, <3>1, <3>2
    <3> QED
      BY <2>1, <2>2, <3>3 DEF EntryMoves
  <2> QED
    BY <1>4, <1>5, <1>6, <2>4, <2>5
<1>7. CASE stage[c] = "fill" /\ files' = Written(here[c], Target(c), "garbled")
  <2>1. dir \in Dirs /\ Target(c) \in {"paid", "pending"}
    BY <1>1, <1>7, WriterPlace DEF WriteStages
  <2>2. \A d \in Dirs : d # dir => files'[d] = files[d]
    BY <1>1, <1>3, <1>7, <2>1, WrittenTypes
  <2>3. /\ \/ EntryOf(files'[dir]) = was
           \/ EntryOf(files'[dir]) = NoToken
           \/ was.paid /\ \E t \in Tokens : EntryOf(files'[dir]) = Pending(t)
        /\ Target(c) = "pending" /\ was.paid => EntryOf(files'[dir]) = was
        /\ Target(c) = "paid" /\ ~was.paid => EntryOf(files'[dir]) = was
        /\ was = NoToken => EntryOf(files'[dir]) = was
    BY <1>1, <1>3, <1>7, <2>1, EntrySpoilt
  <2>4. CASE Racing(dir)
    BY <2>1, <2>2, <2>3, <2>4 DEF EntryMoves
  <2>5. CASE was = current[c]
    <3>1. was = NoToken \/ (~was.paid /\ Call(c).new.paid)
      BY <1>2, <1>7, <2>5 DEF WriteAllowed, StoreAllowed, IsPending
    <3>2. Call(c).new.paid => Target(c) = "paid"
      BY DEF Target
    <3>3. EntryOf(files'[dir]) = was
      BY <2>3, <3>1, <3>2
    <3> QED
      BY <2>1, <2>2, <3>3 DEF EntryMoves
  <2> QED
    BY <1>4, <1>5, <1>7, <2>4, <2>5
<1>8. CASE stage[c] = "fill" /\ files' = Written(here[c], Target(c), Call(c).new.tok)
  <2> DEFINE new == Call(c).new
  <2>1. /\ dir \in Dirs /\ new \in Entry /\ new # NoToken /\ new.tok \in Tokens
        /\ Target(c) \in {"paid", "pending"}
    BY <1>1, <1>8, WriterPlace DEF WriteStages
  <2>2. \A d \in Dirs : d # dir => files'[d] = files[d]
    BY <1>1, <1>8, <2>1, WrittenTypes
  <2>3. EntryOf(files'[dir]) = WriteOver(was, new)
    BY <1>1, <1>8, <2>1, EntryStored DEF Target
  <2>4. CASE Racing(dir)
    BY <2>1, <2>2, <2>3, <2>4 DEF EntryMoves
  <2>5. CASE was = current[c]
    <3>1. StoreAllowed(was, new)
      BY <1>2, <1>8, <2>5 DEF WriteAllowed
    <3>2. EntryOf(files'[dir]) = new
      BY <2>3, <3>1 DEF WriteOver, StoreAllowed, IsPending, NoToken
    <3> QED
      BY <2>1, <2>2, <3>1, <3>2 DEF EntryMoves
  <2> QED
    BY <1>4, <1>5, <1>8, <2>4, <2>5
<1>9. CASE stage[c] = "unlinkPending" /\ files' = Written(here[c], "pending", None)
  <2>1. dir \in Dirs
    BY <1>1, <1>9, WriterPlace DEF WriteStages
  <2>2. \A d \in Dirs : d # dir => files'[d] = files[d]
    BY <1>1, <1>3, <1>9, <2>1, WrittenTypes
  <2>3. /\ \/ EntryOf(files'[dir]) = was
           \/ EntryOf(files'[dir]) = NoToken
           \/ was.paid /\ \E t \in Tokens : EntryOf(files'[dir]) = Pending(t)
        /\ was.paid => EntryOf(files'[dir]) = was
    BY <1>1, <1>9, <2>1, EntrySpoilt
  <2>4. Racing(dir) \/ was.paid
    BY <1>2, <1>4, <1>9 DEF Expected, WriteAllowed
  <2> QED
    BY <2>1, <2>2, <2>3, <2>4 DEF EntryMoves
<1>10. ASSUME dir \in Dirs, NEW value \in Domains \cup {None}, files' = Written(dir, "name", value)
       PROVE  EntryMoves(dir) /\ \A d \in Dirs : d # dir => files'[d] = files[d]
  <2>1. files'[dir].paid = files[dir].paid /\ files'[dir].pending = files[dir].pending
        /\ \A d \in Dirs : d # dir => files'[d] = files[d]
    BY <1>1, <1>10, NamedTypes
  <2> QED
    BY <2>1 DEF EntryMoves, EntryOf
<1>11. CASE stage[c] = "writeName" /\ files' = Written(here[c], "name", Call(c).name)
  <2>1. dir \in Dirs /\ Call(c).name \in Domains
    BY <1>1, <1>11, WriterPlace DEF WriteStages
  <2> QED
    BY <1>10, <1>11, <2>1
<1>12. CASE stage[c] = "unlink" /\ \E f \in todo[c] : files' = Written(here[c], f, None)
  <2>1. PICK f \in todo[c] : files' = Written(here[c], f, None)
    BY <1>12
  <2>2. dir \in Dirs /\ f \in {"paid", "pending", "name"}
    BY <1>1, <1>12 DEF TypeInv, Placed, FileNames, NoFiles
  <2>3. Removing(dir)
    BY <1>12 DEF Removing
  <2>4. CASE f = "name"
    BY <1>10, <2>1, <2>2, <2>4
  <2>5. CASE f \in {"paid", "pending"}
    <3>1. \A d \in Dirs : d # dir => files'[d] = files[d]
      BY <1>1, <1>3, <2>1, <2>2, <2>5, WrittenTypes
    <3>2. \/ EntryOf(files'[dir]) = was
          \/ EntryOf(files'[dir]) = NoToken
          \/ was.paid /\ \E t \in Tokens : EntryOf(files'[dir]) = Pending(t)
      BY <1>1, <2>1, <2>2, <2>5, EntrySpoilt
    <3> QED
      BY <2>2, <2>3, <3>1, <3>2 DEF EntryMoves
  <2> QED
    BY <2>2, <2>4, <2>5
<1> QED
  BY <1>1, <1>6, <1>7, <1>8, <1>9, <1>11, <1>12, FileSteps

\* The files implement TokenStore, whoever works on them and whatever fails: a
\* reader finds the old or the new token of a directory, never half of one, and
\* a paid token goes only by a removal or when two writers have raced.
THEOREM RefinesStore == Spec => StoreSpec
<1> DEFINE entry == [dir \in Dirs |-> EntryOf(files[dir])]
<1>1. Init => Entries!Init
  <2>1. None \notin Tokens
    BY TokenFilesAssumption
  <2> QED
    BY <2>1 DEF Init, Entries!Init, EntryOf, NoFiles, NoToken, Entries!NoToken
<1>2. ASSUME WriterInv, [Next]_vars
      PROVE  [Entries!Next]_entry
  <2>1. CASE UNCHANGED files
    BY <2>1
  <2>2. ASSUME NEW dir \in Dirs, EntryMoves(dir),
               \A d \in Dirs : d # dir => files'[d] = files[d]
        PROVE  Entries!Next \/ UNCHANGED entry
    <3>1. entry' = [entry EXCEPT ![dir] = EntryOf(files'[dir])]
      BY <2>2
    <3>2. entry[dir] = EntryOf(files[dir])
      OBVIOUS
    <3>3. CASE EntryOf(files'[dir]) = EntryOf(files[dir])
      BY <3>1, <3>2, <3>3
    <3>4. ASSUME NEW new \in Entry, StoreAllowed(EntryOf(files[dir]), new),
                 EntryOf(files'[dir]) = new
          PROVE  Entries!Next
      <4>1. Entries!Store(dir, new)
        BY <3>1, <3>2, <3>4 DEF Entries!Store, Entries!StoreAllowed, Entries!IsPending,
           StoreAllowed, IsPending, Entries!NoToken, NoToken
      <4> QED
        BY <4>1 DEF Entries!Next, Entries!Entry, Entries!NoToken, Entry, NoToken
    <3>5. ASSUME Racing(dir), NEW new \in Entry,
                 EntryOf(files'[dir]) = WriteOver(EntryOf(files[dir]), new)
          PROVE  Entries!Next
      <4>1. Entries!Overwrite(dir, new)
        BY <3>1, <3>2, <3>5 DEF Entries!Overwrite, Entries!WriteOver, Entries!IsPending,
           WriteOver, IsPending
      <4> QED
        BY <4>1 DEF Entries!Next, Entries!Entry, Entries!NoToken, Entry, NoToken
    <3>6. ASSUME Racing(dir) \/ Removing(dir),
                 \/ EntryOf(files'[dir]) = NoToken
                 \/ /\ EntryOf(files[dir]).paid
                    /\ \E t \in Tokens : EntryOf(files'[dir]) = Pending(t)
          PROVE  Entries!Next
      <4>1. Entries!Remove(dir)
        BY <3>1, <3>2, <3>6 DEF Entries!Remove, Entries!NoToken, Entries!Pending, NoToken, Pending
      <4> QED
        BY <4>1 DEF Entries!Next
    <3> QED
      BY <2>2, <3>3, <3>4, <3>5, <3>6 DEF EntryMoves
  <2>3. CASE UNCHANGED vars
    BY <2>1, <2>3 DEF vars, diskVars
  <2>4. CASE Next
    BY <1>2, <2>1, <2>2, <2>4, EntryStep DEF Next
  <2> QED
    BY <1>2, <2>3, <2>4
<1> QED
  BY <1>1, <1>2, WritersInvariant, PTL DEF Spec, StoreSpec, Entries!Spec

----
(* Open files, and what the history of a call says.                        *)

\* A file is opened by the client that creates it, and closed when it is
\* filled; a client whose file is unlinked meanwhile no longer has it.
LEMMA OpenFiles ==
  ASSUME TypeInv, FilesPlaced, NEW c \in Clients, ClientStep(c), NEW k \in fd'
  PROVE  \/ /\ k = c /\ CreateFile(c) /\ here[c] \in dirs
            /\ stage'[c] = "fill" /\ UNCHANGED <<at, here>>
            /\ files' = Written(here[c], Target(c), "empty")
         \/ /\ k \in fd /\ k # c
            /\ \/ UNCHANGED files
               \/ \E value \in Tokens \cup Unreadables : /\ stage[c] \in WriteStages
                                                         /\ files' = Written(here[c], Target(c), value)
               \/ files' = Written(here[c], "name", Call(c).name) /\ stage[c] \in WriteStages
               \/ \E f \in FileNames : /\ files' = Written(here[c], f, None)
                                       /\ here[c] \in Dirs
                                       /\ here[k] # here[c] \/ Target(k) # f
<1>1. StateTypes /\ \A j \in fd : stage[j] = "fill"
  BY HasStateTypes DEF FilesPlaced
<1>2. CASE CreateFile(c)
  <2>1. CASE Return(c, "error")
    BY <1>1, <1>2, <2>1 DEF CreateFile, Return, Goto, StateTypes
  <2>2. CASE ~Return(c, "error")
    <3>1. /\ stage[c] = "create" /\ here[c] \in dirs /\ stage'[c] = "fill" /\ UNCHANGED <<at, here>>
          /\ files' = Written(here[c], Target(c), "empty") /\ k \in fd \cup {c} /\ c \notin fd
      BY <1>1, <1>2, <2>2 DEF CreateFile, Goto, StateTypes, Written
    <3>2. "empty" \in Tokens \cup Unreadables
      BY DEF Unreadables
    <3> QED
      BY <1>2, <3>1, <3>2 DEF WriteStages
  <2> QED
    BY <2>1, <2>2
<1>3. CASE FillFile(c)
  <2>1. k \in fd /\ k # c /\ stage[c] \in WriteStages
    BY <1>3 DEF FillFile, WriteStages
  <2>2. Call(c).new.tok \in Tokens /\ "garbled" \in Unreadables
    BY <2>1, WriterPlace DEF Unreadables
  <2>3. UNCHANGED files \/ \E content \in {Call(c).new.tok, "garbled"} :
                              files' = Written(here[c], Target(c), content)
    BY <1>3 DEF FillFile, Written
  <2> QED
    BY <2>1, <2>2, <2>3
<1>4. CASE UnlinkPending(c)
  <2>1. stage[c] = "unlinkPending" /\ here[c] \in Dirs /\ "pending" \in FileNames /\ c \notin fd
    BY <1>1, <1>4, WriterPlace DEF UnlinkPending, WriteStages, FileNames, NoFiles
  <2>2. CASE UNCHANGED <<files, fd>>
    BY <2>1, <2>2
  <2>3. CASE Unlink(here[c], "pending")
    BY <2>1, <2>3 DEF Unlink, Written
  <2> QED
    BY <1>4, <2>2, <2>3 DEF UnlinkPending
<1>5. CASE WriteName(c)
  BY <1>1, <1>5 DEF WriteName, Written, diskVars, WriteStages
<1>6. CASE UnlinkFile(c)
  <2>1. stage[c] = "unlink" /\ here[c] \in Dirs /\ todo[c] \subseteq FileNames /\ c \notin fd
    BY <1>1, <1>6 DEF UnlinkFile, TypeInv, Placed
  <2>2. \E f \in FileNames : Unlink(here[c], f)
    BY <1>6, <2>1 DEF UnlinkFile
  <2> QED
    BY <2>1, <2>2 DEF Unlink, Written
<1>7. CASE UNCHANGED <<files, fd>> /\ stage[c] # "fill"
  BY <1>1, <1>7
<1>8. CASE Begin(c)
  BY <1>7, <1>8, BeginCases
<1>9. CASE StatPaid(c) \/ StatPending(c) \/ ReadToken(c) \/ RemoveDir(c)
           \/ NextDir(c) \/ ReadName(c) \/ RemoveNext(c)
  BY <1>7, <1>9 DEF StatPaid, StatPending, ReadToken, RemoveDir, NextDir, ReadName,
                    RemoveNext, diskVars
<1> QED
  BY <1>2, <1>3, <1>4, <1>5, <1>6, <1>8, <1>9 DEF ClientStep

LEMMA FilesPlacedStep ==
  ASSUME NameInv, FilesPlaced, NEW c \in Clients, ClientStep(c), Observe, UNCHANGED program
  PROVE  FilesPlaced'
<1>1. TypeInv /\ StateTypes /\ files \in FileTypes
  BY HasStateTypes DEF NameInv, StateTypes
<1>2. {"empty", "garbled"} \subseteq Unreadables /\ None \notin Tokens \cup Unreadables
      /\ {"paid", "pending", "name"} = FileNames
  BY TokenFilesAssumption DEF Unreadables, FileNames, NoFiles
<1>3. ASSUME NEW f \in FileNames, here[c] \in Dirs, files[here[c]] = NoFiles
      PROVE  Written(here[c], f, None)[here[c]] = NoFiles
  BY <1>1, <1>2, <1>3 DEF Written, NoFiles, FileTypes
<1>4. ASSUME NEW dir \in Dirs, files'[dir] # NoFiles
      PROVE  dir \in dirs'
  <2>1. files[dir] # NoFiles => dir \in dirs
    BY DEF FilesPlaced
  <2>2. CASE UNCHANGED files
    <3>1. dirs \subseteq dirs' \/ (RemoveDir(c) /\ dirs \ dirs' \subseteq {here[c]}
                                   /\ (dirs' # dirs => files[here[c]] = NoFiles))
      <4>1. CASE Begin(c)
        BY <1>1, <4>1, BeginCases DEF BeginsLookup, BeginsRemoval, BeginsListing
      <4> QED
        BY <4>1 DEF ClientStep, StatPaid, StatPending, ReadToken, CreateFile, FillFile,
             UnlinkPending, WriteName, UnlinkFile, RemoveDir, NextDir, ReadName, RemoveNext,
             diskVars, Held
    <3> QED
      BY <1>4, <2>1, <2>2, <3>1
  <2>3. CASE dir = here[c]
    <3>1. CASE stage[c] = "create" /\ here[c] \in dirs /\ UNCHANGED dirs
      BY <2>3, <3>1
    <3>2. CASE stage[c] = "fill" /\ c \in fd /\ UNCHANGED dirs
      <4>1. files[dir][Target(c)] # None /\ Target(c) \in FileNames
        BY <1>1, <1>2, <2>3, <3>2, WriterPlace DEF FilesPlaced, WriteStages
      <4>2. files[dir] # NoFiles
        BY <1>2, <4>1 DEF NoFiles
      <4> QED
        BY <2>1, <3>2, <4>2
    <3>3. CASE UNCHANGED dirs /\ \E f \in FileNames : files' = Written(here[c], f, None)
      BY <1>3, <1>4, <2>1, <2>3, <3>3
    <3>4. CASE dirs' = dirs \cup {here[c]}
      BY <2>3, <3>4
    <3>5. stage[c] = "unlink" => todo[c] \subseteq FileNames
      BY <1>1 DEF TypeInv, Placed
    <3> QED
      BY <1>1, <1>2, <2>2, <3>1, <3>2, <3>3, <3>4, <3>5, FileSteps
  <2>4. CASE dir # here[c] /\ ~UNCHANGED files
    <3>1. files'[dir] = files[dir]
      BY <1>1, <2>4, FileSteps DEF Written, FileTypes
    <3>2. dirs \subseteq dirs'
      BY <1>1, <2>4, FileSteps
    <3> QED
      BY <1>4, <2>1, <3>1, <3>2
  <2> QED
    BY <2>2, <2>3, <2>4
<1>5. ASSUME NEW k \in fd'
      PROVE  stage'[k] = "fill" /\ files'[here'[k]][Target(k)'] # None
  <2>1. CASE /\ k = c /\ CreateFile(c) /\ stage'[c] = "fill" /\ UNCHANGED <<at, here>>
             /\ files' = Written(here[c], Target(c), "empty")
    <3>1. Target(c)' = Target(c)
      BY <2>1 DEF Target, Call
    <3>2. here[c] \in Dirs /\ Target(c) \in {"paid", "pending"}
      BY <1>1, <2>1, WriterPlace DEF CreateFile, WriteStages
    <3>3. files'[here[c]][Target(c)] = "empty"
      BY <1>1, <1>2, <2>1, <3>2, WrittenTypes
    <3> QED
      BY <1>2, <2>1, <3>1, <3>3
  <2>2. CASE k \in fd /\ k # c
    <3>1. stage'[k] = stage[k] /\ here'[k] = here[k] /\ Target(k)' = Target(k) /\ k \in Clients
      <4>1. k \in Clients
        BY <1>1, <2>2 DEF StateTypes
      <4> QED
        BY <1>1, <2>2, <4>1, OthersKept DEF Target, Call
    <3>2. /\ stage[k] = "fill" /\ files[here[k]][Target(k)] # None
          /\ here[k] \in Dirs /\ Target(k) \in {"paid", "pending"}
      <4>1. stage[k] = "fill" /\ files[here[k]][Target(k)] # None
        BY <2>2 DEF FilesPlaced
      <4> QED
        BY <1>1, <3>1, <4>1, WriterPlace DEF WriteStages
    <3>3. ASSUME NEW dir \in Dirs, NEW f \in {"paid", "pending"},
                 NEW value \in Tokens \cup Unreadables \cup {None},
                 files' = Written(dir, f, value), value # None \/ dir # here[k] \/ f # Target(k)
          PROVE  files'[here[k]][Target(k)] # None
      <4>1. Target(k) \in FileNames
        BY <1>2, <3>2
      <4> QED
        BY <1>1, <3>2, <3>3, <4>1, WrittenTypes
    <3>4. ASSUME NEW dir \in Dirs, NEW value \in Domains \cup {None},
                 files' = Written(dir, "name", value)
          PROVE  files'[here[k]][Target(k)] # None
      BY <1>1, <3>2, <3>4, NamedTypes
    <3>5. stage[c] \in WriteStages =>
            here[c] \in Dirs /\ Target(c) \in {"paid", "pending"} /\ Call(c).name \in Domains
      BY <1>1, WriterPlace
    <3>6. files'[here[k]][Target(k)] # None
      <4>1. \/ UNCHANGED files
            \/ \E value \in Tokens \cup Unreadables : /\ stage[c] \in WriteStages
                                                      /\ files' = Written(here[c], Target(c), value)
            \/ files' = Written(here[c], "name", Call(c).name) /\ stage[c] \in WriteStages
            \/ \E f \in FileNames : /\ files' = Written(here[c], f, None)
                                    /\ here[c] \in Dirs
                                    /\ here[k] # here[c] \/ Target(k) # f
        BY <1>1, <2>2, OpenFiles
      <4>2. CASE \E value \in Tokens \cup Unreadables : /\ stage[c] \in WriteStages
                                                        /\ files' = Written(here[c], Target(c), value)
        BY <1>2, <3>3, <3>5, <4>2
      <4>3. CASE \E f \in FileNames : /\ files' = Written(here[c], f, None)
                                      /\ here[c] \in Dirs
                                      /\ here[k] # here[c] \/ Target(k) # f
        BY <1>2, <3>3, <3>4, <4>3
      <4> QED
        BY <3>2, <3>4, <3>5, <4>1, <4>2, <4>3
    <3> QED
      BY <3>1, <3>2, <3>6
  <2> QED
    BY <1>1, <2>1, <2>2, OpenFiles
<1> QED
  BY <1>4, <1>5 DEF FilesPlaced

LEMMA InitHistory == Init => HistoryInv
<1> SUFFICES ASSUME Init PROVE HistoryInv
  OBVIOUS
<1>1. NameInv
  BY InitNames
<1>2. FilesPlaced
  BY DEF Init, FilesPlaced
<1>3. \A c \in Clients : WriteAllowed(c) /\ Witnessed(c)
  BY DEF Init, WriteAllowed, Witnessed, Working
<1> QED
  BY <1>1, <1>2, <1>3 DEF HistoryInv, StoreInv

\* Looking and asking for names leaves the files alone.
LEMMA LookKeepsFiles ==
  ASSUME NEW c \in Clients,
         StatPaid(c) \/ StatPending(c) \/ ReadToken(c) \/ NextDir(c) \/ ReadName(c) \/ RemoveNext(c)
  PROVE  UNCHANGED files
BY DEF StatPaid, StatPending, ReadToken, NextDir, ReadName, RemoveNext, diskVars

\* A client goes on to the pending token from these steps only.
LEMMA LooksFurther ==
  ASSUME TypeInv, NEW c \in Clients, ClientStep(c),
         stage'[c] \in {"statPending", "readPending"}
  PROVE  /\ UNCHANGED <<files, here>>
         /\ \/ stage[c] = "statPaid" /\ files[here[c]].paid = None
            \/ stage[c] = "statPending"
<1>1. StateTypes
  BY HasStateTypes
<1>2. ASSUME NEW s, stage' = [stage EXCEPT ![c] = s] PROVE stage'[c] = s
  BY <1>1, <1>2 DEF StateTypes
<1>3. ASSUME NEW value, Return(c, value) PROVE FALSE
  BY <1>2, <1>3 DEF Return, Goto
<1>4. ASSUME NEW token, Found(c, token), stage[c] \in LookStages PROVE FALSE
  <2>1. Op(c) \in {"get", "store", "list", "clear"}
    BY <1>4 DEF TypeInv, Placed
  <2> QED
    BY <1>2, <1>3, <1>4, <2>1 DEF Found, Goto, Op
<1>5. ASSUME Unreadable(c) PROVE FALSE
  BY <1>2, <1>3, <1>5 DEF Unreadable, Goto
<1>6. CASE StatPaid(c)
  BY <1>2, <1>6 DEF StatPaid, Goto, Held, diskVars
<1>7. CASE StatPending(c)
  BY <1>7 DEF StatPending, diskVars
<1>8. CASE ReadToken(c)
  BY <1>4, <1>5, <1>8 DEF ReadToken, LookStages
<1>9. CASE Begin(c)
  BY <1>2, <1>9, BeginCases DEF BeginsLookup, BeginsRemoval, BeginsListing, Goto
<1>10. CASE CreateFile(c) \/ FillFile(c) \/ UnlinkPending(c) \/ WriteName(c)
  BY <1>2, <1>3, <1>10 DEF CreateFile, FillFile, UnlinkPending, WriteName, Goto
<1>11. CASE UnlinkFile(c) \/ RemoveDir(c)
  BY <1>2, <1>3, <1>11 DEF UnlinkFile, RemoveDir, Removed, Goto
<1>12. CASE NextDir(c) \/ ReadName(c) \/ RemoveNext(c)
  BY <1>2, <1>3, <1>12 DEF NextDir, ReadName, RemoveNext, Goto
<1> QED
  BY <1>6, <1>7, <1>8, <1>9, <1>10, <1>11, <1>12 DEF ClientStep

\* After a step every call under way has the present in its history.
LEMMA PresentSeen ==
  ASSUME TypeInv, NEW c \in Clients, ClientStep(c), Observe, NEW k \in Clients, Working(k)'
  PROVE  \A dir \in Dirs : Credential(files'[dir]) \in since'[k][dir]
<1>1. stage[k] # "end"
  <2>1. stage[c] # "end"
    BY DEF ClientStep, Begin, StatPaid, StatPending, ReadToken, CreateFile, FillFile,
           UnlinkPending, WriteName, UnlinkFile, RemoveDir, NextDir, ReadName, RemoveNext
  <2>2. k # c => stage'[k] = stage[k]
    BY OthersKept
  <2> QED
    BY <2>1, <2>2 DEF Working
<1>2. CASE Working(k)
  BY <1>2, SinceGrows
<1>3. CASE stage[k] = "idle"
  <2>1. stage'[k] # "idle"
    BY DEF Working
  <2> QED
    BY <1>3, <2>1, SinceGrows
<1> QED
  BY <1>1, <1>2, <1>3 DEF Working

LEMMA HistoryStep ==
  ASSUME HistoryInv, NEW c \in Clients, ClientStep(c), Observe, UNCHANGED program
  PROVE  HistoryInv'
<1>1. TypeInv /\ NameInv /\ FilesPlaced /\ WriterInv
  BY DEF HistoryInv, StoreInv, NameInv, WriterInv
<1>2. WriterInv' /\ NameInv'
  BY <1>1, WritersStep DEF WriterInv
<1>3. FilesPlaced'
  BY <1>1, FilesPlacedStep
<1>4. ASSUME NEW k \in Clients, Working(k)'
      PROVE  \A dir \in Dirs : Credential(files'[dir]) \in since'[k][dir]
  BY <1>1, <1>4, PresentSeen
<1>5. ASSUME NEW k \in Clients, stage'[k] \in {"statPending", "readPending"}
      PROVE  None \in since'[k][here'[k]]
  <2>1. ASSUME stage[k] \in {"statPending", "readPending"}, here'[k] = here[k]
        PROVE  None \in since'[k][here'[k]]
    <3>1. None \in since[k][here[k]] /\ Working(k) /\ here[k] \in Dirs
      BY <1>1, <2>1 DEF HistoryInv, Witnessed, Working, TypeInv, Placed, LookStages
    <3> QED
      BY <1>1, <2>1, <3>1, SinceGrows
  <2>2. CASE k # c
    BY <1>1, <1>5, <2>1, <2>2, OthersKept
  <2>3. CASE k = c
    <3>1. /\ UNCHANGED <<files, here>>
          /\ \/ stage[c] = "statPaid" /\ files[here[c]].paid = None
             \/ stage[c] = "statPending"
      BY <1>1, <1>5, <2>3, LooksFurther
    <3>2. CASE stage[c] = "statPaid" /\ files[here[c]].paid = None
      <4>1. Credential(files'[here'[c]]) = None
        BY <3>1, <3>2 DEF Credential
      <4>2. here'[c] \in Dirs
        BY <1>1, <3>1, <3>2 DEF TypeInv, Placed, LookStages
      <4>3. Working(k)'
        BY <1>5 DEF Working
      <4> QED
        BY <1>4, <2>3, <4>1, <4>2, <4>3
    <3> QED
      BY <2>1, <2>3, <3>1, <3>2
  <2> QED
    BY <2>2, <2>3
<1>6. \A k \in Clients : Witnessed(k)'
  BY <1>4, <1>5 DEF Witnessed
<1> QED
  BY <1>2, <1>3, <1>6 DEF HistoryInv, StoreInv, WriterInv

LEMMA HistoryStutter ==
  ASSUME HistoryInv, UNCHANGED vars
  PROVE  HistoryInv'
<1>1. NameInv'
  BY NamesStutter DEF HistoryInv, StoreInv
<1> USE DEF vars, diskVars, clientVars, HistoryInv, StoreInv
<1>2. FilesPlaced'
  BY DEF FilesPlaced, Target, Call
<1>3. \A k \in Clients : WriteAllowed(k)'
  BY DEF WriteAllowed, Call
<1>4. \A k \in Clients : Witnessed(k)'
  BY DEF Witnessed, Working
<1> QED
  BY <1>1, <1>2, <1>3, <1>4

----
(* How calls end.                                                          *)

\* A call ends with one of these steps.
LEMMA CallEnds ==
  ASSUME TypeInv, NEW c \in Clients, ClientStep(c), stage'[c] \in {"idle", "end"}
  PROVE  /\ at[c] \in 1 .. Len(program[c]) /\ Working(c)
         /\ \/ stage'[c] = "idle" /\ at'[c] = at[c] + 1
            \/ stage'[c] = "end" /\ at'[c] = at[c]
         /\ \/ StatPending(c) /\ Found(c, NoToken) /\ Op(c) \in {"get", "store"}
            \/ ReadToken(c) /\ (Op(c) = "list" => result'[c] = "error")
                            /\ Op(c) # "clear"
            \/ Op(c) \in {"store", "remove"}
            \/ NextDir(c) /\ todo[c] = {} /\ UNCHANGED listed /\ result'[c] = "listed"
            \/ RemoveNext(c) /\ listed[c] = {} /\ UNCHANGED listed
               /\ result'[c] = IF result[c] = "error" THEN "error" ELSE "cleared"
<1>1. StateTypes
  BY HasStateTypes
<1>2. ASSUME NEW s, stage' = [stage EXCEPT ![c] = s] PROVE stage'[c] = s
  BY <1>1, <1>2 DEF StateTypes
<1>3. ASSUME NEW value, Return(c, value)
      PROVE  /\ result'[c] = value
             /\ \/ stage'[c] = "idle" /\ at'[c] = at[c] + 1
                \/ stage'[c] = "end" /\ at'[c] = at[c]
  BY <1>1, <1>3 DEF Return, Goto, StateTypes
<1>4. ASSUME stage[c] # "idle" PROVE at[c] \in 1 .. Len(program[c])
  BY <1>4 DEF TypeInv, Placed
<1>5. CASE Begin(c)
  BY <1>2, <1>5, BeginCases DEF BeginsLookup, BeginsRemoval, BeginsListing, Goto
<1>6. CASE StatPaid(c)
  BY <1>2, <1>6 DEF StatPaid, Goto
<1>7. ASSUME NEW token \in Entry, Found(c, token), stage[c] \in LookStages
      PROVE  /\ Op(c) \in {"get", "store"}
             /\ \/ stage'[c] = "idle" /\ at'[c] = at[c] + 1
                \/ stage'[c] = "end" /\ at'[c] = at[c]
  <2>1. at[c] \in 1 .. Len(program[c])
    BY <1>4, <1>7 DEF LookStages
  <2> QED
    BY <1>7, <2>1, FoundTypes
<1>8. ASSUME Unreadable(c), stage[c] \in LookStages
      PROVE  /\ Op(c) # "clear"
             /\ Op(c) = "list" => result'[c] = "error"
             /\ \/ stage'[c] = "idle" /\ at'[c] = at[c] + 1
                \/ stage'[c] = "end" /\ at'[c] = at[c]
  <2>1. at[c] \in 1 .. Len(program[c])
    BY <1>4, <1>8 DEF LookStages
  <2> QED
    BY <1>8, <2>1, UnreadableTypes
<1>9. CASE StatPending(c)
  <2>1. stage[c] = "statPending" /\ stage[c] \in LookStages /\ NoToken \in Entry
    BY <1>9 DEF StatPending, LookStages, Entry
  <2>2. Found(c, NoToken)
    BY <1>2, <1>9 DEF StatPending, Goto
  <2> QED
    BY <1>4, <1>7, <1>9, <2>1, <2>2 DEF Working
<1>10. CASE ReadToken(c)
  <2>1. stage[c] \in {"readPaid", "readPending"} /\ stage[c] \in LookStages
    BY <1>10 DEF ReadToken, LookStages
  <2>2. Unreadable(c) \/ \E token \in Entry : Found(c, token)
    BY <1>10 DEF ReadToken, Entry, Paid, Pending
  <2> QED
    BY <1>4, <1>7, <1>8, <1>10, <2>1, <2>2 DEF Working
<1>11. CASE CreateFile(c) \/ FillFile(c) \/ UnlinkPending(c) \/ WriteName(c)
  <2>1. stage[c] \in WriteStages
    BY <1>11 DEF CreateFile, FillFile, UnlinkPending, WriteName, WriteStages
  <2>2. Op(c) = "store" /\ stage[c] # "idle" /\ stage[c] # "end"
    BY <2>1, WriterPlace DEF WriteStages
  <2>3. \E value : Return(c, value)
    BY <1>2, <1>11 DEF CreateFile, FillFile, UnlinkPending, WriteName, Goto
  <2> QED
    BY <1>3, <1>4, <2>2, <2>3 DEF Working
<1>12. CASE UnlinkFile(c)
  BY <1>12 DEF UnlinkFile
<1>13. CASE RemoveDir(c)
  <2>1. stage[c] = "unlink" /\ Op(c) \in {"remove", "clear"}
    BY <1>13 DEF RemoveDir, TypeInv, Placed
  <2>2. \E outcome \in {"removed", "error"} : Removed(c, outcome)
    BY <1>13 DEF RemoveDir
  <2>3. Op(c) = "remove" /\ \E value : Return(c, value)
    BY <1>2, <2>1, <2>2 DEF Removed, Goto, Op
  <2> QED
    BY <1>3, <1>4, <2>1, <2>3 DEF Working
<1>14. CASE NextDir(c)
  <2>1. stage[c] = "nextDir" /\ UNCHANGED listed
    BY <1>14 DEF NextDir
  <2>2. todo[c] = {} /\ Return(c, "listed")
    BY <1>2, <1>14 DEF NextDir, Goto
  <2> QED
    BY <1>3, <1>4, <1>14, <2>1, <2>2 DEF Working
<1>15. CASE ReadName(c)
  BY <1>2, <1>15 DEF ReadName, Goto
<1>16. CASE RemoveNext(c)
  <2>1. stage[c] = "removeNext"
    BY <1>16 DEF RemoveNext
  <2>2. listed[c] = {} /\ UNCHANGED listed /\ Return(c, IF result[c] = "error" THEN "error" ELSE "cleared")
    BY <1>2, <1>16 DEF RemoveNext, Goto
  <2> QED
    BY <1>3, <1>4, <1>16, <2>1, <2>2 DEF Working
<1> QED
  BY <1>5, <1>6, <1>9, <1>10, <1>11, <1>12, <1>13, <1>14, <1>15, <1>16 DEF ClientStep

\* The call that a client has finished after a step is the one that the step
\* ends, or it had finished it before.
LEMMA JustFinished ==
  ASSUME TypeInv, NEW c \in Clients, ClientStep(c), Observe, UNCHANGED program,
         NEW k \in Clients, NEW op, Finished(k, op)'
  PROVE  \/ k # c /\ Finished(k, op) /\ since'[k] = since[k]
         \/ k = c /\ Op(c) = op /\ stage'[c] \in {"idle", "end"}
<1>1. CASE k # c
  <2>1. at'[k] = at[k] /\ stage'[k] = stage[k] /\ program'[k] = program[k]
    BY <1>1, OthersKept
  <2>2. Finished(k, op)
    BY <2>1 DEF Finished
  <2>3. since'[k] = since[k]
    BY <2>1, <2>2, SinceGrows DEF Finished
  <2> QED
    BY <1>1, <2>2, <2>3
<1>2. CASE k = c
  <2>1. stage'[c] \in {"idle", "end"}
    BY <1>2 DEF Finished
  <2>2. /\ at[c] \in 1 .. Len(program[c]) /\ at[c] \in Nat
        /\ \/ stage'[c] = "idle" /\ at'[c] = at[c] + 1
           \/ stage'[c] = "end" /\ at'[c] = at[c]
    BY <2>1, CallEnds DEF TypeInv, ClientsTyped
  <2>3. (IF stage'[c] = "end" THEN at'[c] ELSE at'[c] - 1) = at[c]
    BY <2>2
  <2>4. program[c][at[c]].op = op
    BY <1>2, <2>3 DEF Finished
  <2> QED
    BY <1>2, <2>1, <2>4 DEF Op, Call
<1> QED
  BY <1>1, <1>2

----
(* Lookups.                                                                *)

LEMMA LookupStep ==
  ASSUME LookupInv, NEW c \in Clients, ClientStep(c), Observe, UNCHANGED program
  PROVE  LookupInv'
<1>1. HistoryInv /\ TypeInv /\ StateTypes
  BY HasStateTypes DEF LookupInv, HistoryInv, StoreInv, NameInv
<1>2. HistoryInv'
  BY <1>1, HistoryStep
<1>3. ASSUME NEW k \in Clients, Finished(k, "get")'
      PROVE  result'[k] \in since'[k][here'[k]]
  <2>1. CASE k # c /\ Finished(k, "get") /\ since'[k] = since[k]
    <3>1. result'[k] = result[k] /\ here'[k] = here[k]
      BY <1>1, <2>1, OthersKept
    <3> QED
      BY <2>1, <3>1 DEF LookupInv, LookupsAtomic
  <2>2. CASE k = c /\ Op(c) = "get" /\ stage'[c] \in {"idle", "end"}
    <3>1. (StatPending(c) /\ Found(c, NoToken)) \/ ReadToken(c)
      <4>1. ~NextDir(c) /\ ~RemoveNext(c)
        BY <1>1, <2>2 DEF NextDir, RemoveNext, TypeInv, Placed, ListStages
      <4> QED
        BY <1>1, <2>2, <4>1, CallEnds
    <3>2. /\ stage[c] \in {"statPending", "readPaid", "readPending"} /\ here[c] \in Dirs
          /\ UNCHANGED <<files, here>> /\ Working(c)
      BY <1>1, <3>1 DEF StatPending, ReadToken, diskVars, TypeInv, Placed, LookStages, Working
    <3>3. ASSUME NEW token, Found(c, token)
          PROVE  result'[c] = IF token.paid THEN token.tok ELSE None
      BY <1>1, <2>2, <3>3 DEF Found, Return, Op, StateTypes
    <3>4. ASSUME Unreadable(c) PROVE result'[c] = None
      BY <1>1, <2>2, <3>4 DEF Unreadable, Return, Op, StateTypes
    <3>5. Credential(files'[here[c]]) \in since'[c][here[c]]
      BY <1>1, <3>2, SinceGrows
    <3>6. CASE stage[c] = "readPaid"
      <4>1. result'[c] = Credential(files[here[c]])
        <5>1. ReadToken(c)
          BY <3>1, <3>6 DEF StatPending
        <5>2. CASE Held(c).paid \in Tokens
          BY <3>3, <3>6, <5>1, <5>2 DEF ReadToken, Paid, Credential, Held
        <5>3. CASE Held(c).paid \notin Tokens
          BY <3>4, <3>6, <5>1, <5>3 DEF ReadToken, Credential, Held
        <5> QED
          BY <5>2, <5>3
      <4> QED
        BY <2>2, <3>2, <3>5, <4>1
    <3>7. CASE stage[c] \in {"statPending", "readPending"}
      <4>1. result'[c] = None
        <5>1. CASE Found(c, NoToken)
          BY <3>3, <5>1 DEF NoToken
        <5>2. CASE ReadToken(c)
          BY <3>3, <3>4, <3>7, <5>2 DEF ReadToken, Pending
        <5> QED
          BY <3>1, <5>1, <5>2
      <4>2. None \in since[c][here[c]]
        BY <1>1, <3>7 DEF HistoryInv, Witnessed
      <4>3. None \in since'[c][here[c]]
        BY <1>1, <3>2, <4>2, SinceGrows
      <4> QED
        BY <2>2, <3>2, <4>1, <4>3
    <3> QED
      BY <3>2, <3>6, <3>7
  <2> QED
    BY <1>1, <1>3, <2>1, <2>2, JustFinished
<1> QED
  BY <1>2, <1>3 DEF LookupInv, LookupsAtomic

\* Without a lock GetToken behaves as a single step: what it returns the
\* directory had while it ran, whoever stores and removes tokens meanwhile.
THEOREM LookupsAreAtomic == Spec => []LookupsAtomic
<1>1. Init => LookupInv
  BY InitHistory DEF LookupInv, LookupsAtomic, Finished, Init
<1>2. LookupInv /\ [Next]_vars => LookupInv'
  <2>1. LookupInv /\ UNCHANGED vars => LookupInv'
    BY HistoryStutter DEF LookupInv, LookupsAtomic, Finished, vars, diskVars, clientVars
  <2> QED
    BY <2>1, LookupStep DEF Next
<1>3. LookupInv => LookupsAtomic
  BY DEF LookupInv
<1> QED
  BY <1>1, <1>2, <1>3, PTL DEF Spec

----
(* Listings and clears.                                                    *)

\* A token that a call has always seen in a directory is there before and
\* after each of its steps.
LEMMA AlwaysThere ==
  ASSUME HistoryInv, Observe, NEW k \in Clients, Working(k),
         NEW dir \in Dirs, NEW t \in Tokens, since'[k][dir] = {t}
  PROVE  /\ since[k][dir] = {t}
         /\ files[dir].paid = t /\ files'[dir].paid = t
<1>1. since'[k][dir] = since[k][dir] \cup {Credential(files'[dir])}
  BY SinceGrows DEF HistoryInv, StoreInv, NameInv
<1>2. Credential(files[dir]) \in since[k][dir]
  BY DEF HistoryInv, Witnessed
<1>3. since[k][dir] = {t} /\ Credential(files[dir]) = t /\ Credential(files'[dir]) = t
  BY <1>1, <1>2
<1>4. None \notin Tokens
  BY TokenFilesAssumption
<1> QED
  BY <1>3, <1>4 DEF Credential

\* What a listing has left to see, step by step.
LEMMA ListsAllStep ==
  ASSUME HistoryInv, NEW c \in Clients, ClientStep(c), Observe, UNCHANGED program,
         ListsAll(c)
  PROVE  ListsAll(c)'
<1>1. TypeInv /\ StateTypes
  BY HasStateTypes DEF HistoryInv, StoreInv, NameInv
<1> SUFFICES ASSUME stage'[c] \in LookStages \cup ListStages, Op(c)' \in {"list", "clear"},
                    NEW dir \in Dirs, NEW t \in Tokens, since'[c][dir] = {t}
             PROVE  Seen(c, dir, t)'
  BY DEF ListsAll
<1>2. ASSUME NEW s, stage' = [stage EXCEPT ![c] = s] PROVE stage'[c] = s
  BY <1>1, <1>2 DEF StateTypes
<1>3. stage'[c] \notin {"idle", "end"}
  BY DEF LookStages, ListStages
<1>4. ASSUME NEW value, Return(c, value) PROVE FALSE
  BY <1>2, <1>3, <1>4 DEF Return, Goto
<1>5. UNCHANGED at => Op(c)' = Op(c)
  BY DEF Op, Call
<1>6. None \notin Tokens
  BY TokenFilesAssumption
<1>7. CASE Begin(c)
  <2>1. stage[c] = "idle" /\ UNCHANGED <<files, at>> /\ BeginsListing(c)
    BY <1>1, <1>5, <1>7, BeginCases
       DEF BeginsLookup, BeginsRemoval, Goto, StateTypes, LookStages, ListStages
  <2>2. Credential(files[dir]) = t
    BY <1>1, <1>3, <2>1, SinceGrows
  <2>3. files[dir].paid # None
    BY <1>6, <2>2 DEF Credential
  <2>4. dir \in dirs
    BY <2>3 DEF HistoryInv, StoreInv, FilesPlaced, NoFiles
  <2>5. dir \in todo'[c]
    BY <1>1, <2>1, <2>4 DEF BeginsListing, StateTypes
  <2> QED
    BY <2>5 DEF Seen
<1>8. ASSUME ~Begin(c), UNCHANGED at, stage[c] \in LookStages \cup ListStages
      PROVE  /\ Seen(c, dir, t) /\ files[dir].paid = t
             /\ Op(c) \in {"list", "clear"}
  <2>1. Working(c)
    BY <1>8 DEF Working, LookStages, ListStages
  <2> QED
    BY <1>5, <1>8, <2>1, AlwaysThere DEF ListsAll
<1>9. CASE StatPaid(c)
  <2>1. /\ stage[c] = "statPaid" /\ UNCHANGED <<at, here, todo, current, listed>>
        /\ files[here[c]].paid # None => stage'[c] = "readPaid"
    BY <1>2, <1>9 DEF StatPaid, Goto, Held
  <2>2. Seen(c, dir, t) /\ files[dir].paid = t
    BY <1>8, <2>1 DEF Begin, LookStages
  <2> QED
    BY <1>6, <2>1, <2>2 DEF Seen
<1>10. ASSUME NEW token \in Entry, Found(c, token), stage[c] \in LookStages,
              UNCHANGED <<here, todo, listed>>, stage[c] \in {"statPending", "readPending"}
                                                 \/ (dir = here[c] => token = Paid(t))
       PROVE  Seen(c, dir, t)'
  <2>1. at[c] \in 1 .. Len(program[c])
    BY <1>1, <1>10 DEF TypeInv, Placed, LookStages
  <2>2. /\ UNCHANGED at /\ current' = [current EXCEPT ![c] = token]
        /\ \/ stage'[c] = "create"
           \/ stage'[c] = IF token = NoToken THEN "nextDir" ELSE "readName"
    BY <1>1, <1>3, <1>10, <2>1, FoundTypes
  <2>3. current'[c] = token
    BY <1>1, <2>2 DEF StateTypes
  <2>4. Seen(c, dir, t)
    BY <1>8, <1>10, <2>2 DEF Begin, LookStages
  <2>5. CASE \/ \E row \in listed[c] : row.dir = dir /\ row.token = Paid(t)
             \/ dir \in todo[c]
    BY <1>10, <2>5 DEF Seen
  <2>6. CASE dir = here[c] /\ stage[c] \in {"statPaid", "readPaid"}
    <3>1. token = Paid(t) /\ token # NoToken
      BY <1>10, <2>6 DEF Paid, NoToken
    <3>2. stage'[c] = "readName"
      BY <2>2, <3>1 DEF LookStages, ListStages
    <3> QED
      BY <1>10, <2>3, <2>6, <3>1, <3>2 DEF Seen
  <2> QED
    BY <1>10, <2>4, <2>5, <2>6 DEF Seen, LookStages
<1>11. ASSUME Unreadable(c), stage[c] \in LookStages, UNCHANGED <<here, todo, listed>>,
              stage[c] = "readPending" \/ dir # here[c]
       PROVE  Seen(c, dir, t)'
  <2>1. at[c] \in 1 .. Len(program[c])
    BY <1>1, <1>11 DEF TypeInv, Placed, LookStages
  <2>2. UNCHANGED at
    BY <1>1, <1>3, <1>11, <2>1, UnreadableTypes
  <2>3. Seen(c, dir, t)
    BY <1>8, <1>11, <2>2 DEF Begin, LookStages
  <2> QED
    BY <1>11, <2>3 DEF Seen, LookStages
<1>12. CASE StatPending(c)
  <2>1. stage[c] = "statPending" /\ stage[c] \in LookStages /\ UNCHANGED <<here, todo, listed>>
    BY <1>12 DEF StatPending, LookStages
  <2>2. CASE Goto(c, "readPending") /\ UNCHANGED <<at, current, result>>
    <3>1. Seen(c, dir, t)
      BY <1>8, <2>1, <2>2 DEF Begin
    <3> QED
      BY <2>1, <2>2, <3>1 DEF Seen
  <2>3. CASE Found(c, NoToken)
    BY <1>10, <2>1, <2>3 DEF Entry
  <2> QED
    BY <1>12, <2>2, <2>3 DEF StatPending
<1>13. CASE ReadToken(c)
  <2>1. /\ stage[c] \in {"readPaid", "readPending"} /\ stage[c] \in LookStages
        /\ UNCHANGED <<here, todo, listed>>
    BY <1>13 DEF ReadToken, LookStages
  <2>2. \A x \in Tokens : Paid(x) \in Entry /\ Pending(x) \in Entry
    BY DEF Paid, Pending, Entry
  <2>3. CASE stage[c] = "readPending"
    BY <1>10, <1>11, <1>13, <2>1, <2>2, <2>3 DEF ReadToken
  <2>4. CASE stage[c] = "readPaid"
    <3>1. files[dir].paid = t
      BY <2>1, AlwaysThere DEF Working, LookStages
    <3>2. CASE Held(c).paid \in Tokens
      <4>1. Found(c, Paid(Held(c).paid)) /\ Paid(Held(c).paid) \in Entry
        BY <1>13, <2>2, <2>4, <3>2 DEF ReadToken
      <4>2. dir = here[c] => Paid(Held(c).paid) = Paid(t)
        BY <3>1 DEF Held
      <4> QED
        BY <1>10, <2>1, <4>1, <4>2
    <3>3. CASE Held(c).paid \notin Tokens
      <4>1. Unreadable(c) /\ dir # here[c]
        BY <1>13, <2>4, <3>1, <3>3 DEF ReadToken, Held
      <4> QED
        BY <1>11, <2>1, <4>1
    <3> QED
      BY <3>2, <3>3
  <2> QED
    BY <2>1, <2>3, <2>4
<1>14. CASE NextDir(c)
  <2>1. stage[c] = "nextDir" /\ UNCHANGED <<current, listed>>
    BY <1>14 DEF NextDir
  <2>2. ~Goto(c, "removeNext")
    BY <1>2 DEF Goto, LookStages, ListStages
  <2>3. PICK d \in todo[c] :
          /\ here' = [here EXCEPT ![c] = d]
          /\ todo' = [todo EXCEPT ![c] = @ \ {d}]
          /\ Goto(c, "statPaid")
          /\ UNCHANGED at
    BY <1>4, <1>14, <2>2 DEF NextDir
  <2>4. here'[c] = d /\ todo'[c] = todo[c] \ {d} /\ stage'[c] = "statPaid"
    BY <1>1, <1>2, <2>3 DEF StateTypes, Goto
  <2>5. Seen(c, dir, t)
    BY <1>8, <2>1, <2>3 DEF Begin, ListStages
  <2> QED
    BY <2>1, <2>4, <2>5 DEF Seen
<1>15. CASE ReadName(c)
  <2>1. /\ stage[c] = "readName" /\ UNCHANGED <<at, here, todo, current>>
        /\ listed' = [listed EXCEPT ![c] = @ \cup
             {[name |-> GetOriginalDomain(here[c]), dir |-> here[c], token |-> current[c]]}]
    BY <1>15 DEF ReadName
  <2>2. listed'[c] = listed[c] \cup
          {[name |-> GetOriginalDomain(here[c]), dir |-> here[c], token |-> current[c]]}
    BY <1>1, <2>1 DEF StateTypes
  <2>3. Seen(c, dir, t)
    BY <1>8, <2>1 DEF Begin, ListStages
  <2>4. CASE dir = here[c] /\ current[c] = Paid(t)
    <3> DEFINE row == [name |-> GetOriginalDomain(here[c]), dir |-> here[c], token |-> current[c]]
    <3>1. row \in listed'[c] /\ row.dir = dir /\ row.token = Paid(t)
      BY <2>2, <2>4
    <3> QED
      BY <3>1 DEF Seen
  <2>5. CASE \/ \E row \in listed[c] : row.dir = dir /\ row.token = Paid(t)
             \/ dir \in todo[c]
    <3>1. listed[c] \subseteq listed'[c] /\ todo'[c] = todo[c]
      BY <2>1, <2>2
    <3> QED
      BY <2>5, <3>1 DEF Seen
  <2> QED
    BY <2>1, <2>3, <2>4, <2>5 DEF Seen
<1>16. CASE CreateFile(c) \/ FillFile(c) \/ UnlinkPending(c) \/ WriteName(c)
  BY <1>2, <1>4, <1>16
     DEF CreateFile, FillFile, UnlinkPending, WriteName, Goto, LookStages, ListStages
<1>17. CASE UnlinkFile(c) \/ RemoveDir(c)
  BY <1>2, <1>4, <1>17 DEF UnlinkFile, RemoveDir, Removed, Goto, LookStages, ListStages
<1>18. CASE RemoveNext(c)
  BY <1>2, <1>4, <1>18 DEF RemoveNext, Goto, LookStages, ListStages
<1> QED
  BY <1>7, <1>9, <1>12, <1>13, <1>14, <1>15, <1>16, <1>17, <1>18 DEF ClientStep

\* What a clear has left to remove, step by step.
LEMMA ClearsAllStep ==
  ASSUME HistoryInv, NEW c \in Clients, ClientStep(c), Observe, UNCHANGED program,
         ListsAll(c), ClearsAll(c)
  PROVE  ClearsAll(c)'
<1>1. TypeInv /\ StateTypes
  BY HasStateTypes DEF HistoryInv, StoreInv, NameInv
<1> SUFFICES ASSUME stage'[c] \in {"unlink", "removeNext"}, Op(c)' = "clear",
                    result'[c] # "error",
                    NEW dir \in Dirs, NEW t \in Tokens, since'[c][dir] = {t}
             PROVE  \/ \E row \in listed'[c] : row.dir = dir
                    \/ stage'[c] = "unlink" /\ dir = here'[c] /\ "paid" \in todo'[c]
  BY DEF ClearsAll
<1>2. ASSUME NEW s, stage' = [stage EXCEPT ![c] = s] PROVE stage'[c] = s
  BY <1>1, <1>2 DEF StateTypes
<1>3. ASSUME NEW value, Return(c, value) PROVE FALSE
  BY <1>2, <1>3 DEF Return, Goto
<1>4. UNCHANGED at => Op(c)' = Op(c)
  BY DEF Op, Call
<1>5. None \notin Tokens
  BY TokenFilesAssumption
<1>6. Working(c) => /\ since[c][dir] = {t} /\ files[dir].paid = t /\ files'[dir].paid = t
  BY AlwaysThere
<1>7. CASE NextDir(c)
  <2>1. stage[c] = "nextDir" /\ UNCHANGED listed
    BY <1>7 DEF NextDir
  <2>2. todo[c] = {} /\ Op(c) = "clear"
    BY <1>2, <1>3, <1>7 DEF NextDir, Goto, Op
  <2>3. since[c][dir] = {t}
    BY <1>6, <2>1 DEF Working
  <2>4. Seen(c, dir, t)
    BY <2>1, <2>2, <2>3 DEF ListsAll, ListStages
  <2> QED
    BY <2>1, <2>2, <2>4 DEF Seen
<1>8. CASE RemoveNext(c)
  <2>1. stage[c] = "removeNext" /\ UNCHANGED files
    BY <1>8 DEF RemoveNext, diskVars
  <2>2. PICK row \in listed[c] :
          /\ listed' = [listed EXCEPT ![c] = @ \ {row}]
          /\ here' = [here EXCEPT ![c] = SanitizeDomain(row.name)]
          /\ todo' = [todo EXCEPT ![c] =
               {f \in DOMAIN NoFiles : files[SanitizeDomain(row.name)][f] # None}]
          /\ Goto(c, "unlink")
          /\ UNCHANGED <<at, result>>
    BY <1>3, <1>8 DEF RemoveNext
  <2>3. SanitizeDomain(row.name) = row.dir
    BY <2>2 DEF HistoryInv, StoreInv, NameInv, ListedNamesLeadBack
  <2>4. /\ listed'[c] = listed[c] \ {row} /\ here'[c] = row.dir /\ stage'[c] = "unlink"
        /\ todo'[c] = {f \in DOMAIN NoFiles : files[row.dir][f] # None}
    BY <1>1, <1>2, <2>2, <2>3 DEF StateTypes, Goto
  <2>5. since[c][dir] = {t} /\ files[dir].paid = t
    BY <1>6, <2>1 DEF Working
  <2>6. \E r \in listed[c] : r.dir = dir
    <3>1. Op(c) = "clear" /\ result[c] # "error"
      BY <1>4, <2>2
    <3> QED
      BY <2>1, <2>5, <3>1 DEF ClearsAll
  <2>7. CASE row.dir = dir
    <3>1. "paid" \in DOMAIN NoFiles /\ files[row.dir]["paid"] # None
      BY <1>5, <2>5, <2>7 DEF NoFiles
    <3> QED
      BY <2>4, <2>7, <3>1
  <2>8. CASE row.dir # dir
    BY <2>4, <2>6, <2>8
  <2> QED
    BY <2>7, <2>8
<1>9. CASE UnlinkFile(c)
  <2>1. PICK f \in todo[c] : Unlink(here[c], f) /\ todo' = [todo EXCEPT ![c] = @ \ {f}]
    BY <1>9 DEF UnlinkFile
  <2>2. /\ stage[c] = "unlink" /\ here[c] \in Dirs
        /\ UNCHANGED <<at, stage, here, result, listed>>
    BY <1>1, <1>9 DEF UnlinkFile, TypeInv, Placed
  <2>3. since[c][dir] = {t} /\ files'[dir].paid = t
    BY <1>6, <2>2 DEF Working
  <2>4. \/ \E row \in listed[c] : row.dir = dir
        \/ dir = here[c] /\ "paid" \in todo[c]
    <3>1. Op(c) = "clear" /\ result[c] # "error"
      BY <1>4, <2>2
    <3> QED
      BY <2>2, <2>3, <3>1 DEF ClearsAll
  <2>5. todo'[c] = todo[c] \ {f}
    BY <1>1, <2>1 DEF StateTypes
  <2>6. dir = here[c] => f # "paid"
    <3> SUFFICES ASSUME dir = here[c], f = "paid" PROVE FALSE
      OBVIOUS
    <3>1. files' = Written(dir, "paid", None)
      BY <2>1 DEF Unlink, Written
    <3>2. files'[dir].paid = None
      BY <1>1, <3>1, WrittenTypes DEF StateTypes
    <3> QED
      BY <1>5, <2>3, <3>2
  <2> QED
    BY <2>2, <2>4, <2>5, <2>6
<1>10. CASE RemoveDir(c)
  <2>1. stage[c] = "unlink" /\ UNCHANGED <<here, listed>>
    BY <1>10 DEF RemoveDir
  <2>2. Op(c) = "clear" /\ UNCHANGED at
    BY <1>3, <1>4, <1>10 DEF RemoveDir, Removed, Op
  <2>3. ~Removed(c, "error")
    BY <1>1, <2>2 DEF Removed, StateTypes, Op
  <2>4. todo[c] = {} /\ Removed(c, "removed")
    BY <1>10, <2>3 DEF RemoveDir
  <2>5. result'[c] = result[c]
    BY <1>1, <2>2, <2>4 DEF Removed, StateTypes, Op
  <2>6. since[c][dir] = {t}
    BY <1>6, <2>1 DEF Working
  <2> QED
    BY <2>1, <2>2, <2>4, <2>5, <2>6 DEF ClearsAll
<1>11. CASE Begin(c)
  BY <1>1, <1>2, <1>4, <1>11, BeginCases
     DEF BeginsLookup, BeginsRemoval, BeginsListing, Goto
<1>12. CASE StatPaid(c) \/ StatPending(c) \/ ReadToken(c)
  <2>1. stage[c] \in LookStages
    BY <1>12 DEF StatPaid, StatPending, ReadToken, LookStages
  <2>2. Op(c) \in {"get", "store", "list", "clear"}
    BY <1>1, <2>1 DEF TypeInv, Placed
  <2>3. ASSUME NEW token, Found(c, token) PROVE FALSE
    BY <1>2, <1>3, <2>2, <2>3 DEF Found, Goto, Op
  <2>4. ASSUME Unreadable(c) PROVE FALSE
    BY <1>2, <1>3, <2>4 DEF Unreadable, Goto
  <2> QED
    BY <1>2, <1>12, <2>3, <2>4 DEF StatPaid, StatPending, ReadToken, Goto
<1>13. CASE CreateFile(c) \/ FillFile(c) \/ UnlinkPending(c) \/ WriteName(c)
  BY <1>2, <1>3, <1>13 DEF CreateFile, FillFile, UnlinkPending, WriteName, Goto
<1>14. CASE ReadName(c)
  BY <1>2, <1>14 DEF ReadName, Goto
<1> QED
  BY <1>7, <1>8, <1>9, <1>10, <1>11, <1>12, <1>13, <1>14 DEF ClientStep

\* The steps of the others leave both alone.
LEMMA OthersListed ==
  ASSUME HistoryInv, NEW c \in Clients, ClientStep(c), Observe, UNCHANGED program,
         NEW k \in Clients, k # c, ListsAll(k), ClearsAll(k)
  PROVE  ListsAll(k)' /\ ClearsAll(k)'
<1>1. TypeInv
  BY DEF HistoryInv, StoreInv, NameInv
<1>2. /\ stage'[k] = stage[k] /\ here'[k] = here[k] /\ todo'[k] = todo[k]
      /\ current'[k] = current[k] /\ result'[k] = result[k] /\ listed'[k] = listed[k]
      /\ Op(k)' = Op(k)
  BY <1>1, OthersKept DEF Op, Call
<1>3. ASSUME NEW dir \in Dirs, NEW t \in Tokens, since'[k][dir] = {t}, Working(k)
      PROVE  since[k][dir] = {t}
  BY <1>3, AlwaysThere
<1>4. \A dir \in Dirs, t \in Tokens : Seen(k, dir, t) => Seen(k, dir, t)'
  BY <1>2 DEF Seen
<1>5. stage[k] \in LookStages \cup ListStages \cup {"unlink", "removeNext"} => Working(k)
  BY DEF Working, LookStages, ListStages
<1>6. ListsAll(k)'
  BY <1>2, <1>3, <1>4, <1>5 DEF ListsAll
<1>7. ClearsAll(k)'
  BY <1>2, <1>3, <1>5 DEF ClearsAll
<1> QED
  BY <1>6, <1>7

LEMMA ListingStep ==
  ASSUME ListingInv, NEW c \in Clients, ClientStep(c), Observe, UNCHANGED program
  PROVE  ListingInv'
<1>1. HistoryInv /\ TypeInv /\ ListsAll(c) /\ ClearsAll(c)
  BY DEF ListingInv, HistoryInv, StoreInv, NameInv
<1>2. HistoryInv'
  BY <1>1, HistoryStep
<1>3. \A k \in Clients : ListsAll(k)' /\ ClearsAll(k)'
  BY <1>1, ListsAllStep, ClearsAllStep, OthersListed DEF ListingInv
<1>4. ASSUME NEW k \in Clients, k # c
      PROVE  result'[k] = result[k] /\ listed'[k] = listed[k]
  BY <1>1, <1>4, OthersKept
<1>5. ASSUME NEW k \in Clients, Finished(k, "list")', result'[k] = "listed",
             NEW dir \in Dirs, NEW t \in Tokens, since'[k][dir] = {t}
      PROVE  \E row \in listed'[k] : row.dir = dir /\ row.token = Paid(t)
  <2>1. CASE k # c /\ Finished(k, "list") /\ since'[k] = since[k]
    BY <1>4, <1>5, <2>1 DEF ListingInv, ListingComplete
  <2>2. CASE k = c /\ Op(c) = "list" /\ stage'[c] \in {"idle", "end"}
    <3>1. Working(c) /\ NextDir(c) /\ todo[c] = {} /\ UNCHANGED listed
      BY <1>1, <1>5, <2>2, CallEnds
    <3>2. stage[c] = "nextDir"
      BY <3>1 DEF NextDir
    <3>3. since[c][dir] = {t}
      BY <1>1, <1>5, <2>2, <3>1, AlwaysThere
    <3>4. Seen(c, dir, t)
      BY <1>1, <2>2, <3>2, <3>3 DEF ListsAll, ListStages
    <3> QED
      BY <2>2, <3>1, <3>2, <3>4 DEF Seen
  <2> QED
    BY <1>1, <1>5, <2>1, <2>2, JustFinished
<1>6. ASSUME NEW k \in Clients, Finished(k, "clear")', result'[k] = "cleared",
             NEW dir \in Dirs, NEW t \in Tokens, since'[k][dir] = {t}
      PROVE  FALSE
  <2>1. CASE k # c /\ Finished(k, "clear") /\ since'[k] = since[k]
    BY <1>4, <1>6, <2>1 DEF ListingInv, ClearedAll
  <2>2. CASE k = c /\ Op(c) = "clear" /\ stage'[c] \in {"idle", "end"}
    <3>1. Working(c) /\ RemoveNext(c) /\ listed[c] = {} /\ result[c] # "error"
      BY <1>1, <1>6, <2>2, CallEnds
    <3>2. stage[c] = "removeNext"
      BY <3>1 DEF RemoveNext
    <3>3. since[c][dir] = {t}
      BY <1>1, <1>6, <2>2, <3>1, AlwaysThere
    <3> QED
      BY <1>1, <2>2, <3>1, <3>2, <3>3 DEF ClearsAll
  <2> QED
    BY <1>1, <1>6, <2>1, <2>2, JustFinished
<1>7. ListingComplete' /\ ClearedAll'
  BY <1>5, <1>6 DEF ListingComplete, ClearedAll
<1> QED
  BY <1>2, <1>3, <1>7 DEF ListingInv

LEMMA ListingInvariant == Spec => []ListingInv
<1>1. Init => ListingInv
  <2>1. Init => ListingComplete /\ ClearedAll
    BY DEF Init, ListingComplete, ClearedAll, Finished
  <2>2. Init => \A c \in Clients : ListsAll(c) /\ ClearsAll(c)
    BY DEF Init, ListsAll, ClearsAll, LookStages, ListStages
  <2> QED
    BY <2>1, <2>2, InitHistory DEF ListingInv
<1>2. ListingInv /\ [Next]_vars => ListingInv'
  <2>1. ListingInv /\ UNCHANGED vars => ListingInv'
    <3> SUFFICES ASSUME ListingInv, UNCHANGED vars PROVE ListingInv'
      OBVIOUS
    <3>1. HistoryInv'
      BY HistoryStutter DEF ListingInv
    <3> USE DEF vars, diskVars, clientVars
    <3>2. ListingComplete' /\ ClearedAll'
      BY DEF ListingInv, ListingComplete, ClearedAll, Finished
    <3>3. \A c \in Clients : ListsAll(c)' /\ ClearsAll(c)'
      BY DEF ListingInv, ListsAll, ClearsAll, Seen, Op, Call
    <3> QED
      BY <3>1, <3>2, <3>3 DEF ListingInv
  <2> QED
    BY <2>1, ListingStep DEF Next
<1> QED
  BY <1>1, <1>2, PTL DEF Spec

\* A listing misses no token that was there all the time, whatever the other
\* clients store and remove while it goes from directory to directory.
THEOREM ListingsComplete == Spec => []ListingComplete
<1>1. ListingInv => ListingComplete
  BY DEF ListingInv
<1> QED
  BY <1>1, ListingInvariant, PTL

\* And a clear that reports no failure has removed every such token.
THEOREM ClearsComplete == Spec => []ClearedAll
<1>1. ListingInv => ClearedAll
  BY DEF ListingInv
<1> QED
  BY <1>1, ListingInvariant, PTL
====
