---- MODULE DownloadsProofs ----
(***************************************************************************)
(* Theorems about Downloads, for any number of processes, output files,    *)
(* chunks and versions, and for any faults.                                *)
(***************************************************************************)
EXTENDS Downloads, SequenceTheorems, TLAPS

Active(p) == transfer[p].stage # "off"

\* While a body is received it is of a version the server has had.
ReceivingStages == {"answered", "copying", "done"}

VersionKnown ==
  \A p \in Terminals : transfer[p].stage \in ReceivingStages =>
    transfer[p].version \in 1..MaxVersion /\ transfer[p].next \in 1..(Size + 1)

TypeInv == DownloadsTypeOK /\ VersionKnown

\* Two downloads of one path at the same time are on record.
SharingRecorded ==
  \A p, q \in Terminals :
    p # q /\ Active(p) /\ Active(q) /\ transfer[p].path = transfer[q].path
    /\ transfer[p].path \in Paths => transfer[p].path \in mixed

\* A download that has its path to itself and where it is in the file.
Alone(p) == Active(p) /\ transfer[p].path \in Paths \ mixed

OfOneVersion(p) ==
  transfer[p].status = 200 =>
    \A i \in DOMAIN file[transfer[p].path] :
      file[transfer[p].path][i].version = transfer[p].version

Aligned(p) ==
  LET t == transfer[p]
      n == Len(file[t.path]) IN
  /\ t.stage = "asking" => t.range \in {0, n}
  /\ t.stage = "answered" => t.next = IF t.status = 206 THEN n + 1 ELSE 1
  /\ t.stage \in {"copying", "done"} => t.next = n + 1 /\ OfOneVersion(p)
  /\ t.stage = "done" => t.next = Size + 1

TransfersAligned == \A p \in Terminals : Alone(p) => Aligned(p)

\* A chunk is put in its place because the file is as long as the download
\* believes it to be, and nobody else writes to it.
FileInv == TypeInv /\ SharingRecorded /\ TransfersAligned /\ FileInOrder

----
LEMMA ChunkType ==
  /\ Hole \in Chunks
  /\ \A v \in 1..MaxVersion, i \in 1..Size : Chunk(v, i) \in Chunks
BY DEF Chunks

\* What a write leaves of a sequence of chunks.
LEMMA WrittenSeq ==
  ASSUME NEW content \in Seq(Chunks), NEW i \in Nat \ {0}, NEW chunk \in Chunks
  PROVE  /\ Written(content, i, chunk) \in Seq(Chunks)
         /\ i = Len(content) + 1 =>
              /\ Len(Written(content, i, chunk)) = Len(content) + 1
              /\ Written(content, i, chunk)[i] = chunk
              /\ \A k \in 1..Len(content) : Written(content, i, chunk)[k] = content[k]
<1> DEFINE n == IF i > Len(content) THEN i ELSE Len(content)
           w == [k \in 1..n |-> IF k = i THEN chunk
                                ELSE IF k <= Len(content) THEN content[k] ELSE Hole]
<1>1. Len(content) \in Nat /\ n \in Nat
  OBVIOUS
<1>2. \A k \in 1..n : w[k] \in Chunks
  BY ChunkType, <1>1
<1>3. w \in [1..n -> Chunks]
  BY <1>2
<1>4. w \in Seq(Chunks)
  <2> HIDE DEF n, w
  <2>1. w \in UNION {[1..m -> Chunks] : m \in Nat}
    BY <1>1, <1>3
  <2> QED
    BY <2>1, SeqDef
<1>5. Len(w) = n
  BY <1>1, <1>3, <1>4
<1>6. Written(content, i, chunk) = w
  BY DEF Written
<1>7. i = Len(content) + 1 => n = i
  BY <1>1
<1>8. QED
  BY <1>1, <1>4, <1>5, <1>6, <1>7

LEMMA InitFile == DownloadsInit => FileInv
<1> SUFFICES ASSUME DownloadsInit PROVE FileInv
  OBVIOUS
<1>1. DownloadsTypeOK
  BY DownloadsAssumption DEF DownloadsInit, DownloadsTypeOK, NoTransfer
<1>2. VersionKnown /\ SharingRecorded /\ TransfersAligned
  BY DEF DownloadsInit, VersionKnown, SharingRecorded, TransfersAligned, Alone, Active,
         NoTransfer, ReceivingStages
<1>3. FileInOrder
  BY DEF DownloadsInit, FileInOrder
<1>4. QED
  BY <1>1, <1>2, <1>3 DEF FileInv, TypeInv
----
(* Types.                                                                  *)

TransferStates ==
  [stage : {"off", "asking", "answered", "copying", "done", "cut", "failed"}, path : Paths \cup {None},
   range : Nat, status : {0, 200, 206, 404}, version : 0..MaxVersion,
   next : 0..(Size + 1), touched : BOOLEAN]

\* A step of a download leaves its record well-typed, and the others alone.
LEMMA TransferType ==
  ASSUME TypeInv, NEW p \in Terminals, NEW t \in TransferStates,
         t.stage \in ReceivingStages => t.version \in 1..MaxVersion /\ t.next \in 1..(Size + 1),
         transfer' = [transfer EXCEPT ![p] = t],
         version' = version,
         file' \in [Paths -> Seq(Chunks)],
         mixed' \subseteq Paths
  PROVE  TypeInv'
<1>1. transfer' \in [Terminals -> TransferStates]
  BY DEF TypeInv, DownloadsTypeOK, TransferStates
<1>2. DownloadsTypeOK'
  BY <1>1 DEF TypeInv, DownloadsTypeOK, TransferStates
<1>3. VersionKnown'
  <2> SUFFICES ASSUME NEW q \in Terminals, transfer'[q].stage \in ReceivingStages
               PROVE  transfer'[q].version \in 1..MaxVersion /\ transfer'[q].next \in 1..(Size + 1)
    BY DEF VersionKnown
  <2>1. transfer'[q] = IF q = p THEN t ELSE transfer[q]
    BY DEF TypeInv, DownloadsTypeOK
  <2>2. QED
    BY <2>1 DEF TypeInv, VersionKnown
<1>4. QED
  BY <1>2, <1>3 DEF TypeInv

\* What the fields of a record become when some of them change.
LEMMA StageUpdate ==
  ASSUME NEW t \in TransferStates, NEW stage \in {"copying", "done", "cut", "failed"}
  PROVE  /\ [t EXCEPT !.stage = stage] \in TransferStates
         /\ [t EXCEPT !.stage = stage].stage = stage
         /\ [t EXCEPT !.stage = stage].path = t.path
         /\ [t EXCEPT !.stage = stage].status = t.status
         /\ [t EXCEPT !.stage = stage].version = t.version
         /\ [t EXCEPT !.stage = stage].next = t.next
BY DEF TransferStates

LEMMA OpenUpdate ==
  ASSUME NEW t \in TransferStates
  PROVE  LET u == [t EXCEPT !.stage = "copying", !.touched = TRUE] IN
         /\ u \in TransferStates
         /\ u.stage = "copying"
         /\ u.path = t.path
         /\ u.status = t.status
         /\ u.version = t.version
         /\ u.next = t.next
BY DEF TransferStates

LEMMA NextUpdate ==
  ASSUME NEW t \in TransferStates, NEW n \in 0..(Size + 1)
  PROVE  /\ [t EXCEPT !.next = n] \in TransferStates
         /\ [t EXCEPT !.next = n].stage = t.stage
         /\ [t EXCEPT !.next = n].path = t.path
         /\ [t EXCEPT !.next = n].status = t.status
         /\ [t EXCEPT !.next = n].version = t.version
         /\ [t EXCEPT !.next = n].next = n
BY DEF TransferStates

Replied(t, status, v, first) ==
  [t EXCEPT !.stage = "answered", !.status = status, !.version = v, !.next = first]

LEMMA ReplyUpdate ==
  ASSUME NEW t \in TransferStates, NEW status \in {200, 206, 404},
         NEW v \in 0..MaxVersion, NEW first \in 0..(Size + 1)
  PROVE  /\ Replied(t, status, v, first) \in TransferStates
         /\ Replied(t, status, v, first).stage = "answered"
         /\ Replied(t, status, v, first).path = t.path
         /\ Replied(t, status, v, first).status = status
         /\ Replied(t, status, v, first).version = v
         /\ Replied(t, status, v, first).next = first
<1> DEFINE a == [t EXCEPT !.stage = "answered"]
           b == [a EXCEPT !.status = status]
           c == [b EXCEPT !.version = v]
           d == [c EXCEPT !.next = first]
<1>1. a \in TransferStates /\ a.stage = "answered" /\ a.path = t.path
  BY DEF TransferStates
<1> HIDE DEF a
<1>2. /\ b \in TransferStates /\ b.stage = "answered" /\ b.path = t.path
      /\ b.status = status
  BY <1>1 DEF TransferStates
<1> HIDE DEF b
<1>3. /\ c \in TransferStates /\ c.stage = "answered" /\ c.path = t.path
      /\ c.status = status /\ c.version = v
  BY <1>2 DEF TransferStates
<1> HIDE DEF c
<1>4. /\ d \in TransferStates /\ d.stage = "answered" /\ d.path = t.path
      /\ d.status = status /\ d.version = v /\ d.next = first
  BY <1>3 DEF TransferStates
<1>5. QED
  BY <1>4 DEF Replied, a, b, c

Asking(path, range) ==
  [NoTransfer EXCEPT !.stage = "asking", !.path = path, !.range = range]

LEMMA AskUpdate ==
  ASSUME NEW path \in Paths \cup {None}, NEW range \in Nat
  PROVE  /\ Asking(path, range) \in TransferStates
         /\ Asking(path, range).stage = "asking"
         /\ Asking(path, range).path = path
         /\ Asking(path, range).range = range
<1>1. NoTransfer \in TransferStates
  BY DownloadsAssumption DEF NoTransfer, TransferStates
<1>2. QED
  BY <1>1 DEF TransferStates, Asking

\* What a reply may be: how much of the resource it starts after.
LEMMA Replies ==
  ASSUME TypeInv, NEW p \in Terminals, Respond(p)
  PROVE  \E status \in {200, 206, 404}, first \in 1..(Size + 1) :
           /\ Reply(p, status, first)
           /\ status # 206 => first = 1
           /\ status = 206 => transfer[p].range # 0 /\ first = transfer[p].range + 1
<1>1. transfer[p].range \in Nat /\ Size \in Nat \ {0}
  BY DownloadsAssumption DEF TypeInv, DownloadsTypeOK
<1>2. CASE Reply(p, 200, 1)
  BY <1>1, <1>2
<1>3. CASE transfer[p].range \in 1..(Size - 1) /\ Reply(p, 206, transfer[p].range + 1)
  <2>1. transfer[p].range + 1 \in 1..(Size + 1) /\ transfer[p].range # 0
    BY <1>1, <1>3
  <2>2. QED
    BY <1>3, <2>1
<1>4. CASE Reply(p, 404, 1)
  BY <1>1, <1>4
<1>5. QED
  BY <1>2, <1>3, <1>4 DEF Respond

\* What a step of the copy writes, and where.
Offset(t) == IF t.status = 206 THEN Len(file[t.path]) + 1 ELSE t.next

LEMMA CopiedFile ==
  ASSUME NEW p \in Terminals, CopyChunk(p)
  PROVE  LET t == transfer[p] IN
         file' = IF t.path = None THEN file
                 ELSE [file EXCEPT ![t.path] =
                         Written(file[t.path], Offset(t), Chunk(t.version, t.next))]
BY DEF CopyChunk, Offset

LEMMA CopiedType ==
  ASSUME TypeInv, NEW p \in Terminals, CopyChunk(p)
  PROVE  file' \in [Paths -> Seq(Chunks)]
<1> DEFINE t == transfer[p]
           c == Chunk(t.version, t.next)
           w == Written(file[t.path], Offset(t), c)
<1>1. /\ file \in [Paths -> Seq(Chunks)]
      /\ t.path \in Paths \cup {None}
      /\ t.stage = "copying" /\ t.next <= Size /\ Size \in Nat
      /\ t.version \in 1..MaxVersion /\ t.next \in 1..(Size + 1)
  BY DownloadsAssumption DEF TypeInv, DownloadsTypeOK, VersionKnown, ReceivingStages, CopyChunk
<1>2. t.next \in 1..Size
  BY <1>1
<1>3. c \in Chunks
  BY <1>1, <1>2, ChunkType
<1>4. ASSUME t.path \in Paths
      PROVE  w \in Seq(Chunks)
  <2>1. file[t.path] \in Seq(Chunks)
    BY <1>1, <1>4
  <2>2. Offset(t) \in Nat \ {0}
    BY <1>2, <2>1 DEF Offset
  <2> HIDE DEF c
  <2>3. QED
    BY <2>1, <2>2, <1>3, WrittenSeq
<1>5. file' = IF t.path = None THEN file ELSE [file EXCEPT ![t.path] = w]
  BY CopiedFile
<1> HIDE DEF w, t
<1>6. QED
  BY <1>1, <1>4, <1>5

LEMMA TypeStep ==
  ASSUME TypeInv, NEW p \in Terminals,
         \/ \E path \in Paths \cup {None}, resume \in BOOLEAN : Ask(p, path, resume)
         \/ Respond(p)
         \/ DownloadStep(p)
         \/ Close(p)
  PROVE  TypeInv'
<1> DEFINE t == transfer[p]
<1>a. /\ transfer \in [Terminals -> TransferStates]
      /\ t \in TransferStates
      /\ version \in 1..MaxVersion
      /\ file \in [Paths -> Seq(Chunks)]
      /\ mixed \subseteq Paths
      /\ t.stage \in ReceivingStages => t.version \in 1..MaxVersion /\ t.next \in 1..(Size + 1)
  BY DEF TypeInv, DownloadsTypeOK, VersionKnown, TransferStates
<1>b. Size \in Nat \ {0} /\ MaxVersion \in Nat \ {0}
  BY DownloadsAssumption
<1>1. CASE \E path \in Paths \cup {None}, resume \in BOOLEAN : Ask(p, path, resume)
  <2>1. PICK path \in Paths \cup {None}, resume \in BOOLEAN : Ask(p, path, resume)
    BY <1>1
  <2> DEFINE range == IF resume /\ path # None THEN Len(file[path]) ELSE 0
  <2>2. range \in Nat
    BY <1>a
  <2>3. transfer' = [transfer EXCEPT ![p] = Asking(path, range)]
    BY <2>1 DEF Ask, Asking
  <2>4. mixed' \subseteq Paths /\ version' = version /\ file' = file
    BY <2>1, <1>a DEF Ask
  <2> HIDE DEF range
  <2>5. Asking(path, range) \in TransferStates /\ Asking(path, range).stage \notin ReceivingStages
    BY <2>2, AskUpdate DEF ReceivingStages
  <2>6. QED
    BY <2>3, <2>4, <2>5, <1>a, TransferType
<1>2. CASE Respond(p)
  <2>1. PICK status \in {200, 206, 404}, first \in 1..(Size + 1) : Reply(p, status, first)
    BY <1>2, Replies
  <2> DEFINE u == Replied(t, status, version, first)
  <2>2. transfer' = [transfer EXCEPT ![p] = u]
    BY <2>1, <1>a DEF Reply, Replied
  <2>3. u \in TransferStates /\ u.version \in 1..MaxVersion /\ u.next \in 1..(Size + 1)
    <3>1. version \in 0..MaxVersion /\ first \in 0..(Size + 1)
      BY <1>a, <1>b
    <3>2. u \in TransferStates /\ u.version = version /\ u.next = first
      BY <2>1, <1>a, <3>1, ReplyUpdate
    <3>3. QED
      BY <3>2, <1>a
  <2>4. version' = version /\ file' = file /\ mixed' = mixed
    BY <1>2 DEF Respond
  <2> HIDE DEF u
  <2>5. QED
    BY <2>2, <2>3, <2>4, <1>a, TransferType
<1>3. CASE OpenOutput(p)
  <2> DEFINE u == [t EXCEPT !.stage = "copying", !.touched = TRUE]
             v == [t EXCEPT !.stage = "failed"]
  <2>1. file' \in [Paths -> Seq(Chunks)]
    <3>1. << >> \in Seq(Chunks)
      OBVIOUS
    <3>2. file' = file \/ file' = [file EXCEPT ![t.path] = << >>]
      BY <1>3 DEF OpenOutput
    <3>3. QED
      BY <1>a, <3>1, <3>2
  <2>2. transfer' = [transfer EXCEPT ![p] = u] \/ transfer' = [transfer EXCEPT ![p] = v]
    BY <1>3, <1>a DEF OpenOutput, Stage
  <2>3. /\ u \in TransferStates /\ u.version = t.version /\ u.next = t.next
        /\ v \in TransferStates /\ v.version = t.version /\ v.next = t.next
    BY <1>a, StageUpdate, OpenUpdate
  <2>4. t.stage \in ReceivingStages /\ version' = version /\ mixed' = mixed
    BY <1>3 DEF OpenOutput, ReceivingStages
  <2> HIDE DEF u, v
  <2>5. QED
    BY <2>1, <2>2, <2>3, <2>4, <1>a, TransferType
<1>4. CASE RefuseStatus(p) \/ PrintBody(p) \/ CopyDone(p) \/ CopyFails(p)
  <2>1. PICK stage \in {"copying", "done", "cut", "failed"} : Stage(p, stage)
    BY <1>4 DEF RefuseStatus, PrintBody, CopyDone, CopyFails
  <2> DEFINE u == [t EXCEPT !.stage = stage]
  <2>2. u \in TransferStates /\ u.version = t.version /\ u.next = t.next
    <3>1. t \in TransferStates
      BY <1>a
    <3> HIDE DEF t
    <3>2. QED
      BY <2>1, <3>1, StageUpdate
  <2>3. transfer' = [transfer EXCEPT ![p] = u]
    BY <2>1, <1>a DEF Stage
  <2>4. t.stage \in ReceivingStages /\ version' = version /\ file' = file /\ mixed' = mixed
    BY <1>4 DEF RefuseStatus, PrintBody, CopyDone, CopyFails, ReceivingStages
  <2> HIDE DEF u
  <2>5. QED
    BY <2>2, <2>3, <2>4, <1>a, TransferType
<1>5. CASE CopyChunk(p)
  <2> DEFINE n == t.next + 1
             u == [t EXCEPT !.next = n]
  <2>1. t.stage \in ReceivingStages /\ n \in 1..(Size + 1)
    BY <1>5, <1>a, <1>b DEF CopyChunk, ReceivingStages
  <2>2. transfer' = [transfer EXCEPT ![p] = u]
    BY <1>5, <1>a DEF CopyChunk
  <2> HIDE DEF n
  <2>3. u \in TransferStates /\ u.version = t.version /\ u.next = n
    <3>1. n \in 0..(Size + 1)
      BY <2>1
    <3>2. QED
      BY <3>1, <1>a, NextUpdate
  <2>4. version' = version /\ mixed' = mixed
    BY <1>5 DEF CopyChunk
  <2> HIDE DEF u
  <2>5. QED
    BY <2>1, <2>2, <2>3, <2>4, <1>5, <1>a, TransferType, CopiedType
<1>6. CASE Close(p)
  <2>1. NoTransfer \in TransferStates /\ NoTransfer.stage \notin ReceivingStages
    BY <1>b DEF NoTransfer, TransferStates, ReceivingStages
  <2>2. QED
    BY <1>6, <2>1, <1>a, TransferType DEF Close
<1>7. QED
  BY <1>1, <1>2, <1>3, <1>4, <1>5, <1>6 DEF DownloadStep

LEMMA TypeNext ==
  ASSUME TypeInv, [DownloadsNext]_downloadVars
  PROVE  TypeInv'
<1>1. CASE ChangeResource
  BY <1>1, DownloadsAssumption DEF ChangeResource, TypeInv, DownloadsTypeOK, VersionKnown
<1>2. CASE UNCHANGED downloadVars
  BY <1>2 DEF downloadVars, TypeInv, DownloadsTypeOK, VersionKnown
<1>3. QED
  BY <1>1, <1>2, TypeStep DEF DownloadsNext

\* Every reachable state of the downloads and their files is well-typed, for any
\* number of processes, paths, chunks and versions.
THEOREM TypeCorrect == DownloadsSpec => []DownloadsTypeOK
<1>1. DownloadsInit => TypeInv
  BY InitFile DEF FileInv
<1>2. TypeInv => DownloadsTypeOK
  BY DEF TypeInv
<1>3. QED
  BY <1>1, <1>2, TypeNext, PTL DEF DownloadsSpec
----
(* Files.                                                                  *)

InOrder(content) == \A i \in DOMAIN content : content[i].index = i

\* A step of a download leaves the paths of the others alone, so that what it
\* does to its own is all there is to look at.
LEMMA OthersKeep ==
  ASSUME FileInv, NEW p \in Terminals, NEW u \in TransferStates, Active(p),
         transfer' = [transfer EXCEPT ![p] = u], u.path = transfer[p].path,
         mixed' = mixed,
         \A path \in Paths : path # transfer[p].path => file'[path] = file[path],
         Alone(p) => Aligned(p)' /\ InOrder(file'[transfer[p].path])
  PROVE  SharingRecorded' /\ TransfersAligned' /\ FileInOrder'
<1>1. \A q \in Terminals : transfer'[q] = IF q = p THEN u ELSE transfer[q]
  BY DEF FileInv, TypeInv, DownloadsTypeOK
<1>2. SharingRecorded'
  BY <1>1 DEF FileInv, SharingRecorded, Active
<1>3. ASSUME NEW q \in Terminals, Alone(q)'
      PROVE  Aligned(q)'
  <2>1. CASE q = p
    <3>1. Alone(p)
      BY <1>1, <1>3, <2>1 DEF Alone
    <3>2. QED
      BY <2>1, <3>1
  <2>2. CASE q # p
    <3>1. transfer'[q] = transfer[q] /\ Alone(q)
      BY <1>1, <1>3, <2>2 DEF Alone, Active
    <3>2. transfer[q].path # transfer[p].path
      BY <2>2, <3>1 DEF FileInv, SharingRecorded, Alone
    <3>3. file'[transfer[q].path] = file[transfer[q].path]
      BY <3>1, <3>2 DEF Alone
    <3>4. Aligned(q)
      BY <3>1 DEF FileInv, TransfersAligned
    <3>5. QED
      BY <3>1, <3>3, <3>4 DEF Aligned, OfOneVersion
  <2>3. QED
    BY <2>1, <2>2
<1>4. ASSUME NEW path \in Paths \ mixed
      PROVE  InOrder(file'[path])
  <2>1. CASE path = transfer[p].path
    BY <1>4, <2>1 DEF Alone
  <2>2. CASE path # transfer[p].path
    BY <1>4, <2>2 DEF FileInv, FileInOrder, InOrder
  <2>3. QED
    BY <2>1, <2>2
<1>5. QED
  BY <1>2, <1>3, <1>4 DEF TransfersAligned, FileInOrder, InOrder

\* A new download is told apart from those that have the path already.
LEMMA AskKeeps ==
  ASSUME FileInv, NEW p \in Terminals, NEW path \in Paths \cup {None},
         NEW resume \in BOOLEAN, Ask(p, path, resume)
  PROVE  SharingRecorded' /\ TransfersAligned' /\ FileInOrder'
<1> DEFINE range == IF resume /\ path # None THEN Len(file[path]) ELSE 0
           u     == Asking(path, range)
<1>1. \A q \in Terminals : transfer'[q] = IF q = p THEN u ELSE transfer[q]
  BY DEF FileInv, TypeInv, DownloadsTypeOK, Ask, Asking
<1>2. u.stage = "asking" /\ u.path = path /\ u.range = range
  <2>1. range \in Nat
    BY DEF FileInv, TypeInv, DownloadsTypeOK
  <2> HIDE DEF range
  <2>2. QED
    BY <2>1, AskUpdate
<1>3. file' = file /\ ~Active(p) /\ mixed' = mixed \cup ({path} \cap InUse \cap Paths)
  BY DEF Ask, Active
<1> HIDE DEF u
<1>4. SharingRecorded'
  <2> SUFFICES ASSUME NEW q \in Terminals, NEW r \in Terminals, q # r, Active(q)', Active(r)',
                      transfer'[q].path = transfer'[r].path, transfer'[q].path \in Paths
               PROVE  transfer'[q].path \in mixed'
    BY DEF SharingRecorded
  <2>1. CASE q # p /\ r # p
    BY <1>1, <1>3, <2>1 DEF FileInv, SharingRecorded, Active
  <2>2. CASE q = p
    <3>1. transfer[r].path = path /\ Active(r) /\ path \in Paths
      BY <1>1, <1>2, <2>2 DEF Active
    <3>2. path \in InUse
      BY <3>1 DEF InUse, Active
    <3>3. QED
      BY <1>1, <1>2, <1>3, <2>2, <3>1, <3>2
  <2>3. CASE r = p
    <3>1. transfer[q].path = path /\ Active(q) /\ path \in Paths
      BY <1>1, <1>2, <2>3 DEF Active
    <3>2. path \in InUse
      BY <3>1 DEF InUse, Active
    <3>3. QED
      BY <1>1, <1>2, <1>3, <2>3, <3>1, <3>2
  <2>4. QED
    BY <2>1, <2>2, <2>3
<1>5. ASSUME NEW q \in Terminals, Alone(q)'
      PROVE  Aligned(q)'
  <2>1. CASE q = p
    <3>1. path \in Paths
      BY <1>1, <1>2, <1>5, <2>1 DEF Alone
    <3>2. range \in {0, Len(file[path])}
      OBVIOUS
    <3>3. QED
      BY <1>1, <1>2, <1>3, <2>1, <3>2 DEF Aligned
  <2>2. CASE q # p
    <3>1. transfer'[q] = transfer[q] /\ Alone(q)
      BY <1>1, <1>3, <1>5, <2>2 DEF Alone, Active
    <3>2. QED
      BY <1>3, <3>1 DEF FileInv, TransfersAligned, Aligned, OfOneVersion
  <2>3. QED
    BY <2>1, <2>2
<1>6. FileInOrder'
  BY <1>3 DEF FileInv, FileInOrder
<1>7. QED
  BY <1>4, <1>5, <1>6 DEF TransfersAligned

LEMMA CloseKeeps ==
  ASSUME FileInv, NEW p \in Terminals, Close(p)
  PROVE  SharingRecorded' /\ TransfersAligned' /\ FileInOrder'
<1>1. \A q \in Terminals : transfer'[q] = IF q = p THEN NoTransfer ELSE transfer[q]
  BY DEF FileInv, TypeInv, DownloadsTypeOK, Close
<1>2. file' = file /\ mixed' = mixed /\ NoTransfer.stage = "off"
  BY DEF Close, NoTransfer
<1>3. SharingRecorded'
  BY <1>1, <1>2 DEF FileInv, SharingRecorded, Active
<1>4. ASSUME NEW q \in Terminals, Alone(q)'
      PROVE  Aligned(q)'
  <2>1. transfer'[q] = transfer[q] /\ Alone(q)
    BY <1>1, <1>2, <1>4 DEF Alone, Active
  <2>2. QED
    BY <1>2, <2>1 DEF FileInv, TransfersAligned, Aligned, OfOneVersion
<1>5. FileInOrder'
  BY <1>2 DEF FileInv, FileInOrder
<1>6. QED
  BY <1>3, <1>4, <1>5 DEF TransfersAligned

\* The steps of a download that has its path to itself.
LEMMA StepKeeps ==
  ASSUME FileInv, NEW p \in Terminals, Respond(p) \/ DownloadStep(p)
  PROVE  SharingRecorded' /\ TransfersAligned' /\ FileInOrder'
<1> DEFINE t == transfer[p]
           n == Len(file[t.path])
<1>a. /\ transfer \in [Terminals -> TransferStates]
      /\ t \in TransferStates
      /\ version \in 1..MaxVersion
      /\ file \in [Paths -> Seq(Chunks)]
      /\ t.stage \in ReceivingStages => t.version \in 1..MaxVersion /\ t.next \in 1..(Size + 1)
      /\ Size \in Nat \ {0} /\ MaxVersion \in Nat \ {0}
  BY DownloadsAssumption
  DEF FileInv, TypeInv, DownloadsTypeOK, VersionKnown, TransferStates
<1>b. Alone(p) => /\ Aligned(p) /\ InOrder(file[t.path]) /\ t.path \in Paths
                  /\ file[t.path] \in Seq(Chunks) /\ n \in Nat
  BY <1>a DEF FileInv, TransfersAligned, FileInOrder, Alone, InOrder
<1>1. CASE Respond(p)
  <2>1. PICK status \in {200, 206, 404}, first \in 1..(Size + 1) :
          /\ Reply(p, status, first)
          /\ status # 206 => first = 1
          /\ status = 206 => t.range # 0 /\ first = t.range + 1
    BY <1>1, Replies DEF FileInv
  <2> DEFINE u == Replied(t, status, version, first)
  <2>2. transfer' = [transfer EXCEPT ![p] = u]
    BY <2>1 DEF Reply, Replied
  <2>3. /\ u \in TransferStates /\ u.path = t.path /\ u.stage = "answered"
        /\ u.status = status /\ u.next = first
    <3>1. version \in 0..MaxVersion /\ first \in 0..(Size + 1) /\ t \in TransferStates
      BY <1>a, <2>1
    <3> HIDE DEF t
    <3>2. QED
      BY <2>1, <3>1, ReplyUpdate
  <2>4. t.stage = "asking" /\ Active(p) /\ file' = file /\ mixed' = mixed
    BY <1>1 DEF Respond, Active
  <2> HIDE DEF u
  <2>5. transfer'[p] = u
    BY <2>2, <1>a
  <2>6. ASSUME Alone(p)
        PROVE  Aligned(p)' /\ InOrder(file'[t.path])
    <3>1. t.range \in {0, n}
      BY <1>b, <2>4, <2>6 DEF Aligned
    <3>2. first = IF status = 206 THEN n + 1 ELSE 1
      BY <2>1, <3>1
    <3>3. QED
      BY <1>b, <2>3, <2>4, <2>5, <2>6, <3>2 DEF Aligned
  <2>7. QED
    BY <2>2, <2>3, <2>4, <2>6, OthersKeep
<1>2. CASE OpenOutput(p) /\ transfer' # [transfer EXCEPT ![p] = [t EXCEPT !.stage = "failed"]]
  <2> DEFINE u == [t EXCEPT !.stage = "copying", !.touched = TRUE]
  <2>1. transfer' = [transfer EXCEPT ![p] = u]
    BY <1>2, <1>a DEF OpenOutput, Stage
  <2>2. /\ u \in TransferStates /\ u.path = t.path /\ u.stage = "copying"
        /\ u.status = t.status /\ u.next = t.next /\ u.version = t.version
    BY <1>a, OpenUpdate
  <2>3. /\ t.stage = "answered" /\ Active(p) /\ mixed' = mixed
        /\ file' = IF t.status = 206 THEN file ELSE [file EXCEPT ![t.path] = << >>]
    <3>1. t.stage = "answered" /\ Active(p) /\ mixed' = mixed
      BY <1>2 DEF OpenOutput, Active
    <3>2. ~Stage(p, "failed")
      BY <1>2, <1>a DEF Stage
    <3>3. QED
      BY <1>2, <3>1, <3>2 DEF OpenOutput
  <2> HIDE DEF u
  <2>4. transfer'[p] = u
    BY <2>1, <1>a
  <2>5. ASSUME Alone(p)
        PROVE  Aligned(p)' /\ InOrder(file'[t.path])
    <3>1. t.next = IF t.status = 206 THEN n + 1 ELSE 1
      BY <1>b, <2>3, <2>5 DEF Aligned
    <3>2. file'[t.path] = IF t.status = 206 THEN file[t.path] ELSE << >>
      BY <1>a, <1>b, <2>3, <2>5
    <3>3. u.next = Len(file'[t.path]) + 1
      BY <2>2, <3>1, <3>2
    <3>4. InOrder(file'[t.path])
      BY <1>b, <2>5, <3>2 DEF InOrder
    <3>5. u.status = 200 => \A i \in DOMAIN file'[t.path] : file'[t.path][i].version = u.version
      BY <2>2, <3>2
    <3>6. QED
      BY <2>2, <2>4, <3>3, <3>4, <3>5 DEF Aligned, OfOneVersion
  <2>6. \A path \in Paths : path # t.path => file'[path] = file[path]
    BY <1>a, <2>3
  <2>7. QED
    BY <2>1, <2>2, <2>3, <2>5, <2>6, OthersKeep
<1>3. CASE /\ RefuseStatus(p) \/ CopyFails(p) \/ OpenOutput(p)
           /\ \E stage \in {"cut", "failed"} :
                transfer' = [transfer EXCEPT ![p] = [t EXCEPT !.stage = stage]]
           /\ file' = file
  <2>1. PICK stage \in {"cut", "failed"} :
          transfer' = [transfer EXCEPT ![p] = [t EXCEPT !.stage = stage]]
    BY <1>3
  <2> DEFINE u == [t EXCEPT !.stage = stage]
  <2>2. u \in TransferStates /\ u.path = t.path /\ u.stage = stage
    <3>1. stage \in {"copying", "done", "cut", "failed"} /\ t \in TransferStates
      BY <2>1, <1>a
    <3> HIDE DEF t
    <3>2. QED
      BY <3>1, StageUpdate
  <2>3. Active(p) /\ mixed' = mixed
    BY <1>3 DEF RefuseStatus, CopyFails, OpenOutput, Active
  <2> HIDE DEF u
  <2>4. transfer'[p] = u /\ transfer' = [transfer EXCEPT ![p] = u]
    BY <2>1, <1>a DEF u
  <2>5. Alone(p) => Aligned(p)' /\ InOrder(file'[t.path])
    BY <1>b, <1>3, <2>1, <2>2, <2>4 DEF Aligned
  <2>6. QED
    BY <1>3, <2>2, <2>3, <2>4, <2>5, OthersKeep
<1>4. CASE PrintBody(p)
  <2> DEFINE u == [t EXCEPT !.stage = "copying"]
  <2>1. transfer' = [transfer EXCEPT ![p] = u]
    BY <1>4, <1>a DEF PrintBody, Stage
  <2>2. u \in TransferStates /\ u.path = t.path
    BY <1>a, StageUpdate
  <2>3. Active(p) /\ ~Alone(p) /\ mixed' = mixed /\ file' = file
    BY <1>4, DownloadsAssumption DEF PrintBody, Active, Alone
  <2> HIDE DEF u
  <2>4. QED
    BY <2>1, <2>2, <2>3, OthersKeep
<1>5. CASE CopyChunk(p)
  <2> DEFINE m == t.next + 1
             u == [t EXCEPT !.next = m]
             c == Chunk(t.version, t.next)
             w == Written(file[t.path], Offset(t), c)
  <2>1. t.stage = "copying" /\ Active(p) /\ mixed' = mixed /\ t.next \in 1..Size
    BY <1>5, <1>a DEF CopyChunk, ReceivingStages, Active
  <2>2. transfer' = [transfer EXCEPT ![p] = u]
    BY <1>5, <1>a DEF CopyChunk
  <2>3. m \in 0..(Size + 1)
    BY <2>1, <1>a
  <2> HIDE DEF m
  <2>4. /\ u \in TransferStates /\ u.path = t.path /\ u.stage = "copying"
        /\ u.status = t.status /\ u.next = m /\ u.version = t.version
    BY <1>a, <2>1, <2>3, NextUpdate
  <2> HIDE DEF u
  <2>5. transfer'[p] = u
    BY <2>2, <1>a
  <2>6. file' = IF t.path = None THEN file ELSE [file EXCEPT ![t.path] = w]
    BY <1>5, CopiedFile
  <2>7. c \in Chunks /\ c.version = t.version /\ c.index = t.next
    <3>1. t.version \in 1..MaxVersion
      BY <2>1, <1>a DEF ReceivingStages
    <3>2. QED
      BY <2>1, <3>1, ChunkType DEF Chunk
  <2>8. ASSUME Alone(p)
        PROVE  Aligned(p)' /\ InOrder(file'[t.path])
    <3>1. t.next = n + 1 /\ OfOneVersion(p)
      BY <1>b, <2>1, <2>8 DEF Aligned
    <3>2. Offset(t) = n + 1
      BY <3>1 DEF Offset
    <3> HIDE DEF c
    <3>3. /\ w \in Seq(Chunks) /\ Len(w) = n + 1 /\ w[n + 1] = c
          /\ \A k \in 1..n : w[k] = file[t.path][k]
      <4> DEFINE content == file[t.path]
                 i       == Offset(t)
      <4>1. content \in Seq(Chunks) /\ Len(content) = n /\ n \in Nat
        BY <1>b, <2>8
      <4>2. i \in Nat \ {0} /\ i = n + 1
        BY <3>2, <4>1
      <4>3. w = Written(content, i, c)
        OBVIOUS
      <4> HIDE DEF content, i, n, w
      <4>4. /\ w \in Seq(Chunks) /\ Len(w) = n + 1 /\ w[i] = c
            /\ \A k \in 1..n : w[k] = content[k]
        <5>1. i = Len(content) + 1 /\ c \in Chunks
          BY <2>7, <4>1, <4>2
        <5>2. /\ Written(content, i, c) \in Seq(Chunks)
              /\ Len(Written(content, i, c)) = Len(content) + 1
              /\ Written(content, i, c)[i] = c
              /\ \A k \in 1..Len(content) : Written(content, i, c)[k] = content[k]
          BY <4>1, <4>2, <5>1, WrittenSeq, Zenon
        <5>3. QED
          BY <4>1, <4>3, <5>2
      <4>5. QED
        BY <4>2, <4>4 DEF content
    <3>4. file'[t.path] = w
      <4>1. t.path \in Paths /\ t.path # None
        BY <1>b, <2>8, DownloadsAssumption
      <4> HIDE DEF w
      <4>2. QED
        BY <4>1, <2>6, <1>a
    <3> HIDE DEF w
    <3>5. DOMAIN w = 1..(n + 1) /\ DOMAIN file[t.path] = 1..n
      BY <3>3, <1>b, <2>8
    <3>6. InOrder(w)
      BY <1>b, <2>7, <2>8, <3>1, <3>3, <3>5 DEF InOrder
    <3>7. u.status = 200 => \A i \in DOMAIN w : w[i].version = u.version
      <4>1. t.status = 200 => \A i \in 1..n : file[t.path][i].version = t.version
        BY <3>1, <3>5 DEF OfOneVersion
      <4>2. QED
        <5> SUFFICES ASSUME u.status = 200, NEW i \in 1..(n + 1)
                     PROVE  w[i].version = u.version
          BY <3>5
        <5>1. CASE i = n + 1
          BY <2>4, <2>7, <3>3, <5>1
        <5>2. CASE i \in 1..n
          BY <2>4, <3>3, <4>1, <5>2
        <5>3. QED
          BY <1>b, <2>8, <5>1, <5>2
    <3>8. u.next = Len(w) + 1
      BY <1>b, <2>4, <2>8, <3>1, <3>3 DEF m
    <3>9. QED
      BY <2>4, <2>5, <3>4, <3>6, <3>7, <3>8 DEF Aligned, OfOneVersion
  <2>9. \A path \in Paths : path # t.path => file'[path] = file[path]
    <3> HIDE DEF w
    <3>1. QED
      BY <2>6, <1>a
  <2>10. QED
    BY <2>1, <2>2, <2>4, <2>8, <2>9, OthersKeep
<1>6. CASE CopyDone(p)
  <2> DEFINE u == [t EXCEPT !.stage = "done"]
  <2>1. transfer' = [transfer EXCEPT ![p] = u]
    BY <1>6, <1>a DEF CopyDone, Stage
  <2>2. /\ u \in TransferStates /\ u.path = t.path /\ u.stage = "done"
        /\ u.status = t.status /\ u.next = t.next /\ u.version = t.version
    BY <1>a, StageUpdate
  <2>3. /\ t.stage = "copying" /\ Active(p) /\ mixed' = mixed /\ file' = file
        /\ t.next = Size + 1
    BY <1>6, <1>a DEF CopyDone, Active, ReceivingStages
  <2> HIDE DEF u
  <2>4. transfer'[p] = u
    BY <2>1, <1>a
  <2>5. Alone(p) => Aligned(p)' /\ InOrder(file'[t.path])
    BY <1>b, <2>2, <2>3, <2>4 DEF Aligned, OfOneVersion
  <2>6. QED
    BY <2>1, <2>2, <2>3, <2>5, OthersKeep
<1>7. QED
  <2>1. \A stage : Stage(p, stage) => transfer' = [transfer EXCEPT ![p] = [t EXCEPT !.stage = stage]]
    BY <1>a DEF Stage
  <2>2. RefuseStatus(p) => Stage(p, "failed") /\ file' = file
    BY DEF RefuseStatus
  <2>3. CopyFails(p) => (Stage(p, "cut") \/ Stage(p, "failed")) /\ file' = file
    BY DEF CopyFails
  <2>4. OpenOutput(p) => \/ transfer' # [transfer EXCEPT ![p] = [t EXCEPT !.stage = "failed"]]
                         \/ /\ transfer' = [transfer EXCEPT ![p] = [t EXCEPT !.stage = "failed"]]
                            /\ file' = file
    <3> SUFFICES ASSUME OpenOutput(p),
                        transfer' = [transfer EXCEPT ![p] = [t EXCEPT !.stage = "failed"]]
                 PROVE  file' = file
      OBVIOUS
    <3>1. transfer'[p].stage = "failed"
      BY <1>a, StageUpdate
    <3>2. [t EXCEPT !.stage = "copying", !.touched = TRUE].stage # "failed"
      BY <1>a, OpenUpdate
    <3>3. transfer' # [transfer EXCEPT ![p].stage = "copying", ![p].touched = TRUE]
      BY <1>a, <3>1, <3>2
    <3>4. QED
      BY <3>3 DEF OpenOutput
  <2>5. QED
    BY <1>1, <1>2, <1>3, <1>4, <1>5, <1>6, <2>1, <2>2, <2>3, <2>4 DEF DownloadStep

LEMMA FileNext ==
  ASSUME FileInv, [DownloadsNext]_downloadVars
  PROVE  FileInv'
<1>1. TypeInv'
  BY TypeNext DEF FileInv
<1>2. CASE ChangeResource
  BY <1>1, <1>2
  DEF ChangeResource, FileInv, SharingRecorded, TransfersAligned, Alone, Active, Aligned,
      OfOneVersion, FileInOrder
<1>3. CASE UNCHANGED downloadVars
  BY <1>1, <1>3
  DEF downloadVars, FileInv, SharingRecorded, TransfersAligned, Alone, Active, Aligned,
      OfOneVersion, FileInOrder
<1>4. QED
  BY <1>1, <1>2, <1>3, AskKeeps, CloseKeeps, StepKeeps DEF DownloadsNext, FileInv

LEMMA AlwaysFile == DownloadsSpec => []FileInv
BY InitFile, FileNext, PTL DEF DownloadsSpec

\* Output files: whatever is cut off, killed, resumed or refused, a file that no
\* two downloads had at the same time holds the resource's chunks in order and
\* without a gap.
THEOREM FilesInOrder == DownloadsSpec => []FileInOrder
<1>1. FileInv => FileInOrder
  BY DEF FileInv
<1>2. QED
  BY <1>1, AlwaysFile, PTL

\* A download that DoDownload reports as a success has left the whole file, and
\* one version of it unless it was resumed.
THEOREM DoneMeansWhole == DownloadsSpec => []DoneIsWhole
<1>1. FileInv => DoneIsWhole
  <2> SUFFICES ASSUME FileInv, NEW p \in Terminals, transfer[p].stage = "done",
                      transfer[p].path \in Paths \ mixed
               PROVE  LET t == transfer[p] IN
                        /\ Len(file[t.path]) = Size
                        /\ \A i \in 1..Size :
                             /\ file[t.path][i].index = i
                             /\ t.status = 200 => file[t.path][i].version = t.version
    BY DEF DoneIsWhole
  <2> DEFINE content == file[transfer[p].path]
  <2>1. Aligned(p)
    BY DEF FileInv, TransfersAligned, Alone, Active
  <2>2. content \in Seq(Chunks) /\ Len(content) \in Nat /\ Size \in Nat
    BY DownloadsAssumption DEF FileInv, TypeInv, DownloadsTypeOK
  <2>3. Len(content) = Size /\ OfOneVersion(p)
    BY <2>1, <2>2 DEF Aligned
  <2>4. DOMAIN content = 1..Size
    BY <2>2, <2>3
  <2>5. \A i \in 1..Size : content[i].index = i
    BY <2>4 DEF FileInv, FileInOrder
  <2>6. QED
    BY <2>3, <2>4, <2>5 DEF OfOneVersion
<1>2. QED
  BY <1>1, AlwaysFile, PTL
====
