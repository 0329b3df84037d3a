---- MODULE Downloads ----
(***************************************************************************)
(* client.DoDownload: a request that may ask for the rest of a file, the   *)
(* server's answer, and the copy of its body to the output file.           *)
(*                                                                         *)
(* A file is a sequence of chunks, each known by the version of the        *)
(* resource it was cut from and its place in it.  Bodies are delimited by  *)
(* their length, so one that is cut short is noticed.  Output paths may be *)
(* shared: nothing keeps two downloads from writing one file.              *)
(***************************************************************************)
EXTENDS UserMachine, Naturals, Sequences

CONSTANTS
  Paths,      \* output files
  Size,       \* the chunks of the resource
  MaxVersion  \* bound: how many versions of it the server ever has

ASSUME DownloadsAssumption ==
  /\ None \notin Paths
  /\ Size \in Nat \ {0}
  /\ MaxVersion \in Nat \ {0}

VARIABLES
  version,   \* the version the server has
  file,      \* what each output file holds; a missing file is an empty one
  transfer,  \* the download of each process
  mixed      \* history: the paths two downloads have had at the same time

downloadVars == <<version, file, transfer, mixed>>

Chunk(v, i) == [version |-> v, index |-> i]
Hole        == Chunk(0, 0)

NoTransfer ==
  [stage |-> "off", path |-> None, range |-> 0, status |-> 0,
   version |-> 0, next |-> 0, touched |-> FALSE]

DownloadsInit ==
  /\ version  = 1
  /\ file     = [path \in Paths |-> << >>]
  /\ transfer = [p \in Terminals |-> NoTransfer]
  /\ mixed    = {}

InUse == {transfer[p].path : p \in {p \in Terminals : transfer[p].stage # "off"}}

----
\* DoDownload looks at the file before it sends the request; no path is stdout.
Ask(p, path, resume) ==
  /\ transfer[p].stage = "off"
  /\ transfer' = [transfer EXCEPT ![p] =
       [NoTransfer EXCEPT !.stage = "asking", !.path = path,
          !.range = IF resume /\ path # None THEN Len(file[path]) ELSE 0]]
  /\ mixed' = mixed \cup ({path} \cap InUse \cap Paths)
  /\ UNCHANGED <<version, file>>

\* The server sends all of it, the range it was asked for, or neither: 404 stands
\* for every status but 200 and 206, 402 among them.
Reply(p, status, first) ==
  transfer' = [transfer EXCEPT ![p] =
    [@ EXCEPT !.stage = "answered", !.status = status, !.version = version, !.next = first]]

Respond(p) ==
  /\ transfer[p].stage = "asking"
  /\ LET skip == transfer[p].range IN
       \/ Reply(p, 200, 1)
       \/ skip \in 1..(Size - 1) /\ Reply(p, 206, skip + 1)
       \/ (skip >= Size \/ "network" \in Faults) /\ Reply(p, 404, 1)
  /\ UNCHANGED <<version, file, mixed>>

Stage(p, stage) == transfer' = [transfer EXCEPT ![p].stage = stage]

\* Faulty variant: the file is emptied whatever the answer is.
OpenEmptied(p) ==
  /\ transfer[p].stage = "answered"
  /\ transfer[p].path # None
  /\ transfer[p].status # 404
  /\ file' = [file EXCEPT ![transfer[p].path] = << >>]
  /\ transfer' = [transfer EXCEPT ![p].stage = "copying", ![p].touched = TRUE]
  /\ UNCHANGED <<version, mixed>>

\* A partial answer is appended to the file, a whole one replaces it.
OpenOutput(p) ==
  /\ transfer[p].stage = "answered"
  /\ transfer[p].path # None
  /\ transfer[p].status # 404
  /\ \/ /\ file' = IF transfer[p].status = 206 THEN file
                   ELSE [file EXCEPT ![transfer[p].path] = << >>]
        /\ transfer' = [transfer EXCEPT ![p].stage = "copying", ![p].touched = TRUE]
     \/ "disk" \in Faults /\ Stage(p, "failed") /\ UNCHANGED file
  /\ UNCHANGED <<version, mixed>>

\* Any other status is an error; on stdout the status is not looked at.
RefuseStatus(p) ==
  /\ transfer[p].stage = "answered"
  /\ transfer[p].path # None
  /\ transfer[p].status = 404
  /\ Stage(p, "failed")
  /\ UNCHANGED <<version, file, mixed>>

PrintBody(p) ==
  /\ transfer[p].stage = "answered"
  /\ transfer[p].path = None
  /\ Stage(p, "copying")
  /\ UNCHANGED <<version, file, mixed>>

\* What a write does: at its own offset, or at the end of the file.
Written(content, i, chunk) ==
  [k \in 1..(IF i > Len(content) THEN i ELSE Len(content)) |->
     IF k = i THEN chunk ELSE IF k <= Len(content) THEN content[k] ELSE Hole]

\* Faulty variant: the copy goes on after the end of the body.
CopyPastEnd(p) ==
  LET t == transfer[p] IN
  /\ t.stage = "copying"
  /\ t.next <= Size + 1
  /\ transfer' = [transfer EXCEPT ![p].next = @ + 1]
  /\ file' = IF t.path = None THEN file
             ELSE [file EXCEPT ![t.path] = Append(@, Chunk(t.version, t.next))]
  /\ UNCHANGED <<version, mixed>>

CopyChunk(p) ==
  LET t == transfer[p] IN
  /\ t.stage = "copying"
  /\ t.next <= Size
  /\ transfer' = [transfer EXCEPT ![p].next = @ + 1]
  /\ file' = IF t.path = None THEN file
             ELSE [file EXCEPT ![t.path] =
                     Written(@, IF t.status = 206 THEN Len(@) + 1 ELSE t.next,
                             Chunk(t.version, t.next))]
  /\ UNCHANGED <<version, mixed>>

\* Faulty variant: a body that ends early counts as the end of the body.
CopyEndsAnywhere(p) ==
  /\ transfer[p].stage = "copying"
  /\ Stage(p, "done")
  /\ UNCHANGED <<version, file, mixed>>

CopyDone(p) ==
  /\ transfer[p].stage = "copying"
  /\ transfer[p].next > Size
  /\ Stage(p, "done")
  /\ UNCHANGED <<version, file, mixed>>

\* The body is cut off, the client's timeout passes, or the disk is full.
CopyFails(p) ==
  /\ transfer[p].stage = "copying"
  /\ transfer[p].next <= Size
  /\ \/ "network" \in Faults /\ (Stage(p, "cut") \/ Stage(p, "failed"))
     \/ "disk" \in Faults /\ Stage(p, "failed")
  /\ UNCHANGED <<version, file, mixed>>

\* The transfer is over, or its process ends in the middle of it.
Close(p) ==
  /\ transfer' = [transfer EXCEPT ![p] = NoTransfer]
  /\ UNCHANGED <<version, file, mixed>>

\* The server gets a new version of the resource, of the same size.
ChangeResource ==
  /\ version < MaxVersion
  /\ version' = version + 1
  /\ UNCHANGED <<file, transfer, mixed>>

DownloadStep(p) ==
  \/ OpenOutput(p) \/ RefuseStatus(p) \/ PrintBody(p)
  \/ CopyChunk(p) \/ CopyDone(p) \/ CopyFails(p)

DownloadsNext ==
  \/ \E p \in Terminals :
       \/ \E path \in Paths \cup {None}, resume \in BOOLEAN : Ask(p, path, resume)
       \/ Respond(p)
       \/ DownloadStep(p)
       \/ Close(p)
  \/ ChangeResource

DownloadsSpec == DownloadsInit /\ [][DownloadsNext]_downloadVars

----
Chunks == {Hole} \cup {Chunk(v, i) : v \in 1..MaxVersion, i \in 1..Size}

DownloadsTypeOK ==
  /\ version \in 1..MaxVersion
  /\ file \in [Paths -> Seq(Chunks)]
  /\ transfer \in [Terminals ->
       [stage : {"off", "asking", "answered", "copying", "done", "cut", "failed"}, path : Paths \cup {None},
        range : Nat, status : {0, 200, 206, 404}, version : 0..MaxVersion,
        next : 0..(Size + 1), touched : BOOLEAN]]
  /\ mixed \subseteq Paths

\* A file only ever holds the chunks of the resource in their order, from the
\* first, without a gap, however often its download was cut off or killed and
\* resumed, as long as no two downloads had it at the same time.
FileInOrder ==
  \A path \in Paths \ mixed : \A i \in DOMAIN file[path] : file[path][i].index = i

\* A download that succeeds leaves the whole file; and when it did not resume
\* one, all of it is of one version of the resource.
DoneIsWhole ==
  \A p \in Terminals :
    LET t == transfer[p] IN
      t.stage = "done" /\ t.path \in Paths \ mixed =>
        /\ Len(file[t.path]) = Size
        /\ \A i \in 1..Size :
             /\ file[t.path][i].index = i
             /\ t.status = 200 => file[t.path][i].version = t.version
====
