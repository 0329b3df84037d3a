# A TLA+ verification of lnget

lnget is a command-line HTTP client that pays for what it downloads. When a
server answers `402 Payment Required` with an L402 or a Payment challenge, lnget
pays the Lightning invoice in it and sends the request again with the proof of
payment. L402 tokens are kept in a directory per domain and reused; every
payment is written to a SQLite database that a dashboard and an MCP server read.

This directory holds TLA+ models of the parts in which order, concurrency and
failure matter, the TLC instances that check them, and TLAPS proofs of what is
most worth knowing for every instance. `PROJECT.json` maps every definition to
the lines it models, lists the hazards that led to the properties, and for every
property names a plausible bug ("faulty variant") that breaks it.

## 1. The system

### Parts, state, interaction

| part | source | state | operations |
|---|---|---|---|
| Payment transport | `client/transport.go` | per-domain mutexes, last payment | `RoundTrip` |
| L402 handler, scheme | `l402/handler.go`, `l402/scheme.go` | `lastEventID` | `HandleChallenge`, `GetTokenForDomain`, `InvalidateToken` |
| Payment (MPP) handler, scheme | `mpp/` | `lastEventID` | `HandleChallenge` |
| Token store | `l402/filestore.go`, `l402/store.go` | files on disk, shared by all processes | get, store, remove, list; domain names to directories and back |
| Event log | `events/` | SQLite file, shared by all processes | open and migrate, record, enrich, list, total |
| HTTP client, downloads | `client/client.go` | output file | `DoDownload`, whole or resumed; `Do` to stdout |
| LNC backend, sessions | `ln/lnc.go`, `ln/session.go` | connection, session files shared by all processes, a mailbox on the relay | create, start, stop, pay; list, save and revoke sessions |
| lnd backend, no backend | `ln/lnd.go`, `ln/noop.go` | connection | start, stop, pay |
| Neutrino backend | `ln/neutrino.go` | wallet | refused by `createBackend` |
| API server, dashboard | `api/`, `dashboard/` | none of their own, but long-lived | list events and tokens, remove a token, page through payments |
| MCP server, service | `mcp/`, `service/` | one transport shared by all calls | download, list, remove |
| CLI, configuration | `cli/`, `config/` | the settings of a process | get, dry run, ln lnc pair, sessions and revoke, ln status and info, serve, mcp serve, tokens; from the arguments to the exit code |

Every request runs `RoundTrip` on a goroutine of its own. It calls the schemes,
which call the token store, the event log and a backend. One `lnget` command is a
process with one request; `lnget mcp` is a process with many; `lnget serve`,
`lnget tokens` and `lnget ln lnc` touch the same files. Nothing but a mutex per
domain *within* a process orders any of this, and no file is locked; the relay's
mailbox, which serves one client, is what keeps processes apart that use one
session.

### What is hard, and what makes each part correct

* **Payment transport.** Several requests meet a 402 for one domain at once; a
  credential is rejected while another request is buying the next one; an
  invoice settles after the client gave up, or after it died; a write fails
  between payment and storage. Correct means: a domain is bought once, nobody is
  served without a purchase, money is spent only within the budget and only when
  there is no token, a purchase is kept or its loss reported, what is taken for
  paid was paid, the log tells the truth, and one hanging payment stops nobody
  else's domain.
* **Token store.** A call takes several system calls; readers, writers and
  removers of several processes interleave; two domains may share a directory;
  a client may stop half way. Correct means: each directory behaves like one
  entry that is replaced in one step, lookups are atomic, listings are complete,
  and a listed name leads back to its token.
* **Event log.** Migration at every start; concurrent payments that stamp, insert
  and enrich in different orders; pages cut by offset from a table that grows.
  Correct means: the log opens, metadata lands in its own row or at least near it,
  a reader who walks all pages misses nothing, the totals agree.
* **Downloads.** A resumed range is cut from another version of the resource than
  the part on disk; a body is cut off, the disk fills up, the process is killed;
  two downloads write one file. Correct means: a file that no two downloads had
  at once holds the resource's chunks in order and without a gap, and a download
  reported as complete is complete.
* **Backends and sessions.** `Start` gives up by a timer while its goroutine still
  waits for the connection, which it may get afterwards; the newest session is
  chosen while others are paired, rewritten in place and revoked. Correct means:
  one writer per session file, the newest readable session is resumed, no
  command waits for ever.
* **Commands.** Arguments, settings, backend, request, payment and file fail at
  different points, after different effects; prices are read by one piece of code
  to preview them and by another to pay; flags, parameters, environment and file
  override each other. Correct means: the exit code is true, a missing backend
  stops no request that needs none, previews are kept, and lnget pays what its
  user allows.

## 2. The modules

| module | what it is |
|---|---|
| `TokenCache` | what one directory of the token store can hold, and which writes `StoreToken` accepts; shared by the modules below |
| `PaymentTransport` | `RoundTrip`, both schemes, the store, the log, the node and the servers |
| `PaidAccess` | abstract: access to a domain is bought, now or by an earlier run, then shared |
| `TokenFiles` | the token store at the level of system calls |
| `TokenStore` | abstract: one entry per directory |
| `EventLog` | opening, writing and reading the payment event database |
| `UserMachine` | the terminals of one user's machine and what may fail there |
| `LNCSessions` | session files, the start and stop of a backend, the relay's mailboxes, the choice of a session |
| `Downloads` | `DoDownload`: range, answer, copy to the output file |
| `Offers` | the price of a challenge, as the handlers and as the dry runs read it |
| `Commands` | composes the three above: whole commands in several terminals |
| `MC*` | instances for TLC |
| `PaymentTransportProofs` | type correctness, backed tokens, backed ledger, real reports, exact ledger: any number of processes |
| `PurchaseProofs` | locks match work, mutual exclusion; metadata goes home; purchases are kept or reported, tokens kept, payment only when needed; one purchase, the refinement of `PaidAccess` |
| `TokenFilesProofs` | the token store: types, names, the refinement of `TokenStore`, atomic lookups, complete listings and clears |
| `EventLogProofs` | type correctness, metadata stays near, opened once, paging misses nothing, totals agree |
| `DownloadsProofs` | type correctness, files in order, done is whole |
| `LNCSessionsProofs` | type correctness, one writer, newest chosen |
| `CommandsProofs` | commands implement `LNCSessions` and `Downloads`; their properties hold of commands; type correctness |
| `ExitCodesProofs` | exit codes are true, the backend is never in the way, previews are kept, the budget is kept, flags are obeyed |

`PaymentTransport` composes the transport with its schemes and treats the store
and the log as variables with atomic operations; `TokenFiles` and `EventLog` open
those two boxes. That a store lookup may be taken for one step is the property
`LookupsAtomic` of `TokenFiles`; that a write may is the refinement `StoreSpec`.

### PaymentTransport

A step is one access to something others can touch: a store call, a lock
operation, an HTTP exchange, a payment, a database write, an atomic load or
store. `pc` is the place in `RoundTrip`:

    start -> sendCached -> invalidate ->            lookup, cached credential, rejected
    sendPlain -> lock -> recheck -> retryCached     challenge, mutex, double check
                                 \> reissue -> handle ->
      L402:    removeStale -> storePending -> pay -> await -> recordSuccess -> storeToken
      Payment:                                pay -> await -> recordSuccess
    -> loadEventID -> publish -> retryPaid -> enrich -> returned -> done

`Return` also releases the mutex (the deferred `Unlock`). The first
WWW-Authenticate header decides about L402 and any header about Payment, as in the
code, so a challenge is a sequence of headers. A request with a body shares one
reader between the plain sends (`bodyRead`). A token is named by the request
whose invoice buys it, since a request pays at most once. `Faults` switches on
what may go wrong: the network, a failed payment, a payment that outlives
`PayInvoice`, a preimage mismatch, the database, the store, a dying process,
revocation by the server, removal by the user.

The budget is compared with `price`, the amount the handler reads from the
challenge; 0 stands for an amount it cannot know, which always passes.

### TokenFiles

A directory has three files (paid token, pending token, domain name); each of
stat, open-and-truncate, write, unlink, mkdir and rmdir is a step, and a client
runs a program of calls: `Get`, `Put`, `Remove`, `AllTokens`. An opened file may be
unlinked (`fd`) and two writers may mix their bytes ("garbled"). `lnget tokens
clear` lists the domains and removes them one by one, going on after one that
cannot be removed. A name is a sequence of characters, which `SanitizeDomain` goes through
one by one; "h" and "p" stand for those it keeps, "/" for those it drops. The files written
by the aperture library are modelled from how `src/l402` uses it. `since` is a
history variable: the credentials each directory has had during a client's call.

### EventLog

A step is one SQL statement. `conn` follows `NewStore` through both migrations,
`stage` a payment from `time.Now()` to the enrichment, `pager` a
reader who filters by domain and turns pages until one is not full. Faults: a
busy database, a process that ends.

    paying -> recording -> storing -> loading -> enriching -> done
        (time.Now)  (insert)  (lastEventID.Store)  (Load)  (update)

The id of a row passes through `lastEventID`, one number per handler, that is per
process and scheme, shared by all domains. A refused insert skips "storing" and
leaves there what an earlier payment, to whatever domain, has stored. The lock of
the domain (`HasLock`) makes payments to one domain take turns.

### LNCSessions

A session file is "absent", "half" (truncated, not yet written) or "whole". `link` is
how far a process's backend has come:

    off -> listing -> loading -> dialing -> connecting -> saving -> filling -> up
                 (newest)  (websocket)  (getConn)  (truncate, write)      \-> failed -> noop

`dial` is the goroutine in `getConn`, which lives on when `Start` has given up: the
relay may connect it, and occupy the mailbox, until the process ends. `relay` says
whom each mailbox serves; `paired` which pairing phrases are used up; `created` the
order in which sessions were made, hence of their file names. `steady` is a history
variable: the sessions whose files were whole throughout a listing.

### Downloads

A file is a sequence of chunks, each known by the version it was cut from and its
index. `Ask` looks at the size of the file, `Respond` is the server (all of it, the
range, or a refusal), `OpenOutput` truncates or appends, `CopyChunk` writes at the
offset of the open file or, for a range, at the end of the file as it is then. `mixed` is
a history variable: the paths that two downloads have had at the same time.

### Offers

An invoice is of a network and asks for whole bitcoins, for a part of one, or leaves
the amount open; a Payment challenge may state an amount besides, of either sign.
`AsksFor` is what BOLT11 makes of it. The code's readings are beside it:
`ParseInvoiceAmountSat` knows three networks and four units and takes everything else
for 0, the handlers prefer a stated amount other than 0, the dry runs one above 0.
An offer is `Plain` if the code can be expected to know its price: the amount is
open, `Readable`, or the one that is stated. What the code does with the others is in the run
`settings`.

### Commands

A scenario gives each terminal a list of commands with their arguments and
settings. `pc` is how far the command has come:

    idle -> preview                                            get --dry-run
         -> starting -> ready -> sent <-> challenged -> paying get
                              \-> answered                    (-> sent again when paid)
                     -> serving -> sent ...                    mcp serve, one call at a time
                     -> asking node                            pair, status, info
         -> opening -> listening                               serve
         -> listing | revoking -> revoked                      ln lnc sessions, revoke

Every end is `Leave`: the deferred `Stop`, which hangs up, the output file closed, the
exit code kept in `exit`. `report` is what the command or call before has told, if it was a
dry run that was not refused or killed. Payments are the short form of `PaymentTransport`: one
request per process and one domain, a paid token in the store or none; the
interleavings of a purchase are that module's business. `cred` is what a request goes
out with: nothing, the token found in the store (`Attach`), or the one it is sent again
with, just paid for or found by the double check under the lock. A token the server
takes no longer is removed from the store (`Rejected`). A Payment credential is
never stored. A 402 that answers a paid request is an answer like any other: to
stdout it is printed, and the exit code is 0.

Settings: the JSON parameters overwrite the variables of the flags, and a flag's variable
is read only if the flag was on the command line (`Override`). So parameters alone set
no limit, and beside `--max-cost` they win.

## 3. What the runs check

| run | instance | what it shows |
|---|---|---|
| `shared` | 3 requests (symmetric), 1 domain, 1 process, four kinds of answers, network and payment failures, the process may die | `BoughtOnce`, `LedgerExact`, `EnrichedOwn`, `PaidTokenKept`, `PaysOnlyWhenNeeded`, and the refinement `AccessSpec` |
| `faults` | 2 requests in 2 processes, 1 domain with a cached token, a request body, all nine faults | `TypeOK`, `PaidTokenBacked`, `LedgerBacked`, `ReportedReal` |
| `domains` | 3 requests, 2 domains, 1 process; node, store and log may fail or hang; fair | `LockMatchesWork`, `PurchaseKeptOrReported`, `BlockedOnlyByOwnDomain` |
| `token_files` | 3 clients, 3 names of which 2 share a directory, 2 tokens, failing disk, six scenarios | `TypeOK`, `LookupsAtomic`, `ListingComplete`, `ListedNamesLeadBack`, `ClearedAll`, and the refinement `StoreSpec` |
| `event_pages` | 3 payments of a process to 2 domains, a second process, pages of one row, busy and crash faults | `TypeOK`, `MetadataStaysNear`, `PagingMissesNothing`, `TotalsAgree` |
| `commands` | 2 terminals, 27 scenarios, 3 sessions, 2 paths, a resource of 2 chunks and 2 versions; disk, network, reject and kill faults; fair | `TypeOK`, `OneWriterPerSession`, `NewestReadableChosen`, `FileInOrder`, `DoneIsWhole`, `FlagsObeyed`, `BudgetKept`, `ExitCodesTruthful`, `BackendNeverInTheWay`, `PreviewsKept`, `EveryCommandEnds` |

Six runs show a statement of the documentation or of a comment that the code does
not keep, each with the smallest instance that shows it:

| run | the statement | what happens |
|---|---|---|
| `stale_invalidate` | invalidation removes the *rejected* token (`l402/handler.go`) | a late 402 removes the token another request has just bought |
| `shared_event_id` | the event ID enriches "the exact event" (`l402/handler.go`) | payments to two domains share `lastEventID`; the wrong row is enriched |
| `interrupted` | an interrupted payment is recovered or retried (`docs/architecture.md`) | the pending token is dropped and a second invoice paid |
| `body` | the body "can be replayed on retries" (`client/transport.go`) | the re-issued request is sent with a consumed body |
| `settings` | `--no-pay`: "Don't pay invoices automatically"; `--params` "override individual CLI flags" (`cli/root.go`); the client "verifies the invoice amount is within `--max-cost`" (`README.md`) | an invoice is paid under `--no-pay`, under `auto_pay: false`, above the `max_cost` of `--params`; and above any limit if it is in whole bitcoins or of signet, which count as 0, or if its challenge states less than it asks for, also less than zero |
| `reopen` | payments are recorded automatically (`README.md`) | the second migration fails on a migrated file, so only the first process ever opens the log |

### Bounds, and why they are enough

* Three requests are needed for one that pays, one that waits and one whose
  credential has just been rejected; with two domains they make two that contend
  and one that must not be disturbed. The `faults` instance has two
  requests, each in a process of its own, since every pairing of a fault of one
  with a step of the other already occurs.
* The answers of a server are a set of representatives: one per path of
  `detectChallenge` and `HandleChallenge` (L402, Payment, both, unusable, too dear,
  opaque, free).
* Three clients of the store are a writer, a second writer or remover, and a
  reader. The names `h:p` and `h_p` collide; `h` does not. Programs are the sequences of calls
  the handler makes.
* Three rows with pages of one give every relation between page boundary and new
  row. For metadata the
  three are two that succeed, for two domains, and one that fails for the first of these: a payment can
  find in `lastEventID` an id of its own domain or of the other one, of a success or of a
  failure. That one scheme's ids do not reach the other's is left to the theorem.
  Nothing in any module counts without bound: requests, payments and
  programs are finite and there is no constraint on states.
* The scenarios of `commands` are chosen by what they share: a session that is
  resumed while it is resumed, listed, revoked or paired elsewhere; a file that is
  fetched, cut off, killed, resumed, resumed again, and fetched twice at once;
  every refusal of an argument and every backend; limits from flags, parameters,
  both, environment and file; prices of which the code reads every form, or none, and with or
  without a stated amount, previewed and then paid, also after a preview that was refused
  and between others of one MCP server; a token that one terminal has stored and that is
  rejected while the other goes out with it. Two terminals are enough for
  a session file or an output file to be contended. Three sessions are an older and a
  newer one that are saved and one that is yet to be paired. Two chunks
  make the smallest file that can be resumed, two versions one that changes under
  it. `MaxVersion` bounds the only counter. It is about 142,000 states.
* Symmetry (requests of one process to one domain) is used only where no liveness
  is checked.

`commands` has a `Finished` step as well. `token_files` and `event_pages` turn off the deadlock check: their clients finish.
`PaymentTransport` has an explicit `Finished` step instead, so a request that can
never end would be reported.

### Fairness

`FairSpec` assumes two things. Each request is weakly fair: the Go scheduler runs
every goroutine that can run, and `http.Client` has a timeout, so a request to a
server ends. Taking the mutex is strongly fair: a `sync.Mutex` goes into
starvation mode after a millisecond and is then handed to the longest waiter.
Nothing is assumed of the Lightning node: its payment may hang for ever, which is
what `BlockedOnlyByOwnDomain` is about.

`Commands` assumes each process to be weakly fair in what it does by itself. `Start`
waits in a `select` with a timer (`ln/lnc.go:307`), an exchange with a server is bounded by
the client's timeout, a payment by its own: so `GiveUp`, `RequestFails` and
`PaymentFails` are the process's own steps. What it may wait for without limit is
not fair: the user or agent of a server, the answer of the relay, the resolution of an
invoice, and the node's answer to `GetInfo`, for which `pair`, `status` and `info` set no
timeout. `EveryCommandEnds` shows that every command comes to its end or to one of
the waits for somebody.

`TokenFiles` and `EventLog` have no
fairness, so a client that stops half way is among their behaviours.

## 4. What is proved

For every set of requests, domains and processes, every list of schemes, every
set of answers and every combination of faults (from the constant assumptions
alone):

* `PaymentTransportProofs!TypeCorrect`.
* `PaidTokensBacked`: the store's paid tokens and the requests' credentials belong
  to settled invoices of their domain. `PaidTokenBacked` is not inductive: a
  store write copies what a request knows. `BackedInv` adds that a request past
  `await` has a settled invoice, and that one before `pay` has none yet.
* `LedgerIsBacked`: a "success" row has a settled invoice; metadata stays within
  its process. `LedgerInv` adds that `lastEventID` and `eid` name written rows of the
  own process.
* `ReportsAreReal` (`ReportedReal`): `ReportInv` adds that a transport's last payment is
  settled and of its process, and that a report is only there once all is done.
* `LedgerMatches` (`LedgerExact`), if the database takes every row, payments are waited
  for and preimages match (`Recorded`): `RowInv` says for every stage what the
  row and the invoice are.

In `PurchaseProofs`, again for any requests, domains, processes and answers, first
from the constant assumptions alone:

* `LocksMatchWork` (`LockMatchesWork`): a domain's lock is held by a request in a locked
  stage, and by every such request. It is inductive with the types: a step takes a free lock
  and enters a locked stage, gives up its own and leaves, or does neither (`LockStep`). Hence
  `MutualExclusion`: two requests of one process and one domain are never both in the
  locked part.

Then with a hypothesis on who shares what and on what may fail:

* `MetadataGoesHome` (`EnrichedOwn`) for any number of processes and any other faults, if each
  process goes to one domain and the database takes every row (`OneDomainEach`). A handler has one
  `lastEventID` for all its domains, and only a domain's lock keeps others from setting it
  between `RecordSuccess` and `LoadEventID`: `EventIDInv` says that it is the request's own
  in between. The run `shared_event_id` shows two domains.
* `PurchasesKept` (`PurchaseKeptOrReported`), `TokenKept` (`PaidTokenKept`) and `PaidWhenNeeded`
  (`PaysOnlyWhenNeeded`), if no domain is shared by two processes and nothing sold is
  revoked or removed (`OneProcessEach`), while the network, the node, a payment `PayInvoice` gave
  up on, the store, the database and the processes may all fail. A process that is started
  again and goes to the same domain is a second process. `KeptInv` adds that a buyer between the
  double check and its new token sees no paid token in the store (`BuyingStages`), by the lock it
  holds; that until the token is paid for the entry is its own pending one; and where
  an invoice that is settled or in flight can be.
* `OnePurchase` (`BoughtOnce`), if moreover the store can be written and a payment is resolved before
  `PayInvoice` returns (`Reliable`). `PurchaseInv` adds the point of it: an L402 invoice in flight or
  settled has its token in the store, paid, or pending and then guarded, by a buyer at work or
  by the death of the only process that goes to the domain.
* `ImplementsPaidAccess` (`AccessSpec`), under `Reliable`, with tokens bought before, servers that
  ask for nothing and processes that die. `AccessInv` says whose credential a request presents,
  and that the token of an earlier run stays. Each step maps to a purchase by one
  request, the return of one, or a stutter (`StepMapsToStep`). The resolution of an
  invoice whose process has died is a purchase that nobody returns from.

Each part of `Reliable` is there for a reason in the code. A token that cannot be written (`io`) or an
invoice that settles after its token was dropped (`timeout`) was paid for and is bought again;
`stale_invalidate` revokes a token, `interrupted` starts a second process.

In the event log, for any processes, schemes, payments and faults: `TypeCorrect`;
`MetadataIsNear` (`MetadataStaysNear`): metadata may land in the wrong row, as the run
`shared_event_id` shows, but only in one of the same handler, and in another payment's to the same
domain only if its own was never recorded. `RowInv` says why: payments to one
domain take turns (`TakeTurns`), so between a payment's insert and its load only other domains
store an id (`IDsNear`), and every stored id is of the handler that stored it (`StoredIDs`);
`OpensOnce` (at most one process ever has the log open, the general form
of the finding `reopen`) and `PagingIsComplete` (`PagingMissesNothing`), for any page size. Pages
are cut by offset from rows in order of time; its argument counts. The rank of a
row is the number of rows that come before it. New rows only add to it
(`RankGrows`), so a row that was known when the walk began and has not been seen has a rank
beyond the offset (`WalkInv`), and a row beyond the offset makes the page full (`FullPage`).
`TotalsAlwaysAgree` (`TotalsAgree`) is about the folds in which `GetStats` and
`GetSpendingByDomain` are written. It needs no invariant but the types: it is that grouping
does not change a sum. Since induction over data is out of reach as a rule of the
prover, a fold is first characterised: `Sums(sum, f, S)` says that `sum` gives every subset of S the sum of
f over it, such a function exists for a finite set (`SumExists`, by `SubsetInduction` over a set of sets), and the
recursion of `MapThenSumSet` agrees with it whatever order `CHOOSE` takes the elements in (`SumUnique`).
Sums over domains of sums over their rows then are sums over rows.

In the token store, for any clients, programs of calls, names and tokens, whether or not the disk
fails (`TokenFilesProofs`):

* `TypeCorrect`, and `NamesLeadBack` (`ListedNamesLeadBack`). `SanitizeDomain` is a loop, so what it returns
  is proved by induction over a prefix of the name: over a set of numbers (`SetInduction`, from the
  library's well-founded minimum), since the induction theorems themselves cannot be used.
* `RefinesStore` (`StoreSpec`): every system call maps to a step or a stutter of
  `TokenStore`. `WriterInv` adds that a client which has gone on to write was allowed to.
* `LookupsAreAtomic`, `ListingsComplete`, `ClearsComplete`. `HistoryInv` relates what a client has seen so
  far to the credentials its directory has had since the call began: the present is always
  among them, and so is "none" once a lookup goes on to the pending file. `ListingInv`
  adds that a token which has been there throughout is in a directory still to be
  visited, in the one that is read or removed now, or found.

Of whole commands, for any terminals, scenarios, sessions, paths, sizes and faults:

* `DownloadsProofs`: `FilesInOrder`, `DoneMeansWhole`. An invariant about files alone is not
  inductive. `FileInv` adds that two transfers under way share a path only if it is
  in `mixed` (`SharingRecorded`), and how the next byte of a transfer stands to
  the file's length n: the range asked for is 0 or n; after a partial answer
  the next byte is n + 1, after a whole one 1; once the file is open it is n + 1 and
  the file is of one version (`TransfersAligned`).
* `LNCSessionsProofs`: `OneWriter` and `NewestChosen`. `WriterInv` adds that a backend
  that writes is connected and that a connected one holds its mailbox (`MailboxHeld`).
  `ChoiceInv` adds that the sessions which were whole throughout are either still to
  be read or found, and that every file on disk is of a session already placed in
  the order of creation (`SteadyListed`).
* `CommandsProofs`: `RefinesSessions` and `RefinesDownloads`: every step of every command is
  a step or a stutter of `LNCSessions` and of `Downloads`. It needs `Placed`: a terminal
  that is not idle is at a command of its scenario, whose session, path and
  settings are well-formed (`CommandsAssumption`). What is proved of the components is
  hence true of the composition: `CommandsOneWriter`, `CommandsNewestChosen`,
  `CommandsFilesInOrder`, `CommandsDoneMeansWhole`; and `CommandsTypeCorrect`.
* `ExitCodesProofs`: `ExitCodesAreTrue` and `BackendIsNotNeeded`, both action properties.
  `RequestInv` says for each stage which kind of command it belongs to, that no exit
  code has been given yet, whether the transfer has touched the file, and
  that an invoice that has been sent out and is not being paid for now has left a token
  (`InProgress`). `Ended` then lists the ways a request can end with a code.
* `ExitCodesProofs` again: `PreviewsAreKept` (`PreviewsKept`), `BudgetIsKept` (`BudgetKept`) and `FlagsAreObeyed` (`FlagsObeyed`),
  all three from the constant assumptions alone.
  They rest on lemmas about the two readings of a price: amounts are
  rounded down by less than a satoshi (`RoundedDown`), and handlers and dry runs
  read the same amount (`SameReading`). `PriceInv` says which settings a request runs with
  (`Equipped`), that an invoice in flight is affordable, and that a report is true of
  the command before (`Told`). What they do not say is in the properties and not in a hypothesis:
  `BudgetKept` and `FlagsObeyed` speak of plain offers, as the code misreads the others; `PreviewsKept` leaves open what is
  paid for a stated amount below zero, and under a `max_cost` below zero, which `mcp serve` takes since it does not
  call `Validate`; `FlagsObeyed` leaves out a limit set in `--params` alone. The scenarios of `settings` show these offers
  and these limits, `mcp serve`'s excepted. `BudgetKept` covers the calls of an MCP server, which
  `FlagsObeyed` does not.
  The first attempt at `Told` failed, for a good reason: `report` outlived a later dry run
  that was refused, and was then taken for its. A command that tells nothing now
  leaves none, and a scenario of `commands` has such a refusal.

Model-checked only: liveness, that is `BlockedOnlyByOwnDomain` and `EveryCommandEnds`; the
prover does not treat fairness. Every invariant and every action property that a passing run
checks is a theorem. What becomes of a property without the
hypothesis of its theorem is shown by `stale_invalidate`, `interrupted` and `shared_event_id`; each hypothesis is satisfied by an instance of section 3 that checks the
property.

## 5. What is not modelled

* Names of domains are atoms in `PaymentTransport`: two that share a directory are
  treated in `TokenFiles` only. There, names that sanitise to nothing are excluded
  (`DomainFromURL` of a valid URL has a host) and the write of the name file is one step.
* In `PaymentTransport` a store write that races with another process either is
  refused or lands as `WriteOver` says. The unreadable files such a race may leave
  (`TokenFiles`) are not carried over.
* Redirects, cookies and retries inside `net/http`; streaming of bodies.
* Contents: macaroons, invoices, header syntax, receipts, amounts beyond the
  comparison with the budget; the scheme column of an event; the status filter
  of the reader (one of two filters that work alike).
* A read of the token store that fails for another reason than a missing file
  counts as no token, as it does in the code; that reads fail by themselves is not modelled,
  but unreadable files are (`TokenFiles`).
* Amounts that do not fit into 64 bits; the smallest is more than there are bitcoins.
* In `Commands` a purchase is short (see above), and the challenge of a dry run's
  `HEAD` is the one of the `GET` that follows it.
* Taken for granted of what is not in this repository: the relay serves one client
  per mailbox and a pairing phrase works once; connecting to lnd, for which `ln/lnd.go:54` sets no
  timeout of its own, returns; bodies are delimited by their length;
  names of sessions, which are made of the time, are in the order they are made.
* The Neutrino backend: `createBackend` refuses its mode (`cli/root.go:797`), so no
  command runs it. In `Commands` it is a backend that fails.
* Helpers without a caller in the program: `client/resume.go`, `DeleteExpiredSessions`,
  `SetEncryptionKey`, `HasPendingPayment`, `StorePending` and `RemovePending`.
* SQLite itself: a statement is atomic, or refused as busy.
* Formatting, logging, progress bars, rendering, argument syntax (an argument is
  good or bad), `config init`, `schema`.

## 6. Plan

1. Done: `PaymentTransport` with `PaidAccess`; `EventLog`; `TokenFiles` with `TokenStore`;
   `LNCSessions`, `Downloads` and `Offers`, composed by `Commands`; the proofs above.
2. Done: the theorems of section 4.
3. Proofs still worth having: `MetadataGoesHome` for several domains per process, under the
   condition that no two of them are paid for at once; `LedgerMatches` when rows are refused.
4. Models: the order of the `WWW-Authenticate` headers against the preference in the
   settings; reads of the token store that fail.

## 7. Running

    tlc -config MCPaymentTransport_shared.cfg MCPaymentTransport
    tlapm PurchaseProofs.tla

Each run takes three minutes at most, the proofs a few minutes in all.
