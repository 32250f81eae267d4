# A verification project for the IRITA explorer backend

The backend (NestJS, TypeScript) serves a block explorer. A separate
synchroniser, which is not part of this repository, stores blocks and
transactions of the chain in MongoDB. The backend runs periodic tasks that
derive further collections from those transactions and from the REST interface
of a node (LCD), and an HTTP API that reads the collections. Several instances
of the backend may run against one database.

The modules here model both halves: the tasks, in which most of the system's
concurrency and all of its failures live, and the requests that are answered by
several reads while the collections and the chain change. Everything that changes
state is an action; of an answer only what its parts have to do with each other is
kept (see *Not modelled*).

## 1. Inventory

| part | state it keeps | operations | talks to |
|---|---|---|---|
| scheduler (`task/task.service.ts`, `service/task.dispatch.service.ts`, `schema/task.dispatch.schema.ts`) | one lock document per task (`is_locked`, `heartbeat_update_time`), one interval handle per task and instance | cron handlers, lock, heartbeat, unlock, fault-tolerance pass | every task, MongoDB |
| NFT sync (`task/nft.task.service.ts`) | `ex_sync_nft`; its cursor is the highest `last_block_height` in it | fold windows of messages, write in parallel | transactions |
| account collection (`task/account.task.service.ts`) | accounts and a sentinel document that carry the handled height | collect addresses, move the cursor; genesis accounts | transactions |
| identity sync (`task/idnetity.task.service.ts`) | identities, public keys, certificates | insert, then unawaited updates | transactions |
| staking validators (two tasks, `insertBlacks`) | `ex_staking_validator` | save / delete from three lists, write back, mark | LCD, moderator, each other |
| proposals and parameters (two tasks) | proposals, details, parameters | flag, tally, insert, refresh | LCD, transactions, validators |
| service names (`task/tx.task.service.ts`) | `ex` fields inside transactions | annotate the newest unannotated ones | transactions |
| denoms, tokens, IRITA validators, account information | one collection each | append, fold, diff, refresh | transactions, LCD |
| API services (`service/*.service.ts`, queries of `schema/*.schema.ts`) | a cached list of transaction types (`Cache.supportTypes`); otherwise none | lists with pages and counts, the edge list, pages of services and voters, statistics, validator sets, the richest accounts | all collections, LCD |
| LCD clients, controllers, DTOs, logging, configuration | none | I/O, shapes | - |

How they interact: tasks never call each other. They meet in collections (the
info task, the more-info task and the moderator all write validators; proposals
need the parameters another task stores; the account-information task reads
accounts and validators) and in the scheduler, whose lock is the only thing that
keeps two instances from running one task at the same time. That lock can be
lost (module TaskDispatch), so overlap is a behaviour the tasks must stand.
Requests meet the tasks in the collections too: they change nothing but the
cached list of types, and what they read between two awaits is of two moments.

What is hard here:

* *interleaving*: two runs of one task; a pass that releases a lock somebody has
  just won; two tasks writing the same document; lists read at three moments;
* *unawaited commands*: `forEach(async ...)`, updates sent without `await`,
  conditional updates that Mongoose executes twice (`update(..., callback)` and
  then `.exec()`): they land late, out of order or not at all;
* *partial failure*: `insertMany` that stores half of its documents and rejects,
  `Promise.all` whose rejection leaves a promise that never settles, a
  `TypeError` in the middle of a run;
* *cursors kept inside the data*: a lost write lies below the cursor for ever,
  and a deleted document takes the cursor with it;
* *crashes* between any two commands, and timers that outlive their run;
* *answers put together from several reads*: a page and its count, a list and a
  count for each of its elements, a sum and the list it is compared with; pages
  cut with `skip` and `limit` from a list that moves; pages of the chain that
  cannot be had.

`PROJECT.json` lists every such place with its line (`hazards`) and the property
that watches it.

## 2. What makes each part correct

* scheduler: a run that nobody robbed holds its lock and is alone; the margin of
  two heartbeats is enough while timers are punctual and heartbeats arrive; a crashed instance does not
  stop a task for ever.
* NFTs: a document is what the chain says at the document's height; nothing below
  the cursor is missing; the collection catches up.
* accounts: no address below a recorded height is left out, no recorded height is
  above the chain, every address arrives.
* identities: none below the cursor is missing; keys follow their identity.
* staking validators: a validator who keeps his status, and whom the one page of his
  list reaches, is not deleted; a moderator's mark survives the info task; everybody is up to date in the end.
* proposals: only removed ones are flagged; a vote that is shown has its details;
  everything listed is shown as it is in the end.
* service names: a name is that of the transaction's own service; a named binding
  has its definition marked; every transaction that can be named is named.
* denoms: no denom of a first message at or below the cursor is missing. Tokens: a supply is that of
  the height stored with it.
* IRITA validators: nobody is dropped who was on the node throughout the reading;
  the collection settles on the node's list.
* account totals: a total is what the account is worth; every account gets there.
* tally: each power is counted once, the options add up, and the result is that of
  the voters the API shows.
* lists: turning the pages shows everything; a count is that of its list; an edge
  server is sent every transaction of a block its second read can hold.
* the other answers: their numbers are of one moment, or differ only in the
  direction time explains.

## 3. The modules

Each module says at its head what it abstracts. One action is one database
command as the server applies it, one answer of the LCD, or one stretch of
JavaScript between two awaits; `map` in `PROJECT.json` names the lines of every
definition. Definitions marked `Mutant:` are plausible mistakes; they are used
by nothing, and each is there so that a property can be shown to notice it.

### The scheduler and the larger tasks

**TaskDispatch** (`MCTaskDispatch`, `TaskDispatch_proofs`). `lock[t]` and `age[t]`
are the lock document, `stage[h]` the await at which a handler stands, `timer` the
slots `this[name_timer]`, `live` the intervals that really run, `late` the second
executions of `lock` and `unlock`, `scan` a fault-tolerance pass with the heartbeats
it has read. Time is counted in heartbeat periods. `Faults` chooses rejected
commands, late second executions, tasks that hang and crashes; `Settle` ends them.
`robbed` is a history variable: runs whose lock somebody else gave away. `missed` is
another: live runs whose last heartbeat was rejected (`IntervalFails`; the interval
does not wait for its update, so nothing else notices).

**RevocableLock** is what the scheduler promises, in three actions: a run acquires
the lock only if every run of its task that is under way was deprived of it, all
runs of a task are deprived at once, runs leave. TaskDispatch implements it with
`running <- {h : Executes(h)}` and `revoked <- robbed`; a lock that is never revoked
would be mutual exclusion, which the code does not give (run `exclusion`).

**NftSync** (`MCNftSync`, `NftSync_proofs`). `table` is the collection,
`from`/`max`/`list` are the variables of `doTask`, `pending` the writes of the
`Promise.all`. A rejected write sets `failed`: the run then hangs, which is what the
code does. `Ledger(k)` is the reference: the state of every NFT according to all
messages up to height `k`. A batch may end in front of a burn that the table has
seen already (the burn deleted the document that carried the cursor, and the next
run starts below it); it then makes a document anew from messages that set only some
of its fields. `Patchy` describes such documents, and `DocIsTrue` admits them for
NFTs that have been burnt since and for no others.

**AccountSync** (`AccountSync_proofs`). `account[a]` is the height an account
document carries and `sentinel` that of the extra document; two runs overlap and
either may be aborted at any place, also in the middle of `insertMany`.

**IdentitySync** (theorems in `Mirrors_proofs`). `todo` is the rest of `insertMany`,
`sent` the updates and key writes nobody waits for.

**StakingSync** (theorems in `WebPages_proofs`). `stage`/`known`/`found` are the
info task, `sent` its unawaited saves and deletes, `copy` the documents the
more-info task will write back, `InsertBlack` the moderator. A document is reduced
to status and mark. The chain always has a bonded validator. Each list is one request
for one page of `ListSize` validators (1000 in the code): no page number is sent and no
next page is asked for, so whoever stands behind it (`Beyond`) is in no list.

**ProposalSync** (`ProposalSync_proofs`). `got`/`owed`/`todo` are two overlapping
runs (the list, the details and the documents still to write), `flags` the unawaited
`updateProposals`, `params` the groups of parameters stored so far, `stored` the
submissions the synchroniser has delivered. The collection, the submissions and the
tallies of a run are read at one moment; what separates them in the code are reads
of data that only grows. A failed proposal has no entry in `proposalStatus`: the
undefined status leaves the old one in place.

**ServiceNames** (`ServiceNames_proofs`). `txs` is the collection in order of
height, `batch` what `findAllServiceTx` returned, `sent` the calls of
`addExFieldForServiceTx` nobody waits for, `binds` the lookups of definitions the
callbacks of `forEach` wait for. A write is a record of what it sets: the name, the
call (which stands for consumer and context as well), or the mark of a definition.
`MaxLate` bounds what a run leaves under way when the next one starts.

The external parts (chain, synchroniser, process, `setInterval`) are actions too;
`map` marks them external. The chain's blocks become visible in order.

### The tasks that mirror one list

**TaskRuns** holds what these modules share: the `Runs` of a task that may overlap,
a bounded number of faults, `Smallest` (`sort` and `limit`, with ties in any order)
and `CutOff` (what the limit leaves behind at the last key). **Mirrors** composes
the modules that follow: they share `faults` but neither collections nor other
variables, so a behaviour follows one of them, `task`. `MCMirrors` only gives the
constants and lets every task but that of the validators start with an empty node.
`Mirrors_proofs` holds the theorems about each and about the composition.

**DenomSync**. `denoms[i]` is the `last_block_height` of a document, the highest is
the cursor. Only `msgs[0]` is read, so a transaction whose first message is of
another type makes a document without an id (`NoId`), and the denoms of later
messages (`issues[x]` has all, `Unread(x)` those behind the first) are never stored.
`cutTxs` and `brokenTxs` are
history: what a full batch or a rejected `insertMany` left behind.

**TokenSync**. A document is its supply, counted from the initial one, and its
height; every mint or burn message of a transaction is added to the token that was
asked for. `tokenSent` are the upserts nobody waits for, which land in any order.

**ValidatorsSync**. `node` is the node's list in the order of its pages, `table` the
collection, `dropped` the deletions nobody waits for. Two runs overlap; the node's
list changes between two pages (`shaky`: whom a page may therefore miss).

**AccountInfo**. What an account owns lies in `Places` and moves between them while
the run asks for balances, rewards, commission and the pages of delegations and
unbonding delegations. `doubtful` is history: totals read while something moved or a
page was missing.

**GovTally** models `tallyDetails` for one proposal: shares from the collection,
votes from the transactions (the `$first` of each group, in any order), delegations
of one voter after another. It is compared with the vote that `getProposalsVoter`
shows for each voter.

### The requests

**Queries** composes these; requests write nothing but the cached types, so a
behaviour follows one kind of request, `part`. `MCQueries` gives the constants and
restricts the initial states: the part that is followed starts in every way that is
of interest, the others in one. `WebPages_proofs` holds the theorems.

**Paging** is a reader who turns the pages of any list: `shown` is what the list has
at present with its sort keys, `counted` what the count would say. **TxQueries**
(nineteen lists of transactions) and **MirrorQueries** (the lists of everything
else) define what each schema selects, sorts by and counts, and instantiate it.

**EdgeFeed** is `txs/e`: the page, the last block read again in a second
command, which returns at most `EdgeRest` transactions of it (10000 in the code), the
elements spliced out while `forEach` walks the array, and a server that
goes on by height or by page. **TypeCache** is `Cache.supportTypes` with the
requests and edits that replace it. **ServicesPage** reads a list of services or
providers and then one count after another; for a binding it also asks whether the
service was disabled, by a transaction that succeeded or not. **VotersPage** picks the
last votes, by the voter of each transaction's first message, and
counts them in later commands, which match any message of a transaction: `votersIn`
and `choicesIn` are what these find, so a transaction may carry several votes. **BlockPower** reads the validator set of a block in
pages, some of which cannot be had. **Statistics** reads indicators at the same time
and gives them back by position; the average block time is read in two commands.
**RichList** reads the sum of all totals before the list of the richest; the account
task's sentinel is in the sum with a total of -1, and in no class.

**SetFacts** models nothing: it holds the lemmas about numbers, finite sets and sums
that the proofs share.

## 4. The runs

| run | asks | instance | states |
|---|---|---|---|
| `dispatch` | `ImplementsLock`, `TaskRunsAgain` under every fault | two instances, a handler of one task on each; p2 does not crash | 320 000 |
| `punctual` | is the two-period margin enough? `FreshWhenPunctual`, `MisjudgedOnOldReading` | two handlers, punctual timers, errors (rejected heartbeats too), late commands, crashes | 1 548 000 |
| `exclusion` | the comment at task.service.ts:177-179, "no other instance executes the task": **violated** | punctual timers, no fault | |
| `nft` | `DocIsTrue`, `NothingSkipped`, `CatchesUp` | 2 NFTs that differ in name only (the first message is about n1), 4 messages in blocks of 1 or 2, heights up to 4, windows of 2 heights, batches of 1, 1 fault | 434 000 |
| `account` | `NothingMissed`, `EveryAddressArrives` | 2 addresses, 2 runs, 1 abort, windows of 2, heights up to 3, any addresses per block | 1 180 000 |
| `identity` | `NoCreationSkipped`, `KeysFollowIdentity`, `EveryIdentityArrives` | 2 identities, 1 key, 3 transactions, batches of 2, 1 fault | 433 000 |
| `identity_update` | "an update_identity transaction updates the identity": **violated** | 2 identities, 2 transactions, no fault | |
| `staking` | `SteadyAreKept`, `MarkIsKept`, `EveryoneIsUpToDate` | 2 validators in any states, lists of 1, 1 change, 1 fault, marks of one validator | 623 000 |
| `proposal` | `FlaggedAreGone`, `VotingHasDetails`, `EveryProposalIsShown` | 2 proposals of which 1 is listed at a time, 2 runs, 1 fault | 343 000 |
| `names` | `NamesAreRight`, `MarksAreRight`, `EveryTxIsNamed` | a service that is defined, bound and called; 2 more transactions of 5 types that succeed or fail, batches of 2, one write left under way, 1 fault | 521 000 |
| `mirrors` | `NoDenomSkipped`, `SupplyMatchesHeight`, `NobodyIsDropped`, `TotalIsTrue`, `TallyIsExact`, `MirrorsSettle` | 1 fault; denoms: 3 transactions with 4 denoms, 2 of them not in a first message, batches of 2, 2 runs; tokens: 2 mints and a burn of one token, one of them about another token as well, limit of 2, 2 runs; validators: 2 names of 2 kinds, any list at first, pages of 1, 1 change, 2 runs; accounts: 2, one of them an operator, 3 transfers; tally: 3 voters, 2 of them validators, 3 votes, 1 redelegation | 945 000 |
| `queries` | `PagesMissNothing`, `CountsMatch`, `EdgeMissesNothing`, `EditsAreSeen`, `VotersAddUp`, `PowerIsWhole`, `StatisticsMatch`, `RespondTimesFit`, `ClassesAddUp` | lists: 3 elements, pages of 1, 2 heights or 2 edits; edge: 4 transactions, pages of 2, blocks read up to 3, 3 heights; types: 3 calls, 3 edits; voters: 5 transactions of 2 people, some with two votes or a message of nobody; power: 4 members, pages of 2; statistics: up to 3 codes, windows of 3 blocks; services: 6 transactions, 2 services; rich list: 3 accounts, with and without the sentinel, 2 classes of 1, 1 change | 1 949 000 |

`nft` and `identity` also check `TypeOK`, `mirrors` `MirrorsTypeOK` and `queries`
`QueriesTypeOK`. Each of these is a theorem too, and the other modules' type
invariants are theorems only. What the passing runs show, and what they exclude by
name:

* `dispatch`: the scheduler implements RevocableLock: every overlap of two runs
  starts with a lock somebody else released; there is no other way. `TaskRunsAgain` has two exceptions, both real:
  a task that never ends keeps its interval, which keeps its lock (`Hung`), and
  an interval no slot leads to refreshes the heartbeat for ever (`Leaked`).
* `punctual`: with timers that fire on time the pass takes a lock from a live run
  only on a heartbeat read earlier in the same pass, since it awaits one release
  after another, or after a heartbeat of that run was rejected (`missed`): one
  rejected heartbeat is enough to use up the margin, also on a fresh reading.
* `nft`: a document is never half of two states, and nothing below the cursor is
  missing. The exceptions are a write that was lost (`lost`) and documents that
  lack fields because their NFT has been burnt since (`Patchy`). The collection
  catches up unless a run hangs after a rejected write (`failed`) or a full batch
  leaves no document above the cursor it began at, so that batches go round in
  circles (`Stuck`); after a burn at the end the cursor falls back, and what was read
  before is read again and again (`LastBurnt`).
* `account`: overlapping and aborted runs never lose an address, except those of
  an `insertMany` that died half way: the height is recorded with the ones that
  got through.
* `identity`: the cursor's height is read again on purpose and that is enough not
  to lose anybody, unless one height fills a batch (`Stuck`).
* `staking`: a validator is deleted wrongly only if he changed status while the
  three lists were read, a list was missing, or he stands behind the page that his
  list is asked for (`Beyond`); such a validator is never shown either. The instance
  has lists of one, so that this happens. A mark gets lost only through a
  deletion or the more-info task's old copy (`disturbed`). Deletions
  and old copies heal as far as the page reaches, the mark does not.
* `proposal`: a flag is wrong only for a proposal that an overlapping run inserted
  between list and reading (`crossed`), and such a flag heals: the proposal counts
  as new in the next run. A removed proposal makes runs throw until its flag has
  landed, and it does because the flag is sent before anything throws.

* `names`: a name is always right and a mark is missing only after a fault. Names
  that never come have two causes: a batch that throws (`Blocked`) and a batch full
  of transactions without a name to find (`Clogged`), such as failed answers. A
  batch throws for good when it has an operation on a request context and no
  answer (`respond_service`): the list of answers is then undefined.
* `mirrors`: a denom below the cursor is missing only at a height that a full batch
  cut, after an `insertMany` that broke off, or if it was not issued by the first
  message of its transaction (`Unread`): nothing ever reads it again. A
  supply is wrong only for a token whose transactions the limit cut within a height
  or that shares a transaction with a mint or burn of another token; runs that
  overlap and upserts that land late never tear supply and height apart. A validator
  is given up wrongly only if one before it in the node's list went between two pages
  (`shaky`); a failed page gives up nobody, it ends the run. A total is wrong only
  if something moved while it was read, a page was missing, the operator's validator
  was not in the collection yet, or an unbonding delegation had several entries, of
  which only the first is counted (`more`). The tally is that of the voters the API
  shows if nothing moved and nobody voted twice, in vain or for several at once
  (`Plain`), and its options add up to its total in any case, unless one account
  leads two groups of votes (it is then counted twice in the total).
* `queries`: a reader of any list misses only what moved, was passed by something
  that went, or has its sort key in common with another element (`unsure`): lists
  sorted by height alone return ties in any order, and in another one for the next
  page. Counts are those of their lists, except for tokens and the unbonding
  delegations of a validator (`DocCountsMatch`). The loop over a spliced array
  leaves duplicates but loses nothing; a block with more transactions than the second
  command returns (`Crowded`) may lose some for a server that goes on by height. The
  numbers of the voters' page are those of the transactions picked first; validators
  and delegators add up to all, but the number of validators is that of their own
  votes only if no transaction has several voters, and an option has every picked
  transaction that votes for it in any message. A binding has an unbinding time if a disabling transaction is there, also one
  that failed. The classes of the richest add up to the sum, or to one more than it
  when the sentinel's -1 is all that lies behind them. Types are seen as new as the request, or as a
  reading that was under way when it came. A page of the chain that cannot be had
  never makes a part of the power. Statistics go under their own names if the
  request names only codes of the endpoint; an unknown one shifts the others.

Why the bounds are enough: each is large enough for the case its properties are
about. The windows and batches are smaller than the chain, so borders are crossed
and batches are cut; two runs, instances or tasks suffice for every two-party
race the code has; a fault can hit any step. In `proposal` two proposals and a
limit of one make the list short as well as full, and a removed proposal is
followed by another; with `Limit = 2` the instance passes with one run (115 000
states). In `punctual` a heartbeat of either handler may be rejected at any time, as often as
it fires. In `mirrors` and `queries` pages hold one or two elements, so that there is
a page that is full, one that is not and one that is empty, and a chain or a
collection that moves between any two of them; the limit on a token's transactions
falls between two of one height, and one block of the edge server's is larger than its
second command reads. `staking` allows one status change, which covers removal, creation and a
move between two lists. Each of the cases that `FreshWhenPunctual`,
`MisjudgedOnOldReading`, `SteadyAreKept`, `NoDenomSkipped`, `EdgeMissesNothing`,
`VotersAddUp` and `ClassesAddUp` exempt by name is reached: without its exemption the
property is violated in its instance. In each table the deadlock check is off only where chain
and tasks may come to rest.

Findings (two violated runs, quoted in `PROJECT.json`): two instances run a
task at once because `lock` leaves the old heartbeat in place; and an identity
update is dropped when `insertMany` meets the creation at the cursor again.

## 5. Fairness

`LiveSpec` asks weak fairness of: the steps of a run (cron starts each task
periodically and the event loop runs every callback), queries and commands
that were sent (MongoDB answers and applies them unless they are lost, which costs
a fault), the
synchroniser, in `mirrors` the runs of the validators' and the accounts' tasks,
their deletions and the staking task that lists an operator, and in TaskDispatch the
passes and timers of an instance that does
not crash. No fairness is asked of the chain, the moderator, faults, or of a
crashed instance. Faults are finite in number: nothing catches up with an
environment that fails for ever. The requests need none: what is asked of them is
about answers that are given.

## 6. Proofs

`tlapm` checks these for all values of the constants, that is any number of
instances, tasks, handlers, NFTs, addresses, validators, proposals, denoms, votes,
documents, calls and runs, and any window size, page size or limit. Every invariant
and every action or refinement property of the passing runs is the subject of a
theorem.

**The scheduler and the larger tasks**

* `TaskDispatch_proofs`: `TypeCorrect`; `LockHeld` (`OneHolder` and
  `HolderKeepsLock`); `HeartbeatsAreFresh`; `MisjudgedOnlyOnOldReading`.
  `HolderKeepsLock /\ OneHolder` is inductive together with `TypeOK`: a lock is won
  only when free, and whoever opens it marks every other run of the task as robbed.
  Freshness needs the strengthening that an interval which has fired in this period,
  and was not rejected, has age 0.
  `Refinement` shows that every step of the scheduler is a step of RevocableLock or
  leaves it as it is: a start needs a free lock, so by `LockHeld` all other runs of
  the task were robbed; every release by somebody else robs all of them.
* `NftSync_proofs`: `TypeCorrect`; `DocumentsAreTrue` (`DocIsTrue`);
  `NoMessageSkipped` (`NothingSkipped`). `NftInv` adds to the types: the messages
  are a chain (`Chains`: heights do not decrease, each message is accepted where it
  stands); the list of a run is what lies between the cursor and `from`, and nothing
  waits to be written before the reading is over (`RunIsSane`); and there is a
  height `b`, the end of the batch, which nothing in the collection or under way
  exceeds, such that every write under way brings its document to what the chain
  said at `b`, and whatever has no write agrees already (`TrueUpTo`,
  `WritesAreTrue`). That folding a batch and then setting its fields comes to what
  the chain's history comes to is shown message by message; the case of a document
  made anew without all its fields is where `Patchy` comes from.
* `AccountSync_proofs`: `TypeCorrect`; `CursorIsSafe` (`NothingMissed` and
  `BehindTheChain`). The inductive invariant `IInv` adds that each height a run
  holds in `from` or is about to record in `handled` is itself covered, that
  transactions are not above the chain, and that nothing is pending in a run that
  has not built its window.
* IdentitySync, in `Mirrors_proofs`: `IdentityTypes`, `NoIdentityIsPassed`
  (`NoCreationSkipped`) and `KeysComeAfter` (`KeysFollowIdentity`). The cursor is a
  height found in the data, so `HeightsAreSafe` speaks of every height it may come
  from, those of documents, of batches read, of inserts and of updates under way:
  whoever was created below it is stored, lost, or about to be inserted by the run
  that holds it (`SafeBelow`).
* StakingSync, in `WebPages_proofs`: `TypeCorrect`; `DeletionsAreRight`
  (`SteadyAreKept`); `MarksAreKept` (`MarkIsKept`). For the first, `ListsCover` says
  that a validator who has not moved, and was not behind the page of his list
  (`vouched` drops him otherwise), is found as soon as that list has been read; by itself `SteadyAreKept` says nothing of a run half way. For the
  second, `MarkInv` adds the copies the more-info task holds, and that nobody
  without a document is marked.
* `ProposalSync_proofs`: `TypeCorrect`; `DetailsAreThere` (`VotingHasDetails`);
  `FlagsAreRight` (`FlaggedAreGone`). `DetailsFirst` adds the documents a run has
  still to write. `FlagInv` carries the argument about the limit: what anybody knows
  is on the chain and within the first `Limit` for as long as the chain has it
  (`Secure`), because numbers grow, so a list that lacks a stored proposal was read
  after its removal (`GapsAreGone`).
* `ServiceNames_proofs`: `TypeCorrect`; `NamesStayRight` (`NamesAreRight`);
  `MarksStayRight` (`MarksAreRight`). Both arguments are about the writes under way:
  `NameInv` says that each is right about its transaction, in spite of those that
  arrived since it was sent; `MarkInv` that whenever a binding's name is there or
  under way its definition is marked, about to be, or has lost its mark.

**The tasks that mirror one list** (`Mirrors_proofs`)

* `DenomsAreKept` (`NoDenomSkipped`): `RunIsComplete` says that the batch of a run
  has everything between the cursor it began with and any of its own heights, but
  for what is counted as cut or broken, and that this cursor is not above the
  present one; a new block lies above all of it. `DocsAreOfTxs` says that every
  document is of a first message, so what a later message issues is not stored;
  `DenomInvMeans` puts the two together.
* `SuppliesAreRight` (`SupplyMatchesHeight`): every document, present or on its way
  in a fold or an upsert, has the supply of its own height (`DocFits`), so it does
  not matter in which order they land; a run that read everything up to a height
  adds exactly what `SupplyGrows` says lies between.
* `NobodyIsGivenUp` (`NobodyIsDropped`): `ValInv` says that whoever is not shaky is
  on the node, and is found already or stands behind the pages that were read; that
  the reading does not stop before is a fact about numbers: the places of a list are
  exactly 1 to its length (`EveryPlaceIsTaken`), so a page with somebody behind it
  is full (`PageIsFull`).
* `TotalsAreTrue` (`TotalIsTrue`): while nothing moves, the sum of a run is that of
  the places it has counted and of the pages it has seen of the others
  (`CountsFor`).
* `TalliesAreExact` (`TallyIsExact`): `RunIsRight` says that the total is what the
  entries add up to, as long as no account leads two groups (`EachOnce`), and that
  the options have the power of exactly the voters counted so far, each with his own
  or his delegated power, as long as nothing moved and the votes are plain
  (`CountsRight`).
* `MirrorsAreTyped` (`MirrorsTypeOK`), with the bounds the types name: the sum of a
  run and what it may still count (`MayCount`) never exceed what the account is
  worth and what has been transferred (`InfoBounds`); votes are numbered by their
  casting, and deductions are made from what was added (`TallyBounds`).
* `TasksKeepTheirWord`: each step of the composition is, for each task, one of its
  own steps or leaves it alone (`TasksMove`), so the five properties above hold
  together (`MirrorsAreRight` and `TallyIsExact`).

**The requests** (`WebPages_proofs`)

* `NoPageIsSkipped` (`PagesMissNothing`) and `CountsAreTrue` (`CountsMatch`), for
  both kinds of lists. `TxReading` and `DocReading` say of each element of the list
  the reader began with that it was shown, is unsure, or stands behind the pages
  turned so far (`ReaderKnows`), and of a steady list that what the reader was told
  is its length (`ReaderCounts`). Where an element stands is counted with all that
  share its key (`Down`), so it can come forward only if something before it went.
* `FeedIsComplete` (`EdgeMissesNothing`): `EdgeInv` says that what the server has
  got is everything up to the height it goes on after, and that nothing else is
  missing of what it has reached but the rest of the block at the end of a full page
  (`Covered`); and that it has reached as many transactions as the pages turned so
  far hold, so that those before a page are among them (`Counted`). Blocks larger
  than the second command's limit are left out of `Covered` (`Crowded`). That `forEach`
  over an array that is spliced meanwhile leaves duplicates but loses no element is
  shown for the loop at any of its steps.
* `SeesEdits` (`EditsAreSeen`): every reading that is still to be put into the cache
  is as new as any call under way may ask (`ReadingsAreNew`), whence the cache is
  (`CacheIsNew`).
* `TimesFit` (`RespondTimesFit`), by monotony of the counts (`ResponsesGrow`) and of
  what is disabled (`DisabledFit`);
  `NumbersAddUp` (`VotersAddUp`), since the votes picked first are one of each voter
  (`OneOfEach`), so that there are as many transactions as first voters; the counts are those of
  one set and its complement, and if each transaction has one voter they are those
  of the two kinds (`KindsOfVotes`).
* `PowerIsNeverPartial` (`PowerIsWhole`): what was read is a prefix of the set, or
  there is an `undefined` in it (`GotIsPrefix`), and a sum with that is no number.
* `IndicatorsMatch` (`StatisticsMatch`): results come by position of the codes that
  have a query (`ResultsFit`), and the older of the two blocks lies less than the
  window below the newer (`WindowFits`).
* `RichClassesAddUp` (`ClassesAddUp`): what was summed is the sum of the present
  totals, less one with the sentinel, while none has moved, the list is a ranking (`IsRanking`), and the classes
  take places of it that do not overlap.
* `QueriesAreTyped` (`QueriesTypeOK`); `WebLayerIsItsParts`: the composition
  implements each of the nine specifications it is made of.

**How data are reasoned about.** The library's induction theorems take an operator
as a parameter, which the provers at hand cannot instantiate, so `SetFacts` states
what they say of sets: `Climb` (a set of numbers that has the first and with each
number the next has all of them, by a least counterexample) and `MemberByMember`
(the same for finite sets). With these, `SumsExist` shows that the recursive
function behind a sum over a finite set exists, and the lemmas after it what sums do
under union, addition, comparison and a change of one member. For the recursive
functions of the modules (`After`, `WritesOf`) it is shown in the same way that they
exist, and then what they are, index by index.

**Assumptions** are the named ASSUMEs of the modules: `HandlerAssumption` and
`SettingAssumption` (TaskDispatch), `NftSettings`, `AccountSettings`,
`IdentitySettings`, `StakingSettings`, `ProposalSettings`, `ServiceSettings`,
`RunSettings`, `DenomSettings`, `TokenSettings`, `ValidatorSettings`,
`AccountInfoSettings`, `TallySettings`, `TxQuerySettings`, `DocQuerySettings`,
`EdgeSettings`, `TypeSettings`, `ServicePageSettings`, `BallotSettings`,
`BlockSettings`, `StatisticsSettings`, `RichListSettings`. They say that sizes and
bounds are numbers, that sizes are positive, that what is summed is finite, and of
which kind the constants are that describe data. TLC evaluates them in the runs of
their modules.

**Only model-checked** is liveness, as TLAPS has no fairness or ENABLED here:
`TaskRunsAgain`, `CatchesUp`, `EveryAddressArrives`, `EveryIdentityArrives`,
`EveryoneIsUpToDate`, `EveryProposalIsShown`, `EveryTxIsNamed` and `MirrorsSettle`.
The two violated properties are counterexamples and nothing to prove.

## 7. Not modelled

The components with status `not_modelled` in `PROJECT.json`, with reasons: clients
of the chain (pure I/O; what a failed request returns is in the modules of their
callers), the web layer, configuration and logging, and requests answered by one
read. Within the modelled components:

* tasks: values of fields no property tells apart, timestamps other than
  heartbeats, `getTaskStatus` (it only delays a run), the denom names of NFTs, several
  messages per identity transaction, uptime and slashing figures of validators, the
  values of governance parameters, the rounding of supplies in floating point;
* requests: the monikers joined to lists, transactions and blocks by hash or height,
  pages about one validator, account or proposal, the deprecated list by service
  name, shapes and types of answers (`dto/`).

## 8. Plan

1. The joins of lists: monikers and names of services that are looked up after the
   list was read.
2. ProposalSync composed with GovTally: a vote that is stored after the last tally.
3. TaskDispatch composed with a task's cursor: what an overlap the scheduler lets
   happen does to AccountSync, in one instance.
4. Proofs: whatever 1 to 3 add; that `ReaderMissesNothing` of Paging holds of any
   list, stated once for both kinds of lists (it is proved of each now).

At most twelve runs are kept, one per question: later modules share runs where
one instance can answer both questions.
