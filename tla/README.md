# Verification of vcalm-status-service

TLA+ specifications of the VCALM status service: TLC model-checks them on small
instances and TLAPS proves their main properties for every instance. Paths below
are relative to `service/src/` unless they start with `docs/` or `packages/`.

## The system

The service keeps *status lists* (bitstrings that say which credentials are revoked or
suspended) and publishes each one as a signed credential. Its rule is
**sign-on-update**: the credential that publishes the bits is signed inside the
transaction that changes them, so a GET serves stored bytes and signs nothing
(`docs/adr/2026-08-08-sign-on-update-sql-storage.md`).

| component | state | operations | talks to |
|---|---|---|---|
| `StatusListManager` (`status-lists/manager.ts`) | none of its own | `createList`, `setStatus`, `setCredentialStatus`, `allocateIndex`, `allocateForCredential` | storage, signing, tenant registry |
| SQL storage (`services/storage-sql*.ts`) | tables `status_lists`, `index_allocations`; transactions and row locks | `createStatusList`, `updateStatusList`, `allocateIndex`, `findStatusLists`, `countAllocations`, `isIndexAllocated`, `getAllocation` | Postgres, or SQLite on one connection |
| in-memory storage (`services/storage-memory.ts`) | maps, and a promise chain for each list | the same contract | – |
| signing (`services/signing-*.ts`, `packages/vc-signer`) | the cache of derived signers | `issuerDid`, `sign` | a remote signer in HTTP mode |
| tenants (`services/tenants*.ts`) | the registry read at start | `getTenant`, `getTenantByToken`, `resolveIssuerInstance` | environment |
| routes (`routes/*.ts`), `auth.ts`, `domains.ts` | – | create, GET with ETag, status update, allocate | manager, storage |
| `server.ts` | process | start, shutdown on a signal | closes the storage |
| CLI (`cli/*.ts`) | the env file | `appendEnvBlock` | file system |

What is hard in it:

- **Concurrency.** Requests interleave at every `await`, and several servers share one
  Postgres. A flip is read, signed and written under a row lock. An allocation is a sequence of
  separately committed statements (find, count, mint, probe, insert, classify), each
  acting on what an earlier one read.
- **Failure.** The signer can refuse or time out with the row locked; the connection
  can die before or after a statement took effect; the process can die, or shut down
  without draining (`server.ts:27`), between any two steps.
- **Limits.** 64 probes, the roll threshold, the number of lists that racing allocators
  mint, the connection pool, millisecond timestamps.

- **Staleness.** HTTP caches, a signer cache that holds promises in progress, an entry looked up before
  it is used, an env file that two runs of the CLI and an operator's hands all edit.

What makes each component correct: no flip is lost and each takes effect atomically;
the credential publishes the bits; a version names one credential; an entry is given
to one claim for good, in a list of the claim's tenant and purpose; lists neither fill nor pile
up; every request ends, and what its HTTP status says is true; nobody waits in a circle; a list is
signed with its own tenant's key, found where its tenant may publish and nowhere else, and never
lost from a file or a database. `PROJECT.json` lists every hazard at its line.

## The modules

| module | what it is |
|---|---|
| `StatusListData` | rows, credentials, operations and outcomes of status lists |
| `AtomicStatusLists` | abstract: each request takes effect at one instant, or not at all |
| `SignOnUpdate` | `createList` and `setStatus` over SQL, step by step, and the conditional GET |
| `SignOnUpdateProofs` | its theorems |
| `EntryRegistry` | abstract: a claim is bound to an entry once, alone and for good |
| `Allocation` | `allocateForCredential` and `allocateIndex` over SQL, step by step |
| `AllocationProofs` | types, list matching, and the implementation of `EntryRegistry` |
| `AllocationBounds`, `AllocationMinting` | the overshoot bound and the minting bound |
| `MemoryStorage`, `MemoryStorageProofs` | the same handlers over the in-memory backend and its promise chains |
| `ProblemDetails` | which HTTP status each outcome has |
| `CredentialLedger` | abstract: what the routes promise issuers, with lists and storage left out |
| `StatusService`, `StatusServiceProofs` | the routes and `setCredentialStatus` end to end, with lost answers and HTTP caches |
| `ConnectionPool` | connections and row locks |
| `Signers` | the local signer cache, and the choice between it and a remote signer |
| `WritePath`, `WritePathProofs` | requests over `ConnectionPool`, `Signers` and `ProblemDetails`: who waits for what |
| `EnvFile` | the env file as the registry the service reads from it |
| `Provisioning` | runs of the CLI and an operator's hands on that file; extends `EnvFile` |
| `ListUrl` | which URLs of lists are accepted, routed and selected |
| `Deployment` | what a start makes of its environment: what is refused, and where lists are kept |
| `Tenancy`, `TenancyProofs` | `Provisioning`, `ListUrl` and `Deployment` together: tenants, restarts, authentication, lists under hosts |
| `MC*.tla` and `MC*.cfg` | the instances TLC checks |

How they build on each other: `SignOnUpdate` and `Allocation` open up the two operations that are a
sequence of awaits, and are shown to behave like single steps (`AtomicStatusLists`, `EntryRegistry`).
`StatusService` takes them as single steps, and looks at what remains between such steps.
`WritePath` looks at the same awaits for what they hold and wait for, not for what they
store. `MemoryStorage` replaces the storage below the first. `Tenancy` has the time scale of a
deployment, with whole handlers as steps.

Definitions whose comment starts with "Mutant:" are wrong versions of the definition
that follows them, kept to show that the properties reject them.

### SignOnUpdate

One request is one call, made once; a client that retries makes another request. `row`
is `status_lists` and `lock` the row lock of an open transaction. `phase`, `seen` and
`built` are a handler's program counter and locals, `outcome` is what it answers, and
`registry` is what each server knows of issuer instances, which a restart can change.
`copy` is what HTTP caches hold. A phase ends where the code
awaits something that another request, a failure or a crash can come between:

| phase | code | next |
|---|---|---|
| creating | `issuerInstanceFor` | minting |
| minting | bitstring and `#materialize` in `createList` | inserting |
| inserting | `createStatusList`, with its read-back | done |
| reading | `getStatusList` at the start of `setStatus` | resolving |
| resolving | `#instanceFor` | waiting |
| waiting | transaction and `#lockStatusList` | applying |
| applying | the checks of `#applyStatus` | signing, or done |
| signing | `#materialize` in the transaction | writing |
| writing | the update and the commit | done |

`SigningFails`, `StorageFails`, `InsertUnacknowledged`, `CommitUnacknowledged` and
`Crash` are the failures. A lost acknowledgement is an effect with an answer that denies it;
in `createStatusList` the read-back then finds the request's own row and calls it a duplicate.
The read-back that follows a real duplicate is one step with the insert, since lists are never deleted.

Two abstractions: the encoding of the bits is lossless and left out, and a signature is the record
of what was signed. `Init` takes any fresh lists and any registries, so an instance
that disappears in a restart (a list that cannot be re-signed) is among the behaviours.

### Allocation

A slot is a request in flight and serves any number of requests in turn, so `Slot` is the
concurrency of the whole deployment. `list` and `allocation` are the tables, `clock` gives
`created_at`, `unread` is what remains of the snapshot of `findStatusLists`, and `minter` is
a history variable. Every statement is a step. `ClaimIndex` is the insert with its two unique
constraints; when it fails, `Classify` and `Recheck` are the two reads of
`#classifyAllocationFailure` that can answer. Its third read, of the list, always finds
it. `ClaimUncertain` is an insert whose connection fails, with or without effect.
The second read of the list at the start of `allocateIndex` reads immutable columns that the
same request has just read, and is part of the selection step.

Nothing guards a minted list's id but that it is fresh, as a random UUID is. `Chosen` are
the ids callers name in `statusListId`; a minted list may be one of them, since callers
learn ids from the entries they get.

### MemoryStorage

One process (`services/storage-memory.ts`). `lists`, `allocations` and `used` are the three maps, `tail` is
`#locks`, and `behind` is the `previous` that an update closed over. An action is what runs between two
awaits: a settled promise and its `finally` block are two of them (`settled`, then `done`), so an
update that arrives in between finds the old tail. `StartUpdate` waits for the one before it
to settle either way, as `.catch(() => undefined)` does. `Restart` empties everything but
what clients hold; `lost` are the requests that were in progress. `Client` caches carry the life they
were filled in. An allocation is a single step, since it has no await.

### StatusService

A slot serves requests of three kinds: `POST /credentials/status/allocate`, and `POST /credentials/status` by
credential or by explicit selector. Its phases are those between which something else can
happen: `looking` (the entry or list is looked up), `setting` (`setStatus` with the entry
that was found) and `answering`. `Allocate` and `SetStatus` include the lost acknowledgement: done, and
answered with the 409 or 500 that the code then gives. `LoseAnswer` is the answer that does not reach the caller.
`version` counts the changes of a list, `cached` is what an HTTP cache may answer with (only
for lists created with a `ttl`, `cacheControlFor`), and a verifier's GET is three steps, so that answers may overtake each other.
`acked`, `accounted`, `overridden` and `misled` are history variables.

`KeepsTheLedger` says it for an issuer: 200 means done, 400 and 404 not done, 409 done already, possibly
by this very request, 5xx either way. It also says what the explicit selector costs: a credential may be born
revoked, but only in a scope in which a selector of the same tenant and purpose has set a bit that nobody had.

### WritePath

A slot is a request of a server: a flip, a create, a GET or the health check. `held` are the requests
that hold a connection, `rowOwner` the row locks, `signers` the promises of
`LocalSigningService`, `joined` who awaits one. `AnswerAll` ends requests with a code, and gives back what
they hold. A flip holds its connection and its row while it signs, a create holds
nothing, and the read of `setStatus` has given its connection back when the transaction asks for one; that is what
`WaitsEnd` turns on. A failing derivation fails everybody who shares it, in one step, because the
rejection is delivered before anything else runs. In HTTP mode the answer comes in two parts, headers (`RemoteAnswers`)
and body (`RemoteSends`), and the timeout can strike in either.

A stored row is only the key that signed its credential. A rejected promise of the pool, a failing statement and a
broken connection are all `StatementFails`. What a connection pool or an unlocked row does next is up to fairness.

### EnvFile, Provisioning, ListUrl, Deployment and Tenancy

A block of the env file is what one run of the CLI appends. Its variables shadow earlier ones one by one, so
`Variables` takes each from the last block that sets it. `KeyMaterial` refuses a seed beside a pair and
`Collides` a token that two tenants have. A run is two steps, `ReadFile` (with
the check for the tenant) and `WriteFile`; anything may happen to the file in between, and a read that
fails counts as no file. `RemoveBlock` and `CopyBlock` are an operator's hands.

`Deployment` has the variables that decide where lists are kept (`STORAGE_MODE`, `SQLITE_FILE`, `DATABASE_URL`), under which host
the service answers (`PUBLIC_BASE_URL`), where tenants come from and what is refused. A store is a file, a database or `InMemory`:
the maps of `MemoryStorage`, and SQLite under the name `:memory:`. Every `Boot`, the first one and each restart, may be in another
environment. It reads the registry, or leaves no service if the environment or the registry is refused; it empties `InMemory` and
leaves every other store, as `init` does. `stored` is what the stores hold, `Lists` what the running service has of it,
and `created` a history variable: what creates in files and databases were answered with.

`Authenticates` is `auth.ts`; `Create` is the handler with its
URL and host checks; `Served` and `ListFromUrl` are the two ways to find a list. URLs are a
host and a path, and a path is a slug with the way it is written, since the create, the router and the selector
disagree about exactly that.

## What the runs show

| run | instance | properties |
|---|---|---|
| `flips` | 1 list, 2 indexes, 2 servers, 3 requests | `TypeOK`, `RowLockHolds`, `VersionsHaveOneWriter`, `NoLostFlip`, `RedundantAnswerIsTrue`, `RequestsAreAtomic` |
| `answered` | 1 list, 2 instances, 2 URLs, 2 requests, 2 caches, with fairness | `CredentialPublishesBits`, `VersionNamesCredential`, `EveryRequestEnds` |
| `registry` | 2 tenants, 2 purposes, 2 slots, 2 lists | `TypeOK`, `AllocationMatchesList`, `EntriesAreForLife` |
| `rolling` | 3 credentials, 2 slots, 4 lists of 2 entries, threshold 1, 1 timestamp | `OvershootBound`, `RoomToAllocate`, `MintingBound` |
| `allocated` | 2 credentials, 2 slots, 3 lists of 2 entries, with fairness | `EveryAllocationEnds` |
| `memory` | 1 list, 1 index, 3 requests, 2 claims, 1 cache, 2 lives, with fairness | `TypeOK`, `WritersTakeTurns`, `QueuesAreDropped`, `EntriesAgree`, `VersionNamesCredential`, `UpdatesAreAtomic`, `EveryUpdateSettles` |
| `service` | 2 tenants, 2 purposes, 1 credential, 1 list of 1 entry, 2 slots, 1 verifier, 3 versions | `TypeOK`, `FreshAfterAnswer`, `StrandedOnlyByLoss`, `KeepsTheLedger` |
| `writing` | 2 slots, 2 lists, pools of 1 and 2, both signing modes, with fairness | `TypeOK`, `NothingLeaks`, `WaitsEnd`, `SignedByOwnKey`, `FailureIsShared`, `EveryRequestAnswered` |
| `tenancy` | 2 CLI runs, 2 tenants, 1 domain and the service's own, 2 slugs, 2 stores, 7 environments | `TypeOK`, `TenantsAreCoherent`, `ListsAnswerAtHome`, `SelectorFindsLists`, `ListsArePermanent`, `LatestBlockIsRead` |
| `exhausted` | 1 slot, 2 entries, 1 probe | `ExhaustedMeansFull`, violated |
| `shadowed` | 2 CLI runs, no hands | `LatestBlockShadows`, violated |
| `forgotten` | 1 list, production on SQLite in memory | `ProductionRemembers`, violated |

Why the bounds are enough.

- `flips`: lists share nothing but the requests that touch them, so one list with
  three writers shows every way of losing a flip: one holds the row, one waits, and one comes later to find
  the damage. Two servers are needed for a crash that spares somebody.
- `answered`: two creates that differ in issuer or URL, or a create and a flip, with two caches to hold different copies of one
  version. A request is made once, so waiting for ever takes only one other that keeps the row; that a row
  is not taken again and again from under a waiter is checked in `writing`, where requests never run out.
- `registry`, `rolling`, `allocated`: two allocators suffice for every race, three credentials overshoot a list of two
  entries and still want an index of it, a threshold of
  one entry makes lists roll at once, and four lists leave room for one full list and three spare ones, one more
  than the minting bound allows. `MaxClock` bounds the clock: 1 gives two distinct
  timestamps as well as ties. In `rolling` it is 0: all lists are tied, so they come in every order, those of
  distinct timestamps included. `List` bounds how many lists are ever minted; in `allocated` it is
  large enough that minting never runs out of ids, by the minting bound itself (at most two
  spare lists and one full one).
- `memory`: three updates make a chain with a running, a waiting and an arriving one, and removing the wrong tail needs
  all three. Two lives have one restart between them, and `MaxLives` bounds only restarts. Two claims compete for the one index.
- `service`: a second tenant and a second purpose are there to be confused with the first. With one index, an entry
  that is selected before it is allocated is the one that is allocated. `MaxVersion` bounds the changes of a list, not the requests;
  three are what it takes for a caller to know of one version, a cache to hold an older one and a verifier to
  be on its way with the one between.
- `writing`: slots are used again and again, so runs are endless. With one connection a second waiter shows every
  circle of length one or two; with two connections both requests can be inside a transaction of one or of two lists. The two instances
  have one name and two keys, as two tenants' `default` instances do.
- `tenancy`: two runs race, two tenants copy each other's secrets, and two lists can be told apart. `MaxBlocks`
  bounds what hands add (two blocks); the runs add theirs on top. `MaxLists` bounds the lists there are at once (two): enough for two
  under one store, and for one in a file while the service runs in memory. The environments are production, each single thing production
  refuses and one it misses, development in memory, and development on the file of production, without tenants and under another
  base URL. Creates happen in a file and in memory; the file is left and come back to.

The proofs need none of these bounds.

`CHECK_DEADLOCK FALSE` stands where a system may stop: a finite set of requests
(`SignOnUpdate`, `MemoryStorage`). `Allocation`, `StatusService`, `WritePath` and
`Tenancy` never stop and are checked for deadlock; of the slots of `WritePath` that says that they do not all wait for each other.

Symmetry is used in the safety runs only, and only of sets whose members the
configuration treats alike.

### Fairness

- `WF(Progress(r))`: Node resumes every continuation, and the database and the local signer answer or
  fail. Failing is one of the ways to progress, so no success is assumed.
- `SF(LockRow(r))` in `SignOnUpdate`, `SF(Lock(r))` in `WritePath`: Postgres grants row locks from a queue, so a writer that can
  repeatedly get the row eventually does. Weak fairness would not do: the row is taken and let go in between.
- `SF(GetsConnection(r))`: the pools of Kysely and of `pg` serve waiters in order.
- `WF(Derive(k))`: the derivation of a signer settles; it may have failed before.
- `WF(Timeout(r))`: `AbortSignal.timeout` fires. Nothing is assumed of the remote signer, which may never answer.
- `MemoryStorage` needs no strong fairness: the promise chain is the queue, and the run shows that it is a fair one.
- Nothing is assumed of crashes, faults, clients, caches, hands or the clock.

### The findings

`exhausted`: `errors.ts:14` says of `list-exhausted` that "the list has no room left",
and the message at `manager.ts:237` that the list "has no free index left". The loop draws
with replacement and counts lost races, so it can give up with free indexes left. With 64
probes and lists rolled at half full this is improbable, and `OvershootIsBounded` is the reason why it
stays so for lists that callers do not name; a list that callers fill by name can get there.

`shadowed`: `cli/provisioning.ts:270` offers `--force` "to append a second block that will shadow it". Shadowing works
variable by variable, and the two profiles keep their keys in different variables: a second block of the other
profile leaves the first one's key set, `services/tenants-env.ts:88` refuses a seed beside a pair, and the service does not start
again, for any tenant.

`forgotten`: `config.test.ts:62` says that `parseConfig` "refuses storage that forgets its lists in production", for the reason
given at `config.ts:143`. It refuses `STORAGE_MODE=memory`. `STORAGE_MODE=sqlite` with `SQLITE_FILE=:memory:` is accepted
(`config.ts:81`, `config.ts:96`) and forgets its lists as well (`services/storage-sql.ts:41`). What holds instead is
`ListsArePermanent`: nothing created in a file or a database is ever missing from it, whatever is started in between.

### What a reader of the code should know besides

Behaviours the modules have because the code has them, and that no run is about:

- A body that is malformed or comes too late makes `services/signing-http.ts:128` throw outside the
  `try`: the caller gets a 500, though `services/signing.ts:30` has `signing-unavailable` for a signer that "answered too slowly" (`Timeout`, `RemoteSends`).
- Signing under the row lock costs a connection, so with a pool of one (SQLite) or one full of
  such transactions flips of other lists and GETs wait too; the ADR calls the cost "Per-list, not global" (line 77). They are all answered in the end (`EveryRequestAnswered`).
- A list with a `ttl` may be read stale for as long as that, which is what `FreshAfterAnswer` leaves out.
- `slugFromListUrl` says the path "must be exactly" the one that is routed (`routes/status-lists.ts:57`) and drops empty segments: a list created under a padded
  URL can be selected and is never served (`ListsAnswerAtHome` speaks of routed URLs only).
- Any error of reading the env file counts as no file, and the run writes over it; of two runs that find no file the second
  does the same (`CareKeepsTenants` says what it takes to avoid both).
- A forced block that names no domain keeps those of the last block that names some (`NamedLast` in `LatestBlockIsRead`).
- Lists stay in the store they were created in. A service started on another one, or with a relative `SQLITE_FILE` and without its volume, does
  not have them, and under another `PUBLIC_BASE_URL` it does not answer for lists of the former one, though it has them: neither is refused.
- Across restarts of the in-memory backend an ETag can name two credentials (`VersionNamesCredential` speaks of one life).

## What is proved

For every value of the constants, from the assumptions named in the modules: marks such as `None` and
`BeyondEnd` are not values of the data, every request has a home server, the sets of lists,
indexes and slots of the two counting modules are finite, the thresholds and bounds are positive, chosen
lists are lists, domains are hosts, and memory is neither a file nor a database. `RefusedAssumption` of `EnvFile` is of the first kind: the mark of
a refused file is no key and no registry.

Every invariant, action property and refinement of the passing runs is a theorem. Further theorems say what follows from
them for callers and operators, and what carries the liveness properties; their formulas stand in the proof modules. Each proof module has an inductive
invariant `IInv`; what follows says what is in it and why.

`SignOnUpdateProofs`

- `IInv` is `TypeOK`, `HandlerState` (what a request holds in each phase), `RowLockHolds` and
  `CredentialPublishesBits`. Mutual exclusion alone is not inductive: it needs to know that a phase
  under the lock has the lock and works on the row as stored, which is also why a write
  publishes the right bits.
- `Linearizable`: under `IInv` each step of a handler is a step of `AtomicStatusLists` or
  leaves `row`, `op` and `outcome` alone; the flip happens at the commit, a redundant answer
  while the lock holds the row still.
- `OneWriterPerVersion`, `FlipsSurvive`, `RedundantAnswersAreTrue`: the strengthening `WriteInv`
  relates each stored bit to the version of its last writer.
- `EtagsAreStrong`: versions only grow and change with the credential.
- `NothingButFlips`: from the lock to the commit the row is what was read, so all that ever happens to a list is that one bit
  turns. This is the immutability that `#instanceFor` relies on when it resolves the instance before the transaction.
- `VersionsAreCounts`: a version is 1 plus the number of requests whose flip is in the database, those whose clients were told of a
  failure included. `WriteInv` pairs versions and writers one to one, and a bijection carries the count.
- `AnswersAreOrdered`, `ReadsAreOrdered`: what a client may conclude from an answer. Answers about a list name versions in the order in which they
  are given, whichever server gives them, and a flip names one above all before it. A client's copy never goes back, and a GET, a 304
  included, serves at least every version answered before it: who flips a bit and then reads sees it. The strengthening `AnswerInv` is
  `WriteInv` and that no answered version is ahead of the stored row.
- `RequestsRunOut`, `LocksEnd`: the safety half of `EveryRequestEnds`. A request has at most 6 steps left, each of its own lowers the number, and
  nobody else raises it. Who holds a row has 1 to 3 of them left, holds no other row and waits for none, so a queue for a row always moves.

`AllocationProofs`

- `IInv` is `TypeOK`, `SlotState` and `AllocationMatchesList`. An entry matches its list
  because a slot's list matches its claim from selection to insert, which
  holds as lists are immutable and never deleted.
- `EntriesAreKept`: the insert is the step that binds, acknowledged or not, and every other
  answer is a refusal that is true when it is given.
- `EntriesAreUnique` and `AnswersAreTrue` follow from the registry alone: its steps keep them, and each step of the handlers is one of these or a stutter.

`AllocationBounds`: `OvershootIsBounded`. The entries of a list plus its bidders (slots that have
taken it and whose claim has no entry) stay below the threshold plus the number of slots. A slot
becomes a bidder only of a list under the threshold; an insert turns a bidder into an entry, a lost
acknowledgement included. `MintedListsHaveRoom` takes the same sum to the indexes of the list: while fewer requests are in flight than
a list has indexes above the threshold, a bidder has an index left to find. It is the sound part of what `exhausted` refutes:
`list-exhausted` is bad luck there, never a full list.

The same module has the safety half of `EveryAllocationEnds`. `StepsLeft` is a variant: the statements a request can still make. It is at most
`4 * Attempts + 5 + Cardinality(List)` and 0 exactly when the request has ended (`RequestsAreShort`); each step of its own, failures included, lowers it, and
no step of another raises it (`RequestsRunOut`), so no number of lost races keeps an allocation going.

`AllocationMinting`: `MintingIsBounded`. A slot mints only after counting each list of its snapshot as
full, and full lists stay full. So of the lists under the threshold no two have the same minter, and an
injection into the slots bounds them. `SpaceIsBounded` turns this into a bound on all lists minted for a tenant and purpose: with `n` of
them, `RollAt * n` is at most the entries of that tenant and purpose plus `RollAt` times the slots. Every full list has `RollAt` entries of its own, which an injection of
full lists times `1..RollAt` into the entries counts.

`MemoryStorageProofs`

- `IInv` is `TypeOK`, `HandlerState`, `ChainShape` and `QueueOrder`. The last one says that the pending updates of a list
  can be numbered so that each waits for the one numbered before it, the one whose turn has come is the least and the tail the
  greatest. The code has no such numbers; without them nothing excludes two updates that wait for
  one settled promise. An arriving update gets the number after the tail's.
- `ChainIsALock` also says that the chain is never stuck: while updates are pending, it is the turn of exactly one, the least number. With
  `WF(Progress(r))` that is why `EveryUpdateSettles` holds.
- `ChainIsALock`, `ChainsDoNotGrow`, `EntriesStayInStep`, `EtagsAreStrong` follow, the last two with invariants of their own.
- `MemoryIsAtomic`: between restarts each step is one of `AtomicStatusLists`, the same specification the SQL backend implements.

`StatusServiceProofs`

- `IInv` is `TypeOK`, `SlotState`, `EntryState` (no two claims share an entry, and its list has the claim's scope), `BitState`
  (a bit that nobody's entry has is a selector's work, in a scope of `overridden`), `VersionState`, `FreshAfterAnswer` and `StrandedOnlyByLoss`.
- The lemma `Growth` says that lists and entries are for life and versions grow. It is why a lookup is still right when it is used and why a
  verifier that asks late is not misled.
- `LedgerIsKept`: each step is a step of `CredentialLedger` or leaves its variables alone. That a flip changes one
  claim only is `EntryState`; that a claim is born set only in an overridden scope is `BitState`.
- What the ledger means to a caller follows from the one lemma `LedgerStep`. `OnlyOwnClaims`: a claim changes only by a request about it, one claim
  at a time. `DoneIsDone`: a 200 takes effect in the step it is decided. `RefusedIsNothing`: 400, 404, 502 and 503 change nothing, so a
  caller may repeat them. `BoundForLife`: an entry is never taken back.

`WritePathProofs`

- `IInv` is `TypeOK`, `RequestState`, `PoolState` and `SignedByOwnKey`. It carries a request's kind through its phases, because
  whether a request that waits for a signature holds a connection depends on it, and it says that a request that has joined a
  promise still finds it in the cache.
- `PoolIsKept`, `NoCircularWait`: for any pool size and any number of requests. Who waits for a connection waits for one of those that
  hold one, who waits for a row for its owner; an owner of a row holds a connection and so waits for neither. A chain of waits has
  at most two links and ends with a request that can go on, which excludes a deadlock of the pool.
- `RequestsRunOut` is the variant of the write path: a request has at most 13 steps left, each of its own lowers the number, failures and timeouts
  included, and nobody else raises it. `NoSignerIsForgotten`: who waits for a derived signer holds a promise that the cache still has, so
  it is settled for all its waiters. These three are the safety half of `EveryRequestAnswered`.
- `ListsKeepTheirKey`, `FailuresAreForgotten`: the cache key is the key material, and a rejected promise leaves before it is heard of.

`TenancyProofs`

- `IInv` is `TypeOK`, `CliRuns`, `ConfigState` (no service without a configuration), `ListsState` (each list of each store under the slug of its URL),
  `CreatedState` (what was created in a file or a database is in it) and `TenantsAreCoherent`. The env file has any length: the last block that sets a variable is found as the
  greatest index of a set, so no induction over sequences is needed.
- That a registry is coherent is proved of `LoadTenants` for any file: with one kind of key only, the last block of a tenant is
  also the last with a key.
- `CredentialsAreUnambiguous`: a token, static or issued, is one tenant's, whatever hands copied.
- `LatestBlocksAreRead` says exactly what a start makes of a file: each tenant with the token, suite and key of its last block and the domains of the
  last one that names any, or no start at all, and the latter exactly for a tenant with blocks of both profiles or two tenants with one
  token. `OnlyMixesRefuse` says that without copies by hand only the former happens. With the finding `shadowed` they bound the promise of `--force`.
- `ListsAreKept` needs `CreatedState`: a create takes only an id that is free in its store, and a start empties only what was in
  memory. That the list is found, under its URL and with its owner, also needs that it is stored under the slug of that URL. It
  holds for any sequence of starts, on any files and databases and under any configurations.
- `CareKeepsTenants`: if a run that finds no file is started only while there really is none and no other such run is on its way
  (`FirstRunAlone`), no block leaves the file except by hand. The care is a hypothesis, since the code does not enforce it; without it
  a failed read, or two first runs at once, loses a tenant. Its invariant `WritesAreSafe` says that who is to write a first file still finds none.
- `ListsAreReachable` and `SelectorsAreExact` follow from `ListsState`.

Only model-checked: the liveness properties (`EveryRequestEnds`, `EveryAllocationEnds`, `EveryUpdateSettles`, `EveryRequestAnswered`), which need
fairness and `ENABLED`, out of the prover's reach. What they rest on besides is proved: variants that run out, waits that end, and a chain whose
turn is always somebody's. What TLC adds is that the fairness of the code's scheduling then takes every step that is left. Induction over data and `RECURSIVE` operators are
out of its reach as well; no module uses them.

## What is not modelled

- GZIP, base64url, JSON-LD, key derivation and signatures (`packages/vc-signer`): their outcomes are, their computation is not.
- Logging, and the wording of problems: nothing reads them back.
- Parsing of schemas, headers and content types: what they refuse is `bad-request`.
- The validation of `options` in `createList`, before any state is read.
- `init` with its migrations, and `close`, of the SQL storage: the schema is the one they leave.
- Hand-written tenant blocks with several instances, `did:web` or remote signing: the env file has the blocks the CLI writes, and copies and removals of them.
- The blocks the CLI prints for other services.

## The plan

Done: the two operations that are sequences of awaits, both storage backends, the routes end to end, what requests wait for, signing,
tenants, URLs, configuration and provisioning, with their abstract specifications and their proofs. Left, in this order:

1. Env files with several issuer instances of a tenant: which instance a list is bound to, and what a restart with another set of instances does to it.
2. `StatusService` over `MemoryStorage`: what a restart between allocation and flip means to an issuer in development.
3. The start and the end of a process: migrations by two servers at once, and `close` under requests in progress.
