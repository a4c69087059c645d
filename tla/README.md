# TLA+ models of open-kmip-server

Models, model-checking runs and machine-checked proofs for the key server: a
KMIP front end over TLS and a REST front end over HTTPS on one key store.

## The system

| Part | Source | State | Operations that change it |
|---|---|---|---|
| Key states, transition table, length rules | `internal/storage/types.go`, `kmip/handler.go` `validateStateTransition` | none | |
| SQLite store | `internal/storage/sqlite.go` | tables `keys`, `key_attributes` | Create, Register, Activate, Revoke, Destroy, Rekey, Archive, Recover, DeriveKey, Set/DeleteCustomAttribute |
| In-memory store | `internal/storage/memory.go` | map of records, a RWMutex | the same |
| KMIP handlers | `internal/kmip/handler.go` | none of their own | one handler per operation, batches of up to 100 items |
| REST handlers | `internal/api/api.go` | none of their own | one handler per route |
| REST rate limiter | `internal/api/api.go` | token bucket per address | allow |
| KMIP connections | `internal/kmip/server.go`, `connections.go` | semaphore, tracker | accept, handshake, request loop |
| Audit log | `internal/audit/audit.go` | channel of 256 entries, table `audit_log` | Log, writer, Close |
| Dashboard login | `internal/dashauth/dashauth.go` | sessions, login attempts | login, logout, cleanup loop |
| Startup, development certificates | `cmd/open-kmip/main.go`, `internal/devcerts` | files | Generate, reuse |
| Asset inventory | `internal/storage/assets.go` | further tables | only `ListInventory`, a query, has a caller |
| Dashboard files | `internal/dashboard` | none | |

Every KMIP connection and every REST request is a goroutine, and they meet in
the store. The SQLite store takes no lock and opens no transaction, so only one
SQL statement is atomic; most handlers read a row, decide on that copy, and
write in a later statement. The in-memory store locks, but hands out pointers to
its live records. What is hard here, and what `PROJECT.json` lists line by line
under `hazards`, is therefore: decisions on stale copies, read-then-write across
statements, requests that write twice and fail or die in between, destruction
racing with users of the key, and lengths at their limits; around the store,
audit entries that are lost, connections that end in one of many ways, a
certificate directory that is half written, and time that passes between a check
and what it allowed.

## Modules

| Module | What it is |
|---|---|
| `KeyStates` | the seven states, `AllowedStates` (the switch of `validateStateTransition`), the length rules |
| `KeyLifecycle` | abstract: what the server promises about the life of a key |
| `KeyServer` | the SQLite store under all KMIP and REST handlers that write |
| `MemoryServer` | the in-memory store under the lifecycle and cryptographic handlers |
| `AuditLog`, `AuditedServer` | the audit logger, and `KeyServer` composed with it |
| `Startup` | `main`, the development certificates, both listeners |
| `ConnectionServer`, `KmipProcess` | the KMIP listener with its connections, and `Startup` composed with it |
| `RestClients`, `RateLimiter`, `DashAuth`, `RestFront` | the rate limiter, sessions and login throttling, and the path of a REST request through them |
| `KeyServerProofs`, `MemoryServerProofs`, `AuditedServerProofs`, `KmipProcessProofs`, `RestFrontProofs`, `RestLoginProofs`, `RestClientsProofs` | theorems |
| `MC_*` | constants for TLC |

### KeyServer

`keys` and `attrs` are the two tables and `proc` says what each worker
(goroutine) is doing. One action is one SQL statement with the computation
around it. `CheckThenAct` is the read and state check of Activate, Revoke,
Destroy, Archive and Recover, and `StoreUpdate` the UPDATE that follows; a rekey
is `CheckActive`, `RekeyGet`, `RekeyUpdate`; a key pair is `RegisterPrivate`,
`RegisterPublic`; deriving, unwrapping and attributes are a read and a write.
REST activate, revoke and destroy are one statement, because the code does not
look at the state first. Any statement may fail: malformed input, a state or
length that is refused, or SQLITE_BUSY (no busy timeout is set, and `Get`
reports every error as "not found"). `Crash` kills the process between any two
statements; the tables survive and the workers do not.

Data is abstracted to what the properties need: material is its size, names,
owners, dates and masks are left out, attributes are their names. `pair`, the
private half of a generated public key, and `wrote`, whether a request has
changed the database, are history and not in the code.

### MemoryServer

`recs` are the records, `slices` the byte arrays their Material pointed to, one
per version, and `mu` the writer holding the lock. Methods that change a record
in one assignment are one action. `Destroy` is four, since handlers read
without the lock: start of the wipe, end of the wipe, `Material = nil`, state.
A handler that uses a key is `Get`, `CheckState`, `ReadMaterial`, `UseMaterial`,
each on the record as it is then. `Tolerates` says which contents let an
operation succeed: HMAC and HKDF take any bytes, AES any of the right size, and
DER parsing and authenticated decryption only the real key. A slice header torn
by a concurrent Destroy is a refusal.

### KeyLifecycle

A key is born PreActive once, is made Active or Compromised and gets new
material while it lives, dies once, and is then wiped and never changes. The
table of `validateStateTransition` promises more (Compromised is not left for
Active), but the code does not keep that under concurrency or through REST; the
violation runs below show where. `KL` in both servers is the refinement mapping.

### AuditLog and AuditedServer

`AuditLog` has the operations of the logger: `NewLogger` (which may fail, and
then nothing is audited), `Log` into a channel that drops when full, and the
background `writer`, receive and INSERT, where an error is only printed.
`AuditedServer` extends `KeyServer`: a handler logs after its last statement and
before it answers (`AuditedRespond`). KMIP logs every outcome; REST logs its
successes, and of the failures only those of the store's Create. `AuditedCrash`
loses the channel, the entry in the writer's hand, and the entries of requests
that have written but not answered; `main` only ends through `log.Fatalf`, so
that the deferred `Close` never drains the channel. `lost` (history) holds the
keys of all entries that will never be in the table.

### Startup, ConnectionServer and KmipProcess

`Startup` follows `main`: the checks of the flags, or with `--dev` the test for
`ca.pem` and `Generate`, which opens and writes five files one by one; then the
store, the REST goroutine and the KMIP listener. A file is missing, torn, or
whole and of the n-th generation; two certificates fit together when they are of
one generation. Any step may fail, and the process may be killed between any
two; the operator may start it again or remove `ca.pem` or all files.

`ConnectionServer` has one record per connection: accepted with a slot of the
semaphore or turned away, handshake, reading under a deadline, handling a batch
item by item, and the deferred calls in the order they run (out of the tracker,
close, slot). Handshakes fail, reads end or time out, items panic, responses are
lost, and clients give up before they are accepted. The server has nothing by
which to recognise a request that is sent again after a lost response: it
carries it out again. `KmipProcess` composes the two: connections live while the process serves,
and in `--dev` a client gets through the handshake only with certificates of the
generation of the CA.

### RestFront

A request first meets the token bucket of its address (`RateLimiter`), then
authentication or one of the `/auth` endpoints (`DashAuth`). Each critical
section of a handler is an action: `allowLogin`, the comparison of the key and
`recordFailedLogin` are three. `cleanupLoop` takes the time once and uses it for
both its halves, so that its view of the attempts lags. Times are ages in ticks.
`credit` (an exact token bucket), `failed` and `ended` are history.

## Runs

| Run | Instance | Shows |
|---|---|---|
| `KeyServer_store` | 2 keys, 2 workers, all requests | requests of both front ends race, statements fail, the process is killed between them: `DestroyedIsWiped`, `DestroyedIsFinal`, `RepliesAreTruthful`, `PublicKeyHasPrivateHalf`, `AttributesHaveRow`, `MaterialBounded`, `ImplementsKeyLifecycle` |
| `MemoryServer_store` | 2 keys, 2 workers: one takes any request, the other any that writes; fair | `DestroyedIsWiped`; `OnlyDestroySpoils`: a cryptographic success used the bytes of the key, also while it is rekeyed or revoked, unless a Destroy of it has begun; `ImplementsKeyLifecycle`, `RequestsEnd` |
| `AuditedServer_log` | 1 key, 2 workers, the life of a key from both front ends with rekeys, a channel of 1, fair writer | `AuditNeverAhead`: the log claims nothing that the table does not show; `StateIsAudited`: the state of a key is explained by an entry, unless one about this key was dropped, refused or lost in a kill; `QueuedIsWritten` |
| `KmipProcess_life` | 11 command lines, 2 generations of certificates, 3 clients on 2 slots, batches of up to 2, fair | `ServesAsConfigured`, `DevServerIsUsable`, `CompleteCertsAreKept`, `StartsEnd` about the start; `SlotsAreLive`, `TrackedIsEstablished`, `DialsAreAnswered`, `OnlyHandshakesStall` about connections |
| `RestFront_front` | 1 address, 2 goroutines, burst 2, 1 failed login allowed, sessions of 1 tick, fair | `WithinRate`, `RetryAfterIsEnough`, `ServedIsAuthorised`, `FailuresBounded`, `LockoutEnds`, `ExpiredIsCollected` |

Seven runs end in a counterexample, each a disagreement between the code and
what its own table, comments, tests or documents say (`findings` in
`PROJECT.json` quotes them).

| Run | What happens |
|---|---|
| `KeyServer_race_activate` | Activate checks; Revoke runs; Activate's UPDATE makes the Compromised key Active |
| `KeyServer_race_rekey` | a rekey checks; a revoke runs; the Compromised key gets new material and the reply is success. The same property fails when a Destroy runs instead: the UPDATE matches no row (`sqlite.go:305`), nothing is stored, and the reply is success too (TLC prints this trace when `RestRevoke` is taken out of `RekeyRequests`) |
| `KeyServer_race_version` | two rekeys store the same version |
| `KeyServer_rest_activate` | one REST client activates a revoked key |
| `KeyServer_archive` | clients that do not give up create, activate, revoke and try to archive a key: Archive demands Deactivated, which no request leads to |
| `MemoryServer_race_destroy` | a request past its state check computes with wiped bytes and succeeds |
| `KmipProcess_no_mtls` | with `--ca` or `--dev` beside `--insecure-no-mtls` the listener still demands a client certificate, while `main` says that any client can connect |

### What the passing properties leave open

Several properties carry an exception, because the code has it:

- `RepliesAreTruthful`: a rekey that lost against Destroy reports success
  although its UPDATE matched no row (`KeyServer_race_rekey` is about that), the
  removal of an attribute that is not there is a success, and a key pair whose
  second half fails leaves the first.
- `AuditNeverAhead`: the audit entry of that rekey is a success as well, so after
  a rekey the key has a later version or is destroyed.
- `OnlyDestroySpoils`: after the start of a Destroy nothing is promised to those
  who still use the key (`MemoryServer_race_destroy`).
- `StateIsAudited`: `docs/getting-started.md:102` calls the log a "full
  operation audit log"; an operation whose entry finds the channel full, whose
  INSERT fails or that precedes a kill is not in it. The entry of a KMIP key pair
  names no object.
- `OnlyHandshakesStall`: the handshake has no deadline (`server.go:121`) and
  holds a slot for as long as the client is silent. The limit is one semaphore
  for all clients, where `handler.go:280` speaks of "per-IP connection limiting".
- `DevServerIsUsable`: after an interrupted `Generate` the server may start with
  a CA that accepts none of the client certificates in the directory, in this
  and every later start, until the operator removes `ca.pem`.
- `ServesAsConfigured`: a server lets in nobody whom its command line keeps out.
  That it lets in all others is `InsecureMeansAnyClient`, which fails
  (`KmipProcess_no_mtls`).
- `RetryAfterIsEnough`: it needs a pause. A client that goes on asking more often
  than every 0.6 s earns nothing, since every refusal drops the fraction
  (`api.go:66`).
- `FailuresBounded`: the limit of failed logins can be exceeded by the number of
  logins that run at the same time.

**Bounds.** `Uids` bounds the keys ever created; the races concern one row, and
two keys hold a key pair, or a source and what is derived from it. Two workers
are a request and the one that runs between its statements; the theorems extend
the safety properties to any number of keys and workers. `MaxVersion` bounds
rekeys; beyond it a rekey is refused. Clients ask for one usual length and
register one object (`LongKeys`) that is longer than the store would generate,
so that a rekey meets the limit; for every other length, zero and negative ones
included, `MaterialBounded` is a theorem. Lengths are compared and divided by 8
and never grow, so 32-bit overflow does not arise. In `MemoryServer_store` one of the two workers takes only the requests of `Writing`, one for each change
of a record (`AnyWithWriter`): two requests that only read change nothing for
each other, and the theorems cover every mix. `Capacity = 1` makes the channel
full while the writer is busy. Three clients on two slots are turned away,
`MaxItems` bounds what one connection sends so that its counters are finite, and
`MaxGenerations = 2` lets an operator start over and old and new files mix. In
`RestFront` a token takes two ticks, so that fractions are lost, and a failed
login counts for two, so that the lag of one (`MaxLag`) matters; the goroutines
share one address, since buckets and attempts of different addresses never meet.
Symmetry is used only in runs without liveness properties.

**Deadlock** is checked in every run.

**Fairness.** `KeyServer_store` has none. In `AuditedServer_log` only the
goroutine of the writer is scheduled. `KeyServer_archive` assumes the strongest
clients (`InsistentSpec`): every worker is scheduled, every request that could be
accepted again and again is accepted in the end, and not every statement fails;
the archive stays empty all the same. In `MemoryServer`, weak fairness of a
worker's later steps, because the Go scheduler runs every runnable goroutine,
and strong fairness for steps that take the lock, since `sync.RWMutex` lets no
waiter starve. The steps of `main` and the goroutines of connections are
scheduled too; the read deadline is part of the latter. A handshake has no deadline and therefore no
fairness. In `RestFront` the ticker of the cleanup loop fires and time passes.
Clients and operators owe nothing, so receiving a request, dialling, finishing a
handshake and starting the process have no fairness, and neither have kills.

## Proofs

All theorems hold for every value of the constants that satisfies the named
assumptions beside their declarations: finite sets of goroutines (at least one)
and connections, capacities that are numbers, a minute of at least one tick,
`RetryAfter` between the time of one token and that of a full bucket, and names
for "nothing" that are not names of something. Each safety invariant is a
consequence of an inductive one.

`KeyServerProofs`, from `ConstantsAssumption`:

| Theorem | Statement |
|---|---|
| `Invariance` | `IInv` always holds |
| `Typing`, `ArchiveUnreachable`, `DestructionWipes`, `TruthfulReplies`, `Integrity`, `AttributesBelong`, `MaterialIsBounded` | the invariants, as consequences of it |
| `DestructionIsFinal` | a destroyed row never changes |
| `Refinement` | `KeyServer` implements `KeyLifecycle` |

`ArchiveUnreachable` says that no key is ever Deactivated or Archived
(`NeverParked`), and generalises what `KeyServer_archive` shows. It needs that no
Archive is past its state check; that
material is bounded needs that a rekey past its read holds a valid length; that
a public key has its private half needs that a worker between the two Registers
points to a private row of the same length. `Knows` says this of each worker,
and `IInv` is the invariants with `Knows`. The proof goes by the kinds of step
rather than by handler: `ProcStep` (only one worker changes) and `RowStep` (one
row changes and keeps what others know of it) reduce a step to one worker and
one row; lemmas for refusals, updates, inserts, rekeys and attributes follow,
and `ReceiveStep` and `ProceedStep` assign each handler to its kind.
`TableSteps` then shows that a step changes at most one row in one of the ways
of `KeyLifecycle`, from which finality and refinement follow.

`MemoryServerProofs`:

| Theorem | Statement |
|---|---|
| `MemoryTyping`, `MemoryDestructionWipes` | the invariants |
| `MemoryRefinement` | `MemoryServer` implements `KeyLifecycle` |
| `CryptoIsSpoiltOnlyByDestroy` | `OnlyDestroySpoils` |

`MInv` says of a worker in the middle of Destroy that it holds the lock, how far
the array is wiped, and that the record still lives; so of the
four steps of Destroy the two of the wipe are stutters, the third changes the
material of a living abstract key, and the last is its death. `UInv` adds that
the arrays of a key which is neither destroyed nor being destroyed keep the
bytes of every version, and that a handler which has read one holds some version
of a key that exists. Versions only grow and a key that has ended stays so
(`Grows`), so what one worker has read survives the steps of the others. With the
run `MemoryServer_race_destroy` the theorem says that a Destroy of the very key
is the only thing that disturbs a reader.

`AuditedServerProofs`, which extends `KeyServerProofs`:

| Theorem | Statement |
|---|---|
| `AuditIsTruthful` | `AuditNeverAhead` |
| `AuditIsComplete` | `StateIsAudited` |
| `AuditingIsTransparent` | `AuditedServer` implements `KeyServer`, so that the theorems above hold of it |
| `AuditedRefinement` | in particular it implements `KeyLifecycle` |

`AuditInv` is both properties with `IInv` and `Sees`: the row of a key shows
(`Shows`) the success that a worker holds. For a rekey this needs that a worker
past the read holds a version of at least 1, which `IInv` has. Each
statement of a handler is put into the form `Outcome` (which reply it leads to,
and which change of state that reply accounts for). `TableSteps` shows that what
an entry says stays true, and `LogStep`, `WriterStep` and `KillStep` that an
entry stays recorded or leaves its key in `lost`.

`KmipProcessProofs`:

| Theorem | Statement |
|---|---|
| `SlotsAreCounted`, `TrackerIsExact` | `SlotsAreLive`, `TrackedIsEstablished`, for any number of clients |
| `ConfigurationIsKept`, `DevServersAreUsable` | `ServesAsConfigured`, `DevServerIsUsable`, for any set of command lines |
| `CertsAreKept` | `CompleteCertsAreKept` |
| `ProcessIsTyped` | `ProcessTypeOK` |

`ConnInv` counts the goroutines by adding or removing one connection at a time
and ties the tracker to the place of each goroutine. `ConfigInv` carries
what the flag checks established through the later places of `main`.
`DirectoryInv` says which files Generate has written at each place: the first
`next - 1` are of this generation, and a directory that is not being written is
complete or empty of `ca.pem` unless a Generate was interrupted.

`RestFrontProofs`:

| Theorem | Statement |
|---|---|
| `RateIsKept`, `WaitingHelps` | `WithinRate`, `RetryAfterIsEnough`, for every burst and rate |
| `OnlyAuthorisedAreServed` | `ServedIsAuthorised` |

`LimiterInv` relates the bucket to the exact one: the tokens in it and the idle
time, in ticks, never exceed the credit unless that is full, so that rounding
only takes. Of an address
without a bucket the credit is full. `SessionInv` says that a request whose cookie
is accepted was live when it arrived, because a session that was ended, or has
expired, is never stored again.

`RestLoginProofs` and `RestClientsProofs`:

| Theorem | Statement |
|---|---|
| `FailedLoginsAreBounded` | `FailuresBounded`, for every limit, every length of a minute and any number of goroutines |
| `RestIsTyped` | `RestTypeOK` |
| `YoungerIsFilter` | the pass over the list of attempts drops exactly what is too old, for lists of every length |

The attempts that count are those of the last minute, so lists are compared by
`Count(list, age)`, the number of entries that are not older than `age`.
`WrongKeysAreKnown` says that for every age the wrong keys looked at are among
the attempts or about to be recorded; `AttemptsAreLimited` that the attempts of
the last minute and the logins that were let through stay below the limit plus
the number of goroutines. A login is let through only below the limit, and each
goroutine carries at most one; time only moves entries out of the minute, and
the cleanup, whose view lags, keeps more than the minute. `Younger`, the loop of
`allowLogin` and `cleanupLoop`, is a recursive function. What it computes is
shown by induction on the length of the list (`Induction`, from the well-founded
order of the naturals).

Only model-checked: the liveness properties (`RequestsEnd`,
`QueuedIsWritten`, `StartsEnd`, `DialsAreAnswered`, `OnlyHandshakesStall`,
`LockoutEnds`, `ExpiredIsCollected`), since the prover handles neither fairness
nor ENABLED. Every safety property of a passing run is a theorem.

## Not modelled

- TTLV decoding, cryptography, certificate contents and validity: data, or
  libraries. What a failure of theirs does to a request or a start is modelled.
- Handlers that only read the SQLite store (Locate, Check, Query, attribute
  lists, leases, listing, status, metrics, audit queries, inventory): each is one
  query, and changes nothing.
- REST wrap: it reads two keys and changes none; it would repeat what
  `MemoryServer` has for the other cryptographic handlers.
- Custom attributes of the in-memory store (a map under the lock), and its
  Archive and Recover, which the handlers never reach (`KeyServer_archive`).
- `audit.Logger.Close`: deferred in `main`, which never returns.
- Assets have no writing caller; dashboard files have no state.
- Memory that only grows: the map of rate limit buckets has no removal.
