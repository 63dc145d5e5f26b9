# Skeeper: a verification project

TLA+ models of Skeeper, a password manager made of a command line client
(`skeepercli`, SQLite), an account service (`auther`, Postgres) and a vault
service (`skeeper`, Postgres), with the runs that model-check them (TLC) and
theorems about them for every number of devices, processes, entries, requests,
users and tokens (TLAPS).

## 1. The system

| Component | State | Operations | Talks to |
|---|---|---|---|
| Vault synchronisation, client side (`internal/client/usecase/sync.go`, `usecase/secret.go`, `repository/db/sqlite.go`) | table `entries` of a device: rows with `version`, `updated_at`, `is_deleted`, `is_dirty` | add, update, delete, sync | skeeper over gRPC |
| Sync requests in the skeeper (`internal/skeeper/...`) | table `entries`, one row per account and UUID | `Sync`: upsert guarded by version, then select above the client's cursor | - |
| Vault cryptography (`usecase/secret.go`, `sqlite.go`, skeeper's `postgres.go`) | `crypto_meta` (salt, verifier) per device; `vault_crypto` per account | fetch, adopt, create, check, publish; seal and reseal entries | skeeper |
| Refresh tokens (`internal/auther/...`) | `users`, `refresh_tokens` | CreateUser, Login, ExchangeToken | - |
| Account data validation (`internal/auther/pkg/models`, `usecase`) | table `users` | normalise and validate at registration and at login, hash, compare | - |
| Client session (`usecase/auth.go`, `db/session.go`, `repository/auther`, `repository/skeeper`) | the one row of table `session` per device | register, login, logout, GetValidToken, and the interceptor that attaches the token | auther, skeeper |
| Session key file (`db/session_crypto.go`) | a file with the key that encrypts stored tokens | load or create | - |
| Token helper, server authorisation (`pkg/jwthelper`, `internal/skeeper/pkg/interceptors`) | keys; the clock of the machine | mint, validate | - |
| Server life cycle (`internal/pkg/server`, `cmd/*/main.go`) | gRPC server, two goroutines, connection pool | serve, graceful stop with a timeout, close, exit | signals |
| Request logging, recovery | none beyond a request | log, turn a panic into an error | - |
| Command line, prompts, configuration, crypto primitives | none of their own | - | the use cases |

Every command of `skeepercli` is a process of its own. Nothing keeps two of
them from running on one device at the same time, and they share the SQLite
file and the key file and nothing else. `auther` and `skeeper` handle requests
concurrently and may run in several processes; their shared state is in
Postgres.

What is hard, and what each component must get right:

- **Synchronisation.** Commands interleave between statements; the RPC is sent
  between two local transactions; its answer may be lost after the server has
  written, or the request executed after its client has gone. *A change that is
  not synced is never lost; what is marked synced the server has; a version
  number means one content; devices converge.*
- **Sync requests.** One statement upserts many rows, in the order the client
  sent them, and locks them one by one; requests of the same account lock the
  same rows in different orders. *An upload is taken as of one instant or not
  at all; what an answer calls applied is in the table; a deadlock ends.*
- **Vault cryptography.** Several devices create salt and verifier for the same
  account, offline of each other; an entry is saved before its key is recorded
  anywhere. *All entries are sealed under one key, the published one; the key
  never changes; whom the server tells that its key is stored can rely on it.*
- **Refresh tokens.** Transactions at READ COMMITTED delete and insert rows of
  one user concurrently and wait for each other's locks. *A token is exchanged
  once; a dead one stays dead; a login revokes the others; reuse is detected;
  requests end.*
- **Accounts.** An address is normalised on every path or on none; bcrypt sees
  72 bytes of a password; the policy of a registration is stricter than that of
  a login. *A mailbox has one account; only its password opens it; whoever has
  registered can log in.*
- **Client session.** The session row is read, sent to the auther and written
  back in three steps, and read twice by a command. *No data crosses accounts;
  a refresh does not log the device out; a logout lasts.*
- **Session key file.** It is read, truncated and written in three steps by
  whichever process finds it missing. *The stored session opens.*
- **Clocks.** Three machines judge a token; its claims are whole seconds, the
  expiry the device keeps is not. *A token GetValidToken returns is accepted.*
- **Life cycle.** A signal, a failing listener, `GracefulStop`, its timeout and
  the pool's `Close` race each other. *A graceful stop answers every call; the
  process ends; its status tells a failure from a stop.*

The hazards behind these are listed with their lines in `PROJECT.json`.

## 2. The modules

| Module | What it is |
|---|---|
| `VaultSync` | the sync protocol of one account, statement by statement |
| `SnapshotReplica` | what it promises: a store whose rows move to higher versions, devices that show snapshots of it |
| `SyncServer` (on `SyncRows`) | the skeeper's `Sync` handler, row lock by row lock |
| `VersionedTable` | what it promises: uploads in one step, which is what `VaultSync` takes for granted |
| `ServerLifecycle` | the life of a server process, from start to exit |
| `SkeeperServer` | the two composed: a skeeper process and its requests |
| `VaultCrypto` | how the devices of an account come by their master key |
| `KeyAgreement` | what that promises: one key, chosen once, under which the entries acknowledged by the server are |
| `RefreshTokens` | the auther's tables and transactions, with row locks |
| `TokenStore` | what they promise: logins, exchanges and revocations in one step each |
| `ClientSession` | the session of a device and the calls made with it; composed with `TokenStore`, which stands for the auther because `RefreshTokens` implements it |
| `Accounts`, `AccessTokens`, `SessionKeyFile` | users and passwords; tokens and clocks; the key file |
| `SignIn` | the three composed: registering, logging in and calling the skeeper from one device |
| `*Proofs` | the theorems about a module |
| `MC*` | its instances for TLC |

Operators whose comment begins with "Mutant of" are variants of the definition
that follows them, with a bug the code could plausibly have. No action uses
them; each shows that some property would notice the bug.

### VaultSync

`server` is the account's rows in Postgres, `local[d]` and `dirty[d]` the rows
and `is_dirty` flags in the SQLite file of device `d`, `cmd[p]` what process `p`
has in memory. A row keeps its version, its deletion mark and a `stamp` that
numbers the edit it comes from; the stamp stands for the ciphertext and for
`updated_at`. The actions follow the code:

- `Add`; `ReadEntry` then `Update` or `Delete`: `insertEncryptedEntry`,
  `unlockEntry`/`GetEntry` ... `SaveEntry`, `DeleteEntry`;
- `CollectDirty`, `SendSync`: the two local reads of `SyncUseCase.Sync`;
- `ServerUpsert`, `ServerSelect`: the two statements of the server's `Sync`;
- `Persist`: the transaction of `PersistSyncResult`;
- `Fail`, `Abandon`, `LateUpsert`: an error or crash at any point, and a
  request that outlives its client.

`DateTextReadable` tells two builds apart. The cursor of a pull is
`unixepoch(MAX(updated_at))`. The SQLite driver stores a Go time as
`Time.String()` text unless it is told otherwise; SQLite cannot read that text,
`unixepoch` yields NULL, `COALESCE` makes it 0, and every pull is a full one
(FALSE). With a text SQLite can read the pull is incremental, to whole seconds
(`Second` stamps each; TRUE).

### SyncServer and VersionedTable

`VaultSync` lets `ServerUpsert` write all rows of an upload at once.
`SyncServer` shows why it may. `table` holds the committed rows of the account,
`lock[u]` the request whose statement has locked row `u`, `call[h]` the request
handler `h` serves. `UpsertEntries` is one `INSERT ... ON CONFLICT DO UPDATE
... RETURNING uuid`: `VisitRow` picks the next row (in any order, since clients
send their rows in any), `TakeRow` waits for its lock, locks it and evaluates
`entries.version < EXCLUDED.version` on what is committed, `Commit` makes the
rows visible and frees the locks, `Rollback` is an error, a cancelled context
or Postgres breaking a deadlock. `Select` is `GetUpdatedAfter`, a statement of
its own; `Fail` an error or a recovered panic between the two. `SyncRows` holds
what both this module and its compositions need of rows and batches.

`VersionedTable` does the same in one step per statement. `Seen(h)` maps a
request that is still upserting to one that has been asked and no more, so the
commit is the step that applies it.

### ServerLifecycle and SkeeperServer

`ServerLifecycle` has one variable per goroutine of `Serve` (`serve`,
`shutdown`, `graceful`), how far `main` is, and the calls in progress with the
pool connections they hold. `ServeCalled` distinguishes a `Serve` that accepts
from one the stop has overtaken (`ErrServerStopped`); `Quit`, `GoAway` and
`GracefulStopped` are `GracefulStop`; `ForceStop` is the timeout, at any time,
after which the contexts of the calls are dead (`"cut"`) and nobody waits for
their handlers; `ServeReturns` ends in `os.Exit(1)` or in the deferred `Close`
of the pool, which waits until `conn` is empty.

In `SkeeperServer` the calls are the requests of `SyncServer`: both statements,
the upsert (`BeginUpsert`) and the select (`BeginSelect`), take a connection and
keep it until they end, fail or are given up; a request ends when its handler returns, and no step of the
process happens after it has exited - except Postgres', which finishes the
statements it is running whether or not anyone waits.

### VaultCrypto

A master key is the pair of the salt and password it is derived from; a
verifier is the key it verifies. `vault` is the account's row, `meta[d]` the
row of a device, `sealed[u]` the key that wraps the DEK of entry `u`,
`acknowledged` the entries whose command has got the server's answer that its
key is the account's. `Fetch`,
`Adopt`, `Load`, `Generate`, `InsertMeta` are `materializeVaultCrypto`;
`SaveNew`, `SetVerifier` the rest of `insertEncryptedEntry`; `Reseal` the
updates; `PutSelect`, `PutInsert`, `PutReselect` the statements of the server's
`PutVaultCrypto`. A command may also return nil with nothing published:
`publishVaultCrypto` takes every error of `GetSession` - a logout meanwhile, a
cancelled context, SQLite, the decryption of the session - for "not logged in"
and sends nothing. That is `SkipPublish`, possible in every run and every
theorem; its entry is not acknowledged, and nothing is claimed of it.

### RefreshTokens

`rows[t]` is the committed row of a token, `lock[t]` the transaction that holds
it, `tx[h]` the request a handler runs. A DELETE takes the rows that are
committed when it starts (`StartDelete`), then visits them one by one in any
order, waiting for locks and skipping rows that have gone (`DeleteRow`). A
token and its hash are one value. The auther processes (`Server[h]`) matter to
the singleflight group of `RotateToken`.

### ClientSession

`session[d]` is the session row; `proc[p]` a command with the user id it has
read and the token of its call. `tables[d][u]` and `vaults[u]` keep, in place
of rows, the users whose data they hold. Register is CreateUser (in
`RefreshTokens` and `SignIn`) followed by a login. A command reads the user id
at its beginning - those on entries do it twice, one read right after the
other, which the model joins - and the interceptor reads the session at each
call. `AnswerExchange` gives the answer of one exchange to several callers, as
singleflight does. `PromptSaves` assumes that a process saves an answer before
the access token in it is about to expire: one that was held up for longer
would put back a refresh token that others have exchanged since.

### SignIn

- `Accounts`: `Normal[s]` is what trimming, `mail.ParseAddress` and lower case
  make of an address. That need not be an address itself: `"a b"@x.com` is stored
  as `a b@x.com`, which does not parse; so properties compare `Mailbox(e)` of
  stored and typed addresses. `Validate` and `ValidateForLogin` are the two policies;
  `SameHash` compares the first 72 bytes, as bcrypt does. `Legacy` are users an
  older policy has let in.
- `AccessTokens`: `now` is the time, `skew` how far each machine's clock is
  ahead of it. `NewTokenPair` rounds the claims down to a second and leaves the
  expiry beside them alone; `NearExpiry` is the minute of `GetValidToken`;
  `ValidateToken` what the skeeper checks of `exp` and `iat`.
- `SessionKeyFile`: `ReadFile`, `TruncateFile`, `WriteKey` are the steps of
  `loadOrCreateSessionKey`; `ReadError` a read that fails for another reason
  than a missing file; `Close` the end of the process at any of them. A process
  that dies between truncating and writing leaves a file of the wrong length,
  and every later process is refused until the file is removed by hand.
- `SignIn`: `CreateUser`, `LoginUser`, `ExchangeToken`, `SaveSession`,
  `GetValidToken`, `Authorize`. The answer to a registration may be lost after
  the account is made; a call may be on its way for any time.

`FirstRunAlone` assumes that no process starts beside the one that creates the
key file; without it the file is written twice and what is encrypted under the
first key is lost.

## 3. What the runs show

Runs that pass:

| Run | Instance | Shows |
|---|---|---|
| `VaultSync_devices` | 2 devices, 1 process each, 1 entry, 3 edits, 1 late request, full pulls, fairness; 32 thousand states | types; `CleanRowsTaken`, `VersionNamesContent`, `UnsyncedChangeKept`, `LocalVersionsNeverFall`; `SnapshotReplica` is implemented; `PullMakesEqual`, `SyncedStays`, `Converges` |
| `SkeeperServer_stop` | 2 handlers, 2 rows, 3 uploads (two that clash, one empty), fairness; 0.2 million states | `UpsertInv`, `AnswersTaken`, `AnsweredBeforeExit`, `ExitStatusTrue`, `PoolClosesSoon`; `VersionedTable` is implemented also by requests that are cut off; `StopsWhenTold`, `UploadsEnd` |
| `VaultCrypto_devices` | 2 devices, 2 passwords, 2 entries, 2 salts, 1 late request | types; `AcknowledgedUnderVaultKey`, `KnownVaultSeals`; `KeyAgreement` is implemented |
| `VaultCrypto_one_password` | 2 processes on the only device, 1 password, 3 salts, 1 late request | `OneKey`: the race for the local salt is harmless |
| `RefreshTokens_concurrent` | 2 users, 3 tokens, 2 handlers in 2 processes, fairness | `ExchangedOnce`, `CommittedRowsUnused`, `DeadStaysDead`, `ListedTokensDie`; `TokenStore` is implemented; `DeadlocksContained`: only logins and revocations of one user get into one; `RequestsEnd`: deadlocks are broken, locks are passed on |
| `ClientSession_refreshes` | 2 processes of one device, 1 user, 3 tokens, 1 lost call; 0.7 million states | types; `RefreshKeepsSession` |
| `SignIn_device` | 2 processes, 4 spellings (one no address), 3 passwords around the limits, a legacy user, clocks that disagree; 4 million states | `SignInInv`, `OneAccountPerMailbox`, `OnlyItsPassword`, `RegisteredCanLogIn`, `SessionReadable`, `TokenAccepted` |

Runs that end in a violation; each is a disagreement between the code and what
its documentation, comments or tests say (`findings` in `PROJECT.json` quotes
the lines):

| Run | What happens |
|---|---|
| `VaultSync_lost_edit` | an edit saved by a second process during a sync is overwritten or marked clean |
| `VaultCrypto_two_salts` | two devices create their first entries offline; one entry ends up under a salt nobody publishes |
| `RefreshTokens_reuse` | a used token's row is pruned, so its reuse is not noticed |
| `ClientSession_logout` | a process logs out while another refreshes the token; the refreshed session is saved after the logout, and the device is logged in again |
| `ClientSession_two_accounts` | another user logs in while a command runs; data crosses accounts |

The models show more of the same kind, for which no run is kept:

- with a date text SQLite can read (`DateTextReadable`), a row uploaded late is
  below another device's cursor for ever, and `Converges` fails;
- a process that dies between `SaveEntry` and `SetLocalMasterVerifier` leaves
  the first entry without a verifier, and a second password seals the next one:
  `OneKey` fails with two passwords on one device;
- a token inserted by a concurrent transaction survives a login, which is why
  `TokenStore!Login` revokes any part of the user's tokens and not all of them
  (postgres.go:51 says all; `ListedTokensDie` is what holds of it: the tokens
  the DELETE has seen die with it, those other transactions held included);
- a creation is reported as done with nothing published, whenever
  `publishVaultCrypto` gets no session (secret.go:107-113 and 163; docs/PROJECT.md
  has the verifier stored on the server): a property that asks it of every
  command that returns nil fails at `SkipPublish`;
- `PutVaultCrypto` of the skeeper, which usecase.go:76 says "stores or
  replaces", never replaces: another row than the stored one is a conflict
  (postgres.go:181, 187). `AgreementSpec` shows the choice to be final;
- with `FirstRunAlone` FALSE, two first commands write two session keys, and
  the session of one of them does not open: `SessionReadable` fails;
- a skeeper whose clock is behind the auther's, by more than the claim was
  rounded down, refuses a token that has just been minted as issued in the
  future. `TokenAccepted` leaves that case out.

**Bounds.** `MaxEdits`, `MaxLate`, `MaxSalts`, `MaxLost`, `MaxTime` and the
number of tokens bound the behaviours. Three edits make two devices reach the
same version independently and one of them go beyond it, with a delete among
them; one late request is enough to arrive after a newer upload; rows of
different entries meet only in the server's statement, which `SyncServer` takes
apart. Two salts are what two devices generate, three leave the one-device race
a salt to spare. Three tokens make a login, a rotation and one more of either;
two handlers or processes make every pairwise race, deadlocks included, and the
theorems cover the rest. `ClientSession_refreshes` mints its last token only in
behaviours that have lost no call so far (the constraint `LossesEarly`): a lost
call is met with two tokens, races that lose none with three. `SignIn_device`
takes three of the four ways to set two clocks a tick ahead or not; its
processes, like the tokens and processes of `ClientSession`, are interchangeable
(SYMMETRY; no run with symmetry checks liveness). Two rows are enough for two requests to lock them in
opposite orders, and three kinds of upload for one that wins a row, loses one
and carries none. In `SignIn_device` a second is two ticks, so that rounding
matters, the minute is four, an access token lives six and a refresh token
eight: within eight instants tokens come near their expiry, are refreshed,
expire, and cannot be refreshed any more. The passwords are one that only an
older policy takes, one of 72 bytes and one of 73 that agrees with it on the
first 72. Rows, tokens and keys are compared for equality only, versions and
times for order.

**Fairness.** `VaultSync`: an edit that has begun ends (one function call, no
prompt inside), and users sync again and again, with a connection that does not
fail at the same step for ever (SF on the steps of a sync). `RefreshTokens`:
a handler that can run runs; Postgres grants a row lock to its waiters in turn
(SF on `Select` and `DeleteRow`) and ends a transaction that waits in a cycle.
`SyncServer!DatabaseFairness` is the same for the upserts: weak for visiting,
committing and breaking a deadlock, strong for `TakeRow`.
`ServerLifecycle!LifeFairness`: goroutines run, the timer fires, and a query
whose context is dead gives its connection back (the driver's promise). Nothing
is assumed of a call that is not cut off, so `StopsWhenTold` rests on the
timeout and not on the good will of clients. No fairness is assumed anywhere
else.

Deadlock is checked in every run but `SkeeperServer_stop`, whose process is
meant to end. The other models do not terminate: when their bounds are used up
commands still begin and fail.

## 4. What is proved

The theorems hold for every value of the constants - any number of devices,
processes, entries, users, tokens, rows and requests, and behaviours of any
length.

- **`VaultSyncProofs`.** `FullPullInv` is inductive when pulls are full: an
  answer names every row the server applied, and each row it names the server
  has taken (`AnswerCovers`). Without that conjunct `Persist` could mark a row
  clean that the answer does not bring. It gives the refinement
  `ImplementsReplica`, for any number of processes on a device. `SerialInv` is
  inductive with one process per device (`OneProcess`): what a command holds is
  what the file holds, and past the upsert the server has caught up with it; it
  gives `UnsyncedChangesKept`, whatever the answer brings. `TakenInv` adds to
  it that the server has taken every synced copy, counting the rows `Persist`
  is about to mark clean (`TakenCopies`) as synced already: those are the rows
  the command has sent, so it matters no more what the answer names. With the
  one invariant or the other, `CleanRowsAlwaysTaken` and `VersionsNameContent`
  hold with full pulls or with one process per device. `NoFallInv` adds that an
  answer brings no row older than the device's own, which gives
  `NoLocalVersionFalls`.

  Two theorems are what `Converges` needs of single steps. `SyncMakesEqual`: a
  sync during which nobody else has changed the server leaves its device equal
  to it and with nothing dirty, since a dirty row the server has not applied is
  no newer than the server's and is overwritten by it. `SyncedStaysSynced`:
  once all devices are equal to the server they stay so until somebody edits.
  It takes `LateNotNewer`, that a late upload was read on a device whose rows
  have only grown since, so it finds nothing older than itself to replace.
- **`SyncServerProofs`.** `UpsertInv`: a statement holds the locks of the rows
  it has visited and of no others, and has taken exactly those of them that are
  newer than the table. While it holds them nobody else can commit these rows,
  so what it decided row by row is still right for all of them when it commits:
  the commit maps to `VersionedTable!Apply` and everything before it to a
  stutter (`UploadsAreAtomic`). A taken row can only be replaced by one of a
  higher version, which gives `ReportedRowsAreTaken`.
- **`ServerLifecycleProofs`.** `LifeInv` is `StopInv` (once the stop waits, no
  call is added, and `Serve` and the pool's `Close` come after it) and
  `ExitInv` (`main` goes to the failing exit just when something broke). It
  gives `StopAnswersCalls` and `StatusTellsFailure`. `PoolInv` adds that only
  calls in progress have connections, and that a forced stop leaves no call
  with a live context; since the pool is closed after the stop, closing it
  waits for dead contexts only (`PoolClosesWithoutWaiting`).
- **`SkeeperServerProofs`.** Every step of the composition is a step or a
  stutter of each part, so both invariants, the refinement and the safety
  theorems of the parts carry over: `ServerInvariant`, `AnswersStayTaken`,
  `RequestsAreAnswered`, `StatusIsTrue`, `PoolIsFreed`, `UploadsStayAtomic`.
- **`VaultCryptoProofs`.** `AgreementInv`: from `SaveNew` on a command's key is
  the key of the entry it has saved, and a successful put has found or made it
  the published one. It gives `AcknowledgedAlwaysUnderVaultKey` and, with the
  steps mapped, `ImplementsAgreement`, with no condition on the use of the code.
  `SealsNeverChange` needs no strengthening. `KnownInv` follows a command that
  was given the published row (`HoldsPublished`): it puts the row on its
  device, loads it from there unless another process changed it - which
  `OneProcess` excludes - and seals only under a key that passes its verifier.
  It gives `KnownVaultAlwaysSeals`. `AloneInv` says that everything made of a
  salt on the only device - the published key, late requests, seals, what
  commands hold - is made of the salt in its row, which never changes
  (`SaltStays`); with one password that is one key: `AloneSealsUnderOneKey`.
- **`RefreshTokensProofs`.** `StoreInv`: a transaction has locked every row it
  has read for exchange or deleted, those rows are still there when it commits,
  and the token it has minted is its own until then. It gives
  `TokensExchangedOnce`, `NoUsedRowCommitted`, `DeadTokensStayDead` and the
  refinement `ImplementsStore`, in which `Commit` is the one step that is not a
  stutter. The list of a running DELETE is changed by its own handler alone
  (`VisitingStep`), which takes a row off it when the row is gone or locked and
  deleted: `LoginsEndListedSessions`. A rotation waits only before it has its
  row, since all the rows it deletes are that one: `RotationsDoNotDeadlock`.
  `LocksInv` adds that a row is locked by a transaction of its own user:
  `UsersDoNotWaitForOthers`. Together they are `DeadlocksStayContained`.
- **`ClientSessionProofs`.** `TypeInv` adds to the types what a command needs
  for its next step (a user, an issued token) and is inductive for any number
  of processes: `TypeCorrect`. `AccountsInv` is inductive with `OneProcess`:
  the user of the session owns its token, and a command's user is that of the
  session from its beginning to its end, whatever refreshes lie in between; an
  orphaned call keeps the token and the load of one user. It gives
  `AccountsStaySeparate`; that `OneProcess` is needed is what
  `ClientSession_two_accounts` shows. `RefreshInv` follows the
  chain of one login's tokens: as long as nothing has disturbed it
  (`Undisturbed`: no lost answer, no second login, no expiry), the user's
  session is on one device, and its token is live or a process of that device
  has the answer of the exchange that used it, whose new token is live and not
  near its expiry (`Kept`). It gives `RefreshKeepsDevicesLoggedIn` for any
  number of processes and devices, under `PromptSaves`.
- **`SignInProofs`.** `SignInInv` keeps the users proper (normal addresses, one
  each, passwords bcrypt hashes in full), says what a command has in hand
  (`ReadyToRun`), where its token's expiry lies with respect to the instant the
  session was read (`TokensInv`), and, under `FirstRunAlone`, that all open
  processes hold the key on disk and a creator is alone (`KeyFileInv`). It
  gives `MailboxesHaveOneAccount`, `TokensNeedThePassword`,
  `StoredSessionOpens` (`FirstRunAlone`), `AccountsStayReachable` and
  `TokensAreAccepted`, the last for all lifetimes, margins, resolutions and
  skews.

Assumptions are the named `ASSUME`s of the modules, besides the conditions
stated in the theorems (`DateTextReadable = FALSE`, `OneProcess`,
`PromptSaves`, `FirstRunAlone`). Nothing in the code
enforces these; they say which use of it the theorem is about. Two of the named ones are about the
world: `TimeAssumption` has an access token live at least as long as the
margin before its refresh, and `PasswordAssumption` has the first 72 bytes
determine a password that is no longer than that.

Every safety property of a passing run is a theorem. Only model-checked are the
liveness properties, which the prover does not reach; the parts of them that
are safety are proved:

| Liveness, by TLC | Safety it rests on, by TLAPS |
|---|---|
| `Converges` | `SyncMakesEqual`, `SyncedStaysSynced` |
| `RequestsEnd` | `DeadlocksStayContained`: what can be in a cycle of waits, and whose |
| `StopsWhenTold` | `PoolIsFreed`: the last step of `main` waits for dead contexts only |
| `UploadsEnd` | `ServerInvariant`: a lock is held by a statement that is running |

Only proved, in no passing run: `SealsNeverChange`, `AccountsStaySeparate`
(`AccountsSeparate` with one command at a time), incremental pulls
(in `VersionsNameContent`, `CleanRowsAlwaysTaken`, `UnsyncedChangesKept`,
`NoLocalVersionFalls`, `SyncMakesEqual` and `SyncedStaysSynced`), and full
pulls with several processes per device.

## 5. What is not modelled

- Cryptography: derivation, hashing and sealing are perfect. JWT signatures,
  issuers, audiences and the reading of keys.
- Integer width: versions are `int64`, far beyond the edits of a user.
- One account at a time in `VaultSync`, `SyncServer` and `VaultCrypto`: the
  server's tables are keyed by the user id of the token. What happens when the
  session changes hands is `ClientSession`'s subject.
- A call whose access token expires on the way is a failed call in
  `VaultSync`, `VaultCrypto` and `ClientSession`; when that can happen is
  `SignIn`'s subject.
- In `SkeeperServer`, connections that are waited for in a pool that is full,
  and the vault crypto requests, which `VaultCrypto` has. The auther runs the
  same life cycle with the requests of `RefreshTokens`; that composition is not
  written down.
- The coupling of callers in singleflight when the first of them is cancelled:
  every caller may fail at any time anyway.
- `TokenUseCase`, `InsertRefreshToken`, `MarkAsSynced` and the stream
  interceptors: no program calls them (there is no streaming RPC).
- Prompts, files, configuration, logging, TLS, generated code: plain input and
  output.

## 6. Plan

Done in this order: `VaultSync` and its abstract vault; `VaultCrypto` and the
agreement; `RefreshTokens` and the token store; the proofs of the three;
`ClientSession` on top of the token store; `SyncServer`, the table it
implements, `ServerLifecycle` and their composition, with proofs; `SignIn` with
its parts and proofs; `ClientSessionProofs`; `KnownVaultAlwaysSeals` and
`AloneSealsUnderOneKey`; `RefreshKeepsDevicesLoggedIn`; the synced rows with
incremental pulls; the safety halves of the liveness properties.

What could follow:

1. A vault with keys: `VaultSync` and `VaultCrypto` together, entries pulled
   from another device and opened with the adopted key.
2. Proofs: `ImplementsReplica` for incremental pulls, refining a vault whose
   devices show rows of several snapshots.
3. The auther's requests under `ServerLifecycle`.
