# TLA+ models of Placard

Placard publishes HTML pages. A Go server keeps the rows in a SQL database and
each version's bytes in an object store (local disk or S3); a background cron
expires pages and deletes objects; visitors read a page by its link, perhaps
with a share code; people sign in with a password or through a provider; a
command-line client publishes, logs in through a device flow and updates itself.
This directory holds the models, their TLC configurations, and the proofs, of
the parts that are hard to test.

`tlc -config PageStore.cfg MCPageStore.tla` runs a model; `tlapm
PageStoreProofs.tla` checks proofs. `PROJECT.json` lists every run, the source
lines each definition translates, the hazards and the theorems.

## Inventory

Paths are below `src/internal/` unless they start with `cmd/`.

| Component | State | Operations | What is hard | What makes it correct | Modules |
|---|---|---|---|---|---|
| Publishing and versions (`handler/publish.go`, `versions.go`, `files.go`; `repo/file*.go`) | `file` rows with a head counter, a share pin and a serving cache; `file_version` rows | publish, republish, restore, pin/unpin, visibility, delete, expire | rows and objects share no transaction; a CAS retry loop; requests racing a deletion | versions 1..n without holes; the cache names the shared version; a live page's bytes are there; a deleted page stands still | `PageStore` |
| Deferred deletion and cleanup (`cleanup/`, `repo/pending_object_delete.go`) | `pending_object_delete` rows with a retry count | enqueue in three handlers and one cron step; drain; retry ceiling | crash between deleting the object and its row; keys read before the transaction; rounds that overlap | only dead objects are queued; every queued object goes away or reaches the ceiling | `PageStore`, `CleanupCron` |
| Cleanup lock (`lock/`) | a Redis key or a mutex with a deadline | acquire, release | a lock that lapses under its holder | a release frees only its own | `CleanupCron` |
| Rendering and views (`handler/render.go`, `meta.go`, `repo/view.go`) | `view` rows | read the row, pass the gates, fetch the object, count the view | the key may be old when the object is fetched | an admitted reader finds the object | `PageStore`, `PageAccess` |
| Object storage (`storage/`) | files or S3 objects; staging files | put, get, delete, sweep staging | an error after taking effect; a sweep during a put | a put is all or nothing | `PageStore`, `CleanupCron` |
| Share codes and page access (`handler/sharecode.go`, `view_shell.go`, `authz/`, `sharecode/`) | code and its version on the file row; tickets in cookies | set, regenerate and clear a code, unlock, read | a ticket against a changed code; a budget peeked before it is charged | who may read a page, at every moment | `PageAccess` |
| Rate limits (`middleware/counter.go`, `iplimit.go`, `ratelimit.go`) | counters in Redis or memory, and per process | increment, peek, fall back | a counter that comes and goes; windows that turn under a request | a budget is a budget | `RateLimit` |
| Device flow (`devicecode/`, `handler/device.go`) | flows, user codes, poll gates, form challenges; in SQL or Redis | create, show form, approve, poll, consume, purge | two backends, read-modify-write in one of them; concurrent polls and forms | one token per flow; an approval is not lost | `DeviceFlow` |
| Accounts (`handler/auth_local.go`, `auth_oidc.go`, `admin.go`; `repo/user*.go`; `admincli/`) | users, identities, a bootstrap marker | register, sign in through a provider, link, unlink, reset, flag, delete | checks before transactions; two administrators at once | one first administrator; every account can be signed in to | `Accounts`, `Credentials` |
| Sessions (`session/`) | session rows or keys with a sliding and an absolute lifetime, and the OIDC flow on them | create, get with renewal, update, delete, sweep | the read-modify-write of the flow; renewal racing the end of a session | an ended session stays ended; a flow is used up | `Sessions` |
| Access tokens (`handler/token.go`, `middleware/auth.go`) | token rows | issue, revoke, delete, authenticate | a request in flight when its account is disabled | an account out of action does nothing new | `Credentials` |
| Start-up (`main.go`, `config/`, `migrate/`, `repo/setting.go`) | the secret key's file, the schema, the settings | resolve the key, migrate, seed | processes that start at once and die half-way | one key, a whole schema, an administrator's setting stands | `Boot` |
| CLI credentials (`cmd/placard/config.go`, `creds.go`, `login.go`, `root.go`) | `config.json` | log in, log out, call | no lock; a default that moves | a token goes to its issuer | `CLIConfig` |
| CLI self-update (`cmd/placard/update*.go`, `updater/`; `ghrelease/`, `version/`) | the executable, `<path>.old`, the release list | search, verify, replace | a list that grows; failure half-way; two at once; Windows | something to run is left; versions do not go back | `Releases`, `SelfUpdate` |
| Avatars, preferences, audit log, HTML and install scripts, logging | rows written once, text | | | no protocol to speak of | not modelled |

Interactions: handlers call repositories (SQL statements) and the storage client;
nothing but the database, the object store and Redis is shared between requests, and a
deployment may run several replicas, so two requests are two processes. The cron
runs on one replica at a time under the lock, while the lock lasts. Sessions,
device flows and rate counters live in Redis, or without it in SQL (counters: in
memory). An access decision passes through several modules: a credential and the
account behind it (`Sessions`, `Credentials`), the account's own life
(`Accounts`), the page's gates (`PageAccess`), its row and object (`PageStore`).
`CommandLine` composes the update with the credential store: a server may refuse
a CLI for its version, and an update replaces what the next command runs.

## Modules

| Module | Role |
|---|---|
| `PageStore` | publishing, rendering, the deletion queue and the cron over the database and the object store |
| `PageHistory`, `PageStoreRefinement` | what a page's history promises, and the mapping that shows `PageStore` to implement it |
| `DeviceFlow`, `DeviceGrant` | the device login on both stores, and what it promises |
| `Accounts` | accounts, identities, the first administrator |
| `Credentials` | what sessions and tokens let a request do while administrators act |
| `Sessions` | sessions and the pending OIDC flow, on both stores, under a clock |
| `RateLimit`, `PageAccess` | the counters; visibility, share codes, tickets and their budget, over the counters |
| `Boot` | processes that start at once |
| `CleanupCron` | overlapping cleanup rounds, the lock, the staging files |
| `Releases`, `SelfUpdate`, `CLIConfig`, `CommandLine` | versions and the release list; the update; the credential store; both in one person's hands |
| `PageStoreProofs`, `DeviceFlowProofs`, `AccountsProofs`, `CredentialsProofs`, `SessionsProofs`, `PageAccessProofs`, `ServerProofs` (`Boot` and `CleanupCron`), `CommandLineProofs` | inductive invariants and theorems |
| `MC...` | instances for TLC |

### PageStore

State. `file` is a function of the nano id: `status` is `none` (no row), `live`
or `deleted` (`is_deleted`), `latest` is `latest_version`, `shared` is
`shared_version` (0: follow the latest), `serving` is the `object_key` cache,
`expired` says that `expires_at` has passed. `fileVersion` and `pending` are sets
of rows. A queue row's `aged` says that its retention window is over: only
`user_delete` rows have one. `object` is a set of keys with bodies. A body is a
model value, told apart as the code tells bodies apart, by its hash. A key is
the triple the code formats into a path: nano id, version, random suffix.

Steps. A database transaction is one action, an object-store call is one action,
and everything a handler knows between two of them is in its record `req[c]`, so
a value read before a transaction and used inside a later one is as stale in the
model as in the code. The program counters and the code:

| `req[c].pc` | The code is at |
|---|---|
| `new` | top of `Publish`'s nano-id loop (`publish.go:172`) |
| `create` | after the upload, before the inserting transaction (`publish.go:211`) |
| `upload` | `publishNewVersion` with the head read, before `PutObject` (`publish.go:335`) |
| `append` | after the upload, before the CAS transaction (`publish.go:344`) |
| `read` | top of the retry, before the head is read again (`publish.go:311`) |
| `orphan` | in `enqueueOrphan` (`publish.go:410`) |
| `delete` | `DeleteFile` between reading the keys and its transaction (`files.go:109`) |

`PatchFile` is one action because it locks the row and works inside one
transaction. `render[v]` walks from the row read to the object fetch to the two
statements of the view count. `cron` walks through steps 1 and 2 of a round with
the lists it read at the start of each.

Faults are a parameter: each run chooses what may go wrong. The store may fail
before or after taking effect (`store`, `store_ack`), a transaction may roll back
(`db`) or commit and report an error (`db_ack`), a best-effort write of the queue
may be lost (`queue`), a process may die at any step (`crash`), and a generated nano id
may be taken (`collision`).

Left out: ownership (a request of another user is a 404 that writes nothing),
what a version's title says, share codes (`PageAccess`), slugs, quotas and audit rows. A
publish whose content equals the head at its first look changes nothing and is
not a step. Keys that name nothing any more are reused, which keeps `Nonces`
small: the cron's list may contain a key only while a row of the queue does.

### PageHistory and its mapping

`PageHistory` knows a page as a sequence of bodies, a pin, and whether it is
live. It may be created, grow by one body that differs from its last, be pinned
to a version it has, unpinned, or deleted, for ever. `PageStoreRefinement` reads
that page off the rows: `History` collects the bodies of the version rows in
order and `Serves` is the version whose row carries the serving key, so the
refinement fails if the cache lags the pin. `page_history` checks the mapping, and
`HistoryImplemented` proves it under every fault.

### DeviceFlow

State. `flow[d]` is the record of device code `d`. `new` and `gone` stand for no
record, before and after; a row past its `expires_at` exists but is not `Alive`
until it is purged, a Redis key goes at once. `index` and `backlog` are the Redis user-code keys
and the sorted set; `gate` is `next_poll_at` or the poll key; `challenge` is
the form token of each session. `approvals` and `tokens` record what `Approve`
reported as done and which tokens were issued: the code keeps the one in an
audit row and the other in the token table.

A behaviour runs on one store, chosen in `Init`. Each statement or command that
decides something is an action. Three groups are merged: the keys `Consume`
deletes on Redis after its script, the two reads of a user code on Redis, and the
challenge and flow purges of which nobody reads the second. What a person or a
request chooses (the user code typed, the lifetime) is chosen where it is
first used.

| Record, `pc` | The code is at |
|---|---|
| `create`, `mint` | after the count (`sql.go:52`, `redis.go:76`) |
| `store`, `track` | Redis: before the SET, before the ZADD (`redis.go:99`, `103`) |
| `approve`, `burn` | in `ConsumeChallenge`, compared, not yet deleted (`sql.go:202`, `redis.go:215`) |
| `lookup`, `approve` | before `ByUserCode`, before `Approve` (`device.go:529`, `538`) |
| `save` | Redis: in `Approve`, the record read (`redis.go:140`) |
| `poll`, `gate` | in `Poll`, the record read (`sql.go:134`, `redis.go:156`) |
| `save` | Redis: in `Poll`, before the save (`redis.go:163`) |
| `read`, `redeem` | in `Consume`, before its read and before its delete |
| `issue` | in `DeviceToken`, the record consumed (`device.go:664`) |

The two stores differ in one thing the properties see. SQL approves and redeems by
conditional statements on a row. Redis writes back the whole record it read, on
the condition that some record is still there: `PollSave` and `ApproveSave`.

`DeviceGrant` knows a flow as unused, open, granted, redeemed or lapsed, with the grant it
holds, the grants that were reported and the one token. Flows map to it by `PhaseOf` on
either store; several may lapse in one step because one statement purges them all. What
sets the stores apart is its `oneShot`. A store that is one-shot (SQL) grants an open flow
and redeems a granted one. One that is not (Redis) may grant a flow again and set it back
to pending, or to a grant it was given before (`SetBack`: what `PollSave` and
`ApproveSave` write back), and may redeem what it has just set back; but it redeems a
flow once, and never with a grant nobody was told of. That it is not one-shot is what
`DeviceRedis.cfg` shows.

### Accounts and Credentials

`Accounts` holds what decides who may sign in: the `user` table, the `identity`
table as a function of (provider, subject), and the bootstrap marker of the
setting table. Names are the attempts of `provisionOIDCUser`: 0 is the name asked
for, the others carry a suffix. A handler is in `request[r]`:

| `pc` | The code is at |
|---|---|
| `create` | before `createAccount`'s transaction (`handler/auth_local.go`), knowing whether the instance was empty |
| `takeover` | Postgres: `claimBootstrap` has counted, the marker is not yet written |
| `match`, `provision` | `resolveOIDCUser` after the identity was not found (`handler/auth_oidc.go`) |
| `bind` | before `Identities.Create`, for a link or a match by address |
| `link` | `completeOIDCLink`, the account checked |
| `unlink` | `OIDCUnlink`, whether there is a password read |

Left out: the runtime switches that close registration or SSO (a step they forbid
is one the model may not take), password verification, usernames as text, and
sign-ins that change no row.

`Credentials` starts where a session or a token has named an account. The
middleware reads the account's status (`status`), the handler runs (`act`), and an
administrator's handler reads the flag (`admin`); `AdminDeleteUser` lists and
deletes pages in batches (`list`, `delete`) and then removes the account
(`remove`). `late` records what was added after a deletion had looked for the last
time. Sessions outlive changes of the account, so any account may present
one; tokens have rows with their states.

### Sessions

`row[s]` is a session in SQL or Redis; the store is chosen in `Init`. A session
without an account is pending: a visitor is away at a provider. `Read` is
`Store.Get`'s first statement with its decision (`session/sql.go`, `session/redis.go`); `drop` and `renew` are its
second one; `ready` is a handler with the answer in hand. Then: `exchange` after
`clearFlow`, `replace` and `open` in `completeOIDCLogin`, `pending` in
`storeFlow` when there is no session. Redis drops a key at its deadline,
SQL keeps the row until `PurgeExpired`. `birth` and `used` record when a session
was opened and last read. The clock is `now`, and any number of steps fit between two ticks.

### RateLimit and PageAccess

`RateLimit` holds the two counters of one subject of `IPLimiter`: `shared` in Redis
(or in the map of a deployment of one process) for the current window, and
`local` in each process, which follows one window. `outage` and `forgotten` say
that in this window an increment went unanswered, and that counts were dropped
(the maps overflow, a process restarts). Its operators are parts of `PageAccess`'s actions.

`PageAccess` has one page and one address that many visitors share. `tickets` are
the unlock cookies ever handed out: anybody may hold any. A code sealed under
another `server.secret_key` reads as none. `Unlock` walks through `budget` (row
loaded), `ask` (local count passed), `guess` (budget passed), `hit` and
`hitLocal`. `ViewShell` and `Meta` are what a visitor with a set of
tickets is answered; `OnlyTheCodeOpens` relates them.

### Boot

Each process walks through `boot[p].at`: `key` and `link` (`EnsureSecretKey`
reads the file, or writes a temporary one and links it), `open`, `lock` (the advisory
lock of Postgres), `table`, `create`, `history`, `record` (gormigrate's look at
each table, CREATE TABLE, its look at the history and the insert into it), `seed`
(`SeedDefaults`), `up`. `Consoles` are `placard admin` commands, which migrate but
make no key. `End` kills a process anywhere. Only an instance with no `server.secret_key`
is modelled: a configured key is kept as it is and touches no file. A key file that
cannot be read, or is empty, ends the start, which `End` stands for. `database.auto_migrate` is
on, its default; with it off `openDB` looks at no table, and a server may serve a schema that somebody
has yet to complete.

`setting` is the row of one key, any of the three: the two switches, or the upload cap. `boot[p].seed` is
what the process's own configuration has for that key, drawn anew at each start. `SeedDefaults` inserts
it where there is no row. `Reads` is what `GetBool` and `GetInt64` return: the row, or the process's
own value when the row does not parse. The program writes no such row; `Garble` is somebody who edits the
table, the case `setting.go:43-46` provides for. The own value is also the process's `BodyLimit`
(`main.go:511`), which stays until it restarts: an upload is accepted within both (`Accepts`). The model
takes reads of the table to succeed, the configured cap to be positive, and the request to be no larger than
the upload in it. An upload whose read of the table fails is measured by the configured cap alone
(`maxUploadBytes`), as is every restore of an older version (`versions.go:196-202`).

### CleanupCron

`round[p]` is the round a replica's scheduler runs, with the rows it has listed
and whether its lock lapsed under it; `lock[p]` is the lock that replica would
take, one value for all with Redis, its own without. `put[u]` and `staging[u]` are
`PutObject` of the local store and its staging file, `old` once nothing has been
written for `tempSweepAge`. `PageStore` fills the queue and opens a round's
steps with one round at a time; here the queue starts full and rounds overlap.
Retention is left to `PageStore`. The limit of 200 rows in a drain is in neither: what a round leaves, the next lists.

### Releases, SelfUpdate, CLIConfig, CommandLine

`Releases` translates version comparison and the paging of the release list; a
version is a record of its numbers and prerelease identifiers. `Latest` skips what GitHub flags as a
prerelease; `Stable` reads the version's suffix, from which `release-cli.yml:48-50` sets that flag. `SelfUpdate` has the
executable's path and `<path>.old`, and the updates that run: `search` and `find`
read the list a page at a time while releases come and go, `fetch` verifies
against `checksums.txt`, and then `replace` and `copy` (rename, or copy when it
fails) or, on Windows, `stat`, `remove`, `aside` and `in`. `CLIConfig` has
`config.json` as a map from servers to bound tokens with a default, and the
commands: `code` and `approval` (device login), `load` and `save` (read, then
rename the staged file), `confirm`, `resolve`, `send`. `CommandLine` runs both from
one executable: a command runs the version it was launched with, and servers
turn away versions below their `min_cli_version`. How a token is issued is
`DeviceFlow`'s subject; here `Approval` hands one out.

## Runs

All runs are exhaustive for their constants. Symmetry is over model values that nothing
tells apart, in runs without liveness.

| Run | Instance | Question |
|---|---|---|
| `pages` | two write requests, a reader, the cron, two versions; faults `store_ack`, `db`, `queue`, `crash` | does a live page keep its objects, the queue its hands off them, and a deleted page stand still? |
| `page_history` | two requests with retries, two versions, one random suffix; faults `db_ack`, `collision` | are histories gapless, the cache current, every upload accounted for, and the rows a `PageHistory`, even when objects no longer are? |
| `page_progress` | fair cron and requests, a store that may fail at any call | are orphans reclaimed, does the queue drain, are expired pages removed? |
| `device_flow` | one flow, one session, two submissions of the form, two polls, one creation, both stores, one request that dies | is one token issued at most, are flows on either store grants, are approvals honoured? |
| `accounts` | two accounts, one address, two providers with one subject each, two requests, SQLite and Postgres | can every account be signed in to, is there one first administrator, is no identity handed over? |
| `unlink` | one provider with two subjects, two accounts | the finding below |
| `credentials` | two accounts, pages, tokens and requests, batches of one | what does a deletion leave, how does the last administrator fall, when is an account out of action? |
| `sessions` | two session ids, two flows, two requests, both stores; both lifetimes 3, clock to 4 | does a used flow return, is a session served past a deadline, does one come back, does one change hands? |
| `page_access` | one process, two codes, two requests, two keys, windows of one tick, clock to 1, a limit of 1 | who is let in, how many wrong codes are compared, does a revoked ticket come back? |
| `start_up` | two servers, one admin command, two keys, values 1 and 2, three tables, three ends, both drivers; a row that becomes unreadable | one key, a whole schema, a setting that stands, an upload cap lowered for all? |
| `cleanup` | two replicas, one row, one upload, ceilings 1 and 2, two deaths, with Redis and without | are rounds exclusive while their lock lasts, is the queue sound, are uploads spared? |
| `command_line` | two processes, two servers, two tokens, versions 1.9, 1.10-rc.2 and 1.10, two releases at once on pages of one, two commands, one change | does the executable survive, do versions go back, is an up-to-date CLI let in, do tokens and logins stay home? |

Why the bounds are enough. The races of this code are between two requests, two
replicas or two processes: a read that another's write makes stale. A third
adds no new pair.

* `PageStore`: at two versions a republish can lose the CAS and be deleted under; `MaxAttempts` 2 (3 in the code) gives
  one retry and one exhaustion; `RetryMax` 1 (default 5) a row below the ceiling and one at it. `LongHistory.cfg`
  goes to three versions, where a pin can name neither the first nor the latest.
* `DeviceFlow`: flows share nothing but the cap and the user codes; `MaxReports` 2
  tells one approval from two; two polls overlap when a client gives up on an answer.
* `Accounts`: two accounts and one address suffice for a name, an address or an identity
  to be contested, and for an instance to be emptied and filled again.
* `Sessions`: with a lifetime of 3 and a clock to 4 a session can be renewed, pass each
  deadline alone, and be revived late. Two renewals in flight at different times take an absolute
  lifetime of two idle ones: `LateRenewals.cfg` has one session and that room.
* `PageAccess`: limit 1 and counts to 2 tell below, at and over; guesses are counted
  to 7, above what the bound allows. One tick per window, two windows: a request crosses from one to the next.
* `CleanupCron`: `Int8Max` is 0 and stands for 127, so that one row can pass it; ceilings on
  either side. The proofs below hold for every value.
* `CommandLine`: a list of two releases on pages of one is read in two requests, between which it changes.

`cleanup`, `command_line`, `page_access` and `sessions` say `CHECK_DEADLOCK FALSE`: they
contain bounds (a clock, deaths, commands) at which nothing may be left to do, and
a system at rest is no error there.

Fairness (`FairSpec`), in `PageStore`: weak fairness on each request's next step (a
handler that is not killed runs to its end), on the cron's step (its ticker never
stops and it works through its lists), and on the passing of the retention
window. Nothing is assumed of users, of expiry, or of the store:
a store that fails for ever drives a row to `RetryMax`, where the code leaves
it to a person, and the properties say so (`Poisoned`). In `DeviceFlow`: weak
fairness on each poll under way and on the end of the poll interval, and strong
fairness on the polling of a flow. The CLI asks every few seconds until its
deadline; strong rather than weak only because the model has two slots for
requests and a server does not, so a flow must not be starved of a slot. Approvers
and creators owe nothing. The other modules state no fairness: nothing they promise is
that something happens.

Each property of a run that passes has a mutant in `PROJECT.json`: a plausible slip
in a translated definition that makes TLC find the property violated. The slips
are the operators whose comment starts with "Slip".

Configurations for use by hand, beside the runs:

| File, module | Shows |
|---|---|
| `LongHistory.cfg`, `MCPageHistory` | three versions without faults: holds |
| `LateRenewals.cfg`, `MCSessions` | `EndsForGood` with two slow renewals of one session: holds |
| `DeviceCapacity.cfg`, `MCDeviceFlow` | the cap is exceeded by no more than the creations under way, and one for each Redis request that dies before its ZADD: holds, and is proved |
| `DeleteRace.cfg`, `MCPageStore` | `DeletionIsComplete` is violated |
| `NanoIDCollision.cfg`, `MCPageStore` | `RollbackNeverCommitted` is violated when nano ids repeat |
| `OrphanBackstop.cfg`, `MCPageStore` | `OrphansReclaimed` is violated when a queue write is lost |
| `DeviceRedis.cfg`, `MCDeviceFlow` | `ApproveIsOneShot` is violated on Redis (for SQL it is proved) |
| `DeviceChallenge.cfg`, `MCDeviceFlow` | `ChallengeIsSingleUse` is violated |

## Findings

`unlink`. `DeleteUnlessLast` counts the identities of the account, and deletes all rows
of the provider (`repo/user_identity.go:78-100`). An account without a password
that holds two subjects of one provider (a second one is bound by a link, or by a sign-in
matched by address) has two methods by the count and none after the
delete. The trace: a first sign-in provisions the account, a link adds the
second subject, one unlink removes both. `auth_oidc.go:513-515` promises that the
last way to sign in is refused.

The configurations run by hand show where a comment says more than the code does:

* `DeleteFile` reads the keys (`handler/files.go:104`) before the transaction that
  queues them (109-117). A republish or restore that commits a version in
  between is deleted with the page and its object stays in the store, though
  `files.go:87` says every version's key is queued. `cleanup.go:162` has the same window.
* The first version's key depends on the nano id alone and is uploaded before the
  row is inserted (`publish.go:180`). A repeated id overwrites the other page's
  first version and then queues its key.
* `publish.go:407-409` counts on the cron to reclaim objects no row refers to
  when `enqueueOrphan` fails; no step of the cron does.
* `devicecode.go:140` promises that a second approval of a code is refused. On Redis
  `Approve` is two commands, and `Poll` writes its old record back
  (`redis.go:165`): a second approval succeeds, and an approval may be undone. When a poll
  that read the approved record goes on to `Consume`, the script deletes what was set back, and the token it
  issues names no approver. `TokensCarryGrants` says that this is all that can come of it.
* `ConsumeChallenge` compares and deletes in two steps and does not look at how many
  rows went: two submissions of one form are both admitted, though `devicecode.go:170` calls the
  challenge one-shot. On SQL the status condition of `Approve` stops the second.

## What the models make visible

Not violations of a property, but behaviours that the properties are worded around:

* Accounts. On Postgres two registrations on an emptied instance can both find the marker
  stale and both become administrator (`auth_local.go:271-277` accepts it;
  `OneFirstAdmin` exempts it). An account made by `placard admin create` does not claim
  the marker, so a registration already under way may become administrator beside it. An
  identity bound while its account is deleted is left without one.
* Administrators who demote or delete each other at once can leave none
  (`LastAdminFallsToARace` says that nothing else does). A page or token added after a
  deletion's last look survives the account (`late`).
* Sessions. A callback that finds its session ended counts the flow as consumed, and in SQL a
  late renewal, by id alone, may revive the expired row with its flow. It writes the deadline computed at its
  read: where a newer one stands, a slow renewal moves it back, the session ends early, and a second slow one
  brings it back, but not beyond the idle window of the last read that was served (`EndsForGood`). Two callbacks that
  both read before either clears both go on; the provider's single-use code stops the second.
  `config.go:100-104` says that without Redis each replica keeps its own sessions; `main.go:152-157` puts them in SQL.
* Page access. The budget is compared with `>`, so one more wrong code than the
  limit goes through in a window. A shared counter that does not answer the peek but takes the
  increment lets further ones through (`unseen`). A count added under an old window replaces the new one's.
  After a change of `server.secret_key` codes read as none and a guarded page is open to its link.
* Settings. An upload cap that an administrator raises is not in force on a server whose configuration has a lower
  one, until that is changed and the server restarted (`admin.go:319-321`), although `docs/configuration.md:288` names
  `/admin` only: `OrderStands` says that a lowered cap is in force everywhere, and that servers differ on
  an upload only past the `BodyLimit` of one. With a row that does not parse each server goes by its own configuration,
  and a restart does not repair the row; a change by an administrator does.
* Start-up. On SQLite two processes that create the schema at once may collide, and one
  exits. Nothing keeps a temporary key file of a process that dies from staying.
* Cleanup. `retry_max` above 128 makes `ListPending` fail for ever once a count passes what its int8
  holds; `Validate` has no upper bound. The process does not wait for its round to end.
* CLI. "Latest" is the most recently published release, not the highest. The copy that
  stands in for a failed rename is not atomic, and two that overlap may mix. On Windows a
  failed second rename leaves the path empty, with the old file beside it. `config.json` is last writer wins: of
  two logins at once one may be lost. `PLACARD_TOKEN` without `--base` goes to the default server, which a later login moves.
* A page deleted between the check and the insert of a view gets a stray view row (`repo/view.go`).

## Proofs

Every theorem is for all values of the constants, from the assumptions the modules
name (`ASSUME`), which TLC evaluates in the runs.

`ServerProofs`, about `Boot`: four theorems, for any number of servers and commands, tables, keys and values.
`BootTyped` (types), `KeyIsOne` (`OneKey`), `SchemaIsSafe` (`MigrationIsSafe`), `SettingsHold`
(`OrderStands`). `BootInv` adds five parts. `Roles`: a command has no key and seeds nothing, a
server in `link` has a key. `KeySettled`: past its link a server holds the file's key; it is
inductive because `Linked` writes the file only when there is none and the file never changes after.
`SettingSettled`: who serves has seeded, and what was ordered is in the row unless that has become
unreadable; it is inductive because `Seeded` leaves a row alone. With types that makes `Reads` the row for every server, and what
each accepts the lesser of row and `BodyLimit`. `SchemaGrows`: the tables below a process's
index exist, so one whose index has passed the last table may record the migration, and one
that reads it recorded may skip. `OneMigrator`: on Postgres the holder of the advisory lock is alone
between looking and recording, so that what it found missing still is.

`ServerProofs`, about `CleanupCron`: `RoundsKeepApart` (`RoundsExclusive`), `QueueStaysSound` (`QueueIsSound`) and
`SweepSparesUploads` (`UploadsSpared`), for any number of replicas, rows and uploads.
`LocksAgree` says that with Redis all replicas see one holder and without none sees
another's: that makes "an unlapsed round holds its lock" inductive. For the counts,
`QueueInv` adds to a row's count the replicas that still hold the row in their list: the sum stays
below the ceiling plus the number of replicas, because a failure moves one from the
second to the first, and only rows below the ceiling are listed. `UploadsInv`: a
staging file in use that is not fresh belongs to a stalled upload.

`DeviceFlowProofs`: six theorems.

* `TypeCorrect`: types, with `HasFlow` (a request past its first step has a flow).
* `OneTokenIsIssued`, on either store. `IssueInv` says that a poll about to issue
  is alone to have redeemed its flow and that the flow has no token; `StoreInv`, that a
  creation about to store its record does so for a new flow. Every other step is
  `Quiet`: it leaves redeemed flows redeemed, because `Save` writes only over a record
  that exists. This one lemma, `QuietKeeps`, carries most steps.
* `FlowsAreGrants`: on either store `DeviceFlow` implements `DeviceGrant`. `SidesInv` keeps the
  stores' requests apart. `GrantInv` says that every record in sight, a flow's or one
  a poll has read and may write back, is `Sound`: its grant is one that was reported for its
  flow (`Told`), or it has none and is pending. So what Redis writes back is a `SetBack`,
  never a grant from nowhere; each action then is one abstract step or none.
* `GrantsAreCarried` (`TokensCarryGrants`) and `OneShotOnSQL` (`ApproveIsOneShot`, with SQL) follow
  from the abstract grant alone: `HeldInv` is an invariant of `DeviceGrant`'s steps, read
  back through the mapping.
* `CapIsNearlyKept` (`CapOvershootBounded`). A creation that has counted and not stored is
  `Waiting`; a flow is `Lost` when it is neither in the backlog nor about to be put there.
  `CapInv` counts the flows that are there together with the requests that wait, and pays
  each lost flow with a crash. When a request counts, what it does not see is either being
  tracked, by a request that is not waiting, or lost.

`PageStoreProofs`: ten theorems, for every set of faults.

* `TypeCorrect`, `DeletionFinal`, `HistoryGapless` and `ServingCurrent` hold under every fault.
* `VersionsKept`, `QueueSafe`, `RollbackSafe` and `ReaderSafe` assume
  `UnambiguousWrites`: no nano id repeats and no commit loses its
  acknowledgement. Without it they are false, as `NanoIDCollision.cfg` shows for
  the first and hazard `publish.go:344` describes for the second.

The argument. `TypeInv` is `TypeOK` with three facts that the types of the next
state need: an append is within the version bound, the queue has one row per
key, and a row the cron is about to retry is below the ceiling. `HistoryInv`
adds that no row names a version above its page's head (`Fresh`) to
`GaplessHistory` and `ServingFollowsShare`: the CAS of `AdvanceHead` is what
makes it inductive, since a version is inserted in the same transaction that
moves the head from exactly the version below. `Inv` is the object side. A
key is at any time in the hands of one party: an upload not yet settled, a
version row, the queue, or the cron that has just deleted its object. `Held`
says what a request holds (its object is stored with its body, no version names
its key, nobody queued it); `Known` ties what DeleteFile, the reader and the
cron have read to what was there (keys of versions only ever belong to the page
they were read from, and a version is never dropped); `Safe` is the conjunction of the
checked properties. The queue sparing live pages is not inductive without
`Held`: an object an upload holds must not be in the queue, or committing its
version would put a queued key on a live page.

`HistoryImplemented`: `PageStore` implements `PageHistory`, under every fault. `ReadInv` adds
to `HistoryInv` that a key names the page and version it was drawn for, that the serving key is
some row's, and that a request about to append differs from the head it read. With `Mapped`
(what `History` and `Serves` read off the rows) and `RowsGrow` (rows are only added, at the
end) each action is one abstract step or none.

`UploadsTraced` (`UploadsAccounted`) assumes `UploadsSettle`: the store acknowledges what it
did, no queue write is lost, no process dies, and not both may nano ids repeat and transactions
roll back. TLC refutes the property when any one of these is dropped. The last came out of the
proof: while the cron has deleted an object and not yet dropped its row, the same id is drawn
again, the upload puts the object back, its transaction rolls back, the insert of
`enqueueOrphan` is `ON CONFLICT DO NOTHING`, and then the row goes. Every run with `collision`
that checks the property has no `db`.

`PageAccessProofs`, for any number of codes, keys, processes, windows and any limit. `CodeInv`
ties a ticket to the code that was typed for its version: versions only grow, and a ticket or
an unlock under way names none above the page's. From it `CodeOpens` (`OnlyTheCodeOpens`) and
`RevokedStaysRevoked` (`RevokedForGood`). `GuessInv` counts, for `GuessesStayBounded`
(`GuessesBounded`), the codes compared by the counter they are charged to: there are always
numbers `gs` and `gl` (`Budget`) that add up to them, stay below each counter's limit with the
requests it let through, and are what a counter below its limit shows. They are witnesses in
the proof and no variables of the model.

`AccountsProofs`. `NothingIsHandedOver` (`CredentialsStay`) is by cases over the writes, each
of which finds the row free or frees it. `OneIsFirst` (`OneFirstAdmin`) by `MarkerInv`: whoever
was first is still there, nobody was without the marker, and a marker over no account means
that the instance was emptied. `NobodyIsLockedOut`: every account has a password or an identity
*as long as no account holds two subjects of one provider*, the condition the `unlink` finding
violates, so that it is the only way; with one subject per provider it holds by itself
(`OneSubjectSuffices`). `PasswordsLast` (a password that was read is still there) makes the
unlink's earlier read safe.

`CredentialsProofs`, for any number of accounts, pages, tokens and requests, and any batch size.
`NothingIsOrphaned` (`OrphansAreLate`) by `LastLooks`, which says the same of an account whose
removal is the next step as of one that is gone; `OneAdministratorIsLeft` (`LastAdminFallsToARace`) and
`NothingNewUnderWay` (`OutOfActionAtOnce`) from `Acting` and `GoesOn`: a handler keeps its
actor, never deletes that, and passes the status check only when it is active.

`SessionsProofs`, on either store, for any lifetimes. `AnswersHold` says that what a handler
has read of account and birth is what a row still there says; `DeadlinesHold` says that a row's
deadline, and any a renewal carries, is within the idle window of the last read. From them
`ServedInTime`, `EndedStaysEnded` and `OneAccountEach`. `FlowsHold`, for `SpentIsSpent`: a flow
that was minted is on one session or in one handler, never on a row once it is spent.
`EndsForGood` cannot say that an ended session comes back only if its deadline had not passed
at the renewal's read: the slow renewals above refute that, and the proof found them where the
clock of `sessions` is too short to. `LateRenewals.cfg` shows them.

`CommandLineProofs`, for any number of processes, servers and tokens, and any releases.
`TokensStayHome`: what `config.json`, a command's copy of it, and the copy about to be saved
bind to a server was issued by it (`Home`). `ExecutableStands`: `Standing` says of each update
what it has verified, staged and moved, so that the path is empty only between two renames of
one update on Windows. `NobodyIsTakenBack`: `Current` says that an update not overtaken still
has under it the version its verdict was about. `UpToDateIsLetIn` is the long one. A search
that goes through a list while it grows must not miss what was there: `Descending` (the list is
in order while releases only go up), `Ahead` (what a search has not seen is below its page),
`Searching` and `Reassured`. It needs one law of comparison, `AtLeastAsNew`: what compares as
equal to a stable release is as new as whatever that release is; `Compare` goes by numbers
padded with zeros, so the law is proved from the least place where two versions differ
(`Differences`, `SameNumbers`, `NumbersStandIn`).

What the proofs assume of constants is only what the code's own values have: versions and
lifetimes are numbers, the sets of processes and requests are finite, file contents that are no
version are told apart from versions, and a server's minimum may be left at its default
(`LocalBuild`).

Only model-checked: all liveness (`OrphansReclaimed`, `QueueDrains`, `ExpiredIsRemoved`,
`ApprovalHonoured`), since fairness and ENABLED are beyond the prover; `EveryAccountReachable`
beyond its condition, on the instance of `accounts`. Proved and no run's property: the type
invariants of all modules but `PageStore`, `TokensCarryGrants`, `CapOvershootBounded`, and
`ApproveIsOneShot` for SQL, which need instances larger than, or apart from, those of the runs.

## Not modelled

* The cron's recount of views (`step3RecomputeViewCounts`), a cache of a count that nothing decides by; the
  limit of a drain's batch.
* `database.auto_migrate=false`. Reads of the setting table that fail.
* Avatars, preferences, the audit log, HTML and Open Graph
  pages, the install scripts, logging: rows written once and text, without protocol.
* Loading and validating the configuration: a function of files and environment. The development user.
* S3: the models know the storage interface, not its client.
* The budget of anonymous renders and `UserRateLimit`: they use the counters of `RateLimit` with
  nothing at stake but the number itself.
* The shell's 503 when the database does not answer; titles, slugs, quotas.
* CLI entries of `config.json` from before tokens were bound to a server; its output and argument parsing.

## Plan

1. Every component above that has a module is checked, and every safety property of the runs that pass is proved,
   some under the conditions named with their proofs.
2. Worth stating next: an abstract specification of `PageAccess` (who may read a page, without tickets and
   counters) and of `Sessions` (an account's session opened, used, ended), as `DeviceGrant` is of `DeviceFlow`.
3. `PageAccess` with more than one process in TLC, when its counters can be taken apart from its page; the
   proofs already hold for any number.
