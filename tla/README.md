# XDP-ban: TLA+ models, model checking and proofs

This directory specifies XDP-ban: a single Go process that takes ban requests
through a web interface, has them approved as a separate step, and enforces the
approved ones by writing eBPF maps that an XDP program consults for every packet.
The modules are written from the code; the paths below are relative to the root
of the repository.

## 1. Inventory

| Component | Code | State it keeps | Operations | Talks to |
|---|---|---|---|---|
| Ban requests | `internal/web/handlers.go`, `lookup.go` | table `ban_requests`, mutex `decideMu` | create, approve, reject (page and mailed link), roll back | guard, ladder, mailer, dispatch, `banMaps` (callback `RevokeGlobal`) |
| Approval mailer | `internal/approval` | table `approval_tokens` | issue a token, send the mail | ban requests |
| Dispatch service | `internal/dispatch` | table `dispatches` | second guard check, one row per approved ban | guard; the executor reads its rows |
| Penalty ladder | `internal/escalation`, `nextTTL`, `recordLadder` | table `ban_ladders` | rung of a new ban, climb after an approval | ban requests, scoped bans |
| Safety guard | `internal/safety` | table `protected_targets` | verdict on a target or a set of prefixes | both kinds of ban, dispatch |
| Scoped bans | `internal/web/scoped.go` | table `scoped_bans`, `decideMu` | create, approve, reject, revoke, roll back | quota, prefix library, guard, dispatch, `banMaps` |
| Quota tracker | `internal/quota`, `restoreQuota` | counters behind a mutex | check, reserve, release, rebuild at start | scoped bans |
| Executor | `cmd/xdpban/exec_loop.go`, `executor.go` | a snapshot of rows, `targetIDs`, the eBPF maps | poll, apply, mark | `dispatches`; the kernel |
| Reconcile loop | `cmd/xdpban/reconcile.go` | none between passes | compare acknowledged rows with the map, warn | `dispatches`, the maps |
| Prefix library | `internal/prefixdb` | files, the published `*DB` | sync, upload, overrides, reload, resolve | scoped bans |
| Packet path | `bpf/xdp_filter.c`, `internal/banmap` | the eBPF maps | longest-prefix match, expiry | - |
| Accounts | `internal/web/users.go`, `session.go`, `csrf.go` | table `users`, sessions in memory | log in and out, change role, password, active flag | every handler |
| Start and shutdown | `cmd/xdpban/main.go` | the process | open, seed, load maps, serve, stop | everything |
| Capabilities, reports, audit log, pages | `internal/policy`, `internal/report`, `internal/model`, `internal/web/templates*.go` | append-only rows | read-only | - |

Everything runs in one process: a goroutine per HTTP request, one for the
executor's ticker, one for the reconcile ticker. They share the SQLite database,
the quota tracker, the Go map `targetIDs` and the kernel maps. Only decisions
(approve and reject, by page or by link) take `decideMu`; submissions, rollbacks
and the loops do not.

**What is hard.** Two decisions about one request; a rollback, which takes no
lock, against a decision or against the executor; a guard, a ladder row, a quota
figure or a prefix library read at submission and used at approval; a commit
followed by a separate insert; a row written to the map entry by entry; the
database read before the map; a restart that empties the maps and keeps the rows;
reloads of the prefix library that overlap, and files that are half written when they
are read; local rules laid over ranges they only partly cover; splitting a range that
touches the last address; an expired map entry that hides a live one behind it.
Each is listed with its line under `hazards` in `PROJECT.json`.

**What makes each component correct.** Ban requests: nothing is enforced that was
not granted, and what is closed stays closed. Dispatch: a veto is final, a row is
written only while it is pending. Ladder: severity is earned by approved bans.
Executor: every approved ban comes to an outcome, an acknowledged one is complete.
Reconcile: every alarm has a cause, no loss is missed. Quota: what is counted is what is held,
and open bans stay under the high-water mark. Guard: what is dispatched is what
was checked. Prefix library: it keeps serving, what is published is what the files
say, the status is true and a sync ends. Resolution: the prefixes cover the addresses
asked for and no other one, with as few prefixes as possible. Packet path: a packet is
dropped only on account of a ban that is in force, and time alone never starts to drop
one. Accounts: an active admin remains, no session outlives the change that
ends it, no handler undoes what another one did.

## 2. Modules

| Module | What it is |
|---|---|
| `PenaltyLadder` | the constant-level operators of the ladder, instantiated by the two pipelines |
| `ApprovalGate` | abstract specification: submit, decide once, install only what was granted, clear |
| `BanPipeline` | bans of one target, from `banCreate` to the kernel map and back |
| `ReconcileLoop` | `BanPipeline` with the reconcile loop running beside it |
| `ScopedBans` | scoped and global scoped bans, quota tracker, dispatch, executor, revocation |
| `Accounts` | users, sessions, login and the user management pages |
| `PrefixLibrary` | the files of the prefix library, sync, upload, local rules, reload and start |
| `PrefixResolve` | from a selector to prefixes: rules over the library, merging, splitting |
| `PacketPath` | `PrefixResolve`, the rows it leads to, the two tries and the XDP program |
| `BanPipelineProofs`, `ReconcileProofs`, `ScopedBansProofs`, `AccountsProofs`, `PrefixLibraryProofs`, `PrefixResolveProofs`, `PacketPathProofs` | the theorems about the module of that name |
| `ScopedQuotaProofs` | the theorems about the quota tracker and the types of `ScopedBans` |
| `MCBanPipeline`, `MCReconcileLoop`, `MCScopedBans`, `MCAccounts`, `MCPrefixLibrary`, `MCPacketPath` | instances for TLC |

Both pipelines implement `ApprovalGate` under a refinement mapping: a request is
*granted* once its `effective_at` is set, which only the approving transaction
does, *open* while it is pending, *refused* when it ended otherwise; a slot is a
map key and holds the id of the rule written under it.

### How state and actions correspond to the code

One action is one database statement, one transaction, one call of the quota
tracker or one map operation, together with the pure code around it. What a
handler remembers between two of them is its program counter `pc[w]` and the row
it works on, `job[w]`. A handler that returns early is an action or a disjunct
that calls `Return`; the deferred `Unlock` is part of that action.

`BanPipeline`:

- `banCreate`: `BanCreate` (guard, ladder read and insert), then `GenTokensAndSend`.
- `banApprove`, and `approveDo` with `decision=approve`: `BanApprove` or `ApproveDoApprove`
  (the handler has the lock and saw the row pending; the link has used its token),
  `BanApproveTx` (the transaction with its re-check), `DispatchGuard`,
  `DispatchVeto` or `DispatchInsert`, `RecordLadder`.
- `banReject`, and `approveDo` with `decision=reject`: `BanReject` or `ApproveDoReject`,
  then `BanRejectUpdate`.
- `lookupRollback`: `LookupRollback`, then `RollbackReject` for a pending ban, or
  `RevokeGlobal` and `RollbackRevoke` for an active one. No lock.
- `pollAndExecute`: `Poll` (the query), `Apply` and `Mark` per row.
- the environment: `ExpireToken`, `EditProtected`, `Restart`.

`ScopedBans` has the same shape. A submission's form (host and selector) is a
constant of the ban. The drift of `scopedBanApprove` is four actions, because the
tracker's mutex is released between its calls: `DriftRelease`, `DriftReserve`,
then `DriftSave` or `DriftBack`. With a host one row carries all prefixes; without,
each prefix has a row. `PutPrefix` writes one entry of a row, so a row may fail in
the middle. A revocation is `ScopedBanRevoke` (the row is loaded), `RevokeQuery` (its
dispatch rows), `RevokePrefix` per entry and `RevokeWrite`; `ReleaseQuota` is the last step
of every handler that gives a reservation back. `MaxSubmitted` bounds the submissions.

`ReconcileLoop` adds `ReadAcked` (the query), one `ListGlobalBans(t)` per key of
the iterator, and `Report`, which may come before all keys are listed: the loop ends at
the first `Next` that fails. All of `BanPipeline` may step in between.

`Accounts`: `CheckPassword` and `PutSession` are the two halves of `doLogin`; `Admit`
is the way through `requireLogin`, `requireCSRF` and `requireCap`; `Load`, `Count`,
`Write` and `Revoke` are the statements the four handlers that change a user have in
common, `CreateUser` is the fifth handler. The handlers read a user, count the other
admins and update in three statements that no lock spans.

`PrefixLibrary`: a worker is the goroutine of `SyncFrom` or an HTTP handler. `SyncFrom`
takes the status, then come `Download`, `Normalize`, `Rename`; `ImportUpload` begins at
`Normalize`. `PrefixDBSaveOverride` is followed by `Truncate` and `Write`, the two effects
of `os.WriteFile`. All three go on to `Reload`: `Load`, `ApplyOverrides`, `SetGlobal`. An
early return is `End`, which stands for the deferred `finish` of a sync too; `EndUnsettled`
is one after a file was changed. With faults every file operation may fail, reading
included, and a write may leave a part of a file. `Boot` is `loadPrefixDB` and the reload
after it, `Unread` what they make of files that cannot be read. `EditOverrides` is an operator with an editor. A
file is told only by whether it normalizes, loads and parses. `lone` and `settled` are
history variables: which reload nobody overlapped, and whether one has finished since
something else touched a file.

`PrefixResolve`: `Overlay` is `applyOverrides`, `Candidates` the filter of `Resolve`;
`Merge`, `MergeLast`, `NextRange` and `Split` are one turn of the loops of `mergeRanges`
and `rangeToCIDRs`, so that what the loops maintain can be stated. An address has
`Width` bits.

`PacketPath`: `BanRequest` and `ScopedBan` leave rows, `Resolving` and `Dispatch` call
`PrefixResolve`, `Apply` with `PutPrefix` and `Revoke` with `DeletePrefix` are
`banMaps`; `Lookup`, `IsExpired` and `Drops` are the XDP program, evaluated for every
packet in every state. One ban is on its way at a time, since how several interleave is
the subject of `ScopedBans`. `systemBootTime` tells from `/proc/uptime` when the
kernel's clock started; `BootTime` is how far it is off, and `KtimeDeadline` converts with it, never below zero. `MaxBans` and `MaxTime` bound submissions and the clock.
`given` and the `addrs` of a row are history: which bans are in force, and which
addresses each of them was to cover.

### Abstractions

- The audit log is left out: nothing reads it back. `effective_at` stands for the grant.
- Time: whether an observation window, a TTL or a token has run out is a choice.
- `BanCreate` is atomic from the guard to the insert. The guard's verdict and the
  ladder row may be stale at the next decision, which is what the properties ask about.
- TTL and level columns of scoped bans are left out; the ladder row they read and
  write stays. The two pipelines are not composed: a ladder row or a key shared by a
  ban and a global scoped ban behaves like one shared by two bans.
- The tracker's counts of rules and targets are shown and never read; the address
  share only asks for a confirmation. Both are left out.
- Prefix arithmetic is abstracted to "overlaps an active protected target". When
  the query of `protected_targets` fails the guard goes on with its built-in set:
  with faults its verdict may then be "safe" for anything.
- A data race on `targetIDs` (HTTP goroutine against executor) that ends the
  process is a `Restart`.
- Passwords are not represented: `outdated` records which sessions and logins are older
  than a change that is to end them. It and `overlapped` are history variables.
- The rule ids in the map are primary keys; the map values' other fields are left out.

## 3. Runs

| Run | Instance | Shows |
|---|---|---|
| `pipeline_safety` | 2 requests, 1 target, 2 workers, faults, restarts | `TypeOK`, `EnforcedOnlyIfApproved`, `VetoedNeverDispatched`, `SeverityIsEarned`, `NoResurrection`, `NoPutAfterAck`, `ImplementsApprovalGate` |
| `pipeline_liveness` | 2 requests, one parsable and one unparsable target, 1 worker | `ApprovedEventuallyExecuted` |
| `reconcile` | 2 requests, 1 target, 1 worker, restarts | `ReconcileTypeOK`, `DriftHasCause`, `LossIsReported` |
| `scoped_gate` | a ban with and one without a host, one of them submitted, 1 prefix, 3 workers, faults, reloads, edits, restarts | `ScopedTypeOK`, `ImplementsApprovalGate` |
| `scoped_quota` | a ban with and two without a host, two of them submitted, 2 prefixes, mark 2 with and 1 without a host, 2 workers whose requests do not collide, reloads, restarts | `QuotaIsExact`, `WithinHighWater`, `ProtectedNeverDispatched`, `AckedIsComplete` |
| `accounts` | 2 users, 3 logins, 2 workers, faults, restarts | `AccountsTypeOK`, `AdminRemainsSerially`, `SessionsAreCurrent`, `StaleRowsAreNotWrittenBack` |
| `prefix_library` | 2 libraries, 1 rule file, a library at start, 2 workers, faults, restarts | `LibraryTypeOK`, `PublishedIsCurrent`, `StatusIsTrue`, `ServesUntilRestart`, `SyncEnds` |
| `packet_path` | 3-bit addresses, 4 libraries with and without a rule, 1 host, 2 targets, 2 bans, 2 ticks, `BootTime` 1 | `PathTypeOK`, `ResolveIsExact`, `CoverIsMinimal`, `RulesWin`, `DropsOnlyBanned`, `DropsUnlessShadowed`, `TimeOnlyReleases`, `SplitShrinks` |

Bounds and why they are enough.

- Pipelines. Two requests of one target are the least number that share a map key and
  a ladder row; two workers let every lock-free step fall into the middle of a
  decision. `TopLevel = 1` gives a first and a permanent rung. `BatchLimit = 1` makes
  the snapshot older than rows that arrive; 2 lets a snapshot hold both.
- Scoped bans. A mark of 2 for a ban of up to two prefixes, and of 1 for two bans without
  a host, makes submissions and drifts compete for the last entries; a drift to two
  prefixes without a host never fits and is undone. `scoped_quota` has a map with room for one
  entry only, as when expired entries, which nobody deletes, fill the rest: a row of
  two prefixes then fails in the middle. `scoped_gate` has one prefix and one
  submission, so that three workers (a decider, a rollback and another of either),
  drifts, failures, edits and restarts fit into one run; several bans at once are in
  the other run. Two requests at once let a submission be anywhere between its check, its
  reservation and its insert while another one or a decision uses the tracker.
- Accounts. With two users each is the only other admin of the other, and three logins
  let one of them come back after his session was ended.
- Prefix library. Two contents tell a new library from the one it replaces; contents
  that only `normalize` accepts, contents it refuses and what a full disk leaves are one
  each. Two workers are a sync and an upload, or two reloads that overlap.
- Packet path. With three bits there are ranges that touch the first and the last
  address, and ranges that split into several prefixes; the four libraries have nested,
  overlapping, adjacent and separate ranges, with a range of another country in the
  middle. Two bans and two ticks let an expired entry lie over or under a live one.
  `BootTime = 1` makes the conversion of deadlines clamp at first and shift them later, so
  that a ban runs out early.

`Requests`, `MaxSubmitted`, `MaxBans`, `Users` and `Tokens` bound the number of
submissions, accounts and logins, `MaxTime` the clock; nothing else is counted. Symmetry
is used over interchangeable requests, workers, bans and prefixes, in runs without
temporal properties other than box properties. `packet_path` and
`last_admin` do not check for deadlock: with a bounded number of submissions and a
bounded clock, or of logins, the system comes to rest.

`scoped_quota` runs under `ApartSpec`, which its configuration states as `Spec` with the
action constraint `NoCollision`: any requests at once, except two that `Collide`.
Two collide when they are about the same ban, since each of them gives its reservation
back, or when one of them reserves entries of a pool while a decision on another ban of
that pool is between the two calls of a drifted exchange and the update that follows it.
The second of these breaks the mark, which is the finding of `mark_broken`; a submission
that checks before the exchange and reserves after it, several submissions that compete
for the last entries, and everything else that runs at the same time are in the run.
`AdminRemainsSerially` and `SessionsAreCurrent` speak of behaviours in which no two
requests overlapped so far, and `PublishedIsCurrent` of a reload nobody overlapped: the
interleaving that breaks the first is the finding of `last_admin`, the others are listed
below. `DriftHasCause` lets a listing that ended early be the cause of a report, which is
what the code does (below); that the two reads are apart is never the cause.

Fairness. `Proceed(w)` is weakly fair for every worker: a goroutine runs until its
handler, or its sync, returns; a download ends because the HTTP client has a timeout.
`Execute` is weakly fair: the ticker fires while the process runs, and each pass works
through its rows. `Reconcile` is weakly fair for the same reason. Nothing is assumed of
users, the clock or the operator. `pipeline_liveness` has neither faults nor restarts,
since an approval whose insert failed is never retried (section 5); `LossIsReported`
assumes that the process eventually stays up.

### Where the code departs from what the repository says

Four runs are expected to find a violation; each finding quotes the statement.

| Run | What happens |
|---|---|
| `rejected_dispatched` | a rollback reads *pending*, an approval commits and dispatches, the rollback writes *rejected* by id alone |
| `last_admin` | two admins demote, disable or delete each other at once; each passes the check, none is left |
| `library_lost` | a file of IPv6 lines normalizes and is renamed over the library, and only then `Load` refuses it; at the next start there is no library |
| `mark_broken` | a drifted approval gives back one entry and needs two; a submission takes the room in between, and what was given back no longer fits: the open bans hold 3 entries under a mark of 2 |

The models contain more behaviours a reader may not expect, which no property denies:

- `ListGlobalBans` takes a `Next` that fails for the end of the map (`executor.go:202`):
  the kernel may abort an iteration when keys are deleted under it, and main closes the map
  at shutdown. `reconcile` then reports bans whose keys are in the map. `DriftHasCause`
  names this cause next to a removal.
- An expired entry that is the longest match of a packet lets it pass (`xdp_filter.c:110`),
  although a shorter prefix on the blacklist covers it and has not run out: a short ban
  inside a permanent one opens a hole in it when it ends, and nothing deletes expired
  entries. `DropsUnlessShadowed` says when a live entry drops all the same.
- A rollback lifts an active ban whose row is in the executor's snapshot. The rule is
  written afterwards and stays.
- Two bans of one target, or two prefixes of one key, share an entry. Lifting one ban
  removes the entry of the other, and a later `Put` replaces its deadline.
- Two requests about one scoped ban, such as a rollback and a rejection, each give its
  reservation back; the second time it is taken from other bans.
- When the query of its dispatch row fails, `scopedDispatchPrefixes` reports no row: a ban
  towards a host is then revoked and its entries stay in the map.
- A ban vetoed at approval keeps its reservation until the next restart; this is the
  difference `QuotaIsExact` allows between what is counted and what is held.
- An approval whose selector no longer resolves, or no longer fits the quota, leaves the
  ban active without any row, and it cannot be approved again.
- A login that checked the old password may store its session after the change of the
  password has ended all sessions, and the session lives for its eight hours.
- `Reload` says of a faulty rule file that the library is loaded and the rules are
  ignored (`sync.go:197`), but returns before it publishes anything. At the start the
  library without rules is indeed used.
- Two reloads may publish in either order, so that the older state of the files stays.
- A reload that cannot read a file that has just been replaced keeps the old library
  published; the new one is used from the next reload or start on.
- A write of the rule file that fails half-way leaves it empty or faulty, while the old
  rules remain published until the next reload or start.
- A rule replaces every range it overlaps, also the part of it outside the rule.
- `normalize` does not look at the errors of its last writes; a library cut short by a
  full disk is used like any other.
- A library named by `XDPBAN_PREFIX_DB` is replaced by `prefixdb.tsv` when the program
  starts, if that file can be read.

## 4. Proofs

TLAPS checks the following for all values of the constants, under the named assumption
of each module. The assumptions only say that the special values differ from the
ordinary ones, that bounds are natural numbers, and, where cardinalities matter, that
the sets are finite. `ResolveAssumption` also says that a prefix of length *n* has twice
the addresses of one of length *n + 1*, which spares the prover powers of two.

| Module | Theorems |
|---|---|
| `BanPipelineProofs` | `TypeCorrect`, `InvariantCorrect`, `EnforcementIsApproved`, `VetoIsFinal`, `SeverityEarned`, `ClosedStaysClosed`, `AcknowledgedOnce`, `PipelineImplementsGate` |
| `ReconcileProofs` | `ReconcileTypeCorrect`, `EveryDriftHasCause` |
| `ScopedBansProofs` | `ScopedInvariantCorrect`, `ScopedImplementsGate`, `ProtectedIsKept`, `AcknowledgedIsComplete` |
| `ScopedQuotaProofs` | `ScopedTypeCorrect`, `QuotaExact`, `HighWaterIsKept` |
| `AccountsProofs` | `AccountsTypeCorrect`, `AdminRemainsCorrect`, `SessionsCorrect`, `StaleRowsCorrect` |
| `PrefixLibraryProofs` | `LibraryTypeCorrect`, `StatusCorrect`, `PublishedCorrect`, `LibraryServes` |
| `PrefixResolveProofs` | `ResolveTypeCorrect`, `ResolveExact`, `RulesTakePrecedence`, `SplitTerminates`, `ResolveMinimal` |
| `PacketPathProofs` | `PathRefinesResolve`, `PathTypeCorrect`, `PathResolveExact`, `PathMinimal`, `PathRulesWin`, `DropsAreBanned`, `LiveEntriesDrop`, `TimeReleases` |

Each module has one lemma per action or group of actions, and under it one step for each
conjunct of the inductive invariant the action can disturb.

**Ban pipeline.** `EnforcedOnlyIfApproved` is not inductive: when the executor writes a
key, only the dispatch row says that the request was approved, and when a dispatch is
inserted, only the program counter of the handler says so. `IInv` names these links:

- `MutexInv`: a worker is between `Lock` and `Unlock` exactly when it holds `decideMu`,
  hence no two decisions are in flight at once;
- `RowInv`: `active` and a dispatch each imply `effective_at`, which implies that
  the row is no longer pending; a vetoed row has no dispatch;
- `WorkerInv`: past the transaction the row is granted, and until the insert it has
  no dispatch and is not vetoed. This needs `MutexInv`: another decider could insert;
- `ExecutorInv`: rows in the executor's snapshot are pending, because only the
  executor changes a row's state. It makes `NoPutAfterAck` hold.

`SeverityEarned` counts: a ladder row climbs only by an approval that has not been
recorded yet, so that the requests already recorded bound the level. The counting lemmas
need `Requests` to be finite.

**Reconcile loop.** `CInv` adds to `IInv` what a pass knows. A ban that was ever written
is in the map or its key was cleared since (`PutInv`); the key of a ban the pass read as
acknowledged is still to be listed, was seen, or was cleared before it could be
(`ListInv`). When a pass ends, a ban it reports is therefore one whose key was cleared
or was still to be listed, which is `EveryDriftHasCause`. This rests on the order of the
two reads, database first.

**Scoped bans.** `BInv` has the types, `JobInv` (who holds the lock and which ban it
works on), `GrantInv` (a ban takes effect once, and only then has rows) and `PageInv`
(the rows the executor works on belong to such bans). It gives the refinement of
`ApprovalGate` with faults, edits, reloads and restarts. `ProtectedIsKept` assumes
`~Faults` and `~Edits`: with a failing query the guard falls back to its built-in set,
and a target may become protected after the check. Its `VetoInv` follows the prefixes
from the guard to the row to the executor's snapshot. `AcknowledgedIsComplete` assumes
`~Faults` and that no two requests are about the same ban (`ApartSpec`): otherwise a
decision and a rollback may interleave so that entries are taken out of a ban that is not
lifted. It needs `AloneInv`, what a request then finds unchanged, and `WrittenInv`, that what
the executor has passed of a row is there or was taken out.

**Quota.** What open bans hold is the sum of their `prefix_count`. `Held` states it as the
number of pairs *(ban, i)* with *i* from 1 to the count, so that the facts about it are
facts about finite sets, provable without induction: the sum changes by the share of the
one ban a step touches (`ClaimsChange`). `ScopedTypeCorrect` follows, with faults and any
number of workers; its point is that the tracker stays a natural number although
overlapping requests give reservations back twice.

`QuotaIsExact` speaks of the moments when no request is served and is not inductive.
`charge` says what the tracker counts for each ban while requests are under way: the count
of an open ban at rest; what a handler has reserved and not yet inserted, or closed and not
yet released; nothing between the two calls of an exchange; the new count before it is
saved. `LedgerInv` says of every pool that the tracker counts the sum of the charges, and
at most what vetoed bans had reserved on top, and stays under the mark (`LedgerAt`); and of
every exchange that it has room to be undone, so that `DriftBack`, whose error the code
ignores, succeeds (`ExchangeAt`). It rests on `CopyInv`: the count and the state a handler
read are still those of the row, since no other request is about its ban. A reservation by
another request is the one step `ExchangeAt` does not survive, which is why `ApartSpec`
excludes it in the pool and for the duration of an exchange, and only there. At rest each
charge is what the ban holds (`SharesAreHeld`), and both properties follow.

`QuotaExact` and `HighWaterIsKept` hold for any number of workers under `ApartSpec` and
`~Faults`: a revocation whose last update fails releases the reservation of a ban that stays
open. Reloads, edits and restarts at any point are included. So are requests that overtake
each other between `Check` and `Reserve`, which is the case the tracker's own test
(`quota_test.go:110`) tries: the mark holds because `Reserve` looks again. What
`HighWaterIsKept` leaves out is what `mark_broken` shows to break it.

**Accounts.** `AInv` says which row a handler holds (`JobInv`) and, as long as no two
requests overlapped, that one worker at most is at work (`SerialInv`), that the row it
holds is the row in the table and another admin is there if it takes one away
(`FreshInv`), and that no login is under way that a change was to stop (`LoginInv`).

**Prefix library.** `LInv` says what a worker holds at each step (`HoldInv`), that a lone
worker is the only one at work (`AloneInv`) and loads what is in the files
(`LoneLoadInv`), and that between reloads the published library is the current one as
long as nobody has passed the step that changes a file (`CurrentInv`); a worker that gives
up after that step leaves it open which one is published (`EndUnsettledInv`).

**Resolution.** The loop invariant of both loops is that the addresses of the ranges not
yet merged, the range that grows, the merged ranges, the rest of the one being split and
the prefixes so far are together the addresses wanted. `RulesTakePrecedence` follows from
exactness and from `Overlay`. `SplitTerminates` shows that each turn leaves strictly less
of a range, at the last address as well. `ResolveMinimal` needs a second invariant,
`CInv`. Merged ranges are apart and an address nobody wants lies behind each (`GapInv`,
`ApartInv`). Hence a prefix that starts a block twice its size was split off where its
range ends inside that block, so that not all of the block is wanted (`WidestInv`, by the
choice of the largest prefix that fits). Two prefixes that are the halves of a block would
cover it; `Halves` is the arithmetic of it.

**Packet path.** `PathRefinesResolve` shows that every behaviour of `PacketPath` is one
of `PrefixResolve`, which carries its theorems over. `DropsAreBanned` rests on `HeldInv`:
every map entry is held by a row that was not revoked, with its deadline, and on `RowInv`,
that no prefix of a row reaches an address the ban was not to cover. `DeletedInv`
keeps the first while a revocation goes through the prefixes of a row. `LiveEntriesDrop`
needs `KnownInv`, that every host with an entry is registered.

What stays with TLC: liveness (`ApprovedEventuallyExecuted`, `LossIsReported`,
`SyncEnds`), which is out of the prover's reach, and the runs that expect a violation.
Every safety property of a passing run is proved, four of them under the assumptions named
above where the code needs them.

## 5. Not modelled, and why

- *Orderly shutdown.* `main.go` cancels the executor, does not wait for the loops,
  drains HTTP and closes the maps. The order has no state of its own: a write to a closed
  map is the failing write of the models, followed by `Restart`.
- *The composition of the pipelines with the library and the packet path.* `ScopedBans`
  takes an arbitrary library per reload, a superset of what `PrefixLibrary` does;
  `ServesUntilRestart` justifies that a library never disappears in between. `PacketPath`
  takes any ban that was decided.
- *Capabilities*: a constant table; the models let every worker call every handler,
  which is a superset of the behaviours.
- *The guard's prefix arithmetic* and the quota's counters of rules and targets.
- *Conflict resolution policy, reports, audit log, pages*: pure or read-only.
- *SMTP, the HTTP server, SQLite and the eBPF loader*: external; their failures are
  the `Faults` and `Restarts` of the models. In the XDP program the parsing of frames and
  the counters are left out.
- *A crash or failed insert between the approving transaction and the dispatch*
  leaves an active ban that nothing queues. The safety runs include it; the liveness
  run excludes it by its constants.

## 6. Plan

Done: `PenaltyLadder`, `ApprovalGate`, `BanPipeline`, `ReconcileLoop`, `ScopedBans`,
`Accounts`, `PrefixLibrary`, `PrefixResolve`, `PacketPath`, and the proofs of section 4.

Left, in this order:

1. `PrefixLibrary` and `ScopedBans` composed, with the library of a ban told by its
   content, to state which library a decided ban was resolved against.
2. The order of an orderly shutdown, should it come to depend on a wait.
