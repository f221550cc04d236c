# A verification project for AegisKeys

AegisKeys keeps API keys in an encrypted vault, launches applications with the
keys they need, and serves keys to local clients through a credential broker.
This directory holds TLA+ models of its parts, TLC runs over them, and TLAPS
proofs about them. `PROJECT.json` lists the components, the runs, the theorems
and the lines each definition models.

    tlc -workers 2 -config approval_concurrent.cfg MCBrokerApproval.tla
    tlapm BrokerApprovalProofs.tla

## The system

| Component | State | Operations | Talks to |
|---|---|---|---|
| Broker approvals, lifecycle (`internal/broker`: `approval.go`, `lifecycle.go`, `store.go`) | `broker.json`: bindings, grants, approval intents; the broker policy of each vault record | stage, commit, cancel, recover an approval; revoke, expire; rebind, delete a binding | vault (inside its own lock), CLI `access`, TUI access screen |
| Broker session (`server.go`, `service.go`) | vault key, locked flag, generation, session context, active requests, semaphore | resolve, rotate, status, Lock, Close | `broker.json`, vault, clients on a Unix socket |
| Vault store (`internal/secret`: `vault.go`, `crypto.go`, `repair.go`, `session.go`) | `vault.enc`, its backups, `vault.enc.lock` | init, open, mutate, back up, re-key, repair | everything |
| Keyring unlock (`cmd/keyring.go`, `internal/keychain`) | the entry in the operating system's keyring, a recovery file, a flag of the configuration | enable, require, recover | vault store, every command that unlocks |
| TUI session (`internal/tui/update.go`, `tui.go`) | derived key, session generation, request numbers, running commands | unlock, lock, quit, launch, approve, ask | vault, broker stores, runner |
| Notes (`internal/tui`: scratch pads, `external_editor.go`) | the draft, the decrypted notes, plaintext files | edit, autosave, delete, edit outside | vault, an editor process |
| Providers, keys, profiles (`cmd/provider.go`, `key.go`, `profile.go`; `internal/provider`, `internal/profile`, `internal/bootstrap`) | `providers.json`, the vault's records, `profiles.json`, coordination lock | add, remove, rename, edit, restore defaults, bootstrap | each other; the TUI's copies of all three |
| Launches (`cmd/run.go`, `launch.go`, `env.go`; `internal/resolve`, `internal/adapter`, `internal/runner`) | a profile on its way to a child's environment | save, resolve, render, gate, preview, prepare, run, clean up | vault, overlays, bridge |
| Config overlays (`internal/adapter/filewriter.go`, `internal/runner`) | snapshots and hashes of a launch, the application's files | snapshot, merge, hash, restore | bridge, child process, other launches |
| Protocol bridge (`internal/bridge`) | loopback server, its requests, the stream translated so far | serve, translate, close | runner, the child, upstream |
| Proxy manager (`internal/proxy`) | PID files, child processes | start, stop, status | operating system |
| Audit, redaction, doctor, screens, logo | logs, none | I/O | everything |

What is hard here: `broker.json` and the vault are two files with two locks, and
every operation that changes both writes the vault first, so that a crash, a
cancelled context or a failed save leaves them apart; several processes (CLI,
TUI, broker) run these operations at once; the broker locks itself while
requests run; a launch rewrites files that the child, the user and other
launches change too; the vault is resealed under new keys while others hold the
old one, and its move to the keyring writes four stores in a row; the TUI's
commands answer after the session they were started in has gone; providers, keys
and profiles refer to each other across three files; a launch passes six
surfaces, twenty-two adapters, a gate and four layers of environment; the bridge
serves requests while its launch ends. The list of hazards, each at its line, is
in `PROJECT.json`.

What makes each component correct:

- approvals: the metadata file always loads; a grant is switched on at most
  once, out of a pending approval; a record's policy never keeps what no
  administrator and no grant asked for, and never loses what one of them did;
- broker session: Lock returns, and is a barrier; nothing is released or
  committed past an invalidated fence; load stays bounded; every request is
  answered;
- vault store and keyring: no interleaving or crash loses a committed mutation,
  and none leaves a vault that neither the password nor a recovery file opens;
- TUI session and notes: nothing of an older session reaches a newer one; a
  prepared launch is started or undone; what the interface waits for comes; no
  text moves to another note, and no plaintext is forgotten;
- providers, keys, profiles: no edit takes back another process's; what is
  referred to stays;
- launches: a secret goes only where its vault record, the provider and the
  app's contract let it; the child gets what the plan says and no more; nothing
  stays open; what was saved starts;
- overlays: what nobody else touched comes back exactly; what somebody else
  edited is never undone;
- bridge: silent once closed, and it closes; both formats stay well-formed;
- proxies: one process per configuration, and only one's own is killed.

## Modules

| Module | What it is |
|---|---|
| `BrokerPolicy` | the broker part of `SecretPolicy` and the functions that rewrite it; a capability is a member of `Caps` where the Go code repeats a line for "resolve" and for "rotate" |
| `BrokerApproval` | `broker.json`, the records' policies, and every operation on either, run by any number of processes |
| `GrantLifecycle` | the abstract life of a grant that `BrokerApproval` implements |
| `BrokerApprovalHistory` | the same, with who gave a record's bits: administrators, a recovery's baseline; and what the clean-up of old staged grants dropped |
| `BrokerApprovalProofs` | lemmas and theorems about all four |
| `MCBrokerApproval` | the symmetry of its two runs |
| `BrokerSession` | requests, the semaphore, Lock and Close of `server.go` |
| `BrokerSessionFence` | the same with the history the generation fence is about |
| `BrokerSessionProofs` | theorems about both |
| `VaultEnvelope` | the vault file as a value: what it says of itself, what opens it, how it is sealed, repaired and diagnosed |
| `VaultContents` | the abstract vault: a set of records that changes by one asked edit at a time |
| `VaultStore` | the vault file and the commands and sessions that work on it |
| `VaultKeyring`, `MCVaultKeyring` | the keyring commands beside them, the whole specification and its properties; its symmetry |
| `VaultKeyringProofs` | the theorems about it |
| `TuiSession`, `MCTuiSession` | the event loop of the interface, its sessions and commands |
| `TuiSessionProofs` | theorems about it |
| `ScratchPad`, `MCScratchPad` | the notes: editor, decrypted vault, disk, timers and external editors |
| `ScratchPadProofs` | theorems about it |
| `Catalogue`, `MCCatalogue` | providers, keys and profiles, edited from several processes |
| `CatalogueProofs` | theorems about it |
| `Adapters` | the contracts and the rendering of the 22 adapters |
| `DefaultRegistry` | the providers the program ships with |
| `LaunchPlan` | resolver, catalog, gate and child environment |
| `Launch`, `MCLaunch` | a profile from its saving to the end of its child |
| `ConfigOverlay`, `ConfigOverlayHistory`, `MCConfigOverlay` | launches that snapshot, overlay and restore files; what happened to the files; plans for TLC |
| `ConfigOverlayProofs` | the theorems about it |
| `BridgeTranslation` | the two wire formats: conversations one way, streams the other |
| `Bridge`, `MCBridge` | the server of one launch: connections, handlers, close; conversations and chunks for TLC |
| `LaunchProofs` | theorems about launches and, in its last part, about the bridge |

An operator whose name extends that of the definition after it
(`RebindBindingForgettingOldTarget` before `RebindBinding`) is that definition
with a plausible slip; nothing uses it. Substituted for the definition it
violates the property listed beside it in `PROJECT.json`, which shows that the
run could have failed.

### BrokerApproval

`meta` is `broker.json`, `vault` the records, `lock` the flock of `broker.json`
and `work` the metadata its holder has in memory. `pc`, `req` and `own` are the
locals of a process in the middle of an operation. An operation that writes both
stores is two steps, its vault write and `SaveBrokerFile`; `CommitFails` and
`Interrupt` are the ways it can end in between. A vault write is one step,
because it is a read-modify-write under the vault's own flock.

- The two reads that `stageApproval` makes without a lock are one step, since
  the transaction checks the binding again. Names are left out: an approval
  refused for a name that is taken is an `Interrupt`.
- An intent's baseline is what the record allowed when the approval was staged,
  together with what it held by administrative decision. Intents of releases
  that did not store one are not modelled.
- The context may be cancelled at each check of `ctxErr`; a failed save behaves
  like it. A crash releases the flock.
- Grants are numbered in the order they are appended, so that the last intent is
  the one with the largest number, and the age at which staged grants are
  cleaned up is a cutoff on the numbers.
- `RecoverPendingApprovals` runs when the TUI unlocks and takes all intents,
  also those of an approval that another process is in the middle of.
- Adding a record is left out; every record exists at first, with or without
  bits from a release that did not label them. Other vault writes (rotation is
  one) normalise every record, as `ArchiveSecret` on an archived record does.
- The policy version is left out: loading a vault makes it 1.

### BrokerSession

Every section under `s.mu` is a step. A request passes the semaphore, copies the
key, becomes active, takes `operationMu`, checks its fence, runs the operation,
checks again and answers; the deferred calls run in their order. The session
context is identified with the generation that created it: Lock cancels the
current one and makes the next. What the service decides is a choice between
serving and refusing. Where `Close` waits without the mutex, another goroutine's
unlock may be the fatal one, or a wakeup may make the mutex good again; the
latter is a step that changes nothing. A rotation committed just before Lock is
answered 423; the vault has the new value.

### ConfigOverlay

`plan` is chosen at the start among the plans of the run. A file's content is the
last edit of each of its parts and the layers of settings merged in: what the
comparison of hashes can tell apart. The parts are the keys the settings set and
the rest; an edit touches one of them. Every read, write and comparison is a step. `byPath` is modelled by
`First`: a path written twice is snapshotted and restored once. The five merge
formats share `Merged`: settings win, over the user's edits of the same keys too
(`deepMerge`; what is inside the managed block of a YAML file, `mergeYAMLFile`),
and merging the same ones again changes nothing else. A write says which parts it
goes `over`. Backups, path checks and formats are abstracted; a refusal of any of
them is `ApplyFails`. `WriteUnsynced` is the atomic write that renames and then
fails to sync the directory.

### VaultEnvelope, VaultStore and VaultKeyring

An envelope is a record of what the JSON file says (`mode`, `params`, `salt`, the
parameters its digest was taken over) and of what is true of it: the key it was
sealed with and the records inside. A key is what it was derived from, so that
two derivations give one key when password, salt and parameters agree; nothing
else about the cipher matters here. Argon2 parameters come in the three shapes
that `recoveryCandidates` tells apart.

A process is a record with the locals of a command in it: `op` is the command,
`at` its position, `pw`, `key` and `edit` what it was given, `seen` the vault it
has decrypted. The steps of a mutation are those of `mutateVault`: ask for a
password, take the coordination lock, choose a key, take the vault's lock, load,
write. A session (the interface, the broker) unlocks once and then goes through
the last three with the key it holds. `Killed` ends a process anywhere and frees
its locks, as the end of a process frees a flock; `Writes` is the atomic write,
which may fail before its rename and, on the sync of the directory, after it.

- Every edit adds or removes a record; rotating a key or changing a field is the
  edit of one version of it for another.
- Reading the vault under the lock and checking that an edit applies is one
  step, and so is the read that `mutateVault` authenticates with.
- `Installed` are the files an installation may start from, out of none, those
  whose metadata name the derivation of their key, and those that an early version
  resealed under no parameters or under the defaults (`repair.go:108-121`); the
  proofs are for any of them. The run has none and the worst, which the default
  parameters do not open; init, repairs and rekeys make the others.
- A write of a mutation reads the file again for its salt, parameters and mode.
  With the fault `"reread"` that read may fail, and what is sealed is the old key
  under a new salt and the default parameters (`ResealUnread`).
- A wrong password stands for all wrong passwords.
- `Prompted` is `promptPassword`, which asks for nothing when the keyring opens
  the vault.
- Each of `keyring-required`'s four writes is a step, and so is each step of its
  roll-back; the recovery file and the configuration may fail to be written.
- `MaxFresh` caps the salts and keys drawn, `MaxBackups` the backups taken.

`VaultContents` is the promise: `Create`, `Add` and `Remove` of an edit that some
process has been asked for. The refinement mapping takes the records out of the
file and the edits out of the processes' hands.

### TuiSession and ScratchPad

The interface is one event loop: each action is the handling of one key or one
message, and `task` holds the commands (Bubble Tea's, each a goroutine) that run
or whose message has not been handled. A command carries the session generation
or request number it was started with. `Fresh...` are the checks the handlers
make. The screens are cut to those whose keys start or refuse something:
"launch", "access", "other". `shown` remembers, of each result on display, the
session it was computed for.

- `tea.Quit` is a command whose message comes later, so answers are still handled
  after it; that is the only way the stale branch of `unlockResultMsg` is taken.
- While a child runs (`tea.Exec`) the loop handles nothing.
- `Run` is the work of a command, which takes as long as it likes and may fail;
  what it does to the broker's stores is `BrokerApproval`'s, to the files
  `ConfigOverlay`'s. Here its overlay is a number.
- Notes are in `ScratchPad`, with the draft, the timer of each keystroke, the
  writes under way, the answers and the plaintext of an external editor. A text
  is the note it was typed in and its age. A save of an empty text empties
  the note in memory, whose record the draft is assigned to, and leaves the one on
  disk alone, as `UpdateScratchPad` does.

### Catalogue

A process is the command it is in: `Begin` checks what the code checks before any
lock (a command in the files, the interface in its memory), `Coordinate` takes the
coordination lock where the code takes it, and each file's read and write under
its own lock are two steps. Of a provider's record `edits` keeps whose changes are
in it: editing or renaming one puts in the whole record its form was filled from
(`record`), a refresh of its models only adds to what is there. A blank provider of
a new key becomes "default", which the interface does not look for; only an edit
gives a key none. `uses` fixes, for a behaviour, which operations each
process uses: `NothingUndone`, `RemovedUnused` and `KeysHaveProviders` say of
which uses they speak, and the README section below says what happens in the
others. Every command but a few begins with `Heal`, which writes missing default
providers back. The interface's copy of the vault follows its own edits, its
profiles only an edit of a profile.

### Adapters, DefaultRegistry, LaunchPlan and Launch

A profile is its app, provider, key, command, filled model slots and variables. A
value of a variable is where it comes from and of what (`Secret(k)`, `Text`,
`Literal`, ...), so a key can be followed into whichever variable it is put.
`Contracts` holds the row of each adapter's `Contract()`; the `Render...`
operators are the adapters' `Render`, one for each shape. `Resolve` is
`ResolveLaunchStrategyForMode` with the gate of `contract.go`; `ChildEnv` is
`BuildChildEnv` with `appendInheritedEnv`, which gets names only from the surfaces
that pass `inherit_env` on (`InheritedBy`: not `with` and `LaunchExecutor`).

`Launch` walks one profile through saving (`profile create`, the wizard, the form,
a store of version 0) and one launch through its surfaces (`run`, `launch`, `env`,
the launch screen, `with`, `LaunchExecutor`), while `ChangeKey` edits, archives or
removes keys at any point. Saving checks the resolution on `copy`, the vault as it
was when `profile create` decrypted it or the interface was unlocked, and stores
later and under another lock; `history` says whether keys have changed since that
copy. A launch reads the profile first and the vault when it resolves; the screen
has both from one moment. `seen` is the vault it read. `launch.files` is what a
launch has on the disk: its overlay, or what an unsynced write or a failed restore
leaves there; `launch.error` is what its user is told, which of two failures may
be only one.

The constants of the run are the shipped registry (`DefaultRegistry`), two keys,
and drafts of every app.

### BridgeTranslation and Bridge

A conversation is a sequence of messages of blocks, a chunk what matters of one
`data:` line: text or not, the fragments of calls by index, the finish reason.
`ToOpenAI` and `AddChunk`/`AddCall`/`Close` are `toOpenAI` and `streamOpenAI`. The
answer that is not streamed (`fromOpenAI`) is one message and left out.

`Bridge` has a goroutine for each connection and the launch that closes the
server. net/http is external and modelled from its documentation: `Shutdown` takes
no more connections, drops idle ones and those still at their headers, and waits
for the rest; a client that leaves cancels its request. An answer may be kept until
the client has sent the rest of its body (`draining`), which the server reads before
the connection is idle; such a request is still served. A chunk is its text and its finish
reason (`StreamChunk`), then its calls one by one (`StreamCall`), as the loop
writes and flushes them; `pending` holds those to come, and the client may leave
between two of them. The names of `Bridge` that `Launch` has too begin with
"Bridge" (`BridgeInit`), so that one module can speak of both.

## What is checked

Every run is exhaustive within its bounds, on the real `Next` of its module; where
a cfg has SYMMETRY, the values permuted are interchangeable in the whole
specification and no liveness property is checked.

| Run | Bounds | What it shows |
|---|---|---|
| `approval_concurrent` | 2 processes, 1 record, 1 capability, 2 bindings, 2 grants | every file `broker.json` may become passes its loader's checks (`MetadataConsistent`); the life of each grant is that of `GrantLifecycle` |
| `approval_records` | 1 process that may die anywhere, 2 records, 1 capability, 1 binding, 2 grants | a bit that is on, whatever its label, was given by an administrator or has a grant or an approval under way, or is one of two kinds the code leaves behind (`GrantPolicyJustified`); no operation takes a bit an active grant needs (`NeededPolicyKept`) or an administrator gave (`AdministrativePolicyKept`) |
| `session` | 3 requests, 2 of them rotations, on 2 slots | `LoadBounded`, `LockIsBarrier`, `FenceHonoured`, `NeverServedWithZeroKey`; under `Fairness`, `LockReturns` and `EveryRequestAnswered` |
| `overlay` | 2 launches over 2 files with 2 layers of settings, alone with a plan that writes a file twice and replaces another, sharing a file, both replacing it, or both merging the same settings; 2 parts of a file; 2 edits by others, 1 beside two launches | an edit nobody could take for the launch's own is still there when the launch is over (`EditsPreserved`); a file nobody else touched comes back as it was (`RestoredExactly`) |
| `vault` | 2 processes, 2 records, 2 recovery files, 3 salts or keys, 1 backup; every command; failing writes of the vault, the configuration and the keyring, crashes | the records change by one asked edit at a time (`ImplementsVaultContents`); what is written opens by the password again (`WritesReopen`); a repair replaces only what is backed up (`RepairsAreBackedUp`); the password or a recovery file opens the vault (`Recoverable`) |
| `finding_keyring_migration` | 1 process, `keyring-required`, with failing directory syncs | `Recoverable` violated (below) |
| `finding_unread_metadata` | 1 process, a mutation whose second read may fail | `WritesReopen` violated (below) |
| `tui_session` | 2 commands running at once, 3 sessions, 3 requests, 3 screens | `OverlaysAccounted`, `LockedShowsNothing`, `WaitsEnd`, `ResultsFenced` |
| `scratch` | 2 notes, 2 commands at once, 3 sessions, 3 revisions; saves, deletions and editors that fail | `PadsKeepTheirText`, `PlaintextAccounted`, `StaleAnswersIgnored` |
| `catalogue` | 2 providers (1 shipped), 1 key, 1 profile name, the interface and a command, in the five ways of use of `MCCommands` | `KeysHaveProviders`, `RemovedUnused`, `NothingUndone` |
| `launch` | 7 shipped providers, 2 keys, one of which may be kept for no provider, drafts of all 22 apps, 1 change of a key at any point, writes, restores and bridges that fail | `SecretsInPlace`, `OneTransport`, `BridgedKnowsBridge`, `NothingLeftOpen`, `SavedStarts`, `ChildFollowsPlan` |
| `bridge` | 2 connections, 3 chunks each, conversations with up to two tool calls | `SilentAfterClose`, `CallsAnswered`, `BlocksWellFormed`; with fair handlers, `CloseReturns` |

Why these bounds are enough to be of interest:

- Approvals. Two grants are the least that lets one be recovered while the other
  is active, which is where policy is kept or lost; two bindings let a grant's
  binding be rebound under it; a second process is what makes recovery meet an
  approval in its middle. Two records at once with two processes is too large,
  hence two runs.
- Session. With two slots a third request waits for one; with two rotations one
  waits for `operationMu` while Lock cancels it.
- Vault. Three salts let a process hold a key two reseals old. Two records let
  the edits of two processes both be in the file, or one be lost. With two
  recovery files two processes can migrate the vault at once, and whoever comes
  second is refused by the vault's password; with one file they meet in that.
- Interface. An answer can come two sessions late, and two commands of one kind
  can be answered in either order. Three request numbers let a number be reused
  if anything resets it, as the preview's are.
- Catalogue. A provider is removed while a key or a profile that names it is
  added: one of each and two processes. Of the two providers one is shipped, so
  that what writes the defaults back can be seen to do so.
- Launch. One change of a key falls before, between or after the two reads of a
  launch, or between the copy a profile is checked on and its storing.
- Bridge. Two calls can be interleaved in one stream, and a third chunk can
  return to the first of them.

Deadlock is checked in the run of the vault, whose processes can always begin
another command. The others stop when their bounded supply (of grants, requests,
keystrokes, launches, connections) is used up, or when the launch or the server
has ended, as the program does; their cfgs say `CHECK_DEADLOCK FALSE`.

### Fairness

`BrokerSession`: the steps a request's goroutine can take are eventually taken,
and so are those of a Lock that was called. It is the fairness of the Go
scheduler, with the other processes letting go of the flock of `broker.json`.
Weak fairness is enough although slots and the mutex are contended: each request
is one goroutine that uses them once, so a waiting request is overtaken at most
once by each other one. Nobody is assumed to send a request, to lock or to close.

`Bridge`: the handlers' own steps and the return of `Shutdown` are weakly fair.
Nothing is asked of clients or of upstream: `CloseReturns` speaks of behaviours in
which whoever is served leaves in the end, and of nothing else.

The other modules state no liveness: whether a command, a launch or a user ever
goes on is up to the user, and what must not be lost meanwhile (an overlay, a
plaintext file, an answer that is waited for) is stated as an invariant, that it
is still in somebody's hands.

## What the code does not keep

Two runs show the program contradicting what it says of itself. They check what
`vault` checks, each with a fault that the `Faults` of that run leave out.

`finding_keyring_migration` has `"sync"`: the atomic write reports a failed sync of
the directory after its rename, so a migration that is told of a failure has
replaced the vault, and the roll-back deletes both copies of the key it is sealed
with.

`finding_unread_metadata` has `"reread"`: `vault.go:317-327` passes over an error of
the read that gives it the salt and the parameters. The key is then sealed under a
new salt and the default parameters, the mutation reports success, and neither the
password nor a recovery opens what was written; `repair_test.go:113-115` calls that
the core safety property. It takes a read that fails right after one that succeeded
under the same lock.

`AlwaysRecoverable` proves that nothing else loses a vault: where no migration is
told of a failure after its rename and no such read fails, `Recoverable` holds.

What follows was seen while translating, and has no run. Each line is the code,
and what another line of the repository says of it.

Approvals and broker:

- `approval.go:430` and `:258` take every bit the record allowed when an approval
  was staged as administrative, another grant's too: after a second approval of
  the record fails or is recovered, the first grant's capability outlives its
  revocation. `:196-198` says that grant-sourced policy is recomputed from the
  grants that are enabled. `GrantPolicyJustified` follows those bits (`adopted`)
  and allows them: without that clause TLC finds the trace.
- `lifecycle.go:81`: revoking a staged grant reports success and leaves its
  intent; the approval that waits for its confirmation then switches it on. `:79`
  says "RevokeGrant disables a grant".
- A revocation interrupted between its two writes leaves the grant enabled with
  its policy off. That fails closed, but a later recovery or commit on the record
  switches the policy on again.
- `lifecycle.go:46-77` keeps explicit flags and bits labelled administrative, so a
  revocation, an expiry or a rebinding that reaches a record no vault write has
  normalised clears a bit that an older release set; `secret.go:53` says of an
  empty source "true means preserve".
- `cmd/broker.go:316`: `access binding add` with one `--allow` flag sets the other
  capability to its administrative flag and so takes it from an active grant;
  `docs/broker-protocol.md:217-218` speaks of enabling only.
- `tui/update.go:827` drops a staged grant older than thirty minutes with its
  intent and never looks at the vault: of an approval interrupted between its two
  writes it leaves the bit on; `README.md:110-111` speaks of reconciling.
- `server.go:252`: `Close` with a request active unlocks the mutex and then waits
  on its condition, which unlocks it again: the process ends with "unlock of
  unlocked mutex" before the copied key is zeroed. `:236` says that Close shuts
  down the server and zeroes the key. In the model that is the outcome "fatal".

Vault:

- With the keyring enabled and its entry stale (a rekey while the keyring was
  locked; a crash inside `keyring-required`), `promptPassword` asks for the
  password and `mutateVault` (`helpers.go:146-149`) ignores it: every mutation
  fails, although `keyring-enable` says that password recovery remains available.
- With the keyring enabled and working, `promptPassword` returns no password, so
  `vault rekey`, `vault repair-unlock` and `access binding rebind`, which need
  one, fail; `vault rekey` has written its backup by then.
- Of two `keyring-required` at once, the loser's roll-back deletes the winner's
  keyring entry and switches the keyring off. The winner's recovery file opens the
  vault.
- The backup of a rekey is taken before the lock: an edit in between is in the
  rekeyed vault and not in the backup.

Overlays and launches:

- `filewriter.go:109`: a launch that starts while another one's overlay is on the
  same file takes that overlay for the user's content; the first then meets a file
  it did not leave behind and preserves it, the second puts the first one's
  overlay back, and it stays. `docs/config-app-cleanup.md:17` says that overlays
  must be restored or removed after the child exits.
- Two launches that overlap and write the same over an edit made between them can
  lose it: they leave the same bytes, so the comparison of the first to end does
  not tell the other's overlay from its own. That is one profile launched twice
  whose file is replaced (`adapters.go:2003`), or whose settings are merged, when
  the user edited a key that they set (`filewriter.go:536-551`, or inside the
  managed block, `:714-728`). `EditsPreserved` leaves this case out: it excuses a
  launch that writes over the edited part and overlapped with another one.
- A failed sync of the directory: `applyFileWrites` does not call its completion
  callback (`filewriter.go:56-92`), the restore passes over the file (`:157`) and
  the overlay stays, although `runner/executor.go:51` calls application and restore
  atomic. The user is told that the write failed. (`"unsynced"` in `Launch`.)
- SIGINT and SIGTERM end a launch without its clean-up (only `cmd/broker.go:124`
  asks for signals).
- `runner.go:443-450` returns the bridge's error and drops the restore's, and
  `:431`, `:436` discard it; `docs/config-app-cleanup.md:50` says that cleanup
  aggregates failures. The clean-up waits for the bridge first, with no bound.
  `NothingLeftOpen` therefore accepts that the bridge's error is all that is told.
- `update.go:177` drops what the clean-up of a prepared launch returns when the
  session is over, and `:220-232` shows a child's failure and not its clean-up's:
  on the launch screen an overlay can stay and nobody be told. `NothingLeftOpen`
  names the two cases.
- `runner.go:559`: `inherit_env` replaces any variable, the profile's too; `:523`
  says that the profile's environment wins. `ChildFollowsPlan` therefore speaks of
  what is inherited apart. An `inherit_env` with `ANTHROPIC_BASE_URL` in it sends a
  bridged child past its bridge; `InheritsNoTransport` (below) excludes that, and is
  true in the run.
- `adapters.go:1021` hands Claude Code the key without the inject policy's check,
  which `buildBaseEnv` makes (`:2051-2055`) only for a provider with a variable.
  A provider without one and without authentication that is no local server is
  needed to get there; `provider add` and `Normalize` make none (`provider.go:405-458`),
  so it takes a `providers.json` edited by hand. `RegistryAssumption` excludes it.
- The command of a run may be replaced after its validation; the directory that
  the codex adapter makes is never removed.
- `executor.go:55` builds a contract that its own validation refuses, so
  `LaunchExecutor` executes nothing; `:40` says that it does.
- `contract.go:545`: a strategy with manual credentials resolves for a run and
  ends for want of a command; `adapter.go:225` calls `ResolveRun` the gate that
  rejects it.
- `adapter/catalog.go:36`: a catalog app is given the first key of each provider
  and not the profile's; `README.md:491` says that a profile uses *its* key. `adapters.go:2103`: it does
  not get what a provider's setup collected; `provider.go:158-159` says that it is
  injected at launch. `catalog.go:98`: its provider is never asked about; `:131`
  speaks of the same validation. `catalog.go:69`: in its preview, other providers'
  keys count as public; `:159-160` says that every field is classified from the
  records.
- `cmd/env.go:212`: `env` masks the key's own variable, and prints a key that the
  adapter put under another name; `:36` says that the preview is masked.
- `adapter.go:349`: the Cursor adapter's plan has no environment, and
  saving a profile with a variable panics; `resolve.go:17` says that blocked
  strategies are rejected. (`SavePanics` in `Launch`.)
- `wizard_update.go:683` saves a profile without a key for a provider that needs
  none, and no later load of `profiles.json` succeeds; `:553` skips the step for
  such providers. A bad profile name does the same. (`readable` in `Launch`.)
- `cmd/launch.go:60` refuses a generic profile without a command before the typed
  one is looked at; `:78` says that it stands in.
- `adapters.go:1361`: free-code runs without the bridge for OpenCode Zen; `:1290`
  says that it uses it. `:1349`: it supports Bedrock, and the gate refuses what it
  renders for it; the same plan for AWS. `:1487`: it gets AnyRouter's key under
  another name than `provider.go:1119` says. `:2084`: Bedrock's `AWS_REGION` is a
  URL, against `provider.go:933-937`.
- `qwen` and `alibaba-cloud` share the variable `DASHSCOPE_API_KEY`.
- `update.go:3500`: an edited profile is saved without `ValidateResolution`;
  `resolve.go:4-6` says that every path that edits one must call it. `SavedStarts`
  therefore speaks of profiles that were created.
- `profile create` checks the vault it decrypted (`cmd/profile.go:71-139`), the
  wizard the one in the interface's memory (`wizard_update.go:672-676`), and each
  stores later under the lock of `profiles.json` alone (`:155`, `:681`): if the key
  is removed in between, a profile is saved that does not resolve; `resolve.go:1-6`
  says that this surfaces no later than the saving. `SavedStarts` therefore speaks of keys that did not change since that copy (`copy` in
  `Launch`, which has the other runs too).

Interface and notes:

- `update.go:632` starts a second preparation of a launch from the typed command,
  and `:176-180` resets the phase on an answer of an earlier session;
  `tui_test.go:574` demands that a duplicate Enter starts none.
- `update.go:3637` replaces the preview by its zero value, whose request numbers
  start again; `tui.go:439` says that outstanding preview work is invalidated. A
  late answer can then match a number asked for later, and a plan of an earlier
  session comes on display, on a locked interface too: `TuiSession` has such
  runs, marks them with `reused`, and `LockedShowsNothing` and `ResultsFenced` say
  nothing of previews from there on.
- `update.go:220-253`: what a child leaves when it ends (`launchFinishedMsg`) is
  handled without a look at the session; `README.md:93` says that launch results
  are fenced against it. A child's failure screen can therefore come up after the
  interface was locked while its answer was on the way.
- `update.go:236` says that a child's failure and its clean-up's are both kept;
  the handler returns with the first.
- `update.go:1923`: `scratchSavedMsg` never clears `scratchSaveInFlight`, so that
  after the first save of a session no other one writes; `:1920-1922` speaks of a
  follow-up autosave. `tui.go:476`: a lock clears the flag while a write runs, and
  two may run at once, against `update.go:1920`.
- `update.go:1912-1914` empty a note in memory whose text was deleted, and `:1933`
  leaves the one on disk as it was (`vault.go:572`): the answer brings the text
  back. `:1902-1903` say that a save persists the current editor fields.
- `update.go:1872`: a new note is added in memory only and its first save fails,
  because the vault on disk does not have it; the comment says that it is
  persisted at once.
- `update.go:377`: saving with esc or ctrl+s closes the editor although the draft
  has a newer revision; `:1777` says that closing must not discard the note.
- `external_editor.go:189` removes the directories of editors that are running;
  `:174` speaks of those a crash left.
- `update.go:865`: a second Enter after the last field of an approval, left at its
  placeholder, indexes past the fields and panics (the state "panic" of
  `TuiSession`); errors of approvals that carry no generation are dropped.

Providers, keys, profiles:

- `update.go:3061`: deleting a key looks for profiles in the store of the start;
  `:3005` says that deletion is blocked when dependent items exist.
- `bootstrap.go:105`: `AutoBootstrap` takes no lock and replaces a `profiles.json`
  (or drops a provider) written since it looked; `:103` says "if missing".
- `update.go:3427`: editing a key writes the typed provider without looking for
  it; `:3285` says that orphans are rejected early. `:3288` and `:3340` exempt
  "default", which a blank becomes, from both looks.
- `cmd/key.go:36` looks for the provider of a new key before it asks for the key
  and takes no lock; the provider may be removed before the key is written.
- `cmd/provider.go:283-313` and `update.go:3395-3408` write the whole provider that
  their form was filled from, read outside the lock; an edit or a refresh of its
  models by another process meanwhile is gone.
- `update.go:3222` refuses when a profile's key is gone; `:2316` says that it is
  recreated.

These are why the properties of `Catalogue` speak of some uses only, and make
exceptions: `NothingUndone` of those without `AutoBootstrap`, and except for the
record of the very provider that is edited; `RemovedUnused` also without renaming a
provider and editing a key; `KeysHaveProviders` also with keys added by the
interface, and except for those of "default".

Bridge and proxies:

- Text after the first tool call is sent under index 0 again, so that two blocks are
  open, and closed, under the index 0, and the next call skips an index.
  `BlocksWellFormed` says of every stream, also of these, that each block is opened
  once, before its deltas, and closed once, after them; it allows the index 0 to that
  tool and that text, and asks for indices without gaps only where the text came
  first (`TextFirst`). A stream that upstream cut ends like a whole one
  (`message_stop`); arguments of a call that are no JSON become `{}`.
- `Close` waits for its requests with no bound: while a descendant of the child
  keeps a stream open, the overlays are not restored.
- The proxy manager accepts its own entry, and any listener it can reach, where
  its comment says that all pre-existing listeners fail closed; it supersedes a
  hung proxy without stopping it, and nothing stops proxies at the end.

## What is proved

For every set of processes, records, notes, providers, requests and so on, and
every bound:

- `BrokerApprovalProofs`: `TypeCorrect`, `MetadataAlwaysConsistent`,
  `AdministrativePolicyAlwaysKept`, `NeededPolicyAlwaysKept`,
  `GrantPolicyAlwaysJustified`, `ApprovalImplementsGrantLifecycle`; of the policy
  functions, their types, what they keep, and `NormalizationIsIdempotent`.
- `BrokerSessionProofs`: `SessionTypeCorrect`, `LoadAlwaysBounded`,
  `LockIsAlwaysBarrier`, `ZeroKeyNeverServes`, `FenceAlwaysHonoured`.
- `VaultKeyringProofs`: `VaultTypeCorrect`, `VaultImplementsContents` and
  `RepairsAlwaysBackedUp` for any commands and faults; `AlwaysRecoverable` and
  `WritesAlwaysReopen` for those in which no migration may be told of a failure
  after it has replaced the vault (`NoLostMigration`) and no mutation fails to read
  the file it has just decrypted (`AlwaysReread`).
- `TuiSessionProofs`: `TuiTypeCorrect`, `OverlaysAlwaysAccounted`,
  `LockedAlwaysShowsNothing`, `WaitsAlwaysEnd`, `ResultsAlwaysFenced`.
- `ScratchPadProofs`: `NotesTypeCorrect`, `PadsAlwaysKeepTheirText`,
  `PlaintextAlwaysAccounted`, `StaleAnswersAlwaysIgnored`.
- `CatalogueProofs`: `CatalogueTypeCorrect`, `KeysAlwaysHaveProviders`,
  `RemovedAlwaysUnused`, `NothingIsUndone`.
- `ConfigOverlayProofs`: `OverlayTypeCorrect`, `OverlayUndone`,
  `OverlayKeepsEdits`.
- `LaunchProofs`, of launches: `SecretsAlwaysInPlace`, `NothingStaysOpen`,
  `SavedProfilesStart`, `ChildrenFollowTheirPlan`; `BridgedAlwaysKnowsBridge` and
  `AlwaysOneTransport` where `inherit_env` brings no variable of the two wire
  protocols (`InheritsNoTransport`).
- `LaunchProofs`, of the bridge: `AlwaysSilentAfterClose`, `BlocksAlwaysWellFormed`
  for any stream; `CallsAlwaysAnswered` for clients that answer each call in the
  next message (`ClientsAnswer`).

These are all the safety properties that the passing runs check.

The assumptions are the named ones of the modules, which TLC evaluates: the bounds
are natural numbers, `None` (and `Missing`, `Blank`) is none of the values it is
compared with, the sets of requests and of launches are finite and the semaphore
has a slot. Those of launches say more. `RegistryAssumption` is what the shipped
registry and `Normalize` see to: a provider without authentication and without a
variable is a local server, only AWS has a second secret, and no fixed variable is
the bridge's stand-in for a key. `LaunchPlanAssumption` is that the names that pass
from the shell to every child are no secrets' and none of the two protocols';
`LaunchAssumption` that drafts name apps, providers and keys that there are.

Four hypotheses stand in the theorems themselves, each true in the run:
`NoLostMigration` and `AlwaysReread`, of their two theorems (the runs without them
are `finding_keyring_migration` and `finding_unread_metadata`); `InheritsNoTransport`, of its two, since
`inherit_env` is the user's and goes over everything; `ClientsAnswer`, since a
client that never answers a call gets a conversation with the call unanswered.

The inductive invariants, each a conjunction of named parts:

- approvals: `TypeInv` is `TypeOK` and what a process's position says of its locals
  (`ControlOK`); `MetadataInv` adds `MetadataConsistent`; `LifecycleInv` adds
  `WorkInv`, that while the lock is held the file about to be saved relates to the
  one on disk as a step of the abstract lifecycle. `MetadataConsistent` is not
  inductive by itself: what is saved is what was computed a step before, so the
  invariant must know that only the holder changes `work` and `meta`.
- approvals, policy: `OrderInv` says that no number of a binding or a grant is used
  twice, that an intent has its grant's capabilities, and that no process has
  another's grant or an enabled one while it waits; `ExplainedInv` that every bit
  that a grant switched on is explained by the file saved, and by the one the
  holder of the lock is about to save: an enabled grant needs it, or an approval
  that is not waiting for its confirmation has its intent there, which the process
  that runs it or a recovery will settle (one that waits may be cancelled without a
  look at the vault, and has written nothing to it). `TracedInv` says of every other bit, and of every
  label and flag that could become one, that an administrator gave it or a recovery
  adopted it. `GrantPolicyJustified` alone knows neither that an interrupted
  approval's intent will be found by whoever recovers, nor where a flag or a label
  of a bit that is off comes from.
- session: `CountInv` says that `active` is the number of requests between
  `beginRequest` and `endRequest`, from which the barrier follows when Lock sees
  zero; `KeyInv` says that a zeroed key means a cancelled generation, from which no
  request with it passes the fence; `FenceInv` and `HistoryInv` relate the history
  to the positions.
- vault: `IInv` is `TypeOK` and `SectionsSound`, what a process in a locked section
  may rely on: it holds the lock (`HoldsLock`), what it has seen is still the vault
  (`SeesVault`), its edit applies to it (`EditApplies`), its key and edit are
  there, and a repair's password recovers it (`CanRecover`). That a write adds one
  record to what is there depends on the vault not having changed since the load,
  which only the history of the lock says. `OthersUndisturbed` is the heart: a step
  that touches the vault only under the lock keeps all that for the others.
  `BackedUp` adds that a repair at its write has its file among the backups.
- vault, recovery: `WayInv` adds `WayIn` (the vault is opened by the password, or
  its random key is in a recovery file), `Guarded` (no migration that may still
  take its recovery file back holds the key the vault is sealed with; whoever else
  holds that key got it from a vault that opens), `Opens` (the same of the key in
  the keyring) and `Distinct` (no two migrations hold one key). `Recoverable` alone
  is not inductive: a roll-back deletes a recovery file, and what makes that safe
  is that the vault was not replaced by the process that rolls back, nor by another
  one under the same key. With `"sync"` the first of the two fails, which is the
  run above.
- interface: `IInv` is `Shape`, `UnlockSound` (no unlock is numbered beyond the
  last one asked for, and only one has that number, of the current session, while
  it is locked), `OverlayInv` (the overlays that exist are those of the prepared
  launches and children in `Held`, counted), `PreviewSound` (until `reused`,
  a preview under way has a number below the last one, or has it and belongs to
  this session, which is unlocked), `LockedShowsNothing` and `WaitsEnd`. The counting is what a state alone does not show: each step moves an overlay from
  one holder to another, or makes or undoes one.
- notes: `TextInv` adds to `TypeOK` and `PadsKeepTheirText` that the texts in the
  commands' hands are the notes' they were started for (`CommandsKeepTheirText`).
- catalogue: `OpsUsed`, `LocksHeld` and `Fresh`: between its read and its write a
  process holds the file's lock, so what it read is what is there, from which
  `NothingUndone` follows. `RemoveSound` and `AddSound` say the same of the
  coordination lock, which spans two files: a removal past its check finds no key
  with its provider, an addition past its check finds the provider.
- overlays: `HInv` is `TypeInv`, the types of the history and `OverlapInv`, that
  launches at work together are both in `overlapped`. `ExactInv` adds `AsFound`:
  for a launch alone so far and a file nobody touched, how the file, its snapshot
  and its hash stand to each other at each position, from which the restore finds
  what it left. `EditInv` adds, per file and part, `FileState`: the edit is in the
  file, or a launch that writes over the part will put it back or tell, for which the snapshots
  (`SnapGood`) and the contents in hand (`BufGood`) that a restore or a write
  relies on must have the edit too; `Numbers` says that no edit is newer than the
  counter. `EditsPreserved` alone is not inductive: it says nothing of a snapshot.
- launches: what a rendering may put into which variable is proved app by app
  (`Sound`): only the key it was given, only where its provider's policy was asked,
  and behind a bridge in no variable but the three that the bridge's own replace.
  `Rendered` adds the providers a catalog app gets, `Resolved` the gate. `PlanInv`
  carries that from the resolver to the child, about the vault as it was read then
  (`seen`): a key may be changed in between, and the plan is still one made of the
  key that was read. `LeftInv`, `SavedInv` and `FollowsInv` are what each of the
  others needs of the launch.
- bridge, closing: `Quietly` says that when `Shutdown` has returned every
  connection is closed; a connection that is over takes no step once no new ones
  are taken.
- bridge, streams: `StreamInv` says that a stream is well-formed, and while it goes
  on that it is `Live`: what was started is what the stream knows of (`Known`), its
  text and its calls, each call with an index of its own below the next one, all of
  those below that being taken where the text came first; and nothing was closed
  yet. `BlocksWellFormed` alone says nothing of `order` and `block`, from which the
  next index and the stops are taken.
- bridge, conversations: `Halfway` says of a translation up to a message that only
  the calls of that message may still lack their answers. `toOpenAI` is a recursive
  function on the messages; the provers cannot use the library's induction, so the
  proof takes the smallest message at which the claim fails (`LeastOf`, from the
  order of the naturals being well-founded) and refutes that there is one.

Only model-checked: the liveness properties, `LockReturns`,
`EveryRequestAnswered` and `CloseReturns`. Fairness and ENABLED are out of the
provers' reach.

## What is not modelled

- The broker's socket and peer identity: one read of `SO_PEERCRED` and `/proc` for
  a connection. What `Service.Resolve` and `Service.Rotate` decide is a choice:
  they read data of `broker.json`, whose changes are `BrokerApproval`'s.
- The proxy manager: only `runner.EnsureRunning` and the deprecated `RunLegacy`
  reach it, and no command calls either; `StopAll` and `managedIdentity` have no
  caller.
- Terminals, signals and the interactive execution of a child.
- The audit log, redaction of text, the doctor (which reads and reports), logos,
  forms, and the layout, focus and navigation of the screens. They are data,
  presentation or I/O; nothing in them depends on the order of events.
- A killed launch leaves its overlay: the snapshots are in memory only, and
  nothing of the code promises more. The hazard is listed without a property.
- Categories, labels and values of records, model names, texts and settings: data
  that no property tells apart.
