# A model of r2backup

TLA+ modules, model-checking runs and machine-checked proofs for r2backup, a
Go program that keeps folders backed up to S3 or Drime storage. Paths below are
relative to `src/internal/` unless they start elsewhere.

| File | What it is |
| --- | --- |
| `Backup.tla` | one backup set through its runs: scan, plan, trash, transfer, checkpoints, record, expiry |
| `Backup_proofs.tla`, `BundleStore_proofs.tla`, `Multipart_proofs.tla`, `Drime_proofs.tla` | theorems about these modules for every value of their constants, checked by TLAPS |
| `MCExpiry_proofs.tla`, `MCTransfers_proofs.tla`, `MCStores_proofs.tla`, `MCDesk_proofs.tla` | theorems about the scenarios of `Backup` with their own constants, about `Workers` and `Runs` and the composition of these with `Multipart`, about `Restore`, `Mirror`, `UltraFast` and `Picker` and the composition of these with `Drime`, and about `SelfUpdate`, `Account`, `SetStore` and `Schedule` and their composition |
| `StoreContract.tla` | what the bundle store promises the code above it |
| `BundleStore.tla` | one bundled backup: packs, index, flush, checkpoint, compaction, sweep; it implements `StoreContract` |
| `Workers.tla` | the upload phase of a run: pool, limiter, governor, network gate, pause |
| `Multipart.tla` | one large file sent in parts, its note in the index, and the server |
| `Runs.tla` | two processes that back up: progress, pause, stop, history, carrying on after a restart |
| `Restore.tla` | bringing files back to a disk that is in use |
| `Mirror.tla` | the second copy |
| `Drime.tla` | a set's folder in Drime under several workers: folder tree, replacing, trash, manifest |
| `UltraFast.tla` | the Cloudflare Worker and copies through it |
| `Picker.tla` | what a folder's backup leaves out, and the tree it is chosen in |
| `SetStore.tla` | the folders of a computer: list, index, storage, under several programs |
| `Account.tla` | email code, PIN and sealed keys between several computers |
| `SelfUpdate.tla` | replacing the program's own file |
| `Schedule.tla` | the entry with the operating system's scheduler |
| `MCBackup`, `MCExpiry`, `MCBundleStore`, `MCTransfers`, `MCStores`, `MCDesk` | small instances of these for TLC, with their `.cfg` files |
| `PROJECT.json` | components, runs, mutation runs, the map from definitions to source lines, findings, hazards, theorems |

## The system

A *set* is a folder with a name, exclusions and a retention window. A *run*
makes storage hold what the folder holds. Everything lives under the set's
prefix: `current/` is a mirror of the folder, `trash/<date>/` what was
overwritten or deleted. What a run believes is in storage is the *local index*,
a bbolt file on this machine; storage is never listed to find out.

| Component | State | Operations | Talks to |
| --- | --- | --- | --- |
| `backup` (run, checkpointer, place check) | phase, landed files, what was planned | `Run`, `checkpointer.tick`, `expireTrash`, `checkPlace` | everything below |
| `scan` | none | `Walk`, one stat per file | the file system |
| `plan` | none | `Build`, `changed`, `detectMoves`, `detectDirectoryMoves` | the index, through `Prior` |
| `engine` | job queue, limiter, results | `execute`, `run`, `uploadFile`, `processMove` | store, pause, network gate, checkpointer through `OnUploaded` |
| `index` | records per set, place, prune claims, unfinished uploads | one transaction per call, a file lock between processes | |
| `trash` | objects under `trash/` | `Move`, `Prune`, list, restore, empty | store |
| `bundle` | per backup: index of entries, pack being filled, stale objects, `failed` | `Put`, `Copy`, `Move`, `DeleteBatch`, `Flush`, `Checkpoint`, `Pending`, compaction, sweep | base store |
| `remote`, `drime` | objects, multipart uploads, Drime folders and manifests | the `Store` interface | the network |
| `netwait` | online, offline, given up; one prober | `Trip`, `Wait`, `Hold` | engine workers, store |
| `pause` | a file naming a process | `Set`, `Clear`, `Watch` | another process, engine workers |
| `restore` | plan of files, partial downloads | plan, download, conflict policy | store |
| `mirror` | listing of two stores | copy, withheld deletes | two stores |
| `sets`, `runstate`, `progress` | `sets.json`, `history.json`, `progress.json` | read-modify-write of a file | cli, tray |
| `schedule`, `selfupdate` | jobs of the operating system, the executable | install, remove, swap | |
| `account`, `creds`, `oauth`, `config`, `src/worker` | sign-in, PIN, vault | HTTP handlers on a database | |
| `ultrafast`, `cfapi`, `src/relay` | upload relay | lease, deploy | |
| `cli`, `ui`, `tui`, `tray`, `winconsole`, `src/cmd` | presentation | commands, panels | all of the above |

What is hard here:

* **Three copies of the truth.** Folder, index and storage change at different
  moments, and a run may stop between any two of them.
* **Writes that return before they are safe.** With bundling a `Put` returns
  when its file is in a temporary pack; the pack may be lost later, and the
  bundle index that names it is written later still.
* **A background checkpointer** writes the index while uploads go on.
* **Files change while they are read**, are renamed, copied, and come back.
* **Failures and retries** of single requests inside a run that carries on.

* **Several programs on one computer**, the panel, a terminal and scheduled
  runs, share files, the index and the scheduler; **several computers** share an
  account and a storage. Most of what they share is read, changed and written
  whole.
* **Two systems that must agree** with requests in between that get lost: a
  server's open upload and the note of it, Drime's entries and the manifest, a
  Worker and the settings that name it, two storages.

The places where this code is exposed are `hazards` in `PROJECT.json`, each at
its line, with the property that covers it or the reason none does. Every
property of a run, but for one type invariant, is there because of one of them.

## Backup: the model

`Backup` composes what one run touches. Its state and the code's:

| Variables | In the code |
| --- | --- |
| `disk` | the folder: a version, or `None`, per key. A version stands for a content with its size and mtime |
| `index` | the records of `index.DB`: the version recorded for each key |
| `current`, `spool`, `trash`, `failed` | what this process reads of the store: sealed objects, the pack being filled (`space.open`), trash, `space.failed` |
| `savedCurrent`, `savedTrash` | what a process that starts now would read. Equal to the above with bundling off; with bundling on, as of the last saved bundle index |
| `packing` | whether bundling is on, chosen in `Init` |
| `claimed` | today's `ClaimDailyPrune` |
| `phase`, `todo` | where `run` is, and what its loop has left |
| `seen`, `source`, `deletes` | the answer of the scan, the plan's renames and deletes |
| `job`, `pre`, `retried` | each upload or rename in the engine: its step, the stat before it, its one retry |
| `landed`, `batch`, `tick` | the checkpointer: its list, the batch in hand, its step |
| `deleted`, `cancelled`, `err` | `Result.Deleted > 0`, the context, an error of the trash step |

One action is one step that other goroutines, people or a crash can come
between: a stat, a request, a transaction. `uploadFile` is `Begin` (stat and
open), `Land` or `PutFails` (the `Put`), and `Check`, `CheckGone`, `TornDelete`
or `TornDeleteFails` (the second stat and what it leads to). Uploads and renames
of different keys interleave with each other, with the checkpointer (`TickTake`,
`TickAsk`, `TickEnd`), with people (`Save`, `Remove`, `Rename`, `Cancel`) and
with `Crash`. A request fails because it met a fault (`Fault`, bounded by
`MaxFaults`) or because the run was cancelled, and a failed request may have
taken effect.

The store is modelled by its contract, from `bundle`: `StorePut` puts a file in
the pack being filled, which may thereby be sent; `SealFails` loses the pack and
its files; `IndexFails` sends it but leaves the index unsaved; `SaveAll` is a
flush or checkpoint that goes through; `FlushReports` is a flush that goes
through and reports a pack lost earlier. `Pending` is the code's `Pending`.

Switches narrow the environment where the code's promise depends on it:
`BusyDisk` (files change during a run), `Renames` (a fingerprint can recur at
another key), `Unreadable` (the scan may fail to read a file), `Returns` (a file
can come back to the size and mtime on record).

### Assumptions

* A save changes size or mtime by more than the two-second tolerance of the
  plan, and a file does not go back, during its upload, to what the stat before
  it saw.
* Runs are shorter than a day: `Midnight` comes between them.
* One run at a time per set and per store: the index is locked for the run.
* With bundling on every file is small enough to be packed, and local temporary
  files can be written.
* A key is normalised to itself, and directories are not renamed as a whole.
* Only regular files: a symbolic link is sent from the scan's answer without
  stats.

### What is checked

| Run | Properties | Shows |
| --- | --- | --- |
| `noted` | `TypeOK`, `Accounted`, `NotedOnlyWhenStored` | Busy disk, unreadable files, renames, files that come back, a fault, two stops, bundling on and off. A record of an upload is written only when a restarted process would read that version, and every record is accounted for. |
| `expiry` | `NothingLost`, `QuietIsStored`, `KeptWithoutRenames`, `RenamesCopyTheirMatch` | Days of runs that fail and stop, with trash and a quiet disk; a midnight with a busy disk and unreadable files; or renames and copies among three files. Expiry never takes the only whole version of a file; a file that looks like its record is in storage; without renames every recorded version stays in `current/` or in trash for the retention window; a rename copies the version it was matched by. |
| `converges` | `Converges` | No trash, busy disk, one fault, one stop, one midnight: storage and index reach the folder and stay there. |
| `stuck` | `Converges` | finding 1 |
| `wrong_rename` | `RenameCopiesItsMatch` | finding 2 |
| `unreadable` | `DeletesAreGone` | finding 3 |

`MCExpiry` holds three scenarios, chosen by `scenario`: `INSTANCE Backup WITH`
gives two of them their own values of the switches. They are apart because
together their switches multiply.

Two keys are enough for one file to be sent, checkpointed or deleted while
another is at a different step; renames in `expiry` have three so that two
candidates can compete for one vanished file. Three versions let a file change twice in a run
(the retry) while another differs from it; where renames are on, two suffice to
make fingerprints recur. One fault and one stop put a failed request, with or
without effect, and a crash or a cancellation at every pair of points of a run
and of the one that recovers from it; `noted` has a second stop, for a crash of
that one too. Keys and versions are interchangeable and
the safety runs use that symmetry; the liveness runs do not.

`NothingLost` needs the quiet disk. On a busy one a mixed object can be what the
next run moves to trash, and when the older whole version expires the mixture is
all that is left of a file until it is sent again; on a busy disk
`KeptWithoutRenames` says what of it still holds. `UnchangedIsStored` needs
`Returns` and `Unreadable` off: when a run is cancelled after its trash step and
the file it thought deleted is there again with its old size and mtime, the
record stays, the object is in trash, and the file is never sent again
(`backup/backup.go:385`).

**Fairness.** `FairSpec` has weak fairness of `Run`, the run's own steps and its
start, and of `Checkpointer`. Runs are started again by the schedule or by
hand; goroutines are scheduled; requests are answered or time out. Nothing is
assumed of people, the clock, faults or `Exit`. Faults, stops and edits are
bounded, which is the "left in peace" of `Converges`.

### What is proved

`Backup_proofs` proves, for any sets of keys and versions, any switches and any
bounds, from the three named assumptions of `Backup`:

* `TypeInvariant`: `Spec => []TypeOK`.
* `AccountedInvariant`: `Spec => []Accounted`.
* `RecordedAfterStored`: `Spec => NotedOnlyWhenStored`.
* `RecordsAreKept`: `Spec => []RecordedIsKept`, without renames and with trash on.
* `UnchangedStaysStored`: `Spec => []UnchangedIsStored`, on a quiet disk: no
  renames, no edits during a run, files that can be read and do not come back
  (`Quiet`).
* `NothingIsLost`: `Spec => []NothingLost`, on a quiet disk and with trash on.
* `UndisturbedStaysStored`: `Spec => [](UnchangedIsStored /\ InStepAtEnd)`, renames
  included, where nothing disturbs a run: no edit while it is under way, no fault, no
  stop (`Undisturbed`). `InStepAtEnd` is that a run that is done leaves the folder,
  the record and the saved storage the same.
* `RenamesCopyTheMatch`: `Spec => RenameCopiesItsMatch`, where nothing disturbs a run.

Their hypotheses are the circumstances of the runs that check them; what happens
in others is said above and in findings 2 and 3.

`NotedOnlyWhenStored` speaks of the step that writes a record, when the upload
is long past, so it is not inductive. `Accounted` follows each file in between.
What has landed and is unrecorded stays readable in the process, or a lost pack
is on record in `failed` (`Readable`); a batch for which the store has answered
is `Safe`: sealed, saved and not shadowed by the pack being filled. That is kept
because later steps of the run do not touch files it has sent: their jobs are
done (`Reported`), and the plan never sends a key that it deletes or that a
rename leaves (`Apart`). `Whole` carries the argument across the second stat: if
the file is still what it was, what was sent is that.

The proof has one lemma per group of actions. Every write to the store is shown
to *spare* the files followed (`Spares`: still readable or the loss noted, and
what was safe stays safe), and `Carried` turns that into `Accounted'` for every
step that leaves the lists alone. The theorem about the action then needs only
which steps write the index (`IndexWrites`).

The three theorems about what can be got back rest on `Accounted` and on a
relation of a record to trash. `RecordsAreKept`: a record is `Protected`, that is
`Held` (in `current/` or in trash, for this process and for any other), or about
to be rewritten (`AtRisk`) and then in trash. Without renames what a key has in
hand, on disk and on record comes from that key alone (`Distinct`), so a write to
one key leaves the protection of the others; `WindowInv` says that no record
loses it before trash can expire. `UnchangedStaysStored`: what a run may overwrite
or delete differs from its record (`Outdated`), and whatever is as recorded is
`Safe`. `NothingIsLost` goes on after the window: nothing in storage is a mixture
(`NoTorn`), a run replaces a file only with the old version in the trash of that
day (`ReplacedInTrash`), and expiry leaves that day's trash; so each record keeps
some whole version protected (`Recoverable`), the recorded one or the one that
replaces it.

Renames relate two keys, so `Distinct` fails with them. `UndisturbedInv` gives each
file its part in the run's plan instead: left alone (`Alone`), deleted (`Going`), sent
(`Sending`), renamed to and, by that, away from (`Renamed`). At each phase it says
what the record, the process and the checkpointer's lists have of such a file. A
rename's source keeps the object its record tells of until the engine has copied it,
because no upload, delete, trash move or other rename has that key (`Apart`, and
`Jobs`: no two renames have one source). The two transactions of a recorded rename
are the two halves of `Renamed` while the run is at "moves". Where a stop comes
between an upload and its record, it is `Level` that breaks, by which storage holds what
is on record when a run starts: finding 2.

`MCExpiry_proofs` carries this to what `expiry` checks. Each scenario is a `Backup`
with constants of its own, so it has the theorems of `Backup_proofs` with those
constants (`INSTANCE`): `ScenariosFit` shows, from `MoreAssumption`, that they meet the assumptions,
`SameOvernight` and `SameRenaming` that the steps are the same, and `EachScenario` that
a behaviour of `All` is one of them. `QuietStaysStored` (`Quiet`), `KeptOvernight` (no
renames, trash on) and `MatchesAreCopied` (no edit during a run) are then
`All => []QuietIsStored`, `All => []KeptWithoutRenames` and
`All => RenamesCopyTheirMatch`.

Model-checked only: liveness (`Converges`), which the prover cannot reach.

## BundleStore: the model

`BundleStore` is one backup (`space`) behind one `bundle.Store`, and the base
store under it. `Backup` uses the store by its contract; this module is what
keeps it.

| Variables | In the code |
| --- | --- |
| `object`, `pack` | the base store: files of their own, and packs by id |
| `old` | packs older than `orphanAge` |
| `saved` | `.bundles/index.json.gz`, or `None` |
| `mode` | `loaded`, `passthrough` and `Options.Pack` in one |
| `idx`, `dirty`, `open`, `stale`, `failed` | the fields of `space` of those names |
| `inflight` | direct Puts, Copies, Moves and Deletes between their base request and their index edit |
| `step`, `full`, `owes`, `dead` | how far `flushSpace` (`full`) or `checkpointSpace` is, and its locals; at rest, what it last returned |
| `now`, `may` | history: what each key may read as, and what may be in storage |

An entry is `Direct`, or a pack and the content of its span: the offset and
checksum of the code let a reader tell whether the bytes are those. A step is
what the lock or a request separates: packed writes and packed moves are one
step, direct ones two or three, a flush one per request (`FlushSeals`,
`Compact`, `Sweep`, `WriteIndex`, `Drop`), and the process may be killed between
any two. Any request may fail, having taken effect or not. A pack may be full
after any file.

`StoreContract` is the abstract specification. A key reads as one of `now`,
storage has one of `may`; a save makes all of them equal at once; a flush or
checkpoint that answers `ok` says that storage has what the store answers and
that nothing was lost unreported; a restart reads storage. `KeepsContract` maps
it to `View` (what `Get` would answer), `Disk` (what a store opened by another
process would), `failed \/ owes` and `step`.

### Assumptions

* One process at a time has the store open, and whoever calls `Flush` has no
  call under way; calls overlap checkpoints. No two calls are for one key.
* A process does not live past midnight. Local temporary files can be written.
* The base store has no range requests, and moves by copy and delete.
* `Mishaps` names two circumstances in which the code breaks the contract. They
  are off in `bundle`: a sweep due in the very flush that empties an old pack
  (finding 4), and a file that goes from object to pack to object between two
  saves, whose object the next flush deletes as stale (`bundle/bundle.go:329`).
  Neither is reported by the code, so no weaker contract would admit them.
* No content is empty (`Blank`). Packs are weighed by the bytes their entries
  point at (`bundle/bundle.go:1057`), and a pack that holds nothing but empty
  files weighs nothing: the flush that sent it deletes it and saves an index that
  points at it. With `Blank = {c1}` the code violates `IndexedIsStored`, with no
  fault at all. Where a store has no range requests (Drime) those files cannot
  be read again; the S3 client answers a read of no bytes without asking.

### What is checked

| Run | Properties | Shows |
| --- | --- | --- |
| `bundle` | `TypeOK`, `IndexedIsStored`, `NothingHeldBack`, `KeepsContract` | Bundling on and off from one process to the next, a failed request: the saved index never points at a pack that is not there; files the checkpointer notes without a save are in storage; the contract. |
| `swept` | `SavedIsSafe` | finding 4 |

Two keys are a file and its place in trash, or two files that share a pack, of
which one is replaced. Three packs are an old one, the one being filled and the
one compaction writes. Two calls overlap, or replace what was just written; any
number of flushes, checkpoints and days come between. Two faults are a failed
request, with or without effect, and another or a process killed, at any points.
`NothingHeldBack` and `KeepsContract` are safety properties: no fairness is
assumed.

### What is proved

`BundleStore_proofs` proves, for any keys, contents, faults and bounds:

* `Typed`: `Spec => [](TypeOK /\ Control)`, and `StorageIsCurrent`:
  `Spec => []NothingHeldBack`, with the mishaps and with blank contents too.
* `IndexPointsAtPacks`: `Spec => []IndexedIsStored`, `StoreKeepsContract`:
  `Spec => KeepsContract`, and `OnRecordStays`: `Spec => []SavedIsSafe`, for
  `Mishaps = {}` and `Blank = {}`, without which the code does not keep them.

The types need `Control`: what has been settled at each step of a flush, where
the lock is held. `IndexedIsStored` needs `Packs`: ids of packs are handed out
once, the one being filled is on no index, and what compaction found dead is off
the index it writes. The refinement needs `Stands`, which adds what every call
under way has done (`Awaited`), that two calls have no key in common (`Apart`), and
that what lies under the pack being filled was asked for too (`Under`). Each action
then comes down to one step of `StoreContract`, or to none, by the keys whose
`View` or `Disk` it changes.

## The other components: how they are checked

The modules below share no state with `Backup`, `BundleStore` or one another.
Each is checked by itself, and three MC modules put them side by side:
`MCTransfers` (`Workers`, `Multipart`, `Runs`), `MCStores` (`Restore`, `Mirror`,
`Drime`, `UltraFast`, `Picker`) and `MCDesk` (`SetStore`, `Account`,
`SelfUpdate`, `Schedule`). A behaviour is of one component, chosen by `part` in
`Init`; the others stay as they begin, so the states add up and do not multiply.
Each action of a component is a disjunct of its own. `Consistent` conjoins the
type invariants and the small agreements a component keeps with itself (in
`Workers`, that each job is queued, in one worker's hands or reported; in
`Multipart`, that no part the server holds whole is sent again; in `Runs`, that a
run is held only by a pause asked of its own process and that the newest finished
runs are the first of the history; in `Account`, that a sync ends with keys the PIN
opens and that nobody is signed out by a service that is down; in `Schedule`, that
nothing is in a scheduler's memory without its file, but what a failed request did
not stop).

`CHECK_DEADLOCK FALSE` is set in the cfgs of the three: edits, faults, calls and
starts are bounded, and where every bound is used up the system has nothing left
to do. That nobody waits for ever is what `PoolEnds`, `UploadArrives` and
`RunsCarryOn` say.

A constant that is a switch names a circumstance in which the code breaks its
promise. The runs leave it out and the table says what happens with it.

| Switch | Off in | With it on |
| --- | --- | --- |
| `PidReused` (`Runs`) | `transfers` | After a restart another program has the pid of the run that was cut off, which is then taken for alive: it is not carried on. |
| `BusyCopies` (`Mirror`) | `stores` | A source object replaced while its bytes are on their way arrives under the size the listing gave (`mirror/mirror.go:416`), and `CopyIsExact` fails. |
| `CopyBack` (`Mirror`) | `stores` | finding 5 |
| `LostFolders` (`Drime`) | `stores` | The answer to a folder's creation is lost and asking again makes a second folder of the same name: what is sent to the second is not found by a process that reads the first. `drime/tree.go` says in the comment of `load` that this cannot be. |
| `Meanwhile` (`UltraFast`) | `stores` | Ultra fast mode is turned off while a copy readies its Worker: the upgrade puts the Worker up again, and nothing knows of it (`ultrafast/copier.go:75`). |
| `Slack` (`SetStore`) | `desk` | Each of its members breaks `RecordsHold`: a name used again while a renamed folder keeps its prefix ("reuse"), a list saved that was read before another program's change ("stale"), a crash between the two halves of a rename ("cut"), records of a name no run has tied to the storage in use, renamed or left behind by a switch, a rename onto a name tied to another storage, and a run begun before the switch ("unsettled": `RenameSet` moves the records and not the place they are about), and a rename onto the name of a folder that was backed up ("taken": the put-back moves that folder's records). |
| `Overlap`, `StaleCheck` (`Account`) | `desk` | Two computers set the PIN at one time and get the same version of it; a late answer about an old session forgets the one saved meanwhile (`cli/dashboard_ops.go:277`), or, since the token is removed before the seal key (`account/token.go:69`), takes the new session's seal key and leaves its token. |
| `MidSwapCuts` (`SelfUpdate`) | `desk` | A program killed between the two renames leaves the binary under its ".old" name only. |
| `Switches` (`Schedule`) | `desk` | systemd comes or goes between sessions; `Install` leaves what the other scheduler holds, and backups run twice or not at all. |
| `Aside` (`Schedule`) | `desk` | The panel repairs a schedule it read up to 30 s ago, which the terminal changed or removed since: the old one is back (`cli/dashboard.go:616`). |
| `Name` with two members (`Schedule`) | `desk` | The marker of the default data directory's cron lines is inside every other one's, so its `Install` and `Remove` take theirs (`schedule/cron_line.go:15`). |

### Workers

| Variables | In the code |
| --- | --- |
| `queue`, `at`, `work`, `tries`, `resumeAt`, `reported` | `execute`'s channel of jobs, and where each `worker` is: before a pause, the gate or the limiter, sending, holding |
| `limit`, `active`, `first`, `throttled` | `limiter`, and the governor's window |
| `offline`, `gaveUp`, `probing`, `waited`, `outage`, `back`, `given`, `stopped` | `netwait.Gate`; `back` and `given` hold the outages whose channel of that name is closed |
| `marker`, `paused` | the pause file, and what the `Watcher` last read of it |
| `up` | the network |

Waiting on a channel is an action enabled once the channel is closed, by the
outage it was taken for: a worker told of an old outage is not woken by a later
one, and the locked half of `Wait` (`GateLook`) is apart from its select
(`GateWake`). A worker parked in the limiter is woken by `Wake`. Whether bytes
still climb at a tick of the governor is a choice.

`NoLostWakeup`: whoever sleeps, sleeps for something that is still to come.
`PoolEnds`: the upload phase ends unless it is left paused. Fairness: each worker
that can go on does (goroutines are scheduled, requests time out), and the prober
and the watcher tick. Nothing is owed by the network, a person or the governor.
Two workers, two jobs, a limit between one and two, one outage, one pause: the
limiter shrinks below what is out, the outage falls between any two steps of two
workers, and the run may be cancelled at any of them.

### Multipart

`pc` is where `putResumable` is; `have`, `todo`, `flight` are its parts; `note` is
`PendingUpload` of the index; `uploads` are what the server has open, with the
parts it holds, of which version and whether whole. The note is written outside
the lock by whoever sent a part (`SavePart`), so snapshots may land out of order.
The file is saved again meanwhile, a request fails before or after it took
effect, the server keeps a part cut off or forgets an upload, the process dies
and another starts, days pass.

`RecordedIsWhole`: what is reported is one version, however many attempts,
processes and saves it took. `OpenIsNoted`: an upload that costs storage is one
the index knows of, unless the request that started or ended it failed or the
process ended between it and the note (`strays`; those stay on the server until
something else clears them). `UploadArrives`: the object becomes the file.
Fairness: a backup that fails is run again, and a run goes on until it ends. Two
parts and two senders, one edit, fault, crash and day.

### Runs

Two processes, the panel's child (`Child`) and one of the scheduler or a terminal
(`Other`), and the panel's `carryOn`. They share the index's lock and four files:
`live` (`progress.json`, whose stamp and write are two steps), the pause marker,
the mark of a stop by hand, and `history`. A restart kills everything but the
files; a write that was on its way may still land after it. `stop` kills the child
and marks the stop afterwards (`Stop`, `MarksStop`), holding the panel's lock: what
needs the lock waits, and a restart in between leaves no mark. Writing the mark may
fail, as reading and writing the history may; the code looks at neither error.
`MaxHistory` is the constant of that name, 1 in the run where the code has 50, so
that the oldest run is cut already at the second one. The list is in the order runs
were recorded: a clock that goes back between two runs is left out.

`StopIsKept`: what the panel sets out to carry on was not marked as stopped by
hand. A stop whose mark was cut off or not written ends as "killed", and the code
does carry that backup on (`cli/tray.go:320`). `RunsAreRecorded`: the newest
`MaxHistory` runs recorded are the first of the list.
`RunsCarryOn`: a backup a restart cut off goes on by itself unless automatic
backups are on, someone stopped it, or another had its turn. Fairness: the steps
of a run and of `carryOn`; nobody has to press anything. `StopIsFinal` and
`Workers.PauseTakesHold` are stated and not claimed: each is violated, the first
with `MaxStarts = 3` (the index is waited for between the look and the start),
the second since a worker past the pause may still begin its file
(`engine/engine.go:406`).

### Restore

The panel's one restore: `PlanSet` or `PlanDeleted`, then workers that get an
object, fill a temporary file and rename it over the path, or replace a symbolic
link in two steps, on a disk its owner goes on using (`Save`) while backups store
(`Store`) and empty trash (`TrashDelete`). Any request or write may fail, the
restore may be stopped, the process killed. A stored version may be replaced
between plan and get.

`OwnFilesKept`: a path keeps what it had or gets a whole object; without
Overwrite what the plan met is there still. `SuccessIsComplete`: a restore that
was not stopped and says it went well brought back all that was asked for, of a
deleted file the version trashed last. A restore that was stopped also says it
went well (`restore/download.go:122`, `cli/dashboard_ops.go:180`), which is why
the property is about the others.

### Mirror

`mirror.Run` between the store backups go to and another one: two listings with
other steps in between, the plan, copies in any order (`GetObject`, `PutObject`),
deletes last. Backups write and delete, folders are kept out of the copy or
dropped from it, backups are deleted from one side or both.

`DeletedBackupStays`: of a backup gone from its source only, the second copy
keeps all it had. `CopyIsExact`: a copy that met no failure, stop or other copy
leaves every key not written meanwhile as the source has it. Two scopes, of which
one has two files, so that a listing can be empty for one backup and not for the
other.

### Drime

Drime has folders and entries by id, allows two of one name, deletes folders in
the background and may lose an answer after it did what was asked. `known`,
`cache` and `inflight` are the client's tree: `Resolve` takes or waits,
`ListFolder` and `CreateFolder` let go of the lock. `Put` sends beside what is
there and then replaces it; `Move` moves and renames; `DeletePrefix` empties the
trash. `details`, `dirty`, `saving` and `saved` are the manifest, whose save takes
a copy under the lock and sends it without. A move takes what the manifest has at
the file's old key (`FindCopy`, `NotesHeld`) and notes that at the new one (`Note`).
The deletion of a folder may fail or outlast `folderGoneWait` (`FolderStays`): some
of the files are left. One that Drime goes on with after that is left out. Whether a
failure counts as one of the network, after which the folder is listed again, is a
choice.

`OneFolder`: two workers never make the same folder twice. `StoredIsFound`: what a
call acknowledged is what a fresh process finds at its key. `DetailsAreSaved`:
with nothing left to save, the manifest has the details each key was promised
(`noted`), also after other processes saved theirs: those of the version whose `Put`
last returned, and after a move of that version at its new key. A version whose
`Put` did not return (its answer was lost, or its old copies could not be removed)
is promised none: moved to trash it gets the details of the version before it, or
none (`drime/client.go:443`). Two workers, two files, three calls, one hitch, one
run of another process.

### UltraFast

Setting up, upgrading and deleting the Worker one request at a time, in one of
two Cloudflare accounts, killed between any two; a copy that readies the Worker
once, sends a large file in two parts through it, tries a part again with a fresh
link, and falls back to this computer, while the source is replaced.

`LandsWhole`: what counts as copied is one version, whole. `BytesAddUp`: a copy
that ends well has counted every byte once. `OneRelay`: turned off, nothing is
left; on, the only Worker is the one in use, but for those that could not be
deleted.

### Picker

The tree of checkboxes of `r2b add` and `r2b edit` over every folder of two
levels with two names (three leaves), and the panel's switches, which edit the
saved rules one path at a time. Boxes and totals are kept up to date by walking
ancestors (`Recalculated`), and `PickerAgrees` compares them, after any keys, with
the set of leaves the person has left checked (`want`); the rules `Accepts` would
save leave out just the others by `Set.Excluded`, the rule backups go by.

### SetStore

Each program's list (`mem`), `sets.json` (`list`), the index's records and their
place, and what each storage keeps by prefix. `RecordsHold`: a record says its
file is in the storage the records are about, below the folder's prefix. The plan
sends no file that has a record, so a false one is a file never backed up.
Removing a folder with its backup deletes by prefix (`Deletes`), which may fail or be
interrupted with some of the files gone; the folder and its records then stay, and the
records of the files gone are false: `gone` keeps which those are, and `RecordsHold`
excepts them and nothing else. Other programs work on while a folder is removed, and
any program may be killed anywhere but between the halves of a rename.
`PurgeSparesOthers`: only removing a folder takes what storage keeps of it, names
that begin with one another included (`Longer`). Two programs, two names, two
storages, four changes, one death.

### Account

Two computers of one person and the service: codes and attempts, the PIN with its
version, tries and lock, the sealed keys and the readable ones of before PINs.
Handlers take their storage calls one at a time; answers get lost, sign-ins are
cut between any two files. A PIN is the number of its setting, since its salt is
drawn each time. A session ends after its 30 days (`SessionExpires`, one of the
run's turns) and the service then refuses its token. Signing out removes the token
and then the seal key (`ClearToken`, `ClearsKey`), and the process may end in between.

`SessionsOpen`: a computer with a session the service takes holds the key the
present PIN makes. `OldKeysMoved`: nobody is signed in while the service can read
the only copy of the keys, with one exception (`missed`): a reset empties the two
tables one after the other, once the new PIN is stored. Who signs in with that PIN
in between is told of nothing to move, and when the wipe is then cut off after the
sealed keys, what the service can read is left; the next sign-in moves it. With
two failures the run reaches this.

### SelfUpdate

The panel and a command that look up releases, download and swap, on Unix (one
rename) or Windows (two, with a removal later), start and end, and restart. A
download may arrive damaged. The checksums tell, unless the release was published
without a `checksums.txt` (`Bare`): the archive is then unpacked as it comes
(`selfupdate/fetch.go:40`), no caller gives `Apply` a digest, and a damaged binary
may be put in place (`unverified`).
`WorkingBinary`: a binary that runs is at the program's path, or beside it between
the two renames. It claims nothing once a put-back failed (`stranded`): the code
reports that, and `cli/update_check.go:105` then says "Nothing was changed". Nor does
it claim that a damaged binary of a release without checksums runs.
`NeverOlder`: on Windows two updates never leave an older release than one of them
said it installed.

### Schedule

The four schedulers, each with what it has on disk and in memory; a command is
the set of outcomes it can have, with the requests that failed on the way. Wishes
are every 50, 90 or 120 minutes, a time of day, or off. 50 does not divide a day,
90 is no number of hours cron can say with one line. `RunsAsTold`: once a command
says it worked, exactly one thing starts the program, where it is now and as often
as asked, and nothing does after "off"; a repair keeps what was in force. It holds
in later sessions and after earlier failures. "Off" does not look at whether the
timer or agent could be stopped (`schedule/schedule_linux.go:167`,
`schedule/schedule_darwin.go:88`): one that could not (`unstopped`) runs on until the
person signs in again, which both properties of the schedule except. What Task
Scheduler has may not be readable (`Answers`), and the schedule is then taken to be
every 0 minutes, which a repair makes every 30.

### What is checked

| Run | Properties | Bounds |
| --- | --- | --- |
| `transfers` | `Consistent`, `NoLostWakeup`, `RecordedIsWhole`, `OpenIsNoted`, `StopIsKept`; `PoolEnds`, `UploadArrives`, `RunsCarryOn` under `FairSpec` | above; one network retry, two starts, one cut, one wish |
| `stores` | `Consistent`, `OwnFilesKept`, `SuccessIsComplete`, `DeletedBackupStays`, `CopyIsExact`, `OneFolder`, `StoredIsFound`, `DetailsAreSaved`, `LandsWhole`, `BytesAddUp`, `OneRelay`, `PickerAgrees` | one restore, two copies, two commands of Ultra fast mode, one edit |
| `desk` | `Consistent`, `RecordsHold`, `SessionsOpen`, `OldKeysMoved`, `WorkingBinary`, `NeverOlder`, `RunsAsTold`, `PurgeSparesOthers` | one wrong PIN locks (`PinTries`), one wrong code ends the code (`MaxAttempts`), two PINs, two troubles of the account (failures, or one failure and one turn: a wrong code or PIN, keys connected, 30 days over, or a sign-out), three releases of which one has no checksums, three wishes, one slip |
| `copyback` | `CopyBackOnlyFills` | finding 5 |

Every bound is one more than nothing of its kind: one fault, death or edit falls
at each point of the behaviour it disturbs, and two programs, workers or computers
are enough for one to act between any two steps of the other.
`SYMMETRY` in `desk` is of the computers and of the storages: nothing tells them
apart, and where a part other than the folders is run the storage in use is
never read.
`FairSpec` of `MCTransfers` states for each component the fairness of its own
specification, within its own behaviours.

### What the models showed besides

Read off the models or met while writing them; none is checked by a run.

* `Multipart`: an abort that fails is swallowed and the note dropped
  (`remote/multipart.go:433`); the upload stays open.
* `Drime`: a batch delete with one id that is gone answers "invalid", which counts
  as done, whether or not the others went; a move stopped between its two requests
  leaves the file under its old name in the new folder; two processes may create
  the same folder.
* `UltraFast`: setting up again in the same account when the address cannot be
  turned on deletes the Worker in use while settings say on
  (`ultrafast/ultrafast.go:187`); an upload by links is left open when
  abandoning it fails or the process ends; `RelayFellBack` sticks across tries.
* `Account`: of two computers that push keys the last wins; one that could not
  reach the second storage at its sync later pushes keys without it; keys let in
  before a PIN reset and written after it stay sealed under the old PIN.
* `Runs`: a panel that ends between killing its run and marking the stop carries the
  stopped backup on when it starts again (`cli/tray.go:320`); a pause aimed at one folder's run may hold the next folder's run of the
  same process.
* `SetStore`: `RenameSet` moves the records and leaves the place under the old
  name (`index/index.go:512`). When backups then go to other storage before the
  next run, `checkPlace` finds no place, takes the records to match, and what the
  new storage lacks is not sent until it changes, which is what
  `index/place.go:18` says the place is there to prevent. TLC finds it with
  `Slack = {"unsettled"}`.
* `Account`: `GetKeys` without a seal key ends the sign-in; that `cli/setup.go:336`
  clears such a token is left out.
* `SelfUpdate`: a release without `checksums.txt` is installed unverified
  (`selfupdate/fetch.go:40`); on Unix two programs can downgrade each other; a program killed
  while staging leaves its `.r2backup-new-*` file.
* `Picker`: accepting `edit` without a change drops every rule whose files are not
  on disk now (`cli/commands.go:932` says that starting again "would quietly undo
  every choice already made").
* `Schedule`: `systemctl` without a user manager counts as available
  (`schedule/schedule_linux.go:88`), so installing fails and never falls back to
  cron; a timer that cannot be stopped goes on after "off" said it worked; a daily
  task whose XML cannot be read is repaired to every 30 minutes; cron cannot say 50 minutes and refuses; a repair reads a schedule cron
  cannot tell as 30 minutes.

### What is proved

Each theorem is of a module by itself, for any sets and bounds; what its constants
have to satisfy is the module's assumption (`PoolAssumption`, `UploadAssumption`,
`RunsAssumption`, `RestoreAssumption`, `MirrorAssumption`, `UltraFastAssumption`,
`DrimeAssumption`, `PickerAssumption`, `SelfUpdateAssumption`, `AccountAssumption`,
`SetStoreAssumption`, `ScheduleAssumption`, and `OffAssumption`, by which "off" is no
wish and no entry).

| Theorems | Of | Without |
| --- | --- | --- |
| `PoolKeepsTypes`, `EveryJobAccounted`, `WakeupsArrive` | `PoolTypeOK`, `JobsAccounted`, `NoLostWakeup` | |
| `UploadKeepsTypes`, `ReportedIsWhole`, `SentOnce`, `OpenUploadsNoted` | `UploadTypeOK`, `RecordedIsWhole`, `NothingSentTwice`, `OpenIsNoted` | |
| `RunsKeepTypes`, `StopStays`, `PausesAreAsked`, `FinishedIsRecorded` | `RunsTypeOK`, `StopIsKept`, `PauseIsAsked`, `RunsAreRecorded` | |
| `TransfersConsistent` | `Consistent` of `MCTransfers` | |
| `RestoreKeepsTypes`, `RestoresKeepOwn`, `SuccessIsWhole` | `RestoreTypeOK`, `OwnFilesKept`, `SuccessIsComplete` | |
| `MirrorKeepsTypes`; `DeletedIsKept` | `MirrorTypeOK`; `DeletedBackupStays` | ; `CopyBack` |
| `CopiesAreExact` | `CopyIsExact` | `CopyBack`, `BusyCopies` |
| `UltraKeepsTypes`, `CopiesLandWhole`; `NoRelayForgotten` | `UltraTypeOK`, `LandsWhole`; `OneRelay` | ; `Meanwhile` |
| `TallyAddsUp`, for a finite set of files | `BytesAddUp` | |
| `DrimeKeepsTypes`, `NotesAreSaved`, `FoldersAreOne`; `AckedIsFound` | `DrimeTypeOK`, `DetailsAreSaved`, `OneFolder`; `StoredIsFound` | ; `LostFolders` |
| `PickerKeepsTypes`, `BoxesAgree` | `PickTypeOK`, `PickerAgrees` | |
| `StoresConsistent` | `Consistent` of `MCStores` | |
| `UpdateKeepsTypes`, `BinaryWorks`, `VersionsNeverFall` | `UpdateTypeOK`, `WorkingBinary`, `NeverOlder` | `MidSwapCuts` |
| `AccountKeepsTypes`, `OldKeysMoveFirst` | `AccountTypeOK`, `OldKeysMoved` | `Overlap` |
| `SessionsOpenKeys`, `SyncsSave`, `SignInsStay` | `SessionsOpen`, `SyncSaves`, `SignInStays` | `Overlap`, `StaleCheck` |
| `SetsKeepTypes`; `RecordsAreTrue`; `PurgesSpareOthers` | `SetsTypeOK`; `RecordsHold`; `PurgeSparesOthers` | ; all of `Slack`; "stale" of it |
| `ScheduleKeepsTypes`; `SchedulesRunAsTold` | `SchedTypeOK`; `RunsAsTold` | ; `Switches`, `Aside`, a second `Name` |
| `DeskConsistent` | `Consistent` of `MCDesk` | `Overlap`, `StaleCheck`, `MidSwapCuts` |

* `Workers`: `active` is the number of files on the wire (`Slots`), so nobody parks
  beside a free slot; a closed gate has a prober (`Gates`), which opens it for the
  outage each waiter was told of; a job is in one place (`Hands`). The finite set
  of workers is where the cardinalities come from.
* `Multipart`: a part of the noted upload, or on the wire, was read no earlier than
  the version the upload is for (`Fresh`), which makes one whose parts all went
  through whole when the file is still that version; what is still to send is no
  part the server holds whole (`Unsent`); what is open is noted, in hand or astray
  (`Known`), by the step the process is at (`Steps`).
* `Runs`: one process at a time is past the index (`Exclusive`), so what it read of
  the history is current when it writes it (`Recorded`) and its first `MaxHistory`
  runs lead it (`Leads`); a stop that is marked stays marked until the next run has
  the index, and no write on its way takes the mark off (`Stopped`). It holds with pids used again too.
* `MCTransfers`: each of the three follows its own specification while the others
  act or not (`EachByItself`), so what is proved of each holds of them together.
* `Restore`: a path of the plan waits, is at one worker or is reported, once
  (`OneAtPath`), and a temporary file is its worker's, or was left by a process that
  died (`TempsOwned`); so until a worker puts a path in place it is as the plan met
  it, and after that what the worker brought, but for what others do to it
  (`WorkerKeeps`). All that was asked for is somewhere on that way (`Underway`).
  `LatestTrashed` finds the one version that is last by its day and second, and
  shows it is the one stored last; its maximum comes from the well-foundedness of
  the naturals, as the prover cannot do induction.
* `Mirror`: what a copy has listed, plans to write or delete, or has on its way is
  of other backups than those deleted on one side (`OthersOnly`). A copying back
  that is cut short can leave such a backup with a few of its files in the source,
  and the copy after it then deletes the rest from the other side: that is what
  `CopyBack` stands for. For `CopyIsExact`, a time of writing tells versions apart
  (`TimesTell`) when no source changes under a copy's hands (`BusyCopies`), a copy
  that was alone has been (`AloneIsAlone`), and of each file nobody has written since
  it knows that it is copied, due, on its way or to be deleted (`Exact`).
* `UltraFast`: a part counts as sent only if the server keeps it, of the version
  listed (`KeptOf`), so what is put together or sent at once is whole. Each Worker
  there is, is the one kept, the one a setup is making, the one it replaces, or is
  given up as left behind, whichever request the process was killed in
  (`NoRelayForgotten` without `Meanwhile`, settings changed between the beginning
  of a copy and its use of them). The bytes shown are the number of pairs of a file
  and a counted part of it (`Bytes`), and a file counts at the Worker or here, never
  both (`TallyOf`). The fold `BytesAddUp` sums with is such a number too
  (`SumOfSizes`): the smallest set of files where the two would differ has a
  file that can be taken off it.
* `Drime`: what a worker asks of Drime it asks alone, a folder only while nobody
  knows it (`AsksOnce`), which is the lock on a folder's name and why there is one.
  A call about a file holds the one entry of it, where its last step left it
  (`FoundRight`), as no other worker is at that file (`Apart`). Later ids are of
  later versions (`IdsTell`), so the entry kept of several is the newest. Every
  acknowledged file is in the folder this process knows (`AckedHeld`), and the
  latest set of details is the saved one, the one being saved, or in memory
  (`NotesHold`), with what each key was promised in it (`Agrees`). `LostFolders` is a folder made with nobody told: the client
  makes another, and what is in one is not found by who knows the other.
* `Picker`: each box and each total is what the leaves the person wants say of it
  (`Boxes`), after any keys. The code works them out from the children up; the
  proof gives that recursion this answer and shows that it has no other, at the
  highest node where two answers would differ (`ByHeight`), and the same for the way
  from a changed node to the root (`UpOne`, `RecalculatedSays`). The list handed back
  is then the topmost boxes that are off (`RulesSay`). The rows are in
  lexicographic order, so that the rank of a row names it (`BeforeOrder`,
  `RowsInOrder`): the node the cursor is at is the one its number says.
* `MCStores`: as for `MCTransfers`, each part follows its own specification while
  the others act or not (`EachByItself`).
* `SelfUpdate`: what a program runs from is the version it says it is, wherever
  the file has been renamed to (`ImagesTrue`), and at most one program is between
  the two renames (`OneSwap`); what is at the program's path is a release, or a damaged
  file of one without checksums (`PathsHold`); it moves the binary aside only when that is its own
  image, so nobody replaced it since, and the file it moved is there for the
  put-back (`NotLost`).
* `Account`: one setting of the PIN is one version of it (`OneVersion`). A session
  waiting to be saved is of one version and seal, no older than the computer's
  token and no newer than the PIN (`SessionOf`), so a seal key saved without its
  token belongs to a session the service no longer takes. Who was let in with
  nothing to move had nothing to move (`MovedFor`), up to a wipe. With
  `AccountInv`, `SyncsHold` says what a sync has in hand is what its files say,
  unless another request came into it.

* `SetStore`: a record's truth is broken and mended within a rename, which moves
  the records and the name in two steps, so `IndexRight` has two halves: while a
  rename is between them, either nothing of it has moved or all of it has
  (`NoneMoved`, `AllMoved`), and otherwise the records of every folder are true and
  a name without a folder has none (`Right`). Around it: who holds the index
  (`IndexHeld`), prefixes no two folders share (`PrefixesApart`), runs that know
  the folder they are at and where it goes (`RunsKnow`), and what a removal has
  deleted of a folder still listed, which a record may name (`Known`). The attempt showed that the model had let two orders through that
  break the invariant although `Slack` was empty, at bounds beyond the run's: a run
  begun before a switch of storage, and a rename onto a name still tied to
  another storage. Both are now among "unsettled".
* `Schedule`: for each data directory, after a command that said it worked, either
  nothing starts the program, but what could not be stopped, or what does is as asked
  (`Kept`), through what each
  system has on disk and in memory (`Native`); what the panel saw is off, out of
  force, or the present state. `CronExact` shows for every number of
  minutes cron can keep, by arithmetic on minutes and hours, that each multiple of
  it in the day is in one line and no other minute in any.
* `MCDesk`: each part follows its own specification (`EachSpec`).

Model-checked only: `Converges`, `PoolEnds`, `UploadArrives` and `RunsCarryOn`, which
are liveness.

## Findings

1. **A failed upload stops every later run** (`backup/backup.go:277`). The old
   version is in trash, its record stays, the next run moves it to trash again,
   the move finds nothing, and `run` returns an error before it sends anything.
   The person was told the files "will be retried next run" (`cli/run.go:220`).
2. **A rename can be paired with a record that is behind storage**
   (`plan/plan.go:303`). The newer object is copied under the new key and
   recorded as the older version.
3. **What the scan cannot read is deleted from the backup** (`scan/scan.go:139`).
   `plan.Build` does not look at the scan's problems, so a directory that cannot
   be opened for one run is moved to trash, or removed when the set keeps none.
4. **The sweep runs before the index is saved** (`bundle/bundle.go:1031`). A pack
   the flush has just emptied, older than six hours, is deleted while the saved
   index still points at it. If the save fails, files that compaction moved out
   of it are lost.
5. **Copying back puts older files over newer ones** (`mirror/mirror.go:167`). The
   plan sends whatever differs in size, and copying back runs it with the sides
   exchanged. A file stored again since the last copy is overwritten in the main
   storage, after the person agreed to "Fills in what's missing. Removes nothing."
   (`cli/mirror.go:287`).

## Mutations

Each property of a passing run is broken by a plausible slip in the code: one
definition replaced by the one introduced right before it as a slip, where a
comment says what goes wrong.

| Run | Property | Definition and slip |
| --- | --- | --- |
| `noted` | `TypeOK` | `Backup.Moved`: uploads are taken for renames. |
| `noted` | `Accounted` | `Backup.Vanished`: a changed file counts as deleted. |
| `noted` | `NotedOnlyWhenStored` | `Backup.Pending`: a lost pack is not counted as held back. |
| `expiry` | `KeptWithoutRenames` | `Backup.TrashDone`: the run goes on after trash failed. |
| `expiry` | `NothingLost` | `Backup.Due`: the retention window is ignored. |
| `expiry` | `QuietIsStored` | `Backup.Doomed`: a rename deletes its new key. |
| `expiry` | `RenamesCopyTheirMatch` | `Backup.Vanished`: a changed file counts as deleted. |
| `converges` | `Converges` | `Backup.FlushReports`: a lost pack is reported by every flush after it. |
| `transfers` | `NoLostWakeup` | `Workers.Wake`: the limiter changes and nobody is told. |
| `transfers` | `Consistent` | `Workers.GiveUp`: a job whose network never came is dropped unreported. |
| `transfers` | `PoolEnds` | `Workers.MissedNetwork`: the prober keeps looking and nobody is told it is hopeless. |
| `transfers` | `RecordedIsWhole` | `Multipart.Useless`: an upload is continued whatever version it was started for. |
| `transfers` | `OpenIsNoted` | `Multipart.Abort`: the note goes and the upload stays. |
| `transfers` | `UploadArrives` | `Multipart.adoptable`: a part the server kept cut off counts as sent. |
| `stores` | `SuccessIsComplete` | `Restore.Later`: by the time of day alone. |
| `stores` | `OwnFilesKept` | `Restore.Copied`: the error of io.Copy is not looked at. |
| `stores` | `DeletedBackupStays` | `Mirror.Alive`: only a source that lists nothing at all is spared. |
| `stores` | `CopyIsExact` | `Mirror.Stale`: a file is told from its copy by size alone. |
| `stores` | `Consistent` | `Drime.Answered`: a request that fails leaves its mark, and who waits on it waits on. |
| `stores` | `OneFolder` | `Drime.Mark`: a folder that another worker is making is asked for once more. |
| `stores` | `StoredIsFound` | `Drime.Send`: the old copies go first. |
| `stores` | `DetailsAreSaved` | `Drime.LeftDirty`: what was noted while the copy was on its way counts as saved. |
| `transfers` | `StopIsKept` | `Runs.Writes`: a file's age is the time it was renamed. |
| `transfers` | `RunsCarryOn` | `Runs.Interrupted`: only an old file is of a run that was cut off. |
| `desk` | `SessionsOpen` | `Account.NewVersion`: the PIN is replaced, and its version stays. |
| `desk` | `OldKeysMoved` | `Account.ToMove`: the session is saved whether or not the old keys were moved. |
| `desk` | `RecordsHold` | `SetStore.TrueOf`: the records of another storage are kept as they are. |
| `desk` | `PurgeSparesOthers` | `SetStore.KeyScope`: a prefix takes whatever begins with it. |
| `stores` | `LandsWhole` | `UltraFast.Serves`: a link asked for again is of whatever has that name now. |
| `stores` | `BytesAddUp` | `UltraFast.Uncounted`: what went before the relay failed stays counted. |
| `stores` | `OneRelay` | `UltraFast.NameOf`: every setup makes a Worker of its own. |
| `desk` | `Consistent` | `Schedule.Stopped`: the timer is disabled, and not stopped. |
| `desk` | `WorkingBinary` | `SelfUpdate.Unpacked`: the checksum is left to the archive's own format. |
| `desk` | `NeverOlder` | `SelfUpdate.MayMoveAside`: each update moves the binary aside under a name of its own. |
| `stores` | `PickerAgrees` | `Picker.Recalculated`: only the directory the entry is in is looked at again. |
| `desk` | `RunsAsTold` | `Schedule.Marked`: a line of ours is found by the whole of it, its times included. |
| `bundle` | `TypeOK` | `BundleStore.Returns`: what it owes is not forgotten when it has answered. |
| `bundle` | `IndexedIsStored` | `BundleStore.Empty`: packs with anything dead in them. |
| `bundle` | `NothingHeldBack` | `BundleStore.Pending`: edits of the index are not counted as held back. |
| `bundle` | `KeepsContract` | `BundleStore.Dropped`: the pack being filled still holds what was there before. |

## Plan

Modelled and checked: everything above. Proved: every module with a state, as
far as said there; every invariant and action property of a passing run is stated by a
theorem. What is next, in this order:

1. Two callers of one bundle store, and two processes on one bundle index.
2. The end of a pack that cannot be written (`bundle/bundle.go:463`).
3. Renames and faults together: what a record still says of storage after a request
   of a rename failed.

Liveness stays with TLC, as do statements about ENABLED.

## Not modelled

* Presentation: drawing, windows, the tray's page, printing and prompts (`ui`,
  `tray`, `winconsole`, `src/cmd`, most of `cli/setup.go` and `cli/commands.go`). What
  they change is modelled where it lives; their own state is what is on a screen.
* Copies of Drime folders (`cli/mirror_sources.go`): settings read, changed and
  written whole, like `sets.json` in `SetStore`, over the same `mirror.Run`.
* The operating system's credential stores, the browser of `oauth`, mail, plain HTTP
  clients (`cfapi`), rate limits by address: they belong to other programs, or are a
  request that may fail.
* The cache of packs, ranges and readers of `bundle` and `remote`; collisions,
  renames of directories and the mtime tolerance of `plan`; the arithmetic of
  `progress`.
* Tests, scripts and installers.
