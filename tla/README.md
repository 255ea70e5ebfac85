# Macqueue in TLA+

Macqueue runs jobs of agents on one Mac, through a queue on a VPS. This directory models the parts of it that keep state:
the durable queue, the protocol between the queue and its workers, what lets a worker execute a job at all, how it executes
one, the stores of source packages on both machines, and the scripts that set up and take away an installation. Everything is translated from the code under `src/`; line numbers below are those of the sources.

* `tlc -config X.cfg M` checks a run of the table in section 4; `tlapm M.tla` checks the proofs of section 6.

## 1. The system

| component | state it keeps | operations | talks to |
| --- | --- | --- | --- |
| **Queue store** `macqueue/store.py` | table `jobs` (status, lease, deadlines, result, artifact), table `logs` | submit, claim, heartbeat, cancel, append_log, finish, publication of an artifact, prune; every transaction reaps first | SQLite, which serialises transactions |
| **HTTP server** `macqueue/server.py` | input reservations, temporary files, the condition variable of long polls | one handler thread per request; each is one store transaction, uploads are two | store, workers, submitters |
| **Worker** `macqueue/worker.py`, `client.py` | the claim, `last_ok`, the cancel event and its reason, `ACTIVE.json`, `PAUSED`, `worker.lock` | main loop, `handle`, the lease thread, the watchdog, `retry`, the signal handler | server by HTTP, runner by threads and the cancel event |
| **Job runner** `runner.py`, `process.py` | checkouts, children, pipes, records | steps, compare sessions, cleanup of process groups | children in the sandbox |
| **Source snapshots** `sources.py` | snapshot directories | publish, revoke, look up | runner |
| **Source packages on the VPS** `server.py`, `store.py` | `inputs/` files, `input_reserved` | upload, download under a lease, prune | submitters, worker, prune-server |
| **Updater** `deploy/update.py` (and the older `deploy/macos/update_module.py`) | receipts, backups, `PAUSED`, `worker.lock` | apply, rollback | launchd, worker's files |
| **Installers, provisioning** `deploy/macos`, `deploy/debian` | journals, accounts, files | apply, recover, rollback | operating system |
| **Command line** `cli.py` | none, or the cursor of `logs --follow` | submit, wait, logs, pause, resume, prune | server, the worker's state directory |
| **Dashboard** `frontend/` | cursor and merged log of the open job | polls, a read-only proxy | server |
| **Policy, schema, plans, doctor** | none | validation | |

What is hard here, and what each component has to get right:

* *The server cannot see a worker.* A lease of 60 s is all it has. A worker must have stopped executing when its lease is
  given up, although its heartbeats are answered late or not at all, it may crash, and the claim's own answer may be lost:
  no two executions may overlap, and no job is handed out twice.
* *Expiry is lazy.* Nothing runs in the background of the queue: deadlines take effect in the next transaction of
  whoever comes, and an operation that raises rolls back the reap it did. Every operation has to see an expired lease as
  expired before it was written down.
* *Everything is retried.* Uploads, completions, log chunks and submissions are sent again after a lost answer. An outcome
  must stay what it was, and the same completion must be recognised.
* *Cancellation races with everything:* with the end of the run, with the completion, with the lease running out.
* *The worker's main thread, its signal handler, launchd, the operator and the updater* meet in three files and a lock,
  with look-then-act steps between them, and any of them may be killed.
* *A job's children* write when they like, and what they wrote is read at any later time; they fall silent, fail, and leave
  processes behind. Samples must stay with their requests, and nothing may run on unannounced when a cleanup fails.
* *The worker's directory* holds results that nobody else has, and source packages that later jobs are built from, across
  kills between any two file operations.
* *Installers, their rollbacks and provisioning* are long sequences of steps, run by hand, which raise or are killed anywhere
  and are run again; a reboot starts whatever is enabled, and the machine is shared with other people's accounts and files.
* *Uploads of packages* share byte and file budgets, and `prune-server` is a second process that deletes their files.

## 2. The modules

| module | models | of |
| --- | --- | --- |
| `JobLifecycle` | the abstract specification: the life of a job (docs/api.md:26), one job worked on at a time, outcomes that stay | |
| `Store` | one action per transaction of the queue, and the clock | `store.py`, the publication in `server.py:225-230` |
| `MacQueue` | `Store` behind the handlers of the server, with the workers and a network that delays and loses requests and answers | `worker.py:75-326`, `server.py:167-234`, `client.py` |
| `WorkerGate` | the worker's main thread against signals, kills, reboots, pause and resume, and the updater | `worker.py:164-326`, `deploy/update.py`, `cli.py:108-126` |
| `LogStream` | a job's live log: the bounded queue, numbered chunks sent again and late, the table of `Store`, `logs --follow` | `worker.py:75-145`, `store.py:142-158`, `cli.py:183-194` |
| `Sessions` | the children of a step, their pipes, and the coordinator that pumps them | `process.py`, `runner.py:46-77, 228-328` |
| `Snapshots` | the worker's cache of source packages, as operators on it | `sources.py:140-193` |
| `Runner` | plans of jobs executed by one worker: preparation, steps, metadata, packing, receipts, prune-worker, kills | `runner.py:79-457`, `worker.py:218-275, 329-357`, `sources.py:70-114` |
| `Installer` | apply, recover and rollback of both installers beside their journal | `deploy/macos/install.py`, `deploy/debian/install.py` |
| `Provision` | apply and rollback of a provisioning, beside its receipt and backup and the worker that is provisioned | `deploy/macos/provision.py`, `worker.py:218-319` |
| `Setup` | one script at a time on one machine: `Installer` and, on a Mac, `Provision` | the `main` of the three |
| `Inputs` | uploads, links and reservations of source packages, with `prune-server` and crashes | `server.py:99-136`, `store.py:184-199` |
| `StoreProofs`, `MacQueueProofs`, `InputsProofs`, `RunnerProofs`, `WorkerGateProofs`, `LogStreamProofs`, `SetupProofs` | theorems about the modules so named, and `RunnerProofs` about `Sessions` | |
| `SumTheorems` | what a sum over a finite set is: lemmas for budgets and sizes | |
| `MCStore`, `MCLogStream`, `MCMacQueue`, `MCInputs`, `MCRunner` | constants of the instances | |

`MacQueue` extends `Store`: its actions call the transactions of `Store`, and `ImplementsStore` checks that the
composition allows nothing else. `Store` in turn implements `JobLifecycle` (checked, and proved). `LogStream` extends `Store`
too: its server handles a chunk with the transaction `AppendLog`, and everybody else uses the store as he likes. `Runner`
extends `Sessions` and `Snapshots`: a step of a job begins a use of children and goes on when the use is over.

### How state and actions correspond to the code

**Store.** `jobs[j]` is a row; `absent` is an id `uuid4` has not drawn, `deleted` one whose row was pruned (ids are never
drawn twice, and neither are tokens: `issued` counts them). `db` is the table as an operation finds it after
`transaction()` has called `reap`; an operation that raises rolls that back and is a stuttering step. Deadlines are
the ticks that are left, and the time since a job finished counts up to `Retention`: so the state space is finite without
bounding time. `created` is the rank of a job among the ids ever drawn, which orders `claim`. A result is a value the
worker names, and `IsRecorded` compares it as `finish` compares the JSON. Of a spec the model keeps the project and the queue deadline;
the rest of it is not read by the store except by prune's pass over packages, which is in `Inputs`.

**MacQueue.** Each worker has a main thread (`mode`) and the lease threads, merged where only their shared effect
matters. `calls` are requests the server has yet to handle, `replies` answers not yet read; a request that its sender gave up
on is lost or handled later, all the same. `age` is the time since `last_ok`, which starts at `requested_at`, *before* the
claim is sent; `beat` is the age the next successful heartbeat will set. The reason of a cancel event is kept as far as code
looks at it: `retry` gives up early when the lease is gone, and a failed run is reported as cancelled when the server said
so. An upload is two steps: the first renews the lease, the second publishes under a lease looked at again. Answers to an
upload or a completion are read at once or lost, since how late they are changes nothing. `Crash` is the end of a worker and
its start after the machine was reset (the restart guard itself is in `WorkerGate`).

**WorkerGate.** `main` is the program counter of the main thread. `import` is the worker that has read its program (`cli.py:109`) and
has not asked for `worker.lock` yet (`worker.py:286-288`); `running` is what it has read, and whether launchd or somebody by hand
started it. Then come the looks it takes: at the stop flag and PAUSED (`worker.py:298-299`), again after the claim (315), the marker (223), the assignment of `self.active` (226) from which on
`signal` can reach the run, the end of the run, and `finally` (269-275). `alive` says that processes of a job exist, in a
session of their own, so that they survive the worker. The updater's `stage` follows `stop`, the replacement and `start`;
it may fail, refuse or be killed between any two, which releases the lock and leaves PAUSED. The server appears as the
answer to a claim only. `wish` remembers what the operator last asked for, and is read by one property.

**Inputs.** An upload is admitted under `input_lock`, and then makes, fills, links and removes its temporary file and
releases its reservation, each a step. Prune's transaction is the record `pruning`: rows to delete, names that are
still referenced, and files to look at; submissions wait for it, uploads do not. When it dies its rows come back.

**LogStream.** Events of one job are numbered as they happen, and a chunk is the set of the events in it. `pending` and
`sequence` are those of the lease thread: a chunk is sent until it is acknowledged, and `net` keeps requests that may yet be
handled, once or twice. The reader fetches a page and prints it record by record, in the order
of the numbers (`page`, `after`); whether the last page was `short` decides if another is asked for. The
branch at worker.py:132-134, which puts an event back at the end of the queue, cannot be taken with the sizes in the code
(a chunk that goes on is below 4096 bytes, an event below 60,002, the limit is 65,536) and is not modelled.

**Sessions.** One module for the four ways in which the runner uses `Process`: a command (`run`), the pair of a benchmark
(`compare`), a training session (`train`), and a target with a sampler (`profile`). `child[c]` has the life of the process,
whether any process of its group is alive, the pipe it writes to, the complete `lines` the worker has read, whether it
holds a `partial` one, and in `said` all that the child ever wrote, which properties alone look at. Bytes are records: the answer to request n is n, and `Extra` and `Cut` are a record nobody asked for and
bytes without an end. A read takes any number of records that are there. Deadlines and the cancel event are the one event
`Expire`, which may end every wait; an output limit may be passed in every read (`OverLimit`). `compare` has one worker count, one request
per round and its process mode is a sequence of `run`s. `verdict` says how a use ended: `invalid` is the exception that metadata
tolerates, `unclean` a CleanupError.

**Snapshots and Runner.** A package in the cache has its files (none, whole, or cut by a removal under way) and its receipt.
`at` is where `handle()` and the runner are, `k` the step, and `Alone` guards what they do themselves while no child is in use.
One use of a child stands for the git commands of a clone, one for the tools of metadata, whose failure is noted, and one for
git in metadata, whose failure ends the job. What the steps write is abstracted to the set of variants that were frozen. `local` is
what the worker's directory keeps of each job and `server` what the server has got: the receipt may be torn by a kill while
it is written. `stray` says that processes of an earlier use survive; `Crash` may come between any two steps. The cache that
a worker starts with has whole packages or none; cut ones are left by its revocations (`Unfinished`).

**Installer, Provision, Setup.** The scripts are sequences of steps (`MacSteps`, `ProvisionSteps`, ...), each with its
effect on the files, and the exception or kill that may follow it. `owner` says whose each account, file or directory is, and
`Intrude` lets somebody else create an account where there is none, or put a wrapper or client directory of his in place. His thing is
`foreign`, or `unmarked` when Debian's rollback looks at nothing that would tell: a client directory without an `installation-id`, a group
with the number of the installation's. `enabled` is what a boot starts, and `stuck` that `systemctl disable` failed in a rollback. Of the things in the base directory only the journal is kept apart. A provisioned thing has a
version, `old` or `new`, in its place and in the backup. `memory` is the receipt the script holds, which gets ahead of the one on disk.
Beside the script a worker takes and ends jobs: it looks at PAUSED (`TakeJob`), writes ACTIVE.json later (`MarkJob`), and a script looks
at both files once (`Look`), without the wait that `update.py` has. A worker between the two is then `missed`, and its job `late`.

## 3. Assumptions

* *Time limits* (`LocalAssumption`): `LocalLimit + StopTime < LeaseTime`. The watchdog looks every few seconds at the 40 s
  limit, and the end of the processes after it is prompt: both fit into the 20 s that the 60 s lease leaves. A claim that is
  not answered is given up by the client's 30 s timeout, before the limit. In the model time may not pass while a worker that
  reached a limit has not acted (`MayWait`). A machine that sleeps breaks this assumption; sleep is not modelled.
* *Drain* (`Drained`): the updater's 3 s sleep is longer than the way from a worker's last look at PAUSED to its marker.
* *Operators* (`Resume`, `Reset`): nobody resumes a worker that is being updated or is half updated, and ACTIVE.json is
  removed together with the processes it warns of. In `Provision` the operator resumes only after a script that printed its
  result (he may pause at any time), and one script runs at a time.
* *Others on the machine* (`Intrude`): an account of the installation is not replaced while it exists; nobody else uses the base,
  configuration and state directories or the plist. Accounts, the wrapper and the client directory may be anybody's. `rollback` compares the
  plist with a hash only once it has been entered in the journal, so a plist put there before would be taken for the installation's.
* *Provisioning* starts on a finished installation, and one plan is modelled between its apply and its rollback.
* *Plans* (`PlansAssumption`): a job has steps, and one that installs or revokes a package has no other, as `validate_job` demands
  (schema.py:103, 115).
* *Results* (`NullAssumption`, `WorkerAssumption`): no result or commit is `Null`, and no worker sends the result that the reap writes, `LeaseLost`.
* SQLite serialises transactions, files survive crashes, ids and tokens are never repeated.

## 4. The runs

| run | module, cfg | what it asks | bounds |
| --- | --- | --- | --- |
| `store_safety` | `MCStore`, `_safety` | every safety property of the queue, and that it implements `JobLifecycle` | 3 jobs, 3 keys, 2 projects, lease of 2 ticks, 1 queued job allowed |
| `store_log` | `MCLogStream`, `_log` | the log is exact up to its limit, and its reader sees it in order; every job leaves the queue | 2 jobs, 2 events of the watched job, a queue of 1, pages of 1, limit 3 |
| `exclusive` | `MCMacQueue`, `_exclusive` | executions never overlap, and a running job is never reported over | 2 workers, 2 jobs, lease 3, limit 1 + 1, 1 late request; runs end by crash only (`Ending = {}`) |
| `delivery` | `MCMacQueue`, `_delivery` | completions agree with what is recorded; the composition implements `Store`; cancelled runs stop; jobs end | 1 worker, 1 job, lease 3, 1 late request |
| `gate` | `WorkerGate`, `_gate` | marker, pause, lock and update keep jobs, left-over processes and files apart; a stop ends the worker | none needed: the state is finite |
| `gate_stop` | `WorkerGate`, `_stop` | *refuted:* a graceful stop cancels the run | |
| `gate_pause` | `WorkerGate`, `_pause` | *refuted:* a pause stands until the operator resumes | |
| `inputs` | `MCInputs`, `_budget` | byte budget, reservations, packages of live jobs | 2 uploads, packages of 1 and 2 bytes, 4 bytes, 3 files, 2 jobs |
| `inputs_count` | `MCInputs`, `_count` | *refuted:* the directory holds at most `FileLimit` packages | 1 file |
| `execution` | `MCRunner`, `_execution` | what passes recorded all its sessions wrote, in order, nothing runs unannounced, packages and results are kept, a job ends | 5 plans of 1 or 2 jobs, 2 rounds, 1 unread line, 1 misbehaviour per use, 2 packages, 1 snapshot |
| `execution_fault` | `MCRunner`, `_fault` | *refuted:* a record that nobody asked for fails the step | as `execution` |
| `setup` | `Setup`, `_setup` | the journal goes last, foreign things stay, the service is whole, provisioning can be undone, jobs that the scripts see find one version | none needed: the state is finite |

Why the bounds are enough: three jobs are the fewest with which a queue that is full, a job that runs and a job that is over
exist at once; two projects let a claim skip the oldest job; two ticks separate a lease that is renewed from one that is
about to end, three leave room for a worker's own limit strictly inside. Two workers with a single job would hide an
overlap under a *second* lease, so `exclusive` has two of each. There the ways a run can end are reduced to crashes,
which leave a run's request behind at the worst moment; `delivery` has all endings, with the one worker that can hold the
lease. One late request is enough to be handled after everything its sender did since. A limit of three files and of four bytes
is reached by two uploads with a file left by a crash. Two events and a queue of one let a chunk hold two events or one of them
be dropped, and pages of one split what is there. Two rounds are one in each order, AB and BA; one unread line (64 in the code)
lets a single unasked record pass the limit; one snapshot (64) makes the cache full, and of the two packages one
has a revision the other lacks, so that lookups meet one, both or none. The plans are those in which steps can interact: a
package that comes, goes and comes again, one that is selected by a later job, a benchmark with a command after it, a training
with a profile after it.

Deadlock is checked where the system never stops. `execution` stops when its plan is done, `setup` when
a killed script leaves what no script accepts again.

What the runs show of the code:

* A worker may claim at once after its lease ran out, and overlap is still impossible, because the clock of a lease starts
  before the request that gets it: counting from the answer instead breaks `ExecutionExclusive` and `RunnerHoldsLease`.
* `finish` accepts what a retry sends, whatever was cancelled in between, and refuses it for a lost lease alone.
* A chunk whose answer was lost is stored once, however late its copies arrive, because the lease thread does not go on
  before it is acknowledged; what a reader printed is never overtaken by a chunk stored behind his cursor.
* A CleanupError raised by the first of two sessions leaves the second unclosed (runner.py:285-287). That is safe: it keeps
  ACTIVE.json and stops the worker, also when it comes from a metadata tool whose other failures are tolerated.
* A comparison that passes has recorded exactly what its sessions wrote: a record too many is still there, in the pipe or among
  the unread lines, when the session is believed to be at its end, and fails the step then (process.py:136-144). Only a record that *replaces* an answer passes.
* A package that was reported as installed is selectable until a job revokes it, through every kill of publication, which is one
  rename. A removal that was cut short is the one thing that leaves a package without some of its files. If the receipt is among
  what went, a provision of the package raises until it is revoked again; if not, the package counts as installed.
* `prune-worker` deletes nothing the server has not got: torn receipts raise, and those with an artifact error stay.
* Both installers can be killed anywhere and rolled back, and nothing of others goes but what Debian's rollback takes for its own. Only a directory made just before the kill, and not in the journal yet, is
  left behind, by Debian's (debian/install.py:181-184). A reboot in the middle of a rollback never starts the
  service on a part, because it is disabled first, if `systemctl disable` works.
* A rollback of a provisioning can itself be killed and repeated without losing an original, because it takes from the backup only what is
  there. PAUSED keeps a half provisioned worker from taking jobs, all but the one it was about to start.
* Between the updater's drain and its end nothing runs, because the worker looks at PAUSED *again* after its claim. That launchd's
  worker never executes on half of an update is not the lock's doing, which it asks for after it has read its program: launchd has
  no job while files are replaced, and PAUSED stands as long as they are mixed.

### Where documents and code differ

* `gate_stop` — README.md:186 says that graceful termination cancels the process groups. A SIGTERM after the look at
  worker.py:315 and before line 226 sets the stop flag only: the job starts and runs to its end, or to launchd's SIGKILL.
* `gate_pause` — README.md:186 says that pause stops new claims. PAUSED has one bit and two owners: an updater that recorded
  `was_paused = False` removes the file at its end (deploy/update.py:107) though an operator paused meanwhile.
* `inputs_count` — docs/self-service-provisioning.md:42 allows 1,000 files. The count is looked at before the
  file exists, and unlike bytes it is not reserved (server.py:109).
* `execution_fault` — docs/jobs.md:94 says that each request must produce one record and that extra unsolicited records fail the job.
  `request` looks only at the lines that have been read (process.py:119). A record written before the request and still in the
  pipe is taken for the answer, and if the session says nothing more, the numbers agree at the end and the job succeeds.

Met on the way, without a run of their own; where a property excepts such a case, its comment names it:

* docs/api.md:26 says that a key returns the original job, terminal jobs included. `prune` deletes the row and its key (store.py:190):
  later the same key starts a second job (`KeysDistinct` is about stored rows).
* A revocation cut by a kill may leave a snapshot without some files and with its receipt; a later provision returns that receipt as it is
  (sources.py:175-176), although docs/self-service-provisioning.md:28 says that a retry verifies the snapshot, and lookup may
  select the package (`SnapshotsSound`, `Unfinished`).
* Provisioning and its rollback look at ACTIVE.json once (provision.py:132-134). A worker that had looked at PAUSED (worker.py:315) and
  not yet written the marker (223) then runs its job on files that are being replaced, although docs/macos-provisioning.md:80 says that an
  active job is refused (`ActiveConsistent`).
* A worker that somebody starts by hand during an update may have read half of each version when it gets the lock, and, resumed, executes
  on it: the lock guards what comes after it (`NoMixedCode`). `update_module.py:92` looks at ACTIVE.json once, without a wait, before it restarts the worker.
* docs/debian-setup.md:138-139 says that rollback refuses replaced identities. It deletes a client directory that replaced the one apply made if
  there is no `installation-id` in it (debian/install.py:280-284, 306-308), and a group that has the number of the installation's (263-265): `ForeignKept`.
* `systemctl disable` may fail unnoticed there (285), and a boot may then start a service whose account is gone (`ServiceWhole`).
* PAUSED created while a claim waits at the server does not keep a job queued later from being claimed and then finished as
  cancelled (worker.py:315-317). An update refused because of an active job leaves PAUSED, and the retry then records `was_paused = True`.
* `logs --follow` asks for the status after the records, and misses chunks appended between the two (cli.py:185-193).
* A rollback of a provisioning that is repeated after it restored the configuration is refused as "configuration changed"
  (provision.py:233-234), and a save that is interrupted leaves a `receipt.json.new` that blocks every later one (provision.py:64): in both cases
  the worker stays paused with its originals in place or in the backup. A kill between the making of the base directory and the
  first journal leaves a directory that preflight refuses and rollback cannot read.

## 5. Fairness

* `FairSpec` of `Store`: time passes, and somebody's transactions keep happening. The least of them is a claim that finds
  nothing for its projects, which workers repeat in their main loop (worker.py:298-326) and the server repeats each second of a
  long poll (server.py:174-181). No fairness of a claim that would *take* the job is assumed.
* `FairSys` of `MacQueue`: the clock; a poll of the queue by anybody (`cli.py` wait, the dashboard); per worker, a claim ends (client timeout),
  the lease thread sends heartbeats and their requests end, the watchdog looks, a run whose cancel event is set ends (the
  runner looks at it in every wait, process.py:58), and `retry` gives up after its 90 s. Nothing is assumed of submitters,
  of deliveries or of the network. `JobsEnd` also needs `TimeLimits`: a run ends by `timeout_seconds` if by nothing else.
* `FairStreamSpec` of `LogStream`: as `FairSpec` of `Store`, for `EveryJobLeavesQueue`. Nothing is assumed of the log itself.
* `FairSpec` of `Runner`: the worker's own code goes on (`RunnerStep`). A pump waits 0.1 s at a time and looks at the deadline and the
  cancel event each time (process.py:64-66), a close waits for at most 5.6 s, and downloads and requests have timeouts. Nothing is
  assumed of the children: `RunEnds` holds for children that never write, never end or never stop.
* `FairSpec` of `WorkerGate`: the main thread goes on, and a run ends. Nothing is assumed of the operator, of launchd or of the updater.

## 6. What is proved

Every theorem holds for all values of the constants that satisfy the assumptions named in the modules: any jobs, workers, keys, packages,
plans, rounds, events, sizes, limits and times. The runs check the same invariants on small instances; the inductive ones
below were model-checked there too, before they were proved.

| module | theorem | says |
| --- | --- | --- |
| `StoreProofs` | `TypeCorrect` | `Spec => []TypeOK` |
| | `OneActiveHolds` | at most one job is running or being cancelled |
| | `SucceededHasArtifactHolds` | success comes with an artifact |
| | `TokensAndKeysDistinct` | no two rows share a token, no two stored rows a key |
| | `OutcomeIsFinalHolds`, `CancelWinsHolds`, `LateHolderRefusedHolds`, `HandedOutOnceHolds` | the action properties of the same names |
| | `LogExactHolds` | a log is the chunks sent, each once, of the size counted beside it, within the limit |
| | `StoreImplementsLifecycle` | `Store` implements `JobLifecycle` |
| `MacQueueProofs` | `SysTypeCorrect` | `SysSpec => []SysTypeOK` |
| | `RunnerHoldsLeaseHolds` | who executes a job holds the lease on record, and nothing has been reported |
| | `ExecutionExclusiveHolds` | no two executions overlap |
| | `CompletionAcceptedHolds` | a completion is refused for a lost lease alone |
| | `MacQueueImplementsStore` | workers, handlers and network do to the table only what `Store` allows |
| `LogStreamProofs` | `PreviewInOrderHolds` | a reader sees a live log in order, each event once |
| | `StreamIsStore` | `LogStream` does to the table only what `Store` allows |
| `InputsProofs` | `InputsTypeCorrect`, `ReservedExactHolds` | types; what is reserved is the sum over the uploads under way |
| | `DiskWithinBudgetHolds` | the packages on disk never exceed the limit |
| | `LiveInputStaysHolds` | prune never takes a package from a job that waits for it or uses it |
| `RunnerProofs` | `RowsPairedHolds` | what passes recorded all that its sessions wrote, in order |
| | `NoSurvivorHolds` | surviving processes are announced, and no children of two uses run together |
| | `SnapshotsSoundHolds`, `ResultsKeptHolds` | packages reported as installed are selectable, and whole but for unfinished revocations; results not yet sent are kept |
| `WorkerGateProofs` | `GateTypeCorrect`, `MarkedWhileAliveHolds`, `UpdateQuietHolds`, `NoMixedCodeHolds`, `OneJobsProcessesHolds` | the safety properties of `gate` |
| `SetupProofs` | `ServiceWholeHolds`, `BaseLastHolds`, `ForeignKeptHolds` | the service never runs on a part unless it could not be disabled; the base, with the journal, goes last; what others own stays but for what is taken for ours |
| | `OriginalsKeptHolds`, `ActiveConsistentHolds` | originals are in place or in the backup; a worker that may take jobs, or has one that was not missed, finds one version |

### The invariants, and why they are needed

**Store.** `IInv == TypeOK /\ RowsOK /\ OneActive /\ LeasesDistinct /\ KeysDistinct`. The safety
properties are not inductive alone: that success has an artifact needs that a row's artifact is never taken back while it
is active, that a token is never shared needs that tokens in rows have been drawn, and the lifecycle needs that a job
in work has no result yet. `RowsOK` says per status what the other columns hold. A transaction changes every row by at most its
reap and one row by more, so the proof has two layers: `RowMove(r, s)` lists what a step may make of a single row, each
operation is shown to make only such moves and to keep `IInv` (`SubmitStep` ... `TickStep`, `NextStep`), and
the action properties and the refinement follow from `RowMove` row by row.

**MacQueue.** `SysIInv` adds to `IInv` and `SysTypeOK` the way of a lease through the system. It is offered in one
reply or held by one worker (`OneHolder`), and requests and replies belong to the modes that wait for them (`Awaiting`,
`Answering`). No completion exists while the run or its uploads go on (`NotReportedYet`), and all completions
under a lease agree (`ReportsAgree`). The clock is an inequality (`LeaseRuns`): for a worker that runs, a claim's reply and a heartbeat's reply on their way,
what is left of the lease in the table is at least `LeaseTime` minus the age the worker reckons with, or will when it reads the reply; with `LocalLimit + StopTime < LeaseTime` that leaves the row active while a run is alive. Exclusion then follows from the *store's*
`OneActive`: two executions would hold two active rows. The refinement cites each transaction of `Store` from the action of
the composition that calls it.

**LogStream.** `StreamInv` relates four places an event may be: the queue, the chunk that is being sent, requests late in the network,
and the table. No request is ahead of the chunk being sent, and one that carries its number *is* that chunk
(`NetOK`); the table holds all chunks before it, perhaps it, and none behind it (`TableOK`). So a chunk that arrives again, however late,
changes nothing, and what a reader still lacks comes after all that he has printed (`ReaderOK`).

**Inputs.** `LiveInputStays` needs that the names prune has read include those of all live jobs, which holds because it deletes
only rows of jobs that are over, and nothing is submitted meanwhile. The budget is not inductive as an admission states it, for
the bytes listed and those reserved may together exceed the limit afterwards: a package is in both from its filling until its release.
`BudgetIInv` counts instead a *charge* per upload, what it reserved and has not yet stored, and says that charges and
stored bytes fit into the limit. Both are sums over sets. `SumTheorems` proves what such a sum is when one value changes, is added or
taken away, from the fold it is defined by; where induction would be needed it takes a smallest counterexample among the subsets
of a finite set (`SmallestSubset`), and the recursive function inside the fold is shown to exist by counting units.

**Sessions, Runner.** What was taken from a child, what is kept unread and what is in its pipe make one stream, and that is what the
child ever said (`StreamOK`): nothing is lost and nothing overtakes. Bytes without an end are its last and never become a record
(`CutIsLast`). A recorded row is what its child said in that place (`Paired`, `RowsOK`), whatever it was meant for; and a use that
passes has drained every child (`EndOK`, `FinishedOK`), so that nothing more was said, which is `RowsPaired`. `RunnerInv` adds who is announced
by the marker (`Announced`), that children run for the job's present step (`UseOK`), where the job is in its plan (`PlanOK`), what the cache
owes to the jobs before (`SnapOK`) and what receipts say of the server (`KeptOK`). Of the cache, a promised package has its receipt and what
has a receipt has files (`Promised`), and files are missing only under an unfinished revocation (`CutsOK`): a revocation that reports
success has come past the removal, and one that is claimed makes no earlier one finished.

**WorkerGate, Setup** have no constants, and TLC visits all their states; the proofs add the reason. `GateInv` has PAUSED standing from the
drain to the end of an update and as long as files are mixed (`DrainOK`, `MixedOK`), launchd without the worker's job while files are
replaced, so that what its worker has read before the lock is what is installed (`LoadedOK`), the lock with the worker or the updater
(`LockOK`), and the marker from before a run until its cleanup is confirmed (`MarkerOK`, `AliveOK`). `SetupInv` says of each of the four
scripts what is true before each of its steps (`ApplyOK`, `RollbackOK`, `AppliedTo`, `RestoredTo`), so that it may be killed there: what is
enabled has its account, or is stuck until the link is gone (`ServiceOK`), at most one directory is not in Debian's journal (`TrackedOK`),
what is not in its place is in the backup and the receipt knows what was moved there (`BackupOK`), and PAUSED is absent, or a job that
the scripts did not miss present, only when no script is on its way, or has not looked yet, and all is of one version (`PausedOK`).

### Model-checked only

* Everything under fairness (`EveryJobLeavesQueue`, `CancelStopsRun`, `JobsEnd`, `StopEnds`, `RunEnds`): liveness and ENABLED are out of the prover's reach.
* The refuted properties, which are counterexamples: `ExtraFails`, `GracefulStopCancels`, `PauseStands`, `PackagesWithinLimit`.

## 7. What is not modelled, and the plan

Next, in this order:

1. `ArtifactFiles`: the archive's file beside its row: publication, prune, crashes between file and commit, downloads.
2. The long poll of `server.py` beside PAUSED, and `update_module.py` beside `WorkerGate`.
3. The log poll and merge of the dashboard's job page, as a second reader of `LogStream`.

Not modelled: the archive's file (item 1); `update_module.py`, a predecessor of `update.py`; staging of a provisioning
(`provision.py` prepare) and building of a package (`source_build.py`), which work in directories of their own and can be thrown away;
smoke tests and probes of `deploy/`, which look and change nothing.

Left out for good: validation of configuration, specs and archive members (no state), authentication and parsing of requests, the sandbox profile,
the properties of accounts and system services set up by the installers, rendering and header rules of the dashboard.
