# Almond Cloud in TLA+

TLA+ models of the parts of Almond Cloud (`thingengine-platform-cloud`) in which
processes, transactions and timers interleave, the TLC configurations that
check them, and TLAPS proofs of the properties that matter most. Paths are
relative to the root of the repository (`src/` below is its `src/`, `go/` its
`go/`); PROJECT.json gives the lines of code each definition stands for.

## 1. The system

| Component | Code | State | Operations | Module |
|---|---|---|---|---|
| Training controller | `src/training/daemon.js`, `training_job.js`, `job_specs.js`, `src/model/training_job.ts` | table `training_jobs`; `_currentJobs`; Job objects; callbacks and transactions in flight | schedule or merge a job, start, run, complete, kill, recover | `TrainingDaemon` |
| Files of a training job | `job_specs.js`, `run-training-task.js`, `tasks/` | directories, model versions, metrics | prepare, train, evaluate, upload, commit | `JobFiles` |
| Dataset tasks | `tasks/update-dataset.js`, `lib/dataset_generator.js` | generated and learnt sentences, exact match file | clear, generate, mark obsolete, export | `TrainingTasks` |
| Kubernetes training backend | `backends/kubernetes.js` | watched jobs, tries left, a watch | create, list, watch, reconnect, delete | `TrainingBackend` |
| Engine manager and workers | `src/almond/enginemanager.ts`, `worker.ts`, `src/util/lock.ts` | `_engines`, `_processes`, `_locks`, children, timers | start, kill, restart, delete a user, clear a cache, send a socket, kill all, stop | `EngineManager`, `UserMutex` |
| Engine manager client | `enginemanagerclient.ts`, `enginemanagerclient_k8s.ts` | cached engines, control sockets | get an engine, clear, reconnect | `EngineClient` |
| Almond on Kubernetes | `user_k8s.ts`, `worker_k8s.ts`, `go/k8s/` | User resources, queue, tables of the workers | reconcile, run, kill, advance and fail an engine | `UserController` |
| Conversations | `src/routes/my_conversation.ts`, `browser/conversation.js` | websockets, outputs, history, the chat | connect, say, close, reconnect | `Conversation` |
| Recording | `src/routes/my_recording.ts`, `browser/conversation.js` | recording mode, checkbox, requests under way | start, stop, ask | `Recording` |
| Apps and notifications | `src/almond/engine.ts`, `src/routes/my_api.ts` | apps of an engine | create, delete, unsubscribe | `Apps` |
| Google Assistant bridge | `src/routes/bridges/gassistant/` | delegates, reply buffer | turns, sign-in | `GAssistant` |
| Cloud sync | `src/routes/cloud-sync.ts`, `src/almond/platform.ts` | buffer, remote, websocket | relay, flush, close | `CloudSync` |
| Preferences | `src/almond/preferences.ts` | cache, flushes under way | set, delete, flush, init | `Preferences` |
| Database proxy | `go/dbproxy/`, `go/sql/` | journalled tables of each user | insert, delete, replace, synchronize | `SyncTable` |
| Database access | `src/util/db.ts` | pool of connections | lease, transaction, rollback, stream | `DBPool` |
| NLP server | `src/nlp/` | models, predictors, exact matcher | load, reload, query, learn | `NLPServer` |
| NLP replicas | `src/nlp/proxy.ts` | list of replicas | fan out a request | `Fanout` |
| Speech | `src/nlp/voice/` | recognizer, audio stream | start, recognize, stop | `SpeechStream` |
| Thingpedia | `src/model/device.ts`, `schema.ts`, `src/util/import_device.ts`, `validation.ts`, `src/routes/thingpedia_*.ts` | versions of devices and schemas, packages, translations, snapshots | upload, approve, unapprove, delete, translate, snapshot | `Thingpedia` |
| Thingpedia API | `src/routes/thingpedia_api.ts`, `src/util/thingpedia-client.ts` | none | every query, for every kind of reader | `ThingpediaApi` |
| Commandpedia | `src/model/example.ts`, `src/routes/thingpedia_examples.ts` | examples, likes | save a dataset, like, unlike, delete | `Commandpedia` |
| Command trainer | `browser/deps/new-command.js` | the form | edit, predict, accept, submit | `CommandTrainer` |
| Strings and entities | `src/util/upload_dataset.ts`, `src/model/strings.ts`, `entity.ts` | values, pipelines in progress | upload, fail, commit | `Lexicon` |
| Accounts | `src/model/user.ts`, `src/routes/user.ts`, `src/util/passport.ts` | users, sessions, mailed tokens | register, log in, second factor, recover, delete | `Accounts` |
| Organizations | `src/routes/developer_console.ts`, `admin.ts`, `src/model/organization.ts` | members, invitations, engines' keys | found, invite, accept, promote, remove | `Organizations` |
| OAuth2 | `src/util/oauth2.ts`, `src/routes/my_oauth2.ts` | clients, permissions, tokens | authorize, exchange, refresh, revoke | `OAuth2` |
| MTurk | `src/routes/mturk.ts`, `developer_mturk.ts`, `src/model/mturk.ts` | batches, paraphrases, votes | create, submit, validate, close | `MTurk` |
| Datagram framing | `src/util/json_datagram_socket.ts` | partial buffer | write, split, read | `Framing` |

How they interact. A device upload in Thingpedia posts a request to the training
controller, which runs jobs on a backend; their tasks read and write the dataset,
to which users add with the command trainer, learnt sentences and MTurk; a job
publishes a new model version in the database and asks the NLP server, through
the fan-out to its replicas, to reload it. The website calls the engine
manager through the control socket of the master (or creates User resources that the
operator reconciles); the master runs the engines of users in worker processes,
some shared and some dedicated, and hears of their end by RPC answers and by
the `disconnect` and `exit` events of the child process. Engines keep their
devices and preferences in the database proxy, follow them with `SyncAt`, and
reach users through websockets (conversations, cloud sync) and bridges. Changes of
membership restart the engines that carry the key of an organization.

What is hard here, and what makes each part correct:

* the controller's memory and its table change at different moments. At most one
  job of a type runs, nothing runs before its dependency succeeded, failures
  reach the dependents, killed jobs do not succeed, every job ends;
* the engine manager is a set of promise chains cut at every `await`, with
  three kinds of timers and processes that die in between. A user has one
  engine, the manager knows it, a dead worker is noticed, and calls return. The
  last two are true in part only (section 5);
* the proxy's transactions read a snapshot and write later, with times that are in
  no order with their commits. A newer record is not replaced by an older one, and a
  replica misses no change, as far as that order allows;
* an upload to Thingpedia reads, stores a package and writes in one transaction
  that may fail at the end. Readers see approved code only, the rows of a
  device agree, snapshots do not change, and only an approval approves (section 5);
* requests of the website check what they read before their transaction, or
  are two statements without one. Access that was withdrawn is gone, membership
  stays coherent, counters count;
* caches, close handlers and late answers outlive what they were made for.
  Nothing stale is given out, every message arrives once, and each part
  recovers when what failed comes back.

PROJECT.json lists the hazards, each at its line, with the properties for it.

## 2. Modules

One module for each part, as in the table above. `TrainingDaemonProofs`,
`SyncTableProofs`, `EngineManagerProofs`, `ThingpediaProofs`, `MCAccountsProofs`,
`MCClusterProofs`, `MCLanguageProofs` and `MCMessagingProofs` hold the theorems about the module they
are named after. `MCTrainingDaemon`, `MCEngineManager`,
`MCSyncTable` and `MCThingpedia` are the instances of one system each;
`MCAccounts`, `MCLanguage`, `MCMessaging` and `MCCluster` each instantiate several
modules that share no state: the first state chooses the part, the others stand
still, and a property of the run is a conjunction of the parts' properties on
one theme. Exploring a choice of parts and not their product loses nothing, since the parts
have no variable in common.

A module that is instantiated this way names its specification with a prefix
(`NInit`, `NNext`, `NTypeOK`) and comments each conjunct where it defines it.
Operators with the suffix `_Mut`, or with a suffix that names the slip, are
plausible mistakes in the definition that follows them. PROJECT.json lists one for
each property of a run; the others show that the remaining conjuncts of these
properties are sensitive in the same way (each of them, put in the place of
its definition, makes TLC report the property of its part).

### TrainingDaemon

Every `db.withTransaction` body is one action: these transactions are
serializable and select their rows `for update`. Everything between two awaits
of the daemon is one action as well. `rows` is the table with its devices,
`current` is `_currentJobs`, `job` the Job objects with the step they are at,
`immediates` the pending `_startAll` callbacks, and `txns` the `_startNextJob`
transactions that have looked at `_currentJobs` and not at the table yet.

`ScheduleJob` is `scheduleJob` with `_queueOrMergeJob` for the dataset job and
for each affected model, in one transaction, and `RejectJob` the requests whose
merge fails. `StartNextJob` is the second half of `_startNextJob`, `BeginTask`,
`TaskSpawned`, `TaskDone` and `TaskFailed` the loop of `_doRun`,
`RecordCompletion` the transaction of `jobComplete` (failing dependents or
releasing them), `CompletionFails` that transaction failing, `KillCurrentJob`
and `KillOtherJob` the two halves of `killJob`, `Crash` and `CheckExistingJobs`
the death and the start of the daemon. `madeWith`, `succeeded` and `asked` are
history variables for the properties.

Left out: the `config` column and its merge (`daemon.js` 190-191), progress
reports, metrics and mail, and what the tasks compute.

### EngineManager

A *task* is a promise chain: an operation that came over the control socket, the
start of a user at boot, or the restart 10 s after the death of its worker. It
has a plan of awaited stages (kill, rm, start, send). `lockTail` and the `prev`
of a task are the chain of promises of `Lock`. A child is a worker with its
engines, the calls sent to it, its answers, and the events node still has to
deliver; a process is an `EngineProcess` object, which may outlive several
children. A dead child delivers `disconnect` and `exit`, in either order and at
any moment. Calls in flight to it are *lost*: `CallFails` lets one fail, as the comment at
`enginemanager.ts` 182-183 has it, but nothing in the code ends the socket of a dead worker
(45-67, 230-235, 351-375), so this need never happen. A lost call leaves its operation
waiting, with the lock of the user.

Choices that follow the source and are easy to miss:

* `'ready'` wakes all tasks that wait for a process in one step, since their
  continuations are microtasks of one event;
* the 5 s before a shared process restarts is longer than signing a token
  takes (`StartAgain`'s last guard); the 10 s timers have no such guard;
* `StartStage` reads the user's row and picks the process in one step (584-590 and
  `_runUser`). The worker is chosen after the read and the user's lock is held; what this
  leaves out is a read that fails, and a row that is deleted between the two;
* a shared worker that dies before it is ready rejects its promise. The rejection is
  handled when a task waits for the process or waited for its restart (`heard`); otherwise,
  and when the task is the restart of a timer, which has no `catch`, it ends the master;
* with `EarlyCalls` FALSE the website calls after `start()` has started the
  users, because `_runUser` takes no lock at boot. With TRUE `SingleEngine` and
  `LiveEngineKnown` do not hold;
* a rejected promise that nobody handles ends the master (`main.ts`): `up`.

### SyncTable

A request is one transaction at MySQL's default level, repeatable read. `Begin` is
everything it reads and decides, `Commit` everything it writes, and rows it
writes are those that are there at that moment. `BeginSyncAt` reads the changes
and the latest time before it looks at what was pushed, as `SyncAt` does. The
replica (outside the repository) keeps the `lastModified` it was answered and overlays the
changes; it may stop waiting (`GiveUp`) while its transaction goes on. A
missing row and a row with an empty state read alike in the left outer join and
are one value. Nothing keeps the times of what commits in order: `late` records the
keys whose last change was committed with a time the replica had reached, and `overtaken`
the keys that another request wrote after a request had looked at the journal. The key of the user is left out, since every statement
restricts to one user. Two changes to the same key in one push amount to the
last one that is written, so a push is a function on keys.

### The other modules

Conventions they share: a transaction is one action when the code locks or
reads everything in it (`withTransaction` is serializable by default, `db.ts`
198); a handler is cut where it awaits something that others can come between,
and carries in its state what it read before; a
library (RPC, Kubernetes, the speech SDK, Genie) is what the code sees of it,
marked external in the map. History variables exist for the exceptions of a
property, and are named in its comment.

* `Thingpedia`, `ThingpediaApi`. `UploadDevice` has three steps: read and
  validate, write under the row locks and store the package, commit or fail.
  Approval, deletion, translation and snapshots are one transaction each, and the bootstrap
  precedes the website. `blessed` records what was ever approved. A package may be asked for
  with a version. Every query
  is an operator over the tables with the reader's organization, every endpoint one over the queries.
* `Accounts`. A session has a user and `completed2fa`; `proof` is what the
  browser showed. Mailed tokens are a set; one may be used late, twice, or by
  another browser.
* `Organizations`. A request holds the user row it read until its transaction, and
  restarts an engine afterwards, if the website lives that long.
* `OAuth2`. Codes (ten minutes, any number of times), refresh tokens (for ever) and access
  tokens (one hour) are signed; only a refresh looks whether the permission is still in the
  database. `access` is what an application can use now.
* `NLPServer`. A reload is begin, downloaded, finish; loads, queries and other
  reloads come between. `Fanout` is the layer before it.
* `JobFiles`, `TrainingTasks`. Tasks may be evicted (SIGTERM ends them with status
  0), fail or be killed at each step.
* `Lexicon`. The pipeline parser, transformer, writer with rows in flight; each
  stage can fail, and the transaction ends when the writer has finished or failed.
* `Commandpedia`. The two statements of a vote are two actions. `MTurk`: the submissions
  and validations of a batch; `CommandTrainer`: the form with its predictions under way.
* `EngineClient`, `UserController`. Connections and engines have identities, so
  that handlers of an old one can hurt a new one, as in the code.
* `Conversation`. Page, websocket handlers, outputs in the engine and the history
  with which a reconnection starts. `Recording`: requests and answers of two pages, with the
  question whether the user was warned, to which the answer is always yes.
* `TrainingBackend`. Runs of `_watchJobs` overlap when both the end and an
  error of a watch start a new one, and a list that fails ends the daemon (`ListFails`). `SpeechStream`: events of the recognizer against audio.
* `Framing` compares what the reader emits with what was written, for any split of
  the bytes. `CloudSync`, `Preferences`, `GAssistant`, `Apps`, `DBPool`: one action
  for each handler or await. `Apps` has the engine of a user and one anonymous engine for
  each language (`util/user.ts` 296-305).

## 3. Runs

| Run | Instance | Shows |
|---|---|---|
| `training` | 1 model of all approved devices, 2 devices, 4 templates, 2 requests, 1 crash, 1 failed transaction, 2 transactions in flight; 2 M states | the safety of the queue and of the Job objects |
| `training_live` | 2 uploads, fairness | every queued job ends |
| `engines` | 2 users in 1 shared worker, 2 calls (kill, restart without cache), 1 crash; 1 M states | locks refine `UserMutex`; one engine for a user; `_engines` agrees with the workers; the cache is removed while nothing runs |
| `engines_ops` | a shared and a dedicated user, 2 of the six other operations, 2 overruns of the 30 s; 0.1 M states | one engine; a deleted user stays down |
| `engines_live` | 1 user, 1 shared worker started up to 3 times, 2 restarts, stop, 2 crashes, fairness; 0.2 M states | the first death of a process is noticed; users come back and calls return, but for the cases of section 5; `stop()` ends |
| `engines_second_crash` | 1 user, no calls, 2 crashes | violation, section 5 |
| `sync` | 2 keys, times 1 and 2, 2 requests at once, pushes of at most 1 record; 2.8 M states up to symmetry of keys | the replica misses no change that is not late; the newer record wins unless it was overtaken |
| `thingpedia` | 2 kinds, a developer and a trusted developer of one organization, a member of another, an admin, versions 0 and 1, 2 uploads at once, 1 snapshot; 0.3 M states | the endpoints named in `NoUnapprovedCode` give approved code only; rows agree; snapshots do not change |
| `accounts` | 2 users, 2 browsers, 1 Google and 1 GitHub identity; 2 members, 1 organization, 2 requests at once; 2 applications (one that is granted without asking), 1 owner, 2 scopes, 4 tokens; 1.2 M states up to symmetry | a second factor is needed; kept refresh tokens give nothing after a revocation; membership is coherent |
| `language` | 1 model tag, 2 reloads, 1 query, 3 predictors; 2 voters and votes, 4 datasets; 2 uploads of 2 bad files by 2 users; 4 MTurk workers, 5 rows; 2 devices; 2 jobs of 2 versions; 2 sentences, 7 edits; 1 M states | served models are whole, datasets current, shared rows exact |
| `messaging` | 2 pages, 4 clicks; 2 apps, 2 handlers, 2 addresses, anonymous engines of 2 languages; 2 turns, 3 messages said; 2 keys, 2 values, 3 flushes, 1 restart; 4 messages framed, 4 synchronized; 4 connections, limit 2, 3 clients; 3 replicas, 2 requests; 3.8 M states | messages arrive once; clicks and unsubscriptions hold |
| `cluster` | 3 sockets, 2 deaths of the manager; 1 user, 2 workers, 3 engines, 1 fault, 3 calls; 3 websockets, 2 messages, 1 death; 2 jobs, 3 watches, 2 tries, 2 drops; 4 packets of audio; 0.15 M states, fairness | failures are contained and each part recovers |

Why the bounds are enough for the cases that matter: two requests merge or
depend on one another, and two transactions in flight are what it takes for a
type to be started twice; one crash and one failed transaction meet every step
of both jobs. Two users share a worker, so that the kill of one can hurt the other;
two calls and the tasks of a crash contend for one lock; a second child makes
late events of the first one possible, a third one the second death of a process. Two slots make one transaction commit
between the reads and the writes of another; two times, with the 0 of a new replica, let a
change fall between the cursor and the latest time, come late, and be older than another. In the other runs there are two of
everything that can overlap (uploads, votes, reloads, jobs, handlers, pages,
turns, browsers) and one more identity than can be alive at once (sockets,
engines, predictors, websockets, watches), so that a late event of an old one
meets a new one. MTurk needs four workers for two validators of two sentences
by different people; a pool of limit two needs three clients for one to wait.

Deadlock is not checked where a system with nothing to do, or with its bounds used
up, may stop; `training`, `training_live`, `sync` and `thingpedia` check it.

`NoDeadEntry` is stated for processes that lost one worker, in a run with two crashes.
`RemovedWhileStopped` and `NoDeadEntry` are stated over engines and children,
not over what the master believes, so a late answer or event can break them.
They and `LiveEngineKnown` are checked without dedicated processes and
`killAllUsers`, with which they do not hold (section 5).

## 4. Fairness

`training_live`: weak fairness of `setImmediate` callbacks (the event loop runs),
of transactions in flight (the database answers), of the progress of a Job
object (tasks end; the code has no timeout for them), and of the restart of the
daemon (systemd restarts it). Nothing else is fair: no request need come and
nothing need be killed.

`engines_live`: weak fairness of the stages of tasks, of the steps of children
(a worker handles its calls, answers them, and dies when told to; node delivers
its events), and of timers. Calls, crashes, and the failure of a call that its worker died on
are not fair: nothing in the code brings that failure about.

`cluster`: each part has its own fairness, and `Fairness` asks for that of the
part that was chosen. Client: attempts to connect are decided, reconnection
timers fire, closed sockets are reported, and a manager that died is started again (systemd).
Operator: weak for the requeue timers, the steps of a reconciliation and the promise
chains of engines; strong for taking a user from the work queue, which is a FIFO served by one
goroutine, so that other users and backends that come and go cannot starve it.
Chat: the timers and handlers of the page, those of the website, and the restart of
an engine by its manager. Training backend: Kubernetes answers a list, with the jobs or with an
error, and delivers events, and the daemon waits for a task it created. Speech: the timers fire and the SDK calls
its callbacks. Faults, calls and what users do are never fair.

## 5. Disagreements between the code and what it says

The run `engines_second_crash` shows one of them:

* `engines_second_crash`: "if the process died, some user might have been killed as a side
  effect" (`src/almond/enginemanager.ts` 475), but `_hadExit` (352, 371) is never reset: the second
  death of a shared process goes unnoticed, its users stay in `_engines` and no timer is set.

The following are stated by the code or its texts and do not hold either. The modules have each as
a definition that no run checks; added to the cfg of the run in parentheses, as an INVARIANT
where nothing else is said, TLC finds the counterexample in seconds.

* `TranslateHidden` (`thingpedia`): "pretend the device does not exist if it is not
  visible" (`src/routes/thingpedia_translate.ts` 141). The test of line 136 is
  inverted, so users who may not see a device do not get to line 142: they have no English
  rows (132), the route fails on that (163), and they get an error page. The admins, who may see
  the device, are told that it is not there.
* `OnlyApprovalsApprove` (`thingpedia`, a PROPERTY): an upload writes the approved version it read at its start
  (`src/util/import_device.ts` 585). An admin unapproves the device meanwhile, and the upload
  approves it again, against "This device is not yet approved for general use"
  (`src/views/thingpedia_device_details.pug` 30). `NoUnapprovedCode` cannot see this: the
  version was approved once.
* `TwoBubbles` (`messaging`): "Google Assistant limits at most 2 chat bubbles per turn"
  (`src/routes/bridges/gassistant/index.ts` 77, 97). Only neighbouring texts are joined: with cards or
  pictures between them there are three.
* `WarnedFirst` (`messaging`, a PROPERTY): "While recording is active, all your commands and all the replies from
  Genie will be stored" (`src/views/my_stuff.pug` 97-107) is a dialog that nobody sees:
  `/me/recording/warned` tests a promise (`src/routes/my_recording.ts` 97) and always says yes.
* `UnsubscribedFromAll` (`messaging`): "unsubscribed %s from all notifications" (`src/routes/my_api.ts` 124).
  There is an anonymous engine for each language, and only that of the request is cleared
  (104; 66 for SMS).
* `DropsRetried` (`cluster`): "we may still see occasional server connection drops. So retrying is
  necessary" (`src/training/backends/kubernetes.js` 97-98). The retry begins with a list; when
  that fails as well, line 78 throws in a promise nobody awaits, and the training daemon ends
  (`main.ts` 27) with all jobs that wait.

Others were found with the same modules. They are part of the models as
the code has them, and the properties are stated for what is left; each comes
back when the instance is enlarged in the way given.

* `makeForAllDevices` names a column the table does not have
  (`src/model/training_job.ts` 64): a request for all devices that should merge with
  a queued job is answered with an error (`RejectJob`).
* a `killEngine` or `runEngine` call in flight to a worker that dies is never answered and never
  fails (`src/almond/enginemanager.ts` 45-67, 182, 351-375). Its operation keeps the lock of the
  user, and all that come after it wait for ever, the restart after 10 s included: `Stuck` in
  `EveryCallReturns` and `Abandoned` in `EveryUserRuns` are these cases. `Abandoned` has the
  second death of a process too.
* `deleteUser` drops a `Lock` others are queued on (`enginemanager.ts` 661): with
  two restarts after a delete, two operations of the user run at once and
  leave two engines.
* the 10 s timer restarts a user that was deleted (477): with a crash in
  `engines_ops`, `DeletedStaysDown` fails. The timer has no `catch` either, and a
  user whose row is gone ends the master (478).
* `clearCache` of a running user sends a kill that nobody awaits
  (`enginemanager.ts` 178, 628). Of two such calls the late answer of the second makes the
  manager forget the engine that a `restartUser` started in between: `LiveEngineKnown` fails
  with three calls in shared workers, and with a `deleteUser` after them, which
  finds nothing to kill, so does `DeletedStaysDown`.
* `killAllUsers` and a restart: the exit of the old shared worker makes the
  manager forget the new engine; `LiveEngineKnown` fails with three calls.
* `startUser` beside a live engine gives two of them; the website asks
  `isRunning` first, without the lock (`src/routes/admin.ts` 138). So do calls during
  the boot (`EarlyCalls`).
* for a dedicated process `killEngine` does not wait, so its folder is removed
  while the engine runs (`enginemanager.ts` 178, 681).
* `insertIfRecent` looks at the journal without a lock (`go/sql/sync_table.go` 136):
  an older change that overlaps a newer one wins, against the test "if not
  recent" (`sync_table_test.go` 357). `RecentWins` excepts the keys on which a request was
  `overtaken` in this way.
* times are taken before the write (`sync_table.go` 288) or come from devices: a change that
  commits with a time that the replica was already sent is never delivered to it.
  `ReplicaFollows` excepts these keys (`late`).
* `getModuleLocation` (`src/util/thingpedia-client.ts` 118-134) gives any version that is asked for
  and is not newer than one the reader may see, also one that was never approved; the
  fuzzy search of Commandpedia (`model/example.ts` 202) has no condition on approval.
  `NoUnapprovedCode` says the former, and leaves out the latter and the translation page.
* a revocation does not reach a code that was issued before it (`src/util/oauth2.ts` 111-160), which
  makes the permission again for as long as it lives, nor access tokens, which are never
  compared with the database (`passport.ts` 239-259). `AccessWithdrawn` counts both as
  agreed to until they expire, and what such a code makes again as agreed to from then on.
* a Kubernetes job that is deleted while the watch is down is never reported,
  and neither is one whose last event came before `wait()` (`kubernetes.js` 93, 187).
* an engine on Kubernetes that fails after it was killed removes the entry of
  its successor (`worker_k8s.ts` 149), and a change of the number of workers leaves
  the old engine running: two engines; a user deleted while its engine starts
  keeps it (`user_controller.go` 137).
* the restart of a removed member comes before the commit (`developer_console.ts`
  195): the new engine reads the old key.
* `unlike` twice at once, or a crash between the statements of a vote, moves
  the counter for good (`model/example.ts` 435); `LikesCounted` excepts these examples (`drift`).
* messages that come while the buffer is being sent overtake it
  (`cloud-sync.ts` 73); the flushes of a preference can land out of order
  (`preferences.ts` 56).
* a websocket that closes while its conversation is being opened leaves its output in
  the engine (`my_conversation.ts` 200); `open = false` comes before `if (open)`, so a
  lost connection never comes back at once (`conversation.js` 317, 322).
* reloads that overlap or fail leave a predictor running or remove a directory twice, and
  a model whose predictor is still starting, or failed to, answers nothing
  (`nlp_model.ts` 205); `NoLeakedPredictor` excepts the models that were `disturbed`.
* an evicted evaluation deploys a model without metrics (`job_specs.js` 143): `ModelsWhole`
  does not check the versions that have none.
* a paraphrase accepted beyond the target stays in training after a rejection
  (`model/mturk.ts` 159), and closing a batch with automatic approval fails (201).
* accepting a result, or submitting, while a prediction is under way teaches
  the sentence with the entities or the code of another (`new-command.js` 91, 251).
* `setTimeout` in `worker.ts` 77 and `worker_k8s.ts` 109 has no delay, so the worker
  exits at once and not after the 10 s of the comment.
* the session of a deleted user makes every request of that browser fail
  (`passport.ts` 235).
* "we only queue at most 1 job per (type, language, tag) tuple" (`daemon.js` 184)
  does not hold: a request with a dependency is never merged (line 171).

## 6. Proofs

TLAPS checks the theorems for every value of the constants that satisfies the
named assumptions of the module. An inductive
invariant was checked by TLC as an invariant of the run before it was proved.

`TrainingDaemonProofs`: the inductive invariant is
`IInv == TypeOK /\ DependencyInv /\ ObjectInv`. The safety properties alone are
not inductive. `DependencyOK` adds that `dependsOn`, while set, is the job the row
was made with and that the row has no object yet, so releasing dependents
happens exactly when the job behind which they queue succeeds. `CurrentOK` adds
that `_currentJobs` only points at running objects of its type, so clearing it in
`jobComplete` does not hide a running job. `OutcomeOK` ties an object that
completes to what it did: published when it is a train job past its last task, an
error when it was killed. From it, each as `Spec => []...`:

* `TypeCorrect`: types;
* `NobodyWaitsForTheEnded`, `RunsAfterItsDependency`, `FailuresCascade` and
  `MergedRequestsCovered`: the four properties of dependencies;
* `OneRunningPerType`, `SuccessIsPublished`, and `KillIsFinal` (an action property);
* `StartedRowsAreWorkedOn` (`NoOrphan`): inductive on top of `IInv`.

`SyncTableProofs`:

* `SyncTypeCorrect`: types;
* `ReplicaIsCurrent` (`ReplicaFollows`), with no assumption on the order of commits. The
  invariant says of a `SyncAt` in progress that its answer, overlaid on the mirror, is
  current for all keys that are not `late` and changed up to its `lastModified`, and
  that there is only one. A commit that reaches back behind an answer makes its keys
  late, and any other cannot invalidate an answer in preparation;
* `OlderWinsOnlyIfOvertaken` (`RecentWins`): the invariant `StillRecent` says that what
  a request decided to write is newer than the journal, but for the keys that were
  written since. It holds with any number of requests at once.

`EngineManagerProofs` has three inductive invariants, `GInv`, `IInv` and `DInv`. `GInv` holds in every instance:
shared and dedicated processes, all operations, calls before the boot,
`killAllUsers`, `stop`, crashes and workers that overrun the 30 s. Its conjuncts:

* `TypeOK`, and `Young`: before the boot there are no tasks, timers and locks;
* `Plans`: what is left of a task's plan is an end of the plan of its operation, and
  the stage it is in is the head of it;
* `Waits` and `WaitsOnce`: a call that a task awaits finds the task in the stage that
  awaits it, and is the only one, wherever the call is (sent, lost or answered). An
  answer therefore never resumes a task that waits for another;
* `Line`: a task that has begun has all tasks of its user ahead of it (`Ahead`)
  done. `deleteUser` drops the Lock, so only tasks with no `deleteUser` before
  them (`First`) are ahead of others. `prev` and `lockTail` need not be a chain for
  this: it is enough that a task ahead is done or not after `prev`.

From it:

* `EnginesTypeCorrect`: types;
* `OperationsEndInTurn`: nothing ends before what is ahead of it;
* `LocksImplementMutex`: the refinement `ImplementsMutex`, while the website does not call
  `deleteUser`; with it the refinement is false (section 5). The
  waiters of `UserMutex` are, for each user, the operations that are not done
  (`Pending`), and their order is that of their numbers, which grow with the calls. An
  operation that ends has begun or was given the lock, so by `Line` all earlier ones of the user
  have ended and it is the holder; a new operation has the largest number, so it is the
  last; the start at boot takes no lock and is not in the queue; every other step
  leaves `Pending` alone.

`OneEngineAtATime` (`SingleEngine`), `LiveEnginesAreKnown` and
`FoldersRemovedWhileStopped` are for any number of users,
processes, calls, crashes and restarts, and assume `SharedOnly`: users share
workers, the website calls after the boot, and it uses `killUser`,
`restartUser`, `restartUserWithoutCache` and `sendSocket`. Those are the operations
that hold the lock of the user and await the worker they kill. Outside it the
properties need a bound on what overlaps or are false: section 5 has
`startUser` beside a live engine, calls during the boot, `deleteUser`, which forgets
the lock, `killAllUsers`, and dedicated processes, for which a kill does not wait. The instances of `MCEngineManager` that satisfy it are checked by TLC
with the same invariant. `IInv` has these conjuncts:

* `Calm`: no worker is told to exit, and nothing happens before the boot;
* `Workers`: the socket of a process leads to its last worker, and a dead one
  runs nothing and reads no calls, so what a new worker does cannot be
  mistaken for what the old one did;
* `Locks`: an operation that has begun has all earlier ones of its user done
  (`OneBegun`), and `lockTail`/`prev` order the operations of a user (`Places`).
  The queue of a user follows from it without a sequence;
* `Awaited` and `OneCall`: a call in a queue, lost or answered is the one its
  task waits for, and there is one. A late answer can therefore not release
  a task that waits for another;
* `Mapped`, `Known`: what runs in a worker is in its map, and `_engines` has
  the one engine that runs or may still start. `Known` is what
  `SingleEngine` and `LiveEngineKnown` follow from, and preserving it is what needs
  the rest: the entry is cleared only by the kill of the user or by the
  death of the worker it is in;
* `Killed`, `Between`: from the answer to a kill until the same task starts
  the user again, no engine of the user is live or starting. This gives
  `RemovedWhileStopped`;
* `BootOver`: the start at boot, which takes no lock, has handed the user
  to the worker before any locked operation of that user exists.

`DeadWorkersAreNoticed` is `NoDeadEntry`, which is about processes that have lost at most
one worker (`DiedOnce`). Its invariant `Noticed`, on top of `IInv`: a process with
`hadExit` has a dead worker that is not its socket, so with one death the socket is a
live worker or none, and a dead worker that is still the socket has both its
`disconnect` and its `exit` to come, one of which clears the entries. Without `DiedOnce`
it is false (`engines_second_crash`).

`DeletedUsersStayDown` is `DeletedStaysDown` for any number of users, workers and calls under
`DeletionOnly`: the operations of `SharedOnly` and `deleteUser`, and workers that live
(`crashes = 0`; a crash sets the timer of section 5). `IInv` is of no use here, since
`deleteUser` gives up the lock that it is built on: the operations that were queued behind a
`deleteUser` can overlap with later ones. The invariant `DInv`, on top of `GInv`:

* `Healthy`: the workers of the boot are alive and nothing is told to exit;
* `Regular`, for all users: a call that runs an engine is awaited and goes to the
  process of its task, the entries of `_engines` are heard by the listeners, and the boot is
  over before the first operation;
* `Orderly`, for each user that nobody asked for again after a `deleteUser`: only the task in
  `_engines` starts or runs; a kill is awaited and is in the worker of the
  entry, and once it is answered, or a task is past its kill (`Past`), nothing starts or runs.

A user is not `AskedAgain` only if every restart of that user comes before the first
`deleteUser`. Such a restart is `First`, so by `Line` no other operation of the user is
half done when it starts the engine (`NoneElse`), and `Orderly` survives although the
later operations have no lock. A `deleteUser` that is done is `Past` its kill for good.

`ThingpediaProofs`: `ThingpediaTypeCorrect`, `DeviceRowsAgree`
(`RowsConsistent`), `NamedEndpointsServeApproved` (`NoUnapprovedCode`) and the action
property `SnapshotsNeverChange`. A device and its schema are changed in one
transaction, but an upload reads its rows before that and stores its file before it
commits, and other requests run in between. `UploadsSound` says what is still true
of the rows it read (`ReadsOld`) and, once it has written, that the version it chose
is free and that the file is its own (`WroteNew`); `OneWriter` says that one such upload
exists for each kind. `CodeKept` (no version is missing) makes the primary key
refuse an upload that read an old row. `Blessings` follows what is approved
into the snapshots. `NoUnapprovedCode` also needs `MetasKept`: the newest
schema has the channels of the newest code.

`MCAccountsProofs`: `AccountsTypeCorrect`, `TwoFactorsAreNeeded` (`SecondFactor`),
`RevokedRefreshGivesNothing` (`AccessWithdrawn`) and `MembershipCoherent`. One invariant for each part. `OAuthInv`: only applications that exist
have tokens or ask questions, and what is permitted was agreed to since the last
revocation, or was in a code or an access token that had not expired then. `AccountsInv`: a session carries the second factor only if the flag
was earned (`FlagEarned`). `OrgInv`: a request in a transaction acts for an
organization that its developer belongs to, and invitations are to organizations
that exist.

`MCClusterProofs`: `ClusterTypeCorrect` and `FailuresDoNoHarm`.
`ControllerInv`: while the number of backends is the same, an engine that was not
stopped is in the table of the backend of its user (`EnginesKnown`).
`ConversationInv`: the messages on a wire are numbered without gaps and start no
later than with the one the chat needs next (`WireOK`), so that what the page shows is
always a prefix of what was said, over any number of reconnections.
`ClientInv`: a cached connection is of its own user and not closed. `TrainingInv`:
events on their way say how their job ended, and who waits is watched for; after a list
that failed nobody waits.
`SpeechInv`: an open websocket has no answer yet, and the push stream is open
until the audio has ended.

`MCLanguageProofs`: `LanguageTyped` (`LanguageTypes`), `ServedModelsAreWhole`
(`ModelsWhole`), `DatasetsStayCurrent` (`DatasetCurrent`) and `RowsStayExact` (`RowsExact`).

* `NLPInv`: a predictor that is stopped, has lost its directory or is going to
  (`Retired`) is not the one of any model, and no two models share one, whatever
  reloads overlap (`ServedApart`, `ReloadsOwn`).
* `JobsInv`: a task that runs has the whole output of the task before it, and one
  upload at a time writes the next version, which nobody serves yet.
* `TasksInv`: what an update read of a device is what is there unless the device was
  uploaded since; `VersionsKnown`: the versions that rows name exist.
* `CrowdInv`: the training flags of a paraphrase were earned by acceptances;
  `VotesInv`: the votes on a paraphrase are those of the workers in the log of its
  HIT, and there are none before the validation starts, which it does once;
  `Numbered`: paraphrases are numbered without gaps.
* `FormInv`: while nothing crossed, one prediction is under way, and its sentence is
  the one of the form.
* `ExamplesInv`: identifiers grow, and a name and a program have one row, so that a
  dataset that is saved again finds it (`SavedKeeps`). `LikesInv`: the counter is the
  likes, less the votes between their two statements (`Tally`); a user
  has one vote under way on an example, which has counted the like it is going to
  delete exactly when the like is there, unless the example drifted.
* `LexiconInv`: what a stream has written, is writing and has still to write is one
  whole file, unless a stage of it failed; a stage ends after the one before it, and
  when the transaction is settled nothing is left in the pipeline
  (`StreamSound`).

Assumed: the missing values are none of the values, the bounds are numbers, a HIT has
at least one row, the datasets are finite and name each example once, files are
sequences of rows, and English is a language.

`MCMessagingProofs`: the three properties of the run, `MessagingTyped`
(`MessagingTypes`), `WhatIsSentIsDelivered` (`Delivered`) and `DecisionsAreKept`
(`UserConsent`); each conjunct of `Delivered` is also a theorem of its own
(`FramesStayWhole`, `SyncIsRelayed`, `RepliesAreFaithful`, `ConnectionsAreClean`,
`PreferencesAreSaved`, `ReplicasHandleOnce`). One invariant for each of the eight parts:

* `RecordingInv`: a request to start that is on its way is of a page that still wants
  it, unless a click crossed.
* `AppsInv`: a handler in its loop knows only apps of its own engine and has deleted
  those it passed (`HandlerSound`), so apps created meanwhile are not taken for old
  ones. `SmallInv`: apps are numbered from one up to the bound.
* `AssistantInv`: while a turn is handled it is an output of its engine and of no
  other, and its delegate holds what that engine said (`TurnSound`). `Sound` says
  how a buffer holds it: the messages are shown at one place each and in order, two
  bubbles never follow one another, an image follows a bubble, and a caption is never
  the last item (`BufferOK`). What remains is that flushing a sound delegate gives a
  faithful reply.
* `PreferencesInv`: the row agrees, or the only request on its way carries what the
  engine reads (`Settled`).
* `FramingInv`: every message is two halves and a newline, so the whole stream is a
  function of the position (`Unit`). What was sent and has not arrived is that stream
  from the position `arrived` on (`OnWire`), `partial` is the half that has arrived
  alone, and `got` is every message whose second half has arrived. The lemmas about
  splitting say where the newlines of any piece of the stream are, and so which messages
  it makes whole.
* `SyncInv`: the messages served and those on their way, as one sequence, are the
  flushed part of the buffer and what came after the buffer closed, each once,
  and the latter in order (`Trace`).
* `DatabaseInv`: who works has its own transaction open on its connection (`Holds`),
  two clients never hold the same one (`Distinct`), and a free connection has no
  transaction (`ClosedWhenFree`).
* `FanoutInv`: a replica has been sent a request as often as it is in the list that
  the request read, and a message on its way is not handled yet (`RequestSound`).

Assumed: `NoConn` and `NoClient` are none of the connections and clients, the anonymous
user is not the user, and the bounds are numbers.

`PublishedBeforeSuccess` (`SuccessIsPublished`) and `TypeOK` of `SyncTable` (`SyncTypeCorrect`) are
proved and in no run; TLC finds no violation of them in `training` and `sync`.

Out of the prover's reach and left to TLC:

* liveness: `EveryJobEnds`, `EveryUserRuns`, `EveryCallReturns`, `StopEnds`, `Recovers`;
* the safety of `EngineManager` outside `SharedOnly` and `DeletionOnly`, that is with dedicated
  processes, `startUser`, `clearCache`, `killAllUsers` and `stop`, and `DeletedStaysDown` for
  users in processes of their own: `engines_ops` checks it on its bounds.

## 7. Not modelled, and what is left

* What the training tasks compute (synthesis, augmentation, neural training), and
  what Genie does with a command: libraries, of which only the outcome matters here.
* The local tables of the proxy (one statement for each operation), the training
  client of the website, the blog, status pages and web proxies: no state, or
  a row that nobody shares.
* `config.ts`, `frontend.ts`, views, the other browser scripts, one-shot scripts, the
  vendored `recorder.js`, `qrcode.js` and `jsonlint.js`.
* The sandbox, which only makes system calls.
* `timed_cache.ts` and `growable_buffer.ts`, which nothing imports.
* Tokens of the control socket, renaming organizations, click counts, Alexa models,
  progress and metrics of jobs.
