# telegram-bridge: a TLA+ verification project

telegram-bridge connects personal Telegram accounts (MTProto user sessions) to
three consumers: a Telegram bot that alerts the account's owner, a web dashboard,
and MCP clients that read chats, have media recognised for money and send
notifications. One Go process, one SQLite database (WAL, four connections), one
directory of media files. Everything that can go wrong slowly goes wrong between
goroutines that share the database: the update handler, the tickers, the bot,
the HTTP handlers, the media workers. This project models those.

Source paths below are relative to `src/`.

## 1. The system and its parts

| component | state it keeps | operations | what is hard |
|---|---|---|---|
| private archive, deletion outbox (`internal/monitor/private_messages.go`, `internal/db/private_messages.go`, `internal/bot/deletions.go`) | `private_dialogs`, `private_messages`, `private_message_deletions`, `private_deletion_alerts(+_messages)` | archive a snapshot, record deletions, seed a dialog from history, prune, flush the outbox, show an alert | snapshots and deletions arrive in any order and from two sources; prune runs between the outbox's reads and writes; a send may fail, or be delivered with its answer lost; a restart at any point |
| private media cache (`internal/privatemedia`, `internal/db/private_media.go`, `internal/monitor/private_media.go`) | rows of `private_media`, files, `reserved` bytes, the bot file id | save a download, open, mark sent, evict, clean up | file and row are two writes; cleanup works outside the mutex; eviction against a deletion that begins to hold the file |
| media recognition (`internal/media`, `internal/db/media.go`, `internal/mcpserver/media.go`) | `media_jobs`, `media_charges`, `media_files`, the shared cooldown | enqueue, claim, prepare, reserve budget, submit, settle, defer, retry, recover, batch start and wait, download a file | money: no double payment after a lost answer or a crash, budget accounting under parallel workers, waiting jobs must be woken |
| account manager (`internal/monitor/manager.go`) | running accounts, the encrypted session vault, logins in progress | start, run with backoff, log in, replace a session, log out, drop a revoked session | a login, a logout and a revoked old runtime racing for the stored session |
| monitored radar (`internal/monitor/monitor.go`, rules and events in `internal/db/store.go`, `internal/match`) | rules, sources, matched events, update state (pts, qts, seq) | receive an update, match, record the event, notify; backfill a source | one event per (owner, peer, message, rule) however often and along whichever way a message arrives; an alert lost after the row was written; exclusions before matches |
| update engine (gotd, external) and its stored state | pts/qts/date/seq per user, pts per channel | advance after handling | what is handled twice or dropped around a restart |
| OAuth server (`internal/oauth`, `internal/db/oauth.go`, `internal/bot/oauth.go`) | requests, codes, grants, refresh tokens | start, approve or deny, exchange, refresh with rotation, revoke, clean up | one-time use of codes and tokens under concurrent requests; a refresh retried after a lost answer; revocation reaching everything issued |
| API tokens (`internal/apitoken`, `internal/db/tenancy.go`, `internal/web/web.go`) | `api_tokens` with an expiry | create, verify, delete | tokens created while a logout deletes them |
| notification API (`internal/notify`, `internal/db/notifications.go`, `internal/monitor/notifications.go`) | receipts by idempotency key | reserve, send, mark sent | at most one send per key over crashes and concurrent requests |
| bot login (`internal/bot/login.go`), web login (`internal/web/login.go`) | per-chat login sessions, login tokens | start, code, password, cancel, expire | two logins of one owner, answers reaching a flow that ended |
| bot commands (`internal/bot/bot.go`) | subscribers | commands and buttons | thin: each is one database statement |
| dashboard (`internal/web/web.go`, `internal/web/auth.go`) | signed cookie | forms | thin, stateless |
| MCP server (`internal/mcpserver`) | none | tools, history pages | cursor arithmetic of pages (`internal/monitor/search.go`) |
| configuration and entry point (`internal/config`, `cmd/telegram-bridge`) | environment | load, validate, serve | an error group: the first fatal component stops the rest |
| plugins, rules, scripts, deployment files | - | - | data and shell, nothing to model |

How they interact. `Manager` owns one `monitor.Service` per account; its update
handler feeds the radar and the private archive, and enqueues attachment
downloads. The archive's outbox calls the bot (`NotifyDeletedMessages`), which
reads the media cache. Media workers ask the `Manager` for the account of a job.
`Logout` stops the account, deletes the session, revokes OAuth grants and deletes
API tokens. The MCP server resolves a bearer token to a user (OAuth or API
token), then to that user's account. All of them write the same database, each
statement or transaction atomically; there is no other synchronisation between
components.

What makes each part correct, in one line each:

* archive and outbox: a deletion of an archived message is reported, only after
  the owner was told, and nothing the archive does before that loses or changes
  its text;
* media cache: a file is the attachment its row describes, one held for a deleted
  message is not evicted, what is accounted for and what is arriving keep to the limit,
  and a sweep brings everything else on disk back within it;
* media recognition: no second paid call for a result whose fate is unknown,
  spent plus reserved never exceeds a limit, every job that can go on does;
* account manager: no runtime is lost hold of, a new login survives the end of the
  old account and is started, and a logout that was cut short can be finished;
* login: one login of an owner at a time, and each one ends;
* OAuth: one sign-in is worth one connection, a connection that was cut off is worth
  nothing, and nobody loses one to the housekeeping of others;
* notifications: at most one send per key; a key whose fate is unknown says so;
* radar: nothing a rule wants is missed, one alert at most, a button stops its rule;
* history pages: following the cursor visits every message in the range.

## 2. Modules

    DeletionPromise        what is promised for one archived message (abstract)
      DeletionArchive      archive, outbox, alerts, faults          (detailed)
        MCDeletionArchive        values for TLC
        DeletionArchiveProofs    its theorems, the promise among them
    PrivateMedia           attachments of direct chats: files and their rows
      MCPrivateMedia             values for TLC
      PrivateMediaProofs         its theorems
    MediaJobs              paid recognition: queue, workers, ledger
      MCMediaJobs                values for TLC
      MediaJobsProofs            its theorems: queue, budget, waiting jobs
    Accounts               running accounts, session vault, logins, logouts, API tokens
      AccountsProofs             its theorems
    Login                  the ways to a login: the chat, the link, the page
      LoginProofs                its theorems
    OAuth                  clients, requests, connections and their tokens
      OAuthProofs                its theorems
    Matcher                what a watch rule matches (operators)
      Radar                updates, scans, rules, events, alerts
        MCRadar                  values for TLC
        RadarProofs              its theorems
    Counting               sizes and sums of finite sets, the greatest n of one
                           (lemmas for MediaJobsProofs, PrivateMediaProofs, RadarProofs)

Modules that share an actor each have their own side of it. The outcome of a login is
a step of `Accounts` (`replaceSession`); how a login is reached and ended is `Login`.
A logout is stepped through in `Accounts` with the API tokens behind it; `OAuth` has
the two steps of it that its tables see. `DeletionArchive` knows of an attachment
only whether an alert still waits for it; its file is in `PrivateMedia`.

`DeletionArchive` is the core: the archive is the one place where the program
promises never to lose something, and six loops and handlers touch it.

| in the model | in the code |
|---|---|
| `dialog` | `private_dialogs`: "unknown" no row, "new" `last_backfill_at = ''`, "seeded" otherwise |
| `archived`, `ver`, `marked` | rows of `private_messages`, which version of the text is in them, `deleted_at` |
| `tombs`, `notified`, `obsAge`, `attempts`, `wait` | rows of `private_message_deletions`; `wait` is the time left until `next_attempt_at` |
| `rows`, `covers`, `rowAge` | `private_deletion_alerts`, `private_deletion_alert_messages` |
| `media` | `mediaPending` |
| `flush` | the local variables of `flushPrivateDeletionOutbox`: the listing and the batch being sent |
| `fill` | the local variables of `runPrivateArchivePass`, `backfillPrivateMessages` |
| `latest`, `stamp`, `gone`, `seen`, `heard` | Telegram, and the update stream |
| `told`, `buttons`, `acked` | the owner's chat with the bot |

| action | code |
|---|---|
| `LiveMessage`, `HearDeletion` | `handleMessageClass`, `archivePrivateMessage`, `RecordPrivateMessageDeletions` |
| `PassStart`, `FillFetch`, `FillArchive`, `FillDone` | `runPrivateArchivePass`, `PrunePrivateArchive`, `backfillPrivateMessages`, page by page and row by row |
| `RememberDialog` | `rememberPrivateDialogs` |
| `MediaDone` | `finishPrivateMedia` |
| `FlushList`, `FlushSkip`, `FlushAlert`, `FlushSend*`, `MarkPrivateDeletionNotified`, `DeletePrivateDeletionAlert`, `MarkPrivateDeletionFailed` | `flushPrivateDeletionOutbox`: one action per statement or call, so that every other actor can come between |
| `...Fails`, `FlushSendAnswerLost`, `Restart` | the error paths, and a lost connection or process |

Time. The code compares ages with thresholds (quiet period 4 s, attachment wait
90 s, retention 90 days, backoff). The model keeps ages in abstract units and
stops them at `MaxAge`, above every threshold. A pass of the outbox takes a
few calls; `PassTime` bounds how many units it may take, at most `Retention`:
a pass would have to take 90 days to violate that.

The update stream. gotd delivers the updates of one message in order; a
disconnect may skip some or repeat some. So `LiveMessage` takes any version from
the last one seen on, and nothing after the deletion was heard. A history page
is not ordered with the stream: it is fetched in one action and archived row by
row in later ones, possibly after edits and deletions of what it contains.

Alert ids grow for ever in the code (AUTOINCREMENT). The model takes an id again
only after its row and its button are gone, so no button ever refers to another
alert than its own, as in the code.

`MediaJobs` is the component that spends money: jobs and charges in the database,
and the workers that take a job from the queue to a settled charge.

| in the model | in the code |
|---|---|
| `status`, `attempts`, `wait`, `code`, `named` | rows of `media_jobs`; `wait` is the time left until `retry_at`; `named` are completed jobs whose `result_meta` has `cost_usd` |
| `charges` | rows of `media_charges` with their settlements; `bill` is what the provider's own books say |
| `worker` | where a goroutine of `runWorker` is in `runOne`, its job and the answer in its hands |
| `service`, `live` | `Run` and `New`; `LiveAccounts` |
| `phase`, `quiet` | the UTC clock; the rest of the longest delay asked for by a 429 that was saved (what the code should obey, not a variable of it) |

| action | code |
|---|---|
| `EnqueueMedia`, `ClaimMedia`, `ReserveMedia`, `DeferMediaBudget`, `RecoverMedia`, `ReconcileMediaCosts` | the statements and transactions of the same names in `internal/db/media.go` |
| `LockFiles`, `Prepared`, `PrepareFails`, `CooledDown`, `AccountUnavailable`, `Interrupted`, `BudgetRefused`, `ReserveCancelled` | the steps of `runOne`, `prepare` and `waitForProvider` between two accesses to shared state |
| `Recognize`, `Save` | `OpenRouter.Recognize`; `finishError` and the end of `runOne`, both with `FinishMediaWithCost` |
| `StorageError`, `CooldownUnreadable`, `Shutdown`, `Exit`, `Crash` | error paths, the error group, the end of the process |

The provider is external: it refuses (4xx, unbilled), or bills and answers, and
the answer may be lost, be unusable or lack its cost. Amounts are small integers;
the preconditions the code establishes (a reserve is positive, a cost is not
negative) are the assumptions of the module. `Tick` moves every clock together.

`PrivateMedia` has rows, files and `Store.mu` as they are: a save holds the mutex only
while it makes room and while it stores, a deletion, an expired row and a send go on
beside it. A file and its row change in two steps wherever the code takes two and others
may come between: `Rename` and `SavePrivateMedia`, the two steps of `MarkSent`, and
those of `RemoveExpired`. `Evict` is one step for each item: it has the mutex, and
whatever others do between its two halves (open the file, send it, record a deletion)
ends as if done before or after both; it may fail after the file. A sweep may stop after
some of its files. The download queue is left out, because a job may be dropped and a
message be asked for again after some minutes: any attachment may come next. A download
writes as much as was announced, the most that `limitedWriter` lets through; `left` is
the time until `expires_at`, and the order of eviction.

`Accounts` has one row of `telegram_sessions` per owner (`stored`), Telegram's view of
the keys (`keyOf`, `alive`), the goroutines that run an account (`runtime`) and the
ones that log in and out (`login`, `logout`), each in the steps between which
`Manager.mu` is free: `replaceSession` detaches the old account and stores the new
session, `CancelOld` waits for it to end, `StartAgain` starts the new one; `Logout`
stops, loads, ends the session at Telegram, deletes it and revokes what hangs on it,
one statement after the other. `Boot` has the import of an older session file and the
start of what is stored, while logins are already possible. `fresh` and `unfinished`
are bookkeeping for the properties.

`Login` has the question for the number with its timer (`Start`, `finishPhone`, `Fires`,
`expirePhonePrompt`), the link, and the flow behind the page: requests look up, restart
and submit in steps of their own, and the flow's goroutine (`run`) interleaves with
them. `ctx` is the flow's context: cancelled by a restart, old after its ten minutes
(the fifteen of a link are `Expires`); one that has ended ages too, and the next look at
the table drops it.

`OAuth` has one action per transaction of `internal/db/oauth.go`, with `pruneOAuthTx` in
each that prunes. `telegramCallback` is split into its four transactions. `cut` are the
requests whose user, client or logout was told that the connection has ended. A refresh
token that is not spent (`Unspent`) is worth a connection only while its client is
registered (`Renewable`), because a refresh authenticates the client first: losing the
client is losing the connection.

`Radar` reads rules the way `ListKeywords` does: a list that stays open on one
connection of the pool, then details of each rule on another. Chats and a scan
interleave; rules are saved, imported, replaced and deleted meanwhile, and a message
is handed out again after an error, an edit or a restart. `Matcher` has the rules'
alternatives, required groups, exclusions, numbers with units and the frame guard
over sequences of words; which two words are one typing error apart is given by
`Near`. `owed` is bookkeeping: what must be recorded if nobody changes it meanwhile.
An update owes what the rules want of it from the moment its rules are read; a scan owes
everything within reach of its pages from the first page on, since only then is it known
that the chat is read at all.

## 3. Runs

| run | instance | question |
|---|---|---|
| `deletion_archive` | one dialog, two messages, one edited; three alert ids, a cap of one message, one fault | Are marks, tombstones, reports and texts consistent over every order of live updates, edits, history pages, prunes and faults; do acknowledged buttons open; does anything evict or rewrite what is owed; is the abstract promise kept? |
| `deletion_outbox` | two dialogs listed together, one of them refused by Telegram as often as it likes, the other with an attachment that holds its alert back; a wait that grows with the attempts; fair loops | Does what the outbox holds stay pending while everything else goes on, and is every deletion of the other dialog reported in the end, also from behind the failing one? |
| `media_jobs` | three jobs, one completed by an older version, one with a double reserve; two workers, two attempts, costs above and below the reserve, 429 delays, one fault, fair workers | Is a job paid for once, held by one worker, never out of attempts while it waits; are bills within both limits, waiters really blocked, and 429s obeyed by claims; does every queued job end? |
| `media_cooldown` | two jobs, two workers, no fault | A violation: a submission during a cooldown (see Findings). |
| `media_cache` | two messages, one with two attachments; two downloads, one send, one fault; a disk that holds one or the other | Does what is counted keep to the limit, does a sweep bring what is not counted back within it, does a file match its row, is a deleted message's attachment held whichever of its download and its deletion comes first, and does the sweep spare what is stored? |
| `media_cache_held` | the same | A violation: a held attachment is evicted. |
| `accounts` | one owner, three runtimes, two sign-ins, an imported session, one fault, fair goroutines | Is any runtime lost, is a new login deleted by the end of the old account, and is every stored login started? |
| `accounts_logout` | the same with one sign-in | A violation: a logout that was cut short cannot be repeated. |
| `login` | one link, two logins behind it, two questions for the number, one concurrent request, one fault | Is there one login at a time, does no timer close another question, does each login end? |
| `oauth` | one user, two clients and requests, three pairs of tokens, a clock of five | Does what was cut off stay so, is a sign-in worth one connection, does it end in time, is nothing usable pruned? |
| `radar` | one chat and a scan, two messages (one a service message), one edit, two names (one a number), two changes of rules, one fault | Is everything a rule wants recorded, alerted once, and does a button stop its own rule? |
| `radar_pool` | one chat and a scan on two connections | A violation: both wait for a connection for ever. |

Bounds of the deletion runs, and why they are enough. Two messages are the smallest
number at which a batch becomes a summary with a button, a cap of one drops something, a
page limit orders; two dialogs are the smallest number at which one batch waits behind
another in one pass, which is why `deletion_outbox` lists two messages, of two dialogs.
Two versions show every case of the rule that decides whether a snapshot replaces the
row (older, newer, same second). `deletion_archive` merges all backoff steps into one
(`MaxAttempts = 1`), as no property there depends on the length of a wait;
`deletion_outbox` has two, so that a wait grows and then stays. One fault at a time
reaches every error path; the paths are retried afterwards as in the code.
`deletion_outbox` has no fault but sends, which fail without bound: a crash or a failed
statement leaves the outbox idle, and what it leaves in the tables is what
`deletion_archive` looks at. `CHECK_DEADLOCK FALSE`, because with every message deleted,
every clock stopped at `MaxAge` and nothing owed the bounded model has nothing left to
do. No run has a bot among its dialogs: bots are left out by the same guard as unknown
dialogs. For the safety properties the bounds matter less: they are proved without them.

Bounds of `media_jobs`. Two workers are the least that race for a claim, a
reservation, a settlement and a cooldown; three jobs the least of which one was paid
before, one fits its reserve and one does not. `MaxAttempts` is 3 in the code: two tell
a retry from the last attempt. `DayLength = 2` puts midnight before or after every
step, and lets a day pass while a worker is anywhere. One fault is a stop, a
failed statement or a crash; recovery itself takes two steps that do not fail, as
a failed start changes nothing that the next start does not see.

Bounds of the others. `media_cache`: two workers are what the code starts; of two
messages one can push out the other, a second attachment of one of them is an edit, and
`Ttl = 1`, `Hold = 2` put both expiries before or after every step. The workers are
interchangeable, and no liveness is checked there, so symmetry is sound. `accounts`: a
runtime that ends, one that was replaced and one that starts are three; two sign-ins are
an old and a new session; owners share nothing but the number of concurrent logins.
`login`: a second question and a second login are the least that can be mistaken for the
first. `oauth`: an unused refresh token, a used one inside its grace (of zero ticks) and
one outside it, codes and requests before and after their time; five ticks reach a year
of three and what is pruned after it. `radar`: two processes, so a live update and a
scan of one message overlap; a name that reads as the id of another rule; two changes
are a deletion and an addition under the same name. `CHECK_DEADLOCK FALSE` in `login`,
`oauth` and `radar`: flows, ids, time or changes run out.

Fairness. `media_jobs`: workers poll every second and every call they make has a timeout
or returns (`WF_vars(Work(w))`), clocks go on, and a process that ended is started
again: the last is an assumption about the deployment, without which a stopped queue
stays stopped. Nothing is assumed of the provider, of sessions (a job whose account goes
away is excused) nor of requests. `deletion_outbox`: the outbox has a ticker and every
call in it has a timeout or returns: weak fairness of each of its steps. Of infinitely
many alerts offered for one dialog Telegram takes some: `FlushSend` is strongly fair for
each dialog by itself, and not at all for those in `Refused`, so a success in one dialog
says nothing of another. (An owner who never starts the bot, or blocks it, is refused
everywhere; that is excluded.) The outbox looks every two seconds and the shortest wait
it sets is five (`internal/monitor/private_messages.go:22`, `:168`), so no time goes by
between two passes while a dialog has something ready to send (`TickInTime`). This is
what keeps a failing batch from being the first of every pass; the mutant that lets it
be tried again at once starves the other dialog. Nothing else is assumed of Telegram, of
the handler, of history seeding, of downloads beyond the bounded attachment wait, nor of
faults. `accounts`: goroutines are scheduled, calls return; the user owes nothing, so a
login that waits for a code may wait. `login`: a flow's goroutine goes on and its ten
minutes pass; nobody has to answer the page. `radar_pool`: every process goes on when it
can, and one that needs a connection gets one if one is free again and again (strong
fairness); the counterexample needs none to be free ever.

## 4. Proofs

tlapm checks every invariant and every action property of the passing runs, for every
value of the constants that satisfies the assumptions of the module. A set that TLC
gives three members may be of any size; `IsFiniteSet` is assumed where something is
counted. Each argument is one inductive invariant, checked by TLC on the component's run
before it was proved, with one lemma per action. The theorems are of `Spec`, whose
clocks are free; `FairSpec` of the archive only takes away steps of the idle outbox's
clock.

| module | inductive invariant | properties it gives |
|---|---|---|
| `DeletionArchiveProofs` | `IInv` (`Invariance`) | `TypeOK`, `MarksMatchTombs`, `InFlightIsPending`, `ReportedWasTold`, `AckedButtonOpens`, `PendingKept`, `NoOlderRevision`, `KeepsPromise` |
| `MediaJobsProofs` | `JobsInv` (`JobsInvariant`) | `TypeOK`, `PaidOnce`, `ClaimsExclusive`, `AttemptsLeft`, `NoClaimDuringCooldown` |
| | `LedgerInv` (`LedgerInvariant`) | `BillsWithinBudget` |
| | `WaitersInv` | `WaitersAreBlocked` |
| `PrivateMediaProofs` | `CacheInv` (`CacheInvariant`) | `TypeOK`, `WithinDisk`, `RowDescribesFile`, `HeldInEitherOrder`, `SweepSparesStored`, `SweepRestoresLimit` |
| `AccountsProofs` | `AccountsInv` (`AccountsInvariant`) | `TypeOK`, `NoLostRuntime`, `NewLoginKept` |
| `LoginProofs` | `LoginInv` (`LoginInvariant`) | `TypeOK`, `OneLogin`, `OwnTimeOnly` |
| `OAuthProofs` | `OAuthInv` (`ServerInvariant`) | `TypeOK`, `CutOff`, `OneConnection`, `EndsAfterLifetime`, `NothingUsableLost` |
| `RadarProofs` | `RadarInv` (`RadarInvariant`) | `TypeOK`, `AlertedOnce`, `ButtonStopsItsRule` |
| | `OwedInv` (`OwedInvariant`) | `NothingMissed` |

Why the properties are not inductive by themselves, and what was needed:

* Archive. That an alert in flight names only pending, archived, due messages
  (`InFlightIsPending`) survives a prune only because pruning spares pending rows, and
  survives the clock only because `wait` never grows back; that `notified` implies
  `told` needs to know that at program counter "mark" the batch was delivered; that an
  acknowledged button opens needs that its alert is no older than the button's retention
  and that the outbox drops only the alert it has in hand. `IInv` is the conjunction of
  `TypeOK`, `MarksMatchTombs` and those facts (`AgesOK`, `ReportedOK`, `OutboxOK`,
  `PageOK`), with `VersionsOK`, `DatesOK` and `AlertsOK` proved on top of it where they
  are needed. For `KeepsPromise` the mapping computes the status of a message from its
  row, its tombstone and its mark; every action is shown to be a step of
  `DeletionPromise` or to leave it alone.
* Queue. A job has no second paid charge because a charge without a known outcome ends
  the job, and an earlier charge of a job that goes on was never billed (`Unbilled`);
  that a claim respects a 429 needs that some row still carries the longest delay
  (`DelaysKept`): a job keeps the delay of its last retry until it is claimed, and a
  claimed one carries none.
* Budget. What the provider bills differs from what the ledger says: an answer may be
  lost, or its cost arrive later. `BudgetInv` therefore bounds bills that came, each up
  to its reserve, together with the reserves of requests that are still in a worker's
  call, by both limits, and says that a settlement is true to its bill. A new
  reservation counts settlements and reserves, never less than that sum, so it cannot
  overdraw it. That an older version kept to the limit is a condition of `Init`: its
  rows were reserved by the same check.
* Waiting jobs. A wait for budget is set together with the check that found none; it
  stays justified because whatever gives budget back, or begins a day, wakes the jobs it
  may help.
* Cache. A worker that makes room counts once and then evicts step by step, without
  looking again. That is enough because nothing becomes local without the mutex: what
  was counted is what is stored, or still listed, at least (`RoomCounted`). A file stays
  its worker's own, or is removed, until its row is written (`FilePlaced`). `WithinDisk`
  is about rows and downloads. Files that no row accounts for (after a crash between
  file and row, or while a send has stored its id and not yet removed the file) are on
  disk beside them, and `SweepRestoresLimit` bounds those: what a sweep does not have on
  its list is counted, from the listing to its end (`SweepCounted`), because only a
  download stores files, and it needs the mutex.
* Accounts. Whoever takes a runtime out of the table holds it until it is cancelled or
  done (`Holding`); and a session nobody has written over has no account that is past
  connecting (`FreshNotConnected`), so none can learn of it that it was rejected.
* Login. The slot of an owner and the flow that is with Telegram are the same fact
  (`SlotHeld`); every way out of that phase gives the slot back.
* OAuth. A grant is the only one of its id and of its request (`Keyed`) and ids only
  grow (`Numbered`); with it, a connection that was cut off has no unrevoked grant, and
  its request is in a state no code is exchanged in. Deadlines of tokens are bounded by
  those of their grant (`Deadlines`).
* Radar, alerts. An alert is sent for an event whose insert was this process's own, and
  an unsent event has at most one such process (`AlertsOK`); that a button stops its own
  rule needs that an id never had two names (`NamesOK`), which AUTOINCREMENT gives.
* Radar, nothing missed. The property says only what is recorded when a message is done
  with; `Debts` says where each thing owed is until then. For an update (`ChatOwes`):
  recorded, found and on its way to its record, or of a rule still to be read, whose
  details read so far are the stored ones. For a scan (`ScanOwes`): in the hands of the
  scan, on the page it has fetched, or so few messages below it that the pages left
  reach it (`Reached`). The last needs that posting does not push a message out of
  reach, as pages continue below an id and not at an offset, and that a page takes the
  greatest ids of a set (`TopSize` in `Counting`).

Sums. `BillsWithinBudget` and `WithinDisk` bound sums over sets, which are defined
by a fold in an order CHOOSE picks. `Counting` proves what is needed of them (a summand
added, removed or changed; a smaller set; the same in any order) by induction on
the size of the set, done as a least counterexample in a set of numbers, because
theorems that take an operator as parameter cannot be instantiated.

Assumptions on constants. They are the ASSUMEs of the component modules, and TLC
evaluates them on every run. Kinds aside (numbers, ids that are positive, sets within
sets), what is assumed is: the thresholds of the archive lie below where the model stops
its clocks; a reserve is positive (a constant, or a rounded-up duration,
`internal/media/service.go:310-314`) and a cost not negative; an unused attachment
expires before a held one (`Ttl < Hold`, one hour against 24); a new refresh token is
not already expired, and no code outlives the time for which its request's row is kept
(`CodeTTL <= RequestRetention`, two minutes against an hour), which `NothingUsableLost`
needs; `MaxIds # 0`, so there may be a rule; the values of rules are records of their
fields, with sources among the chats. Nothing is assumed of how limits compare with each
other or with sizes.

Model-checked only:

* the liveness properties `EventuallyReported`, `EventuallySettled`,
  `EventuallyRunning`, `EventuallyEnds`: fairness and ENABLED are out of the prover's
  reach;
* the properties of the four runs that expect a violation, which are not true.

The proofs about `Radar` use of `Matcher` only that nothing is wanted of an empty text:
what is wanted otherwise is stated, and run, by the definitions alone.

## 5. Findings

* `media_cooldown`. `waitForProvider` reads the cooldown once
  (`internal/media/service.go:322`), the submission follows in a later transaction that
  does not look at it. A 429 saved in between is not waited for, although "already
  prepared jobs wait before submission" (`docs/MEDIA.md:213`). The harm is one request
  too many; the claim, which checks in its own statement, has no such gap
  (`NoClaimDuringCooldown`).
* `media_cache_held`. "Held attachments are never evicted"
  (`internal/privatemedia/privatemedia.go:238`). What may be evicted is listed once and
  then removed item by item; a deletion that is recorded in between does not take the
  mutex, and loses its attachment.
* `accounts_logout`. A logout deletes the session first. When it is cut short after
  that, API tokens and OAuth connections are left, and the command that would finish it
  is refused, because it asks for the stored session
  (`internal/monitor/manager.go:467-479`, `internal/bot/bot.go:486-492`).
* `radar_pool`. `ListKeywords` keeps its rows open while it asks the same pool for
  another connection (`internal/db/store.go:839`); with as many listings at once as the
  pool has connections, none goes on.

Seen while modelling, in the models, and not claimed as findings, because neither the
code nor its documents promise otherwise: the answer to the send of a summary is lost,
its alert row is deleted (`internal/monitor/private_messages.go:141`) and the button
that did arrive finds nothing; a file sent from the cache is removed after its file id
was stored, and so may be one that a download of an edited message has just put there
(`privatemedia.go:153`); a running client stores its own session without `Manager.mu`
(`manager.go:116`), which the properties exclude by `fresh`; a second submission to the
login page may be taken for the next prompt; a rule whose name is the number of another
is deleted by that number; a sign-in that has passed `OAuthAccountConnected`
(`internal/oauth/telegram_login.go:208-247`) is overtaken by a whole logout and approved
after it, which gives a connection of an account that is no longer there (its request
was still pending when the logout cut off what was approved, so it is not in `cut` and
`CutOff` does not speak of it); the bot's file id of an attachment that an edit replaced
while it was sent is written onto the new row, which then shows the old attachment
(`RowDescribesFile` is about files on disk, and a sent row has none).

## 6. Not modelled, and why

* Notification API: one `INSERT` decides who sends, one `UPDATE` completes it, and
  nothing retries; a model would be these two statements again.
* Media files: downloads to temporary files and transcoding, I/O around one lock that
  `MediaJobs` has as `LockFiles`. Batches: loops that enqueue and read jobs one by one.
* Telegram reads and history pages: wire types to records; the only state between
  two calls is the cursor in the caller's hands.
* MCP server, bot commands, dashboard: dispatch; what they change is an action of the
  component they call. The consent page is layout.
* Configuration and entry point: parsing, and an error group whose end is the
  restart of the models.
* The paging of a shown alert; wording and layout of messages, HTML, ffmpeg,
  the wire formats of OpenRouter and Telegram: no property here is about them.
* The update engine (gotd) and its stored state are external: a chat's updates come
  in order, and again when they were not acknowledged.
* Cryptography (session vault, cookie, token hashes) is taken as ideal. Isolation
  between owners is a condition in every statement of the code and not a matter of
  interleaving, so models have one owner.
* Changes of the configuration between two starts: limits are constants.

## 7. Plan

All components that keep state between two steps and change it from more than one place
are modelled and checked, and their safety properties are proved. What is left:

* lemmas about `Matcher`: that an exclusion wins over every alternative, that a rule
  without sources reads every chat, that more required groups never match more;
* an abstract specification for the queue of `MediaJobs` (a job is absent, open or
  ended, and never paid twice) and of `OAuth` connections (none, alive, cut off), each
  as a refinement like that of the archive;
* further action properties on top of the invariants proved: a job that has ended stays
  ended, a used refresh token is never usable again, a stored session changes only by a
  login, an import or a logout.
