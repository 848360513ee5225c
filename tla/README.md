# A TLA+ model of the CFA page to PagerMon bridge

The program polls a web page of fire dispatches, queues every dispatch it has not seen
before in an SQLite table, and POSTs the queue to PagerMon, retrying what fails. It runs
unattended for months, is restarted by its supervisor, and is configured through a web
UI that lives in the same process. This directory models it, checks the model with TLC
on small instances, and proves with TLAPS that the safety properties hold for every
value of the constants.

Paths such as `main.py:266` are relative to `src/src/cfa_pagermon_bridge/`. `plan.md` and
`README.md:87` are the repository's own files.

## 1. Inventory

| Part | State | Operations | Interacts with |
|---|---|---|---|
| Service loop, `main.py` run_service | `_SHUTDOWN_REQUESTED`, frozen `Config`, `last_poll_time`, `pending_list` | startup, wait, fetch, store, select, deliver, shutdown; signal handler | all others |
| Message store, `store.py` | table `messages` (survives the process) | insert_if_new, get_pending, mark_delivered, mark_failed, counts and listings | called by the loop; read by the web UI |
| PagerMon client, `pagermon.py` | a requests session | deliver, check_reachable | called by the loop and the web UI's test button; PagerMon is external |
| Fetcher, `fetcher.py` | `_consecutive_failures`; the body read so far | fetch, backoff_seconds | called by the loop; the source page is external |
| Page parser, `parser.py` | none | parse_messages | called by the loop |
| Configuration, `config.py` | `os.environ`, `.env` or `bridge.env` | load_config, validate_config, config_to_env_dict, save_config | startup, web UI |
| Web UI, `webui.py` | `app.config["cfg"]`, `_shared_state` (with a lock) | /setup, /config, dry-run toggle; dashboard, messages, status; check, test delivery; login | threads of the same process; the file; the table |
| Command line, `main.py` | none that outlives the run | `--check`, `--test-delivery`, `--dry-run`, `--env-file` | judges the file the service will load |
| Deployment | pm2 or systemd | restarts the process | - |

What makes it hard:

* **Crashes between two effects.** PagerMon stores a message and the bridge records it
  in two steps (`main.py:259`, `main.py:266`), and answers get lost.
* **A list used after it was read.** `pending_list` may be worked off for many minutes.
* **Settings that live in four places** - file, environment, the loop's `Config`, the
  web UI's `Config` - with threaded handlers that read, modify and write them unlocked,
  and a file that is emptied before it is written.
* **Limits**: attempts, batch, backoff, sleep cap, message length; compared after or
  before an increment, and changeable across restarts.
* **A source that sends what it likes**: bytes at any pace, a body without end, an
  encoding nobody knows, read by the one thread that also delivers.
* **Configurations nobody validated**: forms, toggles and dry runs skip validate_config,
  and the next start, possibly months later, does not.
* **Pages made from the past**: a web thread copies the shared state, and shows it when
  the loop has moved on or the process has been restarted.
* **Stopping** promptly from anywhere in a cycle, without losing the row in hand.

What makes each part correct: the queue delivers what it has seen, once unless an outcome
was unknowable, oldest first, within the attempts allowed, and never reopens what is
settled; the loop fetches neither too often nor too seldom and stops soon; the parser
returns each dispatch of a page once, in order; a fetch ends, keeps no more than the limit
and counts its failure; a page of the web UI never counts a row that is not there; a
configuration that was checked, or that the bridge runs, starts again; the bridge goes live only if asked to,
and file, web UI and loop agree when nothing interferes. `hazards` in `PROJECT.json` names
the line where each could go wrong and the property that would show it.

## 2. The modules

```
Dispatch <- MessageStore, PagerMon <- Bridge <- MCBridge        runs bridge_*
Dispatch <- MessageLedger <---(refinement)--- Bridge <- BridgeProofs
MessageStore <- StoreProofs <- BridgeProofs
ServiceLoop <---(refinement)--- Bridge, Poller
Settings <- MCSettings, SettingsProofs                          runs settings*
Poller   <- PollerProofs, Dashboard <- DashboardProofs          run  dashboard
Fetcher  <- FetcherProofs                                       runs fetcher*
FetchContract <---(refinement, where it holds)--- Fetcher
Startup  <- StartupProofs                                       run  startup
Parser   <- MCParser, ParserProofs                              run  parser
```

**Dispatch** declares the set of dispatches; a dispatch stands for its `message_hash`.

**MessageStore** is the table: per dispatch its state, attempt count, the rank of its
`first_seen_utc`, how far off its `next_attempt_utc` is, and its `last_error_category`.
`InsertIfNew`, `GetPending`, `MarkDelivered` and `MarkFailed` are the SQL statements of
the methods of these names, each a transaction and so one step. Time is the number of
ticks a row still has to wait; `ClockTick` lets one pass. The retry delay after n attempts is the
code's `min(2^n, 300)` s and up to a quarter of jitter (`RetryDelays`); `BackoffCap` stands for
the 300.

**PagerMon** is the server (external: any answer `deliver` can tell apart, stored,
filtered or neither; a POST the client gave up on may still arrive) and the client's
reading of the answer: `Success`, `ErrorCategory`. With `StrayPages` a 200 may also come from
something that is not the message endpoint.

**Bridge** composes them into `run_service`. `pc` is the place in the loop and every
variable that lives across a call is a variable of the model. One action per stretch of
code between two points where something else can happen: a signal, a crash, an answer,
the passing of time. `MarkResult` is the whole of `main.py:265-292`. The supervisor's
restart is `StartService`, with any configuration of `Configs`, so limits and dry run may
change from one start to the next. `doubts` is a history variable: POSTs of a dispatch
whose outcome the bridge could not learn or record.

**MessageLedger** is what the bridge promises, in four actions: a dispatch is observed
once, PagerMon takes only observed dispatches, one is called delivered only if PagerMon
took it, and a settled one stays settled. `Bridge!LedgerSpec` is its image under the
mapping `status <- table's states`, `held <- copies stored or filtered`.

**ServiceLoop** is run_service without its data: the place in the loop, the numbers of
pending and of settled rows, what is left of the batch, and the stop flag. Bridge and Poller
are two views of one loop, the one with rows and no time, the other with time and no
rows, and this is what they have in common: rows come in only while a page is stored, a batch is
within the limit and the pending rows, a POST settles at most its own row, a dead process leaves the
table as it was. `Bridge!LoopSpec` counts the rows of each kind; `Poller!LoopSpec` folds the
places a clock has to tell apart.

**Settings** has the file, `os.environ`, the two `Config`s, the displayed mode, and one
thread per web request with the next step of its handler. `DRY_RUN` stands for itself
and `PAGERMON_API_KEY` for every setting a toggle carries along. `Open` and `Write` are
the two effects of `write_text` (`config.py:235`) on the disk; `Reload` is load_config
with `override=False`. `NoKey` stands for both values validate_config refuses, `""` and
`"replace_me"`. `chosen` and `calm` are history variables.

**Poller** is the pace of the same loop, which Bridge leaves out: seconds since the last
fetch, consecutive failures, the sleep, what is published for the web UI, and how long
ago the signal came. It abstracts the rows to two counts. A fetch is one step that fails,
succeeds or takes the process with it.

**Fetcher** opens that step up: the request, the body of which some bytes
arrive before each timeout, the size limit, the status, the decoding, and the two ways
out that are not a success - a counted failure, and the LookupError nothing catches
(`fetcher.py:108`). `Receive`, `UnpackNothing`, `TakeChunk` and `RefuseChunk` are one turn of
`iter_content`'s loop, which yields bytes of the body and not of the wire: if the body comes
compressed or in a chunked transfer (`coded`), the up to `ChunkSize` bytes read for a chunk may
yield more than `ChunkSize`, fewer, or none, and then the loop body does not run.

**FetchContract** is what fetch promises by its docstring: one answer per call and no exception,
with the failures since the last success counted exactly. Fetcher implements it, with `busy` as
"between call and return", as long as the source names only encodings Python knows. Poller does not
rely on it: its `FetchDies` is the exception.

**Startup** is the question of whether the service comes up. Its file holds three settings:
`num` for any setting validate_config looks at, with the values it accepts, the ones it
refuses and the ones `int()` does not read; the key; `DRY_RUN`. `StartService`,
`RunCheck`, `Save` (/setup and /config) and `Toggle` are run_service, run_check and the
web UI's handlers, each in one step, since their races are Settings'. `Given` is the file
named by `--env-file`. `refused`, `said` and `sound` are history variables.

**Dashboard** puts the web UI's page requests next to Poller's loop: `GetState` is
get_shared_state, `ShowPage` the rendering, any time later; `Bridge` is any step of the loop,
and a restart ends the requests. `Answers` is sqlite3's rule that a connection serves
the thread that opened it, which is never a request's, so that a page shows the copy.

**Parser** runs `parse_messages` element by element over any page of bounded length. A
text is a record of exactly what the checks look at; `layout` is what `_normalize_text`
throws away. It also states the two halves of the date check, one in `parser.py:60`, one
in `pagermon.py:201`.

MC modules only define values for constants; the definitions that differ from the code
on purpose are marked `mutant` and used by no specification.

## 3. The runs

| Run | Instance | Distinct states | Shows |
|---|---|---|---|
| `bridge_safety` | 2 dispatches, batch of 2, 1 crash, 1 signal, restarts among limits 1, 2 and a dry run | 2.8 M | `TypeOK`, `BatchStaysFresh`, `DuplicatesExplained`, `RetryBudget`, `ExactlyOnce`, `FirstPostInOrder`, `SettledIsFinal`, `DispatchAdvances`, the ledger |
| `bridge_liveness` | 2 dispatches, batch of 1, 1 signal, every answer | 439 k | `EveryDispatchSettles`, `ShutdownCompletes`, `ShutdownAdvances`, `NoRowPassedOver`, the loop |
| `settings` | 2 requests, 2 keys, hand edits, failing saves | 1.6 M | `LiveOnlyIfAsked`, `CalmAgrees`, `LiveKeyIsShared` |
| `dashboard` | interval 2 s, backoffs of 2, 4 and 5 s, sleep cap 3 s, fetches of 0 or 1 s, POSTs of 0 or 2 s, batches of up to 2 of 3 rows, 1 request | 6.1 M | `WebTypeOK`, `SourceIsSpared`, `OutageEndsSoon`, `SourceIsWatched`, `StopIsPrompt`, `StatsAreRecent`, `PageIsPast`, `FoundAreCounted`, the loop |
| `fetcher` | limit of 3 bytes, chunks of up to 2 that unpack to up to 4, timeouts of 2 s | 10 k | `TypeOK`, `FetchIsBounded`, `FetchAdvances`, `FetchReturns` |
| `startup` | every file of the three settings, any order of starts, checks, saves, toggles, hand edits | 2.8 k | `TypeOK`, `CheckedConfigStarts`, `DryRunStarts`, `ToggledConfigStarts` |
| `parser` | pages of up to 3 elements over 17 texts and 2 layouts | 161 k | `UniqueInSourceOrder`, `DateIsReal` |

The type invariants of Settings, Poller and Parser, and `Order`, the inductive form of the
delivery order, are proved and have no property of their own in a run.

Five runs are expected to find a violation: each states what a document, a comment or a
message of the program says, and TLC shows the code doing otherwise (`findings`).

| Run | Said | Shown |
|---|---|---|
| `bridge_duplicates` | README.md:87, "zero duplicate messages across service restarts" | a crash between the answer and mark_delivered leaves a second copy |
| `bridge_stray_page` | plan.md:151, "200 + numeric body = success (delivered)" | deliver takes any 200: after a redirect or a proxy's page a dispatch is called delivered that PagerMon never had |
| `fetcher_raises` | `fetcher.py:59`, "never raises" | a page in an encoding Python does not know ends the process in `decode` |
| `settings_mode` | `webui.py:437`, "Dry-run mode enabled/disabled." | the loop's mode does not change |
| `settings_saved_key` | `webui.py:255`, "Most changes require a service restart." | a toggle before the restart writes the old key back |

What the first of them amounts to is `ExactlyOnce`: a dispatch each POST of which had an outcome
that was learnt and recorded is in PagerMon at most once, and once delivered exactly once
unless PagerMon's filter dropped it. It needs every 200 to come from PagerMon, as do
`DeliveredIsHeld` and the ledger: `bridge_stray_page` shows what a stray one does, and the
theorem `DeliveredMeansHeld` that nothing else does it.

Other places where documents and code part have no run of their own; the model
follows the code, and the properties say what holds instead:

* plan.md:91 caps the backoff at 5 minutes; `main.py:197` sleeps 60 s at most, which is
  what `SourceIsSpared` and `OutageEndsSoon` say.
* README.md:88 and `pagermon.py:27` say auth and format errors stop the retries; run_service
  retries them like any failure (`MarkFailed` is the same for every category), and after an
  outage long enough dead-letters the queue.
* `webui.py:4` promises a setup page on the first run; without a file there is no key,
  the start is refused, and the page is not served (`Starts`).
* `webui.py:7` promises a message browser; no request can read the table (`Answers`).
* Under systemd, what the web UI saves beside the file named by `--env-file` is never
  loaded (`BootFile`).
* A form is saved unvalidated, so a save may be one the next start refuses: only the
  toggles have a theorem.

**Bounds, and why they are enough.** In `bridge_safety` a batch of two has a row that waits
while the other is POSTed, marked, or lost in a crash; in `bridge_liveness` a batch of one
makes the limit bite: one waits while the other fails. A crash and a signal may fall
anywhere, so there are up to three starts, among them one that turns a dry run's queue live.
Two attempts have a first, a last
and, with a lowered limit, a row already beyond it. A 401 stands for a 403 and a 404 for a 429:
`deliver` makes the same of them. In `settings` two requests are what
a race needs, two keys are an old and a new one. `dashboard` scales the program's 20 s, 2 s to
300 s and 60 s down to seconds that stand in the same relations: the second failure's backoff is
above the sleep cap, the third's above the backoff cap; two POSTs of 2 s outlast
interval and cap, so the batch limit, and not the cap, is the bound in `SourceIsWatched`, and
the third row is the one a missing limit would let in. One page request is enough there: requests
share nothing but the page last shown, each holds one copy, and its page may be shown at any later
time. In `fetcher` a body can fit, exceed
the limit in its first chunk or a later one, never end, and unpack to more than a chunk, more
than the limit or nothing. `MaxTime`, where its clock stops, is above the bound that
`FetchIsBounded` states, so stopping it hides nothing; a coded body needs it, since its
time has no bound. Three elements hold a dispatch, its copy and another. `BackoffCap`,
`MaxCrashes`, `MaxSignals`, `MaxFailures`, `MaxUnpacked`, `MaxTime`,
`MaxRows` and `MaxElements` are bounds of the models and not of the program; except for
`MaxCrashes` and `MaxSignals`, which keep behaviours finite, they only tell fewer values
apart. The proofs hold for any value of all of them, and so for the program's own.

Deadlock is checked except in `parser`, whose loop ends with the page, and in the two
expected violations of Settings, where a file validate_config refuses keeps the service
down for good when nobody edits it by hand.

**Fairness** (`Bridge!FairSpec`). Weak for `Loop`: every call the loop makes is assumed to
return, so an enabled step is taken. The code gives each a timeout, but requests applies it to
each read: a PagerMon that drips its answer holds a POST for longer, and that it does not do so for
ever is an assumption about it, as is a compressed page that ends; weak for `StartService`: the supervisor
restarts; weak for `Tick`: time passes; strong for `FetchSucceeds`: the source answers
again and again, without which nothing is delivered at all, since a failed fetch skips
the delivery (`main.py:198`). None for PagerMon: it may refuse or ignore every POST. No
fairness is assumed of `Crash` or `Signal`, nor of a late POST. `bridge_liveness`
allows no crash, to stay small; with one crash and no stray page (0.9 M states) it was
tried by hand and passes. `Fetcher!FairSpec` is weak for `Fetch` as a whole: the waits of
requests end with bytes or with the timeout, so some step of a fetch is taken. It does not
say which: the source may send a byte at a time for ever. `FetchReturns` says nothing of a
coded body, which may go on unpacking to nothing.

## 4. The proofs

All invariants and action properties of the passing runs are theorems, for every number of
dispatches, requests, keys, elements, rows and seconds. `ExactlyOnce`, the ledger and
`DeliveredIsHeld` (violated in a run without it) are proved under the assumption their theorems name.

**StoreProofs** has the lemmas about the table alone, for BridgeProofs to cite: what each
statement changes and what it leaves. `PendingIsOldest`: if the ranks of the rows differ
(`RanksDiffer`, which insert_if_new keeps), `GetPending` returns at most `limit` ready rows, and a ready row it leaves
out is younger than all of them and finds the batch full. `DelaysBounded`: the delays
mark_failed can choose exist for every attempt count, so it never blocks, and exceed the
cap by a quarter at most, since `2^n` is a number for every n.

**BridgeProofs.** The inductive invariant has three layers, each proved from those below.
1. `Accounts`: types; `LoopShape` (which locals are in use at which place);
   `BatchStaysFresh`; `AbsentIsUntouched` (nothing is known of what was not stored);
   `AttemptsCounted` (doubts are attempts or crashes); `DuplicatesExplained`. Without
   `LoopShape` and `AbsentIsUntouched` the counts are not inductive: a crash could
   doubt a dispatch nobody was posting.
2. `HeldInv`: a success in hand is backed by PagerMon (`SuccessIsHeld`), hence
   `DeliveredIsHeld`, hence each step is one of the ledger's or a stutter. It assumes
   `~ StrayPages`, and needs to: `deliver` takes a stray 200 for a success, and
   `MarkResult` then calls a dispatch delivered that PagerMon never had.
3. `Order`: ranks are distinct and growing, a row without attempts is due, and every
   older dispatch still to be POSTed for the first time is in the batch too
   (`QueueInOrder`); hence `FirstPostInOrder` for every batch limit.

`RetryBudget` follows from `DuplicatesExplained` and `AttemptsCounted`; `ExactlyOnce` from
`DuplicatesExplained` and `HeldInv`, and so under `~ StrayPages`. `NoRowPassedOver` is
`PendingIsOldest` where the loop uses it, with `RanksDiffer` as the invariant.
`RetriesComeSoon` has no run: a failed dispatch is due again within the cap and its
jitter, at any time and after any restarts.

Two action properties are the safety half of a liveness property. `DispatchAdvances`:
no step leaves more to do for a dispatch, and a POST that is over leaves less, unless the process died in
it; without the attempt count, a retry could go on for ever. `ShutdownAdvances`: with the stop flag
set, each step of the loop shortens the way to its end, which is at most
`Cardinality(Dispatches) + 4` steps; it needs that a flag belongs to a live process (`StopHasProcess`).
What TLC adds to them is that the steps are taken.

`BridgeImplementsLoop` proves each step of Bridge to be one of ServiceLoop's or a stutter; the counting
needs that the rows are finitely many and that one row changes state at a time.

**SettingsProofs.** `AskedInv`: the file, `bridge.env` and every value on its way to the
file were asked for; an emptied file has no usable key, so a start from it is refused.
`KeyInv`: the environment of a live loop has the loop's key and load_config never
overrides it. `AloneInv`, `TogglesInv` and `CalmInv` follow an undisturbed toggle from
the `Config` it builds to the mode it shows; none is inductive without the others.

**PollerProofs.** `CountInv` (the loop's counter is the number of misses), `PaceInv`
and `LateInv` bound the clock at each place; `BatchInv` keeps the batch within the
pending rows and the limit, so that the time a batch takes is bounded row by row
(`SourceIsWatched`). That a backoff is a number needs that `2^n` is one: it counts the
subsets of `1 .. n`. The assumption that `FetchTimes` has a largest element is what
`FetchIsBounded` proves of Fetcher for a plain body; for a coded one, and of `PostTimes`, it is an
assumption: the timeouts of requests bound each read and not the call. `LoopSpec` is a
refinement proof: every step is one of ServiceLoop's, or a stutter. It needs that the batch is empty
wherever no row is being delivered (`TodoInv`). With `BridgeImplementsLoop`, what Poller bounds in seconds
is the loop that Bridge models.

**FetcherProofs.** `TimeInv` relates the time of a fetch to the bytes it got: while the body
is plain, every wait but the first and the last ends with a byte, and the bytes are within the
limit and one chunk. Hence `FetchIsBounded`, for any limit, negative ones
included. `FetchesAdvance` gives the measure behind `FetchReturns`: a byte more in the body counts
for more than all bytes of a chunk that are still to be read (`Worth`), so that any chunk that
unpacks to something, however few bytes, is progress. `FetcherKeepsContract` is the refinement of
FetchContract under the one condition it needs, that Python knows the encoding (`codec`).

**StartupProofs.** `WordInv`: whatever was said of the present file - it passed
`--check`, or a toggle wrote it - makes it one that starts, and a refusal is the
judgement of the file alone. For a toggle to live this needs `SoundInv`: a configuration
that started live keeps a valid number and key through every toggle. With `--env-file` the given
file alone decides, and a service that is up has started from it.

**DashboardProofs** extends PollerProofs and its invariant. No row leaves the table and
none is reopened (`TableGrows`), so a count of the past stays within it; and what was
found is published together with counts that include it (`PastInv`), so a copy taken
between the loop's two updates is as consistent as any. It holds whether or not a
request's query is answered.

**ParserProofs.** `SeenInv` (seen_hashes holds the dispatches looked at so far), and that
a turn extends the first places exactly when it extends the results.

Only model-checked: the three liveness properties `EveryDispatchSettles`,
`ShutdownCompletes` and `FetchReturns` (liveness under fairness and ENABLED are beyond the
prover; what is proved is that each step they wait for is progress, by
`DispatchesAdvance`, `ShutdownIsBounded` and `FetchesAdvance`), and the violations.

## 5. Assumptions, and what is not modelled

* One instance of the service, as `ecosystem.config.js` has it. A second one on the same
  table could POST what the first is posting.
* In Settings, and in the run of Startup, the pm2 deployment: no `--env-file`, no settings
  in the environment pm2 gives the process. Settings has `.env` before `bridge.env` in
  the working directory; Startup has one file, and its theorems hold with `--env-file` too.
* In Startup, the given file is readable or absent; the installer's file mode
  (`install.sh:28`, which the service's user cannot read) is not modelled. Nor is the quoting of values in `.env`,
  whose parser is python-dotenv's.
* A `.env` of some hundred bytes reaches the file in one write: it is empty or complete.
  Two threads writing at once leave the later one's text; a longer tail of the earlier one is
  not modelled.
* Wall-clock time never goes back (hazard at `store.py:109`).
* SQLite transactions are atomic and durable. A busy timeout ends the process and is
  part of `Crash`; so is any other uncaught exception.
* `--test-delivery` and the web UI's test button are one call of deliver each, which
  PagerMon models, and change nothing of the bridge; `/api/check` and the message lists
  keep no state and end at their first query. An empty `--test-delivery` text runs a
  second loop (hazard at `main.py:361`), which the first point excludes.
* Login and templates: a password compared once per session, and markup. The install
  scripts.
* HTML and HTTP: BeautifulSoup, requests and Flask are external.

## 6. Plan

Done: the queue, settings, pace, fetch, startup, pages and parser, with their safety
proofs; the promise of fetch and where it ends; the loop that Bridge and Poller share; and
the progress measures behind the three liveness properties.

What could follow, in this order:
1. Bridge with Poller's time: how long a dispatch may wait between first sight and its
   first POST while the source is up, as a function of the batch and the timeouts; and the
   same with the source down, where due rows wait for it.
2. Dashboard with a connection per thread, as the pages are meant to work: the message list,
   newest first by OFFSET, under concurrent inserts.
3. An abstract specification of Settings ("the next start runs what was last saved"),
   with the conditions under which the code implements it.
4. Two instances of the loop on one table, as after a hung stop: which of Bridge's
   properties survive.
