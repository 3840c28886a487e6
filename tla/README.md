# The daily briefing service in TLA+

TLA+ models of the service under `src/app/`: a FastAPI process that, once a
day, collects news, groups and ranks it, has an AI model write it up, emails it and
keeps its history in CSV files that it synchronises with a GitHub repository. TLC checks
the models on small instances; TLAPS proves the main safety properties for every value of
the constants.

Paths below are relative to `src/`.

## 1. Inventory of the system

A run is one `POST /api/daily-brief` (`app/main.py`), sent by the GitHub Actions cron of
`.github/workflows/daily-brief.yml` or by hand, with two flags: `dry_run` (render, do not
send) and `force` (ignore the duplicate check). `app/deps.py` builds a `BriefingRunner`
(`app/pipeline.py`) for the request. There is one process (`render.yaml`), whose event
loop interleaves requests at every `await`; its disk is empty after each redeploy.

    request -> lock -> pull -> delivered already? -> STARTED record -> cleanup
            -> collect -> dedup, cluster, rank -> persist analysis -> research (AI)
            -> render -> send -> final record -> push -> unlock -> answer

| component | state | operations | talks to |
|---|---|---|---|
| execution lock, `app/locking.py` | `data/*.lock`, `_held` | acquire (create, stat, unlink, create), release | file system, clock |
| briefing run, `app/pipeline.py` | position in the run, result | run, `_guarded`, `_work` and its steps, timeout | everything below |
| GitHub sync, `app/storage/github_sync.py` | `_shas`, `SyncReport`, the repository | pull, push, `_put`, `_refresh_sha` | GitHub, data directory |
| repository, `app/storage/repository.py` | five CSV datasets | read, write, append, upsert_briefing, cleanup_old_data | backend |
| CSV backend, `app/storage/{backend,atomic}.py` | files, temporary files | read (quarantine), atomic write | file system |
| email senders, `app/mailer/sender.py` | attempt counter; the mailbox | send with retries (Resend, SendGrid, SMTP in a thread) | provider |
| AI client and service, `app/ai/*` | semaphore, attempt counter | complete_json, research_all, research_brand_radar, creative_spark | OpenRouter |
| collectors, `app/collect/*` | semaphore, outcomes, source registry | collect_all, fetch with retries, update_registry | feeds, APIs, repository |
| dedup and clustering, `app/cluster/*` | articles, clusters | deduplicate, cluster_articles | |
| topic identity, `app/cluster/topics.py`, `app/rank/history.py` | topics.csv, trend_scores.csv | reconcile, merge_topic_history, load_previous_scores | repository |
| ranking, `app/rank/*`, `app/brands.py` | scores | select_global_top, select_brand_radar | |
| API, security, config, `app/{main,security,deps,config}.py` | settings | authenticate, wire | |
| rendering, logging, errors | none | formatting | |

What is hard, and what correct means:

* **Lock.** Crashes leave the file behind, the clock decides when it is stale, and the
  stat and unlink of `_break_if_stale` are separate system calls. Correct: at most one
  run inside; nobody removes another's file; a dead run's file does not block for ever.
* **Run.** Sending an email and recording it cannot be atomic; the timeout, a crash, a
  redeploy, a lost answer or a failed write may fall between any two steps, and the pull
  can replace the record by an older one. Correct: no answer or record claims an email
  that was not delivered; no day gets two, save where the protocol cannot know; every
  request is answered and frees the lock.
* **Sync.** Optimistic concurrency by blob sha against other writers, lost answers and
  retries, a sha that is kept before the content it stands for. Correct: a push loses no row
  except where the code chooses to overwrite or the pull broke off, and its report says of every
  file what became of it.
* **Storage.** Crashes, power losses and full disks between two system calls; damaged files;
  a pull that writes in place; retention. Correct: a write takes place at once or not at
  all, a row leaves the file for a reason only, a damaged file is not replaced unnoticed.
* **Topic identity.** The identity of a story over days of rewording, reruns, missed
  days. Correct: a story keeps one id and the score it is compared with is its own.
* **Collection.** Concurrent feeds under a semaphore, retries, exceptions that nothing
  catches, tasks that outlive their channel. Correct: one source costs one source, slots are
  given back, the registry depends on the configured order and not on that of the answers.
* **Dedup, clustering.** Three passes with an index that is not kept up to date, greedy
  clusters. Correct: nothing disappears for a worse copy, every article is in one cluster.
* **Brand Radar.** A greedy assignment. Correct: no story twice, caps respected, nobody that
  was passed over would have fitted better, no dependence on the order of the input.
* **Research.** Two gathers under one semaphore, nested retries, an exception in one task.
  Correct: slots are given back, a topic that gives up costs itself, a refusal has its reason.
* **Senders.** Answers that get lost, a thread that cannot be stopped. Correct: at most one
  copy per attempt, no acceptance without a copy.

## 2. Modules

| module | models |
|---|---|
| `ExclusiveRun` | abstract: runs enter an empty region and leave it |
| `ExecutionLock` | `app/locking.py`, one action per system call, several processes, crashes, time |
| `BriefingRun` | `app/pipeline.py` with the parts of the repository, the sender and the lock it depends on |
| `GitHubSync` | `app/storage/github_sync.py`, one action per request to GitHub |
| `TopicIdentity` | `app/cluster/topics.py`, `app/rank/history.py` and their callers in `app/pipeline.py`, over several runs |
| `CsvFile` | what a dataset's file can hold, and what a torn write may leave of it |
| `AtomicFile` | abstract: a write takes place at once or not at all |
| `Storage` | `app/storage/{repository,backend,atomic}.py`, a system call at a time |
| `Collection` | `app/collect/*`: channels, feeds, queries, retries, the source registry |
| `Curation` | `app/cluster/{dedup,clusterer}.py` as functions on sequences of articles |
| `Intake` | `Collection` and `Curation` composed: from the sources to the stories |
| `BrandRadar` | `app/rank/brand_ranker.py` with the scores it sorts by |
| `Research` | `app/ai/{client,service,briefing,brand_briefing}.py` and the minimum of `app/pipeline.py` |
| `Sending` | abstract: what a run may rely on when it sends its message |
| `Mailer` | `app/mailer/sender.py`: four senders |
| `Delivery` | `BrandRadar`, `Research` and `Mailer` composed: from the ranked stories to the message |
| `MC...` | values of the constants for TLC |
| `..._proofs` | theorems about the module of that name; `Delivery_proofs` also has those about `BrandRadar`, `Research` and `Mailer`, `Intake_proofs` those about `Collection` |

How they fit together: `BriefingRun` is the life of a request. Its lock is `ExclusiveRun`,
which `ExecutionLock` implements; its pull and push are `GitHubSync` request by request; its
records are rows of the file of `Storage`; its `Collect` is `Intake`, then `TopicIdentity` and
the ranking of `Delivery`; its `Research` and its send steps are the rest of `Delivery`, whose
`Mailer` implements `Sending`.

**ExecutionLock.** `file` is the run whose file exists, `age` its age, `pc` the position of
each run in `acquire()`/`release()`, `hold` the time since its `_create`. `TryCreate`,
`CheckAge`, `BreakStale`, `CreateAgain` and `Release` are `os.open`, `stat`, `unlink`,
`os.open` and `unlink`. Both methods are synchronous, so a run between two system calls
keeps its process's event loop (`Scheduled`); runs of other processes interleave. `Crash`
drops the runs of a process and leaves the file; `CreateFails` is a `_create` that cannot write
into the file it has made, which also leaves it behind. The age is capped at `TTL`, since nothing
distinguishes older files. `MaxHold` says how long a run may stay inside; the code does
not bound it (the push of the `finally` clause follows the 600 s timeout), and a run that
stayed longer than the TTL would remove its successor's file (`app/locking.py:71`).

**BriefingRun.** `run[r]` is a request (`pc`, flags, attempts, result), `local` and `remote`
are the briefing records per day in `briefings.csv` here and at GitHub, `inbox` counts the
messages the provider took for each day, `inflight` the given-up requests whose message
may still be delivered. Actions are the stretches between two awaits: `Request` (run id,
date, lock), `Pull`, `AlreadyCompleted`, `Begin` (STARTED record and cleanup), `Collect`
(collection, ranking, persistence), `Research` (AI, the three topic minimum, rendering),
`SendAccepted`, `SendUnacknowledged`, `SendRejected`, `SendFailed`, `RecordOutcome`,
`Push`, `Return`, and around them `Timeout`, `LateDelivery`, `Crash`, `Redeploy`,
`LockExpires`, `NextDay`. `excused` is history: the days for which an acceptance went
unrecorded or a delivered record was replaced. It lets `OnceUnlessExcused` say exactly
when a second email is possible.

**GitHubSync.** A file is the set of rows it holds (the runs' own and foreign ones) and a sha
is the content it digests. `local`, `remote`, `shas` (`_shas`), `depth` (how many `_put` calls
are nested) and `report` are the state of the code; `base` (what GitHub answered to the pull),
`torn` (the files of which the pull kept the sha and not the content), `dropped` (the rows the run
itself took out) and `retried` are history, kept for the properties. A pull is `PullFile`,
`PullNothing` or `PullBreaks`: the sha is stored before the content is decoded and written, and
a failure in between ends the pull and not the run. `WriteFile` rewrites a file any number of times
between pull and push and may leave rows out, as the retention, the merge of topics and the
overwriting of the articles do. `PutAccepted` is GitHub's side of a request and `PutReturns` the
way of its answer back through every nested `_put`; `PutConflict` is a 409 of any cause or a 422
without sha, `RefreshSha` the refresh followed by the recursive `_put`, `PutLost` every other
failure, whether GitHub has carried the request out or not; `CutShort` is a cancellation or an
exception within the pull or the push. As in the code, every conflict is answered with another
`_put`, and what a nested one fails at is in no report. The code does not bound the nesting;
`MaxNested` does, for TLC and as a parameter of the proofs.

**TopicIdentity.** `topics` and `scores` are the rows of topics.csv and trend_scores.csv, `today`
and `run` the date and number of the current run. A run is `CleanTopics`, `CleanScores`
(the retention, one file after the other), `Rank` (clusters are selected and look up their
earlier score), a `Reconcile` for each cluster (one turn of the loop of `reconcile()`, global
clusters first), `WriteTopics` (`merge_topic_history`) and `WriteScores`; `Abandon` ends it between
any two of these. `LoseTopics` and `LoseScores` are files that cannot be read or that a
redeploy took, `NextDay` is the calendar. A cluster is its headline. `Near` is `same_story` and `Mint`
is `make_topic_id`; equal sets of words mint one id and match. Which of several matches has the
highest cosine depends on the words of the whole run and is left open, and so is which clusters
are made and selected, but for what `cluster_articles` guarantees: an article that matches a
cluster's headline joins it, so headlines of one section are of different stories. Not covered: the
61st article of a story, which starts a second cluster, and headlines without a single content
word, which match nothing, themselves included. The properties are stated for a similarity that is
transitive (`StoriesAreClasses`), so that "story" has a meaning; the code's need not be.

**Storage.** The file of one dataset, any of the five, chosen at the start (the datasets share no
file and no temporary file). `file` is what a reader finds, `disk` what a power loss may leave,
`tmp` the temporary file and whether it was forced to the disk, `held` what is being written,
`damage` what was done about a damaged file (history: nothing, a report without a copy, a
copy), `at` the place in the `Plan`, which is what a run does to the file, in
the order of `app/pipeline.py`. `OpenTmp`, `WriteRows`, `Sync`, `Check` and `Replace` are the
steps of `atomic_write_csv()`; `Read`, `Cleanup`, `Rewrite` and `Overwrite` the repository's
operations, each with the quarantine of `read_raw()`, whose copy may fail, and which goes on then;
a power loss may take a copy, since nothing forces it to the disk; `PullOpens` and `PullFills` the
`write_text` of a pull. A row is a day and a form: valid, invalid (skipped by `read`, kept by
the cleanup, which works on raw rows) or ragged (more cells than the header: `read` drops
them, `DictWriter` raises on them). The merge by id of the topics is in `TopicIdentity`.

**Collection, Curation, Intake.** A source is a feed or a query and answers with articles, answers
with none, fails, or raises something `fetch()` does not catch. `StartChannel`, `FetchFeed`,
`FetchQuery`, `TryAgain`, `FetchReturns`, `FetchRaises` and `MergeChannel` are
`collect_section()` and its collectors; feeds run together under `free`, queries in turn. After
`FetchRaises` the other tasks of the channel go on for nobody and hold their slots, beside
those of the next section. `UpdateRegistry` folds the outcomes into the failure counts. `Curate`
is one stretch of code without an await: `Deduplicate` (by URL, by hash, by title with the token
index as the code keeps it) and `Cluster` (the stable sort, the greedy loop and the sort of the
clusters: `Sorted`, `Grouped`, `LargestFirst`), which look into the registry as it was *before*
the collection. The loops of the code are folds over the sequence they go through. That a source is
one entry of one channel's list is an assumption (`StagesAssumption`). A headline is the set of its words: near duplicates are those of which one's words
are all in the other's, the same story is a number of shared words that are no stopwords. What
the finer measures of `similarity.py` make of a pair is abstracted to that.

**BrandRadar.** The pairs of a brand and a story are gone through by total score, relevance and
names. The scores are exact, as integers: relevance from the weights of matching words (in
twentieths) or the share of articles the brand's queries brought (per cent), velocity from the
day before, clamped, and the weighted sum. The four signals that no brand enters are one number, the
story's `appeal`. Since the total comes first in the order, the comment at
`app/rank/brand_ranker.py:52-53`, that a story found by provenance "always loses to a story whose
wording genuinely matches", is right of equal totals only. The integer order has exact ties where
floating point may break them by rounding.

**Research.** `stage` is the progress of `_research()`, `job` the task of each topic, `call` and
`round` the nested loops of `complete_json()` and of the validation, `free` the semaphore both
gathers share. `GlobalsFail` is the error raised before the brands are tried, `Raise` a 200 that is not
JSON, which nothing catches and which ends the research of all topics, the verified ones included
(`stage = "error"`); a cut from outside is told apart from it (`stage = "cut"`).

**Mailer.** `attempt` is the loop's counter, `copies` the messages the provider took, `told` the
result. `Taken` followed by `Unconfirmed` is an acceptance that got lost: over HTTP, or in
the SMTP dialogue after the data, QUIT included. `CancelMail` may leave an SMTP thread
behind (`thread`), which `ThreadEnds` brings to its end.

**Delivery.** `Assign` steps the radar, `Select` takes the best of the Global Pulse and starts the
research, `Compose` makes the blocks of the message (`blocks`) and starts the sender, `Cut` is the
timeout or the death of the process. Topics of the two sections are different values, though
one story may be in both. What nothing reads after the selection is forgotten
(`ForgetRanking`), so that states that differ in nothing else are one.

## 3. Runs

| run | instance | result |
|---|---|---|
| `lock_safe` | 3 requests, TTL 3, stays of at most 2; one process with two faults (a death, a full disk), or two without | passes |
| `briefing_all` | 2 requests, all flags, 2 days, retention 0, 2 attempts, all faults | passes |
| `sync_all` | 2 files, 2 runs, 1 foreign commit, at most 2 rows a file, at most 2 nested requests | passes |
| `topics_all` | 2 stories, one under 2 headlines, 4 days, 3 runs of at most 2 clusters, retention 2, all faults | passes |
| `storage_all` | every dataset, 2 days, retention 0, three contents a pull may bring, all faults | passes |
| `intake_all` | 4 channels with 4 feeds and 2 queries, 1 slot, 2 attempts, 7 articles | passes |
| `delivery_all` | 2 brands, 3 stories, 3 global topics (2 taken), 2 slots, 3 attempts, 2 rounds, minimum 3, 4 senders | passes |
| `briefing_forced` | 3 requests, 1 day, no faults | `NeverSentAgainUnforced` violated |
| `sync_failed_pull` | 1 file, 2 runs, no other writer | `HistorySurvives` violated |
| `delivery_not_json` | as `delivery_all` | `OneTopicCostsOneTopic` violated |
| `topics_reworded` | as `topics_all`, without faults | `RunningStoriesHaveMomentum` violated |
| `topics_both_sections` | as `topics_all`, without faults | `UntouchedHistoryKept` violated |

*Why the bounds are enough.* The lock has one file, so a holder, a breaker and a third
that profits from the mistake are all the roles there are; TTL 3 leaves room for a stay
that ends before, at and after it. A second email needs two requests; two days are needed
for the retention and for a request that outlives its date, and retention 0 is the
boundary at which yesterday's record is removed by today's run. Two attempts distinguish
a retry from the last attempt. Two files let one succeed, break off or be left out while the other
does not; two runs and a foreign commit give a sha of an earlier version, a conflict in the first
request and, since GitHub may answer 409 without a mismatch, one in each retry; two rows per file
make the third too large; two nested requests are a retry and the retry of a retry. For topics, two headlines are a rewording and a
second story is what an id could be confused with; two clusters are one story in both sections or
two in one; three runs create a topic, reword or claim it, and look back at it; four days with
retention 2 leave room for a missed day and for an expired row. In `topics_all` clusters are made of
today's articles only (`MaxAge = 0`): an older article only moves a `first_seen` back. For storage,
a pull brings each kind of row and of damage, two days with retention 0 let a row expire while a ragged one
stays, and runs follow each other without a bound. For the intake, one slot
makes a slot that is not given back, or is kept by a channel given up, starve the next; the
domains are shared by sources that answer and sources that fail; the articles hold each kind of
repetition, one that only the stale token index misses, and a story one article larger than a
cluster. For the delivery, two brands want the same three stories with two places each, so that
a brand fills up, loses a story to the other and gets one by provenance; one of three global
topics is left out and one cannot be cited; with two slots one topic waits; the minimum of three
needs both sections. The proofs remove the bounds for the safety properties they cover.

*What the passing runs show.*
`lock_safe`: `MutualExclusion`, `ReleasesOwnFile`, `RefusedByFreshFileOnly`,
`AbandonedFileIsCleared` and the refinement `ImplementsGuard`, under `LockInv`.
`briefing_all`: no record or answer claims an email that was not delivered
(`RecordsAreTruthful`, `SuccessIsTrue`); a second email needs an excuse
(`OnceUnlessExcused`); a delivered record is replaced only by a forced run, the pull, a
redeploy or the retention (`DeliveredRecordSurvives`); runs exclude each other, push
included (`OneRunAtATime`, a refinement of `ExclusiveRun`); each ends (`EveryRunEnds`).
`sync_all`: a first request carries the sha its own pull read, and a file that was pulled whole
still has the rows that the run did not take out (`SyncInv`); a file reported as pushed has its rows
in the repository, and one in neither list was absent or had a second request that failed
(`ReportIsTrue`); a row the run did not take out itself disappears only in a retry after a conflict,
and then it is none the run had pulled, or where the pull broke off (`RowsLostOnlyAfterRefresh`).
`topics_all`: the files keep one row per story and section and ids that belong to one story
(`TopicInv`), every score has its topic (`ScoresHaveTopics`), a cluster is compared with its own
story's last score (`MomentumIsOwn`) and finds it if its words do not change
(`SteadyStoriesHaveMomentum`), and no topic's history is lost unless the other section uses its
id (`TopicHistoryKept`).
`storage_all`: what is renamed over the file is complete, on the disk and computed from the file it
replaces (`StorageInv`), so the write implements an atomic one (`ImplementsAtomicFile`); rows
leave for a reason (`RowsLeaveForAReason`), and no write replaces damage that no read has reported
(`DamageIsReported`).
`intake_all`: a channel that returns has the articles of each source that had any and one outcome for
each (`OneSourceCostsOneSource`), slots are conserved and the channels come in turn (`CollectionInv`), the registry has the
failures after each domain's last success in the configured order (`RegistryFollowsOrder`), no article
disappears for a worse copy of it (`KeptIsBest`), each is in one cluster, headed by its most
reliable article (`ClustersAreSound`), and the collection ends (`CollectionEnds`).
`delivery_all`: the assignment is in order and without doubles (`RadarInv`) and stable
(`NoBlockingPair`); no slot is lost and the result is what was verified, or nothing after an
exception (`ResearchInv`), a refusal has its reason
(`RefusedForAReason`); the message holds what was verified, once, under its own brand
(`LetterIsSound`); the senders' books are right (`MailInv`) and each implements `Sending`
(`ImplementsSending`); the run ends (`DeliveryEnds`).

*What the violated ones show.*
1. A forced dry run of a delivered day writes `SKIPPED` over `SENT`; the next ordinary request
   sends the briefing again (`app/pipeline.py:291`, `tests/test_idempotency.py:3`).
2. A redeploy followed by a failed pull ends with the history in the repository replaced by one
   run's rows (`app/storage/github_sync.py:203-206`, `README.md:151-152`).
3. A story that is reworded overnight gets no momentum: `_rank` looks its score up by the minted
   id, `reconcile` restores the id only later (`app/pipeline.py:378`, against
   `app/cluster/topics.py:3-9`). The order that `_persist_analysis` pins makes the files agree, which
   `ScoresHaveTopics` confirms, but not the lookup.
4. A story selected in one section takes away the other section's topic with the same id
   (`app/cluster/topics.py:126-127`, docstring at 125), and that section's `first_seen` starts again.
5. A 200 of the model that is not JSON ends the research of every topic
   (`app/ai/client.py:126`, against the docstrings at 89-90 and at `app/ai/service.py:71-72`).

*What the model has and no run reports.* The passing properties permit these by name or leave them
open, and they are worth a reader's attention all the same.
- The pull keeps the sha of a file before it decodes and writes the content. A full disk in between
  leaves a sha that GitHub accepts and a file without the rows it stands for, and the push replaces
  them (`app/storage/github_sync.py:121-125`; the excuse `torn` of `RowsLostOnlyAfterRefresh`).
- A 409 that stays a 409 makes `_put` call itself without end (`app/storage/github_sync.py:199`; the
  comment at 194-196 speaks of one retry).
- When the recovery copy of a damaged file cannot be made, the run goes on and the next write replaces
  the file (`app/storage/backend.py:83-84`; `docs/PRD.md:1272-1273` asks to preserve the file, and to
  copy it "if possible").
- A row with a surplus cell is skipped or trimmed by `read`, but the cleanup writes raw rows back, and
  `DictWriter` raises on it: each run that has something to remove fails at that
  (`app/storage/repository.py:116`).
- A redirect loop, or a body that cannot be decoded, is not among what `fetch()` catches: it takes its
  whole channel with it (`app/collect/rss.py:73`, docstrings at `app/collect/rss.py:6` and
  `app/collect/base.py:47-48`).

*Fairness.* `ExecutionLock`: time passes, requests keep coming (the daily cron) and a request
that is served goes on. `BriefingRun`: `WF` of each request's steps, since every await ends
in an answer, an error or its own timeout (each client sets one); nothing is assumed of
faults, of new requests or of the calendar. `Intake`: `WF` of the collector's own steps and, for
each source, of "another attempt, a return or an exception" together: `httpx` has a timeout, the
pauses end and the semaphore is first come, first served, but which of the three follows an
attempt is open, so that a fetch ends only because its attempts are counted. `Delivery`: `WF` of the selection, of each topic's task, of the turns between the sections and
of the sender, for the same reasons. No fairness says that an attempt succeeds, or that it
fails: that the loops end comes from their counters. `TopicIdentity`, `Storage` and `GitHubSync` have safety properties only; that a push
ends is not one of them, because it need not (the 409 above).

*Deadlock* is not checked where the system stops: in `briefing_forced`, where without fault and with
one day all requests may have been served; in the runs of `TopicIdentity`, which end with the last
run; in those of `Intake` and `Delivery`, which are one run. In the others something can always happen
(a redeploy, a new request).

## 4. Proofs

**Lock.** `Healthy` is the one assumption about the environment: `MaxHold < TTL`, and a process may
die, or meet a full disk, only in a one-process deployment. `LockInv` is inductive under it. Mutual exclusion alone is
not: one has to know that the file of a run inside is its own and as old as its stay, so
that it is never found stale, and that a file found stale is still the abandoned one when it
is unlinked, because in one process nobody else runs in between and with several there are no
abandoned files. From `LockInv` follow `MutexHolds`, `ReleasesOwnFileHolds`,
`RefusedByFreshFileOnlyHolds` and the refinement `ImplementsGuardHolds`; `TypeCorrect` needs no
assumption.

**Run.** `RunInv` is inductive for `BriefingRun`, for any set of requests, flags and faults and any
number of days, attempts and retention days. Besides the properties themselves it says that
an active run is the holder of the lock; that a dry run never reaches the sender and that at
`record` the email of any other is in the mailbox; that from `collect` to `record` the day's record is not a delivered one (so that replacing it
excuses nothing); that given-up messages belong to excused days; and that an
unexcused day has no email, or exactly one with a delivered record or with its run at `record`.
The theorems are `RunInvariant`, `RecordsAreTruthfulHolds`, `SuccessIsTrueHolds`,
`OnceUnlessExcusedHolds`, `OneRunAtATimeHolds` and `DeliveredRecordSurvivesHolds`. The last is about
steps; it follows from the invariant and from the days of the requests not being in the future
(`DaysArePast`), so that a cleanup, which counts from its request's day, removes nothing that the
calendar keeps.

**Sync.** `SyncInv` is inductive for `GitHubSync`, for any sequence of distinct datasets and any bounds.
Up to its first conflict a file's sha is what the pull read, which makes GitHub's comparison a check
of the version this run has extended (`FirstShaIsPulled`). If the pull took the file over whole, every
row of that version is still in the local file or was taken out by the run (`KeepsPulledRows`); where
it broke off nothing is known of the file, and `torn` says so. A sha is only known of a file that
exists (`ShasAreOfFiles`). The report needs the position in the loop: what is behind it is in a list, was
absent, or was tried again (`ReportIsTrue`), and what lies ahead is in none. `RowsLostOnlyAfterRefreshHolds`
follows: a request that GitHub accepts without a refresh was compared with the version whose rows
the file keeps.

**Topics.** `TopicInv` is inductive for `TopicIdentity` when the similarity is transitive. Its parts lean on each
other: an id is minted from a headline of the story whose row has it, so an id names one story; a
claimed id is that of a topic made in this run, so a cluster that finds its stored topic claimed
knows the other section took it; hence each topic of the run replaces the stored one of its
story and section, which keeps `topics.csv` free of doubles. `IdsMeanOneStory`,
`ScoresHaveTopicsHolds`, `MomentumIsOwnHolds` and `TopicHistoryKeptHolds` follow, and
`SteadyStoriesHaveMomentumHolds`, which also needs that of some rows one is of the last run (the
natural numbers are well founded).

**Storage.** `StorageInv` is inductive for `Storage`, for any retention, number of days and pulled contents. The
temporary file equals what is being written once its rows are in, and is synced before it is
renamed; what is written was computed from the file that is still there (`HeldIsCurrent`); and whoever
is about to replace a damaged file has read and reported it, with a copy or without (`Noticed`), for `articles.csv`, which is
overwritten unread, because the cleanup before it has read it. The last is a fact about the plan
of a run: without it a reordering of the pipeline would go unnoticed. `RowsStay`,
`DamageIsReportedHolds` and the refinement `WritesAreAtomic` follow.

**Intake.** Two arguments, for any sources, channels, slots, articles and registry.

`CollectionInv` is inductive for `Collection` (`CollectionIsSound`). That a channel returns all it
got is not: between the channels one has to know which channels are over (`ChannelsInTurn`), that
what is in the result belongs to channels that are (`ResultIsReturned`), and that the outcomes are
in the configured order, each source once (`OutcomesInOrder`); that the slots in use are the feeds
being fetched, those of a channel given up included, is a count that each step changes by at most
one. Hence `OneSourceCostsOne` and `RegistryFollowsTheOrder`.

`Deduplicate`, `Sorted`, `Grouped` and `LargestFirst` are folds, and so are the channel's merge and
the registry's count. A fold is defined by recursion over sets of places, and a statement about it
for every input needs induction, which the library states with an operator as parameter. Here each
fold is first shown to have a value for each set of places and is then read as a sequence of
values, one for each element, the next made from the last by one turn of the code's loop (the
lemmas `...Runs` of `Curation_proofs` and `Intake_proofs`). What each turn preserves holds at the
end, because the set of places where it holds has no least exception (`CountingUp`). For the removal of
duplicates that is: every article seen so far has, in the list, one that stands for it, linked to
it by repetitions and no worse, and no URL is twice in the list; "stands for" is transitive, which
takes it through the three levels, the stale index included, since an entry is only ever replaced by a
better one. For the clustering: the sort is a rearrangement with the more reliable in front; each
article is in one cluster, none is too large, and the first article of each is as reliable as any in
it, since later ones come later in the sort; and the final sort only moves clusters.
`TheBestIsKept` and `TheClustersAreSound` carry this to the state, where the result and the old
registry no longer change once the collection is over.

**Radar.** The order of the pairs is strict, total and transitive for any profiles
(`OrderIsStrictAndTotal`), since names break the ties. Everything passed over therefore comes before
everything that is left, and `RadarInv` is inductive (`RadarInvariant`): a pair passed over lost
its story, or its brand's last place, to pairs that came first.

**Research.** `ResearchInv` is inductive for any finite set of topics and any bounds
(`ResearchInvariant`). Only the topic that takes or returns a slot changes the number of those that
have one; and a topic with a job belongs to the section being worked on, so what was verified of
the Global Pulse stays as it is while the brands are researched. An exception leaves no job and no
result (`ResultIsVerified`): that it takes the verified topics with it is what `delivery_not_json` shows.

**Delivery.** The three invariants hold together in the composition, with one that ties the blocks to what was
selected and then to what was verified (`IInv` in `Delivery_proofs`): while there is no message
the blocks hold the selections, at most `TopN` and `PerBrand` of each and no story twice, since
the radar uses none twice; when the message is made they hold what is verified, and the
research is over. Hence `LettersAreSound`, `AssignmentIsStable`, `RefusalsHaveReasons`,
`MailIsAccounted`, and the refinement `SendersSend`.

The assumptions of all these are the named ones of the modules (bounds are natural numbers, names
differ) and the two stated above.

Every safety property of a passing run is stated by a theorem. Only model-checked are the liveness
properties (`AbandonedFileIsCleared`, `EveryRunEnds`, `CollectionEnds`, `DeliveryEnds`):
they rest on fairness, and so on `ENABLED`, which is out of the prover's reach. The violated
properties are TLC's counterexamples.

## 5. Not modelled

* Rendering, prompts, citations and the MIME message, logging, parsing of feeds, dates, URLs and
  configuration, authentication: formatting or conversion without state. The lists of feeds, queries
  and brands are constants.
* The measures of text similarity (token set ratio, IDF, cosine) and the four signals of a score that
  no brand enters: real arithmetic over strings. They are a relation, sets of words, or one number.
* `app/rank/niche_ranker.py`, which the pipeline no longer calls.
* In `BriefingRun` the other four datasets, because they do not decide whether an email is sent;
  a file is pulled and pushed whole there. `GitHubSync` has the requests of all files but not what is in
  them, `Storage` the contents but one file.
* Two processes writing one data directory: `render.yaml` starts one, and `ExecutionLock` says
  what keeps runs apart. `Storage` has one writer for that reason.
* Known gaps of the code that no run shows: a holder that outstays the TTL removes its successor's
  lock file (every run and proof assumes that none does); two processes may both break a stale file
  when one of them has died. One that the properties permit by name: a file whose nested `_put` fails
  is in no list of the report (`ReportIsTrue`).
* Which of several trend scores of one id and one day wins, since the values of scores are left out.

What could come next: the composition of `Storage` with `GitHubSync` (a pull that tears one file and a
push that publishes it), and the intake with a similarity that is an arbitrary relation.
