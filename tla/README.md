# Letta Open ADE: TLA+ models, model checking and proofs

This directory specifies the parts of Letta Open ADE whose correctness depends on the order in
which independent actors act: the API, runtime workers, memory-delivery loops, the native memory
service, the browser and the clock. Each module is translated from the Python source; `PROJECT.json`
maps every definition to the lines it stands for. TLC checks the modules on small instances; TLAPS
proves the theorems in the `*Proofs` modules for every value of the constants.

Paths below are relative to `src/services/ade-api/src/ade_api/features/agent_runtime/` unless they
start with `src/`.

## 1. The system and its parts

| Component | State it keeps | Operations | Interacts with |
|---|---|---|---|
| **Run lifecycle** (`run_service.py`, `run_retry.py`, `worker*.py`, `persistence/{runs,run_lifecycle,leases,conversations}.py`) | run, attempt and Retry-receipt rows, one lease row per conversation, conversation version, transcript; a claim in worker memory | accept turn, cancel, saved-input Retry, claim, start / finish an attempt, back off, commit a reply, finish unsuccessfully, heartbeat, drain | sessions (archive), turn execution (its outcome), outbox (enqueue in the same transactions), Compose restarts |
| **Sessions, subjects, definitions** (`agent_studio_sessions.py`, `studio_catalog.py`, `definition_service.py`) | conversations, memory subjects, definition versions | create, archive, restore, rename, new version | run lifecycle: archive races with accepted turns |
| **Memory delivery outbox** (`memory_delivery_worker.py`, `persistence/memory_deliveries.py`, `turn_sources.py`, `integrations/hindsight*.py`) | one delivery row per message with sequence, status, check count, errors, lease; a claim in a consumer loop | enqueue, claim, look up, submit, retry, record, record error, request Retry | native memory service over HTTP, never inside a transaction |
| **Memory bank initialization** (`memory_banks.py`, `persistence/memory_relationships.py`) | relationship row: new / initializing / ready / missing / failed, initialization lease | ensure ready, claim initialization, create, configure, complete, mark missing | outbox and recall wait for it; the service may lose a bank |
| **Run events and monitoring** (`events.py`, `worker_events.py`, `presenters.py`, `src/apps/ade-web/.../use-run-monitor.ts`) | append-only event rows, the browser's view of a run | append, stream, poll, select | run lifecycle transactions append; two followers read |
| **Worker presence** (`worker_health.py`, `persistence/workers.py`) | heartbeat row per worker | heartbeat, health check | admission of turns |
| **Turn execution** (`turn_execution.py`, `executor.py`, `turn_recall.py`, `context.py`, `compaction*.py`, `turn_compaction.py`) | one attempt's context and tool loop | recall, assemble, call model, tools, plan compaction | run lifecycle sees its outcome |
| **Tracing, private observations** | observation rows | append | harmless to the run by construction of the code |
| **Historical native memory, trials** (`natural_memory_*`, `memory_commit.py`, `history_trial.py`) | old records | read | none: ADR 0072 removed the execution paths |
| **Model Router** (`src/services/model-router`) | catalog snapshot, dispatch lease | refresh, invalidate, forward | every model call |
| **Test Center** (`features/test_center`) | run files, child process handles | start, cancel, shutdown, recover | one child process per run |
| **Prompt / Schema Center** | files in registries | create, archive, restore, purge | single user |
| **Comment / Label Lab** | none | build a request | Model Router |
| **Agent Studio web client** | selection, cached rows | select, send, refresh | API |
| **Migrations, scripts, evaluation** | - | operator tooling | - |

What is hard about it:

* *Run lifecycle.* Two workers, a cancel request, a Retry and an archive may meet at one run. A worker
  holds its claim across provider calls of minutes, during which its lease may be taken over. The
  process may stop between any two transactions. Correct means: one active run per conversation, the
  transcript answers in order, nobody but the live lease's holder writes, attempts stay in the user's
  budget, cancel wins or loses as a whole, and no accepted turn is left behind.
* *Outbox.* No HTTP call runs in a transaction, so answers can be lost or late and loops can overlap.
  Correct means: messages of one relationship reach the service in order, no extraction nobody asked
  for, rows that tell the truth about the service, and a blocked row that a person can reopen.
* *Banks.* One-time initialization by whichever caller wins, under a lease that guards the row and not the
  bank. Correct means: nobody adopts a bank that something else filled, nobody takes an established
  relationship back, and a dead initializer is replaced.
* *Turn execution.* Version, messages and summary are read one after the other, planner, compaction and composer
  each decide from them which messages count, and another worker may be doing the same, or commit, at any moment.
  Correct means: the model is never asked with part of the dialogue missing, a reply that is committed was asked
  for with nothing else, and a failed memory lookup never turns into an answer.
* *Transactions.* Some twenty kinds lock up to five rows each, some through foreign keys. Correct means: no
  circle of waiting transactions, and messages that are created in the order in which they are stored.
* *Monitor.* A stream, a poll, commands and reads answer in any order into one page. Correct means: nothing of
  another selection is shown, a live run is followed, its end is seen, and following stops.
* *Test Center.* A thread per run and the API's handlers share one record; the lock is not held while the child
  is launched, read from or waited for. Correct means: a cancelled run never passes, every run gets a result.

`PROJECT.json` lists the hazards line by line, with the properties that cover each one, or the reason why none does.

## 2. Plan

In order, the most important behaviour first; all of it but the last line is done.

1. `RunLifecycle` with the abstract `ConversationTurns`: model, runs, invariant proofs.
2. `MemoryDelivery` with the abstract `OrderedOutbox`: model, runs, invariant proofs.
3. `TurnExecution`: the inside of an attempt, with the compaction planner as operators; model, run, proofs.
4. `MemoryBank`: initialization lease, late requests, a service that may lose the bank; model, run, proofs.
5. `RowLocks`: the level of single locks under `RunLifecycle` and `MemoryDelivery`; model, runs, proofs.
6. `RunMonitor`: stream, poll, commands and selection in the browser; model, run, proofs.
7. `TestRuns`: a thread and a child per run; model, run, proofs.
8. `RunAttemptProofs` and the later sections of `MemoryDeliveryProofs`: attempts and their budget, the transcript, the
   account of native work, and the step simulations of both abstract specifications.
9. Left: Model Router dispatch and the file registries of Prompt and Schema Center, should they come to have more than
   one writer.

## 3. Modules

### `RunLifecycle`

Every transaction of this component locks the conversation row before it reads, so one transaction
is one action. What a worker remembers between two transactions is `proc[w]`: its position (`pc`), the
run and token of its claim, and the copies the code makes once per claim (`prior` = the claimed
`attempt_count`, `base` = the attempt base, `local` = the attempt number within the claim, `open` = the attempt
row it started, `exc` = the exception in flight).

| Code | Model |
|---|---|
| `accept_turn`, `cancel_run`, `retry_saved_input` | `AcceptTurn`, `CancelRun`, `RetrySavedInput` |
| `set_archived`, `set_subject_archived` | `ArchiveConversation`, `RestoreConversation`, `ArchiveSubject`, `RestoreSubject` |
| `RunClaimer.claim` | `ClaimAndCancel`, `ClaimAndExhaust`, `ClaimAndStart` |
| `start_attempt` | `StartAttempt`, `StartRefused` |
| `execute_attempt` + `finish_attempt_failure` | `AttemptFails`, `ExecutionLosesLease` |
| `schedule_retry`, `backoff_sleep` | `ScheduleRetry`, `BackoffElapses`, `BackoffInterrupted` |
| `commit_success` | `CommitSuccess`, `CommitRefused` |
| `commit_failure`, `commit_cancellation` | `FinishUnsuccessful`, `FinishSettled`, `FinishEscapes` |
| SIGTERM, `run_forever`, Compose `restart: unless-stopped` | `RequestStop`, `Exit`, `Crash`, `Restart` |
| lease deadline in database time, `heartbeat` | `OrphanExpires`, `HeldLeaseExpires` |

The order of checks in each handler is the order of the source: a drain beats a cancelled run, which
beats a lost lease. `AcceptTurn` is the locked second phase of `accept_turn`; its unlocked first phase puts
no restriction on when a request reaches the second, so whatever happens between the two is covered.
`FinishEscapes` is worth a look: `commit_failure` and `commit_cancellation` run inside
`except` clauses, so the `LeaseLost` they may raise is not caught by the neighbouring clause; it leaves
`process_once` and ends the worker process, which Compose starts again.

Abstractions: message content and provider calls are not there (an execution is its outcome); request
fingerprints are not there (a bound key is a replay or a conflict, neither writes); the claim picks any
claimable run, because `SKIP LOCKED` lets it pass over the oldest; an archived subject with an open
conversation is reachable, as in the code.

### `ConversationTurns`

What the person sees: accept, answer, hand back, resume, give up, withdraw, take back. No workers,
leases or attempts. `RunLifecycle` implements it with `turn` read off the run rows and `transcript` the
messages.

### `MemoryDelivery`

One row per message; a consumer loop's position between two awaits is `proc[w]`. `live` says whether
`lease_expires_at` is still ahead of database time. `sight[d]` is the exact abstraction of
`expected_check_count`: counts only grow, by one per claim, so the number in a Retry request matters only
by being current or not. `native[d]` is the operation in the memory service, external to this
repository and modelled from how `integrations/hindsight.py` uses it and what ADR 0070 requires of it
(a known operation identity is not extracted twice, retry restarts a failed operation, records are kept).
A request whose sender died, timed out or lost its lease becomes `stray`: it is lost, or served at any later time.

| Code | Model |
|---|---|
| `enqueue` + `allocate_sequence` | `Enqueue` |
| reading a delivery, `request_retry` | `Decide`, `RequestRetry` |
| `claim`, `owned` | `Claim`, `Claimable`, `Owns` |
| `_perform`: lookup and branches | `Check`, `Recorded` |
| `start_dispatch` then `submit` / `retry_operation` | `StartDispatch`, `Answered`, `LetGo`, `StraySubmit`, `StrayRetry` |
| `record_native`, `record_error` | `Record`, `Fails`, `RecordError` |
| `_heartbeat`, cancelled task, crash | `LosesLease`, `HeldLeaseExpires`, `OrphanExpires`, `Crash` |

Abstractions: back-off times (a row that may be claimed may be claimed now), payloads, and
the bank checks before the lookup, which count as one more possible error.

### `OrderedOutbox`

Per relationship: the sequence of accepted messages, the set of those remembered, of which only the oldest one missing may
become a member, and whether that one waits for a person. `MemoryDelivery` implements it with `InOrder`, the
rows by their sequence numbers, the retained rows, and the blocked ones.

### `TurnExecution`

The inside of one attempt, which `RunLifecycle` takes as one outcome. No step of `Attempt(w)` writes a row; what the
worker has in memory is `proc[w]`. Text is its token count plus the set of messages it was made from: a
summary carries `told`, the messages whose text went into it, directly or through the summary before it;
a request carries `shown`, the messages in full.

| Code | Model |
|---|---|
| `conversations.get` with the version check, `list_messages`, `latest_summary` in `turn_execution.execute` | `ReadConversation`, `ReadMessages`, `ReadSummary`, `ReadFails` |
| automatic lookup, `lookup_failure_code` | `Recalled`, `LookupFails`, `LookupBreaks` |
| `plan_compaction` | `NeedsCompaction`, `MayKeep`, `IsBoundary`, `CompactionFits`, `Plan` |
| `CompactionExecutor.compact` | `Compacted` |
| `build_hindsight_context` | `Selected`, `RequestTokens`, `Compose` |
| tool loop of `executor.py` | `Answered`, `ToolCalled`, `ToolAnswered`, `AfterFailedSearch`, `ModelFails` |
| deadline of the attempt, `monitor_cancellation`, `heartbeat` | `TimesOut` with `DeadlineError`, `CancelSeen`, `LossSeen` |
| claim, `start_attempt`, `commit_success`, failure transactions | `Claim`, `StartAttempt`, `CommitSuccess`, `CommitRefused`, `Resolve` |

The reads share a transaction but no snapshot: the engine sets no isolation level
(`persistence/database.py:21`), so under PostgreSQL's READ COMMITTED each statement sees what is committed when it runs.
A worker that stalls after the version check may list messages of later turns, and may read a summary that
one of them committed, with a boundary at or past its own input. Nothing in the planner or the composer
refuses that: no dialogue is left between boundary and input, and the request goes out with a summary that
knows what came after the question. `CommitSuccess` then refuses the reply, because the version has moved on.
`DialogueCovered` therefore asks of every request that nothing before its input is missing and nothing is told
twice, and asks for exactly that dialogue of those whose reply can still be committed. `missed` is set by what the
attempt was doing when it failed, not by the error it ended with, so a deadline that is misclassified is seen by
`FailedLookupHoldsInput`.

The planner's loop drops messages from the front until the rest is short and small enough. `IsBoundary` says what it
ends with (the first boundary whose rest may be kept) instead of how it gets there. Abstractions: token estimates
count text only, the trimming of recalled memories and the shape of payloads are left out, and a
request that serializes beyond its limit is one of the outcomes of `ModelFails`.

### `MemoryBank`

| Code | Model |
|---|---|
| `ensure_ready`: loop, sleep, deadline | `Ensure`, `Look`, `Round` |
| `claim_initialization` | `Claimable`, `Claim` |
| `_check_established`, `mark_missing`, `mark_configuration_changed` | `Check`, `Mark` |
| `_initialize`, one service call each | `Probe`, `CreateBank`, `Statistics`, `ConfigureBank`, `Verify` |
| `finish_initialization`, also from the `finally` clause | `Holds`, `Settled`, `Finish` |
| a call that fails, a process that dies | `CallFails`, `Crash`, `LetGo`, `LateRequest` |
| the lease runs out | `OrphanExpires`, `SlowInitializer` |

The bank belongs to the native service (`Created`, `Configured`, `Retain`, `LoseBank`, `ChangeConfiguration` are
external). It may exist before the first caller comes, empty or filled by something else. The fencing token is
the caller that holds it: a caller has one initialization in hand at a time. `damage` is a history of what
happened to the bank from outside, for the properties.

### `RowLocks`

A transaction is a script: the rows it locks, in order, each with the strength of the first lock on it. Inserting a
row takes `FOR KEY SHARE` on the rows its foreign keys name; a script lists such a lock where no stronger one on
that row comes before it. Locks are held to the end. The two claims of queues take their first
row with `SKIP LOCKED` (`Skipping`). `created_at` of a message is `now()`, the time of the transaction's
`BEGIN`, which precedes its first lock (`began`); `InOrder` is the check in `prepare_memory_delivery` that no
antecedent is later than the message. `Refuse` through that check is reachable: a turn or a reply
whose transaction began before its predecessor's committed fails, and is tried again or reported.

### `RunMonitor`

The page's JavaScript from await to await. `runs[c]` is the server's side: for each run the sequence of statuses
its events tell. `tasks` are the requests in flight; an answer may tell any state the server had between request and
arrival. What a continuation captured (a selection, a read, a monitor) it later compares by identity with what
is current; such a guard can only turn false, so it is a flag of the task, or the task is dropped.

| Code | Model |
|---|---|
| selecting a conversation, `refreshSelected` and its answer | `Select`, `ReadAgain`, `RefreshAnswered`, `Refreshed`, `Merged` |
| the effect that starts a monitor for a live session | `Effect`, `SessionLive` |
| poll timer and answer | `Poll`, `PollAnswered` |
| event stream | `StreamTells` |
| the end of a followed run with its readback | `FinishRun`, `FinishAnswered`, `ReadbackAnswered`, `AfterFailedEnd` |
| send, cancel, Retry | `Send`, `Cancel`, `Retry` and their answers; `Serve` is the server's part |
| failed requests | `Fails`, `Refused` |

What the model shows about the page beyond its properties, none of them promised by a document: an
overtaken answer to a poll, a send or a cancellation may put an earlier status of the run back on
display; it is the exception that `SettledRunIsShown` names. A read does not replace a paused run on display
that is active again. After a Retry the new stream replays the old pause, which ends the monitor
of a run that is live again; `LiveRunIsFollowed` therefore excepts runs that were paused. A send
accepted after the person left and came back is followed only from the next read on.

### `TestRuns`

| Code | Model |
|---|---|
| `create_run`, `cancel`, `shutdown` | `CreateRun`, `CancelRun`, `Stop`, `ShutdownRun`, `Exit` |
| `_run_worker` | `Begin`, `Launch`, `StoreHandle`, `ReadOutput`, `Settle`, `Raised` |
| `persist`, `_manifest_record` | `Persist`, `Manifest` |
| `_load_runs` | `Recovered`, `Restart` |

API handlers are coroutines of one event loop and do not overlap; the threads of runs do. `persist` comes after the change
in memory, so a failed write leaves the change in the record and not in the manifest. The API is the first process of
its container: its children end with it. The model shows four things to know of, which nothing
promises otherwise: a cancel that comes before the handle is stored is not told to the child, which then runs
to its own end; a thread that fails reports an error and leaves its child to itself, out of reach of a
later cancel; a run whose first manifest cannot be written stays queued, or running, without a thread until the next
restart (`dead`); and a passed run becomes an error if its last manifest cannot be written.

## 4. Runs

| Run | Question | Instance |
|---|---|---|
| `lifecycle_faults` | do leases, attempts and budgets survive crashes, drains, stalled heartbeats and stale workers? | 1 conversation, 1 run, 2 workers, 2 Retry keys, retry count 0 or 1, 3 faults |
| `lifecycle_turns` | does the conversation keep its contract over turns, archives and Retries? | 1 conversation, 2 runs, 2 workers, 1 Retry key, 1 fault |
| `lifecycle_live` | does every turn, and every cancel request, settle? | 1 run, 2 workers, 1 Retry key, 2 faults, fairness |
| `delivery_order` | are messages delivered in order, and is a blocked relationship one a person can reopen? | 2 messages, 2 loops, 1 decision each, 1 fault, one error exhausts |
| `delivery_retry` | is anything extracted that nobody asked for, or written by a stale loop? | 1 message, 2 loops, 2 decisions, 3 faults, two errors exhaust |
| `delivery_live` | is every message remembered, or a person told, also as `OrderedOutbox` promises it? | 2 messages, 1 loop, 1 decision each, 1 fault, two errors exhaust, fairness |
| `turn_dialogue` | is every message before the input in the request, as summary or in full; does a failed lookup hold the input? | 3 turns, 2 workers, 2 attempts, 1 Retry, 1 fault |
| `memory_bank` | is a filled bank adopted, an established one taken back, a relationship failed without reason; does initialization end? | 3 callers, 2 faults, fairness |
| `row_locks` | can transactions wait for each other in a circle; are messages created in order? | any 3 of 20 transactions, 1 conversation, clock up to 2 |
| `setup_locks` | the same for the transactions that set up sessions and characters (a finding) | any 2 of 4 transactions |
| `run_monitor` | does the page show and follow what it should? | 1 conversation, 1 run that may pause once, 2 requests and 2 polls in flight, 1 failed request, fairness |
| `test_runs` | does a cancellation hold, is nothing left behind, does every run get a result? | 2 runs, 2 faults, fairness |

Why these bounds are enough to be interesting: two workers and one fault give a stale worker next to
the new owner; a second and third fault stall or kill the new owner too. Two Retry receipts on a run with one automatic
retry exercise a budget reopened after takeover. Two turns are the least in which an answer could be
out of order. Tokens are fresh as long as somebody holds them; three are enough
for two holders and one expired lease, so the bound never disables a claim. `MaxErrors` is 5 in
the code and 1 or 2 here: only reaching it matters. Relationships do not share any state that a claim reads, so one of them is enough.
Symmetry is used in the safety runs only. Deadlock is not checked in the
delivery runs, where all rows may be retained and the loops then only poll, in `turn_dialogue`, where all turns may be
settled, and in `run_monitor`, where the run may have ended and the person need not act.

`turn_dialogue`: inputs of 2 tokens and replies of 1 or 2 with room for 3 raw tokens and at most 2 unsummarized messages make
the second turn compact and the third one chain its summary to the one before, also when a turn stays
unanswered and leaves its input in the dialogue; 4 tokens for a compaction let it overflow. Two workers and one lost
lease give two attempts at one reply, the stale one reading and composing beside the new owner and past its
commit, also with the summary of a later turn (1,100,237 states). Three error branches are not reached: `Compose` does
not overflow with these sizes, `ReadSummary` always finds its input among the messages, and `CommitRefused` is never
refused by version or chain while its worker owns the lease. The proofs cover all three.
`memory_bank`: a slow initializer, the one that took over from it and a user of the bank need three callers; two
faults let a stalled initializer meet a lost or late request (154,638 states).
`row_locks`: a circle needs as many transactions as rows that it goes through. Three find every circle of
two and three; that there is no longer one is the theorem `NoCircle`. One conversation makes all of them meet; the clock
has three times, so that a `BEGIN` may lie before, at or after another one's commit (477,110 states).
`run_monitor`: Nil is a selection too, so one conversation has A to B to A; a second one adds only tasks that are
dropped. Two polls in flight let the older answer arrive last (238,183 states).
`test_runs`: runs share nothing but the API process, which two of them show (26,825 states).

### Fairness

* A process that is up makes its next step: each attempt has an absolute timeout, HTTP calls have
  timeouts, transactions end (`WF` on `Work`, `Perform`).
* `run_forever` polls, so something claimable is claimed (`WF` on `Claim`). A delivery claim takes the row with the
  oldest `next_attempt_at`, so no row is passed over for ever (`SF` on `ClaimDelivery`).
* Compose restarts a stopped worker (`restart: unless-stopped`; `WF` on `Restart`).
* Database time passes (`WF` on `OrphanExpires`).
* The native service finishes operations it has begun (`WF` on `NativeFinishes`): external, without it a
  delivery is rightly `processing` for ever.

* `memory_bank`: every await of `ensure_ready` ends, by its deadline at the latest (`WF` on `Proceed`); callers keep coming,
  because a delivery is checked again and every turn looks something up (`WF` on some `Ensure`).
* `run_monitor`: the browser runs effects and timers, and requests are answered or fail (`WF` per kind of
  request). Nothing is assumed of the event stream: it may stay silent for ever, and polling must do.
* `test_runs`: threads go on, workflows end by their own timeouts, and a server that is stopping gets through
  its shutdown. Nobody has to stop, start or cancel anything.

Nothing is assumed of people, of faults (their number is bounded in each run), or of requests without a sender.

## 5. Proofs

`RunLifecycleProofs` proves, for any number of conversations, subjects, workers, runs, keys, tokens and faults and any
retry counts:

* `TypeCorrect`, `LeaseAgreement`, `SingleActiveRun`, `CommittableThroughout`: the invariants of the same runs;
* `SettledForever`, `CancelIsObeyed`, `FencingHolds`: the action properties.

From `RunLifecycleAssumption` only: identities are natural numbers where the model orders them, the null value
is none of them, every conversation has a subject.

The argument is one inductive invariant, `IInv`. None of the properties is inductive alone: that a running run
has its lease row (`LeaseMatchesRun`) needs that no second run of its conversation is active
(`OneActiveRun`), which needs `RowsInv` (an unused row is blank, so it belongs to no conversation) and, when a
worker writes, that a token identifies its holder's run, which is `LeaseMatchesRun` again.
`ActiveRunStaysCommittable` needs `OneActiveRun`, as only the conversation's own run may advance its
version. `CancelInv` (a stored request sits at a running or cancelled run) is what keeps a paused run free of
one. The proof has three step shapes (`ProcStep`, `RowStep`, and `RunningRowStep`), one lemma per
action that cites one of them, and `IInvInductive` that combines the actions. The action properties follow from
`IInv` by the list of writers of a run row (`WritesOrNot`).

`RunAttemptProofs` extends it, on the same assumption:

* `LedgerAgrees` (`AttemptLedger`), `BudgetIsKept` (`AttemptBudget`), `TranscriptIsFaithful`
  (`TranscriptAnswersInOrder`): the remaining invariants;
* `ImplementsTurns` (`KeepsTurnContract`): the initial state maps to the initial state of `ConversationTurns`,
  and every step to one of its steps or to a stutter.

A worker computes its budget once per claim and numbers its attempts from there on, so what it remembers decides
whether the ledger stays right long after the claim. `AttemptInv` states what its memory and the row have to do with each other:
`TokensInv` (no two processes hold one token, so a run has one owner), `ClaimsInv` (as long as
the lease is owned, base, number and open attempt agree with the row; a process that lost the lease may remember
anything) and `BudgetInv` (a pending run stands at the start of an input's budget, and no Retry was asked for at a count
that the row has not reached). `TranscriptInv` adds to the transcript that the input of an active run is
the last message of its conversation, which is what a commit, a withdrawal and the next turn rely on. For the
refinement, `TurnMoves` sorts the steps by what they do to rows and messages: one accepts a turn, one answers it, the
others change at most one row and no message; `MoveIsTurnStep` finds for every such change the step of `ConversationTurns`
that it is, a stutter included.

`MemoryDeliveryProofs` proves, for any number of deliveries, relationships, loops, tokens, errors, Retries and faults:

* `TypeCorrect`, `Ordered`, `RowsAreTrue`, `BlockedCanBeReopened`, `WorkIsAsked` (`NoUnaskedWork`): the invariants of
  the delivery runs;
* `Fenced`: the action property `StaleCheckWritesNothing`;
* `ImplementsOutbox` (`KeepsOutboxContract`): every step is one of `OrderedOutbox`, or a stutter.

From `MemoryDeliveryAssumption` only: a relationship per delivery, tokens that are numbers, at least one error before a
row is given up, and a null value that is no token or delivery.

Its invariant is `IInv` of `MemoryDelivery`. Order is not inductive: a claim only looks at the rows before it, but requests and
answers come long after, so `IInv` says of every row the service may have heard of that it is `InFront`, which nothing takes
away again: retained is final, and `Enqueue` gives a new row the highest sequence of its relationship. What a loop saw is
stale when it records it, so `ProcOK` keeps only what cannot become false: a known operation stays known, a
completed one completed. `OneDeliveryStep` states that for every action but `Enqueue`; `QuietStep`
(rows unchanged) and `LeasedStep` (the row under a lease changes) are its two common cases, and each action's
lemma cites one of the three.

`WorkIsAsked` is bookkeeping over loops, requests and rows. `Work(d)` adds up, for an operation, what the
service has run, what requests on their way may still make it run, and what the row or an open
decision still allows; `WorkInv` bounds the sum by the operation's first appearance plus the decisions made. A step may move
work from one account to the next, and only `Decide` adds to the total. A Retry on its way must not be paid twice: only a loop
that owns the row uses up its `retry` mark, which needs unique tokens and that the loop has seen the mark (`RetryOK`).

The refinement maps rows to a sequence by their numbers. `QueueInv` makes that a sequence: numbers run from 1 without
gap or repetition (`NumberedInv`), and every row that was ever claimed and not reopened has only retained rows before it
(`FrontInv`), so whatever is retained or blocked next is the oldest one missing.

`TurnExecutionProofs` proves `Covered` (`DialogueCovered`), `LookupHoldsInput` (`FailedLookupHoldsInput`) and `TypeCorrect` for any number
of turns, workers, Retries and faults, and for any sizes, budgets and limits; from `TurnAssumption`: they are natural
numbers, there is at least one attempt, and Nil is no worker. `DialogueCovered` is not inductive: a plan starts from a
committed summary and extends it, so the invariant also says that every summary was made from all messages up to its
boundary, which lies before the input of every turn that may still commit (`SummariesComplete`; `TurnsPlaced` gives
inputs and versions their range), and that what a worker holds from its last read on has no gap and ends
before its input as long as its turn may commit (`AttemptsExact`). The second half is where the separate reads
matter: a summary that reaches the input of the reader belongs to a later turn, whose commit has moved the
version beyond the one that the reader's turn was accepted with, and versions only grow. `AttemptLeft` keeps the
number of attempts left from running below zero.

`MemoryBankProofs` proves `NeverAdopts`, `ReasonForFailure`, `Established` and `TypeCorrect` for any number of callers and faults; from
`MemoryBankAssumption`. The lease protects the row but not the bank, so the invariant says what a caller may have
learned before it lost the lease: `RowsAgree` (who has passed the look found the row established, and only
an established bank holds this relationship's memories), `ForeignKept` (nobody has got beyond the look
at a filled bank), `OutsideOnly` (as long as nothing happened from outside, what the callers created and
configured stays) and `ReasonsHeld` (whoever is about to give the relationship up has a reason, or finds the row
established and no longer may).

`RowLocksProofs` proves `NoCircle` for any number of transactions and conversations, on the assumption that
no session with a new subject is being set up, which is exactly the finding below. `ScriptsInOrder`: every other script locks
tables in ascending rank. Among waiting transactions the one whose next lock has the highest rank waits for none
of the others, as whoever holds that row waits for a higher one. `InTimeOrder` needs that no message is from the
future (`TypeCorrect`).

`TestRunsProofs` proves `LeavesNothing`, `CancelKept` and `TypeCorrect` for any number of test runs and faults, from `TestRunsAssumption`. The invariant
(`RunsSound`) relates for each run its record, thread, child and environment: the status stays unfinished under a
thread that has it still to write, unless a shutdown cancelled the run; the environment is held for a thread that has not
launched; the child works for its thread or, after an error, for nobody.

`RunMonitorProofs` proves `ShownBelongs` (`ShownIsSelected`), `SessionsOnlyAdvance` (`SessionNeverGoesBack`) and `TypeCorrect`
for any number of conversations, runs, pauses, requests in flight and failures, from `RunMonitorAssumption`: the bounds are natural
numbers, and null is neither a conversation nor a monitor. The invariant says of every request in flight
what keeps its answer harmless: it is about a point the server's log has reached (`Aims`); a request of the monitor is of the
monitor that is active, and the end of a run is in hand only under the latch (`Follows`); among the reads whose answer
still counts there is one, and it was asked no earlier than the session on display was (`Ahead`, `OneRead`). The
log only grows (`Grows`), so steps of the server keep all of it.

Model-checked only: the liveness properties (`RunSettles`, `CancelSettles`, `DeliverySettles`, `InitializationSettles`,
`LiveRunIsFollowed`, `SettledRunIsShown`, `FollowingEnds`, `RunGetsResult`) and with them the fair halves of both
refinements (`KeepsTurnPromise`, `KeepsOutboxPromise`). They are outside the prover's reach: it has no rules for fairness and
`ENABLED`. Every other property of the passing runs is a theorem.

### Finding

`setup_locks`: `create_next` locks the workspace and then the character's root, and its helper says "Keep service
preconditions and allocation in the same lock order." (`persistence/definitions.py:227`). A session that
gives an existing character a new subject locks the root first (`agent_studio_sessions.py:208`), and its insertion of the
subject locks the workspace through the foreign key. A new version of that character at the same time completes the
circle. PostgreSQL breaks it by failing one of the two requests; the person can repeat it.

## 6. Not modelled, and why

* Database errors in the middle of a handler. Between two transactions a worker may stop at any
  point (`Crash`), which covers the escape of such an error from `process_once`.
* Lease expiry inside one transaction. In `RunLifecycle` a final transaction either finds its lease
  live at its conditional release, or does not happen; otherwise everything in it is rolled back.
* `requeue` of an own pending lease: a placeholder is expired at birth, so that branch has no state to run in.
* The health check before admission: a turn may be admitted with every worker down; it then waits.
* Event rows, traces, private observations: no transaction of the run lifecycle reads them.
* Payload shaping, prompt wording, HTTP details, page layout: no property is about them.
* A conversation that outgrows its compaction request (`compaction.py:121`): once the part to be summarized exceeds
  the request, every later turn fails in the same place. ADR 0009 documents that the turn fails closed, and
  nothing promises that a conversation can go on for ever, so no property is about it; `turn_dialogue` reaches it.
* Worker presence: one heartbeat row that gates admission.
* Tracing and private observations: every failure of them is caught and leaves the run as it is.
* Historical native memory and history trials: records without a maintained execution path (ADR 0072).
* Model Router: payload shaping and forwarding of single requests. Its catalog cache is refreshed as a whole under one
  lock, and its `invalidate` has no caller.
* Prompt Center and Schema Center: files and one SQLite table, edited by one operator through handlers that run one at a
  time on the API's event loop; each write is one file write, one rename or one transaction. One sequence is worth
  knowing: the seed projection (`prompt_center/personas/seed.py`) takes a key for managed as long as the last applied seed
  had it, so a persona purged and created again by hand under such a key is overwritten by the next
  changed seed. Comment Lab and Label Lab keep no state.
* Migrations, scripts and evaluation workflows (nearly half of the repository's Python): operator tools, run one at
  a time and by hand, whose results are reports.

## 7. Running

    tlc -workers 2 -config RunLifecycleFaults.cfg RunLifecycleMC.tla
    tlc -workers 2 -config TurnExecutionDialogue.cfg TurnExecutionMC.tla
    tlapm RunLifecycleProofs.tla

and the same for the other modules, each with its `*MC` module, `.cfg` files and `*Proofs` module.

Each module with a "Wrong variants" section holds mutated definitions: replacing a definition by its variant must break
the property that `PROJECT.json` pairs with it.
