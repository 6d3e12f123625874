---------------------------- MODULE TurnExecution ----------------------------
(***************************************************************************)
(* What one attempt at a reply does between its start and its commit: the  *)
(* reads of its sources, the required memory lookup, the compaction of     *)
(* older dialogue, the composition of the request and the loop of model    *)
(* requests and tool calls (turn_execution.py, executor.py, compaction.py, *)
(* hindsight_context.py, turn_recall.py).  Each read is a statement of its *)
(* own that sees what is committed when it runs (the engine sets no        *)
(* isolation level, so PostgreSQL's READ COMMITTED holds), and no lock is  *)
(* held across any wait: a worker that took the lease over may commit, and *)
(* the next turn begin, between any two of a stalled worker's steps.       *)
(*                                                                         *)
(* One conversation.  RunLifecycle has the rows that surround an attempt   *)
(* in detail; here a run is what these steps read of it.  Text is its size *)
(* in tokens and the set of messages that it was made from.                *)
(***************************************************************************)
EXTENDS Integers, Sequences, FiniteSetsExt

CONSTANTS
  Workers,          \* runtime worker processes
  Nil,              \* no worker
  InputSizes,       \* token counts of inputs
  ReplySizes,       \* token counts of replies
  MaxUnsummarized,  \* COMPACTION_MAX_UNSUMMARIZED_MESSAGES
  RetainRecent,     \* COMPACTION_RETAIN_RECENT_MESSAGES
  RecentTokens,     \* ContextBudget.recent_tokens
  SummaryTokens,    \* ContextBudget.summary_tokens
  CompactionLimit,  \* input_limit of the compaction deployment
  InputLimit,       \* input_limit of the conversation deployment
  MaxRequests,      \* max_model_requests
  Attempts,         \* attempts of one budget, retry_count + 1
  MaxTurns,         \* bound: turns of the conversation
  MaxRetries,       \* bound: saved-input Retries in all
  MaxFaults         \* bound: crashes and lost leases

ASSUME TurnAssumption ==
  /\ Nil \notin Workers
  /\ InputSizes \subseteq Nat /\ ReplySizes \subseteq Nat
  /\ {MaxUnsummarized, RetainRecent, RecentTokens, SummaryTokens,
      CompactionLimit, InputLimit, MaxRequests, Attempts,
      MaxTurns, MaxRetries, MaxFaults} \subseteq Nat
  /\ Attempts > 0

VARIABLES
  messages,   \* the transcript; a message's sequence number is its index
  summaries,  \* committed summaries; a summary's version is its index
  version,    \* conversations.version
  runs,       \* accepted turns, oldest first
  lease,      \* holder of the conversation's live lease
  proc,       \* per worker: the attempt in its memory
  retries, faults

vars == <<messages, summaries, version, runs, lease, proc, retries, faults>>

Active == {"pending", "running", "paused"}
Reading == {"starting", "checked", "listed"}
Lookups == {"recalling", "searching"}
Phases == {"idle", "claimed", "preparing", "compacting", "generating",
           "candidate", "raised"} \cup Reading \cup Lookups
Errors == {"none", "lookup", "retryable", "refused", "cancelled"}

(* seen: messages listed, between that read and the next; chained: version *)
(* of the summary read; through, told: boundary of the summary in use and  *)
(* the messages whose text went into it; planned: whether a new summary    *)
(* waits for the commit; shown: the messages the composed request carries  *)
(* in full; requests: model requests of the tool loop; missed: a required  *)
(* lookup was under way when the attempt failed or ran out of time.        *)
Idle == [phase |-> "idle", run |-> 0, seen |-> 0, chained |-> 0, through |-> 0,
         told |-> {}, planned |-> FALSE, shown |-> {}, requests |-> 0,
         error |-> "none", missed |-> FALSE]

\* An exception unwinds the attempt; the worker keeps its claim and the error.
Raised(p, error) ==
  [Idle EXCEPT !.phase = "raised", !.run = p.run, !.error = error]

Init ==
  /\ messages = <<>> /\ summaries = <<>> /\ version = 1
  /\ runs = <<>>
  /\ lease = Nil
  /\ proc = [w \in Workers |-> Idle]
  /\ retries = 0 /\ faults = 0

-----------------------------------------------------------------------------
(* The compaction planner and the composer. *)

Size(S) == MapThenSumSet(LAMBDA i : messages[i].size, S)

(* plan_compaction: the dialogue between the summary and the current input *)
(* is left alone while it is short and small.                              *)
NeedsCompaction(from, to) ==
  \/ to - from > MaxUnsummarized
  \/ Size(from + 1 .. to) > RecentTokens

(* What the planner's loop may keep raw: nothing, or a suffix that is      *)
(* short and small enough.                                                 *)
MayKeep(b, to) == b = to \/ (to - b <= RetainRecent /\ Size(b + 1 .. to) <= RecentTokens)

(* The loop keeps the longest such suffix: b is the new boundary. *)
IsBoundary(b, from, to) ==
  /\ MayKeep(b, to)
  /\ \A c \in from .. b - 1 : ~MayKeep(c, to)

CompactionFits(b, from, chained) ==
  Size(from + 1 .. b) + (IF chained > 0 THEN SummaryTokens ELSE 0) <= CompactionLimit

-----------------------------------------------------------------------------
(* Wrong variants: plausible bugs. Nothing in the specification uses them. *)

\* A composer with a budget formula of its own, one token more per row,
\* discards the rows that do not fit it.
SelectedByOwnBudget(from, to) ==
  {i \in from + 1 .. to : Size(i .. to) + (to - i + 1) <= RecentTokens}

\* The failed search is reported to the model as a tool result.
AfterFailedSearchApology(p) == [p EXCEPT !.phase = "generating"]

\* The deadline of the attempt is the same error wherever it falls.
DeadlineErrorAnywhere(phase) == "retryable"

-----------------------------------------------------------------------------
(* What the composer puts into the request besides summary and input: all  *)
(* the dialogue after the boundary.                                        *)
Selected(from, to) == from + 1 .. to

RequestTokens(shown, input, through) ==
  Size(shown) + messages[input].size + (IF through > 0 THEN SummaryTokens ELSE 0)

(* The tool loop asks the model at most max_model_requests times. *)
MayAskAgain(n) == n < MaxRequests

(* What becomes of an attempt whose search_memory call failed: the failure *)
(* of a required lookup leaves the loop.                                   *)
AfterFailedSearch(p) == Raised(p, "lookup")

(* What the deadline of the whole attempt is called: memory_lookup_active  *)
(* tells whether it fell into a lookup.                                    *)
DeadlineError(phase) == IF phase \in Lookups THEN "lookup" ELSE "retryable"

-----------------------------------------------------------------------------
(* The person. *)

(* accept_turn: validate_input has refused inputs beyond the input limit. *)
AcceptTurn(size) ==
  /\ Len(runs) < MaxTurns
  /\ \A t \in DOMAIN runs : runs[t].status \notin Active
  /\ size <= InputLimit
  /\ messages' = Append(messages, [role |-> "user", size |-> size])
  /\ runs' = Append(runs, [status |-> "pending", input |-> Len(messages) + 1,
                           accepted |-> version, left |-> Attempts, cancel |-> FALSE])
  /\ UNCHANGED <<summaries, version, lease, proc, retries, faults>>

RetrySavedInput(t) ==
  /\ retries < MaxRetries
  /\ runs[t].status = "paused" /\ runs[t].accepted = version
  /\ runs' = [runs EXCEPT ![t].status = "pending", ![t].left = Attempts]
  /\ retries' = retries + 1
  /\ UNCHANGED <<messages, summaries, version, lease, proc, faults>>

CancelRun(t) ==
  /\ \/ /\ runs[t].status \in {"pending", "paused"}
        /\ runs' = [runs EXCEPT ![t].status = "cancelled"]
     \/ /\ runs[t].status = "running"
        /\ ~runs[t].cancel
        /\ runs' = [runs EXCEPT ![t].cancel = TRUE]
  /\ UNCHANGED <<messages, summaries, version, lease, proc, retries, faults>>

-----------------------------------------------------------------------------
(* The worker's transactions around an attempt. *)

Owns(w) == lease = w

Last == Len(runs)

\* Leaving without a word: another worker owns the recovery.
Leave(w) == proc' = [proc EXCEPT ![w] = Idle]

Settle(w, status) ==
  /\ runs' = [runs EXCEPT ![proc[w].run].status = status]
  /\ lease' = Nil
  /\ Leave(w)

(* RunClaimer.claim: the run in front, pending or left under a dead lease. *)
Claim(w) ==
  /\ proc[w].phase = "idle"
  /\ lease = Nil
  /\ Last > 0 /\ runs[Last].status \in {"pending", "running"}
  /\ IF runs[Last].cancel \/ runs[Last].left = 0
     THEN /\ runs' = [runs EXCEPT ![Last].status =
                        IF runs[Last].cancel THEN "cancelled" ELSE "failed"]
          /\ UNCHANGED <<lease, proc>>
     ELSE /\ runs' = [runs EXCEPT ![Last].status = "running"]
          /\ lease' = w
          /\ proc' = [proc EXCEPT ![w] = [Idle EXCEPT !.phase = "claimed", !.run = Last]]
  /\ UNCHANGED <<messages, summaries, version, retries, faults>>

(* start_attempt; a run that is no longer executable is cancelled. *)
StartAttempt(w) ==
  LET t == proc[w].run IN
  /\ proc[w].phase = "claimed"
  /\ IF runs[t].status # "running" \/ runs[t].cancel
     THEN /\ proc' = [proc EXCEPT ![w] = Raised(@, "cancelled")]
          /\ UNCHANGED runs
     ELSE IF ~Owns(w)
     THEN Leave(w) /\ UNCHANGED runs
     ELSE /\ runs' = [runs EXCEPT ![t].left = @ - 1]
          /\ proc' = [proc EXCEPT ![w] = [Idle EXCEPT !.phase = "starting", !.run = t]]
  /\ UNCHANGED <<messages, summaries, version, lease, retries, faults>>

(* commit_success: reply, summary and version in one transaction, under    *)
(* the lease and against the version that the turn was accepted with.      *)
Committable(w) == runs[proc[w].run].accepted = version

(* create_compaction: the summary chain is as the planner found it. *)
ChainHolds(p) ==
  p.planned =>
    /\ p.chained = Len(summaries)
    /\ p.chained > 0 => p.through > summaries[p.chained].through

CommitSuccess(w, size) ==
  LET p == proc[w] IN
  /\ p.phase = "candidate"
  /\ Owns(w) /\ runs[p.run].status = "running" /\ ~runs[p.run].cancel
  /\ Committable(w) /\ ChainHolds(p)
  /\ messages' = Append(messages, [role |-> "assistant", size |-> size])
  /\ summaries' = IF p.planned
                  THEN Append(summaries, [through |-> p.through, told |-> p.told,
                                          run |-> p.run])
                  ELSE summaries
  /\ version' = version + 1
  /\ Settle(w, "succeeded")
  /\ UNCHANGED <<retries, faults>>

(* A refused commit rolls everything back. *)
CommitRefused(w) ==
  LET p == proc[w] IN
  /\ p.phase = "candidate"
  /\ IF ~Owns(w)
     THEN Leave(w)
     ELSE IF runs[p.run].status # "running" \/ runs[p.run].cancel
     THEN proc' = [proc EXCEPT ![w] = Raised(@, "cancelled")]
     ELSE /\ ~Committable(w) \/ ~ChainHolds(p)
          /\ proc' = [proc EXCEPT ![w] = Raised(@, "refused")]
  /\ UNCHANGED <<messages, summaries, version, runs, lease, retries, faults>>

(* finish_attempt_failure and then schedule_retry, or commit_failure or    *)
(* commit_cancellation: each first checks the lease, and nothing of what   *)
(* this module keeps changes between them.                                 *)
Resolve(w) ==
  LET p == proc[w] IN
  /\ p.phase = "raised"
  /\ IF ~Owns(w) \/ runs[p.run].status \notin {"pending", "running"}
     THEN Leave(w) /\ UNCHANGED <<runs, lease>>
     ELSE IF p.error = "cancelled" \/ runs[p.run].cancel
     THEN Settle(w, "cancelled")
     ELSE IF p.error = "retryable" /\ runs[p.run].left > 0
     THEN /\ proc' = [proc EXCEPT ![w] = [Idle EXCEPT !.phase = "claimed", !.run = p.run]]
          /\ UNCHANGED <<runs, lease>>
     ELSE Settle(w, IF p.error = "lookup" THEN "paused" ELSE "failed")
  /\ UNCHANGED <<messages, summaries, version, retries, faults>>

-----------------------------------------------------------------------------
(* The attempt itself: none of its steps writes a row. *)

Rows == <<messages, summaries, version, runs, lease, retries, faults>>

Step(w, p) == proc' = [proc EXCEPT ![w] = p] /\ UNCHANGED Rows

Raise(w, error) == Step(w, Raised(proc[w], error))

(* The conversation, whose version must be that of the accepted turn. *)
ReadConversation(w) ==
  /\ proc[w].phase = "starting"
  /\ IF ~Committable(w)
     THEN Raise(w, "refused")
     ELSE Step(w, [proc[w] EXCEPT !.phase = "checked"])

(* list_messages: everything committed by now, rows of later turns as well *)
(* if the worker stalled.                                                  *)
ReadMessages(w) ==
  /\ proc[w].phase = "checked"
  /\ Step(w, [proc[w] EXCEPT !.phase = "listed", !.seen = Len(messages)])

(* latest_summary, the last of the reads, and the search for the accepted  *)
(* input among the messages listed. The summary may be that of a later     *)
(* turn, with a boundary beyond that input. What follows asks only for     *)
(* messages before the input, and all of those are listed if it is.        *)
ReadSummary(w) ==
  LET n == Len(summaries) IN
  /\ proc[w].phase = "listed"
  /\ IF runs[proc[w].run].input > proc[w].seen
     THEN Raise(w, "refused")
     ELSE Step(w, [proc[w] EXCEPT !.phase = "recalling", !.seen = 0, !.chained = n,
                                  !.through = IF n = 0 THEN 0 ELSE summaries[n].through,
                                  !.told = IF n = 0 THEN {} ELSE summaries[n].told])

(* A read that the database does not answer is no retryable error. *)
ReadFails(w) ==
  /\ proc[w].phase \in Reading
  /\ Raise(w, "refused")

(* The required lookup on the current input; no memories is a valid answer. *)
Recalled(w) ==
  /\ proc[w].phase = "recalling"
  /\ Step(w, [proc[w] EXCEPT !.phase = "preparing"])

Missing(w, p) == Step(w, [p EXCEPT !.missed = TRUE])

LookupFails(w) ==
  \/ /\ proc[w].phase = "recalling"
     /\ Missing(w, Raised(proc[w], "lookup"))
  \/ /\ proc[w].phase = "searching"
     /\ Missing(w, AfterFailedSearch(proc[w]))

(* An error that lookup_failure_code does not know is not an outage of the *)
(* memory: the automatic lookup raises it, a tool call reports it.         *)
LookupBreaks(w) ==
  /\ proc[w].phase = "recalling"
  /\ Raise(w, "refused")

(* build_hindsight_context and the first request. *)
Compose(w, p) ==
  LET input == runs[p.run].input
      shown == Selected(p.through, input - 1)
  IN IF \/ Size(p.through + 1 .. input - 1) > RecentTokens
        \/ RequestTokens(shown, input, p.through) > InputLimit
        \/ ~MayAskAgain(0)
     THEN Raise(w, "refused")
     ELSE Step(w, [p EXCEPT !.phase = "generating", !.shown = shown, !.requests = 1])

(* plan_compaction on what was read. *)
Plan(w) ==
  LET p  == proc[w]
      to == runs[p.run].input - 1
  IN /\ p.phase = "preparing"
     /\ IF ~NeedsCompaction(p.through, to)
        THEN Compose(w, p)
        ELSE \E b \in p.through .. to :
               /\ IsBoundary(b, p.through, to)
               /\ IF b = p.through \/ ~CompactionFits(b, p.through, p.chained)
                  THEN Raise(w, "refused")
                  ELSE Step(w, [p EXCEPT !.phase = "compacting", !.planned = TRUE,
                                         !.told = @ \cup (p.through + 1 .. b),
                                         !.through = b])

(* The model's summary of the previous summary and the new rows. *)
Compacted(w) ==
  /\ proc[w].phase = "compacting"
  /\ Compose(w, proc[w])

(* The conversation model answers with dialogue, or calls search_memory. *)
Answered(w) ==
  /\ proc[w].phase = "generating"
  /\ Step(w, [proc[w] EXCEPT !.phase = "candidate"])

ToolCalled(w) ==
  /\ proc[w].phase = "generating"
  /\ Step(w, [proc[w] EXCEPT !.phase = "searching"])

(* The result, or the report of an unexpected error, goes back to the      *)
(* model while the step budget lasts.                                      *)
ToolAnswered(w) ==
  /\ proc[w].phase = "searching"
  /\ IF MayAskAgain(proc[w].requests)
     THEN Step(w, [proc[w] EXCEPT !.phase = "generating", !.requests = @ + 1])
     ELSE Raise(w, "refused")

(* A provider error, an answer outside its contract, or a continuation or  *)
(* compaction request that serializes beyond its limit.                    *)
ModelFails(w) ==
  /\ proc[w].phase \in {"preparing", "compacting", "generating"}
  /\ \E error \in {"retryable", "refused"} : Raise(w, error)

(* execute_attempt waits for the execution until the deadline, a cancel    *)
(* request or the loss of the lease, the last two told by the monitors.    *)
Executing(w) == proc[w].phase \notin {"idle", "claimed", "candidate", "raised"}

TimesOut(w) ==
  LET error == DeadlineError(proc[w].phase) IN
  /\ Executing(w)
  /\ IF proc[w].phase \in Lookups
     THEN Missing(w, Raised(proc[w], error))
     ELSE Raise(w, error)

CancelSeen(w) ==
  /\ Executing(w) /\ runs[proc[w].run].cancel
  /\ Raise(w, "cancelled")

LossSeen(w) ==
  /\ Executing(w) /\ ~Owns(w)
  /\ Leave(w) /\ UNCHANGED Rows

-----------------------------------------------------------------------------
(* Faults: the heartbeat stalls, or the process stops and its lease expires. *)

LoseLease ==
  /\ faults < MaxFaults /\ lease # Nil
  /\ lease' = Nil /\ faults' = faults + 1
  /\ UNCHANGED <<messages, summaries, version, runs, proc, retries>>

Crash(w) ==
  /\ faults < MaxFaults /\ proc[w].phase # "idle"
  /\ Leave(w)
  /\ lease' = IF Owns(w) THEN Nil ELSE lease
  /\ faults' = faults + 1
  /\ UNCHANGED <<messages, summaries, version, runs, retries>>

-----------------------------------------------------------------------------
Person ==
  \/ \E size \in InputSizes : AcceptTurn(size)
  \/ \E t \in DOMAIN runs : RetrySavedInput(t) \/ CancelRun(t)

Attempt(w) ==
  \/ ReadConversation(w) \/ ReadMessages(w) \/ ReadSummary(w) \/ ReadFails(w)
  \/ Recalled(w) \/ LookupFails(w) \/ LookupBreaks(w)
  \/ Plan(w) \/ Compacted(w) \/ Answered(w) \/ ToolCalled(w) \/ ToolAnswered(w)
  \/ ModelFails(w) \/ TimesOut(w) \/ CancelSeen(w) \/ LossSeen(w)

Worker(w) ==
  \/ Claim(w) \/ StartAttempt(w)
  \/ \E size \in ReplySizes : CommitSuccess(w, size)
  \/ CommitRefused(w) \/ Resolve(w)

Next ==
  \/ Person \/ LoseLease
  \/ \E w \in Workers : Attempt(w) \/ Worker(w) \/ Crash(w)

Spec == Init /\ [][Next]_vars

-----------------------------------------------------------------------------
TypeOK ==
  /\ messages \in Seq([role : {"user", "assistant"}, size : InputSizes \cup ReplySizes])
  /\ summaries \in Seq([through : Nat, told : SUBSET Nat, run : Nat])
  /\ version \in Nat
  /\ runs \in Seq([status : Active \cup {"succeeded", "failed", "cancelled"},
                   input : Nat, accepted : Nat, left : 0..Attempts, cancel : BOOLEAN])
  /\ lease \in Workers \cup {Nil}
  /\ proc \in [Workers -> [phase : Phases, run : Nat, seen : Nat, chained : Nat,
                           through : Nat, told : SUBSET Nat, planned : BOOLEAN,
                           shown : SUBSET Nat, requests : 0..MaxRequests,
                           error : Errors, missed : BOOLEAN]]
  /\ retries \in 0..MaxRetries
  /\ faults \in 0..MaxFaults

\* "Unsummarized history is never silently omitted": whatever request goes to
\* the conversation model, no message before its input is left out, each is in
\* the text of the summary it carries or shown in full, and none is in both.
\* As long as the reply can still be committed nothing else is in the request:
\* the reads of an attempt are no snapshot, and only a stalled one whose
\* conversation has moved on may have read a summary of what came later. A
\* committed summary was made from all messages up to its boundary, which lies
\* before the input that the reply committed with it answers.
DialogueCovered ==
  /\ \A w \in Workers :
       LET p == proc[w]
           dialogue == 1 .. runs[p.run].input - 1
       IN p.phase \in {"generating", "searching", "candidate"} =>
            /\ dialogue \subseteq p.told \cup p.shown
            /\ p.told \cap p.shown = {}
            /\ Committable(w) => p.told \cup p.shown \subseteq dialogue
  /\ \A n \in DOMAIN summaries :
       /\ summaries[n].told = 1 .. summaries[n].through
       /\ summaries[n].through < runs[summaries[n].run].input

\* A required lookup that failed or ran out of time "never becomes an empty
\* result, automatic model retry or a model-generated apology": the attempt
\* goes nowhere but to its end, and its end leaves the saved input paused,
\* unless the turn was cancelled or the worker no longer speaks for it.
FailedLookupHoldsInput ==
  [][\A w \in Workers : proc[w].missed =>
       \/ proc'[w] = proc[w]
       \/ /\ proc'[w] = Idle
          /\ messages' = messages
          /\ LET t == proc[w].run IN
             runs'[t].status \in {runs[t].status, "paused", "cancelled"}]_vars

=============================================================================
