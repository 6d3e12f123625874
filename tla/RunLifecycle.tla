---------------------------- MODULE RunLifecycle ----------------------------
(***************************************************************************)
(* The durable life of an accepted turn ("run") in the ADE agent runtime:  *)
(* the API transactions that admit, cancel and retry it, the worker        *)
(* processes that claim it under a conversation lease, execute attempts,   *)
(* retry, and finish it, and the archive operations that race with them.   *)
(*                                                                         *)
(* Every transaction takes the conversation row lock before it reads, so   *)
(* one transaction is one atomic action; everything a worker keeps in      *)
(* memory between two transactions lives in proc[w].                       *)
(***************************************************************************)
EXTENDS Integers, Sequences, FiniteSets, FiniteSetsExt

CONSTANTS
  Conversations,  \* conversation rows
  Subjects,       \* memory-subject rows
  SubjectOf,      \* the subject a conversation is bound to
  Workers,        \* worker processes
  RunIds,         \* run rows that may be created, numbered in creation order
  Keys,           \* idempotency keys of AcceptTurn requests
  RetryKeys,      \* idempotency keys of saved-input Retry requests
  RetryCounts,    \* values a request gives for retry_count
  Tokens,         \* lease tokens (uuid4: a worker gets one nobody holds)
  MaxFaults,      \* bound on crashes, drains and stalled heartbeats
  Nil             \* SQL NULL / None

ASSUME RunLifecycleAssumption ==
  /\ SubjectOf \in [Conversations -> Subjects]
  /\ RunIds \subseteq Nat /\ Tokens \subseteq Nat
  /\ RetryCounts \subseteq 0..5
  /\ MaxFaults \in Nat
  /\ Nil \notin Conversations \cup Keys \cup RunIds \cup Tokens

VARIABLES
  conv,      \* conv[c]: version and archived_at of a conversation row
  subject,   \* subject[s]: is archived_at set
  run,       \* run[r]: the run row with its attempts and Retry receipts
  lease,     \* lease[c]: the conversation's unreleased lease row, if any
  messages,  \* messages[c]: the immutable transcript, in sequence order
  proc,      \* proc[w]: a worker process and the claim it works on
  stopping,  \* stopping[w]: stop_requested (SIGTERM) is set
  faults     \* environment faults so far, capped by MaxFaults

vars == <<conv, subject, run, lease, messages, proc, stopping, faults>>

-----------------------------------------------------------------------------
(* Rows.                                                                   *)

Active == {"pending", "running", "paused"}
Terminal == {"succeeded", "failed", "cancelled"}
RunStatus == {"absent"} \cup Active \cup Terminal
AttemptStatus == {"running", "succeeded", "failed", "cancelled"}
Outcome == {"retryable", "fatal", "lookup", "cancelled", "draining"}

NoRun == [status |-> "absent", conv |-> Nil, key |-> Nil, retry |-> 0,
          accepted |-> 0, count |-> 0, attempts |-> <<>>, cancel |-> FALSE,
          receipts |-> {}]

NoLease == [run |-> Nil, token |-> Nil, live |-> FALSE]

\* create_pending: holder "pending", a token no worker holds, expired at birth.
Placeholder(r) == [run |-> r, token |-> Nil, live |-> FALSE]

Process(pc) == [pc |-> pc, run |-> Nil, token |-> Nil, prior |-> 0,
                base |-> 0, local |-> 0, open |-> 0, exc |-> Nil]
Idle == Process("idle")
Down == Process("down")

RunsOf(c) == {r \in RunIds : run[r].conv = c}
Committable(r) ==
  LET c == run[r].conv
  IN  /\ ~conv[c].archived
      /\ ~subject[SubjectOf[c]]
      /\ conv[c].version = run[r].accepted

MessageCount(r, role) ==
  Cardinality({i \in DOMAIN messages[run[r].conv] :
                 messages[run[r].conv][i] = [run |-> r, role |-> role]})

\* Attempts whose row is still "running" are closed with the given status.
CloseOpen(attempts, status) ==
  [i \in DOMAIN attempts |-> IF attempts[i] = "running" THEN status
                                                        ELSE attempts[i]]

-----------------------------------------------------------------------------
(* Wrong variants. Each is what a plausible bug would make of a definition *)
(* further down, named in its comment; replacing that definition by it     *)
(* must break a property. Nothing in the specification uses them.          *)

\* ActiveRuns: a paused run no longer blocks its conversation.
ActiveRunsButPaused(c) ==
  {r \in RunsOf(c) : run[r].status \in {"pending", "running"}}

\* ArchiveConversation: without looking for an active run.
ArchiveBusyConversation(c) ==
  /\ ~conv[c].archived
  /\ conv' = [conv EXCEPT ![c] = [@ EXCEPT !.archived = TRUE]]
  /\ UNCHANGED <<subject, run, lease, messages, proc, stopping, faults>>

\* CancelRun: also of a run that has settled.
CancelSettledRun(r) ==
  /\ run[r].status # "absent"
  /\ run' = [run EXCEPT ![r] = [@ EXCEPT !.cancel = TRUE]]
  /\ UNCHANGED <<conv, subject, lease, messages, proc, stopping, faults>>

\* CancelRun: the waiting run's lease is not released.
CancelKeepsLease(r) ==
  /\ run[r].status \in {"pending", "paused"}
  /\ run' = [run EXCEPT ![r] =
               [@ EXCEPT !.cancel = TRUE, !.status = "cancelled"]]
  /\ UNCHANGED <<conv, subject, lease, messages, proc, stopping, faults>>

\* AttemptBase: a Retry opens no new budget.
AttemptBaseIgnoringRetries(r) == 0

\* Abandoned: looks for a missing lease instead of an expired one.
AbandonedWithoutLease(r) == /\ run[r].status = "running"
                            /\ lease[run[r].conv].run = Nil

\* Claimable: nobody recovers what a dead worker left running.
ClaimablePendingOnly(r) == run[r].status = "pending"

\* Claimed: a takeover leaves the dead worker's attempt open.
ClaimedLeavingOpen(r) == run[r].attempts

\* Claimed: closes it with a status the attempt rows do not have.
ClaimedAsExpired(r) == CloseOpen(run[r].attempts, "expired")

\* Owns: any live lease of the run will do, whatever its token.
OwnsByRun(w) ==
  \E c \in Conversations : lease[c].run = proc[w].run /\ lease[c].live

\* Executable: the locked row's cancel request is not looked at.
ExecutableIgnoringCancel(r) == run[r].status = "running"

\* FinalStatus: a cancel request stored in the meantime is not looked at.
FinalStatusOfException(r, exc) ==
  CASE exc = "cancelled" -> "cancelled"
    [] exc = "lookup" -> "paused"
    [] OTHER -> "failed"

-----------------------------------------------------------------------------
ActiveRuns(c) == {r \in RunsOf(c) : run[r].status \in Active}

Init ==
  /\ conv = [c \in Conversations |-> [version |-> 1, archived |-> FALSE]]
  /\ subject = [s \in Subjects |-> FALSE]
  /\ run = [r \in RunIds |-> NoRun]
  /\ lease = [c \in Conversations |-> NoLease]
  /\ messages = [c \in Conversations |-> <<>>]
  /\ proc = [w \in Workers |-> Idle]
  /\ stopping = [w \in Workers |-> FALSE]
  /\ faults = 0

-----------------------------------------------------------------------------
(* API transactions.                                                       *)

\* accept_turn, second phase: every check of the first, unlocked phase is
\* repeated under the conversation and subject locks. A bound key is a replay
\* or a conflict and an active run is ConversationBusy: neither writes.
AcceptTurn(c, k, n, r) ==
  /\ ~conv[c].archived
  /\ ~subject[SubjectOf[c]]
  /\ \A q \in RunsOf(c) : run[q].key # k
  /\ ActiveRuns(c) = {}
  /\ run[r].status = "absent"
  /\ \A q \in RunIds : q < r => run[q].status # "absent"
  /\ run' = [run EXCEPT ![r] =
               [status |-> "pending", conv |-> c, key |-> k, retry |-> n,
                accepted |-> conv[c].version, count |-> 0, attempts |-> <<>>,
                cancel |-> FALSE, receipts |-> {}]]
  /\ messages' = [messages EXCEPT
                    ![c] = Append(@, [run |-> r, role |-> "user"])]
  /\ lease' = [lease EXCEPT ![c] = Placeholder(r)]
  /\ UNCHANGED <<conv, subject, proc, stopping, faults>>

\* cancel_run: a waiting run is cancelled here and now, with its lease
\* released; a running one only carries the request to its worker.
CancelRun(r) ==
  /\ run[r].status \in Active
  /\ IF run[r].status = "running"
     THEN /\ run' = [run EXCEPT ![r] = [@ EXCEPT !.cancel = TRUE]]
          /\ UNCHANGED lease
     ELSE /\ run' = [run EXCEPT ![r] =
                       [@ EXCEPT !.cancel = TRUE, !.status = "cancelled"]]
          /\ lease' = [c \in Conversations |->
                         IF lease[c].run = r THEN NoLease ELSE lease[c]]
  /\ UNCHANGED <<conv, subject, messages, proc, stopping, faults>>

\* retry_saved_input: one receipt per key; the saved input must still be the
\* conversation's unanswered last turn. Replays and conflicts write nothing.
RetrySavedInput(r, k, expected) ==
  LET c == run[r].conv
  IN  /\ run[r].status = "paused"
      /\ run[r].count = expected
      /\ \A x \in run[r].receipts : x.key # k
      /\ Committable(r)
      /\ MessageCount(r, "user") = 1
      /\ MessageCount(r, "assistant") = 0
      /\ run' = [run EXCEPT ![r] =
                   [@ EXCEPT !.status = "pending",
                             !.receipts = run[r].receipts \cup
                               {[key |-> k, expected |-> expected]}]]
      /\ lease' = [lease EXCEPT ![c] = Placeholder(r)]
      /\ UNCHANGED <<conv, subject, messages, proc, stopping, faults>>

ArchiveConversation(c) ==
  /\ ~conv[c].archived
  /\ ActiveRuns(c) = {}
  /\ conv' = [conv EXCEPT ![c] = [@ EXCEPT !.archived = TRUE]]
  /\ UNCHANGED <<subject, run, lease, messages, proc, stopping, faults>>

RestoreConversation(c) ==
  /\ conv[c].archived
  /\ conv' = [conv EXCEPT ![c] = [@ EXCEPT !.archived = FALSE]]
  /\ UNCHANGED <<subject, run, lease, messages, proc, stopping, faults>>

ArchiveSubject(s) ==
  /\ ~subject[s]
  /\ \A c \in Conversations : SubjectOf[c] = s => conv[c].archived
  /\ subject' = [subject EXCEPT ![s] = TRUE]
  /\ UNCHANGED <<conv, run, lease, messages, proc, stopping, faults>>

RestoreSubject(s) ==
  /\ subject[s]
  /\ subject' = [subject EXCEPT ![s] = FALSE]
  /\ UNCHANGED <<conv, run, lease, messages, proc, stopping, faults>>

-----------------------------------------------------------------------------
(* Claiming (RunClaimer.claim).                                            *)

ExpectedCounts(receipts) == {0} \cup {x.expected : x \in receipts}
AttemptBase(r) == Max(ExpectedCounts(run[r].receipts))

\* A pending run, or a running one whose lease has expired. The code takes
\* the oldest pending run, else the oldest abandoned one, but skips rows that
\* any other transaction has locked, so any of them may be the one it gets.
Abandoned(r) == /\ run[r].status = "running"
                /\ lease[run[r].conv].run = r
                /\ ~lease[run[r].conv].live
Claimable(r) == run[r].status = "pending" \/ Abandoned(r)

Claiming(w, r) ==
  /\ proc[w].pc = "idle"
  /\ ~stopping[w]
  /\ Claimable(r)
  /\ ~lease[run[r].conv].live

\* The attempts a dead worker left open end with worker_lease_expired.
Claimed(r) ==
  IF Abandoned(r) THEN CloseOpen(run[r].attempts, "failed")
                  ELSE run[r].attempts

OutOfBudget(r) ==
  Abandoned(r) /\ run[r].count >= AttemptBase(r) + run[r].retry + 1

ClaimAndCancel(w, r) ==
  /\ Claiming(w, r)
  /\ run[r].cancel
  /\ run' = [run EXCEPT ![r] =
               [@ EXCEPT !.status = "cancelled", !.attempts = Claimed(r)]]
  /\ lease' = [lease EXCEPT ![run[r].conv] = NoLease]
  /\ UNCHANGED <<conv, subject, messages, proc, stopping, faults>>

ClaimAndExhaust(w, r) ==
  /\ Claiming(w, r)
  /\ ~run[r].cancel
  /\ OutOfBudget(r)
  /\ run' = [run EXCEPT ![r] =
               [@ EXCEPT !.status = "failed", !.attempts = Claimed(r)]]
  /\ lease' = [lease EXCEPT ![run[r].conv] = NoLease]
  /\ UNCHANGED <<conv, subject, messages, proc, stopping, faults>>

\* remaining_retries is what the budget of the current input leaves; a claim
\* with none left at all is failed without an attempt.
ClaimAndStart(w, r, t) ==
  LET base == AttemptBase(r)
      remaining == run[r].retry - (run[r].count - base)
  IN  /\ Claiming(w, r)
      /\ ~run[r].cancel
      /\ ~OutOfBudget(r)
      /\ run' = [run EXCEPT ![r] =
                   [@ EXCEPT !.status = "running", !.attempts = Claimed(r)]]
      /\ lease' = [lease EXCEPT ![run[r].conv] =
                     [run |-> r, token |-> t, live |-> TRUE]]
      /\ proc' = [proc EXCEPT ![w] =
                    [pc |-> IF remaining < 0 THEN "finishing" ELSE "starting",
                     run |-> r, token |-> t, prior |-> run[r].count,
                     base |-> base, local |-> 1, open |-> 0,
                     exc |-> IF remaining < 0 THEN "fatal" ELSE Nil]]
      /\ UNCHANGED <<conv, subject, messages, stopping, faults>>

-----------------------------------------------------------------------------
(* Executing a claim (AgentRuntimeWorker._process_claim).                  *)

\* The lease row that owns() and release_owned() look for is still live. A
\* token once lost never comes back, so this is also what the heartbeat's
\* lease_lost event reports, however late it reports it.
Owns(w) ==
  \E c \in Conversations :
    lease[c] = [run |-> proc[w].run, token |-> proc[w].token, live |-> TRUE]

\* What start_attempt and commit_success ask of the row they have locked.
Executable(r) == run[r].status = "running" /\ ~run[r].cancel

Remaining(w) == run[proc[w].run].retry - (proc[w].prior - proc[w].base)

\* The next thing the claim's coroutine does; exc is the exception in flight.
Goto(w, pc, exc) == proc' = [proc EXCEPT ![w] = [@ EXCEPT !.pc = pc, !.exc = exc]]

\* LeaseLost is caught: another worker owns recovery.
Leave(w) == proc' = [proc EXCEPT ![w] = Idle]

RunUntouched == UNCHANGED <<conv, subject, run, lease, messages>>
NoFault == UNCHANGED <<stopping, faults>>

StartAttempt(w) ==
  LET r == proc[w].run
      number == proc[w].prior + proc[w].local
  IN  /\ proc[w].pc = "starting"
      /\ ~stopping[w]
      /\ Executable(r)
      /\ Owns(w)
      /\ run' = [run EXCEPT ![r] =
                   [@ EXCEPT !.count = number,
                             !.attempts = Append(run[r].attempts, "running")]]
      /\ proc' = [proc EXCEPT ![w] =
                    [@ EXCEPT !.pc = "executing", !.open = number]]
      /\ UNCHANGED <<conv, subject, lease, messages>>
      /\ NoFault

\* The order of the checks: draining, then RunCancelled, then LeaseLost.
StartRefused(w) ==
  LET r == proc[w].run
  IN  /\ proc[w].pc = "starting"
      /\ \/ stopping[w] /\ Goto(w, "finishing", "draining")
         \/ ~stopping[w] /\ ~Executable(r) /\ Goto(w, "finishing", "cancelled")
         \/ ~stopping[w] /\ Executable(r) /\ ~Owns(w) /\ Leave(w)
      /\ RunUntouched /\ NoFault

\* Execution raises (execute_attempt) and finish_attempt_failure closes the
\* attempt row, unless the lease is gone. RunCancelled needs the request.
AttemptFails(w, exc) ==
  LET r == proc[w].run
      again == exc = "retryable" /\ proc[w].local <= Remaining(w)
  IN  /\ proc[w].pc = "executing"
      /\ exc = "cancelled" => run[r].cancel
      /\ Owns(w)
      /\ run' = [run EXCEPT ![r] =
                   [@ EXCEPT !.attempts[proc[w].open] =
                        IF exc = "cancelled" THEN "cancelled" ELSE "failed"]]
      /\ proc' = [proc EXCEPT ![w] =
                    [@ EXCEPT !.pc = IF again THEN "retrying" ELSE "finishing",
                              !.open = 0, !.exc = exc]]
      /\ UNCHANGED <<conv, subject, lease, messages>>
      /\ NoFault

\* Whatever execution returned or raised, every later transaction of this
\* claim finds the lease gone and ends in LeaseLost.
ExecutionLosesLease(w) ==
  /\ proc[w].pc = "executing"
  /\ ~Owns(w)
  /\ Leave(w)
  /\ RunUntouched /\ NoFault

\* on_retry: draining, then the cancel request, then the lease.
ScheduleRetry(w) ==
  LET r == proc[w].run
  IN  /\ proc[w].pc = "retrying"
      /\ \/ stopping[w] /\ Goto(w, "finishing", "draining")
         \/ ~stopping[w] /\ run[r].cancel /\ Goto(w, "finishing", "cancelled")
         \/ ~stopping[w] /\ ~run[r].cancel /\ ~Owns(w) /\ Leave(w)
         \/ ~stopping[w] /\ ~run[r].cancel /\ Owns(w) /\ Goto(w, "backoff", Nil)
      /\ RunUntouched /\ NoFault

BackoffElapses(w) ==
  /\ proc[w].pc = "backoff"
  /\ proc' = [proc EXCEPT ![w] =
                [@ EXCEPT !.pc = "starting", !.local = proc[w].local + 1]]
  /\ RunUntouched /\ NoFault

BackoffInterrupted(w) ==
  /\ proc[w].pc = "backoff"
  /\ \/ run[proc[w].run].cancel /\ Goto(w, "finishing", "cancelled")
     \/ ~Owns(w) /\ Leave(w)
     \/ stopping[w] /\ Goto(w, "finishing", "draining")
  /\ RunUntouched /\ NoFault

-----------------------------------------------------------------------------
(* Finishing (RunFinalizer). The transaction rolls back unless the lease is *)
(* still owned when release_owned closes it.                               *)

CommitSuccess(w) ==
  LET r == proc[w].run
      c == run[r].conv
  IN  /\ proc[w].pc = "executing"
      /\ Owns(w)
      /\ Executable(r)
      /\ Committable(r)
      /\ messages' = [messages EXCEPT
                        ![c] = Append(@, [run |-> r, role |-> "assistant"])]
      /\ conv' = [conv EXCEPT ![c] =
                    [@ EXCEPT !.version = run[r].accepted + 1]]
      /\ run' = [run EXCEPT ![r] =
                   [@ EXCEPT !.attempts[proc[w].open] = "succeeded",
                             !.status = "succeeded"]]
      /\ lease' = [lease EXCEPT ![c] = NoLease]
      /\ Leave(w)
      /\ UNCHANGED subject /\ NoFault

\* "Cancellation won before final commit", or the transaction is rolled back
\* by any other error, OptimisticLockError included.
CommitRefused(w) ==
  LET r == proc[w].run
  IN  /\ proc[w].pc = "executing"
      /\ Owns(w)
      /\ Goto(w, "finishing", IF Executable(r) THEN "fatal" ELSE "cancelled")
      /\ RunUntouched /\ NoFault

\* A cancel request stored in the meantime overrides the exception.
FinalStatus(r, exc) ==
  CASE exc = "cancelled" \/ run[r].cancel -> "cancelled"
    [] exc = "lookup" /\ ~run[r].cancel -> "paused"
    [] OTHER -> "failed"

\* commit_cancellation and commit_failure (_finish_unsuccessful).
FinishUnsuccessful(w) ==
  LET r == proc[w].run
      status == FinalStatus(r, proc[w].exc)
      closed == [i \in DOMAIN run[r].attempts |->
                   IF i # proc[w].open THEN run[r].attempts[i]
                   ELSE IF status = "cancelled" THEN "cancelled" ELSE "failed"]
  IN  /\ proc[w].pc = "finishing"
      /\ run[r].status \in {"pending", "running"}
      /\ Owns(w)
      /\ run' = [run EXCEPT ![r] =
                   [@ EXCEPT !.status = status, !.attempts = closed]]
      /\ lease' = [lease EXCEPT ![run[r].conv] = NoLease]
      /\ Leave(w)
      /\ UNCHANGED <<conv, subject, messages>> /\ NoFault

\* Somebody else already settled the run.
FinishSettled(w) ==
  /\ proc[w].pc = "finishing"
  /\ run[proc[w].run].status \notin {"pending", "running"}
  /\ Leave(w)
  /\ RunUntouched /\ NoFault

\* LeaseLost raised inside an exception handler has no handler: it leaves
\* process_once and run_forever and ends the process.
FinishEscapes(w) ==
  /\ proc[w].pc = "finishing"
  /\ run[proc[w].run].status \in {"pending", "running"}
  /\ ~Owns(w)
  /\ proc' = [proc EXCEPT ![w] = Down]
  /\ RunUntouched /\ NoFault

-----------------------------------------------------------------------------
(* Processes and time.                                                     *)

Exit(w) ==
  /\ proc[w].pc = "idle" /\ stopping[w]
  /\ proc' = [proc EXCEPT ![w] = Down]
  /\ RunUntouched /\ NoFault

\* restart: unless-stopped
Restart(w) ==
  /\ proc[w].pc = "down"
  /\ proc' = [proc EXCEPT ![w] = Idle]
  /\ stopping' = [stopping EXCEPT ![w] = FALSE]
  /\ RunUntouched /\ UNCHANGED faults

\* A lease whose holder is gone is no longer renewed and runs out.
OrphanExpires(c) ==
  /\ lease[c].live
  /\ \A w \in Workers : proc[w].token # lease[c].token
  /\ lease' = [lease EXCEPT ![c] = [@ EXCEPT !.live = FALSE]]
  /\ UNCHANGED <<conv, subject, run, messages, proc>> /\ NoFault

\* A holder that is alive but whose heartbeat stalled or died loses it too.
HeldLeaseExpires(c) ==
  /\ faults < MaxFaults
  /\ lease[c].live
  /\ lease' = [lease EXCEPT ![c] = [@ EXCEPT !.live = FALSE]]
  /\ faults' = faults + 1
  /\ UNCHANGED <<conv, subject, run, messages, proc, stopping>>

Crash(w) ==
  /\ faults < MaxFaults
  /\ proc[w].pc # "down"
  /\ proc' = [proc EXCEPT ![w] = Down]
  /\ faults' = faults + 1
  /\ RunUntouched /\ UNCHANGED stopping

RequestStop(w) ==
  /\ faults < MaxFaults
  /\ proc[w].pc # "down" /\ ~stopping[w]
  /\ stopping' = [stopping EXCEPT ![w] = TRUE]
  /\ faults' = faults + 1
  /\ RunUntouched /\ UNCHANGED proc

-----------------------------------------------------------------------------
Held == {lease[c].token : c \in Conversations} \cup {proc[w].token : w \in Workers}

\* uuid4: a token nobody holds. Which one is indifferent; take the least.
Fresh(t) == t \in Tokens \ Held /\ \A u \in Tokens \ Held : t <= u

Claim(w) ==
  \E r \in RunIds :
    \/ ClaimAndCancel(w, r)
    \/ ClaimAndExhaust(w, r)
    \/ \E t \in Tokens : Fresh(t) /\ ClaimAndStart(w, r, t)

Work(w) ==
  \/ StartAttempt(w) \/ StartRefused(w)
  \/ \E exc \in {"retryable", "fatal", "lookup", "cancelled"} :
       AttemptFails(w, exc)
  \/ ExecutionLosesLease(w)
  \/ ScheduleRetry(w) \/ BackoffElapses(w) \/ BackoffInterrupted(w)
  \/ CommitSuccess(w) \/ CommitRefused(w)
  \/ FinishUnsuccessful(w) \/ FinishSettled(w) \/ FinishEscapes(w)
  \/ Exit(w)

Requests ==
  \/ \E c \in Conversations, k \in Keys, n \in RetryCounts, r \in RunIds :
       AcceptTurn(c, k, n, r)
  \/ \E r \in RunIds : CancelRun(r)
  \/ \E r \in RunIds, k \in RetryKeys :
       \E e \in {run[r].count} : RetrySavedInput(r, k, e)
  \/ \E c \in Conversations : ArchiveConversation(c) \/ RestoreConversation(c)
  \/ \E s \in Subjects : ArchiveSubject(s) \/ RestoreSubject(s)

Environment ==
  \/ \E c \in Conversations : OrphanExpires(c) \/ HeldLeaseExpires(c)
  \/ \E w \in Workers : Crash(w) \/ RequestStop(w) \/ Restart(w)

Next ==
  \/ Requests
  \/ \E w \in Workers : Claim(w) \/ Work(w)
  \/ Environment

Spec == Init /\ [][Next]_vars

\* Every attempt is bounded by its timeout and every transaction ends, so a
\* process that is up keeps moving; run_forever polls, Compose restarts it,
\* and database time passes. Nothing is assumed of the people who send
\* requests, nor of faults.
Fairness ==
  /\ \A w \in Workers : WF_vars(Claim(w)) /\ WF_vars(Work(w))
                        /\ WF_vars(Restart(w))
  /\ \A c \in Conversations : WF_vars(OrphanExpires(c))

FairSpec == Spec /\ Fairness

-----------------------------------------------------------------------------
(* Properties.                                                             *)

\* Every row and every process record keeps its shape.
Run == [status : RunStatus, conv : Conversations \cup {Nil},
        key : Keys \cup {Nil}, retry : Nat, accepted : Nat, count : Nat,
        attempts : Seq(AttemptStatus), cancel : BOOLEAN,
        receipts : SUBSET [key : RetryKeys, expected : Nat]]
Lease == [run : RunIds \cup {Nil}, token : Tokens \cup {Nil}, live : BOOLEAN]
Step == {"idle", "down", "starting", "executing", "retrying", "backoff",
         "finishing"}
Proc == [pc : Step, run : RunIds \cup {Nil}, token : Tokens \cup {Nil},
         prior : Nat, base : Nat, local : Nat, open : Nat,
         exc : Outcome \cup {Nil}]
Message == [run : RunIds, role : {"user", "assistant"}]
TypeOK ==
  /\ conv \in [Conversations -> [version : Nat, archived : BOOLEAN]]
  /\ subject \in [Subjects -> BOOLEAN]
  /\ run \in [RunIds -> Run]
  /\ lease \in [Conversations -> Lease]
  /\ messages \in [Conversations -> Seq(Message)]
  /\ proc \in [Workers -> Proc]
  /\ stopping \in [Workers -> BOOLEAN]
  /\ faults \in 0..MaxFaults

\* The lease row always says what the run row says: a pending run waits under
\* its placeholder, a running one under a worker's token, and a paused or
\* finished run leaves its conversation without a lease. (A run whose lease
\* row is missing would never be recovered; a leftover row blocks the next
\* turn's create_pending on the unique active-lease index.)
LeaseMatchesRun ==
  /\ \A r \in RunIds :
       LET l == lease[run[r].conv]
       IN  /\ run[r].status = "pending" => l = Placeholder(r)
           /\ run[r].status = "running" => l.run = r /\ l.token \in Tokens
  /\ \A c \in Conversations :
       lease[c].run # Nil => /\ run[lease[c].run].conv = c
                             /\ run[lease[c].run].status \in {"pending", "running"}

\* uq_runs_active_conversation is never what stops an operation: at most one
\* run of a conversation is pending, running or paused, and no request key is
\* ever bound to two runs of it.
OneActiveRun ==
  \A q, r \in RunIds :
    q # r /\ run[q].conv = run[r].conv /\ run[q].conv # Nil =>
      /\ ~(run[q].status \in Active /\ run[r].status \in Active)
      /\ run[q].key # run[r].key

\* The attempt rows agree with the run row and with the claim that writes
\* them, across crashes, takeovers and stale workers: numbers are dense, only
\* the last attempt of a running run can be open, a run that is settled or
\* waits for its user has none open, and exactly the succeeded runs end in a
\* succeeded attempt.
AttemptLedger ==
  \A r \in RunIds :
    LET a == run[r].attempts
        n == run[r].count
    IN  /\ Len(a) = n
        /\ \A i \in 1..n : a[i] = "running" => i = n /\ run[r].status = "running"
        /\ \A i \in 1..n : a[i] = "succeeded" <=>
                              i = n /\ run[r].status = "succeeded"

\* A claimed worker always has an attempt left in the budget of the current
\* input, and never more attempts run for one input than retry_count + 1,
\* whoever ran them: the RuntimeError for an exhausted budget and a colliding
\* attempt number are unreachable.
AttemptBudget ==
  /\ \A r \in RunIds : run[r].count <= AttemptBase(r) + run[r].retry + 1
  /\ \A w \in Workers :
       Owns(w) => LET p == proc[w]
                      r == p.run
                  IN  /\ 0 <= Remaining(w)
                      /\ p.base = AttemptBase(r)
                      /\ p.pc \in {"starting", "backoff"} =>
                           run[r].count < p.base + run[r].retry + 1
                      /\ p.pc = "starting" => p.prior + p.local = run[r].count + 1
                      /\ p.pc = "executing" => p.open = run[r].count

\* No archive operation and no other turn can take away what an active run
\* was accepted against: the OptimisticLockError of the final commit and the
\* RuntimeConflict of a saved-input Retry are unreachable, so a reply that
\* was produced is never thrown away for that reason.
ActiveRunStaysCommittable ==
  \A r \in RunIds : run[r].status \in Active => Committable(r)

\* The transcript: every accepted run has exactly one user message, however
\* often its input was retried or recovered, a reply exists exactly for a
\* succeeded run and stands directly after the message it answers, and the
\* conversation version counts the replies.
TranscriptAnswersInOrder ==
  /\ \A r \in RunIds :
       run[r].status # "absent" =>
         /\ MessageCount(r, "user") = 1
         /\ MessageCount(r, "assistant") =
              IF run[r].status = "succeeded" THEN 1 ELSE 0
  /\ \A c \in Conversations :
       LET m == messages[c]
           replies == {i \in DOMAIN m : m[i].role = "assistant"}
       IN  /\ \A i \in replies :
                i > 1 /\ m[i - 1] = [run |-> m[i].run, role |-> "user"]
           /\ conv[c].version = 1 + Cardinality(replies)

\* Fencing: whatever a worker does, a running run changes only by its cancel
\* request, by a process whose token is the conversation's live lease, or by
\* a claimer taking over an expired one. A worker that lost its lease can
\* never finish, pause, or add an attempt to the run, nor answer it.
Fenced ==
  \A r \in RunIds :
    run[r].status = "running" =>
      \/ run'[r] \in {run[r], [run[r] EXCEPT !.cancel = TRUE]} /\
         messages'[run[r].conv] = messages[run[r].conv]
      \/ \E w \in Workers :
           /\ proc'[w] # proc[w] /\ proc[w].run = r
           /\ lease[run[r].conv] =
                [run |-> r, token |-> proc[w].token, live |-> TRUE]
      \/ Abandoned(r) /\ messages'[run[r].conv] = messages[run[r].conv]
OnlyOwnerChangesRun == [][Fenced]_vars

\* A settled run never changes again.
TerminalIsFinal ==
  [][\A r \in RunIds : run[r].status \in Terminal => run'[r] = run[r]]_vars

\* Once the cancel request is stored, no further attempt starts, nothing is
\* retried, paused or failed, and no reply is committed: the one way out is
\* "cancelled", even if the run was about to run out of budget.
NoWorkAfterCancel ==
  [][\A r \in RunIds :
       run[r].cancel => /\ Len(run'[r].attempts) = Len(run[r].attempts)
                        /\ run'[r].status \in {run[r].status, "cancelled"}
                        /\ run'[r].cancel]_vars

-----------------------------------------------------------------------------
(* The inductive invariant behind the safety properties above.             *)

HasLatest(receipts) ==
  \E b \in ExpectedCounts(receipts) : \A e \in ExpectedCounts(receipts) : b >= e

\* A run row that is not there is blank; one that is there has a conversation,
\* and its Retry receipts have a latest one.
RowsInv ==
  \A r \in RunIds :
    /\ run[r].status = "absent" => run[r] = NoRun
    /\ run[r].status # "absent" => run[r].conv \in Conversations
    /\ HasLatest(run[r].receipts)

\* A process without a claim remembers nothing; one with a claim knows an
\* accepted run and has a token.
ProcOK(p) ==
  /\ p.pc \in {"idle", "down"} => p = Process(p.pc)
  /\ p.pc \notin {"idle", "down"} => /\ p.run \in RunIds
                                    /\ run[p.run].status # "absent"
                                    /\ p.token \in Tokens
ProcsInv == \A w \in Workers : ProcOK(proc[w])

\* A cancel request is pending only at a run some worker still has.
CancelInv ==
  \A r \in RunIds : run[r].cancel => run[r].status \in {"running", "cancelled"}

IInv ==
  /\ TypeOK
  /\ RowsInv
  /\ ProcsInv
  /\ CancelInv
  /\ LeaseMatchesRun
  /\ OneActiveRun
  /\ ActiveRunStaysCommittable

-----------------------------------------------------------------------------
(* What AttemptLedger, AttemptBudget and the transcript rest on besides.    *)

\* A live lease is some run's, and no two processes hold the same token.
TokensInv ==
  /\ \A c \in Conversations : lease[c].live => lease[c].run # Nil
  /\ \A v, w \in Workers :
       v # w /\ proc[v].token = proc[w].token => proc[v].token = Nil

\* A Retry was asked for after attempts that the row had already counted; a
\* pending run stands at the start of an input's budget, and none overdraws it.
BudgetInv ==
  \A r \in RunIds :
    /\ \A e \in ExpectedCounts(run[r].receipts) : e <= run[r].count
    /\ run[r].status = "pending" => run[r].count = AttemptBase(r)
    /\ run[r].count <= AttemptBase(r) + run[r].retry + 1

\* What a process remembers of its claim agrees with the row for as long as it
\* owns the lease: the budget it computed, the number of the next or the open
\* attempt, that no other attempt is open, and the cancel request it obeys.
ClaimAgrees(p, row) ==
  /\ p.base = Max(ExpectedCounts(row.receipts))
  /\ p.prior <= p.base + row.retry
  /\ p.pc = "starting" => p.prior + p.local = row.count + 1
  /\ p.pc \in {"executing", "retrying", "backoff"} =>
       p.prior + p.local = row.count
  /\ p.pc \in {"starting", "retrying", "backoff"} =>
       p.open = 0 /\ row.count <= p.base + row.retry
  /\ p.pc = "executing" => p.open # 0
  /\ IF p.open = 0 THEN \A i \in DOMAIN row.attempts : row.attempts[i] # "running"
                   ELSE p.open = row.count /\ row.attempts[p.open] = "running"
  /\ p.pc = "finishing" /\ p.exc = "cancelled" => row.cancel
ClaimsInv == \A w \in Workers : Owns(w) => ClaimAgrees(proc[w], run[proc[w].run])

AttemptInv == TokensInv /\ BudgetInv /\ AttemptLedger /\ ClaimsInv

\* A message is its conversation's run's, and the input of an active run is
\* the last message of its conversation.
TranscriptInv ==
  /\ TranscriptAnswersInOrder
  /\ \A c \in Conversations :
       \A i \in DOMAIN messages[c] : run[messages[c][i].run].conv = c
  /\ \A r \in RunIds :
       run[r].status \in Active =>
         LET m == messages[run[r].conv]
         IN  m # <<>> /\ m[Len(m)] = [run |-> r, role |-> "user"]

-----------------------------------------------------------------------------
(* Liveness and refinement.                                                *)

\* An accepted reply, and a retried one, is eventually answered, failed,
\* cancelled, or handed back to its user (paused).
RunSettles ==
  \A r \in RunIds :
    run[r].status \in {"pending", "running"} ~>
      run[r].status \in Terminal \cup {"paused"}

\* A stored cancel request is eventually carried out.
CancelSettles ==
  \A r \in RunIds : run[r].cancel ~> run[r].status = "cancelled"

\* What the run rows show of a turn: a person cannot tell a pending run from
\* a running one, nor who works on it.
TurnState(r) ==
  CASE run[r].status = "absent" -> "unknown"
    [] run[r].status \in {"pending", "running"} -> "open"
    [] run[r].status = "paused" -> "waiting"
    [] run[r].status = "succeeded" -> "answered"
    [] OTHER -> run[r].status

Turns ==
  INSTANCE ConversationTurns WITH
    turn <- [r \in RunIds |-> [state |-> TurnState(r), conv |-> run[r].conv,
                               withdrawn |-> run[r].cancel]],
    transcript <- messages

\* RunLifecycle implements ConversationTurns: crashes, takeovers, stale
\* workers, retries and pauses are all invisible in the transcript, or one
\* step of the promise. Without fairness: every step is a promised one. With
\* it: every open turn is settled.
KeepsTurnContract == Turns!SafeSpec
KeepsTurnPromise == Turns!Spec

=============================================================================
