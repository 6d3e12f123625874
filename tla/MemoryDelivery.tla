--------------------------- MODULE MemoryDelivery ---------------------------
(***************************************************************************)
(* The memory outbox: every accepted message and committed reply leaves a  *)
(* delivery row in its relationship's order; consumer loops claim the      *)
(* first unfinished row of a relationship under a fenced lease, look the   *)
(* operation up in the native memory service, submit or retry it there,    *)
(* and record what they saw; a person may ask for a failed one again.      *)
(*                                                                         *)
(* No call to the service runs inside a transaction, so between any two    *)
(* steps of a loop its lease may run out, the loop may die and another     *)
(* loop may work on the same row; requests may be lost or arrive late.     *)
(***************************************************************************)
EXTENDS Integers, Sequences, FiniteSets

CONSTANTS
  Deliveries,  \* outbox rows that may be created (operation identities)
  Banks,       \* relationships
  BankOf,      \* the relationship of a delivery
  Workers,     \* consumer loops, in one process or several
  Tokens,      \* lease tokens (uuid4: a claim gets one nobody holds)
  MaxErrors,   \* MAX_RECONCILIATION_ERRORS
  MaxAsked,    \* bound on a person's decisions to retry one delivery
  MaxFaults,   \* bound on crashes and stalled heartbeats
  Nil          \* SQL NULL

ASSUME MemoryDeliveryAssumption ==
  /\ BankOf \in [Deliveries -> Banks]
  /\ Tokens \subseteq Nat
  /\ MaxErrors \in Nat \ {0} /\ MaxAsked \in Nat /\ MaxFaults \in Nat
  /\ Nil \notin Tokens \cup Deliveries

VARIABLES
  delivery,  \* delivery[d]: the outbox row
  next,      \* next[b]: next_sequence of the relationship row
  native,    \* native[d]: the operation in the memory service, and how often
             \* the service was made to work on it
  stray,     \* stray[d]: requests still on their way whose sender is gone
  proc,      \* proc[w]: a consumer loop and the claim it works on
  sight,     \* sight[d]: whether the check_count a person last read is current
  asked,     \* asked[d]: a person's decisions to retry d
  faults     \* environment faults so far, capped by MaxFaults

vars == <<delivery, next, native, stray, proc, sight, asked, faults>>

-----------------------------------------------------------------------------
Status == {"absent", "queued", "submitting", "processing", "retained",
           "failed", "uncertain"}
\* The service's processing is one more pending here, its cancelled a failed.
NativeStatus == {"not_found", "pending", "completed", "failed"}
Step == {"idle", "checking", "dispatching", "calling", "recording", "erring"}

NoDelivery == [status |-> "absent", seq |-> 0, errors |-> 0, retry |-> FALSE,
               token |-> Nil, live |-> FALSE]
NoOperation == [status |-> "not_found", runs |-> 0]
NoStray == [submit |-> FALSE, retries |-> 0]
Idle == [pc |-> "idle", op |-> Nil, token |-> Nil, retry |-> FALSE,
         saw |-> Nil, permanent |-> FALSE]

Earlier(d) == {e \in Deliveries : /\ BankOf[e] = BankOf[d]
                                  /\ delivery[e].status # "absent"
                                  /\ delivery[e].seq < delivery[d].seq}

\* Not retained, and no claim will touch it again without a person.
Blocked(d) == \/ delivery[d].status = "failed"
              \/ delivery[d].errors >= MaxErrors

Init ==
  /\ delivery = [d \in Deliveries |-> NoDelivery]
  /\ next = [b \in Banks |-> 1]
  /\ native = [d \in Deliveries |-> NoOperation]
  /\ stray = [d \in Deliveries |-> NoStray]
  /\ proc = [w \in Workers |-> Idle]
  /\ sight = [d \in Deliveries |-> "none"]
  /\ asked = [d \in Deliveries |-> 0]
  /\ faults = 0

-----------------------------------------------------------------------------
(* Wrong variants: what a plausible bug would make of a definition further *)
(* down, named in its comment. Nothing in the specification uses them.     *)

\* Claimable: exhausted rows are looked up again and again.
ClaimableForever(d) ==
  /\ delivery[d].status \in {"queued", "submitting", "processing", "uncertain"}
  /\ ~delivery[d].live
  /\ \A e \in Earlier(d) : delivery[e].status = "retained"

\* Claimable: an earlier row that was at least submitted does not block.
ClaimablePastSubmitted(d) ==
  /\ delivery[d].status \in {"queued", "submitting", "processing", "uncertain"}
  /\ delivery[d].errors < MaxErrors
  /\ ~delivery[d].live
  /\ \A e \in Earlier(d) : delivery[e].status \in {"processing", "retained"}

\* Claimable: nobody takes over a dead loop's row.
ClaimableUnleased(d) ==
  /\ delivery[d].status \in {"queued", "submitting", "processing", "uncertain"}
  /\ delivery[d].errors < MaxErrors
  /\ delivery[d].token = Nil
  /\ \A e \in Earlier(d) : delivery[e].status = "retained"

\* RequestRetry: the check_count is not compared.
RequestRetryUnfenced(d) ==
  /\ sight[d] # "none"
  /\ delivery[d].status \in {"failed", "uncertain"}
  /\ delivery' = [delivery EXCEPT ![d] =
                    [@ EXCEPT !.status = "queued", !.retry = TRUE,
                              !.errors = 0]]
  /\ UNCHANGED <<next, native, stray, proc, sight, asked, faults>>

\* Owns: any live lease of the row will do, whatever its token.
OwnsAnyLease(w) ==
  \E d \in Deliveries : d = proc[w].op /\ delivery[d].live

\* Answered: the acknowledgement of a request is taken for its completion.
AnsweredIsCompleted(w) ==
  LET d == proc[w].op
  IN  /\ proc[w].pc = "calling"
      /\ native' = [native EXCEPT ![d].status = "pending"]
      /\ proc' = [proc EXCEPT ![w] =
                    [@ EXCEPT !.pc = "recording", !.saw = "completed"]]
      /\ UNCHANGED <<delivery, next, stray, sight, asked, faults>>

\* RecordError: a transient error leaves the row as it was claimed.
RecordErrorInPlace(w) ==
  LET d == proc[w].op
  IN  /\ proc[w].pc = "erring"
      /\ \E e \in Deliveries : /\ e = d /\ delivery[e].live
                               /\ delivery[e].token = proc[w].token
      /\ delivery' = [delivery EXCEPT ![d] =
                        [@ EXCEPT !.status = IF proc[w].permanent
                                             THEN "failed" ELSE @,
                                  !.errors = delivery[d].errors + 1,
                                  !.token = Nil, !.live = FALSE]]
      /\ proc' = [proc EXCEPT ![w] = Idle]
      /\ UNCHANGED <<next, native, stray, sight, asked, faults>>

-----------------------------------------------------------------------------
(* Transactions of the API and of the reply worker.                        *)

\* enqueue, inside the transaction that stores the message: the relationship
\* row is locked, so sequences become visible in their order. A message that
\* already owns a delivery gets the same row back and writes nothing.
Enqueue(d) ==
  LET b == BankOf[d]
  IN  /\ delivery[d].status = "absent"
      /\ delivery' = [delivery EXCEPT ![d] =
                        [@ EXCEPT !.status = "queued", !.seq = next[b]]]
      /\ next' = [next EXCEPT ![b] = @ + 1]
      /\ UNCHANGED <<native, stray, proc, sight, asked, faults>>

\* A person reads the row, with its check_count, and decides to retry it.
Decide(d) ==
  /\ asked[d] < MaxAsked
  /\ delivery[d].status # "absent"
  /\ sight[d] # "current"
  /\ sight' = [sight EXCEPT ![d] = "current"]
  /\ asked' = [asked EXCEPT ![d] = @ + 1]
  /\ UNCHANGED <<delivery, next, native, stray, proc, faults>>

\* request_retry with the check_count of that reading; the request may be
\* sent twice and may arrive late. Any other state, a repeated request for a
\* row it has already reopened included, writes nothing.
RequestRetry(d) ==
  /\ sight[d] = "current"
  /\ delivery[d].status \in {"failed", "uncertain"}
  /\ delivery' = [delivery EXCEPT ![d] =
                    [@ EXCEPT !.status = "queued", !.retry = TRUE,
                              !.errors = 0]]
  /\ UNCHANGED <<next, native, stray, proc, sight, asked, faults>>

-----------------------------------------------------------------------------
(* Consumer loops (process_once and _perform).                             *)

Owns(w) ==
  \E d \in Deliveries :
    /\ d = proc[w].op
    /\ delivery[d].token = proc[w].token
    /\ delivery[d].live

Claimable(d) ==
  /\ delivery[d].status \in {"queued", "submitting", "processing", "uncertain"}
  /\ delivery[d].errors < MaxErrors
  /\ ~delivery[d].live
  /\ \A e \in Earlier(d) : delivery[e].status = "retained"

Held == {delivery[d].token : d \in Deliveries} \cup {proc[w].token : w \in Workers}
Fresh(t) == t \in Tokens \ Held /\ \A u \in Tokens \ Held : t <= u

ClaimedStatus(s) == IF s \in {"queued", "uncertain"} THEN "submitting" ELSE s

\* The claim counts a check, so every earlier reading of it becomes stale.
Claim(w, d, t) ==
  /\ proc[w].pc = "idle"
  /\ Claimable(d)
  /\ Fresh(t)
  /\ delivery' = [delivery EXCEPT ![d] =
                    [@ EXCEPT !.status = ClaimedStatus(delivery[d].status),
                              !.token = t, !.live = TRUE]]
  /\ proc' = [proc EXCEPT ![w] =
                [Idle EXCEPT !.pc = "checking", !.op = d, !.token = t,
                             !.retry = delivery[d].retry]]
  /\ sight' = [sight EXCEPT ![d] = IF @ = "current" THEN "stale" ELSE @]
  /\ UNCHANGED <<next, native, stray, asked, faults>>

\* The operation lookup. A missing operation is submitted, a failed one is
\* retried if the claimed row carried a request; everything else is recorded.
Check(w) ==
  LET s == native[proc[w].op].status
      dispatch == s = "not_found" \/ (s = "failed" /\ proc[w].retry)
  IN  /\ proc[w].pc = "checking"
      /\ proc' = [proc EXCEPT ![w] =
                    [@ EXCEPT !.saw = s,
                              !.pc = IF dispatch THEN "dispatching"
                                                 ELSE "recording"]]
      /\ UNCHANGED <<delivery, next, native, stray, sight, asked, faults>>

\* start_dispatch: its own transaction, before the request is sent.
StartDispatch(w) ==
  /\ proc[w].pc = "dispatching"
  /\ Owns(w)
  /\ delivery' = [delivery EXCEPT ![proc[w].op] = [@ EXCEPT !.retry = FALSE]]
  /\ proc' = [proc EXCEPT ![w] = [@ EXCEPT !.pc = "calling"]]
  /\ UNCHANGED <<next, native, stray, sight, asked, faults>>

\* What the service does: a submission of a known operation changes nothing,
\* nor does a retry of one that has not failed.
Submitted(o) == IF o.status = "not_found" THEN [status |-> "pending", runs |-> 1]
                                          ELSE o
Retried(o) == IF o.status = "failed"
              THEN [status |-> "pending", runs |-> o.runs + 1] ELSE o

\* The request arrives and its answer comes back.
Answered(w) ==
  LET d == proc[w].op
  IN  /\ proc[w].pc = "calling"
      /\ native' = [native EXCEPT ![d] = IF proc[w].saw = "not_found"
                                         THEN Submitted(native[d])
                                         ELSE Retried(native[d])]
      /\ proc' = [proc EXCEPT ![w] =
                    [@ EXCEPT !.pc = "recording", !.saw = "pending"]]
      /\ UNCHANGED <<delivery, next, stray, sight, asked, faults>>

\* The loop stops waiting: its request, if it has one out, is lost or stays
\* on its way.
LetGo(w) ==
  \/ UNCHANGED stray
  \/ /\ proc[w].pc = "calling"
     /\ stray' = [stray EXCEPT ![proc[w].op] =
                    IF proc[w].saw = "not_found"
                    THEN [@ EXCEPT !.submit = TRUE]
                    ELSE [@ EXCEPT !.retries = stray[proc[w].op].retries + 1]]

\* An error of the bank, the service, the database or the heartbeat: at any
\* await, also after the service has answered.
Fails(w, permanent) ==
  /\ proc[w].pc \in {"checking", "dispatching", "calling", "recording"}
  /\ proc' = [proc EXCEPT ![w] =
                [@ EXCEPT !.pc = "erring", !.permanent = permanent]]
  /\ LetGo(w)
  /\ UNCHANGED <<delivery, next, native, sight, asked, faults>>

Recorded(saw) == CASE saw = "completed" -> "retained"
                   [] saw = "failed" -> "failed"
                   [] OTHER -> "processing"

\* record_native
Record(w) ==
  /\ proc[w].pc = "recording"
  /\ Owns(w)
  /\ delivery' = [delivery EXCEPT ![proc[w].op] =
                    [@ EXCEPT !.status = Recorded(proc[w].saw), !.errors = 0,
                              !.retry = FALSE, !.token = Nil, !.live = FALSE]]
  /\ proc' = [proc EXCEPT ![w] = Idle]
  /\ UNCHANGED <<next, native, stray, sight, asked, faults>>

RecordError(w) ==
  LET d == proc[w].op
  IN  /\ proc[w].pc = "erring"
      /\ Owns(w)
      /\ delivery' = [delivery EXCEPT ![d] =
                        [@ EXCEPT !.status = IF proc[w].permanent
                                             THEN "failed" ELSE "uncertain",
                                  !.errors = delivery[d].errors + 1,
                                  !.token = Nil, !.live = FALSE]]
      /\ proc' = [proc EXCEPT ![w] = Idle]
      /\ UNCHANGED <<next, native, stray, sight, asked, faults>>

\* The heartbeat, or a fenced write, finds the lease gone.
LosesLease(w) ==
  /\ proc[w].pc # "idle"
  /\ ~Owns(w)
  /\ proc' = [proc EXCEPT ![w] = Idle]
  /\ LetGo(w)
  /\ UNCHANGED <<delivery, next, native, sight, asked, faults>>

-----------------------------------------------------------------------------
(* The service, processes and time.                                        *)

NativeFinishes(d) ==
  /\ native[d].status = "pending"
  /\ \E s \in {"completed", "failed"} :
       native' = [native EXCEPT ![d] = [@ EXCEPT !.status = s]]
  /\ UNCHANGED <<delivery, next, stray, proc, sight, asked, faults>>

StraySubmit(d) ==
  /\ stray[d].submit
  /\ stray' = [stray EXCEPT ![d] = [@ EXCEPT !.submit = FALSE]]
  /\ native' = [native EXCEPT ![d] = Submitted(native[d])]
  /\ UNCHANGED <<delivery, next, proc, sight, asked, faults>>

StrayRetry(d) ==
  /\ stray[d].retries > 0
  /\ stray' = [stray EXCEPT ![d] = [@ EXCEPT !.retries = stray[d].retries - 1]]
  /\ native' = [native EXCEPT ![d] = Retried(native[d])]
  /\ UNCHANGED <<delivery, next, proc, sight, asked, faults>>

\* The process dies, or record_error itself meets a database error and the
\* loop drops its claim: the lease stays behind. A new loop starts idle.
Crash(w) ==
  /\ faults < MaxFaults
  /\ proc[w].pc # "idle"
  /\ proc' = [proc EXCEPT ![w] = Idle]
  /\ LetGo(w)
  /\ faults' = faults + 1
  /\ UNCHANGED <<delivery, next, native, sight, asked>>

OrphanExpires(d) ==
  /\ delivery[d].live
  /\ \A w \in Workers : proc[w].token # delivery[d].token
  /\ delivery' = [delivery EXCEPT ![d] = [@ EXCEPT !.live = FALSE]]
  /\ UNCHANGED <<next, native, stray, proc, sight, asked, faults>>

\* The heartbeat of a living loop comes too late.
HeldLeaseExpires(d) ==
  /\ faults < MaxFaults
  /\ delivery[d].live
  /\ delivery' = [delivery EXCEPT ![d] = [@ EXCEPT !.live = FALSE]]
  /\ faults' = faults + 1
  /\ UNCHANGED <<next, native, stray, proc, sight, asked>>

-----------------------------------------------------------------------------
Perform(w) ==
  \/ Check(w) \/ StartDispatch(w) \/ Answered(w) \/ Record(w)
  \/ \E permanent \in BOOLEAN : Fails(w, permanent)
  \/ RecordError(w) \/ LosesLease(w)

ClaimDelivery(d) == \E w \in Workers, t \in Tokens : Claim(w, d, t)

Next ==
  \/ \E d \in Deliveries :
       \/ Enqueue(d) \/ Decide(d) \/ RequestRetry(d) \/ ClaimDelivery(d)
       \/ NativeFinishes(d) \/ StraySubmit(d) \/ StrayRetry(d)
       \/ OrphanExpires(d) \/ HeldLeaseExpires(d)
  \/ \E w \in Workers : Perform(w) \/ Crash(w)

Spec == Init /\ [][Next]_vars

\* A loop's every await ends (client timeouts), run_forever keeps polling, a
\* claim takes the row whose next_attempt_at is oldest, database time passes,
\* and the service finishes what it has begun. Nothing is assumed of people,
\* faults or requests without a sender.
Fairness ==
  /\ \A w \in Workers : WF_vars(Perform(w))
  /\ \A d \in Deliveries : /\ SF_vars(ClaimDelivery(d))
                           /\ WF_vars(OrphanExpires(d))
                           /\ WF_vars(NativeFinishes(d))

FairSpec == Spec /\ Fairness

-----------------------------------------------------------------------------
(* Properties.                                                             *)

\* Every row, operation and loop keeps its shape.
TypeOK ==
  /\ delivery \in [Deliveries ->
       [status : Status, seq : Nat, errors : 0..MaxErrors, retry : BOOLEAN,
        token : Tokens \cup {Nil}, live : BOOLEAN]]
  /\ next \in [Banks -> Nat]
  /\ native \in [Deliveries -> [status : NativeStatus, runs : Nat]]
  /\ stray \in [Deliveries -> [submit : BOOLEAN, retries : Nat]]
  /\ proc \in [Workers ->
       [pc : Step, op : Deliveries \cup {Nil}, token : Tokens \cup {Nil},
        retry : BOOLEAN, saw : NativeStatus \cup {Nil}, permanent : BOOLEAN]]
  /\ sight \in [Deliveries -> {"none", "current", "stale"}]
  /\ asked \in [Deliveries -> 0..MaxAsked]
  /\ faults \in 0..MaxFaults

\* Order: the service has heard of a message, or is about to, only when every
\* earlier message of its relationship is retained, whatever loops died,
\* overlapped or left requests behind.
DeliveredInOrder ==
  \A d \in Deliveries :
    \/ native[d].status # "not_found"
    \/ stray[d] # NoStray
    \/ \E w \in Workers : proc[w].op = d
    => \A e \in Earlier(d) : /\ delivery[e].status = "retained"
                            /\ native[e].status = "completed"

\* The service works on a message once by itself and once more for each time
\* a person decided it, however often requests, answers, leases and clicks
\* are repeated, lost or late.
NoUnaskedWork ==
  \A d \in Deliveries : native[d].runs <= 1 + asked[d]

\* What a row says about the service is true of it: only a completed
\* operation is called retained, only a known one processing, and a message
\* that was never claimed is unknown there.
StatusFollowsNative ==
  \A d \in Deliveries :
    LET s == delivery[d].status
    IN  /\ s = "retained" => native[d].status = "completed"
        /\ s = "processing" => native[d].status # "not_found"
        /\ s = "absent" \/ (s = "queued" /\ asked[d] = 0) =>
             native[d].status = "not_found" /\ stray[d] = NoStray

\* A row that no claim will touch again waits for a person, and is one that a
\* Retry with its current check_count does reopen: failed or uncertain, and
\* without a lease.
BlockedWaitsForPerson ==
  \A d \in Deliveries :
    Blocked(d) => /\ delivery[d].status \in {"failed", "uncertain"}
                  /\ delivery[d].token = Nil

\* Fencing: what a check found is written only under the lease it was made
\* under; a loop whose row was taken over writes nothing.
StaleCheckWritesNothing ==
  [][\A d \in Deliveries :
       /\ delivery'[d].status # delivery[d].status
       /\ delivery'[d].status \in {"processing", "retained", "failed", "uncertain"}
       => \E w \in Workers :
            /\ proc[w].op = d /\ proc'[w] = Idle
            /\ delivery[d].live /\ delivery[d].token = proc[w].token]_vars

-----------------------------------------------------------------------------
(* The inductive invariant behind the safety properties above.             *)

\* No claim has seen the row, and no request can have reopened it.
Untouched(d) == \/ delivery[d].status = "absent"
                \/ (delivery[d].status = "queued" /\ asked[d] = 0)

\* Everything before d in its relationship is retained. Once true it stays.
InFront(d) == \A e \in Earlier(d) : delivery[e].status = "retained"

RowOK(d) ==
  LET row == delivery[d]
  IN  /\ row.status = "absent" => row = NoDelivery
      /\ row.status # "absent" => row.seq < next[BankOf[d]]
      /\ Untouched(d) => /\ native[d] = NoOperation /\ stray[d] = NoStray
                         /\ row.token = Nil
      /\ row.live => row.token # Nil
      /\ row.token # Nil => row.status \in {"submitting", "processing"}
      /\ row.errors >= MaxErrors => row.status \in {"failed", "uncertain"}
      /\ row.status = "retained" => native[d].status = "completed"
      /\ row.status = "processing" => native[d].status # "not_found"
      /\ asked[d] = 0 => sight[d] = "none"
      /\ native[d] # NoOperation \/ stray[d] # NoStray \/ row.token # Nil =>
           InFront(d)

\* A working loop knows a claimed row, and what it saw there still holds as
\* far as it matters: an operation does not disappear or become incomplete.
ProcOK(p) ==
  /\ p.pc = "idle" => p = Idle
  /\ p.pc # "idle" =>
       /\ p.op \in Deliveries /\ p.token \in Tokens
       /\ ~Untouched(p.op) /\ InFront(p.op)
       /\ p.pc \in {"dispatching", "calling"} /\ p.saw # "not_found" =>
            native[p.op].status # "not_found"
       /\ p.pc = "recording" => /\ native[p.op].status # "not_found"
                                /\ p.saw # "not_found"
                                /\ p.saw = "completed" =>
                                     native[p.op].status = "completed"

IInv ==
  /\ TypeOK
  /\ \A d \in Deliveries : RowOK(d)
  /\ \A w \in Workers : ProcOK(proc[w])

-----------------------------------------------------------------------------
(* What NoUnaskedWork and the refinement rest on besides.                   *)

\* The deliveries of a relationship are numbered 1, 2, 3, ... in next.
NumberedInv ==
  /\ \A b \in Banks : next[b] > 0
  /\ \A d \in Deliveries : delivery[d].status # "absent" => delivery[d].seq > 0
  /\ \A b \in Banks : \A i \in 1..(next[b] - 1) :
       \E d \in Deliveries : BankOf[d] = b /\ delivery[d].seq = i
  /\ \A d, e \in Deliveries :
       BankOf[d] = BankOf[e] /\ delivery[d].seq = delivery[e].seq =>
         d = e \/ delivery[d].seq = 0

\* A row that has been claimed, and is not queued again, is in front.
FrontInv ==
  \A d \in Deliveries :
    delivery[d].status \notin {"absent", "queued"} => InFront(d)

\* The loops that are sending a Retry of an operation.
Retriers(d) ==
  {w \in Workers : proc[w].pc = "calling" /\ proc[w].op = d
                   /\ proc[w].saw # "not_found"}

\* A decision whose request has not been carried out yet.
Undone(d) == sight[d] = "current" /\ delivery[d].status # "queued"

One(b) == IF b THEN 1 ELSE 0

\* Work done, work that requests on their way may still cause, and work that
\* the row or a person's open decision still allows.
Work(d) == native[d].runs + stray[d].retries + Cardinality(Retriers(d))
             + One(delivery[d].retry) + One(Undone(d))

WorkRow(d) ==
  /\ IsFiniteSet(Retriers(d))
  /\ native[d].status = "not_found" => native[d].runs = 0
  /\ Work(d) <= One(native[d].status # "not_found") + asked[d]

\* A loop that will send a Retry has seen the row's request for it, and while
\* it owns the row nobody else has used that request up.
RetryOK(p) ==
  /\ p.pc = "dispatching" => p.saw = "not_found" \/ p.retry
  /\ p.pc \in {"checking", "dispatching"} /\ p.retry
       /\ delivery[p.op].token = p.token /\ delivery[p.op].live
       => delivery[p.op].retry

WorkInv ==
  /\ \A v, w \in Workers :
       v # w /\ proc[v].token = proc[w].token => proc[v].token = Nil
  /\ \A w \in Workers : RetryOK(proc[w])
  /\ \A d \in Deliveries : WorkRow(d)

-----------------------------------------------------------------------------
(* Liveness and refinement.                                                *)

\* Every stored message is eventually remembered, unless it, or one before it
\* in its relationship, waits for a person.
DeliverySettles ==
  \A d \in Deliveries :
    delivery[d].status # "absent" ~>
      \/ delivery[d].status = "retained"
      \/ \E e \in Earlier(d) \cup {d} : Blocked(e)

\* The deliveries of a relationship in the order of their sequence.
InOrder(b) ==
  [i \in 1..(next[b] - 1) |->
     CHOOSE d \in Deliveries : BankOf[d] = b /\ delivery[d].seq = i]

Outbox ==
  INSTANCE OrderedOutbox WITH
    accepted <- [b \in Banks |-> InOrder(b)],
    remembered <- [b \in Banks |->
      {d \in Deliveries : BankOf[d] = b /\ delivery[d].status = "retained"}],
    stuck <- [b \in Banks |->
      \E d \in Deliveries : BankOf[d] = b /\ Blocked(d)]

\* MemoryDelivery implements OrderedOutbox: claims, polls, lost and late
\* requests, crashes and takeovers are invisible in what is remembered, and
\* with fairness nothing waits for ever without a person being told.
KeepsOutboxContract == Outbox!SafeSpec
KeepsOutboxPromise == Outbox!Spec

=============================================================================
