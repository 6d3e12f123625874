------------------------------ MODULE RowLocks ------------------------------
(***************************************************************************)
(* The database transactions of the runtime one statement at a time: which *)
(* rows each locks, in which order and how strongly, and when the messages *)
(* it stores say they were created.                                        *)
(*                                                                         *)
(* A transaction is a script of row locks.  Each is the first lock it      *)
(* takes on that row, which here is also the strongest; rows it inserts    *)
(* itself are nobody else's to lock.  PostgreSQL holds every lock until    *)
(* the transaction ends, and inserting a row locks the rows its foreign    *)
(* keys name (FOR KEY SHARE).                                              *)
(***************************************************************************)
EXTENDS Integers, Sequences

CONSTANTS
  Txns,           \* connections: each runs one transaction at a time
  Conversations,  \* conversations of one subject with one character
  Kinds,          \* the transactions that run
  MaxClock,       \* bound on the database clock
  Nil

VARIABLES
  txn,    \* txn[t]: kind, conversation, locks obtained, time of its BEGIN
  clock,  \* the database clock
  open,   \* open[c]: the conversation has an unresolved run
  newest  \* newest[c]: created_at of its last message

vars == <<txn, clock, open, newest>>

-----------------------------------------------------------------------------
(* Rows and lock modes.                                                    *)

\* The identity is an advisory lock on the session to be created.
Rank == [identity |-> 1, workspace |-> 2, root |-> 3, conversation |-> 4,
         run |-> 5, subject |-> 6, relationship |-> 7, lease |-> 8,
         delivery |-> 9]
Table == DOMAIN Rank
PerConversation == {"identity", "conversation", "run", "lease", "delivery"}

Update(table) == [table |-> table, mode |-> "update"]  \* FOR UPDATE
Write(table) == [table |-> table, mode |-> "write"]    \* a plain UPDATE
Share(table) == [table |-> table, mode |-> "share"]    \* FOR KEY SHARE

Conflict(m, n) == {m, n} # {"share"} /\ {m, n} # {"share", "write"}

-----------------------------------------------------------------------------
(* Wrong variants: what a plausible bug would make of a definition further *)
(* down, named in its comment. Nothing in the specification uses them.     *)

\* FinishUnsuccessful: lock_run takes the run it was given, then its
\* conversation.
RunFirst == <<Update("run"), Update("conversation"), Update("lease")>>

\* InOrder: antecedents are not compared with the message.
InAnyOrder(t) == txn[t].kind # Nil

-----------------------------------------------------------------------------
(* The scripts.                                                            *)

AcceptTurn == <<Update("conversation"), Update("subject"),
                Update("relationship"), Write("lease")>>

RetrySavedInput == <<Update("conversation"), Update("run"),
                     Update("subject"), Write("lease")>>

CancelRun == <<Update("conversation"), Update("run"), Write("lease")>>

\* Its first lock skips a locked row instead of waiting for it.
ClaimRun == <<Update("conversation"), Update("run"), Write("lease")>>

StartAttempt == <<Update("conversation"), Update("run")>>
FinishAttempt == <<Update("conversation"), Update("run")>>
ScheduleRetry == <<Update("conversation"), Update("run")>>

CommitSuccess == <<Update("conversation"), Update("run"), Update("subject"),
                   Update("relationship"), Update("lease")>>

FinishUnsuccessful == <<Update("conversation"), Update("run"), Update("lease")>>

AppendTrace == <<Update("run")>>
Heartbeat == <<Write("lease")>>
SetArchived == <<Update("conversation")>>
ChangeSubject == <<Update("subject")>>
SetDefinitionArchived == <<Update("root")>>

\* Allocation: create_next locks the workspace, then the root.
CreateDefinition == <<Update("workspace"), Update("root")>>

\* A session for a new character, for an existing one, and for an existing
\* one with a new subject, whose insertion locks the workspace it names.
SessionNewCharacter == <<Update("identity"), Update("workspace"),
                         Update("root"), Update("subject"),
                         Update("relationship")>>
SessionExisting == <<Update("identity"), Update("root"), Update("subject"),
                     Update("relationship")>>
SessionNewSubject == <<Update("identity"), Update("root"), Share("workspace"),
                       Update("relationship")>>

BankTransaction == <<Write("relationship")>>

\* Its lock skips a locked row as well.
ClaimDelivery == <<Update("delivery")>>
RecordDelivery == <<Update("delivery")>>

-----------------------------------------------------------------------------
Script == [accept_turn |-> AcceptTurn, retry_saved_input |-> RetrySavedInput,
           cancel_run |-> CancelRun, claim_run |-> ClaimRun,
           start_attempt |-> StartAttempt, finish_attempt |-> FinishAttempt,
           schedule_retry |-> ScheduleRetry, commit_success |-> CommitSuccess,
           finish_unsuccessful |-> FinishUnsuccessful,
           append_trace |-> AppendTrace, heartbeat |-> Heartbeat,
           set_archived |-> SetArchived, change_subject |-> ChangeSubject,
           set_definition_archived |-> SetDefinitionArchived,
           create_definition |-> CreateDefinition,
           session_new_character |-> SessionNewCharacter,
           session_existing |-> SessionExisting,
           session_new_subject |-> SessionNewSubject,
           bank_transaction |-> BankTransaction,
           claim_delivery |-> ClaimDelivery,
           record_delivery |-> RecordDelivery]

Skipping == {"claim_run", "claim_delivery"}
Settling == {"cancel_run", "finish_unsuccessful"}
Telling == {"accept_turn", "commit_success"}

ASSUME RowLocksAssumption ==
  /\ Kinds \subseteq DOMAIN Script
  /\ MaxClock \in Nat
  /\ Nil \notin DOMAIN Script

-----------------------------------------------------------------------------
(* Transactions.                                                           *)

Idle == [kind |-> Nil, conv |-> Nil, at |-> 0, began |-> 0]

Init ==
  /\ txn = [t \in Txns |-> Idle]
  /\ clock = 0
  /\ open = [c \in Conversations |-> FALSE]
  /\ newest = [c \in Conversations |-> 0]

Running(t) == txn[t].kind # Nil
Waiting(t) == Running(t) /\ txn[t].at < Len(Script[txn[t].kind])
Lock(t, i) == Script[txn[t].kind][i]

SameRow(t, i, u, j) ==
  /\ Lock(t, i).table = Lock(u, j).table
  /\ Lock(t, i).table \in PerConversation => txn[t].conv = txn[u].conv

\* u holds a lock that the next one of t conflicts with.
Blocks(u, t) ==
  /\ u # t /\ Running(u)
  /\ \E j \in 1..txn[u].at :
       /\ SameRow(t, txn[t].at + 1, u, j)
       /\ Conflict(Lock(t, txn[t].at + 1).mode, Lock(u, j).mode)

Skips(t) == txn[t].kind \in Skipping /\ txn[t].at = 0

\* now(), which messages take as created_at, is the time of this step. A
\* worker commits a reply to a run it found unresolved.
Begin(t, kind, c) ==
  /\ ~Running(t)
  /\ kind = "commit_success" => open[c]
  /\ txn' = [txn EXCEPT ![t] = [kind |-> kind, conv |-> c, at |-> 0,
                                began |-> IF kind \in Telling THEN clock ELSE 0]]
  /\ UNCHANGED <<clock, open, newest>>

Acquire(t) ==
  /\ Waiting(t)
  /\ \A u \in Txns : ~Blocks(u, t)
  /\ txn' = [txn EXCEPT ![t].at = @ + 1]
  /\ UNCHANGED <<clock, open, newest>>

End(t) == txn' = [txn EXCEPT ![t] = Idle]

\* A claim finds nothing to do.
SkipLocked(t) ==
  /\ Waiting(t) /\ Skips(t)
  /\ \E u \in Txns : Blocks(u, t)
  /\ End(t)
  /\ UNCHANGED <<clock, open, newest>>

Complete(t, kinds) == /\ Running(t) /\ ~Waiting(t)
                      /\ txn[t].kind \in kinds

\* prepare_memory_delivery: no antecedent is later than the message.
InOrder(t) == newest[txn[t].conv] <= txn[t].began

Tell(t, busy) ==
  /\ InOrder(t)
  /\ newest' = [newest EXCEPT ![txn[t].conv] = txn[t].began]
  /\ open' = [open EXCEPT ![txn[t].conv] = busy]
  /\ End(t)
  /\ UNCHANGED clock

CommitTurn(t) ==
  Complete(t, {"accept_turn"}) /\ ~open[txn[t].conv] /\ Tell(t, TRUE)

CommitReply(t) ==
  Complete(t, {"commit_success"}) /\ open[txn[t].conv] /\ Tell(t, FALSE)

\* A run that did not succeed is resolved, or waits for a Retry.
CommitSettled(t) ==
  /\ Complete(t, Settling)
  /\ \E busy \in {FALSE, open[txn[t].conv]} :
       open' = [open EXCEPT ![txn[t].conv] = busy]
  /\ End(t)
  /\ UNCHANGED <<clock, newest>>

CommitOther(t) ==
  /\ Complete(t, DOMAIN Script \ (Settling \cup Telling))
  /\ End(t)
  /\ UNCHANGED <<clock, open, newest>>

\* The guards of the handler, or its antecedents, are against it.
Refuse(t) ==
  /\ Complete(t, Telling)
  /\ \/ open[txn[t].conv] = (txn[t].kind = "accept_turn")
     \/ ~InOrder(t)
  /\ End(t)
  /\ UNCHANGED <<clock, open, newest>>

\* Any error rolls back.
Rollback(t) ==
  /\ Running(t)
  /\ End(t)
  /\ UNCHANGED <<clock, open, newest>>

Tick ==
  /\ clock < MaxClock
  /\ clock' = clock + 1
  /\ UNCHANGED <<txn, open, newest>>

-----------------------------------------------------------------------------
Finish(t) == \/ CommitTurn(t) \/ CommitReply(t) \/ CommitSettled(t)
             \/ CommitOther(t) \/ Refuse(t) \/ SkipLocked(t)

Next ==
  \/ \E t \in Txns :
       \/ \E kind \in Kinds, c \in Conversations : Begin(t, kind, c)
       \/ Acquire(t) \/ Finish(t) \/ Rollback(t)
  \/ Tick

Spec == Init /\ [][Next]_vars

-----------------------------------------------------------------------------
(* Properties.                                                             *)

\* Every transaction is at a place of its script, at a time that has come; no
\* message is from the future.
TypeOK ==
  /\ txn \in [Txns -> [kind : Kinds \cup {Nil}, conv : Conversations \cup {Nil},
                       at : Nat, began : Nat]]
  /\ \A t \in Txns :
       /\ txn[t].began <= clock
       /\ \/ txn[t] = Idle
          \/ /\ txn[t].kind \in Kinds /\ txn[t].conv \in Conversations
             /\ txn[t].at <= Len(Script[txn[t].kind])
  /\ clock \in 0..MaxClock
  /\ open \in [Conversations -> BOOLEAN]
  /\ newest \in [Conversations -> Nat]
  /\ \A c \in Conversations : newest[c] <= clock

\* No deadlock: among any transactions that wait, one waits for none of the
\* others. "All run lifecycle writers lock conversation before run, then
\* subject where needed", and the rows of the outbox after them.
NoWaitCycle ==
  \A S \in SUBSET {t \in Txns : Waiting(t) /\ ~Skips(t)} :
    S # {} => \E t \in S : \A u \in S : ~Blocks(u, t)

\* The messages of a conversation are created in the order they are stored,
\* although created_at is the time a transaction began and not the time it
\* got the conversation's lock.
TranscriptInTimeOrder ==
  [][\A c \in Conversations : newest[c] <= newest'[c]]_vars

=============================================================================
