--------------------------- MODULE RowLocksProofs ---------------------------
(***************************************************************************)
(* Proofs about RowLocks, for any number of connections and conversations: *)
(* transactions that take their locks in the one order never wait for each *)
(* other in a circle, and all but one take them in that order.             *)
(***************************************************************************)
EXTENDS RowLocks, TLAPS

-----------------------------------------------------------------------------
(* The scripts.                                                            *)

Places == {Update("identity"), Update("workspace"), Update("root"),
           Update("conversation"), Update("run"), Update("subject"),
           Update("relationship"), Update("lease"), Update("delivery"),
           Write("lease"), Write("relationship"), Share("workspace")}

\* A transaction takes its locks in the order of Rank.
Ascending(s) ==
  \A i, j \in 1..Len(s) : i < j => Rank[s[i].table] < Rank[s[j].table]

OutOfOrder == {"session_new_subject"}

LEMMA Ranks == \A l \in Places : Rank[l.table] \in 1..9
  BY DEF Places, Rank, Update, Write, Share

\* Every script is a sequence of locks, and all but one ascend.
THEOREM ScriptsInOrder ==
  ASSUME NEW k \in DOMAIN Script
  PROVE  /\ Script[k] \in Seq(Places)
         /\ k \notin OutOfOrder => Ascending(Script[k])
<1> USE DEF Places, Update, Write, Share
<1>1. \A s \in {AcceptTurn, RetrySavedInput, CancelRun, ClaimRun} :
        s \in Seq(Places) /\ Ascending(s)
  <2>1. AcceptTurn \in Seq(Places) /\ Ascending(AcceptTurn)
    BY DEF AcceptTurn, Ascending, Rank
  <2>2. RetrySavedInput \in Seq(Places) /\ Ascending(RetrySavedInput)
    BY DEF RetrySavedInput, Ascending, Rank
  <2>3. CancelRun \in Seq(Places) /\ Ascending(CancelRun)
    BY DEF CancelRun, Ascending, Rank
  <2>4. ClaimRun \in Seq(Places) /\ Ascending(ClaimRun)
    BY DEF ClaimRun, Ascending, Rank
  <2> QED BY <2>1, <2>2, <2>3, <2>4
<1>2. \A s \in {StartAttempt, FinishAttempt, ScheduleRetry, CommitSuccess,
               FinishUnsuccessful} :
        s \in Seq(Places) /\ Ascending(s)
  <2>1. StartAttempt \in Seq(Places) /\ Ascending(StartAttempt)
    BY DEF StartAttempt, Ascending, Rank
  <2>2. FinishAttempt \in Seq(Places) /\ Ascending(FinishAttempt)
    BY DEF FinishAttempt, Ascending, Rank
  <2>3. ScheduleRetry \in Seq(Places) /\ Ascending(ScheduleRetry)
    BY DEF ScheduleRetry, Ascending, Rank
  <2>4. CommitSuccess \in Seq(Places) /\ Ascending(CommitSuccess)
    BY DEF CommitSuccess, Ascending, Rank
  <2>5. FinishUnsuccessful \in Seq(Places) /\ Ascending(FinishUnsuccessful)
    BY DEF FinishUnsuccessful, Ascending, Rank
  <2> QED BY <2>1, <2>2, <2>3, <2>4, <2>5
<1>3. \A s \in {AppendTrace, Heartbeat, SetArchived, ChangeSubject,
               SetDefinitionArchived} :
        s \in Seq(Places) /\ Ascending(s)
  <2>1. AppendTrace \in Seq(Places) /\ Ascending(AppendTrace)
    BY DEF AppendTrace, Ascending, Rank
  <2>2. Heartbeat \in Seq(Places) /\ Ascending(Heartbeat)
    BY DEF Heartbeat, Ascending, Rank
  <2>3. SetArchived \in Seq(Places) /\ Ascending(SetArchived)
    BY DEF SetArchived, Ascending, Rank
  <2>4. ChangeSubject \in Seq(Places) /\ Ascending(ChangeSubject)
    BY DEF ChangeSubject, Ascending, Rank
  <2>5. SetDefinitionArchived \in Seq(Places) /\ Ascending(SetDefinitionArchived)
    BY DEF SetDefinitionArchived, Ascending, Rank
  <2> QED BY <2>1, <2>2, <2>3, <2>4, <2>5
<1>4. \A s \in {CreateDefinition, SessionNewCharacter, SessionExisting,
               BankTransaction, ClaimDelivery, RecordDelivery} :
        s \in Seq(Places) /\ Ascending(s)
  <2>1. CreateDefinition \in Seq(Places) /\ Ascending(CreateDefinition)
    BY DEF CreateDefinition, Ascending, Rank
  <2>2. SessionNewCharacter \in Seq(Places) /\ Ascending(SessionNewCharacter)
    BY DEF SessionNewCharacter, Ascending, Rank
  <2>3. SessionExisting \in Seq(Places) /\ Ascending(SessionExisting)
    BY DEF SessionExisting, Ascending, Rank
  <2>4. BankTransaction \in Seq(Places) /\ Ascending(BankTransaction)
    BY DEF BankTransaction, Ascending, Rank
  <2>5. ClaimDelivery \in Seq(Places) /\ Ascending(ClaimDelivery)
    BY DEF ClaimDelivery, Ascending, Rank
  <2>6. RecordDelivery \in Seq(Places) /\ Ascending(RecordDelivery)
    BY DEF RecordDelivery, Ascending, Rank
  <2> QED BY <2>1, <2>2, <2>3, <2>4, <2>5, <2>6
<1>5. SessionNewSubject \in Seq(Places)
  BY DEF SessionNewSubject
<1> HIDE DEF Places, Update, Write, Share
<1> DEFINE Ordered == {AcceptTurn, RetrySavedInput, CancelRun, ClaimRun,
                       StartAttempt, FinishAttempt, ScheduleRetry, CommitSuccess,
                       FinishUnsuccessful, AppendTrace, Heartbeat, SetArchived,
                       ChangeSubject, SetDefinitionArchived, CreateDefinition,
                       SessionNewCharacter, SessionExisting, BankTransaction,
                       ClaimDelivery, RecordDelivery}
<1>6. \A s \in Ordered : s \in Seq(Places) /\ Ascending(s)
  BY <1>1, <1>2, <1>3, <1>4
<1>7. k # "session_new_subject" => Script[k] \in Ordered
  BY DEF Script
<1>8. Script["session_new_subject"] = SessionNewSubject
  BY DEF Script
<1> HIDE DEF Ordered
<1> QED BY <1>5, <1>6, <1>7, <1>8 DEF OutOfOrder

-----------------------------------------------------------------------------
(* The type invariant.                                                     *)

LEMMA InScript ==
  ASSUME TypeOK, NEW t \in Txns, Running(t)
  PROVE  /\ txn[t].kind \in Kinds /\ txn[t].kind \in DOMAIN Script
         /\ txn[t].conv \in Conversations
         /\ Script[txn[t].kind] \in Seq(Places)
         /\ Len(Script[txn[t].kind]) \in Nat
         /\ txn[t].at \in 0..Len(Script[txn[t].kind])
<1>1. txn[t] # Idle
  BY DEF Running, Idle
<1>2. /\ txn[t].kind \in Kinds /\ txn[t].conv \in Conversations
      /\ txn[t].at \in Nat /\ txn[t].at <= Len(Script[txn[t].kind])
  BY <1>1 DEF TypeOK
<1>3. txn[t].kind \in DOMAIN Script
  BY <1>2, RowLocksAssumption
<1>4. Script[txn[t].kind] \in Seq(Places)
  BY <1>3, ScriptsInOrder
<1>5. Len(Script[txn[t].kind]) \in Nat
  BY <1>4
<1> QED BY <1>2, <1>3, <1>4, <1>5

Entries == [kind : Kinds \cup {Nil}, conv : Conversations \cup {Nil},
            at : Nat, began : Nat]

\* What TypeOK says of one transaction.
Sound(r, now) ==
  /\ r.began <= now
  /\ \/ r = Idle
     \/ /\ r.kind \in Kinds /\ r.conv \in Conversations
        /\ r.at <= Len(Script[r.kind])

LEMMA Replaced ==
  ASSUME TypeOK, NEW t \in Txns, NEW r \in Entries, Sound(r, clock),
         txn' = [txn EXCEPT ![t] = r], clock' = clock,
         open' \in [Conversations -> BOOLEAN],
         newest' \in [Conversations -> Nat],
         \A c \in Conversations : newest'[c] <= clock
  PROVE  TypeOK'
<1>1. txn \in [Txns -> Entries] /\ \A u \in Txns : Sound(txn[u], clock)
  BY DEF TypeOK, Entries, Sound
<1>2. txn' \in [Txns -> Entries]
  BY <1>1
<1>3. \A u \in Txns : txn'[u] = IF u = t THEN r ELSE txn[u]
  BY <1>1
<1>4. \A u \in Txns : Sound(txn'[u], clock')
  BY <1>1, <1>3
<1>5. clock' \in 0..MaxClock /\ \A c \in Conversations : newest'[c] <= clock'
  BY DEF TypeOK
<1> QED BY <1>2, <1>4, <1>5 DEF TypeOK, Entries, Sound

LEMMA IdleSound == TypeOK => Idle \in Entries /\ Sound(Idle, clock)
<1>1. Idle \in Entries /\ Idle.began = 0
  BY DEF Idle, Entries
<1>2. TypeOK => 0 <= clock
  BY RowLocksAssumption DEF TypeOK
<1> QED BY <1>1, <1>2 DEF Sound

LEMMA Ended ==
  ASSUME TypeOK, NEW t \in Txns, End(t), clock' = clock,
         open' \in [Conversations -> BOOLEAN],
         newest' \in [Conversations -> Nat],
         \A c \in Conversations : newest'[c] <= clock
  PROVE  TypeOK'
  BY IdleSound, Replaced DEF End

LEMMA BeginTypes ==
  ASSUME TypeOK, NEW t \in Txns, NEW kind \in Kinds, NEW c \in Conversations,
         Begin(t, kind, c)
  PROVE  TypeOK'
<1> DEFINE new == [kind |-> kind, conv |-> c, at |-> 0,
                   began |-> IF kind \in Telling THEN clock ELSE 0]
<1>1. clock \in Nat
  BY RowLocksAssumption DEF TypeOK
<1>2. /\ new \in Entries /\ new.kind = kind /\ new.conv = c /\ new.at = 0
      /\ new.began <= clock
  BY <1>1 DEF Entries
<1>3. txn' = [txn EXCEPT ![t] = new]
  BY DEF Begin
<1> HIDE DEF new
<1>4. kind \in DOMAIN Script
  BY RowLocksAssumption
<1>5. 0 <= Len(Script[kind])
  BY <1>4, ScriptsInOrder
<1>6. Sound(new, clock)
  BY <1>2, <1>5 DEF Sound
<1> QED BY <1>2, <1>3, <1>6, Replaced DEF Begin, TypeOK

LEMMA AcquireTypes ==
  ASSUME TypeOK, NEW t \in Txns, Acquire(t)
  PROVE  TypeOK'
<1> DEFINE new == [txn[t] EXCEPT !.at = @ + 1]
<1>1. Running(t) /\ txn[t].at < Len(Script[txn[t].kind])
  BY DEF Acquire, Waiting
<1>2. /\ txn[t].kind \in Kinds /\ txn[t].conv \in Conversations
      /\ Len(Script[txn[t].kind]) \in Nat /\ txn[t].at \in Nat
  BY <1>1, InScript
<1>3. txn[t] \in Entries /\ txn[t].began <= clock
  BY DEF TypeOK, Entries
<1>4. /\ new \in Entries /\ new.kind = txn[t].kind /\ new.conv = txn[t].conv
      /\ new.at = txn[t].at + 1 /\ new.began = txn[t].began
  BY <1>2, <1>3 DEF Entries
<1>5. txn' = [txn EXCEPT ![t] = new]
  BY DEF Acquire
<1> HIDE DEF new
<1>6. new.at <= Len(Script[new.kind])
  BY <1>1, <1>2, <1>4
<1>7. Sound(new, clock)
  BY <1>2, <1>3, <1>4, <1>6 DEF Sound
<1> QED BY <1>4, <1>5, <1>7, Replaced DEF Acquire, TypeOK

LEMMA FinishTypes ==
  ASSUME TypeOK, NEW t \in Txns, Finish(t) \/ Rollback(t)
  PROVE  TypeOK'
<1>1. ASSUME NEW busy \in BOOLEAN, Running(t), Tell(t, busy)
      PROVE  TypeOK'
  <2>1. /\ txn[t].conv \in Conversations /\ txn[t].began \in Nat
        /\ txn[t].began <= clock
    BY <1>1, InScript DEF TypeOK
  <2>2. open' \in [Conversations -> BOOLEAN]
    BY <1>1, <2>1 DEF Tell, TypeOK
  <2>3. /\ newest' \in [Conversations -> Nat]
        /\ \A c \in Conversations : newest'[c] <= clock
    BY <1>1, <2>1 DEF Tell, TypeOK
  <2> QED BY <1>1, <2>2, <2>3, Ended DEF Tell
<1>2. CASE CommitTurn(t) \/ CommitReply(t)
  BY <1>1, <1>2 DEF CommitTurn, CommitReply, Complete
<1>3. CASE CommitSettled(t)
  <2>1. txn[t].conv \in Conversations
    BY <1>3, InScript DEF CommitSettled, Complete
  <2>2. open' \in [Conversations -> BOOLEAN]
    BY <1>3, <2>1 DEF CommitSettled, TypeOK
  <2> QED BY <1>3, <2>2, Ended DEF CommitSettled, TypeOK
<1>4. CASE CommitOther(t) \/ Refuse(t) \/ SkipLocked(t) \/ Rollback(t)
  BY <1>4, Ended DEF CommitOther, Refuse, SkipLocked, Rollback, TypeOK
<1> QED BY <1>2, <1>3, <1>4 DEF Finish

LEMMA InitTypes == Init => TypeOK
<1> SUFFICES ASSUME Init PROVE TypeOK
  OBVIOUS
<1>1. Idle \in [kind : Kinds \cup {Nil}, conv : Conversations \cup {Nil},
                at : Nat, began : Nat]
      /\ Idle.began = 0
  BY DEF Idle
<1>2. clock = 0 /\ clock \in 0..MaxClock
  BY RowLocksAssumption DEF Init
<1> QED BY <1>1, <1>2 DEF Init, TypeOK

LEMMA StepTypes == TypeOK /\ [Next]_vars => TypeOK'
<1> SUFFICES ASSUME TypeOK, [Next]_vars PROVE TypeOK'
  OBVIOUS
<1>1. CASE UNCHANGED vars
  BY <1>1 DEF vars, TypeOK
<1>2. CASE Tick
  <2>1. clock \in Nat /\ clock' = clock + 1 /\ clock' \in 0..MaxClock
    BY <1>2, RowLocksAssumption DEF Tick, TypeOK
  <2>2. \A t \in Txns : txn[t].began \in Nat /\ txn[t].began <= clock'
    BY <2>1 DEF TypeOK
  <2>3. \A c \in Conversations : newest[c] <= clock'
    BY <2>1 DEF TypeOK
  <2> QED BY <1>2, <2>1, <2>2, <2>3 DEF Tick, TypeOK
<1>3. ASSUME NEW t \in Txns, NEW kind \in Kinds, NEW c \in Conversations,
             Begin(t, kind, c)
      PROVE  TypeOK'
  BY <1>3, BeginTypes
<1>4. ASSUME NEW t \in Txns, Acquire(t) PROVE TypeOK'
  BY <1>4, AcquireTypes
<1>5. ASSUME NEW t \in Txns, Finish(t) \/ Rollback(t) PROVE TypeOK'
  BY <1>5, FinishTypes
<1> QED BY <1>1, <1>2, <1>3, <1>4, <1>5 DEF Next

\* A transaction holds locks of its own script only, its BEGIN is in the past
\* and so is every message.
THEOREM TypeCorrect == Spec => []TypeOK
  BY InitTypes, StepTypes, PTL DEF Spec

-----------------------------------------------------------------------------
(* Transactions that ascend never wait in a circle: of any that wait, one  *)
(* whose next lock has the highest rank waits for none of the others,      *)
(* because whoever holds that lock would wait for a higher one.            *)

LEMMA Highest ==
  ASSUME NEW H \in SUBSET (1..9), H # {}
  PROVE  \E m \in H : \A n \in H : n <= m
<1>1. \A n \in H : n \in Int /\ 1 <= n /\ n <= 9
  OBVIOUS
<1>2. PICK h : h \in H
  OBVIOUS
<1>3. CASE 9 \in H
  BY <1>1, <1>3
<1>4. CASE 8 \in H /\ 9 \notin H
  BY <1>1, <1>4
<1>5. CASE 7 \in H /\ 8 \notin H /\ 9 \notin H
  BY <1>1, <1>5
<1>6. CASE 6 \in H /\ 7 \notin H /\ 8 \notin H /\ 9 \notin H
  BY <1>1, <1>6
<1>7. CASE \A n \in H : n <= 5
  <2>1. CASE 5 \in H
    BY <1>7, <2>1
  <2>2. CASE 4 \in H /\ 5 \notin H
    BY <1>1, <1>7, <2>2
  <2>3. CASE 3 \in H /\ 4 \notin H /\ 5 \notin H
    BY <1>1, <1>7, <2>3
  <2>4. CASE 3 \notin H /\ 4 \notin H /\ 5 \notin H
    BY <1>1, <1>2, <1>7, <2>4
  <2> QED BY <2>1, <2>2, <2>3, <2>4
<1> QED BY <1>1, <1>3, <1>4, <1>5, <1>6, <1>7

LEMMA AscendingNeverCircles ==
  ASSUME TypeOK,
         \A t \in Txns : Running(t) => Ascending(Script[txn[t].kind])
  PROVE  NoWaitCycle
<1> DEFINE next(t) == Rank[Lock(t, txn[t].at + 1).table]
<1> SUFFICES ASSUME NEW S \in SUBSET {t \in Txns : Waiting(t) /\ ~Skips(t)},
                    S # {}
             PROVE  \E t \in S : \A u \in S : ~Blocks(u, t)
  BY DEF NoWaitCycle
<1>1. ASSUME NEW t \in S
      PROVE  /\ t \in Txns /\ Running(t) /\ txn[t].at \in Nat
             /\ txn[t].at + 1 \in 1..Len(Script[txn[t].kind])
             /\ Script[txn[t].kind] \in Seq(Places)
             /\ Len(Script[txn[t].kind]) \in Nat
  <2>1. t \in Txns /\ Running(t) /\ txn[t].at < Len(Script[txn[t].kind])
    BY DEF Waiting
  <2> QED BY <2>1, InScript
<1>2. \A t \in S : next(t) \in 1..9
  <2>1. \A s \in Seq(Places) : \A i \in 1..Len(s) : s[i] \in Places
    OBVIOUS
  <2>2. \A t \in S : Lock(t, txn[t].at + 1) \in Places
    BY <1>1, <2>1 DEF Lock
  <2> QED BY <2>2, Ranks
<1> HIDE DEF next
<1>3. PICK t \in S : \A u \in S : next(u) <= next(t)
  <2> DEFINE H == {next(u) : u \in S}
  <2>1. H \in SUBSET (1..9) /\ H # {}
    BY <1>2
  <2>2. PICK m \in H : \A n \in H : n <= m
    BY <2>1, Highest
  <2> QED BY <2>2
<1>4. ASSUME NEW u \in S, Blocks(u, t) PROVE FALSE
  <2>1. PICK j \in 1..txn[u].at :
          Lock(u, j).table = Lock(t, txn[t].at + 1).table
    BY <1>4 DEF Blocks, SameRow
  <2>2. /\ j \in 1..Len(Script[txn[u].kind]) /\ j < txn[u].at + 1
        /\ txn[u].at + 1 \in 1..Len(Script[txn[u].kind])
    BY <1>1, <2>1
  <2>3. Rank[Lock(u, j).table] < Rank[Lock(u, txn[u].at + 1).table]
    BY <1>1, <2>2 DEF Ascending, Lock
  <2>4. next(t) < next(u)
    BY <2>1, <2>3 DEF next
  <2> QED BY <1>2, <1>3, <2>4
<1> QED BY <1>4

\* Whatever runs at once, as long as no session is being set up with a new
\* subject for an existing character, the database never has to break a
\* deadlock: some transaction of any that wait can go on.
THEOREM NoCircle ==
  ASSUME Kinds \cap OutOfOrder = {}
  PROVE  Spec => []NoWaitCycle
<1>1. TypeOK => NoWaitCycle
  <2> SUFFICES ASSUME TypeOK PROVE NoWaitCycle
    OBVIOUS
  <2>1. ASSUME NEW t \in Txns, Running(t)
        PROVE  Ascending(Script[txn[t].kind])
    <3>1. txn[t].kind \in Kinds /\ txn[t].kind \in DOMAIN Script
      BY <2>1, InScript
    <3>2. txn[t].kind \notin OutOfOrder
      BY <3>1
    <3> QED BY <3>1, <3>2, ScriptsInOrder
  <2> QED BY <2>1, AscendingNeverCircles
<1> QED BY <1>1, TypeCorrect, PTL

-----------------------------------------------------------------------------
LEMMA StepInTimeOrder ==
  TypeOK /\ [Next]_vars
    => [\A c \in Conversations : newest[c] <= newest'[c]]_vars
<1> SUFFICES ASSUME TypeOK, [Next]_vars
             PROVE  \A c \in Conversations : newest[c] <= newest'[c]
  OBVIOUS
<1>1. ASSUME UNCHANGED newest
      PROVE  \A c \in Conversations : newest[c] <= newest'[c]
  BY <1>1 DEF TypeOK
<1>2. ASSUME NEW t \in Txns, NEW busy, Running(t), Tell(t, busy)
      PROVE  \A c \in Conversations : newest[c] <= newest'[c]
  <2>1. txn[t].conv \in Conversations
    BY <1>2, InScript
  <2>2. newest[txn[t].conv] <= txn[t].began
    BY <1>2 DEF Tell, InOrder
  <2>3. \A c \in Conversations :
          newest'[c] = IF c = txn[t].conv THEN txn[t].began ELSE newest[c]
    BY <1>2, <2>1 DEF Tell, TypeOK
  <2>4. \A c \in Conversations : newest[c] \in Nat
    BY DEF TypeOK
  <2> QED BY <2>2, <2>3, <2>4
<1>3. CASE UNCHANGED vars
  BY <1>1, <1>3 DEF vars
<1>4. CASE Tick
  BY <1>1, <1>4 DEF Tick
<1>5. ASSUME NEW t \in Txns, NEW kind \in Kinds, NEW c \in Conversations,
             Begin(t, kind, c)
      PROVE  UNCHANGED newest
  BY <1>5 DEF Begin
<1>6. ASSUME NEW t \in Txns, Acquire(t) \/ Rollback(t) PROVE UNCHANGED newest
  BY <1>6 DEF Acquire, Rollback
<1>7. ASSUME NEW t \in Txns,
             CommitSettled(t) \/ CommitOther(t) \/ Refuse(t) \/ SkipLocked(t)
      PROVE  UNCHANGED newest
  BY <1>7 DEF CommitSettled, CommitOther, Refuse, SkipLocked
<1>8. ASSUME NEW t \in Txns, CommitTurn(t) \/ CommitReply(t)
      PROVE  \A c \in Conversations : newest[c] <= newest'[c]
  BY <1>2, <1>8 DEF CommitTurn, CommitReply, Complete
<1> QED BY <1>1, <1>3, <1>4, <1>5, <1>6, <1>7, <1>8 DEF Next, Finish

\* Messages are stored in the order of their creation times, although two
\* transactions may begin in one order and get the lock in the other.
THEOREM InTimeOrder == Spec => TranscriptInTimeOrder
  BY TypeCorrect, StepInTimeOrder, PTL DEF Spec, TranscriptInTimeOrder

=============================================================================
