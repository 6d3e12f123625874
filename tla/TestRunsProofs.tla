--------------------------- MODULE TestRunsProofs ---------------------------
(***************************************************************************)
(* Proofs about TestRuns, for any number of runs and faults: a cancel is   *)
(* kept whatever the thread, the workflow and the process do meanwhile,    *)
(* and a run with its result leaves nothing behind.                        *)
(***************************************************************************)
EXTENDS TestRuns, TLAPS

-----------------------------------------------------------------------------
(* The inductive invariant.                                                *)

\* Threads that still have the run's status to write.
Lively == {"begin", "launch", "store", "reading"}
WithChild == {"store", "reading", "raised"}

\* What a run's record, thread and child say of each other: its status stays
\* unfinished under a lively thread unless a shutdown cancelled it, its
\* environment is held for a thread that has not launched, and its child works
\* for its thread or, after an error, for nobody.
Sound(record, pc, process, held, server) ==
  /\ record \in {Nil} \cup Records /\ pc \in Threads /\ process \in Children
  /\ record = Nil => pc = "none" /\ process = "none" /\ ~held
  /\ server = "down" => record = Nil
  /\ record # Nil =>
       /\ record.handle => pc \in {"reading", "raised"}
       /\ pc \in Lively =>
            \/ record.status \in Unfinished
            \/ record.status = "cancelled" /\ record.cancel /\ server # "up"
       /\ held => record.status \in Unfinished /\ pc \in {"begin", "dead"}
       /\ process = "running" =>
            \/ record.status = "error"
            \/ pc \in WithChild /\ (record.status \in Unfinished \/ server # "up")

RunsSound ==
  \A r \in Runs : Sound(runs[r], thread[r], child[r], r \in kept, api)

IInv == TypeOK /\ RunsSound

\* An API that starts for the first time.
THEOREM InitIInv == Init => IInv
<1> SUFFICES ASSUME Init PROVE IInv
  OBVIOUS
<1>1. TypeOK
  BY TestRunsAssumption DEF Init, TypeOK, Threads, Children, Known
<1>2. RunsSound
  BY DEF Init, RunsSound, Sound, Threads, Children
<1> QED BY <1>1, <1>2 DEF IInv

-----------------------------------------------------------------------------
(* Steps of one run.                                                       *)

LEMMA OneRun ==
  ASSUME IInv, NEW r \in Runs, api' = api,
         runs' \in [Runs -> {Nil} \cup Records],
         files' \in [Runs -> {Nil} \cup Manifests],
         thread' \in [Runs -> Threads], child' \in [Runs -> Children],
         kept' \subseteq Runs, faults' \in 0..MaxFaults,
         \A q \in Runs \ {r} : /\ runs'[q] = runs[q] /\ thread'[q] = thread[q]
                               /\ child'[q] = child[q] /\ (q \in kept' <=> q \in kept),
         Sound(runs'[r], thread'[r], child'[r], r \in kept', api)
  PROVE  IInv'
<1>1. ASSUME NEW q \in Runs
      PROVE  Sound(runs'[q], thread'[q], child'[q], q \in kept', api')
  <2>1. CASE q = r
    BY <2>1
  <2>2. CASE q # r
    <3>1. Sound(runs[q], thread[q], child[q], q \in kept, api)
      BY DEF IInv, RunsSound
    <3>2. /\ runs'[q] = runs[q] /\ thread'[q] = thread[q]
          /\ child'[q] = child[q] /\ (q \in kept' <=> q \in kept)
      BY <2>2
    <3> QED BY <3>1, <3>2 DEF Sound
  <2> QED BY <2>1, <2>2
<1>2. ASSUME NEW q \in Runs
      PROVE  /\ thread'[q] # "none" => Known(q)'
             /\ Known(q)' /\ runs'[q].handle => thread'[q] \in {"reading", "raised"}
  BY <1>1 DEF Sound, Known
<1>3. api' \in {"up", "stopping", "down"}
  BY DEF IInv, TypeOK
<1>4. TypeOK'
  BY <1>2, <1>3 DEF TypeOK
<1> QED BY <1>1, <1>4 DEF IInv, RunsSound

LEMMA PersistTypes ==
  ASSUME IInv, NEW r \in Runs, NEW record \in Records, NEW written \in BOOLEAN,
         Persist(r, record, written)
  PROVE  /\ runs' \in [Runs -> {Nil} \cup Records]
         /\ runs'[r] = record /\ runs'[r] # Nil
         /\ \A q \in Runs \ {r} : runs'[q] = runs[q]
         /\ files' \in [Runs -> {Nil} \cup Manifests]
         /\ faults' \in 0..MaxFaults
<1>1. /\ runs \in [Runs -> {Nil} \cup Records]
      /\ files \in [Runs -> {Nil} \cup Manifests]
      /\ faults \in 0..MaxFaults
  BY DEF IInv, TypeOK
<1>2. runs' = [runs EXCEPT ![r] = record]
  BY DEF Persist
<1>3. record # Nil
  BY TestRunsAssumption
<1>4. Manifest(record) \in Manifests
  BY DEF Manifest, Manifests, Records
<1>5. /\ files' \in [Runs -> {Nil} \cup Manifests]
      /\ faults' \in 0..MaxFaults
  <2>1. CASE written
    BY <1>1, <1>4, <2>1 DEF Persist
  <2>2. CASE ~written
    BY <1>1, <2>2, TestRunsAssumption DEF Persist, Fault
  <2> QED BY <2>1, <2>2
<1> QED BY <1>1, <1>2, <1>3, <1>5

LEMMA Known1 ==
  ASSUME IInv, NEW r \in Runs
  PROVE  /\ Sound(runs[r], thread[r], child[r], r \in kept, api)
         /\ thread[r] # "none" => Known(r)
         /\ Known(r) => runs[r] \in Records /\ runs[r] # Nil /\ api # "down"
  BY DEF IInv, TypeOK, RunsSound, Sound, Known

LEMMA CreateRunSound ==
  ASSUME IInv, NEW r \in Runs, CreateRun(r)
  PROVE  IInv'
<1>1. PICK written \in BOOLEAN :
        /\ Persist(r, NewRun, written)
        /\ kept' = IF written THEN kept \cup {r} ELSE kept
        /\ Goes(r, IF written THEN "begin" ELSE "dead")
  BY DEF CreateRun
<1>2. /\ NewRun \in Records /\ NewRun.status = "queued" /\ ~NewRun.handle
  BY DEF NewRun, Records, Statuses, Unfinished
<1>3. /\ runs' \in [Runs -> {Nil} \cup Records]
      /\ runs'[r] = NewRun /\ runs'[r] # Nil
      /\ \A q \in Runs \ {r} : runs'[q] = runs[q]
      /\ files' \in [Runs -> {Nil} \cup Manifests] /\ faults' \in 0..MaxFaults
  BY <1>1, <1>2, PersistTypes
<1>4. /\ api = "up" /\ api' = api /\ child' = child
      /\ child[r] = "none" /\ r \notin kept
  BY Known1 DEF CreateRun, Sound, Known
<1>5. /\ thread' \in [Runs -> Threads] /\ thread'[r] \in {"begin", "dead"}
      /\ \A q \in Runs \ {r} : thread'[q] = thread[q]
  BY <1>1 DEF Goes, IInv, TypeOK, Threads
<1>6. kept' \subseteq Runs /\ \A q \in Runs \ {r} : q \in kept' <=> q \in kept
  BY <1>1 DEF IInv, TypeOK
<1>7. Sound(runs'[r], thread'[r], child'[r], r \in kept', api)
  BY <1>2, <1>3, <1>4, <1>5 DEF Sound, Threads, Children, Unfinished, Lively
<1> QED BY <1>3, <1>4, <1>5, <1>6, <1>7, OneRun DEF IInv, TypeOK

LEMMA GoesTypes ==
  ASSUME IInv, NEW r \in Runs, NEW pc \in Threads, Goes(r, pc)
  PROVE  /\ thread' \in [Runs -> Threads] /\ thread'[r] = pc
         /\ \A q \in Runs \ {r} : thread'[q] = thread[q]
  BY DEF Goes, IInv, TypeOK

LEMMA CancelRunSound ==
  ASSUME IInv, NEW r \in Runs, CancelRun(r)
  PROVE  IInv'
<1> DEFINE record == Cancelled(runs[r])
<1>1. runs[r] \in Records /\ runs[r] # Nil
  BY Known1 DEF CancelRun
<1>2. /\ record \in Records /\ record.cancel /\ record.status = runs[r].status
      /\ record.handle = runs[r].handle
  BY <1>1 DEF Cancelled, Records
<1> HIDE DEF record
<1>3. PICK written \in BOOLEAN : Persist(r, record, written)
  BY DEF CancelRun, record
<1>4. /\ runs' \in [Runs -> {Nil} \cup Records]
      /\ runs'[r] = record /\ runs'[r] # Nil
      /\ \A q \in Runs \ {r} : runs'[q] = runs[q]
      /\ files' \in [Runs -> {Nil} \cup Manifests] /\ faults' \in 0..MaxFaults
  BY <1>2, <1>3, PersistTypes
<1>5. Sound(runs[r], thread[r], child[r], r \in kept, api)
  BY Known1
<1>6. Sound(record, thread[r], child[r], r \in kept, api)
  <2>1. /\ thread[r] \in Threads /\ child[r] \in Children
        /\ record.handle => thread[r] \in {"reading", "raised"}
    BY <1>1, <1>2, <1>5 DEF Sound
  <2>2. thread[r] \in Lively =>
          \/ record.status \in Unfinished
          \/ record.status = "cancelled" /\ record.cancel /\ api # "up"
    BY <1>1, <1>2, <1>5 DEF Sound
  <2>3. /\ r \in kept => record.status \in Unfinished /\ thread[r] \in {"begin", "dead"}
        /\ child[r] = "running" =>
             \/ record.status = "error"
             \/ thread[r] \in WithChild /\ (record.status \in Unfinished \/ api # "up")
    BY <1>1, <1>2, <1>5 DEF Sound
  <2>4. record # Nil /\ api # "down"
    BY <1>1, <1>2, <1>5, TestRunsAssumption DEF Sound
  <2> QED BY <1>2, <2>1, <2>2, <2>3, <2>4 DEF Sound
<1> QED BY <1>4, <1>6, OneRun DEF CancelRun, IInv, TypeOK

LEMMA BeginSound ==
  ASSUME IInv, NEW r \in Runs, Begin(r)
  PROVE  IInv'
<1>1. /\ runs[r] \in Records /\ runs[r] # Nil /\ thread[r] = "begin"
      /\ Sound(runs[r], thread[r], child[r], r \in kept, api)
  BY Known1 DEF Begin
<1>2. /\ child[r] # "running" /\ child[r] \in Children /\ ~runs[r].handle
      /\ api # "down"
      /\ \/ runs[r].status \in Unfinished
         \/ runs[r].status = "cancelled" /\ runs[r].cancel
  <2>1. /\ child[r] \in Children /\ ~runs[r].handle
        /\ \/ runs[r].status \in Unfinished
           \/ runs[r].status = "cancelled" /\ runs[r].cancel
    BY <1>1 DEF Sound, Lively
  <2>2. runs[r].status # "error"
    BY <2>1 DEF Unfinished
  <2>3. child[r] # "running"
    BY <1>1, <2>2 DEF Sound, WithChild
  <2>4. api # "down"
    BY <1>1 DEF Sound
  <2> QED BY <2>1, <2>3, <2>4
<1>3. ASSUME NEW status \in {"cancelled", "running"}, NEW written \in BOOLEAN,
             Persist(r, [runs[r] EXCEPT !.status = status], written),
             NEW pc \in {"none", "launch", "dead"}, Goes(r, pc),
             pc = "none" <=> status = "cancelled",
             kept' = IF pc = "dead" THEN kept ELSE kept \ {r}
      PROVE  IInv'
  <2> DEFINE record == [runs[r] EXCEPT !.status = status]
  <2>1. record \in Records /\ record.status = status /\ ~record.handle
    BY <1>1, <1>2, <1>3 DEF Records, Statuses, Unfinished
  <2> HIDE DEF record
  <2>2. /\ runs' \in [Runs -> {Nil} \cup Records]
        /\ runs'[r] = record /\ runs'[r] # Nil
        /\ \A q \in Runs \ {r} : runs'[q] = runs[q]
        /\ files' \in [Runs -> {Nil} \cup Manifests] /\ faults' \in 0..MaxFaults
    BY <1>3, <2>1, PersistTypes DEF record
  <2>3. /\ thread' \in [Runs -> Threads] /\ thread'[r] = pc
        /\ \A q \in Runs \ {r} : thread'[q] = thread[q]
    BY <1>3, GoesTypes DEF Threads
  <2>4. kept' \subseteq Runs /\ \A q \in Runs \ {r} : q \in kept' <=> q \in kept
    BY <1>3 DEF IInv, TypeOK
  <2>5. r \in kept' => pc = "dead"
    BY <1>3
  <2>6. Sound(record, pc, child[r], r \in kept', api)
    BY <1>2, <1>3, <2>1, <2>2, <2>5
    DEF Sound, Lively, Unfinished, Threads
  <2> QED BY <2>2, <2>3, <2>4, <2>6, OneRun DEF Begin, IInv, TypeOK
<1>4. PICK written \in BOOLEAN :
         IF runs[r].cancel
         THEN /\ Persist(r, [runs[r] EXCEPT !.status = "cancelled"], written)
              /\ kept' = kept \ {r}
              /\ Goes(r, "none")
         ELSE /\ Persist(r, [runs[r] EXCEPT !.status = "running"], written)
              /\ kept' = IF written THEN kept \ {r} ELSE kept
              /\ Goes(r, IF written THEN "launch" ELSE "dead")
  BY DEF Begin
<1>5. CASE runs[r].cancel
  BY <1>3, <1>4, <1>5
<1>6. CASE ~runs[r].cancel /\ written
  BY <1>3, <1>4, <1>6
<1>7. CASE ~runs[r].cancel /\ ~written
  BY <1>3, <1>4, <1>7
<1> QED BY <1>5, <1>6, <1>7

LEMMA LaunchSound ==
  ASSUME IInv, NEW r \in Runs, Launch(r)
  PROVE  IInv'
<1>1. /\ runs[r] \in Records /\ runs[r] # Nil /\ thread[r] = "launch"
      /\ Sound(runs[r], thread[r], child[r], r \in kept, api)
  BY Known1 DEF Launch
<1>2. CASE child' = [child EXCEPT ![r] = "running"] /\ Goes(r, "store")
           /\ UNCHANGED faults
  <2>1. /\ thread' \in [Runs -> Threads] /\ thread'[r] = "store"
        /\ \A q \in Runs \ {r} : thread'[q] = thread[q]
    BY <1>2, GoesTypes DEF Threads
  <2>2. /\ child' \in [Runs -> Children] /\ child'[r] = "running"
        /\ \A q \in Runs \ {r} : child'[q] = child[q]
    BY <1>2 DEF IInv, TypeOK, Children
  <2>3. Sound(runs[r], "store", "running", r \in kept, api)
    BY <1>1 DEF Sound, Lively, WithChild, Threads, Children
  <2> QED BY <1>2, <2>1, <2>2, <2>3, OneRun DEF Launch, IInv, TypeOK
<1>3. CASE Fault /\ Goes(r, "raised") /\ UNCHANGED child
  <2>1. /\ thread' \in [Runs -> Threads] /\ thread'[r] = "raised"
        /\ \A q \in Runs \ {r} : thread'[q] = thread[q]
    BY <1>3, GoesTypes DEF Threads
  <2>2. faults' \in 0..MaxFaults
    BY <1>3, TestRunsAssumption DEF Fault, IInv, TypeOK
  <2>3. Sound(runs[r], "raised", child[r], r \in kept, api)
    BY <1>1 DEF Sound, Lively, WithChild, Threads
  <2> QED BY <1>3, <2>1, <2>2, <2>3, OneRun DEF Launch, IInv, TypeOK
<1> QED BY <1>2, <1>3 DEF Launch

LEMMA StoreHandleSound ==
  ASSUME IInv, NEW r \in Runs, StoreHandle(r)
  PROVE  IInv'
<1> DEFINE record == [runs[r] EXCEPT !.handle = TRUE]
<1>1. /\ runs[r] \in Records /\ runs[r] # Nil /\ thread[r] = "store"
      /\ Sound(runs[r], thread[r], child[r], r \in kept, api)
  BY Known1 DEF StoreHandle
<1>2. /\ record \in Records /\ record.status = runs[r].status
      /\ record.cancel = runs[r].cancel /\ record # Nil
  BY <1>1, TestRunsAssumption DEF Records
<1> HIDE DEF record
<1>3. runs' = [runs EXCEPT ![r] = record]
  BY DEF StoreHandle, record
<1>4. /\ runs' \in [Runs -> {Nil} \cup Records] /\ runs'[r] = record
      /\ \A q \in Runs \ {r} : runs'[q] = runs[q]
  BY <1>2, <1>3 DEF IInv, TypeOK
<1>5. /\ thread' \in [Runs -> Threads] /\ thread'[r] = "reading"
      /\ \A q \in Runs \ {r} : thread'[q] = thread[q]
  BY GoesTypes DEF StoreHandle, Threads
<1>6. Sound(record, "reading", child[r], r \in kept, api)
  <2>1. /\ child[r] \in Children /\ r \notin kept /\ api # "down"
        /\ \/ runs[r].status \in Unfinished
           \/ runs[r].status = "cancelled" /\ runs[r].cancel /\ api # "up"
    BY <1>1 DEF Sound, Lively
  <2>2. child[r] = "running" =>
          runs[r].status = "error" \/ runs[r].status \in Unfinished \/ api # "up"
    BY <1>1 DEF Sound
  <2> QED BY <1>2, <2>1, <2>2 DEF Sound, WithChild, Threads
<1>7. /\ kept' = kept /\ child' = child /\ api' = api
      /\ files' = files /\ faults' = faults
  BY DEF StoreHandle
<1>8. /\ kept \subseteq Runs /\ child \in [Runs -> Children]
      /\ files \in [Runs -> {Nil} \cup Manifests] /\ faults \in 0..MaxFaults
  BY DEF IInv, TypeOK
<1> QED BY <1>4, <1>5, <1>6, <1>7, <1>8, OneRun

LEMMA ReadOutputSound ==
  ASSUME IInv, NEW r \in Runs, ReadOutput(r)
  PROVE  IInv'
<1>1. /\ runs[r] \in Records /\ runs[r] # Nil /\ thread[r] = "reading"
      /\ Sound(runs[r], thread[r], child[r], r \in kept, api)
  BY Known1 DEF ReadOutput
<1>2. PICK written \in BOOLEAN :
         Persist(r, runs[r], written)
         /\ Goes(r, IF written THEN "reading" ELSE "raised")
  BY DEF ReadOutput
<1>3. PICK pc \in {"reading", "raised"} : Goes(r, pc)
  BY <1>2
<1>4. /\ runs' \in [Runs -> {Nil} \cup Records] /\ runs'[r] = runs[r]
      /\ \A q \in Runs \ {r} : runs'[q] = runs[q]
      /\ files' \in [Runs -> {Nil} \cup Manifests] /\ faults' \in 0..MaxFaults
  BY <1>1, <1>2, PersistTypes
<1>5. /\ thread' \in [Runs -> Threads] /\ thread'[r] = pc
      /\ \A q \in Runs \ {r} : thread'[q] = thread[q]
  BY <1>3, GoesTypes DEF Threads
<1>6. Sound(runs[r], pc, child[r], r \in kept, api)
  BY <1>1, <1>3 DEF Sound, Lively, WithChild, Threads
<1> QED BY <1>4, <1>5, <1>6, OneRun DEF ReadOutput, IInv, TypeOK

\* The last write of a thread that read its child's output or failed.
LEMMA LastWriteSound ==
  ASSUME IInv, NEW r \in Runs, NEW status \in {"passed", "failed", "cancelled", "error"},
         NEW pc \in {"none", "raised"}, NEW written \in BOOLEAN,
         runs[r] # Nil, thread[r] \in {"reading", "raised"},
         child[r] # "running" \/ status = "error",
         Persist(r, [runs[r] EXCEPT !.status = status, !.handle = FALSE], written),
         Goes(r, pc), UNCHANGED <<kept, child, api>>
  PROVE  IInv'
<1> DEFINE record == [runs[r] EXCEPT !.status = status, !.handle = FALSE]
<1>1. /\ runs[r] \in Records
      /\ Sound(runs[r], thread[r], child[r], r \in kept, api)
  BY Known1 DEF Known
<1>2. /\ record \in Records /\ record.status = status /\ ~record.handle
  BY <1>1 DEF Records, Statuses, Verdicts
<1> HIDE DEF record
<1>3. /\ runs' \in [Runs -> {Nil} \cup Records] /\ runs'[r] = record
      /\ runs'[r] # Nil
      /\ \A q \in Runs \ {r} : runs'[q] = runs[q]
      /\ files' \in [Runs -> {Nil} \cup Manifests] /\ faults' \in 0..MaxFaults
  BY <1>2, PersistTypes DEF record
<1>4. /\ thread' \in [Runs -> Threads] /\ thread'[r] = pc
      /\ \A q \in Runs \ {r} : thread'[q] = thread[q]
  BY GoesTypes DEF Threads
<1>5. r \notin kept /\ child[r] \in Children /\ api # "down"
  BY <1>1 DEF Sound
<1>6. pc \in Threads /\ pc \notin Lively /\ record # Nil
  BY <1>3 DEF Lively, Threads
<1>7. Sound(record, pc, child[r], r \in kept, api)
  BY <1>2, <1>5, <1>6 DEF Sound
<1>8. kept' = kept /\ child' = child /\ api' = api
  OBVIOUS
<1> QED BY <1>3, <1>4, <1>7, <1>8, OneRun DEF IInv, TypeOK

LEMMA SettleSound ==
  ASSUME IInv, NEW r \in Runs, Settle(r)
  PROVE  IInv'
<1>1. PICK written \in BOOLEAN :
         /\ Persist(r, [runs[r] EXCEPT !.status = Verdict(r), !.handle = FALSE], written)
         /\ Goes(r, IF written THEN "none" ELSE "raised")
  BY DEF Settle
<1>2. Verdict(r) \in {"passed", "failed", "cancelled"}
  BY DEF Verdict
<1>3. runs[r] # Nil
  BY Known1 DEF Settle
<1> QED BY <1>1, <1>2, <1>3, LastWriteSound DEF Settle

LEMMA RaisedSound ==
  ASSUME IInv, NEW r \in Runs, Raised(r)
  PROVE  IInv'
<1>1. PICK written \in BOOLEAN :
         Persist(r, [runs[r] EXCEPT !.status = "error", !.handle = FALSE], written)
  BY DEF Raised
<1>2. runs[r] # Nil
  BY Known1 DEF Raised
<1> QED BY <1>1, <1>2, LastWriteSound DEF Raised

LEMMA ChildEndsSound ==
  ASSUME IInv, NEW r \in Runs, ChildEnds(r)
  PROVE  IInv'
<1>1. PICK state \in {"ended well", "ended badly"} :
         child' = [child EXCEPT ![r] = state]
  BY DEF ChildEnds
<1>2. /\ child' \in [Runs -> Children] /\ child'[r] = state
      /\ \A q \in Runs \ {r} : child'[q] = child[q]
  BY <1>1 DEF IInv, TypeOK, Children
<1>3. child[r] = "running" /\ Sound(runs[r], thread[r], child[r], r \in kept, api)
  BY Known1 DEF ChildEnds
<1>4. Sound(runs[r], thread[r], state, r \in kept, api)
  BY <1>3 DEF Sound, Children
<1> QED BY <1>2, <1>4, OneRun DEF ChildEnds, IInv, TypeOK

-----------------------------------------------------------------------------
(* Steps of the API process.                                               *)

LEMMA GoneSound ==
  ASSUME IInv, Gone, files' \in [Runs -> {Nil} \cup Manifests],
         faults' \in 0..MaxFaults
  PROVE  IInv'
<1>1. TypeOK'
  BY DEF Gone, TypeOK, Threads, Children, Known
<1>2. RunsSound'
  BY DEF Gone, RunsSound, Sound, Threads, Children
<1> QED BY <1>1, <1>2 DEF IInv

LEMMA FaultTypes ==
  ASSUME IInv, Fault
  PROVE  faults' \in 0..MaxFaults
  BY TestRunsAssumption DEF Fault, IInv, TypeOK

LEMMA StopSound ==
  ASSUME IInv, Stop
  PROVE  IInv'
<1>1. TypeOK'
  BY DEF Stop, IInv, TypeOK, Known
<1>2. ASSUME NEW r \in Runs
      PROVE  Sound(runs[r], thread[r], child[r], r \in kept, "stopping")
  BY Known1 DEF Stop, Sound
<1> QED BY <1>1, <1>2 DEF Stop, IInv, RunsSound

LEMMA ShutdownRunSound ==
  ASSUME IInv, NEW r \in Runs, ShutdownRun(r)
  PROVE  IInv'
<1> DEFINE record == [runs[r] EXCEPT !.cancel = TRUE, !.status = "cancelled"]
<1>1. CASE Fault /\ Gone /\ UNCHANGED files
  BY <1>1, FaultTypes, GoneSound DEF IInv, TypeOK
<1>2. CASE /\ Persist(r, record, TRUE)
           /\ kept' = kept \ {r}
           /\ UNCHANGED <<thread, child, api>>
  <2>1. /\ runs[r] \in Records /\ api = "stopping"
        /\ Sound(runs[r], thread[r], child[r], r \in kept, api)
    BY Known1 DEF ShutdownRun, Active
  <2>2. /\ record \in Records /\ record.status = "cancelled" /\ record.cancel
        /\ record.handle = runs[r].handle
    BY <2>1 DEF Records, Statuses
  <2> HIDE DEF record
  <2>3. /\ runs' \in [Runs -> {Nil} \cup Records] /\ runs'[r] = record
        /\ runs'[r] # Nil
        /\ \A q \in Runs \ {r} : runs'[q] = runs[q]
        /\ files' \in [Runs -> {Nil} \cup Manifests] /\ faults' \in 0..MaxFaults
    BY <1>2, <2>2, PersistTypes
  <2>4. /\ r \notin kept' /\ kept' \subseteq Runs
        /\ \A q \in Runs \ {r} : q \in kept' <=> q \in kept
    BY <1>2 DEF IInv, TypeOK
  <2>5. runs[r] # Nil
    BY DEF ShutdownRun, Active, Known
  <2>6. Sound(record, thread[r], child[r], r \in kept', api)
    <3>1. /\ thread[r] \in Threads /\ child[r] \in Children
          /\ record.handle => thread[r] \in {"reading", "raised"}
          /\ child[r] = "running" => runs[r].status = "error" \/ thread[r] \in WithChild
      BY <2>1, <2>2, <2>5 DEF Sound
    <3>2. runs[r].status # "error"
      BY DEF ShutdownRun, Active, Unfinished
    <3> QED BY <2>1, <2>2, <2>3, <2>4, <3>1, <3>2 DEF Sound
  <2> QED BY <1>2, <2>3, <2>4, <2>6, OneRun DEF IInv, TypeOK
<1> QED BY <1>1, <1>2 DEF ShutdownRun

LEMMA RestartSound ==
  ASSUME IInv, Restart
  PROVE  IInv'
<1>1. PICK unwritten \in SUBSET {r \in Runs : files[r] # Nil /\ files[r].status \in Unfinished} :
        LET found == {r \in Runs : files[r] # Nil} \ unwritten IN
        /\ IF unwritten = {} THEN UNCHANGED faults ELSE Fault
        /\ runs' = [r \in Runs |-> IF r \in found THEN Recovered(files[r]) ELSE Nil]
        /\ files' = [r \in Runs |-> IF r \in found THEN Manifest(Recovered(files[r]))
                                                   ELSE files[r]]
  BY DEF Restart
<1> DEFINE found == {r \in Runs : files[r] # Nil} \ unwritten
<1>2. ASSUME NEW r \in found
      PROVE  /\ Recovered(files[r]) \in Records /\ Recovered(files[r]) # Nil
             /\ ~Recovered(files[r]).handle
             /\ Manifest(Recovered(files[r])) \in Manifests
  <2>1. files[r] \in Manifests
    BY DEF IInv, TypeOK
  <2>2. Recovered(files[r]) \in Records /\ ~Recovered(files[r]).handle
    BY <2>1 DEF Recovered, Records, Manifests, Statuses
  <2>3. \A record \in Records : Manifest(record) \in Manifests
    BY DEF Manifest, Records, Manifests
  <2> QED BY <2>2, <2>3, TestRunsAssumption
<1>3. /\ runs' = [r \in Runs |-> IF r \in found THEN Recovered(files[r]) ELSE Nil]
      /\ files' = [r \in Runs |-> IF r \in found THEN Manifest(Recovered(files[r]))
                                                 ELSE files[r]]
      /\ faults' \in 0..MaxFaults
  BY <1>1, FaultTypes DEF IInv, TypeOK
<1> HIDE DEF found
<1>4. /\ runs' \in [Runs -> {Nil} \cup Records]
      /\ files' \in [Runs -> {Nil} \cup Manifests]
      /\ \A r \in Runs : runs'[r] # Nil => ~runs'[r].handle
  BY <1>2, <1>3 DEF IInv, TypeOK
<1>5. ASSUME NEW r \in Runs
      PROVE  thread[r] = "none" /\ child[r] = "none" /\ r \notin kept
  BY Known1 DEF Restart, Sound
<1>6. /\ api' = "up" /\ thread' = thread /\ child' = child /\ kept' = kept
  BY DEF Restart
<1>7. TypeOK'
  BY <1>3, <1>4, <1>5, <1>6 DEF IInv, TypeOK, Known
<1>8. RunsSound'
  BY <1>4, <1>5, <1>6 DEF RunsSound, Sound, Lively, Threads, Children
<1> QED BY <1>7, <1>8 DEF IInv

-----------------------------------------------------------------------------
\* Every step of a thread, of the API's handlers and of the process keeps the
\* invariant.
THEOREM IInvInductive == IInv /\ [Next]_vars => IInv'
<1> SUFFICES ASSUME IInv, [Next]_vars PROVE IInv'
  OBVIOUS
<1>1. CASE UNCHANGED vars
  BY <1>1 DEF vars, IInv, TypeOK, RunsSound, Known
<1>2. ASSUME NEW r \in Runs, CreateRun(r) \/ CancelRun(r) \/ ShutdownRun(r)
      PROVE  IInv'
  BY <1>2, CreateRunSound, CancelRunSound, ShutdownRunSound
<1>3. ASSUME NEW r \in Runs, Thread(r) PROVE IInv'
  BY <1>3, BeginSound, LaunchSound, StoreHandleSound, SettleSound, RaisedSound
  DEF Thread
<1>4. ASSUME NEW r \in Runs, ReadOutput(r) \/ ChildEnds(r) PROVE IInv'
  BY <1>4, ReadOutputSound, ChildEndsSound
<1>5. CASE Stop \/ Restart
  BY <1>5, StopSound, RestartSound
<1>6. CASE Exit
  BY <1>6, GoneSound DEF Exit, IInv, TypeOK
<1>7. CASE Crash
  BY <1>7, FaultTypes, GoneSound DEF Crash, IInv, TypeOK
<1> QED BY <1>1, <1>2, <1>3, <1>4, <1>5, <1>6, <1>7 DEF Next

\* In every state a record, its thread and its child agree.
THEOREM Invariance == Spec => []IInv
  BY InitIInv, IInvInductive, PTL DEF Spec

\* Records, manifests, threads and children keep their shape.
THEOREM TypeCorrect == Spec => []TypeOK
<1>1. IInv => TypeOK
  BY DEF IInv
<1> QED BY <1>1, Invariance, PTL

\* A run with its result has no child at work and no environment in memory.
THEOREM LeavesNothing == Spec => []NothingLeftBehind
<1>1. IInv => NothingLeftBehind
  <2> SUFFICES ASSUME IInv, api = "up", NEW r \in Runs, Known(r),
                      runs[r].status \in Verdicts \cup {"cancelled", "interrupted"}
               PROVE  child[r] # "running" /\ r \notin kept
    BY DEF NothingLeftBehind
  <2>1. Sound(runs[r], thread[r], child[r], r \in kept, api) /\ runs[r] # Nil
    BY Known1
  <2>2. runs[r].status \notin Unfinished /\ runs[r].status # "error"
    BY DEF Verdicts, Unfinished
  <2> QED BY <2>1, <2>2 DEF Sound
<1> QED BY <1>1, Invariance, PTL

-----------------------------------------------------------------------------
(* The cancel.                                                             *)

\* What CancelIsKept says of a step for one run.
Keeps(r) ==
  /\ runs[r].cancel /\ Active(r) => runs'[r].status \notin Verdicts
  /\ ~Active(r) => runs'[r].status \in {runs[r].status, "error"}

LEMMA SameStatus ==
  ASSUME NEW r \in Runs, runs'[r].status = runs[r].status
  PROVE  Keeps(r)
  BY DEF Keeps, Active, Unfinished, Verdicts

LEMMA StatusWritten ==
  ASSUME IInv, NEW r \in Runs, NEW status \in Statuses, NEW written \in BOOLEAN,
         runs[r] # Nil,
         \/ Persist(r, [runs[r] EXCEPT !.status = status], written)
         \/ Persist(r, [runs[r] EXCEPT !.status = status, !.handle = FALSE], written)
         \/ Persist(r, [runs[r] EXCEPT !.cancel = TRUE, !.status = status], written)
  PROVE  runs'[r].status = status
<1>1. runs[r] \in Records
  BY Known1 DEF Known
<1>2. \A record : Persist(r, record, written) => runs'[r] = record
  BY DEF Persist, IInv, TypeOK
<1>3. /\ [runs[r] EXCEPT !.status = status].status = status
      /\ [runs[r] EXCEPT !.status = status, !.handle = FALSE].status = status
      /\ [runs[r] EXCEPT !.cancel = TRUE, !.status = status].status = status
  BY <1>1 DEF Records
<1> QED BY <1>2, <1>3

LEMMA OthersSame ==
  ASSUME IInv, NEW q \in Runs, NEW r \in Runs, r # q,
         \/ CreateRun(q) \/ CancelRun(q) \/ ShutdownRun(q)
         \/ Thread(q) \/ ReadOutput(q) \/ ChildEnds(q),
         runs'[r] # Nil
  PROVE  runs'[r] = runs[r]
<1>1. ASSUME NEW record, NEW written, Persist(q, record, written)
      PROVE  runs'[r] = runs[r]
  BY <1>1 DEF Persist, IInv, TypeOK
<1>2. CASE CreateRun(q) \/ CancelRun(q)
  BY <1>1, <1>2 DEF CreateRun, CancelRun
<1>3. CASE ShutdownRun(q)
  BY <1>1, <1>3 DEF ShutdownRun, Gone
<1>4. CASE Begin(q)
  BY <1>1, <1>4 DEF Begin
<1>5. CASE Settle(q) \/ Raised(q) \/ ReadOutput(q)
  BY <1>1, <1>5 DEF Settle, Raised, ReadOutput
<1>6. CASE Launch(q) \/ StoreHandle(q) \/ ChildEnds(q)
  BY <1>6 DEF Launch, StoreHandle, ChildEnds, IInv, TypeOK
<1> QED BY <1>2, <1>3, <1>4, <1>5, <1>6 DEF Thread

LEMMA HandlersKeep ==
  ASSUME IInv, NEW r \in Runs, Known(r), runs'[r] # Nil,
         CreateRun(r) \/ CancelRun(r) \/ ShutdownRun(r)
  PROVE  Keeps(r)
<1>1. runs[r] \in Records /\ runs[r] # Nil
  BY Known1
<1>2. CASE CreateRun(r)
  BY <1>2 DEF CreateRun
<1>3. CASE CancelRun(r)
  <2>1. runs'[r] = Cancelled(runs[r])
    BY <1>3 DEF CancelRun, Persist, IInv, TypeOK
  <2>2. runs'[r].status = runs[r].status
    BY <1>1, <2>1 DEF Cancelled, Records
  <2> QED BY <2>2, SameStatus
<1>4. CASE ShutdownRun(r)
  <2>1. ~Gone
    BY DEF Gone
  <2>2. Persist(r, [runs[r] EXCEPT !.cancel = TRUE, !.status = "cancelled"], TRUE)
    BY <1>4, <2>1 DEF ShutdownRun
  <2>3. runs'[r].status = "cancelled"
    BY <1>1, <2>2, StatusWritten DEF Statuses
  <2> QED BY <1>4, <2>3 DEF Keeps, ShutdownRun, Verdicts
<1> QED BY <1>2, <1>3, <1>4

LEMMA ThreadKeeps ==
  ASSUME IInv, NEW r \in Runs, Known(r), runs'[r] # Nil,
         Thread(r) \/ ReadOutput(r) \/ ChildEnds(r)
  PROVE  Keeps(r)
<1>1. /\ runs[r] \in Records /\ runs[r] # Nil
      /\ thread[r] \in Lively =>
           Active(r) \/ (runs[r].status = "cancelled" /\ runs[r].cancel)
  BY Known1 DEF Sound, Active
<1>2. CASE Begin(r)
  <2>1. CASE runs[r].cancel
    <3>1. runs'[r].status = "cancelled"
      BY <1>1, <1>2, <2>1, StatusWritten DEF Begin, Statuses
    <3> QED BY <1>1, <1>2, <3>1 DEF Keeps, Verdicts, Begin, Lively
  <2>2. CASE ~runs[r].cancel
    BY <1>1, <1>2, <2>2 DEF Keeps, Begin, Lively
  <2> QED BY <2>1, <2>2
<1>3. CASE Settle(r)
  <2>1. Verdict(r) \in Statuses /\ (runs[r].cancel => Verdict(r) = "cancelled")
    BY DEF Verdict, Statuses, Verdicts
  <2>2. runs'[r].status = Verdict(r)
    BY <1>1, <1>3, <2>1, StatusWritten DEF Settle
  <2> QED BY <1>1, <1>3, <2>1, <2>2 DEF Keeps, Verdicts, Settle, Lively
<1>4. CASE Raised(r)
  <2>1. runs'[r].status = "error"
    BY <1>1, <1>4, StatusWritten DEF Raised, Statuses
  <2> QED BY <2>1 DEF Keeps, Verdicts
<1>5. CASE ReadOutput(r)
  <2>1. runs'[r] = runs[r]
    BY <1>5 DEF ReadOutput, Persist, IInv, TypeOK
  <2> QED BY <2>1, SameStatus
<1>6. CASE StoreHandle(r)
  <2>1. runs'[r].status = runs[r].status
    BY <1>1, <1>6 DEF StoreHandle, IInv, TypeOK, Records
  <2> QED BY <2>1, SameStatus
<1>7. CASE Launch(r) \/ ChildEnds(r)
  BY <1>7, SameStatus DEF Launch, ChildEnds
<1> QED BY <1>2, <1>3, <1>4, <1>5, <1>6, <1>7 DEF Thread

\* No step of a thread, of the API or of another run lets a cancelled run end
\* with a verdict, or changes a result but into the error of its thread.
THEOREM CancelKept == Spec => CancelIsKept
<1>1. IInv /\ [Next]_vars
        => [\A r \in Runs : Known(r) /\ runs'[r] # Nil => Keeps(r)]_vars
  <2> SUFFICES ASSUME IInv, [Next]_vars, NEW r \in Runs, Known(r), runs'[r] # Nil
               PROVE  Keeps(r)
    OBVIOUS
  <2>1. CASE UNCHANGED vars
    BY <2>1, SameStatus DEF vars
  <2>2. ASSUME NEW q \in Runs,
               \/ CreateRun(q) \/ CancelRun(q) \/ ShutdownRun(q)
               \/ Thread(q) \/ ReadOutput(q) \/ ChildEnds(q)
        PROVE  Keeps(r)
    <3>1. CASE q # r
      BY <2>2, <3>1, OthersSame, SameStatus
    <3>2. CASE q = r
      BY <2>2, <3>2, HandlersKeep, ThreadKeeps
    <3> QED BY <3>1, <3>2
  <2>3. CASE Stop
    BY <2>3, SameStatus DEF Stop
  <2>4. CASE Exit \/ Crash
    BY <2>4 DEF Exit, Crash, Gone
  <2>5. CASE Restart
    BY <2>5, Known1 DEF Restart
  <2> QED BY <2>1, <2>2, <2>3, <2>4, <2>5 DEF Next
<1> QED BY <1>1, Invariance, PTL DEF Spec, CancelIsKept, Keeps

=============================================================================
