------------------------------ MODULE TestRuns ------------------------------
(***************************************************************************)
(* Test Center: workflows launched as child processes of the API (create,  *)
(* cancel, shutdown and restart recovery; process_executor.py, run_store.py).*)
(*                                                                         *)
(* The API's handlers run one after the other on its event loop; each run  *)
(* has a thread of its own that launches the child and reads its output.   *)
(* Both change the run's record under the store's lock and write its       *)
(* manifest before they release it.  A write may fail with the change      *)
(* already made, and the lock is not held while the child is launched, is  *)
(* read from, or is waited for.                                            *)
(***************************************************************************)
EXTENDS Naturals

CONSTANTS
  Runs,       \* run identities
  MaxFaults,  \* bound on failed writes and launches and on crashes
  Nil         \* no record, no manifest

VARIABLES
  runs,    \* runs[r]: the record in the store, Nil before and without it
  files,   \* files[r]: the manifest on disk
  kept,    \* runs whose launch environment is held in memory
  thread,  \* thread[r]: where the run's thread is
  child,   \* child[r]: the workflow process
  api,     \* the API process
  faults   \* faults so far, capped by MaxFaults

vars == <<runs, files, kept, thread, child, api, faults>>

-----------------------------------------------------------------------------
Verdicts == {"passed", "failed"}
Unfinished == {"queued", "running"}
Statuses == Unfinished \cup Verdicts \cup {"cancelled", "error", "interrupted"}
\* "dead": it was not started, or ended before the launch, by a failed write.
Threads == {"none", "begin", "launch", "store", "reading", "raised", "dead"}

Children == {"none", "running", "ended well", "ended badly"}

Records == [status : Statuses, cancel : BOOLEAN, handle : BOOLEAN]
Manifests == [status : Statuses, cancel : BOOLEAN]

ASSUME TestRunsAssumption ==
  /\ MaxFaults \in Nat
  /\ Nil \notin Records \cup Manifests

Init ==
  /\ runs = [r \in Runs |-> Nil]
  /\ files = [r \in Runs |-> Nil]
  /\ kept = {}
  /\ thread = [r \in Runs |-> "none"]
  /\ child = [r \in Runs |-> "none"]
  /\ api = "up"
  /\ faults = 0

\* _manifest_record: the handle of the child is not written.
Manifest(record) == [status |-> record.status, cancel |-> record.cancel]

NewRun == [status |-> "queued", cancel |-> FALSE, handle |-> FALSE]
Known(r) == runs[r] # Nil
Active(r) == Known(r) /\ runs[r].status \in Unfinished

Goes(r, pc) == thread' = [thread EXCEPT ![r] = pc]

\* An entry for every fault.
Fault == faults < MaxFaults /\ faults' = faults + 1

\* The record is changed and then persisted; the old manifest is replaced as
\* a whole or stays.
Persist(r, record, written) ==
  /\ runs' = [runs EXCEPT ![r] = record]
  /\ IF written
     THEN files' = [files EXCEPT ![r] = Manifest(record)] /\ UNCHANGED faults
     ELSE Fault /\ UNCHANGED files

-----------------------------------------------------------------------------
(* Wrong variants: what a plausible bug would make of a definition further *)
(* down, named in its comment. Nothing in the specification uses them.     *)

\* Verdict: the exit code alone decides.
VerdictOfExitCode(r) == IF child[r] = "ended well" THEN "passed" ELSE "failed"

\* Cancelled: the record is cancelled at once, like at a shutdown.
CancelledAtOnce(record) == [record EXCEPT !.cancel = TRUE, !.status = "cancelled"]

\* Recovered: a restart takes the manifests as they are.
RecoveredAsWritten(manifest) ==
  [status |-> manifest.status, cancel |-> manifest.cancel, handle |-> FALSE]

-----------------------------------------------------------------------------
(* Handlers of the API.                                                    *)

\* create_run: record, environment, thread. A record whose manifest cannot be
\* written stays in the store without a thread.
CreateRun(r) ==
  /\ api = "up" /\ ~Known(r) /\ files[r] = Nil
  /\ \E written \in BOOLEAN :
       /\ Persist(r, NewRun, written)
       /\ kept' = IF written THEN kept \cup {r} ELSE kept
       /\ Goes(r, IF written THEN "begin" ELSE "dead")
  /\ UNCHANGED <<child, api>>

Cancelled(record) == [record EXCEPT !.cancel = TRUE]

\* cancel. With the handle stored already, terminate() gives the child one
\* more reason to end; without it the child is not told, now or later.
CancelRun(r) ==
  /\ api = "up" /\ Known(r)
  /\ \E written \in BOOLEAN : Persist(r, Cancelled(runs[r]), written)
  /\ UNCHANGED <<kept, thread, child, api>>

-----------------------------------------------------------------------------
(* The thread of a run.                                                    *)

\* A cancelled run is not launched. A failed write ends the thread.
Begin(r) ==
  /\ thread[r] = "begin"
  /\ \E written \in BOOLEAN :
       IF runs[r].cancel
       THEN /\ Persist(r, [runs[r] EXCEPT !.status = "cancelled"], written)
            /\ kept' = kept \ {r}
            /\ Goes(r, "none")
       ELSE /\ Persist(r, [runs[r] EXCEPT !.status = "running"], written)
            /\ kept' = IF written THEN kept \ {r} ELSE kept
            /\ Goes(r, IF written THEN "launch" ELSE "dead")
  /\ UNCHANGED <<child, api>>

Launch(r) ==
  /\ thread[r] = "launch"
  /\ \/ /\ child' = [child EXCEPT ![r] = "running"]
        /\ Goes(r, "store")
        /\ UNCHANGED faults
     \/ Fault /\ Goes(r, "raised") /\ UNCHANGED child
  /\ UNCHANGED <<runs, files, kept, api>>

StoreHandle(r) ==
  /\ thread[r] = "store"
  /\ runs' = [runs EXCEPT ![r].handle = TRUE]
  /\ Goes(r, "reading")
  /\ UNCHANGED <<files, kept, child, api, faults>>

\* A batch of the child's output. The log and the manifest may be unwritable.
ReadOutput(r) ==
  /\ thread[r] = "reading"
  /\ \E written \in BOOLEAN :
       /\ Persist(r, runs[r], written)
       /\ Goes(r, IF written THEN "reading" ELSE "raised")
  /\ UNCHANGED <<kept, child, api>>

Verdict(r) ==
  CASE runs[r].cancel -> "cancelled"
    [] ~runs[r].cancel /\ child[r] = "ended well" -> "passed"
    [] OTHER -> "failed"

Settle(r) ==
  /\ thread[r] = "reading" /\ child[r] # "running"
  /\ \E written \in BOOLEAN :
       /\ Persist(r, [runs[r] EXCEPT !.status = Verdict(r), !.handle = FALSE], written)
       /\ Goes(r, IF written THEN "none" ELSE "raised")
  /\ UNCHANGED <<kept, child, api>>

\* The except clause; the child is left to itself.
Raised(r) ==
  /\ thread[r] = "raised"
  /\ \E written \in BOOLEAN :
       Persist(r, [runs[r] EXCEPT !.status = "error", !.handle = FALSE], written)
  /\ Goes(r, "none")
  /\ UNCHANGED <<kept, child, api>>

\* The workflow's process ends, in its own time also when it was terminated.
ChildEnds(r) ==
  /\ child[r] = "running"
  /\ \E state \in {"ended well", "ended badly"} : child' = [child EXCEPT ![r] = state]
  /\ UNCHANGED <<runs, files, kept, thread, api, faults>>

-----------------------------------------------------------------------------
(* The API process.                                                        *)

\* uvicorn accepts no further request and then runs shutdown().
Stop ==
  /\ api = "up"
  /\ api' = "stopping"
  /\ UNCHANGED <<runs, files, kept, thread, child, faults>>

\* Everything in memory is gone. The API is the first process of its
\* container: its children end with it.
Gone ==
  /\ api' = "down"
  /\ runs' = [r \in Runs |-> Nil]
  /\ kept' = {}
  /\ thread' = [r \in Runs |-> "none"]
  /\ child' = [r \in Runs |-> "none"]

\* shutdown(), one run at a time while the threads go on. A failed write ends
\* it, and the process.
ShutdownRun(r) ==
  /\ api = "stopping" /\ Active(r)
  /\ \/ /\ Persist(r, [runs[r] EXCEPT !.cancel = TRUE, !.status = "cancelled"], TRUE)
        /\ kept' = kept \ {r}
        /\ UNCHANGED <<thread, child, api>>
     \/ Fault /\ Gone /\ UNCHANGED files

Exit ==
  /\ api = "stopping" /\ \A r \in Runs : ~Active(r)
  /\ Gone
  /\ UNCHANGED <<files, faults>>

Crash ==
  /\ api # "down"
  /\ Fault /\ Gone
  /\ UNCHANGED files

\* _load_runs: a run the last process left unfinished is interrupted.
Recovered(manifest) ==
  [status |-> IF manifest.status \in Unfinished THEN "interrupted" ELSE manifest.status,
   cancel |-> manifest.cancel, handle |-> FALSE]

\* A manifest that cannot be rewritten is passed over until the next start.
Restart ==
  /\ api = "down"
  /\ api' = "up"
  /\ \E unwritten \in SUBSET {r \in Runs : files[r] # Nil /\ files[r].status \in Unfinished} :
       LET found == {r \in Runs : files[r] # Nil} \ unwritten IN
       /\ IF unwritten = {} THEN UNCHANGED faults ELSE Fault
       /\ runs' = [r \in Runs |-> IF r \in found THEN Recovered(files[r]) ELSE Nil]
       /\ files' = [r \in Runs |-> IF r \in found THEN Manifest(Recovered(files[r]))
                                                  ELSE files[r]]
  /\ UNCHANGED <<kept, thread, child>>

-----------------------------------------------------------------------------
Thread(r) == \/ Begin(r) \/ Launch(r) \/ StoreHandle(r) \/ Settle(r) \/ Raised(r)

Next ==
  \/ \E r \in Runs : \/ CreateRun(r) \/ CancelRun(r) \/ ShutdownRun(r)
                     \/ Thread(r) \/ ReadOutput(r) \/ ChildEnds(r)
  \/ Stop \/ Exit \/ Crash \/ Restart

Spec == Init /\ [][Next]_vars

\* Threads run, workflows end by their own timeouts and a server that stops
\* gets there. Nobody has to stop, start or cancel anything.
Fairness ==
  /\ \A r \in Runs : /\ WF_vars(Thread(r)) /\ WF_vars(ChildEnds(r))
                     /\ WF_vars(ShutdownRun(r))
  /\ WF_vars(Exit)

FairSpec == Spec /\ Fairness

-----------------------------------------------------------------------------
(* Properties.                                                             *)

\* Records, manifests and threads keep their shape; a handle is stored only
\* while its thread reads, or has failed; no thread is without a record.
TypeOK ==
  /\ runs \in [Runs -> {Nil} \cup Records]
  /\ files \in [Runs -> {Nil} \cup Manifests]
  /\ kept \subseteq Runs
  /\ thread \in [Runs -> Threads]
  /\ child \in [Runs -> Children]
  /\ api \in {"up", "stopping", "down"}
  /\ faults \in 0..MaxFaults
  /\ \A r \in Runs :
       /\ thread[r] # "none" => Known(r)
       /\ Known(r) /\ runs[r].handle => thread[r] \in {"reading", "raised"}

\* A cancel that found the run unfinished is never overruled by a verdict,
\* whether it comes before the launch, before the handle is stored, after the
\* child's end, with a shutdown or before a restart; and neither is a finished
\* status taken back, except that a thread which fails reports the error.
CancelIsKept ==
  [][\A r \in Runs : Known(r) /\ runs'[r] # Nil =>
       /\ runs[r].cancel /\ Active(r) => runs'[r].status \notin Verdicts
       /\ ~Active(r) => runs'[r].status \in {runs[r].status, "error"}]_vars

\* A run with its result leaves nothing behind: no child at work and no launch
\* environment in memory. A thread that failed reports an error instead, and
\* its child is left to itself.
NothingLeftBehind ==
  api = "up" =>
    \A r \in Runs : Known(r) /\ runs[r].status \in Verdicts \cup {"cancelled", "interrupted"}
                      => child[r] # "running" /\ r \notin kept

\* Every run gets its result, in this process or as interrupted in the next;
\* only one whose start could not be written waits for the next process.
RunGetsResult ==
  \A r \in Runs : Active(r) ~> ~Active(r) \/ thread[r] = "dead"

=============================================================================
