----------------------------- MODULE MemoryBank -----------------------------
(***************************************************************************)
(* Availability of one relationship's native bank.  Before a lookup or a   *)
(* delivery every caller runs ensure_ready: it reads the relationship row, *)
(* checks an established bank, and otherwise competes for the one-time     *)
(* initialization under a fenced lease.                                    *)
(*                                                                         *)
(* The lease guards the row only.  The bank itself is another service's    *)
(* state, changed by plain HTTP calls outside of any transaction: a caller *)
(* that lost its lease goes on calling, and calls may be lost or arrive    *)
(* after their sender is gone.                                             *)
(***************************************************************************)
EXTENDS Integers, FiniteSets

CONSTANTS
  Callers,    \* lookups of turns and delivery loops that need the bank
  MaxFaults,  \* bound on failed calls, crashes, stalls, losses and changes
  Nil         \* SQL NULL

ASSUME MemoryBankAssumption == MaxFaults \in Nat /\ Nil \notin Callers

VARIABLES
  row,     \* the relationship row: state, the claim on its initialization,
           \* and whether initialized_at is set
  bank,    \* the bank in the memory service
  proc,    \* proc[c]: where the caller is in ensure_ready
  late,    \* late[c]: requests of c still on their way without it
  damage,  \* what happened to the bank from outside so far
  faults   \* environment faults so far, capped by MaxFaults

vars == <<row, bank, proc, late, damage, faults>>

-----------------------------------------------------------------------------
RowState == {"new", "initializing", "ready", "missing", "failed"}
Initializing == {"probe", "create", "statistics", "configure", "verify",
                 "finish", "reset", "refuse"}
Calling == {"check", "probe", "create", "statistics", "configure", "verify"}
Pc == {"idle", "look", "claim", "wait", "missing", "changed", "using"}
        \cup Initializing \cup Calling

NewRow == [state |-> "new", owner |-> Nil, live |-> FALSE, established |-> FALSE]
NoBank == [exists |-> FALSE, configured |-> FALSE, holds |-> "nothing"]

\* The bank may be left over: empty from an interrupted creation, or filled
\* by something else than this relationship.
Init ==
  /\ row = NewRow
  /\ bank \in {NoBank} \cup [exists : {TRUE}, configured : BOOLEAN,
                             holds : {"nothing", "foreign"}]
  /\ proc = [c \in Callers |-> "idle"]
  /\ late = [c \in Callers |-> {}]
  /\ damage = IF bank.holds = "foreign" THEN {"foreign"} ELSE {}
  /\ faults = 0

Go(c, pc) == proc' = [proc EXCEPT ![c] = pc]

-----------------------------------------------------------------------------
(* Wrong variants: what a plausible bug would make of a definition further *)
(* down, named in its comment. Nothing in the specification uses them.     *)

\* Claimable: nobody takes over an initialization whose lease ran out.
ClaimableNew == row.state = "new"

\* Holds: the update is not fenced, it finds its row by the bank alone.
HoldsAnyway(c) == proc[c] \in Initializing

\* Statistics: what is in the bank does not matter.
StatisticsUnread(c) ==
  /\ proc[c] = "statistics"
  /\ Go(c, IF bank.exists THEN "configure" ELSE "reset")
  /\ UNCHANGED <<row, bank, late, damage, faults>>

-----------------------------------------------------------------------------
(* ensure_ready.                                                           *)

Ensure(c) ==
  /\ proc[c] \in {"idle", "using"}
  /\ Go(c, "look")
  /\ UNCHANGED <<row, bank, late, damage, faults>>

\* The row is read in a transaction of its own.
Look(c) ==
  /\ proc[c] = "look"
  /\ Go(c, CASE row.state = "ready" -> "check"
             [] row.state \in {"missing", "failed"} -> "idle"
             [] OTHER -> "claim")
  /\ UNCHANGED <<row, bank, late, damage, faults>>

Claimable == \/ row.state = "new"
             \/ row.state = "initializing" /\ ~row.live

\* claim_initialization; a caller that does not get it sleeps.
Claim(c) ==
  /\ proc[c] = "claim"
  /\ IF Claimable
     THEN /\ row' = [row EXCEPT !.state = "initializing", !.owner = c,
                                !.live = TRUE]
          /\ Go(c, "probe")
     ELSE /\ Go(c, "wait")
          /\ UNCHANGED row
  /\ UNCHANGED <<bank, late, damage, faults>>

\* The next round, or the deadline has passed.
Round(c) ==
  /\ proc[c] = "wait"
  /\ \E pc \in {"look", "idle"} : Go(c, pc)
  /\ UNCHANGED <<row, bank, late, damage, faults>>

\* _check_established: the configuration call and its verdict.
Check(c) ==
  /\ proc[c] = "check"
  /\ Go(c, CASE ~bank.exists -> "missing"
             [] bank.exists /\ ~bank.configured -> "changed"
             [] OTHER -> "using")
  /\ UNCHANGED <<row, bank, late, damage, faults>>

\* mark_missing and mark_configuration_changed touch a ready row only.
Mark(c) ==
  /\ proc[c] \in {"missing", "changed"}
  /\ row' = IF row.state # "ready" THEN row
            ELSE [row EXCEPT !.state = IF proc[c] = "missing" THEN "missing"
                                                              ELSE "failed"]
  /\ Go(c, "idle")
  /\ UNCHANGED <<bank, late, damage, faults>>

-----------------------------------------------------------------------------
(* _initialize: one call to the service per step.                          *)

Created(b) == IF b.exists THEN b ELSE [NoBank EXCEPT !.exists = TRUE]
Configured(b) == IF b.exists THEN [b EXCEPT !.configured = TRUE] ELSE b

Probe(c) ==
  /\ proc[c] = "probe"
  /\ Go(c, IF bank.exists THEN "statistics" ELSE "create")
  /\ UNCHANGED <<row, bank, late, damage, faults>>

CreateBank(c) ==
  /\ proc[c] = "create"
  /\ bank' = Created(bank)
  /\ Go(c, "statistics")
  /\ UNCHANGED <<row, late, damage, faults>>

\* A bank with anything in it is refused, whoever filled it.
Statistics(c) ==
  /\ proc[c] = "statistics"
  /\ Go(c, CASE ~bank.exists -> "reset"
             [] bank.exists /\ bank.holds # "nothing" -> "refuse"
             [] OTHER -> "configure")
  /\ UNCHANGED <<row, bank, late, damage, faults>>

ConfigureBank(c) ==
  /\ proc[c] = "configure"
  /\ bank' = Configured(bank)
  /\ Go(c, IF bank.exists THEN "verify" ELSE "reset")
  /\ UNCHANGED <<row, late, damage, faults>>

Verify(c) ==
  /\ proc[c] = "verify"
  /\ Go(c, CASE ~bank.exists -> "reset"
             [] bank.exists /\ ~bank.configured -> "refuse"
             [] OTHER -> "finish")
  /\ UNCHANGED <<row, bank, late, damage, faults>>

Holds(c) == row.state = "initializing" /\ row.owner = c /\ row.live

Settled(state) ==
  [state |-> state, owner |-> Nil, live |-> FALSE,
   established |-> row.established \/ state = "ready"]

\* finish_initialization: ready and on to the next round, or, from the
\* finally clause, back to new or failed and the error is raised. Without
\* the claim nothing is written and LeaseUnavailableError ends the caller.
Finish(c) ==
  /\ proc[c] \in {"finish", "reset", "refuse"}
  /\ row' = IF ~Holds(c) THEN row
            ELSE Settled(CASE proc[c] = "finish" -> "ready"
                           [] proc[c] = "reset" -> "new"
                           [] OTHER -> "failed")
  /\ Go(c, IF proc[c] = "finish" /\ Holds(c) THEN "wait" ELSE "idle")
  /\ UNCHANGED <<bank, late, damage, faults>>

\* What the caller wanted the bank for; a delivery stores a memory in it.
Retain(c) ==
  /\ proc[c] = "using"
  /\ bank' = IF bank.exists THEN [bank EXCEPT !.holds = "own"] ELSE bank
  /\ Go(c, "idle")
  /\ UNCHANGED <<row, late, damage, faults>>

-----------------------------------------------------------------------------
(* Faults: each counts one.                                                *)

Fault == faults < MaxFaults /\ faults' = faults + 1

\* The call's request is lost, or stays on its way.
LetGo(c) ==
  \/ UNCHANGED late
  \/ /\ proc[c] \in {"create", "configure"}
     /\ late' = [late EXCEPT ![c] = @ \cup {proc[c]}]

\* A timeout or an error of the service: an initializer resets the row.
CallFails(c) ==
  /\ Fault
  /\ proc[c] \in Calling
  /\ LetGo(c)
  /\ Go(c, IF proc[c] \in Initializing THEN "reset" ELSE "idle")
  /\ UNCHANGED <<row, bank, damage>>

\* The process dies, or a transaction of the finally clause fails.
Crash(c) ==
  /\ Fault
  /\ proc[c] \notin {"idle", "using"}
  /\ LetGo(c)
  /\ Go(c, "idle")
  /\ UNCHANGED <<row, bank, damage>>

LateRequest(c) ==
  \E request \in late[c] :
    /\ late' = [late EXCEPT ![c] = @ \ {request}]
    /\ bank' = IF request = "create" THEN Created(bank) ELSE Configured(bank)
    /\ UNCHANGED <<row, proc, damage, faults>>

\* INITIALIZATION_LEASE_SECONDS pass: nobody renews this lease.
OrphanExpires ==
  /\ row.live
  /\ \A c \in Callers : row.owner = c => proc[c] \notin Initializing
  /\ row' = [row EXCEPT !.live = FALSE]
  /\ UNCHANGED <<bank, proc, late, damage, faults>>

\* A turn may wait for a service longer than the lease lasts.
SlowInitializer ==
  /\ Fault
  /\ row.live
  /\ row' = [row EXCEPT !.live = FALSE]
  /\ UNCHANGED <<bank, proc, late, damage>>

LoseBank ==
  /\ Fault
  /\ bank.exists
  /\ bank' = NoBank
  /\ damage' = damage \cup {"lost"}
  /\ UNCHANGED <<row, proc, late>>

ChangeConfiguration ==
  /\ Fault
  /\ bank.configured
  /\ bank' = [bank EXCEPT !.configured = FALSE]
  /\ damage' = damage \cup {"changed"}
  /\ UNCHANGED <<row, proc, late>>

-----------------------------------------------------------------------------
Proceed(c) ==
  \/ Look(c) \/ Claim(c) \/ Round(c) \/ Check(c) \/ Mark(c)
  \/ Probe(c) \/ CreateBank(c) \/ Statistics(c) \/ ConfigureBank(c)
  \/ Verify(c) \/ Finish(c)

Next ==
  \/ \E c \in Callers : \/ Ensure(c) \/ Proceed(c) \/ Retain(c)
                        \/ CallFails(c) \/ Crash(c) \/ LateRequest(c)
  \/ OrphanExpires \/ SlowInitializer \/ LoseBank \/ ChangeConfiguration

Spec == Init /\ [][Next]_vars

\* Every await of a caller ends, database time passes, and callers keep
\* coming: a delivery is checked again and each turn looks something up.
Fairness ==
  /\ \A c \in Callers : WF_vars(Proceed(c))
  /\ WF_vars(\E c \in Callers : Ensure(c))
  /\ WF_vars(OrphanExpires)

FairSpec == Spec /\ Fairness

-----------------------------------------------------------------------------
(* Properties.                                                             *)

\* Every variable keeps its shape; a claim sits at an initializing row only.
TypeOK ==
  /\ row \in [state : RowState, owner : Callers \cup {Nil}, live : BOOLEAN,
              established : BOOLEAN]
  /\ row.owner # Nil \/ row.live => row.state = "initializing"
  /\ bank \in [exists : BOOLEAN, configured : BOOLEAN,
               holds : {"nothing", "foreign", "own"}]
  /\ bank.exists \/ bank = NoBank
  /\ proc \in [Callers -> Pc]
  /\ late \in [Callers -> SUBSET {"create", "configure"}]
  /\ damage \in SUBSET {"foreign", "lost", "changed"}
  /\ faults \in 0..MaxFaults

\* "Populated unestablished state must never be adopted as a fresh
\* relationship": a bank that something else filled is neither established
\* nor in use, whoever initializes, gives up or takes over.
NeverAdoptsPopulated ==
  bank.holds = "foreign" =>
    /\ ~row.established
    /\ \A c \in Callers : proc[c] # "using"

\* A relationship is given up for a reason outside: its bank is called missing
\* only after the service lost it, and failed only if something other than
\* these callers filled, changed or lost it. A slow initializer that finds the
\* bank filled by those that took over must not fail the relationship.
FailedForAReason ==
  /\ row.state = "missing" => "lost" \in damage
  /\ row.state = "failed" => damage # {}

\* Established is for good: no initializer, however late, takes the row back
\* to new or initializing, and a row given up stays given up.
EstablishedForGood ==
  [][/\ row.established => /\ row'.established
                           /\ row'.state \in {"ready", "missing", "failed"}
     /\ row.state \in {"missing", "failed"} => row'.state = row.state]_vars

\* As long as callers come, the initialization ends: in a usable bank or with
\* the relationship given up, even when initializers die.
InitializationSettles ==
  row.state \in {"new", "initializing"} ~>
    row.state \in {"ready", "missing", "failed"}

=============================================================================
