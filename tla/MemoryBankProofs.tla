-------------------------- MODULE MemoryBankProofs --------------------------
(***************************************************************************)
(* Proofs about MemoryBank, for any number of callers, calls lost or late, *)
(* and faults: what the callers have seen stays true of the row and, until *)
(* something outside changes it, of the bank.                              *)
(***************************************************************************)
EXTENDS MemoryBank, TLAPS

-----------------------------------------------------------------------------
(* The inductive invariant.                                                *)

GivenUp == {"missing", "failed"}
\* Places of a caller that found the relationship ready, that found the bank
\* there, and that configured it.
PastLook == {"check", "missing", "changed", "using"}
PastStatistics == {"configure", "verify", "finish"}
PastConfigure == {"verify", "finish"}

\* What the row and its readers say of each other.
RowsAgree ==
  /\ row.established => row.state \in {"ready"} \cup GivenUp
  /\ row.state \in {"ready", "missing"} => row.established
  /\ \A c \in Callers : proc[c] \in PastLook => row.established
  /\ bank.holds = "own" => row.established

\* Nobody has got beyond the look at a bank that something else filled.
ForeignKept ==
  bank.holds = "foreign" =>
    /\ ~row.established
    /\ \A c \in Callers : proc[c] \notin PastStatistics

\* The bank is as the callers left it but for what happened from outside.
OutsideOnly ==
  /\ bank.holds = "foreign" => "foreign" \in damage
  /\ \/ bank.exists \/ "lost" \in damage
     \/ /\ ~row.established
        /\ \A c \in Callers : proc[c] \notin PastStatistics
  /\ \/ bank.configured \/ damage # {}
     \/ /\ ~row.established
        /\ \A c \in Callers : proc[c] \notin PastConfigure

\* A caller that gives the relationship up has a reason, or comes too late.
ReasonsHeld ==
  /\ \A c \in Callers :
       /\ proc[c] = "missing" => "lost" \in damage
       /\ proc[c] = "changed" => damage # {}
       /\ proc[c] = "refuse" => damage # {} \/ row.established
  /\ FailedForAReason

IInv == TypeOK /\ RowsAgree /\ ForeignKept /\ OutsideOnly /\ ReasonsHeld

Requests == {"create", "configure"}

\* A fresh row and idle callers, with a left-over bank or none.
THEOREM InitIInv == Init => IInv
<1> SUFFICES ASSUME Init PROVE IInv
  OBVIOUS
<1> USE MemoryBankAssumption DEF Init
<1>0. /\ bank \in [exists : BOOLEAN, configured : BOOLEAN,
                   holds : {"nothing", "foreign", "own"}]
      /\ bank.exists \/ bank = NoBank
      /\ bank.holds # "own"
  <2>1. CASE bank = NoBank
    BY <2>1 DEF NoBank
  <2>2. CASE bank \in [exists : {TRUE}, configured : BOOLEAN,
                       holds : {"nothing", "foreign"}]
    BY <2>2
  <2>3. QED BY <2>1, <2>2
<1>1. TypeOK
  <2>1. row \in [state : RowState, owner : Callers \cup {Nil}, live : BOOLEAN,
                 established : BOOLEAN]
    BY DEF NewRow, RowState
  <2>2. row.owner = Nil /\ ~row.live
    BY DEF NewRow
  <2>3. /\ bank \in [exists : BOOLEAN, configured : BOOLEAN,
                     holds : {"nothing", "foreign", "own"}]
        /\ bank.exists \/ bank = NoBank
    BY <1>0
  <2>4. proc \in [Callers -> Pc] /\ late \in [Callers -> SUBSET Requests]
    BY DEF Pc
  <2>5. damage \in SUBSET {"foreign", "lost", "changed"} /\ faults \in 0..MaxFaults
    OBVIOUS
  <2>6. QED BY <2>1, <2>2, <2>3, <2>4, <2>5 DEF TypeOK, Requests
<1>2. RowsAgree
  BY <1>0 DEF RowsAgree, NewRow, PastLook
<1>3. ForeignKept
  BY DEF ForeignKept, NewRow, PastStatistics
<1>4. OutsideOnly
  BY DEF OutsideOnly, NewRow, NoBank, PastStatistics, PastConfigure
<1>5. ReasonsHeld
  BY DEF ReasonsHeld, FailedForAReason, NewRow
<1>6. QED BY <1>1, <1>2, <1>3, <1>4, <1>5 DEF IInv

-----------------------------------------------------------------------------
(* Steps by what they change.                                              *)

\* A caller moves to a place that row, bank and damage allow it.
Allows(pc) ==
  /\ pc \in PastLook => row.established
  /\ pc \in PastStatistics =>
       /\ bank.holds # "foreign"
       /\ bank.exists \/ "lost" \in damage
  /\ pc \in PastConfigure => bank.configured \/ damage # {}
  /\ pc = "missing" => "lost" \in damage
  /\ pc = "changed" => damage # {}
  /\ pc = "refuse" => damage # {} \/ row.established

LEMMA CallerMoves ==
  ASSUME IInv, NEW c \in Callers, NEW pc \in Pc, Go(c, pc), Allows(pc),
         late' \in [Callers -> SUBSET Requests], faults' \in 0..MaxFaults,
         UNCHANGED <<row, bank, damage>>
  PROVE  IInv'
<1>1. proc' = [proc EXCEPT ![c] = pc] /\ proc \in [Callers -> Pc]
  BY DEF Go, IInv, TypeOK
<1>2. \A d \in Callers : proc'[d] = IF d = c THEN pc ELSE proc[d]
  BY <1>1
<1>3. TypeOK'
  BY <1>1 DEF IInv, TypeOK, Requests
<1>4. RowsAgree'
  BY <1>2 DEF IInv, RowsAgree, Allows
<1>5. ForeignKept'
  BY <1>2 DEF IInv, ForeignKept, Allows
<1>6. OutsideOnly'
  BY <1>2 DEF IInv, OutsideOnly, Allows
<1>7. ReasonsHeld'
  BY <1>2 DEF IInv, ReasonsHeld, FailedForAReason, Allows
<1>8. QED BY <1>3, <1>4, <1>5, <1>6, <1>7 DEF IInv


\* The row changes: callers and bank stay as they are, or one caller moves.
LEMMA RowChanges ==
  ASSUME IInv, NEW c \in Callers, NEW pc \in Pc, Go(c, pc),
         NEW r \in [state : RowState, owner : Callers \cup {Nil},
                    live : BOOLEAN, established : BOOLEAN],
         row' = r,
         r.owner # Nil \/ r.live => r.state = "initializing",
         row.established => r.established,
         r.established => r.state \in {"ready"} \cup GivenUp,
         r.state \in {"ready", "missing"} => r.established,
         r.state = "missing" => "lost" \in damage,
         r.state = "failed" => damage # {},
         r.established => row.established \/ proc[c] = "finish",
         pc \in {"idle", "wait", "probe"},
         UNCHANGED <<bank, late, damage, faults>>
  PROVE  IInv'
<1>1. proc' = [proc EXCEPT ![c] = pc] /\ proc \in [Callers -> Pc]
  BY DEF Go, IInv, TypeOK
<1>2. \A d \in Callers : proc'[d] = IF d = c THEN pc ELSE proc[d]
  BY <1>1
<1>3. TypeOK'
  BY <1>1 DEF IInv, TypeOK
<1>4. RowsAgree'
  BY <1>2 DEF IInv, RowsAgree, PastLook
<1>5. ForeignKept'
  BY <1>2 DEF IInv, ForeignKept, PastStatistics
<1>6. OutsideOnly'
  BY <1>2 DEF IInv, OutsideOnly, PastStatistics, PastConfigure
<1>7. ReasonsHeld'
  BY <1>2 DEF IInv, ReasonsHeld, FailedForAReason
<1>8. QED BY <1>3, <1>4, <1>5, <1>6, <1>7 DEF IInv

\* A request reaches the bank: it may create or configure it, and changes
\* nothing that it holds.
Reached(b) == b \in {bank, Created(bank), Configured(bank)}

LEMMA BankReached ==
  ASSUME IInv, NEW b, Reached(b)
  PROVE  /\ b \in [exists : BOOLEAN, configured : BOOLEAN,
                   holds : {"nothing", "foreign", "own"}]
         /\ b.exists \/ b = NoBank
         /\ b.holds = bank.holds
         /\ bank.exists => b.exists
         /\ bank.configured => b.configured
<1> DEFINE Banks == [exists : BOOLEAN, configured : BOOLEAN,
                     holds : {"nothing", "foreign", "own"}]
<1>1. bank \in Banks /\ (bank.exists \/ bank = NoBank)
  BY DEF IInv, TypeOK
<1>2. CASE b = bank
  BY <1>1, <1>2
<1>3. CASE b # bank /\ ~bank.exists
  <2>1. bank = NoBank /\ b = [NoBank EXCEPT !.exists = TRUE]
    BY <1>1, <1>3 DEF Reached, Created, Configured
  <2>2. /\ b \in Banks /\ b.exists
        /\ b.holds = "nothing" /\ bank.holds = "nothing"
        /\ ~bank.configured
    BY <2>1 DEF NoBank
  <2>3. QED BY <1>3, <2>2
<1>4. CASE b # bank /\ bank.exists
  <2>1. b = [bank EXCEPT !.configured = TRUE]
    BY <1>4 DEF Reached, Created, Configured
  <2>2. /\ b \in Banks /\ b.exists /\ b.configured
        /\ b.holds = bank.holds
    BY <1>1, <1>4, <2>1
  <2>3. QED BY <2>2
<1>5. QED BY <1>2, <1>3, <1>4

LEMMA RequestArrives ==
  ASSUME IInv, NEW b, Reached(b), bank' = b,
         late' \in [Callers -> SUBSET Requests],
         UNCHANGED <<row, proc, damage, faults>>
  PROVE  IInv'
<1>1. /\ b \in [exists : BOOLEAN, configured : BOOLEAN,
                holds : {"nothing", "foreign", "own"}]
      /\ b.exists \/ b = NoBank
      /\ b.holds = bank.holds
      /\ bank.exists => b.exists
      /\ bank.configured => b.configured
  BY BankReached
<1>2. TypeOK'
  BY <1>1 DEF IInv, TypeOK, Requests
<1>3. RowsAgree'
  BY <1>1 DEF IInv, RowsAgree
<1>4. ForeignKept'
  BY <1>1 DEF IInv, ForeignKept
<1>5. OutsideOnly'
  BY <1>1 DEF IInv, OutsideOnly
<1>6. ReasonsHeld'
  BY DEF IInv, ReasonsHeld, FailedForAReason
<1>7. QED BY <1>2, <1>3, <1>4, <1>5, <1>6 DEF IInv

-----------------------------------------------------------------------------
(* The actions.                                                            *)

\* Shapes that every action starts from.
LEMMA Shapes ==
  ASSUME IInv
  PROVE  /\ row \in [state : RowState, owner : Callers \cup {Nil},
                     live : BOOLEAN, established : BOOLEAN]
         /\ row.owner # Nil \/ row.live => row.state = "initializing"
         /\ proc \in [Callers -> Pc]
         /\ late \in [Callers -> SUBSET Requests]
         /\ damage \in SUBSET {"foreign", "lost", "changed"}
         /\ faults \in 0..MaxFaults
  BY DEF IInv, TypeOK, Requests

\* What a caller reads, and where it goes then.
LEMMA Reads ==
  ASSUME IInv, NEW c \in Callers,
         \/ Ensure(c) \/ Look(c) \/ Round(c) \/ Check(c)
         \/ Probe(c) \/ Statistics(c) \/ Verify(c)
  PROVE  IInv'
<1> USE Shapes
<1>1. ASSUME NEW pc \in Pc, Go(c, pc), Allows(pc),
             UNCHANGED <<row, bank, late, damage, faults>>
      PROVE  IInv'
  BY <1>1, CallerMoves
<1>2. CASE Ensure(c)
  <2>1. Allows("look") /\ "look" \in Pc
    BY DEF Allows, PastLook, PastStatistics, PastConfigure, Pc
  <2>2. QED BY <1>1, <1>2, <2>1 DEF Ensure
<1>3. CASE Look(c)
  <2> DEFINE pc == CASE row.state = "ready" -> "check"
                     [] row.state \in {"missing", "failed"} -> "idle"
                     [] OTHER -> "claim"
  <2>1. \/ pc = "check" /\ row.state = "ready"
        \/ pc \in {"idle", "claim"}
    OBVIOUS
  <2>2. Go(c, pc) /\ UNCHANGED <<row, bank, late, damage, faults>>
    BY <1>3 DEF Look
  <2> HIDE DEF pc
  <2>3. Allows(pc) /\ pc \in Pc
    BY <2>1 DEF IInv, RowsAgree, Allows, PastLook, PastStatistics,
                PastConfigure, Pc, Calling
  <2>4. QED BY <1>1, <2>2, <2>3
<1>4. CASE Round(c)
  <2>1. ASSUME NEW pc \in {"look", "idle"} PROVE Allows(pc) /\ pc \in Pc
    BY DEF Allows, PastLook, PastStatistics, PastConfigure, Pc
  <2>2. QED BY <1>1, <1>4, <2>1 DEF Round
<1>5. CASE Check(c)
  <2> DEFINE pc == CASE ~bank.exists -> "missing"
                     [] bank.exists /\ ~bank.configured -> "changed"
                     [] OTHER -> "using"
  <2>1. \/ pc = "missing" /\ ~bank.exists
        \/ pc = "changed" /\ ~bank.configured
        \/ pc = "using"
    OBVIOUS
  <2>2. Go(c, pc) /\ UNCHANGED <<row, bank, late, damage, faults>>
    BY <1>5 DEF Check
  <2>3. row.established
    BY <1>5 DEF Check, IInv, RowsAgree, PastLook
  <2> HIDE DEF pc
  <2>4. Allows(pc) /\ pc \in Pc
    BY <2>1, <2>3 DEF IInv, OutsideOnly, Allows, PastLook, PastStatistics,
                      PastConfigure, Pc
  <2>5. QED BY <1>1, <2>2, <2>4
<1>6. CASE Probe(c)
  <2> DEFINE pc == IF bank.exists THEN "statistics" ELSE "create"
  <2>1. pc \in {"statistics", "create"}
    OBVIOUS
  <2>2. Go(c, pc) /\ UNCHANGED <<row, bank, late, damage, faults>>
    BY <1>6 DEF Probe
  <2> HIDE DEF pc
  <2>3. Allows(pc) /\ pc \in Pc
    BY <2>1 DEF Allows, PastLook, PastStatistics, PastConfigure, Pc, Calling
  <2>4. QED BY <1>1, <2>2, <2>3
<1>7. CASE Statistics(c)
  <2> DEFINE pc == CASE ~bank.exists -> "reset"
                     [] bank.exists /\ bank.holds # "nothing" -> "refuse"
                     [] OTHER -> "configure"
  <2>1. \/ pc = "reset"
        \/ pc = "refuse" /\ bank.holds # "nothing"
        \/ pc = "configure" /\ bank.exists /\ bank.holds = "nothing"
    OBVIOUS
  <2>2. Go(c, pc) /\ UNCHANGED <<row, bank, late, damage, faults>>
    BY <1>7 DEF Statistics
  <2>3. bank.holds \in {"nothing", "foreign", "own"}
    BY DEF IInv, TypeOK
  <2> HIDE DEF pc
  <2>4. Allows(pc) /\ pc \in Pc
    BY <2>1, <2>3 DEF IInv, RowsAgree, OutsideOnly, Allows, PastLook,
                      PastStatistics, PastConfigure, Pc, Initializing, Calling
  <2>5. QED BY <1>1, <2>2, <2>4
<1>8. CASE Verify(c)
  <2> DEFINE pc == CASE ~bank.exists -> "reset"
                     [] bank.exists /\ ~bank.configured -> "refuse"
                     [] OTHER -> "finish"
  <2>1. \/ pc = "reset"
        \/ pc = "refuse" /\ ~bank.configured
        \/ pc = "finish" /\ bank.exists /\ bank.configured
    OBVIOUS
  <2>2. Go(c, pc) /\ UNCHANGED <<row, bank, late, damage, faults>>
    BY <1>8 DEF Verify
  <2>3. proc[c] \in PastConfigure /\ proc[c] \in PastStatistics
    BY <1>8 DEF Verify, PastConfigure, PastStatistics
  <2> HIDE DEF pc
  <2>4. Allows(pc) /\ pc \in Pc
    BY <2>1, <2>3 DEF IInv, ForeignKept, OutsideOnly, Allows, PastLook,
                      PastStatistics, PastConfigure, Pc, Initializing
  <2>5. QED BY <1>1, <2>2, <2>4
<1>9. QED BY <1>2, <1>3, <1>4, <1>5, <1>6, <1>7, <1>8

\* The row under the claim: taken, given up, settled.
LEMMA Claims ==
  ASSUME IInv, NEW c \in Callers, Claim(c)
  PROVE  IInv'
<1> USE Shapes
<1>1. CASE Claimable
  <2> DEFINE r == [row EXCEPT !.state = "initializing", !.owner = c, !.live = TRUE]
  <2>1. /\ Go(c, "probe") /\ row' = r
        /\ UNCHANGED <<bank, late, damage, faults>>
    BY <1>1 DEF Claim
  <2>2. ~row.established
    BY <1>1 DEF Claimable, IInv, RowsAgree, GivenUp
  <2>3. /\ r \in [state : RowState, owner : Callers \cup {Nil},
                  live : BOOLEAN, established : BOOLEAN]
        /\ r.state = "initializing" /\ ~r.established
    BY <2>2 DEF RowState
  <2>4. "probe" \in Pc
    BY DEF Pc, Calling
  <2> HIDE DEF r
  <2>5. QED BY <2>1, <2>2, <2>3, <2>4, RowChanges
<1>2. CASE ~Claimable
  <2>1. Allows("wait") /\ "wait" \in Pc
    BY DEF Allows, PastLook, PastStatistics, PastConfigure, Pc
  <2>2. QED BY <1>2, <2>1, CallerMoves DEF Claim
<1>3. QED BY <1>1, <1>2

LEMMA Marks ==
  ASSUME IInv, NEW c \in Callers, Mark(c)
  PROVE  IInv'
<1> USE Shapes
<1>1. Allows("idle") /\ "idle" \in Pc
  BY DEF Allows, PastLook, PastStatistics, PastConfigure, Pc
<1>2. CASE row.state # "ready"
  BY <1>1, <1>2, CallerMoves DEF Mark
<1>3. CASE row.state = "ready"
  <2> DEFINE state == IF proc[c] = "missing" THEN "missing" ELSE "failed"
             r == [row EXCEPT !.state = state]
  <2>1. /\ Go(c, "idle") /\ row' = r
        /\ UNCHANGED <<bank, late, damage, faults>>
    BY <1>3 DEF Mark
  <2>2. row.established /\ row.owner = Nil /\ ~row.live
    BY <1>3 DEF IInv, RowsAgree
  <2>3. /\ state = "missing" => "lost" \in damage
        /\ state = "failed" => damage # {}
        /\ state \in GivenUp
    BY DEF Mark, IInv, ReasonsHeld, GivenUp
  <2> HIDE DEF state
  <2>4. /\ r \in [state : RowState, owner : Callers \cup {Nil},
                  live : BOOLEAN, established : BOOLEAN]
        /\ r.state = state /\ r.established /\ r.owner = Nil /\ ~r.live
    BY <2>2, <2>3 DEF RowState, GivenUp
  <2> HIDE DEF r
  <2>5. QED BY <1>1, <2>1, <2>2, <2>3, <2>4, RowChanges DEF GivenUp
<1>4. QED BY <1>2, <1>3

LEMMA Finishes ==
  ASSUME IInv, NEW c \in Callers, Finish(c)
  PROVE  IInv'
<1> USE Shapes
<1>1. CASE ~Holds(c)
  <2>1. Allows("idle") /\ "idle" \in Pc
    BY DEF Allows, PastLook, PastStatistics, PastConfigure, Pc
  <2>2. QED BY <1>1, <2>1, CallerMoves DEF Finish
<1>2. CASE Holds(c)
  <2> DEFINE state == CASE proc[c] = "finish" -> "ready"
                        [] proc[c] = "reset" -> "new"
                        [] OTHER -> "failed"
             pc == IF proc[c] = "finish" /\ Holds(c) THEN "wait" ELSE "idle"
             r == Settled(state)
  <2>1. /\ Go(c, pc) /\ row' = r
        /\ UNCHANGED <<bank, late, damage, faults>>
    BY <1>2 DEF Finish
  <2>2. ~row.established
    BY <1>2 DEF Holds, IInv, RowsAgree, GivenUp
  <2>3. \/ state = "ready" /\ proc[c] = "finish"
        \/ state = "new"
        \/ state = "failed" /\ proc[c] = "refuse"
    BY DEF Finish
  <2>4. state = "failed" => damage # {}
    BY <2>2, <2>3 DEF IInv, ReasonsHeld
  <2>5. pc \in {"idle", "wait", "probe"} /\ pc \in Pc
    BY DEF Pc
  <2> HIDE DEF state, pc
  <2>6. /\ r \in [state : RowState, owner : Callers \cup {Nil},
                  live : BOOLEAN, established : BOOLEAN]
        /\ r.state = state /\ r.owner = Nil /\ ~r.live
        /\ r.established <=> state = "ready"
    BY <2>2, <2>3 DEF Settled, RowState
  <2> HIDE DEF r
  <2>7. QED BY <2>1, <2>2, <2>3, <2>4, <2>5, <2>6, RowChanges
<1>3. QED BY <1>1, <1>2

\* An initializer's request is served, and it goes on.
LEMMA Serves ==
  ASSUME IInv, NEW c \in Callers, CreateBank(c) \/ ConfigureBank(c)
  PROVE  IInv'
<1> USE Shapes
<1> DEFINE pc == CASE proc[c] = "create" -> "statistics"
                   [] proc[c] # "create" /\ bank.exists -> "verify"
                   [] OTHER -> "reset"
<1>1. /\ Reached(bank') /\ Go(c, pc)
      /\ UNCHANGED <<row, late, damage, faults>>
  BY DEF CreateBank, ConfigureBank, Reached
<1>2. \/ pc \in {"statistics", "reset"}
      \/ /\ pc = "verify" /\ proc[c] = "configure"
         /\ bank.exists /\ bank' = Configured(bank)
  BY DEF CreateBank, ConfigureBank
<1>3. /\ pc \in Pc /\ pc \notin PastLook
      /\ pc \notin {"missing", "changed", "refuse"}
  BY <1>2 DEF Pc, Calling, Initializing, PastLook
<1> HIDE DEF pc
<1>4. /\ bank' \in [exists : BOOLEAN, configured : BOOLEAN,
                    holds : {"nothing", "foreign", "own"}]
      /\ bank'.exists \/ bank' = NoBank
      /\ bank'.holds = bank.holds
      /\ bank.exists => bank'.exists
      /\ bank.configured => bank'.configured
  BY <1>1, BankReached
<1>5. pc = "verify" =>
        proc[c] \in PastStatistics /\ bank'.configured /\ bank'.exists
  BY <1>2, <1>4 DEF Configured, PastStatistics, IInv, TypeOK
<1>6. \A d \in Callers : proc'[d] = IF d = c THEN pc ELSE proc[d]
  BY <1>1 DEF Go
<1>7. pc \in PastStatistics => pc = "verify"
  BY <1>2 DEF PastStatistics
<1>8. TypeOK'
  BY <1>1, <1>3, <1>4 DEF Go, IInv, TypeOK
<1>9. RowsAgree'
  BY <1>1, <1>3, <1>4, <1>6 DEF IInv, RowsAgree
<1>10. ForeignKept'
  BY <1>1, <1>4, <1>5, <1>6, <1>7 DEF IInv, ForeignKept
<1>11. OutsideOnly'
  <2>1. bank'.exists \/ "lost" \in damage
        \/ /\ ~row.established
           /\ \A d \in Callers : proc'[d] \notin PastStatistics
    BY <1>4, <1>5, <1>6, <1>7 DEF IInv, OutsideOnly
  <2>2. bank'.configured \/ damage # {}
        \/ /\ ~row.established
           /\ \A d \in Callers : proc'[d] \notin PastConfigure
    BY <1>4, <1>5, <1>6, <1>7 DEF IInv, OutsideOnly, PastConfigure, PastStatistics
  <2>3. QED BY <1>1, <1>4, <2>1, <2>2 DEF IInv, OutsideOnly
<1>12. ReasonsHeld'
  BY <1>1, <1>3, <1>6 DEF IInv, ReasonsHeld, FailedForAReason
<1>13. QED BY <1>8, <1>9, <1>10, <1>11, <1>12 DEF IInv

\* A memory is stored: only in a bank that is established.
LEMMA Retains ==
  ASSUME IInv, NEW c \in Callers, Retain(c)
  PROVE  IInv'
<1> USE Shapes
<1>1. row.established
  BY DEF Retain, IInv, RowsAgree, PastLook
<1>2. Go(c, "idle") /\ UNCHANGED <<row, late, damage, faults>>
  BY DEF Retain
<1>3. /\ bank' \in [exists : BOOLEAN, configured : BOOLEAN,
                    holds : {"nothing", "foreign", "own"}]
      /\ bank'.exists = bank.exists /\ bank'.configured = bank.configured
      /\ bank'.exists \/ bank' = NoBank
      /\ bank'.holds = "own" \/ bank' = bank
  BY DEF Retain, IInv, TypeOK
<1>4. \A d \in Callers : proc'[d] = IF d = c THEN "idle" ELSE proc[d]
  BY <1>2 DEF Go
<1>5. TypeOK'
  BY <1>2, <1>3 DEF Go, IInv, TypeOK, Pc
<1>6. RowsAgree'
  BY <1>1, <1>2 DEF IInv, RowsAgree
<1>7. ForeignKept'
  BY <1>1, <1>3 DEF IInv, ForeignKept
<1>8. OutsideOnly'
  BY <1>1, <1>2, <1>3 DEF IInv, OutsideOnly
<1>9. ReasonsHeld'
  BY <1>2, <1>4 DEF IInv, ReasonsHeld, FailedForAReason
<1>10. QED BY <1>5, <1>6, <1>7, <1>8, <1>9 DEF IInv

\* Calls that fail, callers that die and requests that arrive without them.
LEMMA Interruptions ==
  ASSUME IInv, NEW c \in Callers, CallFails(c) \/ Crash(c) \/ LateRequest(c)
  PROVE  IInv'
<1> USE Shapes, MemoryBankAssumption
<1>1. ASSUME NEW pc \in {"reset", "idle"}
      PROVE  Allows(pc) /\ pc \in Pc
  BY DEF Allows, PastLook, PastStatistics, PastConfigure, Pc, Initializing
<1>2. LetGo(c) => late' \in [Callers -> SUBSET Requests]
  BY DEF LetGo, Requests
<1>3. Fault => faults' \in 0..MaxFaults
  BY DEF Fault
<1>4. CASE CallFails(c)
  <2> DEFINE pc == IF proc[c] \in Initializing THEN "reset" ELSE "idle"
  <2>1. /\ pc \in {"reset", "idle"} /\ Go(c, pc) /\ LetGo(c) /\ Fault
        /\ UNCHANGED <<row, bank, damage>>
    BY <1>4 DEF CallFails
  <2> HIDE DEF pc
  <2>2. QED BY <1>1, <1>2, <1>3, <2>1, CallerMoves
<1>5. CASE Crash(c)
  BY <1>1, <1>2, <1>3, <1>5, CallerMoves DEF Crash
<1>6. CASE LateRequest(c)
  <2>1. /\ Reached(bank') /\ late' \in [Callers -> SUBSET Requests]
        /\ UNCHANGED <<row, proc, damage, faults>>
    BY <1>6 DEF LateRequest, Reached, Requests
  <2>2. QED BY <2>1, RequestArrives
<1>7. QED BY <1>4, <1>5, <1>6

\* The lease runs out, under a caller that died or one that is slow.
LEMMA Expires ==
  ASSUME IInv, OrphanExpires \/ SlowInitializer
  PROVE  IInv'
<1>1. /\ row' = [row EXCEPT !.live = FALSE]
      /\ UNCHANGED <<bank, proc, late, damage>>
      /\ faults' \in 0..MaxFaults
  BY MemoryBankAssumption DEF OrphanExpires, SlowInitializer, Fault, IInv, TypeOK
<1>2. TypeOK'
  BY <1>1 DEF IInv, TypeOK
<1>3. /\ row'.state = row.state /\ row'.established = row.established
  BY <1>1 DEF IInv, TypeOK
<1>4. RowsAgree' /\ ForeignKept' /\ OutsideOnly' /\ ReasonsHeld'
  BY <1>1, <1>3 DEF IInv, RowsAgree, ForeignKept, OutsideOnly, ReasonsHeld,
                    FailedForAReason
<1>5. QED BY <1>2, <1>4 DEF IInv

\* The service loses the bank, or somebody changes its configuration.
LEMMA Damages ==
  ASSUME IInv, LoseBank \/ ChangeConfiguration
  PROVE  IInv'
<1>1. PICK harm \in {"lost", "changed"} :
        /\ damage' = damage \cup {harm}
        /\ harm = "changed" => bank'.exists = bank.exists
  BY DEF LoseBank, ChangeConfiguration, IInv, TypeOK
<1>2. /\ bank' \in [exists : BOOLEAN, configured : BOOLEAN,
                    holds : {"nothing", "foreign", "own"}]
      /\ bank'.exists \/ bank' = NoBank
      /\ bank'.holds = bank.holds \/ bank'.holds = "nothing"
  <2>1. CASE LoseBank
    BY <2>1 DEF LoseBank, NoBank
  <2>2. CASE ChangeConfiguration
    <3>1. bank' = [bank EXCEPT !.configured = FALSE] /\ bank.configured
      BY <2>2 DEF ChangeConfiguration
    <3>2. bank.exists
      BY <3>1 DEF NoBank, IInv, TypeOK
    <3>3. QED BY <3>1, <3>2 DEF IInv, TypeOK
  <2>3. QED BY <2>1, <2>2
<1>3. UNCHANGED <<row, proc, late>> /\ faults' \in 0..MaxFaults
  BY MemoryBankAssumption DEF LoseBank, ChangeConfiguration, Fault, IInv, TypeOK
<1>4. TypeOK'
  BY <1>1, <1>2, <1>3 DEF IInv, TypeOK
<1>5. RowsAgree' /\ ForeignKept'
  BY <1>2, <1>3 DEF IInv, RowsAgree, ForeignKept
<1>6. OutsideOnly'
  <2>1. bank'.exists \/ "lost" \in damage'
        \/ /\ ~row.established
           /\ \A c \in Callers : proc[c] \notin PastStatistics
    BY <1>1 DEF IInv, OutsideOnly
  <2>2. QED BY <1>1, <1>2, <1>3, <2>1 DEF IInv, OutsideOnly
<1>7. ReasonsHeld'
  BY <1>1, <1>3 DEF IInv, ReasonsHeld, FailedForAReason
<1>8. QED BY <1>4, <1>5, <1>6, <1>7 DEF IInv

\* Every step keeps the invariant.
THEOREM IInvInductive == IInv /\ [Next]_vars => IInv'
<1> SUFFICES ASSUME IInv, [Next]_vars PROVE IInv'
  OBVIOUS
<1>1. ASSUME NEW c \in Callers, Proceed(c) PROVE IInv'
  BY <1>1, Reads, Claims, Marks, Serves, Finishes DEF Proceed
<1>2. ASSUME NEW c \in Callers,
             \/ Ensure(c) \/ Retain(c)
             \/ CallFails(c) \/ Crash(c) \/ LateRequest(c)
      PROVE  IInv'
  BY <1>2, Reads, Retains, Interruptions
<1>3. CASE \/ OrphanExpires \/ SlowInitializer
           \/ LoseBank \/ ChangeConfiguration
  BY <1>3, Expires, Damages
<1>4. CASE UNCHANGED vars
  <2>1. TypeOK' /\ RowsAgree' /\ ForeignKept'
    BY <1>4 DEF vars, IInv, TypeOK, RowsAgree, ForeignKept
  <2>2. OutsideOnly' /\ ReasonsHeld'
    BY <1>4 DEF vars, IInv, OutsideOnly, ReasonsHeld, FailedForAReason
  <2>3. QED BY <2>1, <2>2 DEF IInv
<1>5. QED BY <1>1, <1>2, <1>3, <1>4 DEF Next

-----------------------------------------------------------------------------
(* What follows from it.                                                   *)

\* The inductive invariant holds in every reachable state: the row never
\* outlives its bank unnoticed, and what was put into the bank from outside
\* stays known as that.
THEOREM Invariance == Spec => []IInv
BY InitIInv, IInvInductive, PTL DEF Spec

\* Rows, claims, callers and requests keep their shape; only a row under
\* initialization carries a claim, so a settled one can no longer be finished.
THEOREM TypeCorrect == Spec => []TypeOK
<1>1. IInv => TypeOK
  BY DEF IInv
<1>2. QED BY <1>1, Invariance, PTL

\* However initializers overlap, give up or take over, a bank that something
\* else filled is neither established nor used: _initialize refuses it before
\* it configures it.
THEOREM NeverAdopts == Spec => []NeverAdoptsPopulated
<1>1. IInv => NeverAdoptsPopulated
  BY DEF IInv, RowsAgree, ForeignKept, NeverAdoptsPopulated, PastLook
<1>2. QED BY <1>1, Invariance, PTL

\* mark_missing, mark_configuration_changed and a refused initialization
\* give a relationship up only after something outside touched its bank.
THEOREM ReasonForFailure == Spec => []FailedForAReason
<1>1. IInv => FailedForAReason
  BY DEF IInv, ReasonsHeld
<1>2. QED BY <1>1, Invariance, PTL

\* What a step may do to an established or given-up row.
LEMMA RowKept ==
  ASSUME IInv, [Next]_vars
  PROVE  /\ row.established => /\ row'.established
                               /\ row'.state \in {"ready", "missing", "failed"}
         /\ row.state \in GivenUp => row'.state = row.state
<1> USE Shapes
<1> DEFINE Kept == /\ row'.established = row.established
                   /\ row'.state = row.state
<1>1. row.established => row.state \in {"ready", "missing", "failed"}
  BY DEF IInv, RowsAgree, GivenUp
<1>2. CASE Kept
  BY <1>1, <1>2
<1>3. ASSUME NEW c \in Callers, Claim(c), Claimable
      PROVE  ~row.established /\ row.state \notin GivenUp
  BY <1>1, <1>3 DEF Claimable, GivenUp
<1>4. ASSUME NEW c \in Callers, Finish(c), Holds(c)
      PROVE  ~row.established /\ row.state \notin GivenUp
  BY <1>1, <1>4 DEF Holds, GivenUp
<1>5. ASSUME NEW c \in Callers, Mark(c), row.state = "ready"
      PROVE  row'.established = row.established /\ row'.state \in GivenUp
  BY <1>5 DEF Mark, GivenUp
<1>6. ASSUME NEW c \in Callers, Claim(c) \/ Mark(c) \/ Finish(c)
      PROVE  \/ Kept
             \/ ~row.established /\ row.state \notin GivenUp
             \/ /\ row'.established = row.established
                /\ row.state \notin GivenUp /\ row'.state \in GivenUp
  <2>1. CASE Claim(c)
    BY <1>3, <2>1 DEF Claim
  <2>2. CASE Mark(c)
    BY <1>5, <2>2 DEF Mark, GivenUp
  <2>3. CASE Finish(c)
    BY <1>4, <2>3 DEF Finish
  <2>4. QED BY <1>6, <2>1, <2>2, <2>3
<1>7. CASE \E c \in Callers : Claim(c) \/ Mark(c) \/ Finish(c)
  BY <1>1, <1>6, <1>7 DEF GivenUp
<1>8. CASE ~\E c \in Callers : Claim(c) \/ Mark(c) \/ Finish(c)
  <2>1. ASSUME UNCHANGED vars PROVE Kept
    BY <2>1 DEF vars
  <2>2. ASSUME OrphanExpires \/ SlowInitializer PROVE Kept
    BY <2>2 DEF OrphanExpires, SlowInitializer
  <2>3. ASSUME LoseBank \/ ChangeConfiguration PROVE Kept
    BY <2>3 DEF LoseBank, ChangeConfiguration
  <2>4. ASSUME NEW c \in Callers,
               \/ Ensure(c) \/ Look(c) \/ Round(c) \/ Check(c) \/ Probe(c)
               \/ CreateBank(c) \/ Statistics(c) \/ ConfigureBank(c)
               \/ Verify(c) \/ Retain(c) \/ CallFails(c) \/ Crash(c)
               \/ LateRequest(c)
        PROVE  row' = row
    BY <2>4 DEF Ensure, Look, Round, Check, Probe, CreateBank, Statistics,
                ConfigureBank, Verify, Retain, CallFails, Crash, LateRequest
  <2>5. Kept
    BY <1>8, <2>1, <2>2, <2>3, <2>4 DEF Next, Proceed
  <2>6. QED BY <1>2, <2>5
<1>9. QED BY <1>7, <1>8

\* A late initializer cannot take an established row back, and nobody reopens
\* a row that was given up: claim_initialization and finish_initialization
\* act on new and initializing rows, mark_missing on ready ones.
THEOREM Established == Spec => EstablishedForGood
<1>1. IInv /\ [Next]_vars =>
        [/\ row.established => /\ row'.established
                               /\ row'.state \in {"ready", "missing", "failed"}
         /\ row.state \in {"missing", "failed"} => row'.state = row.state]_vars
  BY RowKept DEF GivenUp
<1>2. QED BY <1>1, Invariance, PTL DEF Spec, EstablishedForGood

=============================================================================
