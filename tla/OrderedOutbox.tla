---------------------------- MODULE OrderedOutbox ----------------------------
(***************************************************************************)
(* What the memory outbox promises each relationship (bank), with no       *)
(* leases, polls, lost answers or retries in sight: messages are           *)
(* remembered in the order in which they were accepted, one after the      *)
(* other; one that cannot be remembered holds back the later ones of its   *)
(* own relationship, and no other, until a person asks for it again.       *)
(* MemoryDelivery implements this specification.                           *)
(***************************************************************************)
EXTENDS Naturals, Sequences

CONSTANTS Banks, Deliveries, BankOf

VARIABLES
  accepted,    \* accepted[b]: deliveries in the order of their acceptance
  remembered,  \* remembered[b]: the set of the retained ones
  stuck        \* stuck[b]: the first one not remembered waits for a person

vars == <<accepted, remembered, stuck>>

Init ==
  /\ accepted = [b \in Banks |-> <<>>]
  /\ remembered = [b \in Banks |-> {}]
  /\ stuck = [b \in Banks |-> FALSE]

Accept(b, d) ==
  /\ BankOf[d] = b
  /\ \A i \in DOMAIN accepted[b] : accepted[b][i] # d
  /\ accepted' = [accepted EXCEPT ![b] = Append(@, d)]
  /\ UNCHANGED <<remembered, stuck>>

Waiting(b) == \E i \in DOMAIN accepted[b] : accepted[b][i] \notin remembered[b]

\* Only the oldest delivery that is not remembered yet can be.
Remember(b) ==
  /\ ~stuck[b]
  /\ \E i \in DOMAIN accepted[b] :
       /\ accepted[b][i] \notin remembered[b]
       /\ \A j \in 1..(i - 1) : accepted[b][j] \in remembered[b]
       /\ remembered' = [remembered EXCEPT ![b] = @ \cup {accepted[b][i]}]
  /\ UNCHANGED <<accepted, stuck>>

GetStuck(b) ==
  /\ Waiting(b)
  /\ ~stuck[b]
  /\ stuck' = [stuck EXCEPT ![b] = TRUE]
  /\ UNCHANGED <<accepted, remembered>>

Reopen(b) ==
  /\ stuck[b]
  /\ stuck' = [stuck EXCEPT ![b] = FALSE]
  /\ UNCHANGED <<accepted, remembered>>

Next ==
  \E b \in Banks :
    \/ \E d \in Deliveries : Accept(b, d)
    \/ Remember(b) \/ GetStuck(b) \/ Reopen(b)

SafeSpec == Init /\ [][Next]_vars

\* No delivery waits for ever without a person being told.
Spec == SafeSpec /\ \A b \in Banks : WF_vars(Remember(b) \/ GetStuck(b))

=============================================================================
