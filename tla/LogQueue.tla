------------------------------ MODULE LogQueue ------------------------------
(***************************************************************************)
(* What a log target promises its callers, whatever its goroutines do:    *)
(* it is opened once, then accepts entries while it is open, holds at     *)
(* most Capacity of them not yet delivered, delivers them in the order it *)
(* accepted them, each once, and keeps delivering after it was closed     *)
(* until nothing is outstanding.  The one failure it may show is a halt,  *)
(* and only once it has been closed.                                       *)
(***************************************************************************)
EXTENDS Naturals, Sequences

CONSTANTS
  Items,      \* the entries callers may hand in
  Capacity    \* the most entries accepted and not yet delivered

VARIABLES
  sent,       \* entries accepted, in order
  delivered,  \* entries delivered, in order: a prefix of sent
  state,      \* "new", "open", "closed"
  halted      \* the target stopped for good

qvars == <<sent, delivered, state, halted>>

\* Entries accepted and not yet delivered.
Outstanding == Len(sent) - Len(delivered)

QInit ==
  /\ sent = <<>>
  /\ delivered = <<>>
  /\ state = "new"
  /\ halted = FALSE

Open ==
  /\ ~halted
  /\ state = "new"
  /\ state' = "open"
  /\ UNCHANGED <<sent, delivered, halted>>

\* A fresh entry is accepted while the target is open and has room.
Accept(e) ==
  /\ ~halted
  /\ state = "open"
  /\ Outstanding < Capacity
  /\ \A i \in DOMAIN sent : sent[i] # e
  /\ sent' = Append(sent, e)
  /\ UNCHANGED <<delivered, state, halted>>

\* The oldest outstanding entry is delivered.
Deliver ==
  /\ ~halted
  /\ Outstanding > 0
  /\ delivered' = Append(delivered, sent[Len(delivered) + 1])
  /\ UNCHANGED <<sent, state, halted>>

Close ==
  /\ ~halted
  /\ state = "open"
  /\ state' = "closed"
  /\ UNCHANGED <<sent, delivered, halted>>

Halt ==
  /\ ~halted
  /\ state = "closed"
  /\ halted' = TRUE
  /\ UNCHANGED <<sent, delivered, state>>

QNext ==
  \/ Open
  \/ \E e \in Items : Accept(e)
  \/ Deliver
  \/ Close
  \/ Halt

\* Delivery is up to the target: an outstanding entry is delivered.
QSpec == QInit /\ [][QNext]_qvars /\ WF_qvars(Deliver)

=============================================================================
