---------------------------- MODULE RestartQueue ----------------------------
(***************************************************************************)
(* What the control plane promises about restarts, without saying how: the *)
(* accepted override sets are applied one at a time, in the order they     *)
(* were accepted; the relay listens on the overrides applied last, on the  *)
(* initial ones, or not at all; and it is taken down before new overrides  *)
(* are applied.  RelayControl implements this.                             *)
(***************************************************************************)
EXTENDS Naturals, Sequences

CONSTANTS
  Requests,      \* what may be accepted
  Overrides,     \* what may be applied
  NoOverrides,   \* the member of Overrides a fresh process has
  Nothing        \* not a member of Overrides

VARIABLES
  pending,    \* accepted requests not yet served, oldest first
  config,     \* the overrides GET /status reports
  listening   \* the overrides the relay listens on, or Nothing

vars == <<pending, config, listening>>

Orders == [id : Requests, overrides : Overrides]

TypeOK ==
  /\ pending \in Seq(Orders)
  /\ config \in Overrides
  /\ listening \in Overrides \cup {Nothing}

Init == pending = <<>> /\ config = NoOverrides /\ listening = Nothing

BeginListening ==
  /\ pending = <<>> /\ config = NoOverrides /\ listening = Nothing
  /\ listening' = NoOverrides
  /\ UNCHANGED <<pending, config>>

Accept(order) ==
  /\ \A i \in 1..Len(pending) : pending[i].id # order.id
  /\ pending' = Append(pending, order)
  /\ UNCHANGED <<config, listening>>

TakeDown ==
  /\ listening # Nothing
  /\ listening' = Nothing
  /\ UNCHANGED <<pending, config>>

Apply ==
  /\ pending # <<>> /\ listening = Nothing
  /\ config' = Head(pending).overrides
  /\ UNCHANGED <<pending, listening>>

Succeed ==
  /\ pending # <<>> /\ config = Head(pending).overrides /\ listening = Nothing
  /\ listening' = config
  /\ pending' = Tail(pending)
  /\ UNCHANGED config

Fail ==
  /\ pending # <<>> /\ config = Head(pending).overrides /\ listening = Nothing
  /\ pending' = Tail(pending)
  /\ UNCHANGED <<config, listening>>

\* The process ends and takes everything with it.
Gone == pending' = <<>> /\ config' = NoOverrides /\ listening' = Nothing

Next ==
  \/ BeginListening \/ TakeDown \/ Apply \/ Succeed \/ Fail \/ Gone
  \/ \E order \in Orders : Accept(order)

Spec == Init /\ [][Next]_vars
=============================================================================
