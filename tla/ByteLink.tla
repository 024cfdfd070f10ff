------------------------------ MODULE ByteLink ------------------------------
(***************************************************************************)
(* What a serial link promises: a wire that holds one byte at a time and   *)
(* hands every byte over, once, unchanged, as a pulse.                     *)
(***************************************************************************)
CONSTANTS
  Byte,  \* the bytes
  None   \* no byte: not a member of Byte

VARIABLES
  wire,  \* the byte that is on its way, or None
  out    \* the byte that is handed over now, or None

vars == <<wire, out>>

\* At most one byte on the wire, at most one being handed over.
TypeOK == wire \in Byte \cup {None} /\ out \in Byte \cup {None}

Init == wire = None /\ out = None

\* A byte enters the empty wire; a pulse, if there is one, ends.
Send(b) == wire = None /\ wire' = b /\ out' = None

Deliver == wire # None /\ out = None /\ wire' = None /\ out' = wire

Release == out # None /\ out' = None /\ UNCHANGED wire

Next == (\E b \in Byte : Send(b)) \/ Deliver \/ Release

\* Nothing is lost, invented, repeated or changed.
Safety == Init /\ [][Next]_vars

Fairness == WF_vars(Deliver) /\ WF_vars(Release)

Spec == Safety /\ Fairness

\* A byte that enters the wire comes out of it.
EveryByteArrives == \A b \in Byte : wire = b ~> out = b
=============================================================================
