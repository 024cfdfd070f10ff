------------------------------ MODULE BytePipe ------------------------------
(***************************************************************************)
(* A serial pipe that holds a few bytes: bytes leave it in the order in    *)
(* which they entered, each one once, as a pulse.  Both ends may move at   *)
(* the same clock.                                                         *)
(***************************************************************************)
EXTENDS Naturals, Sequences

CONSTANTS
  Byte,     \* the bytes
  None,     \* no byte: not a member of Byte
  Capacity  \* how many bytes may be inside

VARIABLES
  pipe,  \* the bytes inside, the oldest first
  out    \* the byte that is handed over now, or None

vars == <<pipe, out>>

Init == pipe = << >> /\ out = None

\* The oldest byte comes out, or none does.
Move(in) ==
  \/ pipe # << >> /\ out' = Head(pipe) /\ pipe' = Tail(pipe) \o in
  \/ out' = None /\ pipe' = pipe \o in

Next ==
  /\ \E in \in {<< >>} \cup {<<b>> : b \in Byte} : Move(in)
  /\ Len(pipe') <= Capacity

Safety == Init /\ [][Next]_vars
=============================================================================
