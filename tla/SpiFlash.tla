------------------------------ MODULE SpiFlash ------------------------------
(***************************************************************************)
(* The serial flash of the board, as iceprog.c uses it: an external part.  *)
(* A byte is one bit: 1 when erased.  The chip works on one write at a     *)
(* time (op); while it does, and while it is powered down, it ignores      *)
(* whatever it is sent, save that RPD ends the power-down.                 *)
(***************************************************************************)
EXTENDS Integers, Sequences

CONSTANTS
  SIZE,   \* bytes of the chip
  PAGE,   \* 256: what one FC_PP can program
  BLOCK   \* what one erase command clears: 4, 32 or 64 kB

ASSUME FlashAssumption ==
  /\ {SIZE, PAGE, BLOCK} \subseteq Nat \ {0}
  /\ BLOCK % PAGE = 0 /\ SIZE % BLOCK = 0

VARIABLES
  mem,  \* what the cells hold
  op,   \* the cells being written and what they will hold: empty when idle
  wel,  \* the write enable latch
  pd    \* powered down

flash == <<mem, op, wel, pd>>

Addr == 0 .. SIZE - 1
\* The protection bits of status register 1 are one more cell: 1 when set.
SR1 == SIZE
Bit == {0, 1}

None == << >>
Busy == op # None
Deaf == Busy \/ pd

Block(a) == {b \in Addr : b \div BLOCK = a \div BLOCK}
\* The n-th byte of a page program: the address wraps inside the page.
InPage(a, n) == (a \div PAGE) * PAGE + ((a + n) % PAGE)

FlashInit ==
  /\ \E content \in {[a \in Addr |-> 1], [a \in Addr |-> (a \div 2) % 2]} :
       \E lock \in Bit :
         mem = [a \in Addr \cup {SR1} |-> IF a = SR1 THEN lock ELSE content[a]]
  /\ op = None
  /\ wel = FALSE
  /\ pd \in BOOLEAN

-----------------------------------------------------------------------------
ReleasePowerDown == pd' = (pd /\ Busy) /\ UNCHANGED <<mem, op, wel>>
PowerDown == pd' = (pd \/ ~Busy) /\ UNCHANGED <<mem, op, wel>>
WriteEnable == wel' = (wel \/ ~Deaf) /\ UNCHANGED <<mem, op, pd>>

\* A write is taken up only by a chip that listens and has been enabled.
Write(f) ==
  /\ op' = IF wel /\ ~Deaf THEN f ELSE op
  /\ UNCHANGED <<mem, wel, pd>>

WriteStatus(lock) == Write([a \in {SR1} |-> lock])

\* Erasing and programming need the protection off as well.
WriteCells(f) == IF mem[SR1] = 0 THEN Write(f) ELSE UNCHANGED flash

Erase(cells) == WriteCells([a \in cells |-> 1])

\* Programming can only clear bits.
Program(a, data) ==
  WriteCells([b \in {InPage(a, n) : n \in 0 .. Len(data) - 1} |->
    mem[b] * data[(CHOOSE n \in 0 .. Len(data) - 1 : InPage(a, n) = b) + 1]])

\* The cells when those that f is on hold what it says.
Holding(f) == [a \in DOMAIN mem |-> IF a \in DOMAIN f THEN f[a] ELSE mem[a]]

\* The chip's own step: the write ends, which resets the latch.
Finish ==
  /\ Busy
  /\ mem' = Holding(op)
  /\ op' = None
  /\ wel' = FALSE
  /\ UNCHANGED pd

\* Power is lost: a write under way leaves anything in the cells it was on.
PowerLoss ==
  /\ \E f \in [DOMAIN op -> Bit] : mem' = Holding(f)
  /\ op' = None
  /\ wel' = FALSE
  /\ pd' = FALSE
=============================================================================
