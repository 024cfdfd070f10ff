------------------------------- MODULE IceProg ------------------------------
(***************************************************************************)
(* iceprog.c: the program that writes a bitstream to the flash of the      *)
(* board.  One run goes through its phases in order; a phase that writes   *)
(* repeats write enable, command, flash_wait.  A run can be cut short at   *)
(* any transfer (a USB error, mpsse_error(2), or a kill), or by unplugging *)
(* the board, and another can be started on what it left behind.           *)
(***************************************************************************)
EXTENDS SpiFlash

CONSTANTS
  Files,      \* the bit sequences to write
  Offsets,    \* the values of -o
  MaxRuns,    \* bound: runs of the program
  MaxFaults   \* bound: runs cut short

ASSUME IceProgAssumption ==
  /\ MaxRuns \in Nat /\ MaxFaults \in Nat
  /\ \A f \in Files, off \in Offsets :
       f \in Seq(Bit) /\ off \in Addr /\ off + Len(f) <= SIZE

VARIABLES
  o,       \* the options of the run
  phase,   \* where main is; "idle" when no run is under way
  step,    \* within a phase that writes: "enable", "command", "wait"
  pos,     \* addr, the loop variable of the phase
  count,   \* the ready answers flash_wait has seen in a row
  out,     \* what -r has written to its file
  exit,    \* the exit status of the last run
  runs, faults,
  reach    \* the cells the writes not yet finished have been asked for

prog == <<o, phase, step, pos, count, out, exit, runs, faults, reach>>
vars == <<flash, prog>>

Running == phase # "idle"

\* The modes and options main accepts (the checks of lines 721-756).  For
\* -e, -r and -t the file only gives the length.
Options ==
  {c \in [act : {"write", "erase", "check", "read", "test", "quad"},
          file : Files, off : Offsets, erase : {"blocks", "bulk", "none"},
          unlock : BOOLEAN, verify : BOOLEAN, keep : BOOLEAN] :
     /\ c.act \in {"check", "read", "test", "quad"} =>
          c.erase = "blocks" /\ ~c.unlock
     /\ c.act \in {"test", "quad"} => c.off = 0 /\ c.file = <<>>
     /\ c.act \notin {"write", "check"} => c.verify}

Size == Len(o.file)
Min2(a, b) == IF a < b THEN a ELSE b

\* Fault: the end is rounded with the size of a chunk, not with its mask.
EndFar == ((o.off + Size + BLOCK) \div BLOCK) * BLOCK

\* begin_addr and end_addr: the aligned chunks the file touches.
Begin == (o.off \div BLOCK) * BLOCK
End == ((o.off + Size + BLOCK - 1) \div BLOCK) * BLOCK

\* Fault: pages are counted from the offset.
PageWhole == PAGE

\* What one fread of the programming loop asks for: up to the next page.
PageRest == PAGE - ((o.off + pos) % PAGE)
Chunk(n) == SubSeq(o.file, pos + 1, Min2(pos + n, Size))

-----------------------------------------------------------------------------
\* The phases of main, in order; each but the last is left out or repeated.
Phases == <<"unlock", "erase", "program", "quad", "read", "verify", "down">>

From(ph) == IF ph = "erase" THEN Begin ELSE 0

Work(ph, p) ==
  \/ ph = "unlock" /\ o.unlock /\ p = 0
  \/ ph = "erase" /\ o.act \in {"write", "erase"} /\ o.erase = "bulk" /\ p = Begin
  \/ ph = "erase" /\ o.act \in {"write", "erase"} /\ o.erase = "blocks" /\ p < End
  \/ ph = "program" /\ o.act = "write" /\ p < Size
  \/ ph = "quad" /\ o.act = "quad" /\ p = 0
  \/ ph = "read" /\ o.act = "read" /\ p < Size
  \/ ph = "verify" /\ o.act \in {"write", "check"} /\ o.verify /\ p < Size
  \/ ph = "down"

\* Go on at p in the i-th phase, or at the next phase that has work.
Proceed(i, p) ==
  LET At(j) == IF j = i THEN p ELSE From(Phases[j])
  IN  \E next \in i .. Len(Phases) :
        /\ Work(Phases[next], At(next))
        /\ \A j \in i .. next - 1 : ~Work(Phases[j], At(j))
        /\ phase' = Phases[next]
        /\ pos' = At(next)
        /\ step' = "enable"
        /\ count' = 0

Here == CHOOSE i \in DOMAIN Phases : Phases[i] = phase
GoOn(p) == Proceed(Here, p)

\* The cells a run may write: the aligned chunks its data lies in.  With no
\* data at an unaligned offset the erase loop still clears one chunk.
Asked(c) ==
  LET data == c.off .. c.off + Len(c.file) - 1
  IN  CASE c.act \notin {"write", "erase"} -> {}
        [] c.erase = "bulk" -> Addr
        [] c.erase = "none" -> IF c.act = "write" THEN data ELSE {}
        [] OTHER -> IF data = {} /\ c.off % BLOCK # 0 THEN Block(c.off)
                    ELSE UNION {Block(a) : a \in data}

\* A run starts.  Earlier writes can still be under way.
Start(c) ==
  /\ ~Running /\ runs < MaxRuns
  /\ o' = c
  /\ phase' = "wake"
  /\ out' = <<>>
  /\ runs' = runs + 1
  /\ reach' = Asked(c) \cup (IF Busy THEN reach ELSE {})
  /\ UNCHANGED <<flash, step, pos, count, exit, faults>>

\* Fault: the chip is not woken up.
WakeNot ==
  /\ phase = "wake"
  /\ Proceed(1, 0)
  /\ UNCHANGED <<flash, o, out, exit, runs, faults, reach>>

\* flash_reset, flash_power_up, flash_read_id.
Wake ==
  /\ phase = "wake"
  /\ ReleasePowerDown
  /\ Proceed(1, 0)
  /\ UNCHANGED <<o, out, exit, runs, faults, reach>>

Writing == phase \in {"unlock", "erase", "program", "quad"}

\* flash_write_enable
Enable ==
  /\ Writing /\ step = "enable"
  /\ WriteEnable
  /\ step' = "command"
  /\ UNCHANGED <<o, phase, pos, count, out, exit, runs, faults, reach>>

\* The command: FC_WSR1, FC_SE/FC_BE32/FC_BE64, FC_CE, FC_PP, FC_WSR2.  The
\* bit FC_WSR2 sets is not modelled: the chip is just busy with SR1.
Command ==
  /\ Writing /\ step = "command"
  /\ \/ phase = "unlock" /\ WriteStatus(0)
     \/ phase = "erase" /\ o.erase = "blocks" /\ Erase(Block(pos))
     \/ phase = "erase" /\ o.erase = "bulk" /\ Erase(Addr)
     \/ phase = "program" /\ Program(o.off + pos, Chunk(PageRest))
     \/ phase = "quad" /\ WriteStatus(mem[SR1])
  /\ step' = "wait"
  /\ UNCHANGED <<o, phase, pos, count, out, exit, runs, faults, reach>>

\* Where the loop of the phase goes next.
Advanced ==
  CASE phase = "erase" -> pos + BLOCK
    [] phase = "program" -> pos + Len(Chunk(PageRest))
    [] phase \in {"unlock", "quad"} -> 1

\* Fault: flash_wait takes the busy bit for the ready one.
PollBlind ==
  /\ Writing /\ step = "wait"
  /\ GoOn(Advanced)
  /\ UNCHANGED <<flash, o, out, exit, runs, faults, reach>>

\* flash_wait: one read of the status register; three ready ones in a row
\* end it.  A chip that is powered down answers anything.
Poll ==
  /\ Writing /\ step = "wait"
  /\ \/ /\ Busy \/ pd
        /\ count' = 0
        /\ UNCHANGED <<phase, step, pos>>
     \/ /\ ~Busy /\ count < 2
        /\ count' = count + 1
        /\ UNCHANGED <<phase, step, pos>>
     \/ /\ ~Busy /\ count = 2
        /\ GoOn(Advanced)
  /\ UNCHANGED <<flash, o, out, exit, runs, faults, reach>>

\* What flash_read returns for n bytes: a chip that ignores the command leaves
\* the line at one level.
Answers(n) ==
  IF Deaf THEN {[i \in 1..n |-> line] : line \in Bit}
  ELSE {[i \in 1..n |-> mem[o.off + pos + i - 1]]}

\* One turn of the loop of -r.
Read ==
  /\ phase = "read"
  /\ \E data \in Answers(Min2(PAGE, Size - pos)) : out' = out \o data
  /\ GoOn(pos + PAGE)
  /\ UNCHANGED <<flash, o, exit, runs, faults, reach>>

\* The run ends with this status.
Stop(status) ==
  /\ phase' = "idle"
  /\ exit' = status
  /\ step' = "enable" /\ pos' = 0 /\ count' = 0
  /\ UNCHANGED <<o, out, runs, faults, reach>>

\* Only the test modes ignore -k.
Sleep == IF o.keep /\ o.act \notin {"test", "quad"} THEN UNCHANGED flash ELSE PowerDown

\* Fault: a difference is reported, but the status is 0.
VerifyForgives ==
  /\ phase = "verify"
  /\ LET data == Chunk(PAGE)
     IN  \/ /\ data \in Answers(Len(data))
            /\ GoOn(pos + Len(data))
            /\ UNCHANGED <<flash, o, out, exit, runs, faults, reach>>
         \/ /\ Answers(Len(data)) # {data}
            /\ Sleep
            /\ Stop(0)

\* One turn of the loop that compares file and flash.
Verify ==
  /\ phase = "verify"
  /\ LET data == Chunk(PAGE)
     IN  \/ /\ data \in Answers(Len(data))
            /\ GoOn(pos + Len(data))
            /\ UNCHANGED <<flash, o, out, exit, runs, faults, reach>>
         \/ /\ Answers(Len(data)) # {data}
            /\ Sleep
            /\ Stop(3)

Down == phase = "down" /\ Sleep /\ Stop(0)

-----------------------------------------------------------------------------
\* mpsse_error(2) or a kill, at any transfer.  In the middle of a page program
\* the chip has some of the data, and programs it when its select line rises.
Abort ==
  /\ Running /\ faults < MaxFaults
  /\ \/ UNCHANGED flash
     \/ /\ phase = "program" /\ step = "command"
        /\ \E n \in 1 .. Len(Chunk(PageRest)) - 1 :
             Program(o.off + pos, SubSeq(Chunk(PageRest), 1, n))
  /\ phase' = "idle" /\ exit' = 2
  /\ step' = "enable" /\ pos' = 0 /\ count' = 0
  /\ faults' = faults + 1
  /\ UNCHANGED <<o, out, runs, reach>>

\* The board loses its power, which comes by the same cable.  The status of the
\* run before it says nothing any more.
Unplug ==
  /\ faults < MaxFaults
  /\ PowerLoss
  /\ phase' = "idle" /\ exit' = 2
  /\ step' = "enable" /\ pos' = 0 /\ count' = 0
  /\ faults' = faults + 1
  /\ UNCHANGED <<o, out, runs, reach>>

Init ==
  /\ FlashInit
  /\ o \in {c \in Options : c.act = "test" /\ ~c.keep}
  /\ phase = "idle" /\ step = "enable" /\ pos = 0 /\ count = 0
  /\ out = <<>> /\ exit = 0
  /\ runs = 0 /\ faults = 0
  /\ reach = {}

Main == Wake \/ Enable \/ Command \/ Poll \/ Read \/ Verify \/ Down

ChipStep == Finish /\ UNCHANGED prog

Next ==
  \/ \E c \in Options : Start(c)
  \/ Main
  \/ ChipStep
  \/ Abort
  \/ Unplug

\* The program runs on; the chip ends every write.
Spec == Init /\ [][Next]_vars /\ WF_vars(Main) /\ WF_vars(ChipStep)

-----------------------------------------------------------------------------
Ended(status) == ~Running /\ runs > 0 /\ exit = status

Stored(bits) == \A i \in 1 .. Len(bits) : mem[o.off + i - 1] = bits[i]

\* "write file contents to flash, then verify" (iceprog.c:512), "0 on success"
\* (line 539): after a run that writes, verifies and ends with 0 the flash
\* holds the file, whatever the runs before it left behind: a write under way,
\* a protected or half-written chip.
VerifiedIsWritten ==
  Ended(0) /\ o.act = "write" /\ o.verify => Stored(o.file)

\* With no run cut short, and a chip that is not protected, every write is
\* taken up by the chip and finds its cells erased: the file is there without
\* the verification too, and -e leaves the chunks erased (lines 953-1022).
WritesLand ==
  Ended(0) /\ faults = 0 /\ mem[SR1] = 0 /\ o.erase # "none" =>
    /\ o.act = "write" => Stored(o.file)
    /\ o.act = "erase" => \A a \in Asked(o) : mem[a] = 1

\* With no run cut short, what -r writes to its file and what -c accepts is
\* what the flash holds (lines 1028-1061).
ReadsAreTrue ==
  Ended(0) /\ faults = 0 =>
    /\ o.act = "read" => Len(out) = Size /\ Stored(out)
    /\ o.act = "check" /\ o.verify => Stored(o.file)

\* A run that ends on its own leaves the chip asleep, unless -k asked not to
\* (lines 1068-1069); after a run that has written, even when an earlier one
\* was cut short, because flash_wait has seen that write end.
Asleep ==
  (Ended(0) \/ Ended(3)) /\ (faults = 0 \/ (o.act = "write" /\ o.file # <<>>)) =>
    pd = (~o.keep \/ o.act \in {"test", "quad"})

\* Cells outside the aligned chunks of the run, or of one cut short whose last
\* write the chip is still on, keep their value (lines 970-1015).
OthersKept == [][\A a \in Addr : mem'[a] # mem[a] => a \in reach]_vars

\* flash_wait has no timeout (lines 387-429): every run ends all the same.
RunsEnd == Running ~> ~Running

\* "0 on success" (iceprog.c:539): when -e ends with 0 the chunks are erased.
ErasedOnSuccess ==
  Ended(0) /\ o.act = "erase" /\ o.erase # "none" =>
    \A a \in Asked(o) : mem[a] = 1
=============================================================================
