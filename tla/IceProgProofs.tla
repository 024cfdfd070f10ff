---------------------------- MODULE IceProgProofs ---------------------------
(***************************************************************************)
(* What the programmer reports is true, for every chip, every file and     *)
(* every number of runs and faults: a verified write is in the flash,      *)
(* whatever was left behind by the runs before it; nothing else changes;   *)
(* without a fault every write lands, reads and checks are true and the    *)
(* chip sleeps afterwards.                                                 *)
(***************************************************************************)
EXTENDS IceProg, SequenceTheorems, TLAPS

\* The run has come to its own end.
Over == Ended(0) \/ Ended(3)

\* A chip at work is not asleep, and main wakes it up before anything else.
Awake ==
  /\ pd \in BOOLEAN
  /\ Busy => ~pd
  /\ Running /\ phase # "wake" => ~pd

\* Without a fault the chip is busy only while flash_wait polls it.
Quiet == faults = 0 /\ Busy => Writing /\ step = "wait"

\* main is in a phase that has something to do.
AtWork == phase \in {"idle", "wake"} \/ Work(phase, pos)

\* After writing, the chip is not looked at before it is ready.
Settled ==
  o.act = "write" /\ o.file # <<>> /\ (phase \in {"verify", "down"} \/ Over) => ~Busy

StoredTo(n) == \A i \in 1..n : mem[o.off + i - 1] = o.file[i]

\* The file has been compared with the flash, as far as the loop has come.
Compares == o.verify /\ (o.act = "write" \/ (o.act = "check" /\ faults = 0))
Compared ==
  Compares =>
    /\ phase = "verify" => pos \in Nat /\ StoredTo(pos)
    /\ phase = "down" \/ Ended(0) => StoredTo(Size)

\* What -r has written so far is what the flash holds.
ReadSoFar ==
  /\ phase = "wake" => out = <<>>
  /\ o.act = "read" /\ faults = 0 =>
       /\ phase = "read" \/ phase = "down" \/ Ended(0) =>
            out \in Seq({mem[a] : a \in Addr}) /\ Stored(out)
       /\ phase = "read" => pos \in Nat /\ Len(out) = pos
       /\ phase = "down" \/ Ended(0) => Len(out) = Size

IInv ==
  /\ o \in Options /\ faults \in Nat
  /\ Awake /\ Quiet /\ AtWork /\ Settled /\ Asleep
  /\ Compared /\ ReadSoFar

-----------------------------------------------------------------------------
\* The chip holds every file at every offset.
LEMMA FileFits ==
  ASSUME o \in Options
  PROVE  /\ o.file \in Seq(Bit) /\ Size \in Nat
         /\ o.off \in Nat /\ o.off + Size <= SIZE
         /\ SIZE \in Nat /\ PAGE \in Nat \ {0}
         /\ o.keep \in BOOLEAN /\ o.verify \in BOOLEAN /\ o.unlock \in BOOLEAN
  BY FlashAssumption, IceProgAssumption DEF Options, Size, Addr

LEMMA EmptyFile == ASSUME o \in Options PROVE o.file = <<>> <=> Size = 0
  BY FileFits DEF Size

\* Where main can go from the i-th phase.
LEMMA Proceeds ==
  ASSUME o \in Options, o' = o, NEW i \in 1..7, NEW p, Proceed(i, p)
  PROVE  /\ phase' \in {"unlock", "erase", "program", "quad", "read", "verify", "down"}
         /\ Work(phase, pos)'
         /\ phase' = "verify" => pos' = IF i = 6 THEN p ELSE 0
         /\ phase' = "read" => pos' = IF i = 5 THEN p ELSE 0
         /\ phase' \in {"verify", "down"} /\ i < 3 => ~Work("program", 0)
         /\ phase' = "down" /\ i < 6 => ~Work("verify", 0)
         /\ phase' = "down" /\ i = 6 => ~Work("verify", p)
         /\ phase' = "down" /\ i < 5 => ~Work("read", 0)
         /\ phase' = "down" /\ i = 5 => ~Work("read", p)
  <1> DEFINE At(j) == IF j = i THEN p ELSE From(Phases[j])
  <1>1. PICK next \in i..7 :
          /\ Work(Phases[next], At(next))
          /\ \A j \in i .. next - 1 : ~Work(Phases[j], At(j))
          /\ phase' = Phases[next] /\ pos' = At(next)
    BY DEF Proceed, Phases
  <1>2. \A ph, q : Work(ph, q)' <=> Work(ph, q)
    BY DEF Work, Begin, End, Size
  <1>3. /\ Phases[1] = "unlock" /\ Phases[2] = "erase" /\ Phases[3] = "program"
        /\ Phases[4] = "quad" /\ Phases[5] = "read" /\ Phases[6] = "verify"
        /\ Phases[7] = "down"
    BY DEF Phases
  <1>4. Work(phase, pos)'
    BY <1>1, <1>2 DEF Work, Begin, End, Size
  <1>5. next \in {1, 2, 3, 4, 5, 6, 7} /\ i \in {1, 2, 3, 4, 5, 6, 7}
    BY <1>1
  <1>6. /\ phase' \in {"unlock", "erase", "program", "quad", "read", "verify", "down"}
        /\ phase' = "verify" <=> next = 6
        /\ phase' = "read" <=> next = 5
        /\ phase' = "down" <=> next = 7
    BY <1>1, <1>3, <1>5
  <1>7. \A j \in 3..7 : At(j) = IF j = i THEN p ELSE 0
    BY <1>3 DEF From
  <1>8. \A j \in 3..6 : i <= j /\ j < next => ~Work(Phases[j], IF j = i THEN p ELSE 0)
    BY <1>1, <1>7
  <1>9. /\ phase' = "verify" => pos' = IF i = 6 THEN p ELSE 0
        /\ phase' = "read" => pos' = IF i = 5 THEN p ELSE 0
    BY <1>1, <1>5, <1>6, <1>7
  <1>10. /\ phase' \in {"verify", "down"} /\ i < 3 => ~Work("program", 0)
         /\ phase' = "down" /\ i < 6 => ~Work("verify", 0)
         /\ phase' = "down" /\ i = 6 => ~Work("verify", p)
         /\ phase' = "down" /\ i < 5 => ~Work("read", 0)
         /\ phase' = "down" /\ i = 5 => ~Work("read", p)
    BY <1>3, <1>5, <1>6, <1>8
  <1>11. QED
    BY <1>4, <1>6, <1>9, <1>10

-----------------------------------------------------------------------------
\* Before the first run there is nothing to be true of it.
LEMMA IInvInit == Init => IInv
  BY DEF Init, FlashInit, IInv, Awake, Quiet, AtWork, Settled, Asleep, Compared, ReadSoFar,
         Over, Ended, Running, Busy, Options

\* What one action leaves alone of the run that is over, or under way.
LEMMA StartStep ==
  ASSUME IInv, NEW c \in Options, Start(c)
  PROVE  IInv'
  BY DEF Start, IInv, Awake, Quiet, AtWork, Settled, Asleep, Compared, ReadSoFar,
         Over, Ended, Running, Busy, Writing, flash

\* flash_power_up finds a chip that listens to it: none is asleep at work.
LEMMA WakeStep ==
  ASSUME IInv, Wake
  PROVE  IInv'
  <1>1. /\ o' = o /\ faults' = faults /\ op' = op /\ out' = <<>> /\ mem' = mem
        /\ pd' = FALSE /\ o \in Options /\ faults \in Nat
    BY DEF IInv, Awake, Busy, Wake, ReleasePowerDown, ReadSoFar
  <1>2. /\ phase' \in {"unlock", "erase", "program", "quad", "read", "verify", "down"}
        /\ Work(phase, pos)'
        /\ phase' = "verify" => pos' = 0
        /\ phase' = "read" => pos' = 0
        /\ phase' \in {"verify", "down"} => ~Work("program", 0)
        /\ phase' = "down" => ~Work("verify", 0)
        /\ phase' = "down" => ~Work("read", 0)
    BY <1>1, Proceeds DEF Wake
  <1>3. ~Over' /\ ~Ended(0)' /\ Running'
    BY <1>2 DEF Over, Ended, Running
  <1>4. Awake' /\ AtWork' /\ Asleep'
    BY <1>1, <1>2, <1>3 DEF Awake, AtWork, Asleep, Over
  <1>5. Quiet'
    BY <1>1 DEF IInv, Quiet, Busy, Writing, Wake
  <1>6. Settled'
    BY <1>1, <1>2, <1>3, FileFits, EmptyFile DEF Settled, Work
  <1>7. Compared'
    BY <1>1, <1>2, <1>3, FileFits DEF Compared, Compares, StoredTo, Work, Size
  <1>8. ReadSoFar'
    BY <1>1, <1>2, <1>3, FileFits DEF ReadSoFar, Stored, Work, Size
  <1>9. QED
    BY <1>1, <1>4, <1>5, <1>6, <1>7, <1>8 DEF IInv

\* A write enable changes the latch only.
LEMMA EnableStep ==
  ASSUME IInv, Enable
  PROVE  IInv'
  BY DEF Enable, WriteEnable, IInv, Awake, Quiet, AtWork, Settled, Asleep, Compares, Compared,
         ReadSoFar, StoredTo, Stored, Over, Ended, Running, Busy, Writing, Work, Begin, End, Size

\* What a write command does to the chip.
LEMMA CellsWritten ==
  ASSUME NEW f, WriteCells(f) \/ Write(f)
  PROVE  /\ mem' = mem /\ pd' = pd
         /\ op' = op \/ ~Deaf
  BY DEF WriteCells, Write, flash

\* After the command the program waits.
LEMMA CommandStep ==
  ASSUME IInv, Command
  PROVE  IInv'
  <1>1. mem' = mem /\ pd' = pd /\ (op' = op \/ ~Deaf)
    BY CellsWritten DEF Command, WriteStatus, Erase, Program
  <1>2. QED
    BY <1>1 DEF Command, IInv, Awake, Quiet, AtWork, Settled, Asleep, Compares, Compared,
         ReadSoFar, StoredTo, Stored, Over, Ended, Running, Busy, Deaf, Writing, Work, Begin,
         End, Size

\* What the phases that write do about the answers of flash_wait.
LEMMA PollStep ==
  ASSUME IInv, Poll
  PROVE  IInv'
  <1>1. /\ o' = o /\ faults' = faults /\ UNCHANGED flash /\ out' = out
        /\ runs' = runs /\ exit' = exit
        /\ o \in Options /\ faults \in Nat /\ Writing /\ step = "wait"
        /\ pd \in BOOLEAN /\ ~pd
    BY DEF IInv, Awake, Poll, Writing, Running
  <1>2. CASE UNCHANGED <<phase, step, pos>>
    BY <1>1, <1>2 DEF flash, IInv, Awake, Quiet, AtWork, Settled, Asleep, Compares, Compared,
         ReadSoFar, StoredTo, Stored, Over, Ended, Running, Busy, Writing, Work, Begin,
         End, Size
  <1>3. CASE ~Busy /\ GoOn(Advanced)
    <2>1. PICK i \in 1..4 : Phases[i] = phase /\ Proceed(i, Advanced)
      <3>1. \E i \in 1..4 : Phases[i] = phase /\ Here = i
        BY <1>1 DEF Writing, Here, Phases
      <3>2. QED
        BY <3>1, <1>3 DEF GoOn
    <2>2. /\ phase' \in {"unlock", "erase", "program", "quad", "read", "verify", "down"}
          /\ Work(phase, pos)'
          /\ phase' = "verify" => pos' = 0
          /\ phase' = "read" => pos' = 0
          /\ phase' \in {"verify", "down"} /\ i < 3 => ~Work("program", 0)
          /\ phase' = "down" => ~Work("verify", 0)
          /\ phase' = "down" => ~Work("read", 0)
      BY <1>1, <2>1, Proceeds
    <2>3. ~Over' /\ ~Ended(0)' /\ Running' /\ ~Busy'
      BY <1>1, <1>3, <2>2 DEF Over, Ended, Running, Busy, flash
    <2>4. Awake' /\ AtWork' /\ Asleep' /\ Quiet' /\ Settled'
      BY <1>1, <2>2, <2>3 DEF flash, Awake, AtWork, Asleep, Over, Quiet, Settled
    <2>5. Compared'
      BY <1>1, <2>2, <2>3, FileFits DEF Compared, Compares, StoredTo, Work, Size
    <2>6. o.act # "read"
      BY <1>1 DEF IInv, AtWork, Work, Writing, Options
    <2>7. ReadSoFar'
      BY <1>1, <2>2, <2>6 DEF ReadSoFar
    <2>8. QED
      BY <1>1, <2>4, <2>5, <2>7 DEF IInv
  <1>4. QED
    BY <1>2, <1>3 DEF Poll

\* What a chip that listens answers, and the part of the file it is compared with.
LEMMA Answered ==
  ASSUME IInv, phase \in {"read", "verify"}, ~Busy, NEW n
  PROVE  Answers(n) = {[i \in 1..n |-> mem[o.off + pos + i - 1]]}
  BY DEF IInv, Awake, Running, Answers, Deaf

LEMMA Piece ==
  ASSUME o \in Options, pos \in Nat, pos < Size,
         NEW n, n = Min2(PAGE, Size - pos)
  PROVE  /\ n \in Nat /\ n > 0 /\ pos + n <= Size
         /\ pos + PAGE < Size => n = PAGE
         /\ pos + PAGE >= Size => pos + n = Size
         /\ Chunk(PAGE) \in Seq(Bit) /\ Len(Chunk(PAGE)) = n
         /\ \A i \in 1..n : Chunk(PAGE)[i] = o.file[pos + i]
  <1> DEFINE f == o.file
  <1>1. /\ f \in Seq(Bit) /\ Size = Len(f) /\ Size \in Nat /\ PAGE \in Nat \ {0}
    BY FileFits DEF Size
  <1>2. /\ n \in Nat /\ n > 0 /\ pos + n <= Size
        /\ pos + PAGE < Size => n = PAGE
        /\ pos + PAGE >= Size => pos + n = Size
    BY <1>1 DEF Min2
  <1>3. Chunk(PAGE) = SubSeq(f, pos + 1, pos + n)
    BY <1>1, <1>2 DEF Chunk, Min2
  <1> HIDE DEF f
  <1>4. /\ SubSeq(f, pos + 1, pos + n) \in Seq(Bit)
        /\ Len(SubSeq(f, pos + 1, pos + n)) = n
        /\ \A i \in 1..n : SubSeq(f, pos + 1, pos + n)[i] = f[pos + i]
    BY <1>1, <1>2, SubSeqProperties
  <1>5. QED
    BY <1>2, <1>3, <1>4 DEF f

\* The loop of -r adds the next page to the file.
LEMMA ReadStep ==
  ASSUME IInv, Read
  PROVE  IInv'
  <1> DEFINE n == Min2(PAGE, Size - pos)
             S == {mem[a] : a \in Addr}
  <1>1. /\ o' = o /\ faults' = faults /\ UNCHANGED flash /\ exit' = exit /\ runs' = runs
        /\ o \in Options /\ faults \in Nat /\ phase = "read"
        /\ pd \in BOOLEAN /\ ~pd
        /\ o.act = "read" /\ pos < Size
    BY DEF IInv, Awake, AtWork, Work, Read, Running
  <1>2. Proceed(5, pos + PAGE)
    <2>1. \A i \in DOMAIN Phases : Phases[i] = "read" <=> i = 5
      BY DEF Phases
    <2>2. Here = 5
      BY <1>1, <2>1 DEF Here, Phases
    <2>3. QED
      BY <2>2 DEF Read, GoOn
  <1>3. /\ phase' \in {"unlock", "erase", "program", "quad", "read", "verify", "down"}
        /\ Work(phase, pos)'
        /\ phase' = "read" => pos' = pos + PAGE
        /\ phase' = "down" => ~Work("read", pos + PAGE)
    BY <1>1, <1>2, Proceeds
  <1>4. ~Over' /\ ~Ended(0)' /\ Running'
    BY <1>3 DEF Over, Ended, Running
  <1>5. Awake' /\ AtWork' /\ Asleep' /\ Quiet' /\ Settled' /\ Compared'
    BY <1>1, <1>3, <1>4
       DEF flash, IInv, Awake, AtWork, Asleep, Over, Quiet, Settled, Compared, Compares, Busy,
           Writing
  <1>6. ASSUME faults = 0
        PROVE  /\ out' \in Seq(S) /\ Len(out') = pos + n /\ pos \in Nat
               /\ Stored(out)'
    <2>1. ~Busy
      BY <1>1, <1>6 DEF IInv, Quiet, Writing
    <2>2. out' = out \o [i \in 1..n |-> mem[o.off + pos + i - 1]]
      BY <1>1, <2>1, Answered DEF Read
    <2>3. out \in Seq(S) /\ Stored(out) /\ pos \in Nat /\ Len(out) = pos
      BY <1>1, <1>6 DEF IInv, ReadSoFar
    <2>4. n \in Nat /\ n > 0 /\ pos + n <= Size
      BY <1>1, <2>3, Piece
    <2>5. \A i \in 1..n : o.off + pos + i - 1 \in Addr
      <3>1. o.off \in Nat /\ Size \in Nat /\ SIZE \in Nat /\ o.off + Size <= SIZE
        BY <1>1, FileFits
      <3>2. pos \in Nat /\ n \in Nat /\ pos + n <= Size
        BY <2>3, <2>4
      <3> HIDE DEF n
      <3> QED
        BY <3>1, <3>2 DEF Addr
    <2>6. [i \in 1..n |-> mem[o.off + pos + i - 1]] \in Seq(S)
      BY <2>4, <2>5
    <2> DEFINE t == [i \in 1..n |-> mem[o.off + pos + i - 1]]
    <2>7. Len(t) = n /\ t \in Seq(S) /\ \A i \in 1..n : t[i] = mem[o.off + pos + i - 1]
      BY <2>4, <2>6
    <2> HIDE DEF n, S, t
    <2>8. /\ out' \in Seq(S) /\ Len(out') = pos + n
          /\ \A i \in 1 .. pos + n : out'[i] = IF i <= pos THEN out[i] ELSE t[i - pos]
      BY <2>2, <2>3, <2>4, <2>7, ConcatProperties DEF t
    <2>9. \A i \in 1 .. pos + n : mem[o.off + i - 1] = out'[i]
      <3>1. SUFFICES ASSUME NEW i \in 1 .. pos + n PROVE mem[o.off + i - 1] = out'[i]
        OBVIOUS
      <3>2. CASE i <= pos
        BY <2>3, <2>8, <3>2 DEF Stored
      <3>3. CASE i > pos
        <4>1. i - pos \in 1..n /\ o.off + pos + (i - pos) - 1 = o.off + i - 1
          BY <2>3, <2>4, <3>3, <1>1, FileFits
        <4>2. QED
          BY <2>7, <2>8, <2>3, <3>3, <4>1
      <3>4. QED
        BY <3>2, <3>3, <2>3, <2>4
    <2>10. QED
      BY <1>1, <2>3, <2>8, <2>9 DEF Stored, flash
  <1>7. ReadSoFar'
    <2>1. SUFFICES ASSUME faults = 0
                   PROVE  /\ phase' \in {"read", "down"} =>
                               out' \in Seq(S)' /\ Stored(out)'
                          /\ phase' = "read" => pos' \in Nat /\ Len(out') = pos'
                          /\ phase' = "down" => Len(out') = Size
      BY <1>1, <1>3, <1>4 DEF ReadSoFar, Size
    <2>2. S' = S
      BY <1>1 DEF flash
    <2>3. /\ pos + PAGE < Size => n = PAGE
          /\ pos + PAGE >= Size => pos + n = Size
          /\ PAGE \in Nat /\ Size \in Nat
      BY <1>1, <1>6, <2>1, Piece, FileFits
    <2>4. /\ phase' = "read" => pos + PAGE < Size
          /\ phase' = "down" => ~(pos + PAGE < Size)
      BY <1>1, <1>3 DEF Work, Size
    <2> HIDE DEF n, S
    <2>5. QED
      BY <1>3, <1>6, <2>1, <2>2, <2>3, <2>4
  <1>8. QED
    BY <1>1, <1>5, <1>7 DEF IInv

\* The end of a run, with status 0, or with 3 out of the comparison.
LEMMA Stops ==
  ASSUME IInv, NEW status \in {0, 3}, Sleep, Stop(status), phase \in {"verify", "down"},
         status = 0 => phase = "down"
  PROVE  IInv'
  <1>1. /\ o' = o /\ faults' = faults /\ mem' = mem /\ op' = op /\ out' = out
        /\ phase' = "idle" /\ exit' = status /\ pd' \in BOOLEAN /\ o.keep \in BOOLEAN
        /\ ~pd /\ o \in Options /\ faults \in Nat
    BY FileFits DEF IInv, Awake, Sleep, Stop, PowerDown, flash, Running
  <1>2. Busy => ~pd'
    BY <1>1 DEF Sleep, PowerDown, flash
  <1>3. ~Busy => pd' = (~o.keep \/ o.act \in {"test", "quad"})
    BY <1>1 DEF Sleep, PowerDown, flash
  <1>4. faults = 0 \/ (o.act = "write" /\ o.file # <<>>) => ~Busy
    BY DEF IInv, Quiet, Settled, Writing
  <1>5. Awake' /\ AtWork' /\ Asleep' /\ Quiet' /\ Settled'
    BY <1>1, <1>2, <1>3, <1>4
       DEF Awake, AtWork, Asleep, Over, Quiet, Settled, Running, Busy, Writing
  <1>6. Ended(0)' => phase = "down"
    BY <1>1 DEF Ended
  <1>7. Compared' /\ ReadSoFar'
    BY <1>1, <1>6 DEF IInv, Compared, Compares, StoredTo, ReadSoFar, Stored, Size
  <1>8. QED
    BY <1>1, <1>5, <1>7 DEF IInv

\* A piece of the file is the same in the flash, or the run ends with 3.
LEMMA VerifyStep ==
  ASSUME IInv, Verify
  PROVE  IInv'
  <1> DEFINE data == Chunk(PAGE)
             n == Len(data)
  <1>1. CASE Sleep /\ Stop(3)
    BY <1>1, Stops DEF Verify
  <1>2. CASE /\ data \in Answers(n) /\ GoOn(pos + n)
             /\ UNCHANGED <<flash, o, out, exit, runs, faults, reach>>
    <2>1. /\ o' = o /\ faults' = faults /\ UNCHANGED flash /\ out' = out
          /\ exit' = exit /\ runs' = runs
          /\ o \in Options /\ faults \in Nat /\ phase = "verify"
          /\ pd \in BOOLEAN /\ ~pd /\ o.verify
          /\ o.act \in {"write", "check"} /\ pos < Size
      BY <1>2 DEF IInv, Awake, AtWork, Work, Verify, Running
    <2>2. Proceed(6, pos + n)
      <3>1. \A i \in DOMAIN Phases : Phases[i] = "verify" <=> i = 6
        BY DEF Phases
      <3>2. Here = 6
        BY <2>1, <3>1 DEF Here, Phases
      <3>3. QED
        BY <1>2, <3>2 DEF GoOn
    <2>3. /\ phase' \in {"unlock", "erase", "program", "quad", "read", "verify", "down"}
          /\ Work(phase, pos)'
          /\ phase' = "verify" => pos' = pos + n
          /\ phase' = "down" => ~Work("verify", pos + n)
      BY <2>1, <2>2, Proceeds
    <2>4. ~Over' /\ ~Ended(0)' /\ Running'
      BY <2>3 DEF Over, Ended, Running
    <2>5. phase' \in {"verify", "down"}
      BY <2>1, <2>2 DEF Proceed, Phases
    <2>6. Awake' /\ AtWork' /\ Asleep' /\ Quiet' /\ Settled'
      BY <2>1, <2>3, <2>4, <2>5
         DEF flash, IInv, Awake, AtWork, Asleep, Over, Quiet, Settled, Busy, Writing
    <2>7. ReadSoFar'
      BY <2>1, <2>3, <2>4, <2>5 DEF ReadSoFar
    <2>8. ASSUME Compares
          PROVE  pos \in Nat /\ pos + n <= Size /\ n \in Nat /\ StoredTo(pos + n)
      <3>1. ~Busy
        <4>1. o.file # <<>>
          BY <2>1, EmptyFile, FileFits, <2>8 DEF IInv, Compared
        <4>2. QED
          BY <2>1, <2>8, <4>1 DEF IInv, Quiet, Settled, Compares, Writing
      <3>2. pos \in Nat /\ StoredTo(pos)
        BY <2>1, <2>8 DEF IInv, Compared
      <3>3. /\ n \in Nat /\ pos + n <= Size /\ \A i \in 1..n : data[i] = o.file[pos + i]
        BY <2>1, <3>2, Piece
      <3>4. data = [i \in 1..n |-> mem[o.off + pos + i - 1]]
        BY <1>2, <2>1, <3>1, Answered
      <3> HIDE DEF data, n
      <3>5. \A i \in 1..n : mem[o.off + pos + i - 1] = o.file[pos + i]
        BY <3>3, <3>4
      <3>6. \A i \in 1 .. pos + n : mem[o.off + i - 1] = o.file[i]
        <4>1. SUFFICES ASSUME NEW i \in 1 .. pos + n PROVE mem[o.off + i - 1] = o.file[i]
          OBVIOUS
        <4>2. CASE i <= pos
          BY <3>2, <4>2 DEF StoredTo
        <4>3. CASE i > pos
          <5>1. /\ i - pos \in 1..n /\ o.off + pos + (i - pos) - 1 = o.off + i - 1
                /\ pos + (i - pos) = i
            BY <3>2, <3>3, <4>3, <2>1, FileFits
          <5>2. QED
            BY <3>5, <5>1
        <4>4. QED
          BY <4>2, <4>3, <3>2, <3>3
      <3>7. QED
        BY <3>2, <3>3, <3>6 DEF StoredTo
    <2>9. Compared'
      <3>1. SUFFICES ASSUME Compares
                     PROVE  /\ phase' = "verify" => pos' \in Nat /\ StoredTo(pos)'
                            /\ phase' = "down" => StoredTo(Size)'
        BY <2>1, <2>4 DEF Compared, Compares
      <3>2. phase' = "down" => ~(pos + n < Size)
        BY <2>1, <2>3 DEF Work
      <3>3. Size' = Size /\ Size \in Nat /\ \A k : StoredTo(k)' <=> StoredTo(k)
        BY <2>1, FileFits DEF Size, StoredTo, flash
      <3>4. pos \in Nat /\ pos + n <= Size /\ n \in Nat /\ StoredTo(pos + n)
        BY <2>8, <3>1
      <3> HIDE DEF n
      <3>5. phase' = "verify" => pos' \in Nat /\ StoredTo(pos)'
        BY <2>3, <3>3, <3>4, <2>1 DEF StoredTo, flash
      <3>6. phase' = "down" => pos + n = Size
        BY <3>2, <3>3, <3>4
      <3>7. phase' = "down" => StoredTo(Size)'
        BY <3>3, <3>4, <3>6, <2>1 DEF StoredTo, flash
      <3>8. QED
        BY <3>5, <3>7
    <2>10. QED
      BY <2>1, <2>6, <2>7, <2>9 DEF IInv
  <1>3. QED
    BY <1>1, <1>2 DEF Verify

\* The chip ends a write: there is none when something is known of it.
LEMMA ChipDone ==
  ASSUME IInv, ChipStep
  PROVE  IInv'
  <1>1. Busy /\ ~Busy' /\ UNCHANGED prog /\ pd' = pd
    BY DEF ChipStep, Finish, Busy
  <1>2. Awake' /\ Quiet' /\ AtWork' /\ Settled' /\ Asleep'
    BY <1>1 DEF prog, IInv, Awake, Quiet, AtWork, Settled, Asleep, Over, Ended, Running, Busy,
         Writing, Work, Begin, End, Size
  <1>3. faults = 0 => phase \in {"unlock", "erase", "program", "quad"}
    BY <1>1 DEF IInv, Quiet, Writing
  <1>4. Compared'
    <2>1. CASE o.file = <<>>
      BY <1>1, <2>1, EmptyFile DEF prog, IInv, Compared, Compares, StoredTo, AtWork, Work, Size
    <2>2. CASE o.file # <<>>
      BY <1>1, <1>3, <2>2 DEF prog, IInv, Compared, Compares, Settled, Over, Ended, Running
    <2>3. QED
      BY <2>1, <2>2
  <1>5. ReadSoFar'
    BY <1>1, <1>3 DEF prog, IInv, ReadSoFar, Ended, Running
  <1>6. QED
    BY <1>1, <1>2, <1>4, <1>5 DEF IInv, prog

\* A fault: nothing is claimed of the run.
LEMMA FaultStep ==
  ASSUME IInv, Abort \/ Unplug
  PROVE  IInv'
  <1>1. /\ o' = o /\ faults' = faults + 1 /\ phase' = "idle" /\ exit' = 2
        /\ o \in Options /\ faults \in Nat
    BY DEF IInv, Abort, Unplug
  <1>2. ~Over' /\ ~Ended(0)' /\ ~Running' /\ faults' # 0 /\ faults' \in Nat
    BY <1>1 DEF Over, Ended, Running
  <1>3. pd' \in BOOLEAN /\ (Busy' => ~pd')
    <2>1. CASE Abort
      <3>1. pd' = pd /\ (op' = op \/ ~Deaf)
        BY <2>1, CellsWritten DEF Abort, Program, flash
      <3>2. QED
        BY <3>1 DEF IInv, Awake, Busy, Deaf
    <2>2. CASE Unplug
      BY <2>2 DEF Unplug, PowerLoss
    <2>3. QED
      BY <2>1, <2>2
  <1>4. QED
    BY <1>1, <1>2, <1>3
       DEF IInv, Awake, Quiet, AtWork, Settled, Asleep, Over, Compared, ReadSoFar

\* Every step takes IInv to IInv.
LEMMA IInvStep == IInv /\ [Next]_vars => IInv'
  <1> SUFFICES ASSUME IInv, [Next]_vars PROVE IInv'
    OBVIOUS
  <1>1. CASE \E c \in Options : Start(c)
    BY <1>1, StartStep
  <1>2. CASE Main
    <2>1. CASE Down
      BY <2>1, Stops DEF Down
    <2>2. QED
      BY <1>2, <2>1, WakeStep, EnableStep, CommandStep, PollStep, ReadStep, VerifyStep DEF Main
  <1>3. CASE ChipStep
    BY <1>3, ChipDone
  <1>4. CASE Abort \/ Unplug
    BY <1>4, FaultStep
  <1>5. CASE UNCHANGED vars
    BY <1>5 DEF vars, prog, flash, IInv, Awake, Quiet, AtWork, Settled, Asleep, Compares,
         Compared, ReadSoFar, StoredTo, Stored, Over, Ended, Running, Busy, Writing, Work,
         Begin, End, Size
  <1>6. QED
    BY <1>1, <1>2, <1>3, <1>4, <1>5 DEF Next

-----------------------------------------------------------------------------
\* The invariant holds in every state, for every chip, file, offset and number
\* of runs and faults.
THEOREM ProgrammerInvariant == Spec => []IInv
  BY IInvInit, IInvStep, PTL DEF Spec

\* A run that writes, verifies and ends with 0 has left the file in the flash,
\* whatever the runs before it left behind (iceprog.c:953-1061).
THEOREM VerifiedWritesAreThere == Spec => []VerifiedIsWritten
  <1>1. IInv => VerifiedIsWritten
    BY DEF IInv, Compared, Compares, StoredTo, VerifiedIsWritten, Stored, Size
  <1>2. QED
    BY <1>1, ProgrammerInvariant, PTL

\* With no run cut short, reads and checks tell what the flash holds
\* (iceprog.c:1028-1061).
THEOREM ReadsTellTheFlash == Spec => []ReadsAreTrue
  <1>1. IInv => ReadsAreTrue
    BY DEF IInv, Compared, Compares, StoredTo, ReadSoFar, ReadsAreTrue, Stored, Size
  <1>2. QED
    BY <1>1, ProgrammerInvariant, PTL

\* A run that ends on its own leaves the chip asleep unless it was asked not to
\* (iceprog.c:1068-1069).
THEOREM ChipIsAsleep == Spec => []Asleep
  <1>1. IInv => Asleep
    BY DEF IInv
  <1>2. QED
    BY <1>1, ProgrammerInvariant, PTL

-----------------------------------------------------------------------------
\* Quotient and remainder are the only ones.
LEMMA Parts ==
  ASSUME NEW a \in Nat, NEW b \in Nat \ {0}
  PROVE  /\ a \div b \in Nat /\ a % b \in 0 .. b - 1
         /\ a = (a \div b) * b + (a % b)
  BY Z3

LEMMA OnlyParts ==
  ASSUME NEW b \in Nat \ {0}, NEW q \in Nat, NEW r \in 0 .. b - 1
  PROVE  (q * b + r) \div b = q /\ (q * b + r) % b = r
  BY Z3

\* Up to the end of its page, a page program goes from byte to byte.
LEMMA Within ==
  ASSUME NEW a \in Nat, NEW n \in Nat, n < PAGE - (a % PAGE)
  PROVE  InPage(a, n) = a + n
  <1> DEFINE q == a \div PAGE
             r == a % PAGE
  <1>1. PAGE \in Nat \ {0}
    BY FlashAssumption
  <1>2. q \in Nat /\ r \in 0 .. PAGE - 1 /\ a = q * PAGE + r
    BY <1>1, Parts
  <1>3. r + n \in 0 .. PAGE - 1
    BY <1>1, <1>2
  <1> HIDE DEF q, r
  <1>4. q * PAGE \in Nat
    BY <1>1, <1>2
  <1>5. a + n = q * PAGE + (r + n)
    BY <1>2, <1>4, <1>1
  <1>6. (a + n) % PAGE = r + n
    BY <1>1, <1>2, <1>3, <1>5, OnlyParts
  <1>7. InPage(a, n) = q * PAGE + ((a + n) % PAGE)
    BY DEF InPage, q
  <1>8. QED
    BY <1>5, <1>6, <1>7

\* What one turn of the programming loop sends.
LEMMA PageSent ==
  ASSUME o \in Options, pos \in Nat, pos < Size
  PROVE  /\ Len(Chunk(PageRest)) \in 1 .. Size - pos
         /\ Len(Chunk(PageRest)) <= PAGE - ((o.off + pos) % PAGE)
         /\ \A i \in 1 .. Len(Chunk(PageRest)) : Chunk(PageRest)[i] = o.file[pos + i]
         /\ Chunk(PageRest) \in Seq(Bit)
  <1> DEFINE f == o.file
             m == Min2(pos + PageRest, Size)
  <1>1. f \in Seq(Bit) /\ Size = Len(f) /\ Size \in Nat /\ PAGE \in Nat \ {0} /\ o.off \in Nat
    BY FileFits DEF Size
  <1>2. o.off + pos \in Nat
    BY <1>1
  <1>3. (o.off + pos) % PAGE \in 0 .. PAGE - 1
    BY <1>1, <1>2, Parts
  <1>4. PageRest \in Nat \ {0} /\ PageRest = PAGE - ((o.off + pos) % PAGE)
    BY <1>1, <1>3 DEF PageRest
  <1>5. m \in Nat /\ m > pos /\ m <= Size /\ m - pos <= PageRest
    BY <1>1, <1>4 DEF Min2
  <1>6. Chunk(PageRest) = SubSeq(f, pos + 1, m)
    BY DEF Chunk
  <1> HIDE DEF f, m
  <1>7. /\ SubSeq(f, pos + 1, m) \in Seq(Bit)
        /\ Len(SubSeq(f, pos + 1, m)) = m - pos
        /\ \A i \in 1 .. m - pos : SubSeq(f, pos + 1, m)[i] = f[pos + i]
    BY <1>1, <1>5, SubSeqProperties
  <1>8. /\ Len(Chunk(PageRest)) = m - pos
        /\ \A i \in 1 .. m - pos : Chunk(PageRest)[i] = f[pos + i]
        /\ Chunk(PageRest) \in Seq(Bit)
    BY <1>6, <1>7
  <1>9. m - pos \in 1 .. Size - pos /\ m - pos <= PAGE - ((o.off + pos) % PAGE)
    BY <1>1, <1>4, <1>5
  <1>10. QED
    BY <1>8, <1>9 DEF f

\* The cells that a page program is on.
Sent == {o.off + pos + n : n \in 0 .. Len(Chunk(PageRest)) - 1}

\* The chunks of the erase loop, counted.
First == o.off \div BLOCK
Turn(k) == pos = k * BLOCK /\ k >= First

\* The erase loop is at a chunk of the file.
Aligned ==
  /\ phase = "erase" => \E k \in Nat : Turn(k)
  /\ phase = "program" => pos \in Nat

\* A write of the flash is one of the cells asked for.
Reach ==
  /\ Addr \cup {SR1} \subseteq DOMAIN mem
  /\ DOMAIN op \cap Addr \subseteq reach
  /\ Running => Asked(o) \subseteq reach
  /\ Aligned

LEMMA Chunks ==
  ASSUME o \in Options
  PROVE  /\ BLOCK \in Nat \ {0} /\ First \in Nat /\ Begin = First * BLOCK
         /\ o.off - Begin \in 0 .. BLOCK - 1
         /\ (o.off + Size + BLOCK - 1) \div BLOCK \in Nat
         /\ End = ((o.off + Size + BLOCK - 1) \div BLOCK) * BLOCK
  <1>1. BLOCK \in Nat \ {0} /\ o.off \in Nat /\ Size \in Nat
    BY FlashAssumption, FileFits
  <1>2. o.off + Size + BLOCK - 1 \in Nat
    BY <1>1
  <1>3. (o.off + Size + BLOCK - 1) \div BLOCK \in Nat
    BY <1>1, <1>2, Parts
  <1>4. First \in Nat /\ o.off % BLOCK \in 0 .. BLOCK - 1 /\ o.off = First * BLOCK + (o.off % BLOCK)
    BY <1>1, Parts DEF First
  <1>5. QED
    BY <1>1, <1>3, <1>4 DEF Begin, End, First

\* The chunks between the one of the first byte and the end rounded up.
Rounds(b, off, size, k) ==
  /\ (k * b) \div b = k
  /\ size = 0 => off % b # 0 /\ k = off \div b
  /\ size # 0 => \E a \in off .. off + size - 1 : a \div b = k

LEMMA Rounded ==
  \A b \in Nat \ {0}, off, size, k \in Nat :
    k >= off \div b /\ k * b < ((off + size + b - 1) \div b) * b => Rounds(b, off, size, k)
  <1> SUFFICES ASSUME NEW b \in Nat \ {0}, NEW off \in Nat, NEW size \in Nat, NEW k \in Nat,
                      k >= off \div b, k * b < ((off + size + b - 1) \div b) * b
               PROVE  Rounds(b, off, size, k)
    OBVIOUS
  <1> DEFINE first == off \div b
             rest == off % b
             last == (off + size + b - 1) \div b
  <1>1. first \in Nat /\ rest \in 0 .. b - 1 /\ off = first * b + rest
    BY Parts
  <1>2. off + size + b - 1 \in Nat
    OBVIOUS
  <1>3. last \in Nat /\ last * b <= off + size + b - 1
    BY <1>2, Parts
  <1>4. (k * b) \div b = k
    <2>1. 0 \in 0 .. b - 1 /\ k * b = k * b + 0
      OBVIOUS
    <2>2. QED
      BY <2>1, OnlyParts
  <1>5. k >= first /\ k * b < last * b
    OBVIOUS
  <1> HIDE DEF first, rest, last
  <1>6. k < last /\ first * b \in Nat
    BY <1>1, <1>3, <1>5
  <1>7. k * b + b <= last * b
    BY <1>1, <1>3, <1>6
  <1>8. k > first => k * b >= first * b + b
    BY <1>1
  <1>9. size = 0 => rest # 0 /\ k = first
    BY <1>1, <1>3, <1>5, <1>7, <1>8
  <1>10. ASSUME size # 0 PROVE \E a \in off .. off + size - 1 : a \div b = k
    <2>1. CASE k = first
      BY <2>1, <1>10 DEF first
    <2>2. CASE k > first
      <3>1. k * b \in off .. off + size - 1
        BY <2>2, <1>1, <1>3, <1>6, <1>7, <1>8
      <3>2. QED
        BY <3>1, <1>4
    <2>3. QED
      BY <2>1, <2>2, <1>1, <1>5
  <1>11. QED
    BY <1>4, <1>9, <1>10 DEF first, rest, Rounds

\* Every chunk that the erase loop comes to holds a byte of the file, or is the
\* one chunk of an empty file at an unaligned offset.
LEMMA TurnAsked ==
  ASSUME o \in Options, NEW k \in Nat, Turn(k), pos < End,
         o.act \in {"write", "erase"}, o.erase = "blocks"
  PROVE  Block(pos) \subseteq Asked(o)
  <1> DEFINE data == o.off .. o.off + Len(o.file) - 1
  <1>1. /\ BLOCK \in Nat \ {0} /\ o.off \in Nat /\ Size \in Nat /\ Size = Len(o.file)
        /\ k >= o.off \div BLOCK /\ pos = k * BLOCK
    BY Chunks, FileFits DEF Turn, Size, First
  <1>2. k * BLOCK < ((o.off + Size + BLOCK - 1) \div BLOCK) * BLOCK
    BY <1>1 DEF End
  <1>3. /\ pos \div BLOCK = k
        /\ Size = 0 => o.off % BLOCK # 0 /\ k = o.off \div BLOCK
        /\ Size # 0 => \E a \in o.off .. o.off + Size - 1 : a \div BLOCK = k
    <2>1. BLOCK \in Nat \ {0} /\ o.off \in Nat /\ Size \in Nat /\ k >= o.off \div BLOCK
      BY <1>1
    <2>2. /\ (k * BLOCK) \div BLOCK = k
          /\ Size = 0 => o.off % BLOCK # 0 /\ k = o.off \div BLOCK
          /\ Size # 0 => \E a \in o.off .. o.off + Size - 1 : a \div BLOCK = k
      <3>1. Rounds(BLOCK, o.off, Size, k)
        BY <1>2, <2>1, Rounded, Zenon
      <3>2. QED
        BY <3>1 DEF Rounds
    <2>3. QED
      BY <1>1, <2>2, Zenon
  <1>4. Asked(o) = IF data = {} /\ o.off % BLOCK # 0 THEN Block(o.off)
                   ELSE UNION {Block(a) : a \in data}
    BY DEF Asked
  <1>5. Size = 0 => data = {}
    BY <1>1
  <1>6. Size # 0 => \E a \in data : a \div BLOCK = k
    BY <1>1, <1>3
  <1> HIDE DEF data
  <1>7. CASE Size = 0
    <2>1. Block(pos) = Block(o.off)
      BY <1>3, <1>7 DEF Block
    <2>2. QED
      BY <1>3, <1>4, <1>5, <1>7, <2>1
  <1>8. CASE Size # 0
    <2>1. PICK a \in data : a \div BLOCK = k
      BY <1>6, <1>8
    <2>2. Block(pos) = Block(a)
      BY <2>1, <1>3 DEF Block
    <2>3. QED
      BY <1>4, <2>1, <2>2
  <1>9. QED
    BY <1>7, <1>8

\* The bytes of a file that is written are asked for, and its chunks too.
LEMMA DataAsked ==
  ASSUME o \in Options, o.act = "write" \/ (o.act = "erase" /\ o.erase # "none")
  PROVE  o.off .. o.off + Len(o.file) - 1 \subseteq Asked(o)
  <1> DEFINE data == o.off .. o.off + Len(o.file) - 1
  <1> SUFFICES data \subseteq Asked(o)
    OBVIOUS
  <1>1. o.off \in Nat /\ Len(o.file) \in Nat /\ o.off + Len(o.file) <= SIZE /\ SIZE \in Nat
    BY FileFits DEF Size
  <1>2. data \subseteq Addr
    BY <1>1 DEF Addr
  <1>3. CASE data = {}
    BY <1>3
  <1>4. CASE data # {}
    <2>1. \A a \in data : a \in Block(a)
      BY <1>2 DEF Block
    <2> HIDE DEF data
    <2>2. Asked(o) = CASE o.erase = "bulk" -> Addr
                       [] o.erase = "none" -> IF o.act = "write" THEN data ELSE {}
                       [] OTHER -> IF data = {} /\ o.off % BLOCK # 0 THEN Block(o.off)
                                   ELSE UNION {Block(a) : a \in data}
      BY DEF Asked, data
    <2>3. o.erase \in {"blocks", "bulk", "none"}
      BY DEF Options
    <2>4. CASE o.erase = "bulk"
      BY <2>2, <2>4, <1>2
    <2>5. CASE o.erase = "none"
      BY <2>2, <2>5
    <2>6. CASE o.erase = "blocks"
      <3>1. Asked(o) = UNION {Block(a) : a \in data}
        BY <1>4, <2>2, <2>6
      <3>2. QED
        BY <3>1, <2>1
    <2>7. QED
      BY <2>3, <2>4, <2>5, <2>6
  <1>5. QED
    BY <1>3, <1>4

\* The cells of a page program are bytes of the file.
LEMMA SentAsked ==
  ASSUME o \in Options, pos \in Nat, pos < Size, o.act = "write"
  PROVE  /\ Sent \subseteq Asked(o)
         /\ \A n \in 0 .. Len(Chunk(PageRest)) - 1 : InPage(o.off + pos, n) = o.off + pos + n
  <1> DEFINE data == o.off .. o.off + Len(o.file) - 1
  <1>1. /\ o.off \in Nat /\ Size \in Nat /\ Size = Len(o.file) /\ o.off + Size <= SIZE
        /\ SIZE \in Nat /\ PAGE \in Nat \ {0}
    BY FileFits DEF Size
  <1>2. /\ Len(Chunk(PageRest)) \in 1 .. Size - pos
        /\ Len(Chunk(PageRest)) <= PAGE - ((o.off + pos) % PAGE)
    BY PageSent
  <1>3. o.off + pos \in Nat
    BY <1>1
  <1>4. (o.off + pos) % PAGE \in 0 .. PAGE - 1
    BY <1>1, <1>3, Parts
  <1>5. \A n \in 0 .. Len(Chunk(PageRest)) - 1 : InPage(o.off + pos, n) = o.off + pos + n
    <2> SUFFICES ASSUME NEW n \in 0 .. Len(Chunk(PageRest)) - 1
                 PROVE  InPage(o.off + pos, n) = o.off + pos + n
      OBVIOUS
    <2>1. n \in Nat /\ n < PAGE - ((o.off + pos) % PAGE)
      BY <1>1, <1>2, <1>4
    <2>2. QED
      BY <1>3, <2>1, Within
  <1>6. Sent \subseteq data
    <2> SUFFICES ASSUME NEW n \in 0 .. Len(Chunk(PageRest)) - 1
                 PROVE  o.off + pos + n \in data
      BY DEF Sent
    <2> DEFINE x == o.off
               z == Len(o.file)
    <2>1. n \in Nat /\ n < Size - pos
      BY <1>1, <1>2
    <2>2. x \in Nat /\ z \in Nat /\ n < z - pos
      BY <1>1, <2>1
    <2> HIDE DEF x, z
    <2>3. x + pos + n \in x .. x + z - 1
      BY <2>1, <2>2
    <2>4. QED
      BY <2>3 DEF x, z
  <1>7. data \subseteq Asked(o)
    BY DataAsked
  <1>8. QED
    BY <1>5, <1>6, <1>7

\* Where the loops that write begin, or go on.
LEMMA ProceedsWriting ==
  ASSUME NEW i \in 1..7, NEW p, Proceed(i, p)
  PROVE  /\ phase' = "erase" => pos' = IF i = 2 THEN p ELSE Begin
         /\ phase' = "program" => pos' = IF i = 3 THEN p ELSE 0
         /\ step' = "enable"
  <1> DEFINE At(j) == IF j = i THEN p ELSE From(Phases[j])
  <1>1. PICK next \in i..7 :
          phase' = Phases[next] /\ pos' = At(next) /\ step' = "enable"
    BY DEF Proceed, Phases
  <1>2. next \in {1, 2, 3, 4, 5, 6, 7}
    BY <1>1
  <1>3. QED
    BY <1>1, <1>2 DEF Phases, From

\* A loop goes on at a chunk, or at a byte.
LEMMA GoesOnAligned ==
  ASSUME o \in Options, o' = o, Aligned, NEW i \in 1..7,
         \/ i = 1 /\ Proceed(1, 0)
         \/ Phases[i] = phase /\ Writing /\ AtWork /\ Proceed(i, Advanced)
  PROVE  Aligned' /\ step' = "enable"
  <1>1. CASE i # 2 /\ i # 3
    <2>1. /\ phase' = "erase" => pos' = Begin
          /\ phase' = "program" => pos' = 0
          /\ step' = "enable"
      BY <1>1, ProceedsWriting
    <2>2. Begin = First * BLOCK /\ First \in Nat
      BY Chunks
    <2>3. First' = First
      BY DEF First
    <2>4. phase' = "erase" => pos' = First * BLOCK /\ First >= First
      BY <2>1, <2>2
    <2>5. phase' = "erase" => \E k \in Nat : pos' = k * BLOCK /\ k >= First'
      BY <2>2, <2>3, <2>4
    <2>6. QED
      <3>1. phase' = "program" => pos' \in Nat
        BY <2>1
      <3>2. (phase = "erase" => \E k \in Nat : Turn(k))'
        BY <2>5 DEF Turn
      <3>3. QED
        BY <2>1, <3>1, <3>2 DEF Aligned
  <1>2. CASE i = 2
    <2>1. phase = "erase" /\ Proceed(2, pos + BLOCK)
      BY <1>2 DEF Phases, Writing, Advanced
    <2>2. /\ phase' = "erase" => pos' = pos + BLOCK
          /\ phase' = "program" => pos' = 0
          /\ step' = "enable"
      BY <2>1, ProceedsWriting
    <2>3. PICK k \in Nat : Turn(k)
      BY <2>1 DEF Aligned
    <2>4. BLOCK \in Nat \ {0} /\ First \in Nat /\ First' = First
      BY Chunks DEF First
    <2>5. k + 1 \in Nat /\ pos + BLOCK = (k + 1) * BLOCK /\ k + 1 >= First
      BY <2>3, <2>4 DEF Turn
    <2>6. \E n \in Nat : pos + BLOCK = n * BLOCK /\ n >= First
      BY <2>5, Zenon
    <2>7. (phase = "erase" => \E n \in Nat : Turn(n))'
      BY <2>2, <2>4, <2>6 DEF Turn
    <2>8. (phase = "program" => pos \in Nat)'
      BY <2>2
    <2>9. QED
      BY <2>2, <2>7, <2>8 DEF Aligned
  <1>3. CASE i = 3
    <2>1. phase = "program" /\ Proceed(3, pos + Len(Chunk(PageRest))) /\ AtWork
      BY <1>3 DEF Phases, Writing, Advanced
    <2>2. /\ phase' # "erase"
          /\ phase' = "program" => pos' = pos + Len(Chunk(PageRest))
          /\ step' = "enable"
      <3>1. phase' # "erase"
        BY <2>1 DEF Proceed, Phases
      <3>2. QED
        BY <2>1, <3>1, ProceedsWriting
    <2>3. pos \in Nat /\ pos < Size
      BY <2>1 DEF Aligned, AtWork, Work
    <2>4. Len(Chunk(PageRest)) \in 1 .. Size - pos /\ Size \in Nat
      BY <2>3, PageSent, FileFits
    <2>5. QED
      BY <2>2, <2>3, <2>4 DEF Aligned
  <1>4. QED
    BY <1>1, <1>2, <1>3

\* The chip is on cells that were asked for.
LEMMA CommandReaches ==
  ASSUME IInv, Reach, Command
  PROVE  DOMAIN op' \cap Addr \subseteq reach
  <1>1. /\ o \in Options /\ AtWork /\ Asked(o) \subseteq reach /\ DOMAIN op \cap Addr \subseteq reach
        /\ Aligned
    BY DEF IInv, Reach, Command, Writing, Running
  <1>2. ASSUME NEW f, WriteCells(f) \/ Write(f), DOMAIN f \cap Addr \subseteq reach
        PROVE  DOMAIN op' \cap Addr \subseteq reach
    BY <1>1, <1>2 DEF WriteCells, Write, flash
  <1>3. SR1 \notin Addr
    BY FlashAssumption DEF SR1, Addr
  <1>4. CASE \E lock : WriteStatus(lock)
    BY <1>4, <1>2, <1>3 DEF WriteStatus
  <1>5. CASE phase = "erase" /\ o.erase = "blocks" /\ Erase(Block(pos))
    <2>1. PICK k \in Nat : Turn(k)
      BY <1>1, <1>5 DEF Aligned
    <2>2. o.act \in {"write", "erase"} /\ pos < End
      BY <1>1, <1>5 DEF AtWork, Work
    <2>3. Block(pos) \subseteq reach
      BY <1>1, <1>5, <2>1, <2>2, TurnAsked
    <2>4. QED
      BY <1>2, <1>5, <2>3 DEF Erase
  <1>6. CASE phase = "erase" /\ o.erase = "bulk" /\ Erase(Addr)
    <2>1. Addr \subseteq reach
      BY <1>1, <1>6 DEF AtWork, Work, Asked
    <2>2. QED
      BY <1>2, <1>6, <2>1 DEF Erase
  <1>7. CASE phase = "program" /\ Program(o.off + pos, Chunk(PageRest))
    <2>1. pos \in Nat /\ pos < Size /\ o.act = "write"
      BY <1>1, <1>7 DEF AtWork, Work, Aligned
    <2>2. /\ Sent \subseteq reach
          /\ \A n \in 0 .. Len(Chunk(PageRest)) - 1 :
               InPage(o.off + pos, n) = o.off + pos + n
      BY <1>1, <2>1, SentAsked
    <2>3. {InPage(o.off + pos, n) : n \in 0 .. Len(Chunk(PageRest)) - 1} \subseteq reach
      BY <2>2 DEF Sent
    <2>4. QED
      BY <1>2, <1>7, <2>3 DEF Program
  <1>8. QED
    BY <1>4, <1>5, <1>6, <1>7 DEF Command

\* Main stays on cells that were asked for.
LEMMA MainReaches ==
  ASSUME IInv, Reach, Main
  PROVE  Reach' /\ mem' = mem
  <1>1. /\ o \in Options /\ o' = o /\ reach' = reach /\ mem' = mem /\ AtWork
        /\ Asked(o)' = Asked(o)
    BY CellsWritten
    DEF IInv, Main, Wake, ReleasePowerDown, Enable, WriteEnable, Command, WriteStatus, Erase,
        Program, Poll, Read, Verify, Down, Sleep, PowerDown, Stop, flash, Asked, Block
  <1>2. Running
    BY DEF Main, Wake, Enable, Command, Poll, Read, Verify, Down, Writing, Running
  <1>3. DOMAIN op' \cap Addr \subseteq reach
    <2>1. CASE Command
      BY <2>1, CommandReaches
    <2>2. CASE op' = op
      BY <2>2 DEF Reach
    <2>3. QED
      BY <2>1, <2>2
      DEF Main, Wake, ReleasePowerDown, Enable, WriteEnable, Poll, Read, Verify, Down, Sleep,
          PowerDown, Stop, flash
  <1>4. Aligned'
    <2>1. CASE UNCHANGED <<phase, pos>>
      BY <1>1, <2>1 DEF Reach, Aligned, Turn, First
    <2>2. CASE \E s : Stop(s)
      BY <2>2 DEF Stop, Aligned
    <2>3. CASE Wake
      BY <1>1, <2>3, GoesOnAligned DEF Reach, Wake
    <2>4. ASSUME Poll \/ Read \/ Verify, NEW p, GoOn(p), Writing => p = Advanced
          PROVE  Aligned'
      <3>1. PICK i \in 1..7 : Phases[i] = phase /\ Proceed(i, p) /\ (~Writing => i \in {5, 6})
                             /\ (Writing => i \in 1..4)
        <4>1. \E i \in 1..7 : Phases[i] = phase /\ Here = i /\ (~Writing => i \in {5, 6})
                              /\ (Writing => i \in 1..4)
          BY <2>4 DEF Poll, Read, Verify, Writing, Here, Phases
        <4>2. QED
          BY <4>1, <2>4 DEF GoOn
      <3>2. CASE Writing
        BY <1>1, <2>4, <3>1, <3>2, GoesOnAligned DEF Reach
      <3>3. CASE ~Writing
        <4>1. phase' \notin {"erase", "program"}
          BY <3>1, <3>3 DEF Proceed, Phases
        <4>2. QED
          BY <4>1 DEF Aligned
      <3>4. QED
        BY <3>2, <3>3
    <2>5. QED
      BY <2>1, <2>2, <2>3, <2>4
      DEF Main, Enable, Command, Poll, Read, Verify, Down, Writing
  <1>5. QED
    BY <1>1, <1>2, <1>3, <1>4 DEF Reach

\* The end of a write, or of the power, changes the cells it was on.
LEMMA HoldsElsewhere ==
  ASSUME Reach, NEW f, DOMAIN f = DOMAIN op, mem' = Holding(f)
  PROVE  /\ DOMAIN mem' = DOMAIN mem
         /\ \A a \in Addr : mem'[a] # mem[a] => a \in reach
  BY DEF Reach, Holding

LEMMA ReachStep ==
  ASSUME IInv, Reach, [Next]_vars
  PROVE  /\ Reach'
         /\ \A a \in Addr : mem'[a] # mem[a] => a \in reach
  <1>1. CASE Main
    BY <1>1, MainReaches
  <1>2. ASSUME NEW c \in Options, Start(c) PROVE Reach' /\ mem' = mem
    <2>1. /\ mem' = mem /\ op' = op /\ phase' = "wake" /\ Asked(o)' = Asked(c)
          /\ reach' = Asked(c) \cup (IF Busy THEN reach ELSE {})
      BY <1>2 DEF Start, flash, Asked, Block
    <2>2. ~Busy => DOMAIN op = {}
      BY DEF Busy, None
    <2>3. QED
      BY <2>1, <2>2 DEF Reach, Aligned
  <1>3. CASE ChipStep
    <2>1. mem' = Holding(op) /\ op' = None /\ UNCHANGED prog
      BY <1>3 DEF ChipStep, Finish
    <2>2. /\ DOMAIN mem' = DOMAIN mem
          /\ \A a \in Addr : mem'[a] # mem[a] => a \in reach
      BY <2>1, HoldsElsewhere
    <2>3. DOMAIN op' = {} /\ Asked(o)' = Asked(o)
      BY <2>1 DEF None, Asked, Block, prog
    <2>4. QED
      BY <2>1, <2>2, <2>3 DEF Reach, Aligned, Turn, First, Running, prog
  <1>4. CASE Unplug
    <2>1. PICK f \in [DOMAIN op -> Bit] : mem' = Holding(f)
      BY <1>4 DEF Unplug, PowerLoss
    <2>2. /\ DOMAIN mem' = DOMAIN mem
          /\ \A a \in Addr : mem'[a] # mem[a] => a \in reach
      BY <2>1, HoldsElsewhere
    <2>3. DOMAIN op' = {} /\ phase' = "idle" /\ reach' = reach
      BY <1>4 DEF None, Unplug, PowerLoss
    <2>4. QED
      BY <2>2, <2>3 DEF Reach, Aligned, Running
  <1>5. CASE Abort
    <2>1. /\ o' = o /\ mem' = mem /\ reach' = reach /\ phase' = "idle"
          /\ o \in Options /\ AtWork
      BY <1>5, CellsWritten DEF Abort, Program, flash, IInv
    <2>2. DOMAIN op' \cap Addr \subseteq reach
      <3>1. CASE op' = op
        BY <3>1 DEF Reach
      <3>2. CASE op' # op
        <4>1. phase = "program" /\ pos \in Nat /\ pos < Size /\ o.act = "write"
          BY <1>5, <3>2, <2>1 DEF Abort, flash, AtWork, Work, Reach, Aligned
        <4>2. PICK n \in 1 .. Len(Chunk(PageRest)) - 1 :
                Program(o.off + pos, SubSeq(Chunk(PageRest), 1, n))
          BY <1>5, <3>2 DEF Abort, flash
        <4>3. /\ Chunk(PageRest) \in Seq(Bit) /\ Len(Chunk(PageRest)) \in Nat
          BY <4>1, <2>1, PageSent
        <4>4. Len(SubSeq(Chunk(PageRest), 1, n)) = n /\ n < Len(Chunk(PageRest))
          BY <4>3, SubSeqProperties
        <4>5. /\ Sent \subseteq reach
              /\ \A k \in 0 .. Len(Chunk(PageRest)) - 1 :
                   InPage(o.off + pos, k) = o.off + pos + k
          BY <2>1, <4>1, SentAsked DEF Reach, Running
        <4>6. {InPage(o.off + pos, k) : k \in 0 .. n - 1} \subseteq reach
          BY <4>3, <4>4, <4>5 DEF Sent
        <4>7. DOMAIN op' \subseteq {InPage(o.off + pos, k) : k \in 0 .. n - 1}
          BY <3>2, <4>2, <4>4 DEF Program, WriteCells, Write, flash
        <4>8. QED
          BY <4>6, <4>7
      <3>3. QED
        BY <3>1, <3>2
    <2>3. QED
      BY <2>1, <2>2 DEF Reach, Aligned, Running
  <1>6. CASE UNCHANGED vars
    <2>1. Asked(o)' = Asked(o)
      BY <1>6 DEF vars, prog, Asked, Block
    <2>2. QED
      BY <1>6, <2>1 DEF vars, prog, flash, Reach, Aligned, Turn, First, Running
  <1>7. QED
    BY <1>1, <1>2, <1>3, <1>4, <1>5, <1>6 DEF Next

LEMMA InitReaches == Init => Reach
  <1> SUFFICES ASSUME Init PROVE Reach
    OBVIOUS
  <1>1. DOMAIN mem = Addr \cup {SR1} /\ DOMAIN op = {} /\ phase = "idle"
    BY DEF Init, FlashInit, None
  <1>2. QED
    BY <1>1 DEF Reach, Aligned, Running

\* The cells outside the chunks asked for keep what they hold
\* (iceprog.c:970-1015).
THEOREM OthersAreKept == Spec => OthersKept
  <1>1. Init => Reach
    BY InitReaches
  <1> DEFINE Kept == \A a \in Addr : mem'[a] # mem[a] => a \in reach
  <1>2. IInv /\ Reach /\ [Next]_vars => Reach' /\ [Kept]_vars
    BY ReachStep
  <1>3. Spec => [][Kept]_vars
    <2> HIDE DEF Kept
    <2>1. QED
      BY <1>1, <1>2, ProgrammerInvariant, PTL DEF Spec
  <1>4. QED
    BY <1>3 DEF OthersKept

-----------------------------------------------------------------------------
\* A run that writes or erases, on a chip that lets it, with no fault so far.
Ready ==
  /\ o.act \in {"write", "erase"} /\ o.erase # "none"
  /\ faults = 0 /\ mem[SR1] = 0

Blank(cells) == \A a \in cells : mem[a] = 1

\* The cells the erase loop has passed, those of its present command, and
\* those of the bytes of the file from n on.
Passed(n) == {a \in Addr : Begin <= a /\ a < n}
Target == IF o.erase = "bulk" THEN Addr ELSE Block(pos)
Rest(n) == {o.off + i : i \in n .. Size - 1}

\* Every command finds the latch set.
Latched == faults = 0 /\ Writing /\ step = "command" => wel

\* No erase and no program changes the protection.
Protects ==
  faults = 0 /\ phase \in {"erase", "program"} => SR1 \notin DOMAIN op

Erasing ==
  Ready /\ phase = "erase" =>
    /\ o.erase = "blocks" => Blank(Passed(pos))
    /\ step = "wait" /\ Busy => op = [a \in Target |-> 1]
    /\ step = "wait" /\ ~Busy => Blank(Target)

Programming ==
  Ready /\ phase = "program" =>
    LET n == Len(Chunk(PageRest))
    IN  /\ StoredTo(pos)
        /\ step # "wait" \/ Busy => Blank(Rest(pos))
        /\ step = "wait" /\ Busy => op = [b \in Sent |-> o.file[b - o.off + 1]]
        /\ step = "wait" /\ ~Busy => StoredTo(pos + n) /\ Blank(Rest(pos + n))

Landed ==
  Ready /\ (phase \in {"verify", "down"} \/ Ended(0)) =>
    /\ o.act = "write" => StoredTo(Size)
    /\ o.act = "erase" => Blank(Asked(o))

Landing == Latched /\ Protects /\ Erasing /\ Programming /\ Landed

-----------------------------------------------------------------------------
LEMMA Inside ==
  ASSUME NEW b \in Nat \ {0}, NEW off \in Nat, NEW size \in Nat, NEW d \in Nat, NEW a \in Nat,
         off <= d, d < off + size \/ (d = off /\ off % b # 0), a \div b = d \div b
  PROVE  (off \div b) * b <= a /\ a < ((off + size + b - 1) \div b) * b
  <1> DEFINE first == off \div b
             rest == off % b
             q == d \div b
             up == off + size + b - 1
             last == up \div b
  <1>1. first \in Nat /\ rest \in 0 .. b - 1 /\ off = first * b + rest
    BY Parts
  <1>2. q \in Nat /\ d >= q * b /\ d < q * b + b
    BY Parts
  <1>3. a >= q * b /\ a < q * b + b
    <2>1. a \div b \in Nat /\ a >= (a \div b) * b /\ a < (a \div b) * b + b
      BY Parts
    <2>2. QED
      BY <2>1
  <1>4. up \in Nat
    OBVIOUS
  <1>5. up = off + size + b - 1 /\ (d < off + size \/ (d = off /\ rest # 0))
    OBVIOUS
  <1> HIDE DEF up
  <1>6. last \in Nat /\ up >= last * b /\ up < last * b + b
    BY <1>4, Parts
  <1> HIDE DEF first, rest, q, last
  <1>7. q < first => q * b + b <= first * b
    BY <1>1, <1>2
  <1>8. first <= q
    BY <1>1, <1>2, <1>7
  <1>9. first * b <= q * b
    BY <1>1, <1>2, <1>8
  <1>10. q < last
    <2>1. SUFFICES ASSUME last <= q PROVE FALSE
      BY <1>2, <1>6
    <2>2. last * b <= q * b
      BY <1>2, <1>6, <2>1
    <2>3. last <= first => last * b <= first * b
      BY <1>1, <1>6
    <2>4. d = off => q = first
      <3>1. first < q => first * b + b <= q * b
        BY <1>1, <1>2
      <3>2. QED
        BY <3>1, <1>1, <1>2, <1>8
    <2>5. QED
      BY <2>1, <2>2, <2>3, <2>4, <1>1, <1>2, <1>5, <1>6
  <1>11. q * b + b <= last * b
    BY <1>2, <1>6, <1>10
  <1>12. QED
    BY <1>1, <1>2, <1>3, <1>6, <1>9, <1>11 DEF first, last, up

\* The chunks asked for lie between the ends of the erase loop.
LEMMA AskedInside ==
  ASSUME o \in Options, o.act \in {"write", "erase"}, o.erase = "blocks"
  PROVE  Asked(o) \subseteq {a \in Addr : Begin <= a /\ a < End}
  <1> DEFINE data == o.off .. o.off + Len(o.file) - 1
  <1>1. BLOCK \in Nat \ {0} /\ o.off \in Nat /\ Size \in Nat /\ Size = Len(o.file)
    BY Chunks, FileFits DEF Size
  <1>2. Asked(o) = IF data = {} /\ o.off % BLOCK # 0 THEN Block(o.off)
                   ELSE UNION {Block(a) : a \in data}
    BY DEF Asked
  <1>3. SUFFICES ASSUME NEW a \in Asked(o)
                 PROVE  a \in Addr /\ Begin <= a /\ a < End
    OBVIOUS
  <1>4. \E d \in Nat : /\ a \in Block(d) /\ o.off <= d
                       /\ d < o.off + Size \/ (d = o.off /\ o.off % BLOCK # 0)
    <2>1. CASE data = {} /\ o.off % BLOCK # 0
      BY <1>1, <1>2, <2>1
    <2>2. CASE ~(data = {} /\ o.off % BLOCK # 0)
      <3>1. PICK d \in data : a \in Block(d)
        BY <1>2, <2>2
      <3>2. QED
        BY <1>1, <3>1
    <2>3. QED
      BY <2>1, <2>2
  <1>5. PICK d \in Nat : /\ a \in Block(d) /\ o.off <= d
                         /\ d < o.off + Size \/ (d = o.off /\ o.off % BLOCK # 0)
    BY <1>4
  <1>6. a \in Addr /\ a \div BLOCK = d \div BLOCK
    BY <1>5 DEF Block
  <1>7. a \in Nat
    BY <1>6, FlashAssumption DEF Addr
  <1>8. (o.off \div BLOCK) * BLOCK <= a /\ a < ((o.off + Size + BLOCK - 1) \div BLOCK) * BLOCK
    BY <1>1, <1>5, <1>6, <1>7, Inside
  <1>9. QED
    BY <1>6, <1>8 DEF Begin, End

\* One command of the erase loop clears all up to its next chunk.
LEMMA TurnPasses ==
  ASSUME o \in Options, NEW k \in Nat, Turn(k), NEW a \in Passed(pos + BLOCK)
  PROVE  a \in Passed(pos) \/ a \in Block(pos)
  <1>1. BLOCK \in Nat \ {0} /\ pos = k * BLOCK /\ pos \in Nat /\ a \in Addr /\ a \in Nat
    BY Chunks, FlashAssumption DEF Turn, Passed, Addr
  <1>2. CASE a < pos
    BY <1>2 DEF Passed
  <1>3. CASE ~(a < pos)
    <2>1. a - pos \in 0 .. BLOCK - 1 /\ a = k * BLOCK + (a - pos)
      BY <1>1, <1>3 DEF Passed
    <2>2. a \div BLOCK = k
      BY <1>1, <2>1, OnlyParts
    <2>3. 0 \in 0 .. BLOCK - 1 /\ pos = k * BLOCK + 0
      BY <1>1
    <2>4. pos \div BLOCK = k
      BY <1>1, <2>3, OnlyParts
    <2>5. QED
      BY <1>1, <2>2, <2>4 DEF Block
  <1>4. QED
    BY <1>2, <1>3

\* Without work for the erase loop nothing was asked for.
LEMMA NothingAsked ==
  ASSUME o \in Options, o.act \in {"write", "erase"}, o.erase # "none", ~Work("erase", Begin)
  PROVE  Size = 0 /\ Asked(o) = {}
  <1>1. o.erase = "blocks" /\ ~(Begin < End)
    BY DEF Work, Options
  <1>2. Begin \in Int /\ End \in Int
    BY Chunks
  <1>3. Asked(o) \subseteq {a \in Addr : Begin <= a /\ a < End}
    BY <1>1, AskedInside
  <1>4. \A a \in Addr : a \in Int
    BY FlashAssumption DEF Addr
  <1>5. Asked(o) = {}
    BY <1>1, <1>2, <1>3, <1>4
  <1>6. o.off .. o.off + Len(o.file) - 1 = {}
    BY <1>5, DataAsked
  <1>7. QED
    BY <1>5, <1>6, FileFits DEF Size

\* Where main has been when it goes on.
LEMMA ProceedsPast ==
  ASSUME o \in Options, NEW i \in 1..7, NEW p, Proceed(i, p)
  PROVE  /\ phase' \in {Phases[j] : j \in i..7}
         /\ i <= 2 /\ phase' \in {"program", "verify", "down"} =>
              ~Work("erase", IF i = 2 THEN p ELSE Begin)
         /\ i < 3 /\ phase' \in {"verify", "down"} => ~Work("program", 0)
         /\ i = 3 /\ phase' \in {"verify", "down"} => ~Work("program", p)
         /\ phase' = "erase" => Work("erase", pos')
  <1> DEFINE At(j) == IF j = i THEN p ELSE From(Phases[j])
  <1>1. PICK next \in i..7 :
          /\ Work(Phases[next], At(next))
          /\ \A j \in i .. next - 1 : ~Work(Phases[j], At(j))
          /\ phase' = Phases[next] /\ pos' = At(next)
    BY DEF Proceed, Phases
  <1>2. /\ Phases[1] = "unlock" /\ Phases[2] = "erase" /\ Phases[3] = "program"
        /\ Phases[4] = "quad" /\ Phases[5] = "read" /\ Phases[6] = "verify"
        /\ Phases[7] = "down"
    BY DEF Phases
  <1>3. /\ At(2) = (IF i = 2 THEN p ELSE Begin)
        /\ At(3) = (IF i = 3 THEN p ELSE 0)
    BY <1>2 DEF From
  <1>4. next \in {1, 2, 3, 4, 5, 6, 7} /\ i \in {1, 2, 3, 4, 5, 6, 7} /\ i <= next
    BY <1>1
  <1>5. /\ i <= 2 /\ next > 2 => ~Work("erase", At(2))
        /\ i <= 3 /\ next > 3 => ~Work("program", At(3))
    <2>1. i <= 2 /\ next > 2 => 2 \in i .. next - 1
      BY <1>4
    <2>2. i <= 3 /\ next > 3 => 3 \in i .. next - 1
      BY <1>4
    <2>3. QED
      BY <1>1, <1>2, <2>1, <2>2
  <1>6. phase' = "erase" => next = 2
    BY <1>1, <1>2, <1>4
  <1>7. phase' \in {"program", "verify", "down"} => next > 2
    BY <1>1, <1>2, <1>4
  <1>8. phase' \in {"verify", "down"} => next > 3
    BY <1>1, <1>2, <1>4
  <1> HIDE DEF At
  <1>9. QED
    BY <1>1, <1>2, <1>3, <1>4, <1>5, <1>6, <1>7, <1>8

\* When the erase loop ends, all that was asked for is blank.
LEMMA AllErased ==
  ASSUME o \in Options, Aligned, Erasing, Ready, phase = "erase", step = "wait", ~Busy,
         ~Work("erase", pos + BLOCK)
  PROVE  Blank(Asked(o))
  <1>1. Blank(Target) /\ (o.erase = "blocks" => Blank(Passed(pos)))
    BY DEF Erasing
  <1>2. CASE o.erase = "bulk"
    <2>1. Asked(o) = Addr
      BY <1>2 DEF Asked, Ready
    <2>2. QED
      BY <1>1, <1>2, <2>1 DEF Target
  <1>3. CASE o.erase = "blocks"
    <2>1. PICK k \in Nat : Turn(k)
      BY DEF Aligned
    <2>2. ~(pos + BLOCK < End)
      BY <1>3 DEF Work, Ready
    <2>3. BLOCK \in Nat \ {0} /\ pos \in Nat /\ End \in Int
      BY <2>1, Chunks DEF Turn
    <2>4. \A a \in Addr : a \in Int
      BY FlashAssumption DEF Addr
    <2>5. Asked(o) \subseteq Passed(pos + BLOCK)
      <3>1. Asked(o) \subseteq {a \in Addr : Begin <= a /\ a < End}
        BY <1>3, AskedInside DEF Ready
      <3>2. QED
        BY <3>1, <2>2, <2>3, <2>4 DEF Passed
    <2>6. \A a \in Passed(pos + BLOCK) : a \in Passed(pos) \/ a \in Block(pos)
      BY <2>1, TurnPasses
    <2>7. QED
      BY <1>1, <1>3, <2>5, <2>6 DEF Blank, Target
  <1>4. QED
    BY <1>2, <1>3 DEF Ready, Options

\* The bytes of the file are blank when its chunks are.
LEMMA RestBlank ==
  ASSUME o \in Options, o.act = "write", Blank(Asked(o))
  PROVE  Blank(Rest(0))
  <1>1. o.off \in Nat /\ Size \in Nat /\ Size = Len(o.file)
    BY FileFits DEF Size
  <1>2. Rest(0) \subseteq o.off .. o.off + Len(o.file) - 1
    BY <1>1 DEF Rest
  <1>3. QED
    BY <1>2, DataAsked DEF Blank

LEMMA RestShrinks ==
  ASSUME o \in Options, NEW m \in Nat, NEW n \in Nat, m <= n, Blank(Rest(m))
  PROVE  Blank(Rest(n))
  <1>1. Size \in Nat
    BY FileFits
  <1>2. \A i \in n .. Size - 1 : i \in m .. Size - 1
    BY <1>1
  <1>3. QED
    BY <1>2 DEF Rest, Blank

\* When main goes on, what it leaves behind has landed.
LEMMA GoesOnLanding ==
  ASSUME IInv, Aligned, Landing, NEW i \in 1..7, NEW p, Proceed(i, p),
         o' = o, faults' = faults, mem' = mem, op' = op, faults = 0 => ~Busy,
         \/ i = 1
         \/ i \in 2..4 /\ Phases[i] = phase /\ step = "wait" /\ p = Advanced
         \/ i \in 5..6 /\ Phases[i] = phase
  PROVE  Landing'
  <1>1. /\ o \in Options /\ AtWork /\ step' = "enable" /\ Size \in Nat
        /\ phase' \in {Phases[j] : j \in i..7}
    BY ProceedsWriting, ProceedsPast, FileFits DEF IInv
  <1>2. i \in {1, 2, 3, 4, 5, 6, 7}
    OBVIOUS
  <1>3. /\ Phases[1] = "unlock" /\ Phases[2] = "erase" /\ Phases[3] = "program"
        /\ Phases[4] = "quad" /\ Phases[5] = "read" /\ Phases[6] = "verify"
        /\ Phases[7] = "down"
    BY DEF Phases
  <1>4. /\ phase' \in {"unlock", "erase", "program", "quad", "read", "verify", "down"}
        /\ i > 2 => phase' # "erase"
        /\ i > 3 => phase' # "program"
    BY <1>1, <1>2, <1>3
  <1>5. Latched'
    BY <1>1 DEF Latched
  <1>6. Protects'
    <2>1. faults = 0 => DOMAIN op = {}
      BY DEF Busy, None
    <2>2. QED
      BY <2>1 DEF Protects, SR1
  <1>7. (Ready' <=> Ready) /\ Asked(o)' = Asked(o) /\ ~Ended(0)'
    BY <1>4 DEF Ready, SR1, Asked, Block, Ended, Running
  <1>8. SUFFICES ASSUME Ready PROVE Erasing' /\ Programming' /\ Landed'
    BY <1>5, <1>6, <1>7 DEF Landing, Erasing, Programming, Landed
  <1>9. ~Busy /\ o.act \in {"write", "erase"} /\ o.erase # "none"
    BY <1>8 DEF Ready
  <1>10. CASE i > 3
    <2>1. Landed
      BY DEF Landing
    <2>2. i = 6 \/ i = 7
      BY <1>1, <1>2, <1>3, <1>9, <1>10 DEF AtWork, Work
    <2>3. phase = "verify"
      BY <1>3, <2>2
    <2>4. /\ o.act = "write" => StoredTo(Size)
          /\ o.act = "erase" => Blank(Asked(o))
      BY <1>8, <2>1, <2>3 DEF Landed
    <2>5. Landed'
      BY <1>7, <2>4 DEF Landed, StoredTo, Blank, Size
    <2>6. QED
      BY <1>4, <1>10, <2>5 DEF Erasing, Programming
  <1>11. CASE i = 3
    <2>1. /\ phase = "program" /\ step = "wait" /\ p = pos + Len(Chunk(PageRest))
      BY <1>3, <1>11 DEF Advanced
    <2>2. /\ StoredTo(p) /\ Blank(Rest(p)) /\ o.act = "write" /\ pos < Size /\ pos \in Nat
      BY <1>1, <1>8, <1>9, <2>1 DEF Landing, Programming, AtWork, Work, Aligned
    <2>3. Len(Chunk(PageRest)) \in 1 .. Size - pos
      BY <1>1, <2>2, PageSent
    <2>4. p \in Nat /\ p <= Size
      BY <1>1, <2>1, <2>2, <2>3
    <2>5. Programming'
      <3>1. SUFFICES ASSUME phase' = "program"
                     PROVE  (StoredTo(pos) /\ Blank(Rest(pos)))'
        BY <1>1 DEF Programming
      <3>2. pos' = p
        BY <1>11, <3>1, ProceedsWriting
      <3>3. QED
        BY <2>2, <3>2 DEF StoredTo, Blank, Rest, Size
    <2>6. Landed'
      <3>1. SUFFICES ASSUME phase' \in {"verify", "down"}
                     PROVE  StoredTo(Size)'
        BY <1>7, <2>2 DEF Landed
      <3>2. ~Work("program", p)
        BY <1>1, <1>11, <3>1, ProceedsPast
      <3>3. p = Size
        BY <2>2, <2>4, <3>2, <1>1 DEF Work
      <3>4. QED
        BY <2>2, <3>3 DEF StoredTo, Size
    <2>7. QED
      BY <1>4, <1>11, <2>5, <2>6 DEF Erasing
  <1>12. CASE i = 2
    <2>1. phase = "erase" /\ step = "wait" /\ p = pos + BLOCK
      BY <1>3, <1>12 DEF Advanced
    <2>2. Erasing'
      <3>1. SUFFICES ASSUME phase' = "erase", o.erase = "blocks"
                     PROVE  Blank(Passed(pos))'
        BY <1>1 DEF Erasing
      <3>2. pos' = pos + BLOCK
        BY <1>12, <2>1, <3>1, ProceedsWriting
      <3>3. PICK k \in Nat : Turn(k)
        BY <2>1 DEF Aligned
      <3>4. Blank(Passed(pos)) /\ Blank(Block(pos))
        BY <1>8, <1>9, <2>1, <3>1 DEF Landing, Erasing, Target
      <3>5. Blank(Passed(pos + BLOCK))
        BY <1>1, <3>3, <3>4, TurnPasses DEF Blank
      <3>6. QED
        BY <3>2, <3>5 DEF Blank, Passed, Begin
    <2>3. ASSUME phase' \in {"program", "verify", "down"}
          PROVE  Blank(Asked(o)) /\ (o.act = "write" => Blank(Rest(0)))
      <3>1. ~Work("erase", pos + BLOCK)
        BY <1>1, <1>12, <2>1, <2>3, ProceedsPast
      <3>2. Blank(Asked(o))
        BY <1>1, <1>8, <1>9, <2>1, <3>1, AllErased DEF Landing
      <3>3. QED
        BY <1>1, <3>2, RestBlank
    <2>4. Programming'
      <3>1. SUFFICES ASSUME phase' = "program"
                     PROVE  (StoredTo(pos) /\ Blank(Rest(pos)))'
        BY <1>1 DEF Programming
      <3>2. pos' = 0 /\ Work(phase, pos)'
        BY <1>1, <1>12, <3>1, ProceedsWriting, Proceeds
      <3>3. o.act = "write"
        BY <3>1, <3>2 DEF Work
      <3>4. QED
        BY <2>3, <3>1, <3>2, <3>3 DEF StoredTo, Blank, Rest, Size
    <2>5. Landed'
      <3>1. SUFFICES ASSUME phase' \in {"verify", "down"}
                     PROVE  /\ o.act = "write" => StoredTo(Size)'
                            /\ o.act = "erase" => Blank(Asked(o))'
        BY <1>7 DEF Landed
      <3>2. o.act = "write" => Size = 0
        BY <1>1, <1>12, <3>1, ProceedsPast DEF Work
      <3>3. QED
        BY <1>7, <2>3, <3>1, <3>2 DEF StoredTo, Size, Blank
    <2>6. QED
      BY <2>2, <2>4, <2>5
  <1>13. CASE i = 1
    <2>1. Erasing'
      <3>1. SUFFICES ASSUME phase' = "erase"
                     PROVE  Blank(Passed(pos))'
        BY <1>1 DEF Erasing
      <3>2. pos' = Begin /\ Begin \in Int
        BY <1>1, <1>13, <3>1, ProceedsWriting, Chunks
      <3>3. \A a \in Addr : a \in Int
        BY FlashAssumption DEF Addr
      <3>4. Passed(Begin) = {}
        BY <3>2, <3>3 DEF Passed
      <3>5. QED
        BY <3>2, <3>4 DEF Blank, Passed, Begin
    <2>2. phase' \in {"program", "verify", "down"} => Size = 0 /\ Asked(o) = {}
      BY <1>1, <1>9, <1>13, ProceedsPast, NothingAsked
    <2>3. phase' # "program"
      <3>1. SUFFICES ASSUME phase' = "program" PROVE FALSE
        OBVIOUS
      <3>2. pos' = 0 /\ Work(phase, pos)'
        BY <1>1, <1>13, <3>1, ProceedsWriting, Proceeds
      <3>3. QED
        BY <2>2, <3>1, <3>2 DEF Work, Size
    <2>4. Programming'
      BY <2>3 DEF Programming
    <2>5. Landed'
      BY <1>7, <2>2 DEF Landed, StoredTo, Size, Blank
    <2>6. QED
      BY <2>1, <2>4, <2>5
  <1>14. QED
    BY <1>2, <1>10, <1>11, <1>12, <1>13

\* What no fault leaves to say: a chip that is idle outside flash_wait.
LEMMA Idle ==
  ASSUME IInv, faults = 0, ~(Writing /\ step = "wait")
  PROVE  ~Busy /\ DOMAIN op = {}
  BY DEF IInv, Quiet, Busy, None

\* The latch is set before the command.
LEMMA EnableLands == ASSUME IInv, Landing, Enable PROVE Landing'
  <1>1. /\ UNCHANGED <<mem, op, pd, o, phase, pos, count, out, exit, runs, faults, reach>>
        /\ step = "enable" /\ step' = "command" /\ wel' = (wel \/ ~Deaf)
    BY DEF Enable, WriteEnable
  <1>2. faults = 0 => wel'
    <2>1. faults = 0 => ~Busy
      BY <1>1, Idle
    <2>2. ~pd
      BY DEF IInv, Awake, Enable, Writing, Running
    <2>3. QED
      BY <1>1, <2>1, <2>2 DEF Deaf
  <1>3. Latched' /\ Protects'
    BY <1>1, <1>2 DEF Landing, Latched, Protects, SR1
  <1>4. Ready' <=> Ready
    BY <1>1 DEF Ready, SR1
  <1>5. Erasing'
    BY <1>1, <1>4 DEF Landing, Erasing, Blank, Passed, Begin
  <1>6. Programming'
    BY <1>1, <1>4 DEF Landing, Programming, Blank, Rest, StoredTo, Size
  <1>7. Landed'
    BY <1>1, <1>4
    DEF Landing, Landed, StoredTo, Size, Blank, Asked, Block, Ended, Running
  <1>8. QED
    BY <1>3, <1>5, <1>6, <1>7 DEF Landing

\* A chip that listens and has been enabled takes a command up.
LEMMA CommandLands == ASSUME IInv, Reach, Landing, Command PROVE Landing'
  <1>1. /\ mem' = mem /\ UNCHANGED <<o, phase, pos, count, out, exit, runs, faults, reach>>
        /\ step = "command" /\ step' = "wait" /\ Writing /\ o \in Options /\ AtWork /\ Aligned
    BY CellsWritten DEF Command, WriteStatus, Erase, Program, IInv, Reach
  <1>2. ASSUME faults = 0 PROVE wel /\ ~Deaf /\ ~Busy /\ DOMAIN op = {}
    BY <1>1, <1>2, Idle DEF Landing, Latched, IInv, Awake, Writing, Running, Deaf
  <1>3. Latched'
    BY <1>1 DEF Latched
  <1>4. Protects'
    <2>1. SUFFICES ASSUME faults = 0, phase \in {"erase", "program"} PROVE SR1 \notin DOMAIN op'
      BY <1>1 DEF Protects, SR1
    <2>2. SR1 \notin Addr
      BY FlashAssumption DEF SR1, Addr
    <2>3. DOMAIN op' \subseteq Addr
      <3>1. ASSUME NEW f, WriteCells(f), DOMAIN f \subseteq Addr PROVE DOMAIN op' \subseteq Addr
        BY <3>1, <2>1, <1>2 DEF WriteCells, Write, flash
      <3>2. CASE phase = "erase"
        <4>1. Block(pos) \subseteq Addr
          BY DEF Block
        <4>2. QED
          BY <3>1, <3>2, <4>1 DEF Command, Erase
      <3>3. CASE phase = "program"
        <4>1. pos \in Nat /\ pos < Size /\ o.act = "write"
          BY <1>1, <3>3 DEF AtWork, Work, Aligned
        <4>2. /\ Len(Chunk(PageRest)) \in 1 .. Size - pos
              /\ \A n \in 0 .. Len(Chunk(PageRest)) - 1 :
                   InPage(o.off + pos, n) = o.off + pos + n
          BY <1>1, <4>1, PageSent, SentAsked
        <4>3. \A n \in 0 .. Len(Chunk(PageRest)) - 1 : InPage(o.off + pos, n) \in Addr
          <5>1. SUFFICES ASSUME NEW n \in 0 .. Len(Chunk(PageRest)) - 1
                         PROVE  o.off + pos + n \in Addr
            BY <4>2
          <5>2. o.off \in Nat /\ Size \in Nat /\ o.off + Size <= SIZE /\ SIZE \in Nat
            BY <1>1, FileFits
          <5>3. n \in Nat /\ n < Size - pos
            BY <4>1, <4>2, <5>2
          <5>4. QED
            BY <4>1, <5>2, <5>3 DEF Addr
        <4>4. Program(o.off + pos, Chunk(PageRest))
          BY <3>3 DEF Command
        <4>5. QED
          BY <3>1, <4>3, <4>4 DEF Program
      <3>4. QED
        BY <2>1, <3>2, <3>3
    <2>4. QED
      BY <2>2, <2>3
  <1>5. Ready' <=> Ready
    BY <1>1 DEF Ready, SR1
  <1>6. Erasing'
    <2>1. SUFFICES ASSUME Ready, phase = "erase"
                   PROVE  /\ o.erase = "blocks" => Blank(Passed(pos))
                          /\ op' = [a \in Target |-> 1]
      <3>1. Target' = Target /\ (Passed(pos))' = Passed(pos)
        BY <1>1 DEF Target, Block, Passed, Begin
      <3>2. ~Busy' /\ op' = [a \in Target |-> 1] => Target = {}
        BY DEF Busy, None
      <3>3. QED
        BY <1>1, <1>5, <3>1, <3>2 DEF Erasing, Blank
    <2>2. Erase(Target) /\ wel /\ ~Deaf
      BY <1>2, <2>1 DEF Command, Target, Ready
    <2>3. op' = [a \in Target |-> 1]
      BY <2>1, <2>2 DEF Erase, WriteCells, Write, Ready
    <2>4. QED
      BY <1>1, <2>1, <2>3 DEF Landing, Erasing
  <1>7. Programming'
    <2>1. ASSUME Ready, phase = "program"
          PROVE  /\ StoredTo(pos) /\ Blank(Rest(pos))
                 /\ op' = [b \in Sent |-> o.file[b - o.off + 1]] /\ Busy'
      <3>1. pos \in Nat /\ pos < Size /\ o.act = "write" /\ wel /\ ~Deaf
            /\ Program(o.off + pos, Chunk(PageRest)) /\ mem[SR1] = 0
        BY <1>1, <1>2, <2>1 DEF AtWork, Work, Aligned, Command, Ready
      <3>2. StoredTo(pos) /\ Blank(Rest(pos))
        BY <1>1, <2>1 DEF Landing, Programming
      <3>3. /\ Len(Chunk(PageRest)) \in 1 .. Size - pos
            /\ \A i \in 1 .. Len(Chunk(PageRest)) : Chunk(PageRest)[i] = o.file[pos + i]
            /\ \A n \in 0 .. Len(Chunk(PageRest)) - 1 :
                 InPage(o.off + pos, n) = o.off + pos + n
        BY <1>1, <3>1, PageSent, SentAsked
      <3>4. o.off \in Nat /\ Size \in Nat /\ o.file \in Seq(Bit) /\ Size = Len(o.file)
        BY <1>1, FileFits DEF Size
      <3> DEFINE N == 0 .. Len(Chunk(PageRest)) - 1
                 at == o.off + pos
      <3>5. {InPage(at, n) : n \in N} = Sent
        BY <3>3 DEF Sent
      <3>6. op' = [b \in Sent |->
                     mem[b] * Chunk(PageRest)[(CHOOSE n \in N : InPage(at, n) = b) + 1]]
        BY <3>1, <3>5 DEF Program, WriteCells, Write
      <3>7. ASSUME NEW b \in Sent
            PROVE  mem[b] * Chunk(PageRest)[(CHOOSE n \in N : InPage(at, n) = b) + 1]
                     = o.file[b - o.off + 1]
        <4>1. PICK m \in N : b = at + m
          BY DEF Sent
        <4>2. m \in Nat /\ m + 1 \in 1 .. Len(Chunk(PageRest)) /\ at \in Nat
          BY <3>1, <3>3, <3>4, <4>1
        <4>3. InPage(at, m) = b /\ \A n \in N : InPage(at, n) = b => n = m
          BY <3>3, <4>1, <4>2
        <4>4. (CHOOSE n \in N : InPage(at, n) = b) = m
          BY <4>3
        <4>5. b - o.off + 1 = pos + (m + 1) /\ b = o.off + (pos + m)
          BY <3>1, <3>4, <4>1, <4>2
        <4>6. Chunk(PageRest)[m + 1] = o.file[b - o.off + 1]
          BY <3>3, <4>2, <4>5
        <4>7. pos + m \in pos .. Size - 1 /\ pos + (m + 1) \in 1 .. Len(o.file)
          BY <3>1, <3>3, <3>4, <4>2
        <4>8. mem[b] = 1
          BY <3>2, <4>5, <4>7 DEF Blank, Rest
        <4>9. o.file[b - o.off + 1] \in Bit
          BY <3>4, <4>5, <4>7
        <4>10. 1 * o.file[b - o.off + 1] = o.file[b - o.off + 1]
          BY <4>9 DEF Bit
        <4>11. Chunk(PageRest)[(CHOOSE n \in N : InPage(at, n) = b) + 1] = o.file[b - o.off + 1]
          BY <4>4, <4>6
        <4>12. QED
          BY <4>8, <4>10, <4>11, Zenon
      <3>8. op' = [b \in Sent |-> o.file[b - o.off + 1]]
        BY <3>6, <3>7
      <3>9. Busy'
        <4>1. 0 \in N
          BY <3>3
        <4>2. Sent # {} /\ DOMAIN op' = Sent
          BY <3>8, <4>1 DEF Sent
        <4>3. QED
          BY <4>2 DEF Busy, None
      <3>10. QED
        BY <3>2, <3>8, <3>9
    <2>2. QED
      <3>1. Sent' = Sent
        BY <1>1 DEF Sent, Chunk, PageRest, Size, Min2
      <3>2. QED
        BY <1>1, <1>5, <2>1, <3>1 DEF Programming, StoredTo, Blank, Rest, Size
  <1>8. Landed'
    BY <1>1 DEF Landed, Ended, Running, Writing
  <1>9. QED
    BY <1>3, <1>4, <1>6, <1>7, <1>8 DEF Landing

\* The end of a write brings what the command has asked for.
LEMMA ChipLands == ASSUME IInv, Reach, Landing, ChipStep PROVE Landing'
  <1>1. /\ UNCHANGED prog /\ mem' = Holding(op) /\ op' = None /\ Busy /\ ~Busy'
        /\ o \in Options /\ Aligned /\ AtWork /\ Addr \cup {SR1} \subseteq DOMAIN mem
    BY DEF ChipStep, Finish, Busy, IInv, Reach
  <1>2. faults = 0 => Writing /\ step = "wait"
    BY <1>1 DEF IInv, Quiet
  <1>3. \A a \in DOMAIN mem : mem'[a] = IF a \in DOMAIN op THEN op[a] ELSE mem[a]
    BY <1>1 DEF Holding
  <1>4. Latched' /\ Protects'
    BY <1>1, <1>2 DEF Latched, Protects, prog, Writing, None
  <1>5. Landed'
    BY <1>1, <1>2 DEF Landed, Ready, Ended, Running, Writing, prog
  <1>6. phase \in {"erase", "program"} /\ faults = 0 => mem'[SR1] = mem[SR1]
    BY <1>1, <1>3 DEF Landing, Protects
  <1>7. Erasing'
    <2>1. SUFFICES ASSUME Ready', phase = "erase"
                   PROVE  /\ o.erase = "blocks" => Blank(Passed(pos))'
                          /\ Blank(Target)'
      BY <1>1 DEF Erasing, prog
    <2>2. Ready
      BY <1>1, <1>6, <2>1 DEF Ready, SR1, prog
    <2>3. /\ o.erase = "blocks" => Blank(Passed(pos))
          /\ op = [a \in Target |-> 1]
      BY <1>1, <1>2, <2>1, <2>2 DEF Landing, Erasing, Ready
    <2>4. \A a \in Target : mem'[a] = 1
      <3>1. Target \subseteq DOMAIN mem
        BY <1>1 DEF Target, Block
      <3>2. QED
        BY <3>1, <2>3, <1>3
    <2>5. \A a \in DOMAIN mem : mem[a] = 1 => mem'[a] = 1
      BY <1>3, <2>3
    <2>6. Passed(pos) \subseteq DOMAIN mem
      BY <1>1 DEF Passed
    <2>7. Target' = Target /\ Passed(pos)' = Passed(pos)
      BY <1>1 DEF prog, Target, Block, Passed, Begin
    <2>8. QED
      BY <1>1, <2>3, <2>4, <2>5, <2>6, <2>7 DEF Blank, prog
  <1>8. Programming'
    <2>1. SUFFICES ASSUME Ready', phase = "program"
                   PROVE  (StoredTo(pos) /\ StoredTo(pos + Len(Chunk(PageRest)))
                           /\ Blank(Rest(pos + Len(Chunk(PageRest)))))'
      BY <1>1, <1>2 DEF Programming, prog, Ready
    <2>2. Ready
      BY <1>1, <1>6, <2>1 DEF Ready, SR1, prog
    <2>3. /\ StoredTo(pos) /\ Blank(Rest(pos)) /\ pos \in Nat /\ pos < Size
          /\ op = [b \in Sent |-> o.file[b - o.off + 1]] /\ o.act = "write"
      BY <1>1, <1>2, <2>1, <2>2 DEF Landing, Programming, Ready, Aligned, AtWork, Work
    <2> DEFINE n == Len(Chunk(PageRest))
    <2>4. /\ n \in 1 .. Size - pos /\ o.off \in Nat /\ Size \in Nat /\ o.off + Size <= SIZE
          /\ SIZE \in Nat
      BY <1>1, <2>3, PageSent, FileFits
    <2>5. Sent = {o.off + pos + m : m \in 0 .. n - 1}
      BY DEF Sent
    <2> HIDE DEF n
    <2>6. n \in Nat
      BY <2>4
    <2>7. \A i \in 0 .. Size - 1 :
            mem'[o.off + i] = IF i < pos THEN mem[o.off + i]
                              ELSE IF i < pos + n THEN o.file[i + 1] ELSE mem[o.off + i]
      <3> SUFFICES ASSUME NEW i \in 0 .. Size - 1
                   PROVE  mem'[o.off + i] = IF i < pos THEN mem[o.off + i]
                                            ELSE IF i < pos + n THEN o.file[i + 1]
                                            ELSE mem[o.off + i]
        OBVIOUS
      <3>1. o.off + i \in Addr /\ (o.off + i) - o.off + 1 = i + 1
        BY <2>4 DEF Addr
      <3>2. o.off + i \in Sent <=> pos <= i /\ i < pos + n
        <4>1. ASSUME pos <= i, i < pos + n PROVE o.off + i \in Sent
          <5>1. i - pos \in 0 .. n - 1 /\ o.off + i = o.off + pos + (i - pos)
            BY <2>3, <2>4, <4>1
          <5>2. QED
            BY <2>5, <5>1
        <4>2. ASSUME o.off + i \in Sent PROVE pos <= i /\ i < pos + n
          <5>1. PICK m \in 0 .. n - 1 : o.off + i = o.off + pos + m
            BY <2>5, <4>2
          <5>2. QED
            BY <5>1, <2>3, <2>4
        <4>3. QED
          BY <4>1, <4>2
      <3>3. mem'[o.off + i] = IF o.off + i \in Sent THEN o.file[i + 1] ELSE mem[o.off + i]
        BY <1>1, <1>3, <2>3, <3>1
      <3>4. QED
        BY <2>3, <2>6, <3>2, <3>3
    <2>8. \A i \in 1 .. pos + n : mem'[o.off + i - 1] = o.file[i]
      <3> SUFFICES ASSUME NEW i \in 1 .. pos + n PROVE mem'[o.off + i - 1] = o.file[i]
        OBVIOUS
      <3>1. i - 1 \in 0 .. Size - 1 /\ o.off + (i - 1) = o.off + i - 1 /\ (i - 1) + 1 = i
        BY <2>3, <2>4
      <3>2. i - 1 < pos => mem[o.off + i - 1] = o.file[i]
        BY <2>3, <2>6 DEF StoredTo
      <3>3. i - 1 < pos + n
        BY <2>3, <2>6
      <3>4. mem'[o.off + (i - 1)] = IF i - 1 < pos THEN mem[o.off + (i - 1)]
                              ELSE IF i - 1 < pos + n THEN o.file[(i - 1) + 1]
                              ELSE mem[o.off + (i - 1)]
        BY <2>7, <3>1
      <3>5. QED
        BY <3>1, <3>2, <3>3, <3>4
    <2>9. \A i \in pos + n .. Size - 1 : mem'[o.off + i] = 1
      <3> SUFFICES ASSUME NEW i \in pos + n .. Size - 1 PROVE mem'[o.off + i] = 1
        OBVIOUS
      <3>1. i \in 0 .. Size - 1 /\ ~(i < pos) /\ ~(i < pos + n) /\ i \in pos .. Size - 1
        BY <2>3, <2>4
      <3>2. mem[o.off + i] = 1
        BY <2>3, <3>1 DEF Blank, Rest
      <3>3. QED
        BY <2>7, <3>1, <3>2
    <2>10. n' = n /\ pos' = pos /\ o' = o /\ Size' = Size
      BY <1>1 DEF prog, n, Chunk, PageRest, Size, Min2
    <2>11. \A i \in 1 .. pos : i \in 1 .. pos + n
      BY <2>3, <2>6
    <2>12. QED
      BY <2>8, <2>9, <2>10, <2>11 DEF StoredTo, Blank, Rest, n
  <1>9. QED
    BY <1>4, <1>5, <1>7, <1>8 DEF Landing

LEMMA LandingKept ==
  ASSUME Landing, UNCHANGED <<mem, op, wel, o, phase, step, pos, exit, runs, faults>>
  PROVE  Landing'
  <1>1. Busy' = Busy /\ Ready' = Ready /\ Writing' = Writing /\ Ended(0)' = Ended(0)
    BY DEF Busy, Ready, SR1, Writing, Ended, Running
  <1>2. Size' = Size /\ Target' = Target /\ Passed(pos)' = Passed(pos) /\ Asked(o)' = Asked(o)
        /\ Sent' = Sent /\ Rest(pos)' = Rest(pos)
    BY DEF Size, Target, Block, Passed, Begin, Asked, Sent, Chunk, PageRest, Min2, Rest
  <1>3. Rest(pos + Len(Chunk(PageRest)))' = Rest(pos + Len(Chunk(PageRest)))
        /\ Len(Chunk(PageRest))' = Len(Chunk(PageRest))
    BY DEF Size, Chunk, PageRest, Min2, Rest
  <1>4. \A s : (\A a \in s : mem[a] = 1) <=> (\A a \in s : mem'[a] = 1)
    OBVIOUS
  <1>5. Latched' /\ Protects'
    BY <1>1 DEF Landing, Latched, Protects, SR1
  <1>6. Erasing'
    BY <1>1, <1>2, <1>4 DEF Landing, Erasing, Blank
  <1>7. Programming'
    BY <1>1, <1>2, <1>3, <1>4 DEF Landing, Programming, Blank, StoredTo
  <1>8. Landed'
    BY <1>1, <1>2, <1>4 DEF Landing, Landed, Blank, StoredTo
  <1>9. QED
    BY <1>5, <1>6, <1>7, <1>8 DEF Landing

\* Of the steps that go on with the run, or end it.
LEMMA OthersLand ==
  ASSUME IInv, Aligned, Landing, Wake \/ Poll \/ Read \/ Verify \/ Down
  PROVE  Landing'
  <1>1. /\ o' = o /\ faults' = faults /\ mem' = mem /\ op' = op /\ runs' = runs
        /\ wel' = wel
    BY DEF Wake, ReleasePowerDown, Poll, Read, Verify, Down, Sleep, PowerDown, Stop, flash
  <1>2. CASE Wake
    <2>1. faults = 0 => ~Busy
      BY <1>2, Idle DEF Wake, Writing
    <2>2. QED
      BY <1>1, <1>2, <2>1, GoesOnLanding DEF Wake
  <1>3. CASE \E s \in {0, 3} : Stop(s) /\ (s = 0 => phase = "down")
    <2>1. phase' = "idle" /\ step' = "enable" /\ (exit' = 0 => phase = "down")
      BY <1>3 DEF Stop
    <2>2. Ready' <=> Ready
      BY <1>1 DEF Ready, SR1
    <2>3. Landed'
      BY <1>1, <2>1, <2>2
      DEF Landing, Landed, Ended, StoredTo, Size, Blank, Asked, Block
    <2>4. QED
      BY <2>1, <2>3 DEF Landing, Latched, Protects, Erasing, Programming
  <1>4. ASSUME NEW p, GoOn(p), Poll \/ Read \/ Verify,
               Writing => p = Advanced /\ step = "wait" /\ ~Busy
        PROVE  Landing'
    <2>1. \E i \in 1..7 : /\ Phases[i] = phase /\ Here = i
                          /\ Writing => i \in 1..4
                          /\ ~Writing => i \in 5..6
      BY <1>4 DEF Poll, Read, Verify, Writing, Here, Phases
    <2>2. PICK i \in 1..7 : /\ Phases[i] = phase /\ Proceed(i, p)
                            /\ Writing => i \in 1..4
                            /\ ~Writing => i \in 5..6
      BY <2>1, <1>4 DEF GoOn
    <2>3. faults = 0 => ~Busy
      BY <1>4, Idle
    <2>4. i = 1 \/ (i \in 2..4 /\ Phases[i] = phase /\ step = "wait" /\ p = Advanced)
          \/ (i \in 5..6 /\ Phases[i] = phase)
      BY <1>4, <2>2
    <2>5. QED
      BY <1>1, <2>2, <2>3, <2>4, GoesOnLanding
  <1>5. CASE UNCHANGED <<phase, step, pos, exit>>
    BY <1>1, <1>5, LandingKept
  <1>6. QED
    BY <1>2, <1>3, <1>4, <1>5 DEF Poll, Read, Verify, Down, Writing

LEMMA LandingStep == ASSUME IInv, Reach, Landing, [Next]_vars PROVE Landing'
  <1>1. CASE Main
    BY <1>1, OthersLand, EnableLands, CommandLands DEF Main, Reach
  <1>2. ASSUME NEW c \in Options, Start(c) PROVE Landing'
    BY <1>2
    DEF Start, Landing, Latched, Protects, Erasing, Programming, Landed, Ended, Running, Writing
  <1>3. CASE ChipStep
    BY <1>3, ChipLands
  <1>4. CASE Abort \/ Unplug
    <2>1. faults' # 0
      BY <1>4 DEF Abort, Unplug, IInv
    <2>2. QED
      BY <2>1 DEF Landing, Latched, Protects, Erasing, Programming, Landed, Ready
  <1>5. CASE UNCHANGED vars
    BY <1>5, LandingKept DEF vars, prog, flash
  <1>6. QED
    BY <1>1, <1>2, <1>3, <1>4, <1>5 DEF Next

\* With no run cut short every write is taken up and lands, verified or not
\* (iceprog.c:953-1022).
THEOREM EveryWriteLands == Spec => []WritesLand
  <1>1. Init => Reach
    BY InitReaches
  <1>2. Init => Landing
    BY DEF Init, Landing, Latched, Protects, Erasing, Programming, Landed, Ended, Running, Writing
  <1>3. IInv /\ Reach /\ Landing /\ [Next]_vars => Reach' /\ Landing'
    BY ReachStep, LandingStep
  <1>4. ASSUME IInv, Landing PROVE WritesLand
    <2>1. SUFFICES ASSUME Ended(0), faults = 0, mem[SR1] = 0, o.erase # "none"
                   PROVE  /\ o.act = "write" => Stored(o.file)
                          /\ o.act = "erase" => \A a \in Asked(o) : mem[a] = 1
      BY DEF WritesLand
    <2>2. o.act \in {"write", "erase"} =>
            /\ o.act = "write" => StoredTo(Size)
            /\ o.act = "erase" => Blank(Asked(o))
      BY <1>4, <2>1 DEF Landing, Landed, Ready
    <2>3. QED
      BY <2>2 DEF StoredTo, Stored, Size, Blank
  <1>5. QED
    BY <1>1, <1>2, <1>3, <1>4, ProgrammerInvariant, PTL DEF Spec
=============================================================================
