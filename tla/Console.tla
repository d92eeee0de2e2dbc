------------------------------ MODULE Console ------------------------------
(***************************************************************************)
(* The console, clock by clock: the ACIA and the GPU port of the test      *)
(* bench (tb.v), the software that polls them (boot.s puts_inline,         *)
(* kernel.c, the character calls of syscalls.c), and the monitor process   *)
(* (tools/gpu.c) with the keyboard file and the FIFO between the two, from *)
(* their start by `make run` or `make run-dbg` on. Keys are numbered in    *)
(* the order they are typed. `since`, `overrun`, `asked`, `got` and        *)
(* `early` only record what happened.                                      *)
(***************************************************************************)
EXTENDS Screen

CONSTANTS
  TxCycles,   \* ACIA_TX_CYCLES: 87
  PollCycles, \* 200
  PipeSize,   \* bytes the FIFO holds before a write blocks the simulation
  ByteSize,   \* 256
  Rom,        \* boot ROM: a character, Null, "jsr" (the last byte of a call of
              \* puts_inline) or "kernel" (the jump to the kernel)
  Null, BootStart,
  Strings,    \* what the kernel prints, programs' characters included
  MaxOut,     \* bound on the characters printed
  MaxKeys,    \* bound on the keys typed
  MaxResets   \* bound on the debugger's resets of the machine

Bytes == Printable \union {NL, CR, BS, FF, Null, "jsr", "kernel", "code"}

ASSUME ConsoleAssumption ==
  /\ TxCycles \in Nat \ {0} /\ PollCycles \in Nat /\ ByteSize \in Nat \ {0, 1}
  /\ MaxKeys \in Nat /\ Strings \subseteq Seq(Bytes)

\* boot.s: each call's string ends in a Null, and the code behind it goes on to
\* the next call or to the kernel (messages before a halt are left out). The ROM
\* lies in the address space.
ASSUME RomAssumption ==
  /\ Rom \in Seq(Bytes) /\ Len(Rom) <= ByteSize * ByteSize
  /\ BootStart \in Nat /\ BootStart < Len(Rom) /\ Rom[BootStart + 1] = "jsr"
  /\ \A a \in 0..(Len(Rom) - 1) : Rom[a + 1] = "jsr" =>
       \E n \in (a + 1)..(Len(Rom) - 2) :
         /\ Rom[n + 1] = Null /\ \A m \in (a + 1)..(n - 1) : Rom[m + 1] # Null
         /\ Rom[n + 2] \in {"jsr", "kernel"}

VARIABLES
  txReady, txCount,       \* acia_tx_ready, acia_tx_count
  rxData, rxValid,        \* acia_rx_data, acia_rx_valid
  pos, poll,              \* stdin_pos, poll_counter
  at,                     \* where the software is
  boot,                   \* is it the boot ROM?
  lo, hi, y,              \* ZP_PTR and Y in puts_inline
  text, ch,               \* what is left of k_print's string; the character at hand
  monitor,                \* "starting", "fifo" (has opened the FIFO), "running"
  file,                   \* /tmp/bb6502_in
  typed,                  \* keys typed
  acia, gpu,              \* bytes written to either device
  drawn, screen,          \* bytes of gpu on the screen; the screen
  resets,                 \* resets so far
  since, overrun, asked, got, early

txVars  == <<txReady, txCount, since, overrun>>
rxVars  == <<rxData, rxValid, pos, poll>>
softVars == <<at, boot, lo, hi, y, text, ch, acia, gpu, asked, got, resets>>
hostVars == <<monitor, file, typed, drawn, screen, early>>
vars == <<txVars, rxVars, softVars, hostVars>>

\* The string behind a call, up to its Null.
TextAt(a) ==
  LET last == CHOOSE n \in a..(Len(Rom) - 1) : Rom[n + 1] = Null /\ \A m \in a..(n - 1) : Rom[m + 1] # Null
  IN  SubSeq(Rom, a + 1, last)

Init ==
  /\ txReady = TRUE /\ txCount = 0 /\ since = TxCycles /\ overrun = FALSE
  /\ rxData = 0 /\ rxValid = FALSE /\ pos = 0 /\ poll = 0
  /\ at = "fetch" /\ boot = TRUE
  /\ lo = BootStart % ByteSize /\ hi = BootStart \div ByteSize /\ y = 1
  /\ text = <<>> /\ ch = Null
  /\ acia = <<>> /\ gpu = <<>> /\ asked = TextAt(BootStart + 1) /\ got = <<>> /\ resets = 0
  /\ monitor = "starting" /\ file = <<>> /\ typed = 0 /\ early = 0
  /\ drawn = 0 /\ screen = ClearScreen

----------------------------------------------------------------------------
(* One clock cycle of the devices. The test bench opens the FIFO for       *)
(* writing before the clock matters, which waits for the monitor.          *)

TxLoad == TxCycles - 1
TxCountOneShort == 1 \* seeded fault: ready with one cycle still to go
TxCountEnd      == 0

Transmit(write) ==
  /\ since' = IF write THEN 0 ELSE IF since < TxCycles THEN since + 1 ELSE since
  /\ \/ write /\ txCount' = TxLoad /\ txReady' = FALSE
        /\ overrun' = (overrun \/ ~ txReady)
     \/ ~ write /\ ~ txReady /\ overrun' = overrun
        /\ IF txCount = TxCountEnd THEN txReady' = TRUE /\ txCount' = 0
           ELSE txReady' = txReady /\ txCount' = txCount - 1
     \/ ~ write /\ txReady /\ UNCHANGED <<txReady, txCount, overrun>>

\* RX-valid is cleared by the CPU's read and set by a poll that finds a byte.
Receive(read) ==
  LET tick == poll >= PollCycles
      take == tick /\ ~ rxValid /\ pos < Len(file)
  IN  /\ poll' = IF tick THEN 0 ELSE poll + 1
      /\ rxData' = IF take THEN file[pos + 1] ELSE rxData
      /\ pos' = IF take THEN pos + 1 ELSE pos
      /\ rxValid' = (take \/ (rxValid /\ ~ read))

Cycle(write, read) ==
  /\ monitor # "starting"
  /\ Transmit(write) /\ Receive(read)
  /\ UNCHANGED hostVars

\* The CPU is busy elsewhere, or with an instruction that touches no device.
Idle == Cycle(FALSE, FALSE) /\ UNCHANGED softVars

----------------------------------------------------------------------------
(* The software, one step a cycle.                                         *)

Cpu(step) == Cycle(FALSE, FALSE) /\ step /\ UNCHANGED <<got, resets>>

\* puts_inline: lda (ZP_PTR),y.
Pointer == (hi * ByteSize) + lo + y
FetchInline ==
  /\ at = "fetch" /\ boot
  /\ ch' = Rom[Pointer + 1]
  /\ at' = IF ch' = Null THEN "done" ELSE "acia_wait"
  /\ UNCHANGED <<boot, lo, hi, y, text, acia, gpu, asked>>

\* @done pushes ZP_PTR + Y, with the carry, and rts goes to the byte after it.
ReturnHighNoCarry == hi \* seeded fault: adc #0 left out
ReturnHigh == hi + (lo + y) \div ByteSize
Return == (ReturnHigh * ByteSize) + ((lo + y) % ByteSize) + 1
ReturnInline ==
  /\ at = "done"
  /\ CASE Rom[Return + 1] = "jsr" ->
            /\ at' = "fetch" /\ boot' = TRUE
            /\ lo' = Return % ByteSize /\ hi' = Return \div ByteSize /\ y' = 1
            /\ asked' = asked \o TextAt(Return + 1)
       [] Rom[Return + 1] = "kernel" ->
            at' = "idle" /\ boot' = FALSE /\ UNCHANGED <<lo, hi, y, asked>>
       [] OTHER -> at' = "lost" /\ UNCHANGED <<boot, lo, hi, y, asked>>
  /\ UNCHANGED <<text, ch, acia, gpu>>

\* k_print's loop; do_putc and do_puts come here too.
FetchChar ==
  /\ at = "fetch" /\ ~ boot
  /\ IF text = <<>> THEN at' = "idle" /\ UNCHANGED <<text, ch>>
     ELSE at' = "acia_wait" /\ ch' = Head(text) /\ text' = Tail(text)
  /\ UNCHANGED <<boot, lo, hi, y, acia, gpu, asked>>

k_print ==
  /\ at = "idle"
  /\ \E s \in Strings :
       /\ Len(asked) + Len(s) <= MaxOut
       /\ text' = s /\ asked' = asked \o s
  /\ at' = "fetch"
  /\ UNCHANGED <<boot, lo, hi, y, ch, acia, gpu>>

\* The wait loops read a status register until the bit they want is 1.
TxStatusBit0 == rxValid \* seeded fault: the other bit of the register
TxStatus == txReady
AciaWait ==
  /\ at = "acia_wait" /\ at' = IF TxStatus THEN "acia_write" ELSE at
  /\ UNCHANGED <<boot, lo, hi, y, text, ch, acia, gpu, asked>>

\* sta ACIA_DATA, *ACIA_DATA = c
AciaWrite ==
  /\ at = "acia_write"
  /\ Cycle(TRUE, FALSE)
  /\ acia' = Append(acia, ch) /\ at' = "gpu_wait"
  /\ UNCHANGED <<boot, lo, hi, y, text, ch, gpu, asked, got, resets>>

GpuWait == \* GPU status always reads 1
  /\ at = "gpu_wait" /\ at' = "gpu_write"
  /\ UNCHANGED <<boot, lo, hi, y, text, ch, acia, gpu, asked>>

\* The write flushes to the FIFO and waits while that is full. In puts_inline
\* iny and, when Y wraps, inc ZP_PTR+1 follow.
GpuWrite ==
  /\ at = "gpu_write" /\ Len(gpu) - drawn < PipeSize
  /\ gpu' = Append(gpu, ch) /\ at' = "fetch"
  /\ IF boot
       THEN y' = (y + 1) % ByteSize /\ hi' = IF y' = 0 THEN hi + 1 ELSE hi
       ELSE y' = y /\ hi' = hi
  /\ UNCHANGED <<boot, lo, text, ch, acia, asked>>

\* do_getc and do_getc_nb.
do_getc    == at = "idle" /\ at' = "rx_wait" /\ UNCHANGED <<boot, lo, hi, y, text, ch, acia, gpu, asked>>
do_getc_nb == at = "idle" /\ at' = "rx_check" /\ UNCHANGED <<boot, lo, hi, y, text, ch, acia, gpu, asked>>

RxStatusBit1 == txReady \* seeded fault: the other bit of the register
RxStatus == rxValid
RxWait ==
  /\ at \in {"rx_wait", "rx_check"}
  /\ at' = CASE RxStatus -> "rx_read"
             [] ~ RxStatus /\ at = "rx_wait" -> at
             [] OTHER -> "idle"
  /\ UNCHANGED <<boot, lo, hi, y, text, ch, acia, gpu, asked>>

RxRead == \* lda ACIA_DATA
  /\ at = "rx_read"
  /\ Cycle(FALSE, TRUE)
  /\ got' = Append(got, rxData) /\ at' = "idle"
  /\ UNCHANGED <<boot, lo, hi, y, text, ch, acia, gpu, asked, resets>>

\* The debugger resets the machine: the ACIA is ready at once, a received byte
\* stays, and so does the read position; the software starts over.
Reset ==
  /\ monitor # "starting" /\ resets < MaxResets
  /\ resets' = resets + 1
  /\ txReady' = TRUE /\ txCount' = 0 /\ since' = TxCycles /\ overrun' = overrun
  /\ Receive(FALSE)
  /\ at' = "fetch" /\ boot' = TRUE
  /\ lo' = BootStart % ByteSize /\ hi' = BootStart \div ByteSize /\ y' = 1
  /\ text' = <<>> /\ ch' = Null
  /\ asked' = gpu \o TextAt(BootStart + 1) /\ acia' = gpu
  /\ UNCHANGED <<gpu, got, hostVars>>

Loop == FetchInline \/ ReturnInline \/ FetchChar \/ AciaWait \/ GpuWait \/ GpuWrite \/ RxWait
Call == k_print \/ do_getc \/ do_getc_nb
Software == Cpu(Loop) \/ AciaWrite \/ RxRead

----------------------------------------------------------------------------
(* The host.                                                               *)

\* gpu.c opens the FIFO, which lets the simulation start, and then the
\* keyboard file, truncating it.
OpenFifo ==
  /\ monitor = "starting" /\ monitor' = "fifo"
  /\ UNCHANGED <<file, typed, drawn, screen, early, txVars, rxVars, softVars>>
OpenKeyboard ==
  /\ monitor = "fifo" /\ monitor' = "running"
  /\ file' = <<>> /\ early' = typed
  /\ UNCHANGED <<typed, drawn, screen, txVars, rxVars, softVars>>

\* A key appended by the monitor (send_byte), or by the debugger (dbgSendKey),
\* which can type as soon as the simulation runs.
SendKey ==
  /\ monitor # "starting" /\ typed < MaxKeys
  /\ typed' = typed + 1 /\ file' = Append(file, typed')
  /\ UNCHANGED <<monitor, drawn, screen, early, txVars, rxVars, softVars>>

\* The monitor's loop: read what is there, put it on the screen, render.
Draw ==
  /\ monitor = "running" /\ drawn < Len(gpu)
  /\ screen' = FoldLeft(put_char, screen, SubSeq(gpu, drawn + 1, Len(gpu)))
  /\ drawn' = Len(gpu)
  /\ UNCHANGED <<monitor, file, typed, early, txVars, rxVars, softVars>>

Monitor == OpenFifo \/ OpenKeyboard \/ Draw
Next == Idle \/ Software \/ Cpu(Call) \/ Reset \/ Monitor \/ SendKey
Spec == Init /\ [][Next]_vars

\* The simulation runs on while it is not blocked and the monitor is scheduled;
\* nothing is assumed of the user or of what programs call.
FairSpec == Spec /\ WF_vars(Software) /\ WF_vars(Monitor)

----------------------------------------------------------------------------

TypeOK ==
  /\ txReady \in BOOLEAN /\ txCount \in 0..(TxCycles - 1)
  /\ rxValid \in BOOLEAN /\ rxData \in 0..MaxKeys /\ pos \in 0..MaxKeys /\ poll \in 0..PollCycles
  /\ at \in {"fetch", "acia_wait", "acia_write", "gpu_wait", "gpu_write", "done", "idle",
             "rx_wait", "rx_check", "rx_read", "lost"}
  /\ boot \in BOOLEAN /\ lo \in 0..(ByteSize - 1) /\ hi \in 0..(ByteSize - 1) /\ y \in 0..(ByteSize - 1)
  /\ monitor \in {"starting", "fifo", "running"}
  /\ screen.row \in 0..(Rows - 1) /\ screen.col \in 0..(Cols - 1)
  /\ \A r \in 0..(Rows - 1) : screen.cell[r] \in [0..(Cols - 1) -> Printable \union {Blank}]

\* No byte is written into one that is still being sent, and the ACIA is busy
\* for exactly TxCycles cycles after each.
TxPaced == ~ overrun /\ (txReady <=> since = TxCycles)

\* What is printed reaches both devices, in order and once; the GPU is at most
\* the character at hand behind the ACIA; puts_inline comes back behind its
\* string, across pages too. (A reset starts the count again.)
OutputsAgree ==
  /\ at # "lost"
  /\ IsPrefix(acia, asked)
  /\ gpu = IF at \in {"gpu_wait", "gpu_write"} THEN Front(acia) ELSE acia
  /\ at \in {"idle", "rx_wait", "rx_check", "rx_read"} => acia = asked

\* No key is read twice or out of order. The monitor empties the file without
\* the read position going back: as many keys as the debugger sent before that
\* may be lost, those not yet read and then those the position passes over, but
\* no more, and none behind the first twice as many.
Held       == IF rxValid THEN <<rxData>> ELSE <<>>
Keystrokes == got \o Held \o SubSeq(file, pos + 1, Len(file))
KeysArrive ==
  /\ \A i \in 2..Len(Keystrokes) : Keystrokes[i - 1] < Keystrokes[i]
  /\ Len(Keystrokes) >= typed - early
  /\ \A k \in ((2 * early) + 1)..typed : \E i \in DOMAIN Keystrokes : Keystrokes[i] = k

\* The screen is the end of what an endless sheet would show.
ScreenShowsPaper == Shows(screen, Paper(SubSeq(gpu, 1, drawn)))

\* Every print ends, waits for the ACIA and the monitor included, and a reader
\* gets the key that is there.
Served ==
  /\ (at \notin {"idle", "rx_wait"}) ~> (at = "idle")
  /\ (at = "rx_wait" /\ monitor = "running" /\ (rxValid \/ pos < Len(file))) ~> (at # "rx_wait")
=============================================================================
