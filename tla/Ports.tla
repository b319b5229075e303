------------------------------- MODULE Ports -------------------------------
(***************************************************************************)
(* Two initialisations that are all port output: the timer's divisor and   *)
(* the serial line.  The chips are modelled as the PC has them, the writes *)
(* as the code makes them.                                                 *)
(***************************************************************************)
EXTENDS Integers, Sequences, SequencesExt

TICK_HZ == 1193180

---------------------------------------------------------------------------
(* hw_timer_config.                                                        *)

\* Mutant: the counter is taken to have 15 bits.
too_slow_for_15_bits(frequency) == frequency < TICK_HZ \div 2 ^ 15
too_slow(frequency) == frequency < TICK_HZ \div 2 ^ 16

\* A uint16_t.
counter(frequency) ==
    CASE too_slow(frequency)   -> 0
      [] frequency > TICK_HZ   -> 2
      [] OTHER                 -> (TICK_HZ \div frequency) % 2 ^ 16

\* The 8254 after the low and the high byte: 0 stands for 65536.
period(low, high) == IF low + 256 * high = 0 THEN 65536 ELSE low + 256 * high

\* The ticks of the chip's clock between two interrupts, 0 if it was not set.
hw_timer_config(channel, mode, frequency) ==
    IF channel \notin {0, 2} \/ mode \notin {2, 3} THEN 0
    ELSE period(counter(frequency) % 256, (counter(frequency) \div 256) % 256)

---------------------------------------------------------------------------
(* The 16550: with DLAB set the first two registers are the divisor.       *)

DLAB == 128
OldUart == [divisor |-> 12, IER |-> 0, FCR |-> 0, LCR |-> 0, MCR |-> 0, sent |-> <<>>]

dlab(uart) == uart.LCR >= DLAB
outb(uart, w) ==
    CASE w.reg = 0 /\ dlab(uart)  -> [uart EXCEPT !.divisor = (@ - (@ % 256)) + w.val]
      [] w.reg = 1 /\ dlab(uart)  -> [uart EXCEPT !.divisor = (@ % 256) + 256 * w.val]
      [] w.reg = 0 /\ ~dlab(uart) -> [uart EXCEPT !.sent = Append(@, w.val)]
      [] w.reg = 1 /\ ~dlab(uart) -> [uart EXCEPT !.IER = w.val % 16]
      [] w.reg = 2 -> [uart EXCEPT !.FCR = w.val]
      [] w.reg = 3 -> [uart EXCEPT !.LCR = w.val]
      [] w.reg = 4 -> [uart EXCEPT !.MCR = w.val % 32]
      [] OTHER     -> uart

out(reg, val) == [reg |-> reg, val |-> val]

\* The registers as serial.c numbers them.
IER_REG == 1
FCR_REG == 3
LCR_REG == 4
LS_REG  == 0
MS_REG  == 1

\* What serial.c reads back from LCR_REG, after it has written 3 there.
lcr == 3

serial_set_rate(bps) ==
    LET divisor == 115200 \div bps
    IN  <<out(LCR_REG, lcr + DLAB),
          out(LS_REG, divisor % 256), out(MS_REG, divisor % 256),
          out(LCR_REG, lcr)>>

serial_init_poll == <<out(IER_REG, 0), out(FCR_REG, 0), out(LCR_REG, 3)>> \o serial_set_rate(9600)

serial_enable_intr == <<out(IER_REG, 1)>>

\* The chip after serial_init.
serial_init == FoldLeft(outb, OldUart, serial_init_poll \o serial_enable_intr)
=============================================================================
