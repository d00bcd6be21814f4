----------------------------- MODULE Measurement -----------------------------
(***************************************************************************)
(* How long an operation took: the cycle counter of the board port         *)
(* (port/port_board_esp32.c) and the measurement functions of              *)
(* core/task_manager.c, in the arithmetic of uint32_t.                     *)
(***************************************************************************)
EXTENDS Integers

CONSTANT WordSize       \* number of values of a uint32_t

ASSUME MeasurementAssumption == WordSize \in Nat \ {0, 1}

Word == 0..(WordSize - 1)

\* One addition or subtraction of two words.
Wrapped(n) == IF n < 0 THEN n + WordSize
              ELSE IF n >= WordSize THEN n - WordSize
              ELSE n

\* A counter that stood at c has advanced by n.
Advanced(c, n) == Wrapped(c + n)

-----------------------------------------------------------------------------
(* The board port.  freq is what esp_clk_cpu_freq reports, in MHz.         *)

eaPort_Get_Cpu_Cycles_per_ms(freq) == (freq * 1000) % WordSize

eaPort_Cycles_to_ms(cycles, freq) ==
    IF freq = 0 THEN 0 ELSE cycles \div ((freq * 1000) % WordSize)

\* Without the test for 0.
cpu_cycles_to_ms(cycles, freq) == cycles \div eaPort_Get_Cpu_Cycles_per_ms(freq)

cpu_cycles_delta(current, previous) ==
    IF current >= previous THEN current - previous
    ELSE Wrapped(Wrapped(Wrapped(WordSize - 1 - previous) + current) + 1)

-----------------------------------------------------------------------------
(* The task manager.                                                       *)

\* edge_task_monitor_sample_t
Sample == [start_tick : Word, start_cycles : Word]

start_task_monitoring(tick, cycles) == [start_tick |-> tick, start_cycles |-> cycles]

delta_cycles(sample, end_cycles) ==
    IF end_cycles >= sample.start_cycles
    THEN end_cycles - sample.start_cycles
    ELSE 0

\* end_task_monitoring and end_task_monitoring_, which ignores the rest of its
\* arguments; the cost as the word it is before the conversion to int.
end_task_monitoring(sample, message_size, tick, cycles) ==
    Wrapped(Wrapped(delta_cycles(sample, cycles) + message_size)
                + Wrapped(tick - sample.start_tick))
===============================================================================
