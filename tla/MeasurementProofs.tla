--------------------------- MODULE MeasurementProofs ---------------------------
(***************************************************************************)
(* What the two ways of measuring an interval return, for every width of   *)
(* the counters.                                                           *)
(***************************************************************************)
EXTENDS Measurement, TLAPS

\* The distance between two readings of a counter, taken as a word, is what it
\* advanced in between, whether it wrapped or not.
LEMMA DistanceIsAdvance ==
    ASSUME NEW c \in Word, NEW n \in Word
    PROVE  /\ Advanced(c, n) \in Word
           /\ Wrapped(Advanced(c, n) - c) = n
  BY MeasurementAssumption DEF Word, Advanced, Wrapped

\* cpu_cycles_delta returns the cycles that passed, across a wrap too
\* (port_board_esp32.c:99, "Handles 32-bit counter wrap-around correctly").
THEOREM PortDeltaIsExact ==
    ASSUME NEW c \in Word, NEW n \in Word
    PROVE  cpu_cycles_delta(Advanced(c, n), c) = n
  BY MeasurementAssumption DEF Word, Advanced, Wrapped, cpu_cycles_delta

\* end_task_monitoring_ counts the same cycles unless the counter wrapped: then
\* it counts none, although the port offers a difference that is exact.
THEOREM ManagerDeltaLosesWraps ==
    ASSUME NEW s \in Sample, NEW n \in Word
    PROVE  delta_cycles(s, Advanced(s.start_cycles, n))
               = IF s.start_cycles + n < WordSize
                 THEN cpu_cycles_delta(Advanced(s.start_cycles, n), s.start_cycles)
                 ELSE 0
<1>1. s.start_cycles \in Word
  BY DEF Sample
<1>2. cpu_cycles_delta(Advanced(s.start_cycles, n), s.start_cycles) = n
  BY <1>1, PortDeltaIsExact
<1>3. delta_cycles(s, Advanced(s.start_cycles, n))
          = IF s.start_cycles + n < WordSize THEN n ELSE 0
  BY <1>1, MeasurementAssumption DEF Word, Advanced, Wrapped, delta_cycles
<1> QED
  BY <1>2, <1>3

\* A number less than three words wide, brought into a word twice.
LEMMA WrappedIsModulo ==
    ASSUME NEW n \in Nat, NEW r \in Word,
           r = n \/ r = n - WordSize \/ r = n - 2 * WordSize
    PROVE  r = n % WordSize
<1>1. WordSize \in Nat /\ WordSize > 0 /\ r \in Nat /\ r < WordSize
  BY MeasurementAssumption DEF Word
<1>2. CASE r = n
  BY <1>1, <1>2
<1>3. CASE r = n - WordSize
  <2>1. n >= WordSize /\ n < 2 * WordSize
    BY <1>1, <1>3
  <2> QED
    BY <1>1, <1>3, <2>1
<1>4. CASE r = n - 2 * WordSize
  <2>1. n >= 2 * WordSize /\ n < 3 * WordSize
    BY <1>1, <1>4
  <2> QED
    BY <1>1, <1>4, <2>1
<1> QED
  BY <1>2, <1>3, <1>4

\* The cost of an operation is its cycles, bytes and ticks, added modulo the
\* word: the tick counter may wrap, the cycles are lost when theirs did, and a
\* sum too large for a word is reported as what is left of it.
THEOREM CostIsSum ==
    ASSUME NEW tick \in Word, NEW cycles \in Word, NEW size \in Word,
           NEW ticks \in Word, NEW spent \in Word
    PROVE  end_task_monitoring(start_task_monitoring(tick, cycles), size,
               Advanced(tick, ticks), Advanced(cycles, spent))
             = ((IF cycles + spent < WordSize THEN spent ELSE 0) + size + ticks)
                   % WordSize
<1> DEFINE sample == start_task_monitoring(tick, cycles)
           counted == IF cycles + spent < WordSize THEN spent ELSE 0
           cost == Wrapped(Wrapped(counted + size) + ticks)
<1>1. sample = [start_tick |-> tick, start_cycles |-> cycles]
  BY DEF start_task_monitoring
<1>2. Wrapped(Advanced(tick, ticks) - sample.start_tick) = ticks
  BY <1>1, DistanceIsAdvance
<1>3. delta_cycles(sample, Advanced(cycles, spent)) = counted
  BY <1>1, MeasurementAssumption DEF Word, Advanced, Wrapped, delta_cycles
<1>4. counted \in Word
  BY MeasurementAssumption DEF Word
<1> HIDE DEF sample, counted
<1>5. end_task_monitoring(sample, size, Advanced(tick, ticks), Advanced(cycles, spent))
          = cost
  BY <1>2, <1>3 DEF end_task_monitoring
<1> DEFINE sum == counted + size + ticks
<1>6. sum \in Nat /\ cost \in Word
  BY <1>4, MeasurementAssumption DEF Word, Wrapped
<1>7. cost = sum \/ cost = sum - WordSize \/ cost = sum - 2 * WordSize
  BY <1>4, MeasurementAssumption DEF Word, Wrapped
<1>8. cost = sum % WordSize
  BY <1>6, <1>7, WrappedIsModulo
<1> QED
  BY <1>5, <1>8 DEF sample, counted

\* A whole number of milliseconds is converted exactly, by either function of
\* the port, at any clock rate whose cycles per millisecond fit a word
\* (Port_Board_Test.md:14, "converts exact cycle multiples consistently").
THEOREM MillisecondsAreExact ==
    ASSUME NEW freq \in Nat \ {0}, freq * 1000 < WordSize, NEW ms \in Nat
    PROVE  /\ eaPort_Cycles_to_ms(ms * (freq * 1000), freq) = ms
           /\ cpu_cycles_to_ms(ms * (freq * 1000), freq) = ms
<1> DEFINE rate == freq * 1000
<1>1. rate \in Nat /\ rate > 0 /\ rate % WordSize = rate
  BY MeasurementAssumption
<1> HIDE DEF rate
<1>2. (ms * rate) \div rate = ms
  BY <1>1
<1>3. rate = freq * 1000
  BY DEF rate
<1> QED
  BY <1>1, <1>2, <1>3
     DEF eaPort_Cycles_to_ms, cpu_cycles_to_ms, eaPort_Get_Cpu_Cycles_per_ms
===============================================================================
