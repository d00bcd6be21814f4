------------------------------ MODULE MCExchange ------------------------------
(***************************************************************************)
(* Instances of PairExchange for TLC, and the measurement functions of     *)
(* Measurement against what they should return, over all short words.      *)
(***************************************************************************)
EXTENDS PairExchange, Measurement

\* One name whose client's suffix just fits, one that holds a "-cl-" as well.
TestNames == {NullName, EmptyName, PlainName(11), MarkedName(11, 6)}
FittingName == {PlainName(11)}

\* What MeasurementProofs proves for every width, computed for one.
ASSUME MeasurementAgrees ==
    \A c, n \in Word :
        /\ cpu_cycles_delta((c + n) % WordSize, c) = n
        /\ delta_cycles(start_task_monitoring(0, c), (c + n) % WordSize)
               = IF c + n < WordSize THEN n ELSE 0
        /\ \A spent \in Word :
              end_task_monitoring(start_task_monitoring(c, 5), 3,
                                  (c + n) % WordSize, (5 + spent) % WordSize)
                = ((IF 5 + spent < WordSize THEN spent ELSE 0) + 3 + n) % WordSize
===============================================================================
