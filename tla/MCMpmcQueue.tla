---------------------------- MODULE MCMpmcQueue ----------------------------
(***************************************************************************)
(* The instance of MpmcQueue for TLC: three threads over two slots, one of *)
(* which keeps running while the others may stop inside a call.  A thread  *)
(* pushes a value of its own, the third another than the first two: the    *)
(* order in which the values come out shows, at less cost than with values *)
(* chosen freely.                                                          *)
(***************************************************************************)
EXTENDS MpmcQueue

CONSTANTS t1, t2, t3, v1, v2

ThreeThreads == {t1, t2, t3}
TwoValues == {v1, v2}
OneRunning == {t1}

valueOf(t) == IF t = t3 THEN v2 ELSE v1

PushesOwn ==
  \A t \in Thread :
    (thread[t].pc = "idle" /\ thread'[t].pc = "push") => thread'[t].value = valueOf(t)

MCSpec == Init /\ [][Next /\ PushesOwn]_vars /\ Fairness
=============================================================================
