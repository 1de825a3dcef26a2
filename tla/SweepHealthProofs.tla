-------------------------- MODULE SweepHealthProofs --------------------------
(***************************************************************************)
(* For every set of intervals and caps: /health/background-jobs raises no  *)
(* false alarm, and the ticker never starts cycles back to back.  The      *)
(* inductive invariant bounds the age of the stamp by the time to the next *)
(* tick while the task waits, and by the time it has run while it runs.    *)
(***************************************************************************)
EXTENDS SweepHealth, TLAPS

\* The ticker's deadline is an interval after the last start, until the
\* clocks saturate.
Deadline == elapsed = interval + 1 \/ elapsed + wait >= interval

\* How old a stamp can be that no failure followed.
Fresh ==
    stamped /\ ~lost =>
        \/ pc = "waiting" /\ lag <= interval /\ lag + wait <= interval
        \/ pc \in Running /\ elapsed <= interval /\ lag <= interval + elapsed

\* A panicked task never stamped.
DeadUnstamped == pc = "dead" => ~stamped

Inv == TypeOK /\ Deadline /\ Fresh /\ DeadUnstamped

LEMMA IntervalType == ASSUME TypeOK PROVE interval \in Nat
BY IntervalsAssumption DEF TypeOK

LEMMA InitInv == Init => Inv
<1> SUFFICES ASSUME Init PROVE Inv
  OBVIOUS
<1>1. interval \in Nat
  BY IntervalsAssumption DEF Init
<1>2. pc \in PCs /\ (interval = 0 <=> pc = "dead")
  BY DEF Init, Spawned, PCs
<1>3. /\ wait \in Int /\ -interval <= wait /\ wait <= interval
      /\ elapsed \in Nat /\ elapsed <= interval + 1
      /\ lag \in Nat /\ lag <= 2 * interval + 1
  BY <1>1 DEF Init
<1>4. stamped \in BOOLEAN /\ lost \in BOOLEAN /\ calm \in BOOLEAN
  BY DEF Init
<1>5. TypeOK
  BY <1>2, <1>3, <1>4 DEF Init, TypeOK
<1>6. Deadline /\ Fresh /\ DeadUnstamped
  BY DEF Init, Deadline, Fresh, DeadUnstamped
<1> QED
  BY <1>5, <1>6 DEF Inv

\* What the age of the stamp rests on.
Rest == Deadline /\ Fresh /\ DeadUnstamped

\* A completed cycle leaves a fresh stamp, whatever became of the tables.
LEMMA CompleteStep ==
    ASSUME Inv, Complete, pc # "dead", calm' \in BOOLEAN,
           tracked' \subseteq Programs, flagged' \subseteq tracked'
    PROVE  TypeOK' /\ Rest'
<1>0. interval \in Nat /\ interval # 0 /\ wait \in Int /\ elapsed \in Nat
  BY IntervalType DEF Inv, TypeOK
<1>1. interval' = interval /\ cap' = cap /\ wait' = wait /\ elapsed' = elapsed
  BY DEF Complete, config_vars, clock_vars
<1>2. /\ wait' \in Int /\ -interval' <= wait' /\ wait' <= interval'
      /\ elapsed' \in Nat /\ elapsed' <= interval' + 1
      /\ lag' \in Nat /\ lag' <= 2 * interval' + 1
  BY <1>0, <1>1 DEF Complete, Inv, TypeOK
<1>3. pc' \in PCs /\ (interval' = 0 <=> pc' = "dead")
  BY <1>0, <1>1 DEF Complete, PCs
<1>4. stamped' \in BOOLEAN /\ lost' \in BOOLEAN /\ queue' \subseteq Programs
  BY DEF Complete
<1>5. TypeOK'
  BY <1>1, <1>2, <1>3, <1>4 DEF TypeOK, Inv
<1>6. Deadline' /\ DeadUnstamped'
  BY <1>1 DEF Deadline, DeadUnstamped, Complete, Inv
<1>7. lag' <= interval' /\ lag' + wait' <= interval'
  BY <1>0, <1>1, <1>2 DEF Complete
<1>8. Fresh'
  BY <1>7 DEF Fresh, Complete
<1> QED
  BY <1>5, <1>6, <1>8 DEF Rest

LEMMA StepInv == Inv /\ [Next]_vars => Inv'
<1> SUFFICES ASSUME Inv, [Next]_vars PROVE TypeOK' /\ Rest'
  BY DEF Inv, Rest
<1>0. interval \in Nat
  BY IntervalType DEF Inv
<1>c. calm' \in BOOLEAN
  BY DEF Inv, TypeOK, Next, SweepStep, Faults, OthersWrite, BecomesCalm, Tick,
     vars
<1> USE <1>0, <1>c DEF config_vars, program_vars, clock_vars, stamp_vars
<1>1. ASSUME Fire PROVE TypeOK' /\ Rest'
  <2>1. TypeOK'
    BY <1>1 DEF Inv, TypeOK, PCs, Running, Spawned, Fire
  <2>2. Rest'
    BY <1>1 DEF Inv, TypeOK, Rest, Deadline, Fresh, DeadUnstamped,
       Running, Spawned, Fire
  <2> QED
    BY <2>1, <2>2
<1>2. ASSUME EmptyCycle PROVE TypeOK' /\ Rest'
  BY <1>2, CompleteStep DEF EmptyCycle, Inv, TypeOK
<1>3. ASSUME LoadIds PROVE TypeOK' /\ Rest'
  <2>1. TypeOK'
    BY <1>3 DEF Inv, TypeOK, PCs, Running, Spawned, LoadIds, Goes
  <2>2. Rest'
    BY <1>3 DEF Inv, TypeOK, Rest, Deadline, Fresh, DeadUnstamped,
       Running, Spawned, LoadIds, Goes
  <2> QED
    BY <2>1, <2>2
<1>4. ASSUME Fetch PROVE TypeOK' /\ Rest'
  <2>1. TypeOK'
    BY <1>4 DEF Inv, TypeOK, PCs, Running, Spawned, Fetch, Goes
  <2>2. Rest'
    BY <1>4 DEF Inv, TypeOK, Rest, Deadline, Fresh, DeadUnstamped,
       Running, Spawned, Fetch, Goes
  <2> QED
    BY <2>1, <2>2
<1>5. ASSUME Upsert PROVE TypeOK' /\ Rest'
  <2>1. TypeOK'
    BY <1>5 DEF Inv, TypeOK, PCs, Running, Spawned, Upsert, Goes
  <2>2. Rest'
    BY <1>5 DEF Inv, TypeOK, Rest, Deadline, Fresh, DeadUnstamped,
       Running, Spawned, Upsert, Goes
  <2> QED
    BY <2>1, <2>2
<1>6. ASSUME LoadCandidates PROVE TypeOK' /\ Rest'
  <2>1. CASE Complete
    <3>1. pc # "dead" /\ tracked' \subseteq Programs /\ flagged' \subseteq tracked'
      BY <1>6 DEF Inv, TypeOK, LoadCandidates, Limited
    <3> QED
      BY <2>1, <3>1, CompleteStep
  <2>2. CASE ~Complete
    <3>1. /\ UNCHANGED <<config_vars, pc, clock_vars, stamp_vars, tracked>>
          /\ queue' \subseteq Programs /\ flagged' \subseteq tracked
      BY <1>6, <2>2 DEF Inv, TypeOK, LoadCandidates, Limited
    <3>2. TypeOK'
      BY <3>1 DEF Inv, TypeOK
    <3>3. Rest'
      BY <3>1 DEF Inv, Rest, Deadline, Fresh, DeadUnstamped
    <3> QED
      BY <3>2, <3>3
  <2> QED
    BY <2>1, <2>2
<1>7. ASSUME NEW p \in Programs, Reverify(p) PROVE TypeOK' /\ Rest'
  <2>1. CASE Complete
    <3>1. pc # "dead" /\ tracked' \subseteq Programs /\ flagged' \subseteq tracked'
      BY <1>7 DEF Inv, TypeOK, Reverify, Handle
    <3> QED
      BY <2>1, <3>1, CompleteStep
  <2>2. CASE ~Complete
    <3>1. /\ UNCHANGED <<config_vars, pc, clock_vars, stamp_vars, tracked>>
          /\ queue' \subseteq Programs /\ flagged' \subseteq tracked
      BY <1>7, <2>2 DEF Inv, TypeOK, Reverify, Handle
    <3>2. TypeOK'
      BY <3>1 DEF Inv, TypeOK
    <3>3. Rest'
      BY <3>1 DEF Inv, Rest, Deadline, Fresh, DeadUnstamped
    <3> QED
      BY <3>2, <3>3
  <2> QED
    BY <2>1, <2>2
<1>8. ASSUME NEW p \in Programs, ClearFails(p) PROVE TypeOK' /\ Rest'
  <2>1. CASE Complete
    <3>1. pc # "dead" /\ tracked' \subseteq Programs /\ flagged' \subseteq tracked'
      BY <1>8 DEF Inv, TypeOK, ClearFails, Handle
    <3> QED
      BY <2>1, <3>1, CompleteStep
  <2>2. CASE ~Complete
    <3>1. /\ UNCHANGED <<config_vars, pc, clock_vars, stamp_vars, tracked>>
          /\ queue' \subseteq Programs /\ flagged' \subseteq tracked
      BY <1>8, <2>2 DEF Inv, TypeOK, ClearFails, Handle
    <3>2. TypeOK'
      BY <3>1 DEF Inv, TypeOK
    <3>3. Rest'
      BY <3>1 DEF Inv, Rest, Deadline, Fresh, DeadUnstamped
    <3> QED
      BY <3>2, <3>3
  <2> QED
    BY <2>1, <2>2
<1>9. ASSUME FailCycle PROVE TypeOK' /\ Rest'
  <2>1. TypeOK'
    BY <1>9 DEF Inv, TypeOK, PCs, Running, Spawned, FailCycle
  <2>2. Rest'
    BY <1>9 DEF Inv, TypeOK, Rest, Deadline, Fresh, DeadUnstamped,
       Running, Spawned, FailCycle
  <2> QED
    BY <2>1, <2>2
<1>10. ASSUME Hang PROVE TypeOK' /\ Rest'
  <2>1. TypeOK'
    BY <1>10 DEF Inv, TypeOK, PCs, Running, Spawned, Hang
  <2>2. Rest'
    BY <1>10 DEF Inv, TypeOK, Rest, Deadline, Fresh, DeadUnstamped,
       Running, Spawned, Hang
  <2> QED
    BY <2>1, <2>2
<1>11. ASSUME LoadFails PROVE TypeOK' /\ Rest'
  BY <1>11, CompleteStep DEF LoadFails, Inv, TypeOK
<1>12. ASSUME Restart PROVE TypeOK' /\ Rest'
  <2>1. TypeOK'
    <3>1. interval' = interval /\ pc' \in PCs
      BY <1>12 DEF Restart, Spawned, PCs
    <3>2. interval' = 0 <=> pc' = "dead"
      BY <1>12, <3>1 DEF Restart, Spawned
    <3>3. /\ wait' \in Int /\ -interval' <= wait' /\ wait' <= interval'
          /\ elapsed' \in Nat /\ elapsed' <= interval' + 1
          /\ lag' \in Nat /\ lag' <= 2 * interval' + 1
      BY <1>12, <3>1 DEF Restart
    <3>4. stamped' \in BOOLEAN /\ lost' \in BOOLEAN
      BY <1>12 DEF Restart
    <3> QED
      BY <1>12, <3>1, <3>2, <3>3, <3>4 DEF Restart, Inv, TypeOK
  <2>2. Rest'
    BY <1>12 DEF Inv, TypeOK, Rest, Deadline, Fresh, DeadUnstamped,
       Running, Spawned, Restart
  <2> QED
    BY <2>1, <2>2
<1>13. ASSUME OthersWrite PROVE TypeOK' /\ Rest'
  <2>1. TypeOK'
    BY <1>13 DEF Inv, TypeOK, PCs, Running, Spawned, OthersWrite
  <2>2. Rest'
    BY <1>13 DEF Inv, TypeOK, Rest, Deadline, Fresh, DeadUnstamped,
       Running, Spawned, OthersWrite
  <2> QED
    BY <2>1, <2>2
<1>14. ASSUME Tick PROVE TypeOK' /\ Rest'
  <2>1. TypeOK'
    BY <1>14 DEF Inv, TypeOK, PCs, Running, Spawned, Tick, AtMost
  <2>2. Rest'
    BY <1>14 DEF Inv, TypeOK, Rest, Deadline, Fresh, DeadUnstamped,
       Running, Spawned, Tick, AtMost
  <2> QED
    BY <2>1, <2>2
<1>15. ASSUME UNCHANGED vars PROVE TypeOK' /\ Rest'
  <2>1. TypeOK'
    BY <1>15 DEF Inv, TypeOK, PCs, Running, Spawned, vars
  <2>2. Rest'
    BY <1>15 DEF Inv, TypeOK, Rest, Deadline, Fresh, DeadUnstamped,
       Running, Spawned, vars
  <2> QED
    BY <2>1, <2>2
<1>16. ASSUME BecomesCalm PROVE TypeOK' /\ Rest'
  <2>1. TypeOK'
    BY <1>16 DEF Inv, TypeOK, PCs, Running, Spawned, BecomesCalm
  <2>2. Rest'
    BY <1>16 DEF Inv, TypeOK, Rest, Deadline, Fresh, DeadUnstamped,
       Running, Spawned, BecomesCalm
  <2> QED
    BY <2>1, <2>2
<1> QED
  BY <1>1, <1>2, <1>3, <1>4, <1>5, <1>6, <1>7, <1>8,
     <1>9, <1>10, <1>11, <1>12, <1>13, <1>14, <1>15, <1>16
     DEF Next, SweepStep, Faults

\* The invariant holds for every interval and cap.
THEOREM Invariance == Spec => []Inv
<1>1. Inv /\ [Next]_vars => Inv'
  BY StepInv
<1> QED
  BY InitInv, <1>1, PTL DEF Spec

\* Every variable has its type.
THEOREM TypeCorrect == Spec => []TypeOK
<1>1. Inv => TypeOK
  BY DEF Inv
<1> QED
  BY Invariance, <1>1, PTL

\* /health/background-jobs answers 503 only when a cycle failed, hung or
\* outlasted the interval since the last stamp.
THEOREM NoFalseAlarm == Spec => []InactiveOnlyAfterFailure
<1>1. Inv => InactiveOnlyAfterFailure
  <2> SUFFICES ASSUME Inv, ~lost, stamped, lag > interval * 2 PROVE FALSE
    BY DEF InactiveOnlyAfterFailure, background_job_status, health
  <2>1. interval \in Nat /\ lag \in Nat /\ wait \in Int /\ elapsed \in Nat
    BY IntervalType DEF Inv, TypeOK
  <2>2. lag <= interval \/ (elapsed <= interval /\ lag <= interval + elapsed)
    BY DEF Inv, Fresh
  <2> QED
    BY <2>1, <2>2
<1> QED
  BY Invariance, <1>1, PTL

\* Two cycles of one process start at least an interval apart.
THEOREM NoBurst == Spec => StartsSpaced
<1>1. Inv /\ [Next]_vars => [Fire => elapsed >= interval]_vars
  <2> SUFFICES ASSUME Inv, Fire PROVE elapsed >= interval
    OBVIOUS
  <2>1. interval \in Nat /\ wait \in Int /\ elapsed \in Nat
    BY IntervalType DEF Inv, TypeOK
  <2>2. wait <= 0 /\ Deadline
    BY DEF Fire, Inv
  <2> QED
    BY <2>1, <2>2 DEF Deadline
<1> QED
  BY Invariance, <1>1, PTL DEF Spec, StartsSpaced
=============================================================================
