--------------------------- MODULE MonitorProofs ---------------------------
(***************************************************************************)
(* What a monitor holds and reports, for any number of descriptors, of      *)
(* reloads and of CPU seconds.                                              *)
(***************************************************************************)
EXTENDS Monitor, TLAPS

USE MonitorAssumption

\* The reload under way accounts for what its monitor will leave.
LeftByReloads == left <= 3 * (IF cancelled THEN reloads - 1 ELSE reloads)

\* Since a sample received whole no CPU time has gone unnoticed.
CpuIsAccounted == primed /\ ~blind => cpu <= t0 + used

IInv ==
  /\ TypeOK /\ HoldsWhatItNeeds
  /\ cancelled => reloads >= 1
  /\ LeftByReloads /\ CpuIsAccounted

-----------------------------------------------------------------------------
\* The steps that leave CPU times alone.
LEMMA ControlSteps ==
  ASSUME IInv,
         \/ Start \/ Connect \/ OpenFile \/ Socket \/ TalkFails \/ Sleep
         \/ Write \/ OpenEnv \/ CloseEnv \/ Close \/ Heed
  PROVE  IInv'
<1> USE DEF IInv
<1>1. UNCHANGED <<primed, left, busy, cancelled, reloads, ready, up, cpu, t0, report, blind, used>>
  BY DEF Start, Connect, OpenFile, Socket, TalkFails, Sleep, Write, OpenEnv, CloseEnv, Close, Heed,
         fds, control, database, usage
<1>2. /\ pc' \in {"start", "done", "socket", "talk"} \cup Blocking
      /\ open' \in 0 .. 3
  BY DEF TypeOK, HoldsWhatItNeeds, Needed, Start, Connect, OpenFile, Socket, TalkFails, Failed, Sleep,
         Write, OpenEnv, CloseEnv, AfterEnv, Close, Heed, fds, Blocking
<1>3. link' \in {"none", "live", "stale", "reset"} /\ token' \in BOOLEAN
  <2>1. link' = link \/ link' = "live"
    BY DEF Start, Connect, OpenFile, Socket, TalkFails, Sleep, Write, OpenEnv, CloseEnv, Close, Heed,
           database
  <2>2. CASE OpenEnv
    <3>1. token' = (open + left + busy < Fds /\ (pc = "host" => token))
      BY <2>2 DEF OpenEnv, Room
    <3> QED
      BY <2>1, <3>1 DEF TypeOK
  <2>3. CASE ~OpenEnv
    <3>1. token' = token
      BY <2>3 DEF Start, Connect, OpenFile, Socket, TalkFails, Sleep, Write, CloseEnv, Close, Heed,
             database
    <3> QED
      BY <2>1, <3>1 DEF TypeOK
  <2> QED
    BY <2>2, <2>3
<1>4. TypeOK'
  BY <1>1, <1>2, <1>3 DEF TypeOK, Blocking
<1>5. /\ pc' # "done" => open' = Needed'
      /\ pc' = "done" /\ ~cancelled' => open' <= 1
  <2>1. pc # "done" /\ open = Needed
    BY DEF HoldsWhatItNeeds, Start, Connect, OpenFile, Socket, TalkFails, Sleep,
           Write, OpenEnv, CloseEnv, Close, Heed, Blocking
  <2>2. CASE Start \/ Connect \/ OpenFile
    BY <2>1, <2>2 DEF Needed, Start, Connect, OpenFile
  <2>3. CASE Socket \/ TalkFails \/ Sleep
    BY <2>1, <2>3 DEF Needed, Socket, TalkFails, Failed, Sleep, fds
  <2>4. CASE Write \/ OpenEnv \/ CloseEnv \/ Close
    BY <2>1, <2>4 DEF Needed, Write, OpenEnv, CloseEnv, AfterEnv, Close, fds
  <2>5. CASE Heed
    BY <2>5 DEF Heed, control
  <2> QED
    BY <2>2, <2>3, <2>4, <2>5
<1>6. HoldsWhatItNeeds' /\ LeftByReloads' /\ CpuIsAccounted'
  BY <1>1, <1>5 DEF HoldsWhatItNeeds, LeftByReloads, CpuIsAccounted
<1> QED
  BY <1>1, <1>4, <1>6

\* A sample.
LEMMA AnsweredStep ==
  ASSUME IInv, Answered
  PROVE  IInv' /\ (primed /\ ~blind /\ ~blind' => report' \in 0 .. used)
<1> USE DEF IInv
<1>0. PICK whole \in BOOLEAN : \E t1 \in Parsed(whole) :
        /\ report' = IF primed THEN cpu_percentages(t1) ELSE 0
        /\ t0' = t1 /\ blind' = ~whole /\ used' = 0
  BY DEF Answered, Evaluate
<1>1. PICK t1 \in Parsed(whole) :
        /\ report' = IF primed THEN cpu_percentages(t1) ELSE 0
        /\ t0' = t1 /\ blind' = ~whole /\ used' = 0
  BY <1>0
<1>2. t1 \in 0 .. MaxCpu /\ (whole => t1 = cpu)
  BY <1>1 DEF TypeOK, Parsed
<1>3. cpu_percentages(t1) \in 0 .. MaxCpu
  BY <1>2 DEF TypeOK, cpu_percentages
<1>4. UNCHANGED <<left, busy, cancelled, reloads, ready, up, link, token, cpu>>
  BY DEF Answered, control, database
<1>5. pc' \in {"write", "sleep"} /\ open = 3 /\ open' = 2 /\ primed' \in BOOLEAN
  <2>1. pc = "talk" /\ open = 3 /\ open' = 2
    BY DEF Answered, HoldsWhatItNeeds, Needed
  <2> QED
    BY <2>1 DEF Answered, TypeOK
<1>6. blind' \in BOOLEAN /\ (~blind' => whole)
  BY <1>1, Zenon
<1>7. TypeOK'
  <2>1. report' \in 0 .. MaxCpu /\ t0' \in 0 .. MaxCpu /\ used' \in 0 .. MaxCpu
    BY <1>1, <1>2, <1>3 DEF TypeOK
  <2> QED
    BY <2>1, <1>4, <1>5, <1>6 DEF TypeOK, Blocking
<1>8. HoldsWhatItNeeds' /\ LeftByReloads'
  BY <1>4, <1>5 DEF HoldsWhatItNeeds, Needed, LeftByReloads
<1>9. CpuIsAccounted'
  BY <1>1, <1>2, <1>4, <1>6 DEF CpuIsAccounted, TypeOK
<1>10. primed /\ ~blind /\ ~blind' => report' \in 0 .. used
  BY <1>1, <1>2, <1>6 DEF CpuIsAccounted, cpu_percentages, TypeOK
<1> QED
  BY <1>4, <1>7, <1>8, <1>9, <1>10

\* The ends of a monitor's life that reload_config() and SIGPIPE bring.
LEMMA EndSteps ==
  ASSUME IInv, Cancel \/ Replace \/ Killed
  PROVE  IInv'
<1> USE DEF IInv
<1>1. CASE Cancel
  <2>1. UNCHANGED <<pc, primed, open, left, busy, ready, up, link, token, cpu, t0, report, blind, used>>
    BY <1>1 DEF Cancel, fds, database, usage
  <2>2. ~cancelled /\ cancelled' /\ cancelled' \in BOOLEAN
        /\ reloads' = reloads + 1 /\ reloads' \in 0 .. MaxReloads
    BY <1>1 DEF Cancel, TypeOK
  <2>3. TypeOK'
    BY <2>1, <2>2 DEF TypeOK, Blocking
  <2>4. left <= 3 * reloads /\ reloads \in Nat /\ left \in Nat
    BY <2>2 DEF LeftByReloads, TypeOK
  <2>5. HoldsWhatItNeeds' /\ LeftByReloads'
    BY <2>1, <2>2, <2>4 DEF HoldsWhatItNeeds, Needed, LeftByReloads
  <2> QED
    BY <2>1, <2>2, <2>3, <2>4, <2>5 DEF CpuIsAccounted
<1>2. CASE Replace
  <2>1. cancelled /\ ~cancelled' /\ cancelled' \in BOOLEAN /\ reloads' = reloads
    BY <1>2 DEF Replace
  <2>2. left <= 3 * (reloads - 1) /\ reloads \in Nat /\ left \in Nat /\ open \in 0 .. 3
    BY <2>1 DEF LeftByReloads, TypeOK
  <2>3. left' = left + open /\ left' \in Nat /\ left' <= 3 * reloads /\ open' = 0 /\ pc' = "start"
    BY <1>2, <2>2 DEF Replace
  <2>4. TypeOK'
    <3>1. /\ t0' \in 0 .. MaxCpu /\ report' \in 0 .. MaxCpu /\ used' \in 0 .. MaxCpu
          /\ open' \in 0 .. 3
      BY <1>2, <2>3 DEF Replace
    <3>2. primed' \in BOOLEAN /\ token' \in BOOLEAN /\ blind' \in BOOLEAN
      BY <1>2 DEF Replace
    <3> QED
      BY <1>2, <2>1, <2>3, <3>1, <3>2 DEF Replace, TypeOK
  <2>5. HoldsWhatItNeeds' /\ LeftByReloads'
    BY <2>1, <2>3 DEF HoldsWhatItNeeds, Needed, LeftByReloads
  <2> QED
    BY <1>2, <2>1, <2>4, <2>5 DEF Replace, CpuIsAccounted
<1>3. CASE Killed
  <2>1. TypeOK'
    <3>1. /\ t0' \in 0 .. MaxCpu /\ report' \in 0 .. MaxCpu /\ used' \in 0 .. MaxCpu
          /\ open' \in 0 .. 3 /\ left' \in Nat /\ busy' \in 0 .. MaxBusy
      BY <1>3 DEF Killed
    <3>2. /\ primed' \in BOOLEAN /\ token' \in BOOLEAN /\ blind' \in BOOLEAN /\ cancelled' \in BOOLEAN
          /\ pc' = "start" /\ link' = "none"
      BY <1>3 DEF Killed
    <3> QED
      BY <1>3, <3>1, <3>2 DEF Killed, TypeOK
  <2>2. HoldsWhatItNeeds' /\ LeftByReloads' /\ CpuIsAccounted' /\ ~cancelled'
    BY <1>3 DEF Killed, TypeOK, HoldsWhatItNeeds, Needed, LeftByReloads, CpuIsAccounted
  <2> QED
    BY <2>1, <2>2
<1> QED
  BY <1>1, <1>2, <1>3

\* Rows, and what goes on around the monitor.
LEMMA OtherSteps ==
  ASSUME IInv, Post \/ Backend \/ Work \/ Database \/ Others \/ UNCHANGED vars
  PROVE  IInv'
<1> USE DEF IInv
<1>1. UNCHANGED <<primed, open, left, cancelled, reloads, t0, blind>>
  BY DEF Post, Backend, Work, Database, Others, vars, fds, control, usage
<1>2. /\ pc' = pc \/ (pc = "post" /\ pc' = "sleep")
      /\ report' \in 0 .. MaxCpu
      /\ link' \in {"none", "live", "stale", "reset"}
  BY DEF TypeOK, Post, Backend, Work, Database, Others, vars, usage, database
<1>3. ready' \in BOOLEAN /\ up' \in BOOLEAN /\ token' \in BOOLEAN
  BY DEF TypeOK, Post, Backend, Work, Database, Others, vars, database
<1>4. busy' \in 0 .. MaxBusy
  BY DEF TypeOK, Post, Backend, Work, Database, Others, vars, fds
<1>5. /\ cpu' \in 0 .. MaxCpu /\ used' \in 0 .. MaxCpu
      /\ cpu' <= t0 + used' \/ ~(cpu <= t0 + used)
  BY DEF TypeOK, Post, Backend, Work, Database, Others, vars, usage
<1>6. TypeOK'
  BY <1>1, <1>2, <1>3, <1>4, <1>5 DEF TypeOK, Blocking
<1>7. HoldsWhatItNeeds' /\ LeftByReloads'
  BY <1>1, <1>2 DEF HoldsWhatItNeeds, Needed, LeftByReloads
<1> QED
  BY <1>1, <1>5, <1>6, <1>7 DEF CpuIsAccounted

-----------------------------------------------------------------------------
(* In every reachable state descriptors and CPU times are accounted for     *)
(* (request_per_second() and what it calls).                                *)
THEOREM Inductive == Safety => []IInv
<1>1. Init => IInv
  <2> SUFFICES ASSUME Init PROVE IInv
    OBVIOUS
  <2>1. /\ cpu \in 0 .. MaxCpu /\ t0 \in 0 .. MaxCpu /\ report \in 0 .. MaxCpu /\ used \in 0 .. MaxCpu
        /\ open \in 0 .. 3 /\ left \in Nat /\ busy \in 0 .. MaxBusy /\ reloads \in 0 .. MaxReloads
    BY DEF Init
  <2>2. TypeOK
    BY <2>1 DEF Init, TypeOK
  <2>3. HoldsWhatItNeeds /\ LeftByReloads /\ CpuIsAccounted /\ ~cancelled
    BY DEF Init, HoldsWhatItNeeds, Needed, LeftByReloads, CpuIsAccounted
  <2> QED
    BY <2>2, <2>3 DEF IInv
<1>2. IInv /\ [Next]_vars => IInv'
  BY ControlSteps, AnsweredStep, EndSteps, OtherSteps DEF Next, Step
<1> QED
  BY <1>1, <1>2, PTL DEF Safety

(* The monitor's variables keep their types.                                *)
THEOREM TypeCorrect == Safety => []TypeOK
  BY Inductive, PTL DEF IInv

(* A monitor never holds a descriptor it does not use, and reloads leave no *)
(* more than three each behind (request_metrics(), request_per_second()).   *)
THEOREM NothingElseHeld == Safety => []HoldsWhatItNeeds
  BY Inductive, PTL DEF IInv

(* Whole samples never claim CPU time twice (calculate_metrics(), cpu_t0).  *)
THEOREM CpuNotOverstated == Safety => CpuIsNotOverstated
<1> DEFINE A == pc = "talk" /\ pc' = "write" /\ ~blind /\ ~blind' => report' \in 0 .. used
<1>1. IInv /\ [Next]_vars => [A]_vars
  <2> SUFFICES ASSUME IInv, Next, pc = "talk", pc' = "write", ~blind, ~blind'
               PROVE  report' \in 0 .. used
    BY DEF vars
  <2>1. Answered /\ primed
    BY DEF Next, Step, Start, Connect, OpenFile, Socket, Answered, TalkFails, Failed, Sleep, Write,
           OpenEnv, CloseEnv, AfterEnv, Post, Killed, Close, Cancel, Heed, Replace, Backend, Work, Database,
           Others, TypeOK, IInv
  <2> QED
    BY <2>1, AnsweredStep
<1> QED
  BY <1>1, Inductive, PTL DEF Safety, CpuIsNotOverstated
=============================================================================
