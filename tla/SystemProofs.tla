---------------------------- MODULE SystemProofs ----------------------------
(***************************************************************************)
(* The composition keeps what the scaler promises by itself, and prescal    *)
(* routes over what the file holds, for every range of ports, every set of  *)
(* forecasts and any number of exits and faults.                            *)
(***************************************************************************)
EXTENDS System, ScalerProofs

USE SystemAssumption

\* Every step of the system is one of the scaler and its containers, or one
\* that they do not see.
LEMMA StepsOfScaler ==
  ASSUME TypeOK, [SysNext]_sysVars
  PROVE  [Next]_vars
<1>1. CASE Scaling
  BY <1>1 DEF Scaling, NewRound, Scale, Write, Next, Round
<1>2. CASE Break \/ Disturb
  BY <1>2 DEF Break, Disturb, Next
<1>3. CASE Sample
  <2>1. UNCHANGED <<running, exits, file, process, lost, faults>>
    BY <1>3 DEF Sample
  <2>2. CASE data
    <3>1. data' = data
      BY <1>3, <2>2, Zenon DEF Sample, TypeOK
    <3> QED
      BY <2>1, <3>1 DEF vars, world
  <2>3. CASE ~data
    <3>1. data' = ~data
      BY <1>3, <2>3, Zenon DEF Sample, TypeOK
    <3> QED
      BY <2>1, <3>1 DEF Next, Record
  <2> QED
    BY <2>2, <2>3
<1>4. CASE Expire
  BY <1>4 DEF Expire, Next
<1>5. CASE \/ AddWatch \/ ReadEvent \/ Reload \/ StartMonitors \/ Crash \/ MonitorFails
           \/ UNCHANGED sysVars
  BY <1>5 DEF AddWatch, ReadEvent, Reload, StartMonitors, Crash, MonitorFails, sysVars
<1> QED
  BY <1>1, <1>2, <1>3, <1>4, <1>5 DEF SysNext

\* What the scaler's proofs need of its steps, for those of the system.
LEMMA ScalerInvariant == SysSafety => []IInv
<1>1. SysInit => IInv
  BY InitHolds DEF SysInit
<1>2. IInv /\ [SysNext]_sysVars => IInv'
  <2> SUFFICES ASSUME IInv, [SysNext]_sysVars
               PROVE  IInv'
    OBVIOUS
  <2>1. [Next]_vars
    BY StepsOfScaler DEF IInv
  <2> QED
    BY <2>1, ExitStep, PlanStep, StartOneStep, StopOneStep, RefreshStep, OtherSteps DEF Next, Round
<1> QED
  BY <1>1, <1>2, PTL DEF SysSafety

(* The composition implements the scaler's specification: what prescal and  *)
(* the samples do are steps of the world it reckons with.                   *)
THEOREM SystemImplementsScaler == SysSafety => Safety
<1>1. SysInit => Init
  BY DEF SysInit
<1>2. IInv /\ [SysNext]_sysVars => [Next]_vars
  BY StepsOfScaler DEF IInv
<1> QED
  BY <1>1, <1>2, ScalerInvariant, PTL DEF SysSafety, Safety

(* So what the scaler promises holds next to prescal.                       *)
THEOREM ScalerStaysSafe ==
  SysSafety => [](TypeOK /\ ReachesForecast /\ StartsOnFreePorts) /\ RoundIsPublished
  BY SystemImplementsScaler, TypeCorrect, ForecastReached, FreePortsAreFree, RoundPublished, PTL

-----------------------------------------------------------------------------
\* prescal's variables keep their types, and only backends in its list are
\* monitored (start_metric_threads()).
LEMMA PrescalTypeCorrect == SysSafety => []PrescalTypeOK
<1>1. SysInit => PrescalTypeOK
  <2> SUFFICES ASSUME SysInit PROVE PrescalTypeOK
    OBVIOUS
  <2>1. forwards \subseteq Port
    BY DEF SysInit, Init
  <2>2. dry \in 0 .. Window /\ breaks \in 0 .. MaxBreaks
    BY DEF SysInit
  <2>3. pool \subseteq Port /\ monitored \subseteq pool
    BY <2>1 DEF SysInit
  <2> QED
    BY <2>2, <2>3 DEF SysInit, PrescalTypeOK
<1>2. TypeOK /\ PrescalTypeOK /\ [SysNext]_sysVars => PrescalTypeOK'
  <2> SUFFICES ASSUME TypeOK, PrescalTypeOK, [SysNext]_sysVars
               PROVE  PrescalTypeOK'
    OBVIOUS
  <2>0. forwards \subseteq Port
    BY DEF TypeOK
  <2>1. CASE AddWatch \/ ReadEvent \/ Reload \/ StartMonitors
    BY <2>0, <2>1 DEF PrescalTypeOK, AddWatch, ReadEvent, Reload, StartMonitors
  <2>2. CASE Crash \/ MonitorFails
    <3>1. breaks' \in 0 .. MaxBreaks
      BY <2>2 DEF PrescalTypeOK, Crash, MonitorFails
    <3>2. pool' \subseteq Port /\ monitored' \subseteq pool' /\ dry' = dry
      BY <2>0, <2>2 DEF PrescalTypeOK, Crash, MonitorFails
    <3>3. engine' \in {"boot", engine} /\ event' \in {FALSE, event} /\ missed' \in {FALSE, missed}
      BY <2>2 DEF Crash, MonitorFails
    <3> QED
      BY <3>1, <3>2, <3>3 DEF PrescalTypeOK
  <2>3. CASE Sample \/ Expire \/ Scale \/ Disturb \/ UNCHANGED sysVars
    BY <2>3 DEF PrescalTypeOK, Sample, Expire, Scale, Disturb, prescal, sysVars
  <2>4. CASE NewRound
    BY <2>4 DEF PrescalTypeOK, NewRound, prescal
  <2>5. CASE Write \/ Break
    BY <2>5 DEF PrescalTypeOK, Write, Break, Publish, Notify
  <2> QED
    BY <2>1, <2>2, <2>3, <2>4, <2>5 DEF SysNext, Scaling
<1> QED
  BY <1>1, <1>2, ScalerStaysSafe, PTL DEF SysSafety

(* All variables keep their types: those of the scaler's rounds (main()) and *)
(* those of prescal, which monitors only backends of its list               *)
(* (start_metric_threads()).                                                *)
THEOREM SysTypeCorrect == SysSafety => []SysTypeOK
  BY ScalerStaysSafe, PrescalTypeCorrect, PTL DEF SysTypeOK

(* However often the file is rewritten while prescal reloads it or is       *)
(* restarted, a prescal at rest has the list of the file, unless the change *)
(* came before inotify_add_watch() (watch_config(), reload_config()).       *)
THEOREM PoolStaysCurrent == SysSafety => []PoolIsCurrent
<1>1. SysInit => PoolIsCurrent
  BY DEF SysInit, PoolIsCurrent
<1>2. PrescalTypeOK /\ PoolIsCurrent /\ [SysNext]_sysVars => PoolIsCurrent'
  <2> SUFFICES ASSUME PrescalTypeOK, PoolIsCurrent, [SysNext]_sysVars
               PROVE  PoolIsCurrent'
    OBVIOUS
  <2>1. CASE AddWatch \/ ReadEvent \/ Reload \/ StartMonitors \/ Crash \/ MonitorFails
    BY <2>1 DEF PoolIsCurrent, AddWatch, ReadEvent, Reload, StartMonitors, Crash, MonitorFails,
                vars, file
  <2>2. CASE Sample \/ Expire \/ NewRound \/ Scale \/ Disturb \/ UNCHANGED sysVars
    <3>1. UNCHANGED <<engine, event, pool, missed, forwards>>
      BY <2>2 DEF Sample, Expire, NewRound, Scale, Disturb, prescal, sysVars, vars, file, world,
                  Record, Forecast, Plan, StartOne, StopOne, Refresh, Exit, Restart
    <3> QED
      BY <3>1 DEF PoolIsCurrent
  <2>3. CASE Write \/ Break
    <3>1. CASE file' = file
      BY <2>3, <3>1 DEF PoolIsCurrent, Write, Break, Publish, file
    <3>2. CASE file' # file
      BY <2>3, <3>2 DEF PoolIsCurrent, PrescalTypeOK, Write, Break, Publish, Notify
    <3> QED
      BY <3>1, <3>2
  <2> QED
    BY <2>1, <2>2, <2>3 DEF SysNext, Scaling
<1> QED
  BY <1>1, <1>2, PrescalTypeCorrect, PTL DEF SysSafety

-----------------------------------------------------------------------------
(* prescal as it appears in the system is the proxy that Engine implements. *)
P == INSTANCE Proxy WITH Lists <- SUBSET Port, NULL <- 0,
                         published <- forwards, active <- pool, serving <- 0

(* Next to the scaler, prescal is module Proxy without its requests: the    *)
(* pool only ever becomes what the file holds (reload_config()), and comes  *)
(* back with that after a crash (main()).                                   *)
THEOREM SystemImplementsProxy == SysSafety => P!Safety
<1>1. SysInit => P!Init
  <2> SUFFICES ASSUME SysInit PROVE P!Init
    OBVIOUS
  <2>1. forwards \subseteq Port /\ pool = forwards
    BY DEF SysInit, Init
  <2> QED
    BY <2>1 DEF P!Init
<1>2. TypeOK' /\ [SysNext]_sysVars => [P!Next]_(P!proxyVars)
  <2> SUFFICES ASSUME TypeOK', [SysNext]_sysVars
               PROVE  [P!Next]_(P!proxyVars)
    OBVIOUS
  <2>1. CASE Write \/ Break
    <3>1. pool' = pool /\ forwards' \subseteq Port
      BY <2>1 DEF Write, Break, TypeOK
    <3> QED
      BY <3>1 DEF P!Next, P!Publish
  <2>2. CASE Reload
    BY <2>2 DEF Reload, vars, file, P!Next, P!Adopt
  <2>3. CASE Crash
    BY <2>3 DEF Crash, vars, file, P!Next, P!Restart
  <2>4. CASE \/ Sample \/ Expire \/ NewRound \/ Scale \/ Disturb
             \/ AddWatch \/ ReadEvent \/ StartMonitors \/ MonitorFails \/ UNCHANGED sysVars
    <3>1. UNCHANGED <<forwards, pool>>
      BY <2>4 DEF Sample, Expire, NewRound, Scale, Disturb, AddWatch, ReadEvent, StartMonitors,
                  MonitorFails, prescal, sysVars, vars, file, world, Record, Forecast, Plan,
                  StartOne, StopOne, Refresh, Exit, Restart
    <3> QED
      BY <3>1 DEF P!proxyVars
  <2> QED
    BY <2>1, <2>2, <2>3, <2>4 DEF SysNext, Scaling
<1> QED
  BY <1>1, <1>2, ScalerStaysSafe, PTL DEF SysSafety, P!Safety
=============================================================================
