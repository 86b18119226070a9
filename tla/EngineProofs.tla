---------------------------- MODULE EngineProofs ----------------------------
(* Theorems about Engine.                                                   *)
EXTENDS Engine, FiniteSetTheorems, TLAPS

USE EngineAssumption

\* The operands of % are never zero where engine.c uses it.
LEMMA ModRange == ASSUME NEW x \in Int, NEW n \in Nat \ {0} PROVE x % n \in Idx(n)
  BY SMT DEF Idx

LEMMA OneMonitor ==
  ASSUME ThreadType, NEW t \in Tid, NEW m \in MonitorState,
         mon' = [mon EXCEPT ![t] = m], UNCHANGED <<threads, spawn>>
  PROVE  ThreadType'
  BY DEF ThreadType

LEMMA CrashType == TypeOK /\ Crash => TypeOK'
  <1> SUFFICES ASSUME TypeOK, Crash PROVE TypeOK'
    OBVIOUS
  <1>1. file \in Seq(Port) /\ Len(file) \in Nat
    BY DEF TypeOK, EnvType, CounterType, ThreadType, LocalType
  <1>2. ctrPtr' \in Addr \cup {NULL}
    BY DEF Crash, BootPtrs
  <1>3. DOMAIN cells' = Addr /\ \A a \in Addr : cells'[a] \in [DOMAIN cells'[a] -> SUBSET (Port \cup {NULL})]
    BY <1>1 DEF Crash, BootCells, Zeroed
  <1>4. pc' \in [req : ReqPc, wat : WatPc, log : LogPc]
    BY DEF Crash, BootPc, ReqPc, WatPc, LogPc
  <1>5. mon' \in [Tid -> MonitorState]
    BY DEF Crash, NoMonitor, MonitorState, MonPc
  <1>6. threads' \in [DOMAIN threads' -> Tid \cup {Uninit}]
    BY DEF Crash, Uninitialised
  <1>7. spawn' \in [{"req", "wat"} -> [todo : Seq(Port), at : Nat]]
    BY DEF Crash, NoSpawn
  <1>8. /\ file' \in Lists /\ backends' \in Lists
        /\ writer' \in {"idle", "dumping"} /\ writes' \in 0 .. MaxWrites
        /\ pending' \in BOOLEAN
        /\ mutex' \in {"free", "wat", "log"}
    BY DEF TypeOK, EnvType, CounterType, ThreadType, LocalType, Crash, environment
  <1>9. rr' \in Idx(RRSpan) /\ ctrSize' \in Nat /\ live' \subseteq Addr
    BY <1>1, <1>2 DEF Crash, Idx
  <1>10. /\ req' \in [port : Port \cup {NULL}, index : Nat, size : Nat, ptr : Addr \cup {NULL}]
         /\ wat' \in [at : Nat, old : Addr \cup {NULL}]
         /\ log' \in [at : Nat, ptr : Addr \cup {NULL}]
    BY DEF Crash, NoRequest, BootWat, BootLog
  <1> QED
    BY <1>2, <1>3, <1>4, <1>5, <1>6, <1>7, <1>8, <1>9, <1>10 DEF TypeOK, EnvType, CounterType, ThreadType, LocalType

LEMMA PcAndPtr ==
  ASSUME NEW m \in MonitorState, NEW p \in MonPc, NEW a \in Addr \cup {NULL}
  PROVE  [m EXCEPT !.pc = p, !.ptr = a] \in MonitorState
  <1>1. [m EXCEPT !.pc = p, !.ptr = a] = [[m EXCEPT !.pc = p] EXCEPT !.ptr = a]
    BY DEF MonitorState
  <1> QED
    BY <1>1 DEF MonitorState

LEMMA StartedPc ==
  ASSUME LocalType
  PROVE  [pc EXCEPT !["req"] = "idle", !["log"] = "sleep"]
           = [[pc EXCEPT !["req"] = "idle"] EXCEPT !["log"] = "sleep"]
  BY DEF LocalType

\* What a step leaves alone keeps its type.
LEMMA EnvFrame ==
  EnvType /\ UNCHANGED <<file, writer, writes, pending, mutex, backends, rr>> => EnvType'
  BY DEF EnvType
LEMMA CounterFrame == CounterType /\ UNCHANGED <<ctrPtr, ctrSize, live, cells>> => CounterType'
  BY DEF CounterType
LEMMA ThreadFrame == ThreadType /\ UNCHANGED <<threads, mon, spawn>> => ThreadType'
  BY DEF ThreadType
LEMMA LocalFrame == LocalType /\ UNCHANGED <<pc, req, wat, log>> => LocalType'
  BY DEF LocalType

LEMMA TypeStep == TypeOK /\ [Next]_vars => TypeOK'
  <1> SUFFICES ASSUME TypeOK, [Next]_vars PROVE TypeOK'
    OBVIOUS
  <1> USE DEF TypeOK
  <1>1. CASE Truncate
    <2> USE <1>1 DEF Truncate, EngineUnchanged, Notify, Goto
    <2>1. EnvType'
      BY DEF EnvType
    <2> QED
      BY <2>1, CounterFrame, ThreadFrame, LocalFrame DEF counters
  <1>2. CASE Dump
    <2> USE <1>2 DEF Dump, EngineUnchanged, Notify, Goto
    <2>1. EnvType'
      BY DEF EnvType
    <2> QED
      BY <2>1, CounterFrame, ThreadFrame, LocalFrame DEF counters
  <1>3. CASE StartLogger
    <2> USE <1>3 DEF StartLogger, ReqUnchanged, environment, Goto
    <2>1. LocalType'
      BY StartedPc DEF LocalType, ReqPc, LogPc
    <2> QED
      BY <2>1, EnvFrame, CounterFrame, ThreadFrame DEF counters
  <1>4. CASE Receive
    <2> USE <1>4 DEF Receive, ReqUnchanged, environment, Goto
    <2>1. LocalType'
      BY DEF LocalType, ReqPc
    <2> QED
      BY <2>1, EnvFrame, CounterFrame, ThreadFrame DEF counters
  <1>5. CASE Pick
    <2> USE <1>5 DEF Pick, ReqUnchanged, environment, Goto
    <2>1. CASE backends = <<>>
      <3>1. LocalType'
        BY <2>1 DEF LocalType, ReqPc
      <3> QED
        BY <2>1, <3>1, EnvFrame, CounterFrame, ThreadFrame DEF counters
    <2>2. CASE backends # <<>>
      <3> DEFINE index == rr % Len(backends)
      <3>1. Len(backends) \in Nat \ {0} /\ backends \in Seq(Port)
        BY <2>2 DEF EnvType
      <3>2. rr \in Int /\ rr + 1 \in Int
        BY DEF EnvType, Idx
      <3>3. index \in Idx(Len(backends)) /\ (rr + 1) % RRSpan \in Idx(RRSpan)
        BY <3>1, <3>2, ModRange
      <3>4. index \in Nat /\ backends[index + 1] \in Port
        BY <3>1, <3>3 DEF Idx
      <3>5. EnvType'
        BY <2>2, <3>3 DEF EnvType
      <3>6. req' = [[req EXCEPT !.port = backends[index + 1]] EXCEPT !.index = index]
        BY <2>2 DEF LocalType
      <3>7. LocalType'
        BY <2>2, <3>4, <3>6 DEF LocalType, ReqPc
      <3> QED
        BY <3>5, <3>7, CounterFrame, ThreadFrame DEF counters
    <2> QED
      BY <2>1, <2>2
  <1>6. CASE LoadSize
    <2> USE <1>6 DEF LoadSize, ReqUnchanged, environment, Goto
    <2>1. LocalType'
      BY DEF LocalType, ReqPc, CounterType
    <2> QED
      BY <2>1, EnvFrame, CounterFrame, ThreadFrame DEF counters
  <1>7. CASE LoadPtr
    <2> USE <1>7 DEF LoadPtr, ReqUnchanged, environment, Goto
    <2>1. LocalType'
      BY DEF LocalType, ReqPc, CounterType
    <2> QED
      BY <2>1, EnvFrame, CounterFrame, ThreadFrame DEF counters
  <1>8. CASE Forward
    <2> USE <1>8 DEF Forward, ReqUnchanged, environment, Goto
    <2>1. ~Crash => LocalType'
      BY DEF LocalType, ReqPc, NoRequest
    <2> QED
      BY <2>1, EnvFrame, CounterFrame, ThreadFrame, CrashType DEF counters
  <1>9. CASE AddWatch
    <2> USE <1>9 DEF AddWatch, WatUnchanged, environment, Goto
    <2>1. LocalType'
      BY DEF LocalType, WatPc
    <2> QED
      BY <2>1, EnvFrame, CounterFrame, ThreadFrame DEF counters
  <1>10. CASE ReadEvent
    <2> USE <1>10 DEF ReadEvent, WatUnchanged, environment, Goto
    <2>1. EnvType'
      BY DEF EnvType
    <2>2. LocalType'
      BY DEF LocalType, WatPc
    <2> QED
      BY <2>1, <2>2, CounterFrame, ThreadFrame DEF counters
  <1>11. CASE LockReload
    <2> USE <1>11 DEF LockReload, WatUnchanged, environment, Goto
    <2>1. EnvType'
      BY DEF EnvType
    <2>2. LocalType'
      BY DEF LocalType, WatPc
    <2> QED
      BY <2>1, <2>2, CounterFrame, ThreadFrame DEF counters
  <1>12. CASE StopEnd
    <2> USE <1>12 DEF StopEnd, WatUnchanged, environment, Goto
    <2>1. ThreadType'
      BY DEF ThreadType, Uninitialised
    <2>2. LocalType'
      BY DEF LocalType, WatPc
    <2> QED
      BY <2>1, <2>2, EnvFrame, CounterFrame DEF counters
  <1>13. CASE ReadConfig
    <2> USE <1>13 DEF ReadConfig, WatUnchanged, environment, Goto
    <2>1. EnvType'
      BY DEF EnvType
    <2>2. LocalType'
      BY DEF LocalType, WatPc
    <2> QED
      BY <2>1, <2>2, CounterFrame, ThreadFrame DEF counters
  <1>14. CASE Resize
    <2> USE <1>14 DEF Resize, WatUnchanged, environment, Goto
    <2>1. CounterType'
      BY DEF CounterType, Zeroed
    <2>2. LocalType'
      BY DEF LocalType, CounterType, WatPc
    <2> QED
      BY <2>1, <2>2, EnvFrame, ThreadFrame DEF counters
  <1>15. CASE StoreSize
    <2> USE <1>15 DEF StoreSize, WatUnchanged, environment, Goto
    <2>1. CounterType'
      BY DEF CounterType, EnvType
    <2>2. LocalType'
      BY DEF LocalType, WatPc
    <2> QED
      BY <2>1, <2>2, EnvFrame, ThreadFrame DEF counters
  <1>16. CASE FreeOld
    <2> USE <1>16 DEF FreeOld, WatUnchanged, environment, Goto
    <2>1. CounterType'
      BY DEF CounterType, Zeroed
    <2>2. LocalType'
      BY DEF LocalType, WatPc
    <2> QED
      BY <2>1, <2>2, EnvFrame, ThreadFrame DEF counters
  <1>17. CASE UnlockReload
    <2> USE <1>17 DEF UnlockReload, WatUnchanged, environment, Goto
    <2>1. EnvType'
      BY DEF EnvType
    <2>2. LocalType'
      BY DEF LocalType, WatPc
    <2> QED
      BY <2>1, <2>2, CounterFrame, ThreadFrame DEF counters
  <1>18. CASE LogLock
    <2> USE <1>18 DEF LogLock, LogUnchanged, environment, Goto
    <2>1. EnvType'
      BY DEF EnvType
    <2>2. LocalType'
      BY DEF LocalType, LogPc
    <2> QED
      BY <2>1, <2>2, CounterFrame, ThreadFrame DEF counters
  <1>19. CASE LogLoadPtr
    <2> USE <1>19 DEF LogLoadPtr, LogUnchanged, environment, Goto
    <2>1. LocalType'
      BY DEF LocalType, LogPc, CounterType
    <2> QED
      BY <2>1, EnvFrame, CounterFrame, ThreadFrame DEF counters
  <1>20. CASE LogPeek
    <2> USE <1>20 DEF LogPeek, LogUnchanged, environment, Goto
    <2>1. LocalType'
      BY DEF LocalType, LogPc
    <2> QED
      BY <2>1, EnvFrame, CounterFrame, ThreadFrame DEF counters
  <1>21. CASE LogUnlock
    <2> USE <1>21 DEF LogUnlock, LogUnchanged, environment, Goto
    <2>1. EnvType'
      BY DEF EnvType
    <2>2. LocalType'
      BY DEF LocalType, LogPc
    <2> QED
      BY <2>1, <2>2, CounterFrame, ThreadFrame DEF counters
  <1>22. ASSUME NEW t \in Tid, MonitorStart(t) PROVE TypeOK'
    <2> USE <1>22 DEF MonitorStart, MonUnchanged, environment, Goto
    <2>1. mon[t] \in MonitorState
      BY DEF ThreadType
    <2>2. ThreadType'
      BY <2>1, OneMonitor DEF MonitorState, MonPc
    <2> QED
      BY <2>1, <2>2, EnvFrame, CounterFrame, LocalFrame DEF counters
  <1>23. ASSUME NEW t \in Tid, MonitorFail(t) PROVE TypeOK'
    <2> USE <1>23 DEF MonitorFail, MonUnchanged, environment, Goto
    <2>1. mon[t] \in MonitorState
      BY DEF ThreadType
    <2>2. ThreadType'
      BY <2>1, OneMonitor DEF MonitorState, MonPc
    <2> QED
      BY <2>1, <2>2, EnvFrame, CounterFrame, LocalFrame DEF counters
  <1>24. ASSUME NEW t \in Tid, MonitorSample(t) PROVE TypeOK'
    <2> USE <1>24 DEF MonitorSample, MonUnchanged, environment, Goto
    <2>1. mon[t] \in MonitorState
      BY DEF ThreadType
    <2>2. ThreadType'
      BY <2>1, OneMonitor, PcAndPtr DEF CounterType, MonPc
    <2> QED
      BY <2>1, <2>2, EnvFrame, CounterFrame, LocalFrame DEF counters
  <1>25. ASSUME NEW t \in Tid, MonitorCheck(t) PROVE TypeOK'
    <2> USE <1>25 DEF MonitorCheck, MonUnchanged, environment, Goto
    <2>1. mon[t] \in MonitorState
      BY DEF ThreadType
    <2>2. [mon[t] EXCEPT !.pc = "exchange"] \in MonitorState
      BY <2>1 DEF MonitorState, MonPc
    <2>3. ThreadType'
      BY <2>1, <2>2, OneMonitor, PcAndPtr DEF MonPc
    <2> QED
      BY <2>1, <2>2, <2>3, EnvFrame, CounterFrame, LocalFrame DEF counters
  <1>26. ASSUME NEW t \in Tid, MonitorExchange(t) PROVE TypeOK'
    <2> USE <1>26 DEF MonitorExchange, MonUnchanged, environment, Goto
    <2>1. mon[t] \in MonitorState
      BY DEF ThreadType
    <2>2. ~Crash => ThreadType'
      BY <2>1, OneMonitor, PcAndPtr DEF MonPc
    <2>3. ~Crash => CounterType'
      BY DEF CounterType, Valid
    <2> QED
      BY <2>1, <2>2, <2>3, EnvFrame, LocalFrame, CrashType DEF counters
  <1>27. ASSUME NEW t \in Tid, MonitorCancel(t) PROVE TypeOK'
    <2> USE <1>27 DEF MonitorCancel, MonUnchanged, environment, Goto
    <2>1. mon[t] \in MonitorState
      BY DEF ThreadType
    <2>2. ThreadType'
      BY <2>1, OneMonitor DEF MonitorState, MonPc
    <2> QED
      BY <2>1, <2>2, EnvFrame, CounterFrame, LocalFrame DEF counters
  <1>28. CASE Count
    <2> USE <1>28 DEF Count, ReqUnchanged, environment, Goto
    <2>1. ~Crash => LocalType'
      BY DEF LocalType, ReqPc
    <2>2. ASSUME NEW a \in Addr, NEW i \in DOMAIN cells[a], AddTo(a, i)
          PROVE  DOMAIN cells' = Addr
                   /\ \A b \in Addr : cells'[b] \in [DOMAIN cells'[b] -> SUBSET (Port \cup {NULL})]
      BY <2>2 DEF CounterType, AddTo, LocalType, Counts
    <2>3. ~Crash => CounterType'
      BY <2>2 DEF CounterType, Valid
    <2> QED
      BY <2>1, <2>3, EnvFrame, ThreadFrame, CrashType
  <1>29. CASE StopCancel
    <2> USE <1>29 DEF StopCancel, WatUnchanged, environment, Goto
    <2>1. CASE Handle(wat.at) = Uninit
      <3>1. ~Crash => LocalType'
        BY <2>1 DEF LocalType
      <3> QED
        BY <2>1, <3>1, EnvFrame, CounterFrame, ThreadFrame, CrashType DEF counters
    <2>2. CASE Handle(wat.at) # Uninit
      <3>1. Handle(wat.at) \in Tid
        BY <2>2 DEF Handle, ThreadType
      <3>2. [mon[Handle(wat.at)] EXCEPT !.cancel = TRUE] \in MonitorState
        <4>1. mon[Handle(wat.at)] \in MonitorState /\ TRUE \in BOOLEAN
          BY <3>1 DEF ThreadType
        <4> QED
          BY <4>1 DEF MonitorState
      <3>3. ThreadType'
        BY <2>2, <3>1, <3>2, OneMonitor
      <3>4. LocalType'
        BY <2>2 DEF LocalType, WatPc
      <3> QED
        BY <2>2, <3>3, <3>4, EnvFrame, CounterFrame DEF counters
    <2> QED
      BY <2>1, <2>2
  <1>30. CASE StopJoin
    <2> USE <1>30 DEF StopJoin, WatUnchanged, environment, Goto
    <2>1. CASE Handle(wat.at) = Uninit
      BY <2>1, CrashType
    <2>2. CASE Handle(wat.at) # Uninit
      <3>1. Handle(wat.at) \in Tid
        BY <2>2 DEF Handle, ThreadType
      <3>2. NoMonitor \in MonitorState
        BY DEF NoMonitor, MonitorState, MonPc
      <3>3. ThreadType'
        BY <2>2, <3>1, <3>2, OneMonitor
      <3>4. LocalType'
        BY <2>2 DEF LocalType, WatPc
      <3> QED
        BY <2>2, <3>3, <3>4, EnvFrame, CounterFrame DEF counters
    <2> QED
      BY <2>1, <2>2
  <1>31. ASSUME NEW a \in {"req", "wat"}, SpawnBegin(a) PROVE TypeOK'
    <2> USE <1>31 DEF SpawnBegin, environment, Goto
    <2>1. LocalType'
      BY DEF LocalType, ReqPc, WatPc
    <2>2. Len(backends) \in Nat /\ backends \in Seq(Port)
      BY DEF EnvType
    <2>3. /\ threads' \in [DOMAIN threads' -> Tid \cup {Uninit}]
          /\ spawn' \in [{"req", "wat"} -> [todo : Seq(Port), at : Nat]]
      BY <2>2 DEF ThreadType, Uninitialised
    <2>4. ThreadType'
      BY <2>3 DEF ThreadType
    <2> QED
      BY <2>1, <2>4, EnvFrame, CounterFrame DEF counters
  <1>32. ASSUME NEW a \in {"req", "wat"}, SpawnOne(a) PROVE TypeOK'
    <2> USE <1>32 DEF SpawnOne, environment, Goto
    <2>1. CASE DOMAIN threads = {}
      BY <2>1, CrashType
    <2>2. CASE DOMAIN threads # {}
      <3> USE <2>2
      <3>1. LocalType'
        BY LocalFrame
      <3>2. /\ Head(spawn[a].todo) \in Port
            /\ [todo |-> Tail(spawn[a].todo), at |-> spawn[a].at + 1] \in [todo : Seq(Port), at : Nat]
        BY DEF ThreadType
      <3>3. spawn' \in [{"req", "wat"} -> [todo : Seq(Port), at : Nat]]
        <4>1. spawn' = [spawn EXCEPT ![a] = [todo |-> Tail(spawn[a].todo), at |-> spawn[a].at + 1]]
          BY DEF Advance
        <4> QED
          BY <3>2, <4>1 DEF ThreadType
      <3>4. mon' \in [Tid -> MonitorState]
        <4>1. Started(Head(spawn[a].todo), spawn[a].at) \in MonitorState
          BY <3>2 DEF ThreadType, Started, MonitorState, MonPc
        <4> QED
          BY <4>1 DEF ThreadType
      <3>5. threads' \in [DOMAIN threads' -> Tid \cup {Uninit}]
        BY DEF ThreadType
      <3>6. ThreadType'
        BY <3>3, <3>4, <3>5 DEF ThreadType
      <3> QED
        BY <3>1, <3>6, EnvFrame, CounterFrame DEF counters
    <2> QED
      BY <2>1, <2>2
  <1>33. ASSUME NEW a \in {"req", "wat"}, SpawnEnd(a) PROVE TypeOK'
    <2> USE <1>33 DEF SpawnEnd, environment, Goto
    <2>1. LocalType'
      BY DEF LocalType, ReqPc, WatPc
    <2>2. ThreadType'
      BY DEF ThreadType, NoSpawn
    <2> QED
      BY <2>1, <2>2, EnvFrame, CounterFrame DEF counters
  <1>34. CASE UNCHANGED vars
    BY <1>34, EnvFrame, CounterFrame, ThreadFrame, LocalFrame DEF vars, environment, counters
  <1> QED
    BY <1>1, <1>2, <1>3, <1>4, <1>5, <1>6, <1>7, <1>8, <1>9, <1>10, <1>11, <1>12, <1>13, <1>14, <1>15, <1>16, <1>17, <1>18, <1>19, <1>20, <1>21, <1>22, <1>23, <1>24, <1>25, <1>26, <1>27, <1>28, <1>29, <1>30, <1>31, <1>32, <1>33, <1>34
    DEF Next, Request, Reload, Monitor, Logger, Spawn

LEMMA InitType == Init => TypeOK
  <1> SUFFICES ASSUME Init PROVE TypeOK
    OBVIOUS
  <1>1. file \in Seq(Port) /\ Len(file) \in Nat
    BY DEF Init
  <1>2. EnvType
    <2>1. 0 \in Idx(RRSpan) /\ 0 \in 0 .. MaxWrites
      BY DEF Idx
    <2> QED
      BY <2>1 DEF Init, EnvType
  <1>3. CounterType
    BY <1>1 DEF Init, CounterType, BootPtrs, BootCells, Zeroed
  <1>4. ThreadType
    BY DEF Init, ThreadType, Uninitialised, NoMonitor, MonitorState, MonPc, NoSpawn
  <1>5. LocalType
    BY DEF Init, LocalType, BootPc, NoRequest, BootWat, BootLog, ReqPc, WatPc, LogPc
  <1> QED
    BY <1>2, <1>3, <1>4, <1>5 DEF TypeOK

\* The engine's variables keep their types, whatever the threads, the scaler
\* and the allocator do.
THEOREM TypeCorrect == Safety => []TypeOK
  BY InitType, TypeStep, PTL DEF Safety

-----------------------------------------------------------------------------
(* The inductive invariant of the engine when the file is first rewritten   *)
(* after start-up.                                                          *)

\* Until start() is done no event is there to wake the watcher.
BootInv ==
  /\ pc["req"] \in {"start", "spawn", "spawned"} =>
       pc["log"] = "off" /\ pc["wat"] \in {"init", "read"}
  /\ ~Booted => ~pending

\* Who holds config->mutex is where its holder is.
MutexInv ==
  /\ mutex = "wat" <=> Reloading
  /\ mutex = "log" <=> pc["log"] \in {"scan", "peek"}

\* A thread in the loop of start_metric_threads() has the rest of the current
\* list before it, and has not written the rest of the array.
SpawnInv ==
  \A a \in {"req", "wat"} : pc[a] = "spawn" =>
    /\ spawn[a].at + Len(spawn[a].todo) = Len(backends)
    /\ \A i \in 1 .. Len(spawn[a].todo) : spawn[a].todo[i] = backends[spawn[a].at + i]
    /\ DOMAIN threads = Idx(Len(backends))
    /\ \A i \in DOMAIN threads : i >= spawn[a].at => threads[i] = Uninit

\* The array holds the handle of every monitor there is; while they are being
\* stopped, those that remain are at wat.at and beyond.
HandleInv ==
  /\ DOMAIN threads \in {{}, Idx(Len(backends))}
  /\ pc["req"] = "start" \/ pc["wat"] \in {"parse", "resize", "storesize", "grace", "start"} =>
       DOMAIN threads = {}
  /\ pc["wat"] \notin {"stop", "join"} => wat.at = 0
  /\ \A t \in Tid : Running(t) =>
       /\ mon[t].index \in DOMAIN threads
       /\ threads[mon[t].index] = t
       /\ mon[t].index >= wat.at
       /\ mon[t].port = backends[mon[t].index + 1]

\* The counter arrays there are, and the length of the current one.
ArrayInv ==
  /\ live = {ctrPtr, wat.old} \ {NULL}
  /\ wat.old = ctrPtr => wat.old = NULL
  /\ pc["wat"] \notin {"storesize", "grace"} => wat.old = NULL
  /\ ctrPtr # NULL =>
       DOMAIN cells[ctrPtr] = Idx(IF pc["wat"] = "storesize" THEN Len(backends) ELSE ctrSize)

\* What a monitor loaded is still what rps_counters_ptr holds.
MonitorInv ==
  \A t \in Tid :
    /\ mon[t].pc \in {"check", "exchange"} => mon[t].ptr = ctrPtr
    /\ mon[t].pc = "exchange" => mon[t].ptr # NULL /\ mon[t].index < ctrSize

LoggerInv == pc["log"] = "peek" => log.ptr = ctrPtr

IInv == BootInv /\ MutexInv /\ SpawnInv /\ HandleInv /\ ArrayInv /\ MonitorInv /\ LoggerInv

LEMMA CrashInv == TypeOK /\ Crash => IInv'
  <1> SUFFICES ASSUME TypeOK, Crash PROVE IInv'
    OBVIOUS
  <1> USE DEF Crash, BootPc, BootWat, BootLog
  <1>1. BootInv' /\ MutexInv' /\ LoggerInv'
    BY DEF BootInv, Booted, MutexInv, Reloading, LoggerInv
  <1>2. SpawnInv' /\ MonitorInv'
    BY DEF SpawnInv, MonitorInv, NoMonitor
  <1>3. HandleInv'
    BY DEF HandleInv, Running, NoMonitor, Uninitialised, Idx
  <1>4. ArrayInv'
    <2>1. file \in Seq(Port) /\ Len(file) \in Nat /\ ctrPtr' \in Addr \cup {NULL}
      BY DEF TypeOK, EnvType, BootPtrs
    <2> QED
      BY <2>1 DEF ArrayInv, BootCells, Zeroed
  <1> QED
    BY <1>1, <1>2, <1>3, <1>4 DEF IInv

LEMMA BootInvStep ==
  ASSUME "early" \notin Faults, TypeOK, IInv, [Next]_vars
  PROVE  BootInv'
  <1> USE DEF IInv, Goto, counters, environment
  <1>1. CASE Truncate \/ Dump
    BY <1>1, CrashInv DEF BootInv, Booted, TypeOK, LocalType, Truncate, Dump, Notify, EngineUnchanged
  <1>2. CASE Spawn
    BY <1>2, CrashInv DEF BootInv, Booted, TypeOK, LocalType, Spawn, SpawnBegin, SpawnOne, SpawnEnd, Advance, NoSpawn, Started
  <1>3. CASE Request
    BY <1>3, CrashInv DEF BootInv, Booted, TypeOK, LocalType, Request, ReqUnchanged, StartLogger, Receive, Pick, LoadSize, LoadPtr, Count, AddTo, Forward, NoRequest
  <1>4. CASE Reload
    BY <1>4, CrashInv DEF BootInv, Booted, TypeOK, LocalType, Reload, WatUnchanged, AddWatch, ReadEvent, LockReload, StopCancel, StopJoin, StopEnd, ReadConfig, Resize, StoreSize, FreeOld, UnlockReload
  <1>5. CASE Logger
    BY <1>5, CrashInv DEF BootInv, Booted, TypeOK, LocalType, Logger, LogUnchanged, LogLock, LogLoadPtr, LogPeek, LogUnlock
  <1>6. ASSUME NEW t \in Tid, Monitor(t) PROVE BootInv'
    BY <1>6, CrashInv DEF BootInv, Booted, TypeOK, LocalType, Monitor, MonUnchanged, MonitorStart, MonitorFail, MonitorSample, MonitorCheck, MonitorExchange, MonitorCancel
  <1>7. CASE UNCHANGED vars
    BY <1>7, CrashInv DEF BootInv, Booted, TypeOK, LocalType, vars
  <1> QED
    BY <1>1, <1>2, <1>3, <1>4, <1>5, <1>6, <1>7 DEF Next

LEMMA MutexInvStep ==
  ASSUME "early" \notin Faults, TypeOK, IInv, [Next]_vars
  PROVE  MutexInv'
  <1> USE DEF IInv, Goto, counters, environment
  <1>1. CASE Truncate \/ Dump
    BY <1>1, CrashInv DEF BootInv, MutexInv, Reloading, TypeOK, LocalType, EnvType, LogPc, Truncate, Dump, Notify, EngineUnchanged
  <1>2. CASE Spawn
    BY <1>2, CrashInv DEF BootInv, MutexInv, Reloading, TypeOK, LocalType, EnvType, LogPc, Spawn, SpawnBegin, SpawnOne, SpawnEnd, Advance, NoSpawn, Started
  <1>3. CASE Request
    BY <1>3, CrashInv DEF BootInv, MutexInv, Reloading, TypeOK, LocalType, EnvType, LogPc, Request, ReqUnchanged, StartLogger, Receive, Pick, LoadSize, LoadPtr, Count, AddTo, Forward, NoRequest
  <1>4. CASE Reload
    BY <1>4, CrashInv DEF BootInv, MutexInv, Reloading, TypeOK, LocalType, EnvType, LogPc, Reload, WatUnchanged, AddWatch, ReadEvent, LockReload, StopCancel, StopJoin, StopEnd, ReadConfig, Resize, StoreSize, FreeOld, UnlockReload
  <1>5. CASE Logger
    BY <1>5, CrashInv DEF BootInv, MutexInv, Reloading, TypeOK, LocalType, EnvType, LogPc, Logger, LogUnchanged, LogLock, LogLoadPtr, LogPeek, LogUnlock
  <1>6. ASSUME NEW t \in Tid, Monitor(t) PROVE MutexInv'
    BY <1>6, CrashInv DEF BootInv, MutexInv, Reloading, TypeOK, LocalType, EnvType, LogPc, Monitor, MonUnchanged, MonitorStart, MonitorFail, MonitorSample, MonitorCheck, MonitorExchange, MonitorCancel
  <1>7. CASE UNCHANGED vars
    BY <1>7, CrashInv DEF BootInv, MutexInv, Reloading, TypeOK, LocalType, EnvType, LogPc, vars
  <1> QED
    BY <1>1, <1>2, <1>3, <1>4, <1>5, <1>6, <1>7 DEF Next

LEMMA LoggerInvStep ==
  ASSUME "early" \notin Faults, TypeOK, IInv, [Next]_vars
  PROVE  LoggerInv'
  <1> USE DEF IInv, Goto, counters, environment
  <1>1. CASE Truncate \/ Dump
    BY <1>1, CrashInv DEF LoggerInv, MutexInv, Reloading, TypeOK, LocalType, Truncate, Dump, Notify, EngineUnchanged
  <1>2. CASE Spawn
    BY <1>2, CrashInv DEF LoggerInv, MutexInv, Reloading, TypeOK, LocalType, Spawn, SpawnBegin, SpawnOne, SpawnEnd, Advance, NoSpawn, Started
  <1>3. CASE Request
    BY <1>3, CrashInv DEF LoggerInv, MutexInv, Reloading, TypeOK, LocalType, Request, ReqUnchanged, StartLogger, Receive, Pick, LoadSize, LoadPtr, Count, AddTo, Forward, NoRequest
  <1>4. CASE Reload
    BY <1>4, CrashInv DEF LoggerInv, MutexInv, Reloading, TypeOK, LocalType, Reload, WatUnchanged, AddWatch, ReadEvent, LockReload, StopCancel, StopJoin, StopEnd, ReadConfig, Resize, StoreSize, FreeOld, UnlockReload
  <1>5. CASE Logger
    BY <1>5, CrashInv DEF LoggerInv, MutexInv, Reloading, TypeOK, LocalType, Logger, LogUnchanged, LogLock, LogLoadPtr, LogPeek, LogUnlock
  <1>6. ASSUME NEW t \in Tid, Monitor(t) PROVE LoggerInv'
    BY <1>6, CrashInv DEF LoggerInv, MutexInv, Reloading, TypeOK, LocalType, Monitor, MonUnchanged, MonitorStart, MonitorFail, MonitorSample, MonitorCheck, MonitorExchange, MonitorCancel
  <1>7. CASE UNCHANGED vars
    BY <1>7, CrashInv DEF LoggerInv, MutexInv, Reloading, TypeOK, LocalType, vars
  <1> QED
    BY <1>1, <1>2, <1>3, <1>4, <1>5, <1>6, <1>7 DEF Next

LEMMA MonitorInvStep ==
  ASSUME "early" \notin Faults, TypeOK, IInv, [Next]_vars
  PROVE  MonitorInv'
  <1> USE DEF IInv, Goto, counters, environment
  <1>1. ASSUME UNCHANGED <<mon, ctrPtr, ctrSize>> PROVE MonitorInv'
    BY <1>1 DEF MonitorInv
  <1>2. ASSUME \A t \in Tid : ~Running(t), UNCHANGED mon PROVE MonitorInv'
    BY <1>2 DEF MonitorInv, Running
  <1>3. ASSUME NEW t \in Tid, NEW m \in MonitorState, mon' = [mon EXCEPT ![t] = m],
               m.pc \in {"check", "exchange"} => m.ptr = ctrPtr,
               m.pc = "exchange" => m.ptr # NULL /\ m.index < ctrSize,
               UNCHANGED <<ctrPtr, ctrSize>>
        PROVE  MonitorInv'
    BY <1>3 DEF MonitorInv, TypeOK, ThreadType
  <1>4. CASE Truncate \/ Dump
    BY <1>4, <1>1 DEF Truncate, Dump, EngineUnchanged
  <1>5. CASE Request
    BY <1>5, <1>1, CrashInv DEF Request, ReqUnchanged, StartLogger, Receive, Pick, LoadSize,
      LoadPtr, Count, Forward
  <1>6. CASE Logger
    BY <1>6, <1>1 DEF Logger, LogUnchanged, LogLock, LogLoadPtr, LogPeek, LogUnlock
  <1>7. CASE AddWatch \/ ReadEvent \/ LockReload \/ StopEnd \/ ReadConfig \/ FreeOld \/ UnlockReload
    BY <1>7, <1>1 DEF WatUnchanged, AddWatch, ReadEvent, LockReload, StopEnd, ReadConfig,
      FreeOld, UnlockReload
  <1>8. CASE Resize \/ StoreSize
    <2>1. \A t \in Tid : ~Running(t)
      BY <1>8 DEF Resize, StoreSize, HandleInv
    <2> QED
      BY <1>8, <1>2, <2>1 DEF Resize, StoreSize
  <1>9. CASE StopCancel
    <2>1. CASE Handle(wat.at) = Uninit
      BY <1>9, <1>1, <2>1, CrashInv DEF StopCancel
    <2>2. CASE Handle(wat.at) # Uninit
      <3> DEFINE h == Handle(wat.at)
      <3>1. h \in Tid
        BY <2>2 DEF Handle, TypeOK, ThreadType
      <3>2. mon[h] \in MonitorState /\ TRUE \in BOOLEAN
        BY <3>1 DEF TypeOK, ThreadType
      <3> DEFINE m == [mon[h] EXCEPT !.cancel = TRUE]
      <3>3. m \in MonitorState /\ m.pc = mon[h].pc /\ m.ptr = mon[h].ptr /\ m.index = mon[h].index
        BY <3>2 DEF MonitorState
      <3>4. mon' = [mon EXCEPT ![h] = m] /\ UNCHANGED <<ctrPtr, ctrSize>>
        BY <1>9, <2>2 DEF StopCancel
      <3> QED
        BY <1>3, <3>1, <3>3, <3>4 DEF MonitorInv
    <2> QED
      BY <2>1, <2>2
  <1>10. CASE StopJoin
    <2>1. CASE Handle(wat.at) = Uninit
      BY <1>10, <2>1, CrashInv DEF StopJoin
    <2>2. CASE Handle(wat.at) # Uninit
      <3>1. Handle(wat.at) \in Tid
        BY <2>2 DEF Handle, TypeOK, ThreadType
      <3>2. NoMonitor \in MonitorState /\ NoMonitor.pc = "none"
        BY DEF NoMonitor, MonitorState, MonPc
      <3> QED
        BY <1>3, <1>10, <2>2, <3>1, <3>2 DEF StopJoin
    <2> QED
      BY <2>1, <2>2
  <1>11. ASSUME NEW a \in {"req", "wat"}, SpawnBegin(a) \/ SpawnEnd(a) PROVE MonitorInv'
    BY <1>11, <1>1 DEF SpawnBegin, SpawnEnd
  <1>12. ASSUME NEW a \in {"req", "wat"}, SpawnOne(a) PROVE MonitorInv'
    <2>1. \A t \in Tid : \A p, i : [mon EXCEPT ![t] = Started(p, i)][t].pc = "init"
      BY DEF Started, TypeOK, ThreadType
    <2> QED
      BY <1>12, <1>1, <2>1, CrashInv DEF SpawnOne, MonitorInv, TypeOK, ThreadType, Started
  <1>13. ASSUME NEW t \in Tid, Monitor(t) PROVE MonitorInv'
    <2>1. mon[t] \in MonitorState
      BY DEF TypeOK, ThreadType
    <2>2. CASE MonitorStart(t) \/ MonitorFail(t) \/ MonitorCancel(t)
      <3>1. PICK p \in {"sample", "done"} : mon' = [mon EXCEPT ![t] = [mon[t] EXCEPT !.pc = p]]
        BY <2>2 DEF MonitorStart, MonitorFail, MonitorCancel
      <3> DEFINE m == [mon[t] EXCEPT !.pc = p]
      <3>2. m \in MonitorState /\ m.pc = p
        BY <2>1 DEF MonitorState, MonPc
      <3>3. UNCHANGED <<ctrPtr, ctrSize>>
        BY <2>2 DEF MonitorStart, MonitorFail, MonitorCancel, MonUnchanged
      <3> QED
        BY <1>3, <3>1, <3>2, <3>3
    <2>3. CASE MonitorSample(t)
      BY <2>3 DEF MonitorSample, MonUnchanged, MonitorInv, TypeOK, ThreadType, MonitorState
    <2>4. CASE MonitorCheck(t)
      BY <2>4 DEF MonitorCheck, MonUnchanged, MonitorInv, TypeOK, ThreadType, MonitorState
    <2>5. CASE MonitorExchange(t)
      <3> DEFINE m == [mon[t] EXCEPT !.pc = "sample", !.ptr = NULL]
      <3>1. CASE Crash
        BY <3>1, CrashInv
      <3>2. CASE ~Crash
        <4>1. mon' = [mon EXCEPT ![t] = m] /\ UNCHANGED <<ctrPtr, ctrSize>>
          BY <2>5, <3>2 DEF MonitorExchange, MonUnchanged
        <4>2. m \in MonitorState
          BY <2>1, PcAndPtr DEF MonPc
        <4>3. m.pc = "sample"
          BY <2>1 DEF MonitorState
        <4> QED
          BY <1>3, <4>1, <4>2, <4>3
      <3> QED
        BY <3>1, <3>2
    <2> QED
      BY <1>13, <2>2, <2>3, <2>4, <2>5 DEF Monitor
  <1>14. CASE UNCHANGED vars
    BY <1>14, <1>1 DEF vars
  <1> QED
    BY <1>4, <1>5, <1>6, <1>7, <1>8, <1>9, <1>10, <1>11, <1>12, <1>13, <1>14
    DEF Next, Reload, Spawn

LEMMA ArrayInvStep ==
  ASSUME "early" \notin Faults, TypeOK, IInv, [Next]_vars
  PROVE  ArrayInv'
  <1> USE DEF IInv, Goto, counters, environment
  <1>1. ASSUME UNCHANGED <<live, ctrPtr, cells, ctrSize, backends, wat>>, pc'["wat"] = pc["wat"]
        PROVE  ArrayInv'
    BY <1>1 DEF ArrayInv
  <1>2. ASSUME UNCHANGED <<live, ctrPtr, cells, ctrSize>>, wat'.old = wat.old,
               pc["wat"] \notin {"storesize", "grace"}, pc'["wat"] \notin {"storesize", "grace"}
        PROVE  ArrayInv'
    BY <1>2 DEF ArrayInv
  <1>3. CASE Truncate \/ Dump
    BY <1>3, <1>1 DEF Truncate, Dump, EngineUnchanged
  <1>4. CASE Request
    <2>1. CASE Count
      <3>1. ASSUME NEW a \in live, NEW i \in DOMAIN cells[a], AddTo(a, i)
            PROVE  \A b \in Addr : DOMAIN cells'[b] = DOMAIN cells[b]
        BY <3>1 DEF AddTo, TypeOK, CounterType
      <3>2. ~Crash => \A b \in Addr : DOMAIN cells'[b] = DOMAIN cells[b]
        BY <2>1, <3>1 DEF Count, Valid
      <3>3. ~Crash => pc'["wat"] = pc["wat"] /\ UNCHANGED <<live, ctrPtr, ctrSize, backends, wat>>
        BY <2>1 DEF Count, ReqUnchanged, TypeOK, LocalType
      <3> QED
        BY <3>2, <3>3, CrashInv DEF ArrayInv, TypeOK, CounterType
    <2>2. CASE ~Count
      BY <1>4, <1>1, <2>2, CrashInv DEF Request, ReqUnchanged, StartLogger, Receive, Pick, LoadSize, LoadPtr,
        Forward, TypeOK, LocalType
    <2> QED
      BY <2>1, <2>2
  <1>5. CASE Logger
    BY <1>5, <1>1 DEF Logger, LogUnchanged, LogLock, LogLoadPtr, LogPeek, LogUnlock, TypeOK, LocalType
  <1>6. CASE AddWatch \/ ReadEvent \/ LockReload \/ StopEnd \/ ReadConfig \/ UnlockReload
    BY <1>6, <1>2 DEF WatUnchanged, AddWatch, ReadEvent, LockReload, StopEnd, ReadConfig,
      UnlockReload, TypeOK, LocalType
  <1>7. CASE StopCancel \/ StopJoin
    BY <1>7, <1>2, CrashInv DEF WatUnchanged, StopCancel, StopJoin, TypeOK, LocalType
  <1>8. CASE Resize
    <2>1. CASE pc'["wat"] = "start"
      BY <1>8, <1>2, <2>1 DEF Resize, TypeOK, LocalType
    <2>2. CASE pc'["wat"] # "start"
      <3>1. PICK new \in Addr \ live :
              live' = live \cup {new} /\ cells' = [cells EXCEPT ![new] = Zeroed(Len(backends))] /\ ctrPtr' = new
        BY <1>8, <2>2 DEF Resize, TypeOK, LocalType
      <3>2. wat' = [wat EXCEPT !.old = ctrPtr] /\ wat.old = NULL /\ UNCHANGED <<backends, ctrSize>>
        BY <1>8, <2>2 DEF Resize, ArrayInv, WatUnchanged, TypeOK, LocalType
      <3>3. pc'["wat"] = "storesize" /\ wat'.old = ctrPtr
        BY <1>8, <2>2, <3>2 DEF Resize, TypeOK, LocalType
      <3>4. DOMAIN cells'[new] = Idx(Len(backends))
        BY <3>1 DEF TypeOK, CounterType, Zeroed
      <3> QED
        BY <3>1, <3>2, <3>3, <3>4 DEF ArrayInv, TypeOK, CounterType
    <2> QED
      BY <2>1, <2>2
  <1>9. CASE StoreSize
    BY <1>9 DEF StoreSize, WatUnchanged, ArrayInv, TypeOK, LocalType
  <1>10. CASE FreeOld
    <2>1. pc'["wat"] = "start" /\ wat'.old = NULL
      BY <1>10 DEF FreeOld, TypeOK, LocalType
    <2>2. live' = {ctrPtr} \ {NULL} /\ UNCHANGED <<ctrPtr, ctrSize>>
      BY <1>10 DEF FreeOld, ArrayInv
    <2>3. ctrPtr # NULL => cells'[ctrPtr] = cells[ctrPtr]
      BY <1>10 DEF FreeOld, ArrayInv, TypeOK, CounterType
    <2> QED
      BY <1>10, <2>1, <2>2, <2>3 DEF FreeOld, ArrayInv
  <1>11. ASSUME NEW a \in {"req", "wat"}, SpawnBegin(a) \/ SpawnOne(a) \/ SpawnEnd(a) PROVE ArrayInv'
    <2>1. CASE Crash
      BY <2>1, CrashInv
    <2>2. CASE ~Crash
      <3>1. UNCHANGED <<live, ctrPtr, ctrSize, cells, backends, wat>>
        BY <1>11, <2>2 DEF SpawnBegin, SpawnOne, SpawnEnd
      <3>2. \/ pc'["wat"] = pc["wat"]
            \/ pc["wat"] \in {"start", "spawn"} /\ pc'["wat"] \in {"spawn", "spawned"}
        BY <1>11, <2>2 DEF SpawnBegin, SpawnOne, SpawnEnd, TypeOK, LocalType
      <3> QED
        BY <1>1, <1>2, <3>1, <3>2
    <2> QED
      BY <2>1, <2>2
  <1>12. ASSUME NEW t \in Tid, Monitor(t) PROVE ArrayInv'
    <2>1. CASE Crash
      BY <2>1, CrashInv
    <2>2. CASE ~Crash
      <3>1. UNCHANGED <<live, ctrPtr, ctrSize, backends, wat, pc>>
        BY <1>12, <2>2 DEF Monitor, MonUnchanged, MonitorStart, MonitorFail, MonitorSample,
          MonitorCheck, MonitorExchange, MonitorCancel
      <3>2. \A b \in Addr : DOMAIN cells'[b] = DOMAIN cells[b]
        BY <1>12, <2>2 DEF Monitor, MonitorStart, MonitorFail, MonitorSample,
          MonitorCheck, MonitorExchange, MonitorCancel, TypeOK, CounterType
      <3> QED
        BY <3>1, <3>2 DEF ArrayInv, TypeOK, CounterType
    <2> QED
      BY <2>1, <2>2
  <1>13. CASE UNCHANGED vars
    BY <1>13, <1>1 DEF vars
  <1> QED
    BY <1>3, <1>4, <1>5, <1>6, <1>7, <1>8, <1>9, <1>10, <1>11, <1>12, <1>13
    DEF Next, Reload, Spawn

LEMMA SpawnInvStep ==
  ASSUME "early" \notin Faults, TypeOK, IInv, [Next]_vars
  PROVE  SpawnInv'
  <1> USE DEF IInv, Goto, counters, environment
  <1>1. ASSUME UNCHANGED <<spawn, backends, threads>>,
               \A a \in {"req", "wat"} : pc'[a] = "spawn" => pc[a] = "spawn"
        PROVE  SpawnInv'
    BY <1>1 DEF SpawnInv
  <1>2. ASSUME \A a \in {"req", "wat"} : pc'[a] # "spawn" PROVE SpawnInv'
    BY <1>2 DEF SpawnInv
  <1>3. CASE Truncate \/ Dump
    BY <1>3, <1>1 DEF Truncate, Dump, EngineUnchanged
  <1>4. CASE Request
    <2>1. CASE Crash
      BY <2>1, CrashInv
    <2>2. CASE ~Crash
      <3>1. UNCHANGED <<spawn, backends, threads>>
        BY <1>4, <2>2 DEF Request, ReqUnchanged, StartLogger, Receive, Pick, LoadSize, LoadPtr, Count, Forward
      <3>2. \A a \in {"req", "wat"} : pc'[a] = "spawn" => pc[a] = "spawn"
        BY <1>4, <2>2 DEF Request, ReqUnchanged, StartLogger, Receive, Pick, LoadSize, LoadPtr, Count,
          Forward, TypeOK, LocalType
      <3> QED
        BY <1>1, <3>1, <3>2
    <2> QED
      BY <2>1, <2>2
  <1>5. CASE Logger
    BY <1>5, <1>1 DEF Logger, LogUnchanged, LogLock, LogLoadPtr, LogPeek, LogUnlock, TypeOK, LocalType
  <1>6. CASE AddWatch \/ ReadEvent \/ LockReload \/ Resize \/ StoreSize \/ FreeOld \/ UnlockReload
    BY <1>6, <1>1 DEF WatUnchanged, AddWatch, ReadEvent, LockReload, Resize, StoreSize, FreeOld,
      UnlockReload, TypeOK, LocalType
  <1>7. CASE StopCancel \/ StopJoin \/ StopEnd \/ ReadConfig
    <2>1. CASE Crash
      BY <2>1, CrashInv
    <2>2. CASE ~Crash
      <3>1. pc["req"] # "spawn"
        BY <1>7 DEF StopCancel, StopJoin, StopEnd, ReadConfig, BootInv
      <3>2. \A a \in {"req", "wat"} : pc'[a] # "spawn"
        BY <1>7, <2>2, <3>1 DEF StopCancel, StopJoin, StopEnd, ReadConfig, TypeOK, LocalType
      <3> QED
        BY <1>2, <3>2
    <2> QED
      BY <2>1, <2>2
  <1>8. ASSUME NEW a \in {"req", "wat"}, NEW b \in {"req", "wat"}, a # b,
               SpawnBegin(a) \/ SpawnOne(a) \/ SpawnEnd(a)
        PROVE  pc[b] # "spawn"
    BY <1>8 DEF SpawnBegin, SpawnOne, SpawnEnd, BootInv
  <1>9. ASSUME NEW a \in {"req", "wat"}, SpawnBegin(a) PROVE SpawnInv'
    <2>1. CASE backends = <<>>
      BY <1>9, <1>1, <2>1 DEF SpawnBegin, TypeOK, LocalType
    <2>2. CASE backends # <<>>
      <3>1. \A b \in {"req", "wat"} : pc'[b] = "spawn" => b = a
        BY <1>8, <1>9, <2>2 DEF SpawnBegin, TypeOK, LocalType
      <3>2. spawn'[a] = [todo |-> backends, at |-> 0] /\ threads' = Uninitialised(Len(backends))
              /\ backends' = backends
        BY <1>9, <2>2 DEF SpawnBegin, TypeOK, ThreadType
      <3>3. backends \in Seq(Port) /\ Len(backends) \in Nat
        BY DEF TypeOK, EnvType
      <3> QED
        BY <3>1, <3>2, <3>3 DEF SpawnInv, Uninitialised
    <2> QED
      BY <2>1, <2>2
  <1>10. ASSUME NEW a \in {"req", "wat"}, SpawnOne(a) PROVE SpawnInv'
    <2>1. CASE Crash
      BY <2>1, CrashInv
    <2>2. CASE ~Crash
      <3>1. \A b \in {"req", "wat"} : pc'[b] = "spawn" => b = a
        BY <1>8, <1>10, <2>2 DEF SpawnOne
      <3> DEFINE todo == spawn[a].todo
                 at == spawn[a].at
      <3>2. todo \in Seq(Port) /\ todo # <<>> /\ at \in Nat
        BY <1>10 DEF SpawnOne, TypeOK, ThreadType
      <3>3. spawn'[a].todo = Tail(todo) /\ spawn'[a].at = at + 1
        <4>1. spawn' = [spawn EXCEPT ![a] = [todo |-> Tail(todo), at |-> at + 1]]
          BY <1>10, <2>2 DEF SpawnOne, Advance
        <4> QED
          BY <4>1 DEF TypeOK, ThreadType
      <3>4. /\ Len(Tail(todo)) = Len(todo) - 1 /\ Len(todo) \in Nat
            /\ \A i \in 1 .. Len(Tail(todo)) : Tail(todo)[i] = todo[i + 1]
        BY <3>2
      <3>5. /\ at + Len(todo) = Len(backends) /\ Len(backends) \in Nat
            /\ \A i \in 1 .. Len(todo) : todo[i] = backends[at + i]
            /\ DOMAIN threads = Idx(Len(backends))
            /\ \A i \in DOMAIN threads : i >= at => threads[i] = Uninit
        <4>1. pc[a] = "spawn"
          BY <1>10 DEF SpawnOne
        <4>2. Len(backends) \in Nat
          BY DEF TypeOK, EnvType
        <4> QED
          BY <4>1, <4>2 DEF SpawnInv
      <3>6. DOMAIN threads' = DOMAIN threads /\ backends' = backends
        BY <1>10, <2>2 DEF SpawnOne
      <3>7. \A i \in DOMAIN threads : i # at => threads'[i] = threads[i]
        BY <1>10, <2>2 DEF SpawnOne
      <3>8. \A i \in 1 .. Len(Tail(todo)) : Tail(todo)[i] = backends[at + 1 + i]
        <4> TAKE i \in 1 .. Len(Tail(todo))
        <4>1. i + 1 \in 1 .. Len(todo) /\ at + (i + 1) = at + 1 + i
          <5>1. Len(todo) \in Nat /\ Len(Tail(todo)) = Len(todo) - 1 /\ at \in Nat
            BY <3>2, <3>4
          <5> HIDE DEF todo, at
          <5> QED
            BY <5>1
        <4> QED
          BY <3>4, <3>5, <4>1
      <3>9. \A i \in DOMAIN threads : i >= at + 1 => threads'[i] = Uninit
        BY <3>2, <3>5, <3>7 DEF Idx
      <3>10. at + 1 + Len(Tail(todo)) = Len(backends)
        BY <3>2, <3>4, <3>5
      <3>11. /\ spawn'[a].at + Len(spawn'[a].todo) = Len(backends')
             /\ \A i \in 1 .. Len(spawn'[a].todo) : spawn'[a].todo[i] = backends'[spawn'[a].at + i]
             /\ DOMAIN threads' = Idx(Len(backends'))
             /\ \A i \in DOMAIN threads' : i >= spawn'[a].at => threads'[i] = Uninit
        BY <3>3, <3>5, <3>6, <3>8, <3>9, <3>10
      <3> QED
        BY <3>1, <3>11 DEF SpawnInv
    <2> QED
      BY <2>1, <2>2
  <1>11. ASSUME NEW a \in {"req", "wat"}, SpawnEnd(a) PROVE SpawnInv'
    <2>1. \A b \in {"req", "wat"} : pc'[b] # "spawn"
      BY <1>8, <1>11 DEF SpawnEnd, TypeOK, LocalType
    <2> QED
      BY <1>2, <2>1
  <1>12. ASSUME NEW t \in Tid, Monitor(t) PROVE SpawnInv'
    BY <1>12, <1>1, CrashInv DEF Monitor, MonUnchanged, MonitorStart, MonitorFail, MonitorSample,
      MonitorCheck, MonitorExchange, MonitorCancel
  <1>13. CASE UNCHANGED vars
    BY <1>13, <1>1 DEF vars
  <1> QED
    BY <1>3, <1>4, <1>5, <1>6, <1>7, <1>9, <1>10, <1>11, <1>12, <1>13
    DEF Next, Reload, Spawn

\* Where reload_config() is between stop_metric_threads() and start_metric_threads().
Stopped == {"parse", "resize", "storesize", "grace", "start"}

LEMMA HandleInvStep ==
  ASSUME "early" \notin Faults, TypeOK, IInv, [Next]_vars
  PROVE  HandleInv'
  <1> USE DEF IInv, Goto, counters, environment, Stopped
  <1>0. /\ backends \in Seq(Port) /\ Len(backends) \in Nat /\ wat.at \in Nat
        /\ \A t \in Tid : mon[t] \in MonitorState /\ mon[t].index \in Nat
    BY DEF TypeOK, EnvType, LocalType, ThreadType, MonitorState
  <1>1. ASSUME UNCHANGED <<threads, backends, wat>>,
               \A t \in Tid : Running(t)' =>
                 Running(t) /\ mon'[t].index = mon[t].index /\ mon'[t].port = mon[t].port,
               pc'["req"] = "start" => pc["req"] = "start",
               pc'["wat"] \in Stopped => pc["wat"] \in Stopped,
               pc'["wat"] \notin {"stop", "join"} => pc["wat"] \notin {"stop", "join"}
        PROVE  HandleInv'
    BY <1>1 DEF HandleInv
  <1>2. DOMAIN threads = {} => \A t \in Tid : ~Running(t)
    BY DEF HandleInv
  <1>3. CASE Truncate \/ Dump
    BY <1>3, <1>1 DEF Truncate, Dump, EngineUnchanged, Running
  <1>4. CASE Request
    <2>1. CASE Crash
      BY <2>1, CrashInv
    <2>2. CASE ~Crash
      <3>1. UNCHANGED <<threads, backends, wat, mon>>
        BY <1>4, <2>2 DEF Request, ReqUnchanged, StartLogger, Receive, Pick, LoadSize, LoadPtr, Count, Forward
      <3>2. pc'["req"] # "start" /\ pc'["wat"] = pc["wat"]
        BY <1>4, <2>2 DEF Request, ReqUnchanged, StartLogger, Receive, Pick, LoadSize, LoadPtr, Count,
          Forward, TypeOK, LocalType
      <3> QED
        BY <1>1, <3>1, <3>2 DEF Running
    <2> QED
      BY <2>1, <2>2
  <1>5. CASE Logger
    <2>1. UNCHANGED <<threads, backends, wat, mon>> /\ pc'["req"] = pc["req"] /\ pc'["wat"] = pc["wat"]
      BY <1>5 DEF Logger, LogUnchanged, LogLock, LogLoadPtr, LogPeek, LogUnlock, TypeOK, LocalType
    <2> QED
      BY <1>1, <2>1 DEF Running
  <1>6. CASE AddWatch \/ ReadEvent \/ LockReload \/ StoreSize \/ UnlockReload
    <2>1. UNCHANGED <<threads, backends, wat, mon>> /\ pc'["req"] = pc["req"]
      BY <1>6 DEF WatUnchanged, AddWatch, ReadEvent, LockReload, StoreSize, UnlockReload, TypeOK, LocalType
    <2>2. /\ pc'["wat"] \in Stopped => pc["wat"] \in Stopped
          /\ pc'["wat"] \notin {"stop", "join"} => pc["wat"] \notin {"stop", "join"}
      BY <1>6 DEF AddWatch, ReadEvent, LockReload, StoreSize, UnlockReload, TypeOK, LocalType
    <2> QED
      BY <1>1, <2>1, <2>2 DEF Running
  <1>7. CASE Resize \/ FreeOld
    <2>1. UNCHANGED <<threads, backends, mon>> /\ wat'.at = wat.at
      BY <1>7 DEF Resize, FreeOld, TypeOK, LocalType
    <2>2. pc["wat"] \in Stopped /\ pc'["wat"] \in Stopped
      BY <1>7 DEF Resize, FreeOld, TypeOK, LocalType
    <2> QED
      BY <2>1, <2>2 DEF HandleInv, Running
  <1>8. CASE StopCancel
    <2>1. CASE Crash
      BY <2>1, CrashInv
    <2>2. CASE Handle(wat.at) = Uninit /\ ~Crash
      <3>1. /\ UNCHANGED <<threads, backends, mon, pc>> /\ wat'.at = wat.at + 1 /\ pc["wat"] = "stop"
            /\ wat.at \in DOMAIN threads /\ threads[wat.at] = Uninit
        BY <1>8, <2>2 DEF StopCancel, Handle, TypeOK, LocalType
      <3>2. \A t \in Tid : Running(t) => mon[t].index # wat.at
        BY <3>1 DEF HandleInv
      <3> QED
        BY <1>0, <3>1, <3>2 DEF HandleInv, Running
    <2>3. CASE Handle(wat.at) # Uninit
      <3> DEFINE h == Handle(wat.at)
      <3>1. /\ h \in Tid /\ h = threads[wat.at] /\ wat.at \in DOMAIN threads
            /\ mon' = [mon EXCEPT ![h] = [mon[h] EXCEPT !.cancel = TRUE]]
        BY <1>8, <2>3 DEF StopCancel, Handle, TypeOK, ThreadType
      <3>2. /\ UNCHANGED <<threads, backends, wat>> /\ pc'["req"] = pc["req"] /\ pc["wat"] = "stop"
            /\ pc'["wat"] = "join"
        BY <1>8, <2>3 DEF StopCancel, TypeOK, LocalType
      <3> DEFINE m == [mon[h] EXCEPT !.cancel = TRUE]
      <3>3. m.pc = mon[h].pc /\ m.index = mon[h].index /\ m.port = mon[h].port
        BY <1>0, <3>1 DEF MonitorState
      <3>4. \A t \in Tid : mon'[t] = IF t = h THEN m ELSE mon[t]
        BY <3>1 DEF TypeOK, ThreadType
      <3>5. \A t \in Tid : Running(t)' =>
              Running(t) /\ mon'[t].index = mon[t].index /\ mon'[t].port = mon[t].port
        BY <3>3, <3>4 DEF Running
      <3> QED
        BY <1>1, <3>2, <3>5
    <2> QED
      BY <2>1, <2>2, <2>3
  <1>9. CASE StopJoin
    <2>1. CASE Handle(wat.at) = Uninit
      BY <1>9, <2>1, CrashInv DEF StopJoin
    <2>2. CASE Handle(wat.at) # Uninit
      <3> DEFINE h == Handle(wat.at)
      <3>1. /\ h \in Tid /\ h = threads[wat.at] /\ wat.at \in DOMAIN threads
            /\ mon' = [mon EXCEPT ![h] = NoMonitor]
        BY <1>9, <2>2 DEF StopJoin, Handle, TypeOK, ThreadType
      <3>2. /\ UNCHANGED <<threads, backends>> /\ wat'.at = wat.at + 1 /\ pc'["req"] = pc["req"]
            /\ pc'["wat"] = "stop" /\ pc["wat"] = "join"
        BY <1>9, <2>2 DEF StopJoin, TypeOK, LocalType
      <3>3. \A t \in Tid : Running(t)' => t # h /\ mon'[t] = mon[t] /\ Running(t)
        BY <3>1 DEF Running, NoMonitor, TypeOK, ThreadType
      <3>4. \A t \in Tid : Running(t)' => mon[t].index >= wat.at + 1
        BY <1>0, <3>1, <3>3 DEF HandleInv
      <3> QED
        BY <3>2, <3>3, <3>4 DEF HandleInv
    <2> QED
      BY <2>1, <2>2
  <1>10. CASE StopEnd
    <2>1. \A t \in Tid : ~Running(t)
      <3> SUFFICES ASSUME NEW t \in Tid, Running(t) PROVE FALSE
        OBVIOUS
      <3>1. mon[t].index \in DOMAIN threads /\ mon[t].index >= wat.at /\ DOMAIN threads = Idx(Len(backends))
        BY DEF HandleInv
      <3>2. wat.at \in Idx(Len(backends))
        BY <1>0, <3>1 DEF Idx
      <3> QED
        BY <1>10, <3>1, <3>2 DEF StopEnd
    <2>2. UNCHANGED <<backends, mon>> /\ DOMAIN threads' = {} /\ wat'.at = 0
      BY <1>10 DEF StopEnd, Uninitialised, Idx, TypeOK, LocalType
    <2> QED
      BY <2>1, <2>2 DEF HandleInv, Running
  <1>11. CASE ReadConfig
    <2>1. UNCHANGED <<mon, threads, wat>> /\ DOMAIN threads = {} /\ wat.at = 0
      BY <1>11 DEF ReadConfig, HandleInv
    <2> QED
      BY <1>2, <2>1 DEF HandleInv, Running
  <1>12. ASSUME NEW a \in {"req", "wat"}, SpawnBegin(a) PROVE HandleInv'
    <2>1. pc["wat"] \notin {"stop", "join"} /\ wat.at = 0 /\ DOMAIN threads = {}
      BY <1>12 DEF SpawnBegin, BootInv, HandleInv
    <2>2. UNCHANGED <<mon, wat, backends>> /\ DOMAIN threads' \in {{}, Idx(Len(backends))}
      BY <1>12, <2>1 DEF SpawnBegin, Uninitialised
    <2>3. pc'["req"] # "start" /\ pc'["wat"] \notin Stopped
      BY <1>12 DEF SpawnBegin, BootInv, TypeOK, LocalType
    <2> QED
      BY <1>2, <2>1, <2>2, <2>3 DEF HandleInv, Running
  <1>13. ASSUME NEW a \in {"req", "wat"}, SpawnOne(a) PROVE HandleInv'
    <2>1. CASE Crash
      BY <2>1, CrashInv
    <2>2. CASE ~Crash
      <3> DEFINE at == spawn[a].at
                 p == Head(spawn[a].todo)
      <3>1. /\ UNCHANGED <<backends, wat, pc>> /\ DOMAIN threads' = DOMAIN threads
            /\ pc["req"] # "start" /\ pc["wat"] \notin Stopped /\ pc["wat"] \notin {"stop", "join"}
        BY <1>13, <2>2 DEF SpawnOne, BootInv
      <3>2. /\ spawn[a].todo \in Seq(Port) /\ spawn[a].todo # <<>> /\ at \in Nat
            /\ at + Len(spawn[a].todo) = Len(backends) /\ DOMAIN threads = Idx(Len(backends))
            /\ \A i \in 1 .. Len(spawn[a].todo) : spawn[a].todo[i] = backends[at + i]
            /\ \A i \in DOMAIN threads : i >= at => threads[i] = Uninit
        BY <1>13 DEF SpawnOne, SpawnInv, TypeOK, ThreadType
      <3>3. Len(spawn[a].todo) \in Nat \ {0} /\ p = spawn[a].todo[1] /\ 1 \in 1 .. Len(spawn[a].todo)
        BY <3>2
      <3>4. at \in DOMAIN threads /\ p = backends[at + 1]
        BY <1>0, <3>2, <3>3 DEF Idx
      <3>5. CASE UNCHANGED <<threads, mon>>
        BY <1>1, <3>1, <3>5 DEF Running
      <3>6. CASE ~UNCHANGED <<threads, mon>>
        <4>1. PICK t \in Tid : /\ mon[t].pc = "none" /\ mon' = [mon EXCEPT ![t] = Started(p, at)]
                               /\ threads' = [threads EXCEPT ![at] = t]
          BY <1>13, <2>2, <3>4, <3>6 DEF SpawnOne
        <4>2. \A u \in Tid : mon'[u] = IF u = t THEN Started(p, at) ELSE mon[u]
          BY <4>1 DEF TypeOK, ThreadType
        <4>3. \A i \in DOMAIN threads : threads'[i] = IF i = at THEN t ELSE threads[i]
          BY <4>1 DEF TypeOK, ThreadType
        <4>4. \A u \in Tid : u # t /\ Running(u)' => Running(u) /\ mon[u].index # at
          <5> SUFFICES ASSUME NEW u \in Tid, u # t, Running(u)' PROVE Running(u) /\ mon[u].index # at
            OBVIOUS
          <5>1. Running(u)
            BY <4>2 DEF Running
          <5>2. threads[mon[u].index] = u
            BY <5>1 DEF HandleInv
          <5>3. threads[at] = Uninit
            BY <3>2, <3>4
          <5> QED
            BY <5>1, <5>2, <5>3
        <4>5. wat.at = 0
          BY <3>1 DEF HandleInv
        <4>6. ASSUME NEW u \in Tid, Running(u)'
              PROVE  /\ mon'[u].index \in DOMAIN threads' /\ threads'[mon'[u].index] = u
                     /\ mon'[u].index >= wat'.at /\ mon'[u].port = backends'[mon'[u].index + 1]
          <5>1. CASE u = t
            BY <3>1, <3>2, <3>4, <4>2, <4>3, <4>5, <5>1 DEF Started
          <5>2. CASE u # t
            BY <3>1, <4>2, <4>3, <4>4, <4>6, <5>2 DEF HandleInv
          <5> QED
            BY <5>1, <5>2
        <4> QED
          BY <3>1, <3>2, <4>5, <4>6 DEF HandleInv
      <3> QED
        BY <3>5, <3>6
    <2> QED
      BY <2>1, <2>2
  <1>14. ASSUME NEW a \in {"req", "wat"}, SpawnEnd(a) PROVE HandleInv'
    <2>1. UNCHANGED <<threads, backends, wat, mon>>
      BY <1>14 DEF SpawnEnd
    <2>2. /\ pc'["req"] # "start" /\ pc'["wat"] \notin Stopped
          /\ pc["wat"] \notin {"stop", "join"}
      BY <1>14 DEF SpawnEnd, BootInv, TypeOK, LocalType
    <2> QED
      BY <1>1, <2>1, <2>2 DEF Running
  <1>15. ASSUME NEW t \in Tid, Monitor(t) PROVE HandleInv'
    <2>1. CASE Crash
      BY <2>1, CrashInv
    <2>2. CASE ~Crash
      <3>1. UNCHANGED <<threads, backends, wat, pc>>
        BY <1>15, <2>2 DEF Monitor, MonUnchanged, MonitorStart, MonitorFail, MonitorSample,
          MonitorCheck, MonitorExchange, MonitorCancel
      <3>2. PICK p \in MonPc, q \in Addr \cup {NULL} :
              \/ mon' = [mon EXCEPT ![t] = [mon[t] EXCEPT !.pc = p]]
              \/ mon' = [mon EXCEPT ![t] = [mon[t] EXCEPT !.pc = p, !.ptr = q]]
        BY <1>15, <2>2 DEF Monitor, MonitorStart, MonitorFail, MonitorSample, MonitorCheck,
          MonitorExchange, MonitorCancel, MonPc, TypeOK, CounterType
      <3>3. Running(t)
        BY <1>15 DEF Monitor, MonitorStart, MonitorFail, MonitorSample, MonitorCheck,
          MonitorExchange, MonitorCancel, Running
      <3>4. \A u \in Tid : mon'[u].index = mon[u].index /\ mon'[u].port = mon[u].port
        <4> DEFINE m == [mon[t] EXCEPT !.pc = p]
                   n == [mon[t] EXCEPT !.pc = p, !.ptr = q]
        <4>1. m.index = mon[t].index /\ m.port = mon[t].port
          BY <1>0 DEF MonitorState
        <4>2. n.index = mon[t].index /\ n.port = mon[t].port
          BY <1>0 DEF MonitorState
        <4>3. PICK x \in {m, n} : mon' = [mon EXCEPT ![t] = x]
          BY <3>2
        <4>4. x.index = mon[t].index /\ x.port = mon[t].port
          BY <4>1, <4>2, <4>3
        <4>5. mon \in [Tid -> MonitorState]
          BY DEF TypeOK, ThreadType
        <4> HIDE DEF m, n
        <4> QED
          BY <4>3, <4>4, <4>5
      <3>5. \A u \in Tid : u # t => mon'[u] = mon[u]
        BY <3>2 DEF TypeOK, ThreadType
      <3>6. \A u \in Tid : Running(u)' => Running(u)
        BY <3>3, <3>5 DEF Running
      <3> QED
        BY <1>1, <3>1, <3>4, <3>6
    <2> QED
      BY <2>1, <2>2
  <1>16. CASE UNCHANGED vars
    BY <1>16, <1>1 DEF vars, Running
  <1> QED
    BY <1>3, <1>4, <1>5, <1>6, <1>7, <1>8, <1>9, <1>10, <1>11, <1>12, <1>13, <1>14, <1>15, <1>16
    DEF Next, Reload, Spawn

\* The invariant is inductive when the file is not rewritten during start-up.
THEOREM Inductive ==
  ASSUME "early" \notin Faults
  PROVE  Safety => [](TypeOK /\ IInv)
  <1>1. Init => TypeOK /\ IInv
    <2> SUFFICES ASSUME Init PROVE IInv
      BY InitType
    <2> USE DEF Init, BootPc, BootWat, BootLog
    <2>1. BootInv /\ MutexInv /\ LoggerInv
      BY DEF BootInv, Booted, MutexInv, Reloading, LoggerInv
    <2>2. SpawnInv /\ MonitorInv
      BY DEF SpawnInv, MonitorInv, NoMonitor
    <2>3. HandleInv
      BY DEF HandleInv, Running, NoMonitor, Uninitialised, Idx
    <2>4. ArrayInv
      <3>1. file \in Seq(Port) /\ Len(file) \in Nat /\ ctrPtr \in Addr \cup {NULL}
        BY DEF BootPtrs
      <3> QED
        BY <3>1 DEF ArrayInv, BootCells, Zeroed
    <2> QED
      BY <2>1, <2>2, <2>3, <2>4 DEF IInv
  <1>2. TypeOK /\ IInv /\ [Next]_vars => (TypeOK /\ IInv)'
    <2> SUFFICES ASSUME TypeOK, IInv, [Next]_vars PROVE IInv'
      BY TypeStep
    <2> QED
      BY BootInvStep, MutexInvStep, LoggerInvStep, MonitorInvStep, ArrayInvStep, SpawnInvStep,
         HandleInvStep DEF IInv
  <1> QED
    BY <1>1, <1>2, PTL DEF Safety

\* rps_counters_size always describes the array rps_counters_ptr points to,
\* outside update_rps_counters().
THEOREM SizesAgree ==
  ASSUME "early" \notin Faults
  PROVE  Safety => []CountersSized
  <1>1. TypeOK /\ IInv => CountersSized
    BY DEF TypeOK, CounterType, IInv, ArrayInv, CountersSized
  <1> QED
    BY <1>1, Inductive, PTL

\* No monitor touches a counter array that was freed or that has no element
\* for it: the joins in stop_metric_threads() protect update_rps_counters().
THEOREM MonitorsSafe ==
  ASSUME "early" \notin Faults
  PROVE  Safety => []MonitorsUseLiveCounters
  <1>1. TypeOK /\ IInv => MonitorsUseLiveCounters
    <2> SUFFICES ASSUME TypeOK, IInv, NEW t \in Tid, mon[t].pc = "exchange"
                 PROVE  Valid(mon[t].ptr, mon[t].index)
      BY DEF MonitorsUseLiveCounters
    <2>1. mon[t].ptr = ctrPtr /\ ctrPtr # NULL /\ mon[t].index < ctrSize
      BY DEF IInv, MonitorInv
    <2>2. pc["wat"] # "storesize"
      BY DEF IInv, HandleInv, Running
    <2>3. ctrPtr \in live /\ DOMAIN cells[ctrPtr] = Idx(ctrSize)
      BY <2>1, <2>2 DEF IInv, ArrayInv
    <2>4. mon[t].index \in Nat /\ ctrSize \in Nat
      BY DEF TypeOK, ThreadType, CounterType, MonitorState
    <2> QED
      BY <2>1, <2>3, <2>4 DEF Valid, Idx
  <1> QED
    BY <1>1, Inductive, PTL

\* The logger reads counters that exist: config->mutex keeps the reload away.
THEOREM LoggerSafe ==
  ASSUME "early" \notin Faults
  PROVE  Safety => []LoggerUsesLiveCounters
  <1>1. TypeOK /\ IInv => LoggerUsesLiveCounters
    <2> SUFFICES ASSUME TypeOK, IInv, pc["log"] = "peek", log.ptr # NULL, log.at < ctrSize
                 PROVE  Valid(log.ptr, log.at)
      BY DEF LoggerUsesLiveCounters
    <2>1. log.ptr = ctrPtr /\ ctrPtr # NULL
      BY DEF IInv, LoggerInv
    <2>2. pc["wat"] # "storesize"
      BY DEF IInv, MutexInv, Reloading
    <2>3. ctrPtr \in live /\ DOMAIN cells[ctrPtr] = Idx(ctrSize)
      BY <2>1, <2>2 DEF IInv, ArrayInv
    <2>4. log.at \in Nat /\ ctrSize \in Nat
      BY DEF TypeOK, LocalType, CounterType
    <2> QED
      BY <2>1, <2>3, <2>4 DEF Valid, Idx
  <1> QED
    BY <1>1, Inductive, PTL

\* "Stop existing monitoring threads before updating backend list"
\* (engine.c:442) is what reload_config() achieves.
THEOREM ReloadStopsMonitors ==
  ASSUME "early" \notin Faults
  PROVE  Safety => []OldMonitorsStopped
  <1>1. IInv => OldMonitorsStopped
    BY DEF IInv, HandleInv, OldMonitorsStopped
  <1> QED
    BY <1>1, Inductive, PTL

\* Monitors, backends and counters are about the same ports.
THEOREM MonitorsMatch ==
  ASSUME "early" \notin Faults
  PROVE  Safety => []MonitorsMatchBackends
  <1>1. TypeOK /\ IInv => MonitorsMatchBackends
    BY DEF TypeOK, ThreadType, IInv, HandleInv, MonitorsMatchBackends
  <1> QED
    BY <1>1, Inductive, PTL

\* A reload leaks no counter array.
THEOREM ReloadFreesCounters ==
  ASSUME "early" \notin Faults
  PROVE  Safety => []NoLeakedCounters
  <1>1. IInv => NoLeakedCounters
    BY DEF IInv, ArrayInv, NoLeakedCounters, Reloading
  <1> QED
    BY <1>1, Inductive, PTL

-----------------------------------------------------------------------------
(* How much is allocated.                                                   *)

\* However often the file is rewritten, at most two counter arrays exist: the
\* current one and, during a reload, the one it replaces.  In particular,
\* calloc() in update_rps_counters() needs no more than a second address.
AtMostTwoArrays ==
  /\ live \subseteq {ctrPtr, wat.old}
  /\ pc["wat"] = "resize" => live \subseteq {ctrPtr}

THEOREM ArraysAreBounded ==
  ASSUME "early" \notin Faults
  PROVE  Safety => []AtMostTwoArrays
  <1>1. IInv => AtMostTwoArrays
    BY DEF IInv, ArrayInv, AtMostTwoArrays
  <1> QED
    BY <1>1, Inductive, PTL

Monitors == {t \in Tid : Running(t)}

\* Monitors of different indices, all of them below n, are at most n.
LEMMA MonitorsCounted ==
  ASSUME TypeOK, IInv, NEW n \in Nat, \A t \in Monitors : mon[t].index \in Idx(n)
  PROVE  IsFiniteSet(Monitors) /\ Cardinality(Monitors) <= n
<1> DEFINE f == [t \in Monitors |-> mon[t].index]
<1>1. f \in Injection(Monitors, Idx(n))
  <2>1. f \in [Monitors -> Idx(n)]
    OBVIOUS
  <2>2. \A t, u \in Monitors : mon[t].index = mon[u].index => t = u
    BY DEF Monitors, IInv, HandleInv
  <2>3. \A t, u \in Monitors : f[t] = f[u] => t = u
    BY <2>2
  <2> HIDE DEF f
  <2> QED
    BY <2>1, <2>3 DEF Injection, IsInjective
<1>2. IsFiniteSet(Idx(n)) /\ Cardinality(Idx(n)) = n
  <2>1. 0 \in Int /\ n - 1 \in Int /\ 0 .. (n - 1) = Idx(n)
    BY DEF Idx
  <2>2. IsFiniteSet(0 .. (n - 1)) /\ Cardinality(0 .. (n - 1)) = n
    BY <2>1, FS_Interval
  <2> QED
    BY <2>1, <2>2
<1> HIDE DEF f
<1> QED
  BY <1>1, <1>2, FS_Injection

\* There is never more than one monitor for each backend of the list in use.
AtMostOneMonitorEach ==
  IsFiniteSet(Monitors) /\ Cardinality(Monitors) <= Len(backends)

\* A reload (stop_metric_threads(), start_metric_threads()) does not accumulate
\* threads, also when pthread_create() or the process fails on the way.
THEOREM MonitorsAreBounded ==
  ASSUME "early" \notin Faults
  PROVE  Safety => []AtMostOneMonitorEach
  <1>1. TypeOK /\ IInv => AtMostOneMonitorEach
    <2> SUFFICES ASSUME TypeOK, IInv PROVE AtMostOneMonitorEach
      OBVIOUS
    <2>1. Len(backends) \in Nat
      BY DEF TypeOK, EnvType
    <2>2. \A t \in Monitors : mon[t].index \in Idx(Len(backends))
      BY DEF Monitors, IInv, HandleInv
    <2> QED
      BY <2>1, <2>2, MonitorsCounted DEF AtMostOneMonitorEach
  <1> QED
    BY <1>1, Inductive, PTL

\* start_metric_threads() always has a thread left to start.
ThreadIsLeft ==
  \A a \in {"req", "wat"} :
    pc[a] = "spawn" /\ spawn[a].todo # <<>> => \E t \in Tid : ~Running(t)

\* As many monitors as the longest list has backends are enough for the model:
\* its set of threads never keeps pthread_create() from succeeding.
THEOREM ThreadsSuffice ==
  ASSUME "early" \notin Faults, IsFiniteSet(Tid),
         \A list \in Lists : Len(list) <= Cardinality(Tid)
  PROVE  Safety => []ThreadIsLeft
  <1>1. TypeOK /\ IInv => ThreadIsLeft
    <2> SUFFICES ASSUME TypeOK, IInv, NEW a \in {"req", "wat"},
                        pc[a] = "spawn", spawn[a].todo # <<>>,
                        \A t \in Tid : Running(t)
                 PROVE  FALSE
      BY DEF ThreadIsLeft
    <2>1. /\ spawn[a].todo \in Seq(Port) /\ spawn[a].at \in Nat
          /\ backends \in Lists /\ Len(backends) \in Nat
      BY DEF TypeOK, EnvType, ThreadType
    <2>2. spawn[a].at + Len(spawn[a].todo) = Len(backends) /\ Len(spawn[a].todo) > 0
      BY <2>1 DEF IInv, SpawnInv
    <2>3. PICK n \in Nat : n = spawn[a].at /\ n < Len(backends)
      BY <2>1, <2>2
    <2>4. ASSUME NEW t \in Monitors PROVE mon[t].index \in Idx(n)
      <3>1. /\ t \in Tid /\ mon[t].index \in DOMAIN threads /\ threads[mon[t].index] = t
            /\ mon[t].index \in Nat
        BY DEF Monitors, IInv, HandleInv, TypeOK, ThreadType, MonitorState
      <3>2. ~(mon[t].index >= n)
        BY <2>3, <3>1 DEF IInv, SpawnInv
      <3> QED
        BY <3>1, <3>2 DEF Idx
    <2>5. Cardinality(Monitors) <= n
      BY <2>4, MonitorsCounted
    <2>6. Monitors = Tid
      BY DEF Monitors
    <2>7. Len(backends) <= Cardinality(Tid) /\ Cardinality(Tid) \in Nat
      BY <2>1, FS_CardinalityType
    <2> QED
      BY <2>1, <2>3, <2>5, <2>6, <2>7
  <1> QED
    BY <1>1, Inductive, PTL

-----------------------------------------------------------------------------
(* Every behaviour of Engine is one of Proxy, its abstract specification.   *)

\* Between Pick and Forward, and nowhere else, a request is being served.
ServingInv ==
  req.port # NULL <=> pc["req"] \in {"loadsize", "loadptr", "count", "forward"}

LEMMA CrashServing == TypeOK /\ Crash => ServingInv'
  BY DEF Crash, BootPc, NoRequest, ServingInv

LEMMA CrashRestarts == TypeOK /\ Crash => P!Restart
  BY DEF Crash, NoRequest, environment, P!Restart

LEMMA ServingStep ==
  ASSUME TypeOK, ServingInv, [Next]_vars
  PROVE  ServingInv'
  <1> USE DEF Goto, counters, environment
  <1>1. ASSUME UNCHANGED req, pc'["req"] = pc["req"] PROVE ServingInv'
    BY <1>1 DEF ServingInv
  <1>2. CASE Crash
    BY <1>2, CrashServing
  <1>3. CASE Truncate \/ Dump
    BY <1>3, <1>1 DEF Truncate, Dump, EngineUnchanged
  <1>4. CASE Pick
    <2>1. CASE backends = <<>>
      BY <1>4, <2>1 DEF Pick, ServingInv, TypeOK, LocalType
    <2>2. CASE backends # <<>>
      <3>1. /\ pc'["req"] = "loadsize"
            /\ req'.port = backends[(rr % Len(backends)) + 1]
        BY <1>4, <2>2 DEF Pick, TypeOK, LocalType
      <3>2. Len(backends) \in Nat \ {0} /\ backends \in Seq(Port) /\ rr \in Int
        BY <2>2 DEF TypeOK, EnvType, Idx
      <3>3. rr % Len(backends) \in Idx(Len(backends))
        BY <3>2, ModRange
      <3>4. req'.port \in Port
        BY <3>1, <3>2, <3>3 DEF Idx
      <3> QED
        BY <3>1, <3>4 DEF ServingInv
    <2> QED
      BY <2>1, <2>2
  <1>5. CASE StartLogger \/ Receive \/ LoadSize \/ LoadPtr \/ Forward
    BY <1>5, <1>2 DEF StartLogger, Receive, LoadSize, LoadPtr, Forward, NoRequest, ServingInv, TypeOK, LocalType
  <1>6. CASE Count
    BY <1>6, <1>2 DEF Count, ServingInv, TypeOK, LocalType
  <1>7. CASE Logger
    BY <1>7, <1>1 DEF Logger, LogUnchanged, LogLock, LogLoadPtr, LogPeek, LogUnlock, TypeOK, LocalType
  <1>8. CASE Reload
    BY <1>8, <1>1, <1>2 DEF Reload, WatUnchanged, AddWatch, ReadEvent, LockReload, StopCancel, StopJoin,
      StopEnd, ReadConfig, Resize, StoreSize, FreeOld, UnlockReload, TypeOK, LocalType
  <1>9. CASE Spawn
    BY <1>9, <1>1, <1>2 DEF Spawn, SpawnBegin, SpawnOne, SpawnEnd, ServingInv, TypeOK, LocalType
  <1>10. ASSUME NEW t \in Tid, Monitor(t) PROVE ServingInv'
    BY <1>10, <1>1, <1>2 DEF Monitor, MonUnchanged, MonitorStart, MonitorFail, MonitorSample,
      MonitorCheck, MonitorExchange, MonitorCancel
  <1>11. CASE UNCHANGED vars
    BY <1>11, <1>1 DEF vars
  <1> QED
    BY <1>3, <1>4, <1>5, <1>6, <1>7, <1>8, <1>9, <1>10, <1>11 DEF Next, Request

\* Each step of the engine is a step of the proxy or leaves it as it is.
LEMMA Simulation ==
  ASSUME TypeOK, ServingInv, [Next]_vars
  PROVE  [P!Next]_(P!proxyVars)
  <1> USE DEF P!Next, P!proxyVars, Goto, counters, environment
  <1>1. CASE Crash
    BY <1>1, CrashRestarts
  <1>2. ASSUME UNCHANGED <<file, backends, req>> PROVE UNCHANGED P!proxyVars
    BY <1>2
  <1>3. CASE Truncate \/ Dump
    <2>1. file' \in Lists /\ UNCHANGED <<backends, req>>
      BY <1>3 DEF Truncate, Dump, EngineUnchanged
    <2> QED
      BY <2>1 DEF P!Publish
  <1>4. CASE Pick
    <2>1. CASE backends = <<>>
      BY <1>4, <2>1 DEF Pick, ReqUnchanged
    <2>2. CASE backends # <<>>
      <3> DEFINE index == rr % Len(backends)
      <3>1. req'.port = backends[index + 1] /\ UNCHANGED <<file, backends>>
        BY <1>4, <2>2 DEF Pick, ReqUnchanged, TypeOK, LocalType
      <3>2. Len(backends) \in Nat \ {0} /\ backends \in Seq(Port) /\ rr \in Int
        BY <2>2 DEF TypeOK, EnvType, Idx
      <3>3. index + 1 \in DOMAIN backends
        <4>1. index \in Idx(Len(backends))
          BY <3>2, ModRange
        <4> QED
          BY <3>2, <4>1 DEF Idx
      <3>4. req'.port \in P!Range(backends)
        BY <3>1, <3>3 DEF P!Range
      <3>5. req.port = NULL
        BY <1>4 DEF Pick, ServingInv
      <3> QED
        BY <3>1, <3>4, <3>5 DEF P!Accept
    <2> QED
      BY <2>1, <2>2
  <1>5. CASE Forward /\ ~Crash
    <2>1. req'.port = NULL /\ req.port # NULL /\ UNCHANGED <<file, backends>>
      BY <1>5 DEF Forward, ReqUnchanged, NoRequest, ServingInv
    <2> QED
      BY <2>1 DEF P!Finish
  <1>6. CASE StartLogger \/ Receive \/ LoadSize \/ LoadPtr \/ (Count /\ ~Crash)
    <2>1. UNCHANGED <<file, backends>> /\ req'.port = req.port
      BY <1>6 DEF StartLogger, Receive, LoadSize, LoadPtr, Count, ReqUnchanged, TypeOK, LocalType
    <2> QED
      BY <2>1
  <1>7. CASE Logger
    BY <1>7, <1>2 DEF Logger, LogUnchanged, LogLock, LogLoadPtr, LogPeek, LogUnlock
  <1>8. CASE ReadConfig
    BY <1>8 DEF ReadConfig, WatUnchanged, P!Adopt
  <1>9. CASE Reload /\ ~ReadConfig
    BY <1>9, <1>1, <1>2 DEF Reload, WatUnchanged, AddWatch, ReadEvent, LockReload, StopCancel, StopJoin,
      StopEnd, Resize, StoreSize, FreeOld, UnlockReload
  <1>10. CASE Spawn
    BY <1>10, <1>1, <1>2 DEF Spawn, SpawnBegin, SpawnOne, SpawnEnd
  <1>11. ASSUME NEW t \in Tid, Monitor(t) PROVE [P!Next]_(P!proxyVars)
    BY <1>11, <1>1, <1>2 DEF Monitor, MonUnchanged, MonitorStart, MonitorFail, MonitorSample,
      MonitorCheck, MonitorExchange, MonitorCancel
  <1>12. CASE UNCHANGED vars
    BY <1>12, <1>2 DEF vars
  <1> QED
    BY <1>1, <1>3, <1>4, <1>5, <1>6, <1>7, <1>8, <1>9, <1>10, <1>11, <1>12 DEF Next, Request

\* Through every interleaving, reload and crash, prescal sends each request to
\* one member of the pool in force, and adopts only what the file holds.
THEOREM EngineImplementsProxy == Safety => ImplementsProxySafety
  <1>1. Init => ServingInv
    BY DEF Init, BootPc, NoRequest, ServingInv
  <1>2. Init => P!Init
    BY DEF Init, NoRequest, P!Init
  <1> QED
    BY <1>1, <1>2, InitType, TypeStep, ServingStep, Simulation, PTL
    DEF Safety, ImplementsProxySafety, P!Safety
=============================================================================
