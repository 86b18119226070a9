------------------------------- MODULE Engine -------------------------------
(***************************************************************************)
(* prescal/src/engine.c: the threads of the proxy process and the memory    *)
(* they share.                                                              *)
(*                                                                          *)
(*   req   the main thread: start(), then process_request() per connection  *)
(*   wat   watch_config(): inotify, reload_config() under config->mutex     *)
(*   log   engine_logger(): prints the counters under config->mutex         *)
(*   Tid   request_per_second(): one monitor thread per backend             *)
(*                                                                          *)
(* Every atomic load, store, exchange of the shared counters is a step of   *)
(* its own.  What runs entirely under config->mutex and touches only what   *)
(* the mutex protects is one step.  A counter cell holds the set of ports   *)
(* whose requests were counted in it since its last reset: how many there   *)
(* were is left out, whose they were is not.                                *)
(*                                                                          *)
(* Touching freed or foreign memory is undefined: the step may crash the    *)
(* process, pass unnoticed, or hit a cell of an array that is in use.       *)
(* A crash ends in a fresh process (run.sh: Restart=always).                *)
(***************************************************************************)
EXTENDS Integers, Sequences, FiniteSets

CONSTANTS
  Port,       (* backend ports                                             *)
  Lists,      (* values of "forwards:" the scaler may write                *)
  Tid,        (* identities of monitor threads                             *)
  Addr,       (* addresses calloc() may return for a counter array         *)
  NULL,
  Uninit,     (* a pthread_t no pthread_create() has written               *)
  RRSpan,     (* values of rr_counter as a uint32_t: 2^32 in the program   *)
  MaxWrites,  (* bound: how many times the file is rewritten               *)
  Faults      (* "calloc", "create": that call may fail;                   *)
              (* "sigpipe": a send() to a closed socket kills the process; *)
              (* "early": the file may change before start-up is over      *)

ASSUME EngineAssumption ==
  /\ Lists \subseteq Seq(Port)
  /\ <<>> \in Lists
  /\ NULL \notin Addr \cup Port
  /\ Uninit \notin Tid
  /\ RRSpan \in Nat \ {0}
  /\ MaxWrites \in Nat
  /\ Faults \subseteq {"calloc", "create", "sigpipe", "early"}

VARIABLES
  file,       (* "forwards:" in config.yml                                 *)
  writer,     (* "idle", or "dumping" after open(path, 'w') truncated it   *)
  writes,     (* rewrites begun so far                                     *)
  pending,    (* an unread IN_MODIFY event (identical ones coalesce)       *)
  mutex,      (* holder of config->mutex, or "free"                        *)
  backends,   (* engine->backends                                          *)
  rr,         (* engine->rr_counter, as the uint32_t it is read into       *)
  ctrPtr,     (* rps_counters_ptr                                          *)
  ctrSize,    (* rps_counters_size                                         *)
  live,       (* addresses of allocated counter arrays                     *)
  cells,      (* what is stored at each address                            *)
  threads,    (* engine->metric_threads; the empty array stands for NULL   *)
  mon,        (* the monitor threads                                       *)
  pc,         (* where req, wat and log are                                *)
  req,        (* locals of process_request()                               *)
  wat,        (* locals of reload_config() and what it calls               *)
  log,        (* locals of engine_logger()                                 *)
  spawn       (* locals of start_metric_threads(), per calling thread      *)

environment == <<file, writer, writes>>
counters == <<ctrPtr, ctrSize, live, cells>>
vars == <<environment, pending, mutex, backends, rr, counters, threads, mon,
          pc, req, wat, log, spawn>>

-----------------------------------------------------------------------------
Idx(n) == 0 .. (n - 1)
Zeroed(n) == [i \in Idx(n) |-> {}]
Uninitialised(n) == [i \in Idx(n) |-> Uninit]

NoMonitor == [pc |-> "none", port |-> NULL, index |-> 0, ptr |-> NULL, cancel |-> FALSE]
Started(p, i) == [pc |-> "init", port |-> p, index |-> i, ptr |-> NULL, cancel |-> FALSE]
NoRequest == [port |-> NULL, index |-> 0, size |-> 0, ptr |-> NULL]
NoSpawn   == [todo |-> <<>>, at |-> 0]

Goto(t, from, to) == pc[t] = from /\ pc' = [pc EXCEPT ![t] = to]

\* The access cells[a][i] is to an element of an allocated array.
Valid(a, i) == a \in live /\ i \in DOMAIN cells[a]

-----------------------------------------------------------------------------
(* main(): config_init, read_config, engine_init, and the entry of start(). *)
(* A crash leaves the file alone; systemd starts a fresh process on it.     *)
BootPc  == [req |-> "start", wat |-> "init", log |-> "off"]
BootWat == [at |-> 0, old |-> NULL]
BootLog == [at |-> 0, ptr |-> NULL]

\* engine_init() allocates no array for an empty list.
BootPtrs(list) == IF list = <<>> THEN {NULL} ELSE Addr
BootCells(list, ptr) == [a \in Addr |-> Zeroed(IF a = ptr THEN Len(list) ELSE 0)]

Init ==
  /\ file \in Lists /\ writer = "idle" /\ writes = 0
  /\ pending = FALSE /\ mutex = "free" /\ backends = file /\ rr = 0
  /\ ctrPtr \in BootPtrs(file)
  /\ ctrSize = Len(file) /\ live = {ctrPtr} \ {NULL} /\ cells = BootCells(file, ctrPtr)
  /\ threads = Uninitialised(0) /\ mon = [t \in Tid |-> NoMonitor]
  /\ pc = BootPc /\ req = NoRequest /\ wat = BootWat /\ log = BootLog
  /\ spawn = [a \in {"req", "wat"} |-> NoSpawn]

Crash ==
  /\ UNCHANGED environment
  /\ pending' = FALSE /\ mutex' = "free" /\ backends' = file /\ rr' = 0
  /\ ctrPtr' \in BootPtrs(file)
  /\ ctrSize' = Len(file) /\ live' = {ctrPtr'} \ {NULL} /\ cells' = BootCells(file, ctrPtr')
  /\ threads' = Uninitialised(0) /\ mon' = [t \in Tid |-> NoMonitor]
  /\ pc' = BootPc /\ req' = NoRequest /\ wat' = BootWat /\ log' = BootLog
  /\ spawn' = [a \in {"req", "wat"} |-> NoSpawn]

-----------------------------------------------------------------------------
(* DockerManager.update_config(): open(path, 'w') truncates, then           *)
(* yaml.dump() writes.  Each raises IN_MODIFY if the watch is in place.     *)
Booted == pc["req"] \notin {"start", "spawn", "spawned"} /\ pc["wat"] # "init"

Notify == pending' = (pending \/ pc["wat"] # "init")

EngineUnchanged ==
  UNCHANGED <<mutex, backends, rr, counters, threads, mon, pc, req, wat, log, spawn>>

Truncate ==
  /\ writer = "idle"
  /\ writes < MaxWrites
  /\ "early" \in Faults \/ Booted
  /\ file' = <<>>
  /\ writer' = "dumping"
  /\ writes' = writes + 1
  /\ Notify
  /\ EngineUnchanged

Dump ==
  /\ writer = "dumping"
  /\ "early" \in Faults \/ Booted
  /\ file' \in Lists
  /\ writer' = "idle"
  /\ Notify
  /\ UNCHANGED writes
  /\ EngineUnchanged

-----------------------------------------------------------------------------
(* start_metric_threads(), called by start() without the mutex and by       *)
(* reload_config() under it.                                                *)
SpawnBegin(a) ==
  /\ IF backends = <<>>
       THEN /\ Goto(a, "start", "spawned")
            /\ UNCHANGED <<threads, spawn>>
       ELSE /\ Goto(a, "start", "spawn")
            /\ threads' = Uninitialised(Len(backends))
            /\ spawn' = [spawn EXCEPT ![a] = [todo |-> backends, at |-> 0]]
  /\ UNCHANGED <<environment, pending, mutex, backends, rr, counters, mon, req, wat, log>>

\* Mutant of Advance: every thread is handed the same index.
AdvanceSameIndex(a) == spawn' = [spawn EXCEPT ![a].todo = Tail(@)]

\* On to the next list node.
Advance(a) == spawn' = [spawn EXCEPT ![a] = [todo |-> Tail(@.todo), at |-> @.at + 1]]

\* One iteration: pthread_create() into metric_threads[i].  The array may have
\* been freed or replaced by the other caller when both run.
SpawnOne(a) ==
  /\ pc[a] = "spawn"
  /\ spawn[a].todo # <<>>
  /\ IF DOMAIN threads = {}
       THEN Crash
       ELSE /\ \/ \E t \in Tid :
                    /\ mon[t].pc = "none"
                    /\ mon' = [mon EXCEPT ![t] = Started(Head(spawn[a].todo), spawn[a].at)]
                    /\ threads' = IF spawn[a].at \in DOMAIN threads
                                    THEN [threads EXCEPT ![spawn[a].at] = t]
                                    ELSE threads
               \/ "create" \in Faults /\ UNCHANGED <<threads, mon>>
            /\ Advance(a)
            /\ UNCHANGED <<environment, pending, mutex, backends, rr, counters,
                           pc, req, wat, log>>

SpawnEnd(a) ==
  /\ spawn[a].todo = <<>>
  /\ Goto(a, "spawn", "spawned")
  /\ spawn' = [spawn EXCEPT ![a] = NoSpawn]
  /\ UNCHANGED <<environment, pending, mutex, backends, rr, counters, threads, mon,
                 req, wat, log>>

-----------------------------------------------------------------------------
(* The main thread: rest of start(), then handle_connections() calling      *)
(* process_request() for one readable connection after another.             *)
ReqUnchanged ==
  UNCHANGED <<environment, pending, mutex, backends, threads, mon, wat, spawn>>

StartLogger ==
  /\ pc["req"] = "spawned"
  /\ pc' = [pc EXCEPT !["req"] = "idle", !["log"] = "sleep"]
  /\ ReqUnchanged
  /\ UNCHANGED <<rr, counters, req, log>>

\* handle_request(): recv() returned a request (otherwise nothing happens).
Receive ==
  /\ Goto("req", "idle", "pick")
  /\ ReqUnchanged
  /\ UNCHANGED <<rr, counters, req, log>>

\* Mutant of Pick: rr_counter read into something wider than 32 bits.
PickWide ==
  /\ pc["req"] = "pick" /\ mutex = "free" /\ backends # <<>>
  /\ pc' = [pc EXCEPT !["req"] = "loadsize"]
  /\ rr' = rr + 1
  /\ req' = [req EXCEPT !.port = backends[(rr % Len(backends)) + 1]]
  /\ ReqUnchanged
  /\ UNCHANGED <<counters, log>>

\* get_next_backend_port(): all of it under the mutex; no backend, no answer.
Pick ==
  /\ pc["req"] = "pick"
  /\ mutex = "free"
  /\ IF backends = <<>>
       THEN /\ pc' = [pc EXCEPT !["req"] = "idle"]
            /\ UNCHANGED <<rr, req>>
       ELSE LET index == rr % Len(backends) IN
            /\ pc' = [pc EXCEPT !["req"] = "loadsize"]
            /\ rr' = (rr + 1) % RRSpan
            /\ req' = [req EXCEPT !.port = backends[index + 1], !.index = index]
  /\ ReqUnchanged
  /\ UNCHANGED <<counters, log>>

LoadSize ==
  /\ Goto("req", "loadsize", "loadptr")
  /\ req' = [req EXCEPT !.size = ctrSize]
  /\ ReqUnchanged
  /\ UNCHANGED <<rr, counters, log>>

LoadPtr ==
  /\ Goto("req", "loadptr", "count")
  /\ req' = [req EXCEPT !.ptr = ctrPtr]
  /\ ReqUnchanged
  /\ UNCHANGED <<rr, counters, log>>

\* The test before atomic_fetch_add() in process_request().
Counts == req.ptr # NULL /\ req.index < req.size

AddTo(a, i) == cells' = [cells EXCEPT ![a][i] = @ \cup {req.port}]

\* atomic_fetch_add(&current_counters[backend_index], 1).
Count ==
  \/ /\ Goto("req", "count", "forward")
     /\ \/ ~Counts /\ UNCHANGED cells
        \/ Counts /\ Valid(req.ptr, req.index) /\ AddTo(req.ptr, req.index)
        \/ /\ Counts /\ ~Valid(req.ptr, req.index)
           /\ \/ UNCHANGED cells
              \/ \E a \in live : \E i \in DOMAIN cells[a] : AddTo(a, i)
     /\ ReqUnchanged
     /\ UNCHANGED <<rr, ctrPtr, ctrSize, live, req, log>>
  \/ /\ pc["req"] = "count"
     /\ Counts /\ ~Valid(req.ptr, req.index)
     /\ Crash

\* handle_response(): the backend's answer or a 502, then close().  The peer of
\* either send() may be gone.
Forward ==
  \/ /\ Goto("req", "forward", "idle")
     /\ req' = NoRequest
     /\ ReqUnchanged
     /\ UNCHANGED <<rr, counters, log>>
  \/ /\ pc["req"] = "forward"
     /\ "sigpipe" \in Faults
     /\ Crash

-----------------------------------------------------------------------------
(* watch_config() and reload_config().                                      *)
WatUnchanged == UNCHANGED <<environment, rr, req, log>>

\* inotify_add_watch(): modifications before it go unseen.
AddWatch ==
  /\ Goto("wat", "init", "read")
  /\ WatUnchanged
  /\ UNCHANGED <<pending, mutex, backends, counters, threads, mon, wat, spawn>>

\* read() on the inotify descriptor returns; then sleep_ms(100).
ReadEvent ==
  /\ pending
  /\ Goto("wat", "read", "lock")
  /\ pending' = FALSE
  /\ WatUnchanged
  /\ UNCHANGED <<mutex, backends, counters, threads, mon, wat, spawn>>

LockReload ==
  /\ mutex = "free"
  /\ Goto("wat", "lock", "stop")
  /\ mutex' = "wat"
  /\ WatUnchanged
  /\ UNCHANGED <<pending, backends, counters, threads, mon, wat, spawn>>

\* metric_threads[i] as stop_metric_threads() reads it.
Handle(i) == IF i \in DOMAIN threads THEN threads[i] ELSE Uninit

\* pthread_cancel(metric_threads[i]); on garbage it crashes or fails.
StopCancel ==
  /\ pc["wat"] = "stop"
  /\ wat.at \in DOMAIN threads
  /\ IF Handle(wat.at) = Uninit
       THEN \/ /\ wat' = [wat EXCEPT !.at = @ + 1]
               /\ WatUnchanged
               /\ UNCHANGED <<pending, mutex, backends, counters, threads, mon, pc, spawn>>
            \/ Crash
       ELSE /\ mon' = [mon EXCEPT ![Handle(wat.at)].cancel = TRUE]
            /\ pc' = [pc EXCEPT !["wat"] = "join"]
            /\ WatUnchanged
            /\ UNCHANGED <<pending, mutex, backends, counters, threads, wat, spawn>>

\* Mutant of StopJoin: pthread_detach() in place of pthread_join().
StopDetach ==
  /\ Goto("wat", "join", "stop")
  /\ wat' = [wat EXCEPT !.at = @ + 1]
  /\ WatUnchanged
  /\ UNCHANGED <<pending, mutex, backends, counters, threads, mon, spawn>>

\* pthread_join(metric_threads[i]).
StopJoin ==
  /\ pc["wat"] = "join"
  /\ IF Handle(wat.at) = Uninit
       THEN Crash
       ELSE /\ mon[Handle(wat.at)].pc = "done"
            /\ mon' = [mon EXCEPT ![Handle(wat.at)] = NoMonitor]
            /\ pc' = [pc EXCEPT !["wat"] = "stop"]
            /\ wat' = [wat EXCEPT !.at = @ + 1]
            /\ WatUnchanged
            /\ UNCHANGED <<pending, mutex, backends, counters, threads, spawn>>

\* Mutant of StopEnd: the loop may end one thread early.
StopEndEarly ==
  /\ wat.at + 1 \notin DOMAIN threads
  /\ Goto("wat", "stop", "parse")
  /\ threads' = Uninitialised(0)
  /\ wat' = [wat EXCEPT !.at = 0]
  /\ WatUnchanged
  /\ UNCHANGED <<pending, mutex, backends, counters, mon, spawn>>

\* The end of the loop: free the two arrays, or nothing was running.
StopEnd ==
  /\ wat.at \notin DOMAIN threads
  /\ Goto("wat", "stop", "parse")
  /\ threads' = Uninitialised(0)
  /\ wat' = [wat EXCEPT !.at = 0]
  /\ WatUnchanged
  /\ UNCHANGED <<pending, mutex, backends, counters, mon, spawn>>

\* Mutant of ReadConfig: without linkedlist_init(), the new entries are
\* appended to the old list.
ReadConfigAppend ==
  /\ Goto("wat", "parse", "resize")
  /\ backends' = backends \o file
  /\ WatUnchanged
  /\ UNCHANGED <<pending, mutex, counters, threads, mon, wat, spawn>>

\* linkedlist_init(), read_config(), engine->backends = config->forwards.
ReadConfig ==
  /\ Goto("wat", "parse", "resize")
  /\ backends' = file
  /\ WatUnchanged
  /\ UNCHANGED <<pending, mutex, counters, threads, mon, wat, spawn>>

\* update_rps_counters(): nothing to do, or calloc() fails, or the new array
\* is swapped in by atomic_exchange().
Resize ==
  /\ \/ /\ Len(backends) = ctrSize \/ "calloc" \in Faults
        /\ Goto("wat", "resize", "start")
        /\ UNCHANGED <<ctrPtr, live, cells, wat>>
     \/ /\ Len(backends) # ctrSize
        /\ Goto("wat", "resize", "storesize")
        /\ \E new \in Addr \ live :
             /\ live' = live \cup {new}
             /\ cells' = [cells EXCEPT ![new] = Zeroed(Len(backends))]
             /\ ctrPtr' = new
        /\ wat' = [wat EXCEPT !.old = ctrPtr]
  /\ WatUnchanged
  /\ UNCHANGED <<pending, mutex, backends, ctrSize, threads, mon, spawn>>

\* Mutant of StoreSize: atomic_store(&rps_counters_size, ...) is forgotten.
StoreNoSize ==
  /\ Goto("wat", "storesize", "grace")
  /\ WatUnchanged
  /\ UNCHANGED <<pending, mutex, backends, counters, threads, mon, wat, spawn>>

StoreSize ==
  /\ Goto("wat", "storesize", "grace")
  /\ ctrSize' = Len(backends)
  /\ WatUnchanged
  /\ UNCHANGED <<pending, mutex, backends, ctrPtr, live, cells, threads, mon, wat, spawn>>

\* Mutant of FreeOld: the grace period is waited for, free() is not called.
FreeNothing ==
  /\ Goto("wat", "grace", "start")
  /\ wat' = [wat EXCEPT !.old = NULL]
  /\ WatUnchanged
  /\ UNCHANGED <<pending, mutex, backends, counters, threads, mon, spawn>>

\* sleep_ms(100); free(old_counters).
FreeOld ==
  /\ Goto("wat", "grace", "start")
  /\ live' = live \ {wat.old}
  /\ cells' = [a \in Addr |-> IF a = wat.old THEN Zeroed(0) ELSE cells[a]]
  /\ wat' = [wat EXCEPT !.old = NULL]
  /\ WatUnchanged
  /\ UNCHANGED <<pending, mutex, backends, ctrPtr, ctrSize, threads, mon, spawn>>

\* Mutant of UnlockReload: events that came in during the reload are drained.
UnlockAndDrain ==
  /\ Goto("wat", "spawned", "read")
  /\ mutex' = "free"
  /\ pending' = FALSE
  /\ WatUnchanged
  /\ UNCHANGED <<backends, counters, threads, mon, wat, spawn>>

UnlockReload ==
  /\ Goto("wat", "spawned", "read")
  /\ mutex' = "free"
  /\ WatUnchanged
  /\ UNCHANGED <<pending, backends, counters, threads, mon, wat, spawn>>

-----------------------------------------------------------------------------
(* request_per_second(), one thread per backend.                            *)
MonUnchanged ==
  UNCHANGED <<environment, pending, mutex, backends, rr, ctrPtr, ctrSize, live,
              threads, pc, req, wat, log, spawn>>

\* Connect to the database, open the data file, wait for the first answer of
\* the backend; a failure of the first two ends the thread.
MonitorStart(t) ==
  /\ mon[t].pc = "init"
  /\ \E to \in {"sample", "done"} : mon' = [mon EXCEPT ![t].pc = to]
  /\ MonUnchanged
  /\ UNCHANGED cells

\* request_metrics() fails: the loop, and with it the thread, ends.
MonitorFail(t) ==
  /\ mon[t].pc = "sample"
  /\ mon' = [mon EXCEPT ![t].pc = "done"]
  /\ MonUnchanged
  /\ UNCHANGED cells

\* request_metrics() succeeds; load rps_counters_ptr.
MonitorSample(t) ==
  /\ mon[t].pc = "sample"
  /\ mon' = [mon EXCEPT ![t] = [@ EXCEPT !.pc = "check", !.ptr = ctrPtr]]
  /\ MonUnchanged
  /\ UNCHANGED cells

\* current_counters && index < rps_counters_size
MonitorCheck(t) ==
  /\ mon[t].pc = "check"
  /\ mon' = IF mon[t].ptr # NULL /\ mon[t].index < ctrSize
              THEN [mon EXCEPT ![t].pc = "exchange"]
              ELSE [mon EXCEPT ![t] = [@ EXCEPT !.pc = "sample", !.ptr = NULL]]
  /\ MonUnchanged
  /\ UNCHANGED cells

\* atomic_exchange(&current_counters[index], 0); report; sleep.
MonitorExchange(t) ==
  /\ mon[t].pc = "exchange"
  /\ \/ /\ mon' = [mon EXCEPT ![t] = [@ EXCEPT !.pc = "sample", !.ptr = NULL]]
        /\ cells' = IF Valid(mon[t].ptr, mon[t].index)
                      THEN [cells EXCEPT ![mon[t].ptr][mon[t].index] = {}]
                      ELSE cells
        /\ MonUnchanged
     \/ ~Valid(mon[t].ptr, mon[t].index) /\ Crash
     \/ "sigpipe" \in Faults /\ Crash

\* Deferred cancellation: it acts at the next blocking call.
MonitorCancel(t) ==
  /\ mon[t].pc \in {"init", "sample"}
  /\ mon[t].cancel
  /\ mon' = [mon EXCEPT ![t].pc = "done"]
  /\ MonUnchanged
  /\ UNCHANGED cells

-----------------------------------------------------------------------------
(* engine_logger(): once a second, one line under the mutex.                *)
LogUnchanged ==
  UNCHANGED <<environment, pending, backends, rr, counters, threads, mon, req, wat, spawn>>

\* Mutant of LogLock: the logger does not wait for the mutex.
LogUnlocked ==
  /\ Goto("log", "sleep", "scan")
  /\ LogUnchanged
  /\ UNCHANGED <<mutex, log>>

LogLock ==
  /\ mutex = "free"
  /\ Goto("log", "sleep", "scan")
  /\ mutex' = "log"
  /\ LogUnchanged
  /\ UNCHANGED log

LogLoadPtr ==
  /\ log.at < Len(backends)
  /\ Goto("log", "scan", "peek")
  /\ log' = [log EXCEPT !.ptr = ctrPtr]
  /\ LogUnchanged
  /\ UNCHANGED mutex

\* current_counters && i < size, then atomic_load(&current_counters[i]).
LogPeek ==
  /\ Goto("log", "peek", "scan")
  /\ log' = [at |-> log.at + 1, ptr |-> NULL]
  /\ LogUnchanged
  /\ UNCHANGED mutex

LogUnlock ==
  /\ log.at = Len(backends)
  /\ Goto("log", "scan", "sleep")
  /\ mutex' = "free"
  /\ log' = [log EXCEPT !.at = 0]
  /\ LogUnchanged

-----------------------------------------------------------------------------
Request == StartLogger \/ Receive \/ Pick \/ LoadSize \/ LoadPtr \/ Count \/ Forward
Reload ==
  \/ AddWatch \/ ReadEvent \/ LockReload \/ StopCancel \/ StopJoin \/ StopEnd
  \/ ReadConfig \/ Resize \/ StoreSize \/ FreeOld \/ UnlockReload
Monitor(t) ==
  \/ MonitorStart(t) \/ MonitorFail(t) \/ MonitorSample(t) \/ MonitorCheck(t)
  \/ MonitorExchange(t) \/ MonitorCancel(t)
Logger == LogLock \/ LogLoadPtr \/ LogPeek \/ LogUnlock
Spawn == \E a \in {"req", "wat"} : SpawnBegin(a) \/ SpawnOne(a) \/ SpawnEnd(a)

Next ==
  \/ Truncate \/ Dump
  \/ Spawn \/ Request \/ Reload \/ Logger
  \/ \E t \in Tid : Monitor(t)

Safety == Init /\ [][Next]_vars

(***************************************************************************)
(* Each thread keeps running; what the environment does (a request arrives, *)
(* the file changes) need never happen.  The two threads that wait for the  *)
(* mutex get it although others keep taking it: the logger sleeps a second  *)
(* between two critical sections.  A cancelled monitor reaches a blocking   *)
(* call and ends there.                                                     *)
(***************************************************************************)
Fairness ==
  /\ WF_vars(Spawn)
  /\ WF_vars(StartLogger) /\ SF_vars(Pick) /\ WF_vars(LoadSize)
  /\ WF_vars(LoadPtr) /\ WF_vars(Count) /\ WF_vars(Forward)
  /\ SF_vars(LockReload)
  /\ WF_vars(Reload)
  /\ WF_vars(LogLoadPtr \/ LogPeek \/ LogUnlock)
  /\ \A t \in Tid : /\ WF_vars(MonitorCheck(t) \/ MonitorExchange(t))
                    /\ SF_vars(MonitorCancel(t))

Spec == Safety /\ Fairness

-----------------------------------------------------------------------------
(* Properties.                                                              *)
WatPc == {"init", "read", "lock", "stop", "join", "parse", "resize", "storesize",
          "grace", "start", "spawn", "spawned"}
ReqPc == {"start", "spawn", "spawned", "idle", "pick", "loadsize", "loadptr",
          "count", "forward"}
LogPc == {"off", "sleep", "scan", "peek"}
MonPc == {"none", "init", "sample", "check", "exchange", "done"}

MonitorState == [pc : MonPc, port : Port \cup {NULL}, index : Nat,
                 ptr : Addr \cup {NULL}, cancel : BOOLEAN]

EnvType ==
  /\ file \in Lists /\ backends \in Lists
  /\ writer \in {"idle", "dumping"} /\ writes \in 0 .. MaxWrites
  /\ pending \in BOOLEAN /\ mutex \in {"free", "wat", "log"}
  /\ rr \in Idx(RRSpan)
CounterType ==
  /\ ctrPtr \in Addr \cup {NULL} /\ ctrSize \in Nat /\ live \subseteq Addr
  /\ DOMAIN cells = Addr
  /\ \A a \in Addr : cells[a] \in [DOMAIN cells[a] -> SUBSET (Port \cup {NULL})]
ThreadType ==
  /\ threads \in [DOMAIN threads -> Tid \cup {Uninit}]
  /\ mon \in [Tid -> MonitorState]
  /\ spawn \in [{"req", "wat"} -> [todo : Seq(Port), at : Nat]]
LocalType ==
  /\ pc \in [req : ReqPc, wat : WatPc, log : LogPc]
  /\ req \in [port : Port \cup {NULL}, index : Nat, size : Nat, ptr : Addr \cup {NULL}]
  /\ wat \in [at : Nat, old : Addr \cup {NULL}]
  /\ log \in [at : Nat, ptr : Addr \cup {NULL}]

\* The types of engine.c's variables; an array is a function on 0 .. size-1.
TypeOK == EnvType /\ CounterType /\ ThreadType /\ LocalType

Reloading == pc["wat"] \notin {"init", "read", "lock"}
Running(t) == mon[t].pc # "none"

\* A monitor that passed its "safety check" (engine.c:106-110) exchanges an
\* element of an array that is still allocated: reload_config() joins the
\* monitors before update_rps_counters() swaps and frees the array.
MonitorsUseLiveCounters ==
  \A t \in Tid : mon[t].pc = "exchange" => Valid(mon[t].ptr, mon[t].index)

\* The logger reads an element of an allocated array ("safely",
\* engine.c:387-391): the mutex keeps the array and its size together.
LoggerUsesLiveCounters ==
  pc["log"] = "peek" /\ log.ptr # NULL /\ log.at < ctrSize => Valid(log.ptr, log.at)

\* "Stop existing monitoring threads before updating backend list"
\* (engine.c:442): from the end of stop_metric_threads() until the new ones
\* are started, no monitor of the old list is left.
OldMonitorsStopped ==
  pc["wat"] \in {"parse", "resize", "storesize", "grace", "start"} =>
    \A t \in Tid : ~Running(t)

\* A monitor that can still report watches the backend that has its index, and
\* no other monitor has it: data_<port>.txt, the rps of the port and the port
\* in the database row stay together across reloads.
MonitorsMatchBackends ==
  /\ \A t \in Tid : Running(t) =>
       /\ mon[t].index \in Idx(Len(backends))
       /\ mon[t].port = backends[mon[t].index + 1]
  /\ \A t, u \in Tid : Running(t) /\ Running(u) /\ mon[t].index = mon[u].index => t = u

\* rps_counters_size is the length of the array rps_counters_ptr points to,
\* except between the two stores of update_rps_counters().
CountersSized ==
  ctrPtr # NULL /\ pc["wat"] # "storesize" =>
    ctrPtr \in live /\ DOMAIN cells[ctrPtr] = Idx(ctrSize)

\* A reload leaves no counter array behind, and frees none that is in use.
NoLeakedCounters == ~Reloading => live = {ctrPtr} \ {NULL}

-----------------------------------------------------------------------------
(* The engine as a proxy.                                                   *)
P == INSTANCE Proxy WITH published <- file, active <- backends, serving <- req.port

\* Whatever the threads do, requests go to members of the pool in force, and
\* the pool only ever changes to what the file holds.
ImplementsProxySafety == P!Safety

\* Also: the last list the scaler writes is adopted ("Hot Reload"), and every
\* request that was picked is answered.
ImplementsProxy == P!Spec

-----------------------------------------------------------------------------
(* What comments and documentation say and the code does not do.            *)

\* "Atomically swap the pointer and update the size" (engine.c:422): a request
\* that passed the test of the size stays inside the array it loaded.
RequestIndexInBounds ==
  pc["req"] = "count" /\ Counts /\ req.ptr \in live => req.index \in DOMAIN cells[req.ptr]

\* "Get RPS for THIS specific port" (engine.c:105): a monitor collects only
\* requests that went to its own port.  It does not hold after a reload that
\* keeps the number of backends (engine.c:409).
CountsOwnPort ==
  \A t \in Tid : mon[t].pc = "exchange" /\ Valid(mon[t].ptr, mon[t].index) =>
    cells[mon[t].ptr][mon[t].index] \subseteq {mon[t].port}
=============================================================================
