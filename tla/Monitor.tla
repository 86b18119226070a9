------------------------------ MODULE Monitor ------------------------------
(***************************************************************************)
(* prescal/src/engine.c, request_per_second(): the thread that samples one  *)
(* backend, with what it calls in metrics.c, tsdb.c and helper.c, from one  *)
(* reload to the next.  Module Engine has the same thread as the others see *)
(* it; here it is what it holds, waits for and reports.                     *)
(*                                                                          *)
(* reload_config() ends a monitor with pthread_cancel(), which acts at the  *)
(* next call that may block; there are no cleanup handlers, so that what is *)
(* open then stays open.  g_engine->running never becomes false.            *)
(***************************************************************************)
EXTENDS Integers

CONSTANTS
  Fds,        (* descriptors for this monitor, its predecessors and others *)
  MaxBusy,    (* bound: how many of them the rest of the process uses      *)
  MaxReloads, (* bound: how often config.yml is reloaded                   *)
  MaxCpu      (* bound: CPU seconds a backend uses between two samples     *)

ASSUME MonitorAssumption ==
  Fds \in Nat /\ MaxBusy \in Nat /\ MaxReloads \in Nat /\ MaxCpu \in Nat

VARIABLES
  pc,         (* where request_per_second() is                             *)
  primed,     (* the first sample has been taken                           *)
  open,       (* how many descriptors this monitor has open                *)
  left,       (* how many its predecessors left open                       *)
  busy,       (* how many the rest of the process has open                 *)
  cancelled,  (* pthread_cancel() was called                               *)
  reloads,    (* how often that was                                        *)
  ready,      (* the backend answers                                       *)
  up,         (* the database accepts connections                          *)
  link,       (* connection to the database: "none", "live", "stale" once  *)
              (* the database closed it, "reset" once that was noticed     *)
  token,      (* read_env() found the token, and then the host             *)
  cpu,        (* CPU seconds of the backend's process                      *)
  t0,         (* cpu_t0                                                    *)
  report,     (* metrics->cpu_usage, in seconds                            *)
  blind,      (* history: t0 comes from an incomplete sample               *)
  used        (* history: CPU seconds used since the last sample           *)

fds == <<open, left, busy>>
control == <<cancelled, reloads>>
database == <<up, link, token>>
usage == <<cpu, t0, report, blind, used>>
vars == <<pc, primed, fds, control, ready, database, usage>>

Init ==
  /\ pc = "start" /\ primed = FALSE
  /\ open = 0 /\ left = 0 /\ busy = 0
  /\ cancelled = FALSE /\ reloads = 0
  /\ ready \in BOOLEAN
  /\ up \in BOOLEAN /\ link = "none" /\ token = FALSE
  /\ cpu = 0 /\ t0 = 0 /\ report = 0 /\ blind = FALSE /\ used = 0

Room == open + left + busy < Fds

-----------------------------------------------------------------------------
(* init_tsdb(), tsdb_connect() and fopen().                                 *)
Start ==
  /\ pc = "start"
  /\ IF Room THEN pc' = "connect" /\ open' = open + 1
             ELSE pc' = "done" /\ UNCHANGED open
  /\ UNCHANGED <<primed, left, busy, control, ready, database, usage>>

\* A database that is not there ends the monitor, without another attempt.
Connect ==
  /\ pc = "connect"
  /\ IF up THEN pc' = "fopen" /\ link' = "live" /\ UNCHANGED open
           ELSE pc' = "done" /\ open' = open - 1 /\ UNCHANGED link
  /\ UNCHANGED <<primed, left, busy, control, ready, up, token, usage>>

\* The early return does not close the socket.
OpenFile ==
  /\ pc = "fopen"
  /\ IF Room THEN pc' = "socket" /\ open' = open + 1
             ELSE pc' = "done" /\ UNCHANGED open
  /\ UNCHANGED <<primed, left, busy, control, ready, database, usage>>

-----------------------------------------------------------------------------
(* request_metrics() and the loops around it.                               *)

\* Mutant of Failed: the first loop ends with the first failure, too.
FailedOnce == pc' = "close"

\* Until the first sample another attempt follows; after it the loop ends.
Failed == pc' = IF primed THEN "close" ELSE "retry"

Socket ==
  /\ pc = "socket"
  /\ IF Room THEN pc' = "talk" /\ open' = open + 1
             ELSE Failed /\ UNCHANGED open
  /\ UNCHANGED <<primed, left, busy, control, ready, database, usage>>

\* Mutant of TalkFails: the socket is not closed when connect() fails.
TalkFailsOpen ==
  /\ pc = "talk" /\ ~ready
  /\ Failed
  /\ UNCHANGED <<primed, fds, control, ready, database, usage>>

\* connect() or recv() fails.  Nobody says that it does: both may hang.
TalkFails ==
  /\ pc = "talk" /\ ~ready
  /\ open' = open - 1 /\ Failed
  /\ UNCHANGED <<primed, left, busy, control, ready, database, usage>>

\* get_value(): what one recv() returned holds the value; or it ends before it,
\* which reads as 0, or before the body, and an uninitialised buffer is read.
Parsed(whole) == IF whole THEN {cpu} ELSE 0 .. MaxCpu

\* Mutant of cpu_percentages: without the test for a counter that went back.
cpu_difference(t1) == t1 - t0

\* cpu_percentages(), with seconds_diff = 1 and CORES = 1.
cpu_percentages(t1) == IF t1 < t0 THEN 0 ELSE t1 - t0

\* Mutant of Evaluate: cpu_t0 stays the first sample.
EvaluateFromFirst ==
  \E whole \in BOOLEAN : \E t1 \in Parsed(whole) :
    /\ report' = cpu_percentages(t1)
    /\ t0' = IF primed THEN t0 ELSE t1
    /\ blind' = ~whole /\ used' = 0

\* store_metrics(), calculate_metrics(), and cpu_t0 for the next sample.
Evaluate ==
  \E whole \in BOOLEAN : \E t1 \in Parsed(whole) :
    /\ report' = IF primed THEN cpu_percentages(t1) ELSE 0
    /\ t0' = t1 /\ blind' = ~whole /\ used' = 0

Answered ==
  /\ pc = "talk" /\ ready
  /\ open' = open - 1
  /\ Evaluate
  /\ IF primed THEN pc' = "write" /\ UNCHANGED primed
               ELSE pc' = "sleep" /\ primed' = TRUE
  /\ UNCHANGED <<left, busy, control, ready, database, cpu>>

\* sleep_ms() of either loop.
Sleep ==
  /\ pc \in {"sleep", "retry"}
  /\ pc' = "socket"
  /\ UNCHANGED <<primed, fds, control, ready, database, usage>>

-----------------------------------------------------------------------------
(* write_metrics(), then write_metrics_db().                                *)
Write ==
  /\ pc = "write"
  /\ pc' = "env"
  /\ UNCHANGED <<primed, fds, control, ready, database, usage>>

\* tsdb_write() reads the environment twice, for TSDB_TOKEN and for TSDB_HOST.
AfterEnv == IF pc \in {"env", "read"} THEN "host" ELSE "post"

\* read_env(): its result is not looked at.
OpenEnv ==
  /\ pc \in {"env", "host"}
  /\ token' = (Room /\ (pc = "host" => token))
  /\ IF Room THEN pc' = (IF pc = "env" THEN "read" ELSE "readhost") /\ open' = open + 1
             ELSE pc' = AfterEnv /\ UNCHANGED open
  /\ UNCHANGED <<primed, left, busy, control, ready, up, link, usage>>

CloseEnv ==
  /\ pc \in {"read", "readhost"}
  /\ pc' = AfterEnv /\ open' = open - 1
  /\ UNCHANGED <<primed, left, busy, control, ready, database, usage>>

\* The database records the sample.
Recorded == pc = "post" /\ pc' = "sleep" /\ link = "live" /\ token

\* Mutant of Post: send() with MSG_NOSIGNAL.
PostQuietly ==
  /\ pc = "post"
  /\ pc' = "sleep" /\ report' = 0
  /\ link' = IF link = "live" THEN "live" ELSE "reset"
  /\ UNCHANGED <<primed, fds, control, ready, up, token, cpu, t0, blind, used>>

\* tsdb_write(): the first send() to a database that has closed the connection
\* goes nowhere, the next one raises SIGPIPE; see Killed.
Post ==
  /\ pc = "post" /\ link # "reset"
  /\ pc' = "sleep" /\ report' = 0
  /\ link' = IF link = "live" THEN "live" ELSE "reset"
  /\ UNCHANGED <<primed, fds, control, ready, up, token, cpu, t0, blind, used>>

\* The process dies, all its descriptors are closed, and systemd starts it.
Killed ==
  /\ pc = "post" /\ link = "reset"
  /\ pc' = "start" /\ primed' = FALSE
  /\ open' = 0 /\ left' = 0 /\ busy' = 0
  /\ cancelled' = FALSE
  /\ link' = "none" /\ token' = FALSE
  /\ t0' = 0 /\ report' = 0 /\ blind' = FALSE /\ used' = 0
  /\ UNCHANGED <<reloads, ready, up, cpu>>

\* close(tsdb->fd), fclose(fptr).
Close ==
  /\ pc \in {"close", "fclose"}
  /\ pc' = IF pc = "close" THEN "fclose" ELSE "done"
  /\ open' = open - 1
  /\ UNCHANGED <<primed, left, busy, control, ready, database, usage>>

-----------------------------------------------------------------------------
(* reload_config(), seen by the monitor.                                    *)

\* Mutant of Blocking: recv() is made in a region without cancellation.
BlockingButTalk ==
  {"connect", "fopen", "sleep", "retry", "write", "env", "read", "host", "readhost", "post",
   "close", "fclose"}

\* Where pthread_cancel() takes effect: everywhere but at socket().
Blocking ==
  {"connect", "fopen", "talk", "sleep", "retry", "write", "env", "read", "host", "readhost", "post",
   "close", "fclose"}

Cancel ==
  /\ ~cancelled /\ reloads < MaxReloads
  /\ cancelled' = TRUE /\ reloads' = reloads + 1
  /\ UNCHANGED <<pc, primed, fds, ready, database, usage>>

Heed ==
  /\ cancelled /\ pc \in Blocking
  /\ pc' = "done"
  /\ UNCHANGED <<primed, fds, control, ready, database, usage>>

\* pthread_join() returns, and start_metric_threads() creates the next one.
Replace ==
  /\ cancelled /\ pc = "done"
  /\ pc' = "start" /\ primed' = FALSE
  /\ left' = left + open /\ open' = 0
  /\ cancelled' = FALSE
  /\ link' = "none" /\ token' = FALSE
  /\ t0' = 0 /\ report' = 0 /\ blind' = FALSE /\ used' = 0
  /\ UNCHANGED <<busy, reloads, ready, up, cpu>>

-----------------------------------------------------------------------------
(* The backend, the database, and the other threads.                        *)

\* A backend stops answering; or it does so again, perhaps as a new process.
Backend ==
  /\ ready' = ~ready
  /\ cpu' \in {cpu, 0}
  /\ UNCHANGED <<pc, primed, fds, control, database, t0, report, blind, used>>

Work ==
  /\ ready /\ cpu < MaxCpu /\ used < MaxCpu
  /\ cpu' = cpu + 1 /\ used' = used + 1
  /\ UNCHANGED <<pc, primed, fds, control, ready, database, t0, report, blind>>

Database ==
  /\ up' = ~up
  /\ link' = IF up /\ link = "live" THEN "stale" ELSE link
  /\ UNCHANGED <<pc, primed, fds, control, ready, token, usage>>

Others ==
  /\ busy' \in {busy - 1, busy + 1} \cap 0 .. MaxBusy
  /\ busy' > busy => Room
  /\ UNCHANGED <<pc, primed, open, left, control, ready, database, usage>>

Step ==
  \/ Start \/ Connect \/ OpenFile \/ Socket \/ Answered \/ Sleep
  \/ Write \/ OpenEnv \/ CloseEnv \/ Post \/ Killed \/ Close

Next ==
  \/ Step \/ TalkFails
  \/ Cancel \/ Heed \/ Replace
  \/ Backend \/ Work \/ Database \/ Others

(***************************************************************************)
(* The monitor runs on unless it waits for its backend; a cancelled thread  *)
(* notices it at a blocking call, and the watcher then starts another.      *)
(***************************************************************************)
Safety == Init /\ [][Next]_vars
Spec == Safety /\ WF_vars(Step) /\ SF_vars(Heed) /\ WF_vars(Replace)

-----------------------------------------------------------------------------
(* Properties.                                                              *)

\* The types of the monitor's variables.
TypeOK ==
  /\ pc \in {"start", "done", "socket", "talk"} \cup Blocking
  /\ primed \in BOOLEAN
  /\ open \in 0 .. 3 /\ left \in Nat /\ busy \in 0 .. MaxBusy
  /\ cancelled \in BOOLEAN /\ reloads \in 0 .. MaxReloads
  /\ ready \in BOOLEAN /\ up \in BOOLEAN /\ token \in BOOLEAN
  /\ link \in {"none", "live", "stale", "reset"}
  /\ cpu \in 0 .. MaxCpu /\ t0 \in 0 .. MaxCpu /\ report \in 0 .. MaxCpu
  /\ blind \in BOOLEAN /\ used \in 0 .. MaxCpu

Needed ==
  CASE pc \in {"start", "done"} -> 0
    [] pc \in {"connect", "fopen", "fclose"} -> 1
    [] pc \in {"socket", "sleep", "retry", "write", "env", "host", "post", "close"} -> 2
    [] OTHER -> 3

\* However many samples fail, a monitor has no descriptor open that it does not
\* use (troubleshoot.md tells of a leak); one that ends by itself leaves at most
\* the database's socket, and each cancelled one at most three.
HoldsWhatItNeeds ==
  /\ pc # "done" => open = Needed
  /\ pc = "done" /\ ~cancelled => open <= 1
  /\ left <= 3 * reloads

\* Of samples received whole none claims more CPU time than was used since the
\* one before, nor less than none, also when the process behind the port was
\* replaced.
CpuIsNotOverstated ==
  [][pc = "talk" /\ pc' = "write" /\ ~blind /\ ~blind' => report' \in 0 .. used]_vars

\* reload_config() joins with the mutex held: a cancelled monitor ends although
\* neither backend nor database answers.
CancelIsHeeded == cancelled ~> ~cancelled

\* "Retry initial connection until successful or thread stopped" (engine.c:66).
RetriesUntilSampled ==
  <>[](ready /\ Room) =>
    (~primed /\ pc \in {"socket", "talk", "retry"} ~> primed \/ cancelled)

\* Backend and database answer, and descriptors are free.
Healthy == ready /\ up /\ open + left + busy + 1 < Fds

\* A monitor that has not ended by the time all is well records samples, also
\* after the database was restarted.
RecordsOrHasEnded ==
  <>[]Healthy => <>[](pc = "done") \/ []<><<Recorded>>_vars
=============================================================================
