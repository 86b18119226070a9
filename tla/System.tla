------------------------------- MODULE System -------------------------------
(***************************************************************************)
(* The loop that scaler, configuration file, prescal and backends form.     *)
(* The scaler (module Scaler) starts and stops backends and writes the      *)
(* file; prescal routes to the list it has read, samples every backend of   *)
(* it, and reads the file again when inotify reports a modification; the    *)
(* scaler forecasts from the samples.                                       *)
(*                                                                          *)
(* Of prescal only what the others see is left: module Engine has its       *)
(* threads.                                                                 *)
(***************************************************************************)
EXTENDS Scaler

CONSTANTS
  Window,     (* rounds that fit into the 15 minutes a forecast looks at   *)
  MaxBreaks,  (* bound: how many faults of prescal there are               *)
  Breaks      (* "crash": the process dies; "sample": a sample fails       *)

ASSUME SystemAssumption ==
  Window \in Nat \ {0} /\ MaxBreaks \in Nat /\ Breaks \subseteq {"crash", "sample"}

VARIABLES
  engine,     (* "boot": has read the file, no inotify watch yet;          *)
              (* "wait": watch_config() waits; "reload": it has an event;  *)
              (* "start": it has read the file again                       *)
  event,      (* an unread IN_MODIFY                                       *)
  pool,       (* engine->backends                                          *)
  monitored,  (* backends with a live monitor thread                       *)
  missed,     (* history: the file changed after it was read, unwatched    *)
  dry,        (* rounds begun since a sample was last recorded             *)
  breaks      (* how many faults of prescal there were so far              *)

prescal == <<engine, event, pool, monitored, missed, breaks>>
sysVars == <<vars, prescal, dry>>

SysInit ==
  /\ Init
  /\ engine = "boot" /\ event = FALSE /\ pool = forwards /\ monitored = forwards
  /\ missed = FALSE /\ dry = 0 /\ breaks = 0

-----------------------------------------------------------------------------
(* prescal.                                                                 *)

\* inotify_add_watch().
AddWatch ==
  /\ engine = "boot"
  /\ engine' = "wait"
  /\ UNCHANGED <<vars, event, pool, monitored, missed, dry, breaks>>

ReadEvent ==
  /\ engine = "wait" /\ event
  /\ engine' = "reload" /\ event' = FALSE
  /\ UNCHANGED <<vars, pool, monitored, missed, dry, breaks>>

\* Mutant of Reload: read_config() appends to the old list.
ReloadAppends ==
  /\ engine = "reload"
  /\ engine' = "start"
  /\ pool' = pool \cup forwards /\ monitored' = {}
  /\ missed' = FALSE
  /\ UNCHANGED <<vars, event, dry, breaks>>

\* Mutant of Reload: the monitors are not stopped.
ReloadStopsNothing ==
  /\ engine = "reload"
  /\ engine' = "start"
  /\ pool' = forwards
  /\ missed' = FALSE
  /\ UNCHANGED <<vars, event, monitored, dry, breaks>>

\* reload_config(): stop_metric_threads() and read_config().
Reload ==
  /\ engine = "reload"
  /\ engine' = "start"
  /\ pool' = forwards /\ monitored' = {}
  /\ missed' = FALSE
  /\ UNCHANGED <<vars, event, dry, breaks>>

\* Mutant of StartMonitors: the last backend is left out.
StartAllButLast ==
  /\ engine = "start"
  /\ engine' = "wait"
  /\ monitored' = {p \in pool : \E q \in pool : p < q}
  /\ UNCHANGED <<vars, event, pool, missed, dry, breaks>>

\* reload_config(): start_metric_threads().
StartMonitors ==
  /\ engine = "start"
  /\ engine' = "wait"
  /\ monitored' = pool
  /\ UNCHANGED <<vars, event, pool, missed, dry, breaks>>

\* The process dies (module Engine says of what) and systemd starts it again.
Crash ==
  /\ "crash" \in Breaks /\ breaks < MaxBreaks
  /\ breaks' = breaks + 1
  /\ engine' = "boot" /\ event' = FALSE /\ missed' = FALSE
  /\ pool' = forwards /\ monitored' = forwards
  /\ UNCHANGED <<vars, dry>>

\* One sample fails, and with it the monitor thread ends (engine.c:92).
MonitorFails ==
  /\ "sample" \in Breaks /\ breaks < MaxBreaks
  /\ \E p \in monitored : monitored' = monitored \ {p}
  /\ breaks' = breaks + 1
  /\ UNCHANGED <<vars, engine, event, pool, missed, dry>>

-----------------------------------------------------------------------------
(* From prescal to the scaler: samples.                                     *)
Sampled == monitored \cap running # {}

\* Rows are written to the database.
Sample ==
  /\ Sampled /\ (dry > 0 \/ ~data)
  /\ data' = TRUE /\ dry' = 0
  /\ UNCHANGED <<running, exits, file, process, lost, faults, prescal>>

\* No row of the last 15 minutes is left.
Expire ==
  /\ dry = Window
  /\ data /\ Record
  /\ UNCHANGED <<prescal, dry>>

-----------------------------------------------------------------------------
(* From the scaler to prescal: the file.                                    *)

\* Mutant of Notify: the watch is taken down while a reload runs.
NotifyIdle ==
  /\ event' = (event \/ engine = "wait")
  /\ missed' = (missed \/ engine = "boot")

\* A modification raises IN_MODIFY if the watch is in place.
Notify ==
  /\ event' = (event \/ engine # "boot")
  /\ missed' = (missed \/ engine = "boot")

Publish == IF file' = file THEN UNCHANGED <<event, missed>> ELSE Notify

\* The steps of the scaler, and of containers, with what becomes of prescal.
Write ==
  /\ Truncate \/ Dump
  /\ Publish
  /\ UNCHANGED <<engine, pool, monitored, dry, breaks>>

Break ==
  /\ Abort
  /\ Publish
  /\ UNCHANGED <<engine, pool, monitored, dry, breaks>>

NewRound ==
  /\ Forecast
  /\ dry' = IF Sampled THEN 0 ELSE IF dry = Window THEN Window ELSE dry + 1
  /\ UNCHANGED prescal

Scale ==
  /\ Plan \/ StartOne \/ StopOne \/ Refresh
  /\ UNCHANGED <<prescal, dry>>

Disturb ==
  /\ Exit \/ Restart
  /\ UNCHANGED <<prescal, dry>>

Scaling == NewRound \/ Scale \/ Write

SysNext ==
  \/ Scaling \/ Break \/ Disturb
  \/ Sample \/ Expire
  \/ AddWatch \/ ReadEvent \/ Reload \/ StartMonitors \/ Crash \/ MonitorFails

SysSafety == SysInit /\ [][SysNext]_sysVars

(***************************************************************************)
(* The scaler's loop and the watcher go on, samples are recorded and        *)
(* expire.  Nobody need start a scaler again that has ended.                *)
(***************************************************************************)
SysSpec ==
  /\ SysSafety
  /\ WF_sysVars(Scaling) /\ WF_sysVars(Sample) /\ WF_sysVars(Expire)
  /\ WF_sysVars(AddWatch \/ ReadEvent \/ Reload \/ StartMonitors)

\* Somebody always starts the scaler again.
TendedSpec == SysSpec /\ WF_sysVars(Restart /\ UNCHANGED <<prescal, dry>>)

-----------------------------------------------------------------------------
(* Properties.                                                              *)

PrescalTypeOK ==
  /\ engine \in {"boot", "wait", "reload", "start"} /\ event \in BOOLEAN
  /\ pool \subseteq Port /\ monitored \subseteq pool
  /\ missed \in BOOLEAN /\ dry \in 0 .. Window /\ breaks \in 0 .. MaxBreaks

\* The types of the scaler's and of prescal's variables.
SysTypeOK == TypeOK /\ PrescalTypeOK

\* When prescal has nothing left to do, it routes over what the file holds,
\* however often the file was rewritten while it reloaded; the one exception is
\* a change before inotify_add_watch() (engine.c:473).
PoolIsCurrent == engine # "reload" /\ ~event /\ ~missed => pool = forwards

\* How scaling may come to rest: a scaler that ends leaves a file that safe_load()
\* finds no mapping in, nobody starts it again, or no running backend is sampled.
Stopped == <>[]FileLost \/ <>[](pc = "ended") \/ <>[]~Sampled

\* "Hot Reload": the scaler stops containers before it rewrites the file, so
\* that requests are routed to stopped backends; it does not last.
GoneBackendsLeave ==
  Stopped \/ \A p \in Port : []<>(p \notin pool \ running)

\* Every running backend comes to be monitored, also after its monitor ended
\* with a failed sample and after prescal missed a change: the scaler rewrites
\* the file in every round, and prescal restarts its monitors.
BackendsAreMonitored ==
  Stopped \/ \A p \in Port : []<>(p \in running => p \in monitored)

\* What holds of RoundsGoOn and FileCatchesUp: there are three ways for scaling
\* to stop and no other.  A scaler that is started again goes on after any fault
\* that left the file a mapping, whatever list it was cut off to; so it does
\* after a crash of prescal and after the end of some of its monitors.
ScalingGoesOn == Stopped \/ (RoundsGoOn /\ FileCatchesUp)
=============================================================================
