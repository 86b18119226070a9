------------------------------- MODULE Scaler -------------------------------
(***************************************************************************)
(* inference/src: the control loop of main.py and the DockerManager of      *)
(* core/docker.py.  Every round takes a forecast, starts or stops           *)
(* containers until there are as many as it asks for, and writes their      *)
(* ports into the configuration file of prescal.                            *)
(*                                                                          *)
(* A container is known by its host port.  Only KeyboardInterrupt is caught *)
(* in main(), and only to end: any exception ends the process, and nothing  *)
(* in the repository starts it again.                                       *)
(***************************************************************************)
EXTENDS Integers, FiniteSets

CONSTANTS
  FirstPort,  (* start_port of find_free_ports()                           *)
  LastPort,   (* bound: the highest port a container may get               *)
  Amount,     (* numbers of containers the forecast may ask for            *)
  MaxExits,   (* bound: how many containers exit by themselves             *)
  MaxFaults   (* bound: how many times the process is aborted              *)

Port == FirstPort .. LastPort

ASSUME ScalerAssumption ==
  /\ FirstPort \in Nat /\ LastPort \in Nat
  /\ Amount \subseteq 0 .. Cardinality(Port)
  /\ MaxExits \in Nat /\ MaxFaults \in Nat

VARIABLES
  running,    (* ports of the running containers of the image              *)
  data,       (* the database has enough samples of the last 15 minutes    *)
  forwards,   (* "forwards:" in config.yml                                 *)
  blank,      (* safe_load() finds no mapping in config.yml: it is empty,  *)
              (* or cut off where that breaks its syntax                   *)
  pc,         (* where main() is                                           *)
  target,     (* argument of scale()                                       *)
  containers, (* self.containers, until the round ends: scale() refreshes  *)
              (* it before it is read again                                *)
  todo,       (* ports still to be started or stopped                      *)
  lost,       (* history: containers that exited since this round's plan   *)
  exits, faults   (* how many there were so far                            *)

world == <<running, data, exits>>
file == <<forwards, blank>>
process == <<pc, target, containers, todo>>
vars == <<world, file, process, lost, faults>>

Init ==
  /\ running \in (SUBSET Port) \ {{}} /\ Cardinality(running) \in Amount
  /\ data \in BOOLEAN /\ forwards = running /\ blank = FALSE
  /\ pc = "idle" /\ target = 0 /\ containers = {} /\ todo = {}
  /\ lost = 0 /\ exits = 0 /\ faults = 0

-----------------------------------------------------------------------------
(* The world: containers exit, and the time covered by samples changes.     *)
Exit ==
  /\ exits < MaxExits
  /\ \E p \in running : running' = running \ {p}
  /\ exits' = exits + 1
  /\ lost' = IF pc \in {"up", "down", "load", "dump"} THEN lost + 1 ELSE lost
  /\ UNCHANGED <<data, file, process, faults>>

\* The samples of the last 15 minutes come to fill the window, or no longer do
\* (database.py:21).
Record ==
  /\ data' = ~data
  /\ UNCHANGED <<running, exits, file, process, lost, faults>>

-----------------------------------------------------------------------------
(* One round of main().                                                     *)
End == pc' = "ended" /\ target' = 0 /\ containers' = {} /\ todo' = {} /\ lost' = 0

\* get_server_data() and predict(): "Not enough data for window" is raised
\* when the series is too short (harima.py:60).
Forecast ==
  /\ pc = "idle"
  /\ IF data
       THEN /\ pc' = "scale"
            /\ target' \in Amount
            /\ UNCHANGED <<containers, todo, lost>>
       ELSE End
  /\ UNCHANGED <<world, file, faults>>

\* Mutant of find_free_ports: count on from the number of containers.
NextPorts(used, n) ==
  {FirstPort + Cardinality(used) .. FirstPort + Cardinality(used) + n - 1}

\* The n lowest ports from start_port on that are not in use.
find_free_ports(used, n) ==
  {S \in SUBSET (Port \ used) :
     Cardinality(S) = n /\ \A p \in S, q \in Port : q < p => q \in S \cup used}

\* Mutant of Highest: containers_sorted[n:].
AllButLowest(S, n) ==
  {H \in SUBSET S : Cardinality(H) = Cardinality(S) - n /\ \A p \in H, q \in S \ H : q < p}

\* containers_sorted[-n:]: the n highest ports.
Highest(S, n) ==
  {H \in SUBSET S : Cardinality(H) = n /\ \A p \in H, q \in S \ H : q < p}

\* scale(): refresh_container_info() and compute_requirement().
Plan ==
  /\ pc = "scale"
  /\ containers' = running
  /\ IF target < Cardinality(running)
       THEN pc' = "down" /\ todo' \in Highest(running, Cardinality(running) - target)
       ELSE pc' = "up" /\ todo' \in find_free_ports(running, target - Cardinality(running))
  /\ UNCHANGED <<world, file, target, lost, faults>>

\* The lists are in ascending order.
Lowest(S) == {p \in S : \A q \in S : p <= q}

\* One iteration of upscale().
StartOne ==
  /\ pc = "up"
  /\ \E p \in Lowest(todo) : running' = running \cup {p} /\ todo' = todo \ {p}
  /\ UNCHANGED <<data, exits, file, pc, target, containers, lost, faults>>

\* One iteration of downscale(); stopping an exited container is no error.
StopOne ==
  /\ pc = "down"
  /\ \E p \in Lowest(todo) : running' = running \ {p} /\ todo' = todo \ {p}
  /\ UNCHANGED <<data, exits, file, pc, target, containers, lost, faults>>

\* Mutant of Refresh: update_config() without refresh_container_info().
RefreshNothing ==
  /\ pc \in {"up", "down"} /\ todo = {}
  /\ pc' = "load"
  /\ UNCHANGED <<world, file, target, containers, todo, lost, faults>>

\* Mutant of Refresh: nothing to write when the plan was empty.
RefreshIfScaled ==
  /\ pc \in {"up", "down"} /\ todo = {}
  /\ IF containers = running
       THEN pc' = "idle" /\ UNCHANGED containers
       ELSE pc' = "load" /\ containers' = running
  /\ UNCHANGED <<world, file, target, todo, lost, faults>>

\* update_config(): refresh_container_info().
Refresh ==
  /\ pc \in {"up", "down"} /\ todo = {}
  /\ containers' = running
  /\ pc' = "load"
  /\ UNCHANGED <<world, file, target, todo, lost, faults>>

\* update_config(): yaml.safe_load(), which returns None for an empty file, so
\* that the assignment raises TypeError; then open(path, 'w') empties it.
Truncate ==
  /\ pc = "load"
  /\ IF blank
       THEN End /\ UNCHANGED file
       ELSE /\ pc' = "dump"
            /\ forwards' = {} /\ blank' = TRUE
            /\ UNCHANGED <<target, containers, todo, lost>>
  /\ UNCHANGED <<world, faults>>

\* update_config(): yaml.dump() and the end of the round.
Dump ==
  /\ pc = "dump"
  /\ forwards' = containers /\ blank' = FALSE
  /\ pc' = "idle" /\ target' = 0 /\ containers' = {} /\ lost' = 0
  /\ UNCHANGED <<world, todo, faults>>

\* A call of the round raises, or the process is interrupted or killed.  During
\* yaml.dump() the file holds what was written of it by then: closing it, the
\* with statement writes what is buffered, a kill or a full disk nothing.  No
\* mapping is a file that is empty or ends within a key ("port" is the last one).
Abort ==
  /\ pc # "ended" /\ faults < MaxFaults
  /\ faults' = faults + 1
  /\ IF pc = "dump"
       THEN /\ forwards' \in SUBSET containers /\ blank' \in BOOLEAN
            /\ blank' => forwards' \in {{}, containers}
       ELSE UNCHANGED file
  /\ End
  /\ UNCHANGED world

\* Somebody starts main.py again.
Restart ==
  /\ pc = "ended"
  /\ pc' = "idle"
  /\ UNCHANGED <<world, file, target, containers, todo, lost, faults>>

Round == Forecast \/ Plan \/ StartOne \/ StopOne \/ Refresh \/ Truncate \/ Dump

Next == Exit \/ Record \/ Round \/ Abort \/ Restart

Safety == Init /\ [][Next]_vars

-----------------------------------------------------------------------------
\* Nobody is writing the file, and safe_load() finds no mapping in it.
FileLost == blank /\ pc # "dump"

(* Properties.                                                              *)

\* The types of the scaler's variables.
TypeOK ==
  /\ running \subseteq Port /\ data \in BOOLEAN
  /\ forwards \subseteq Port /\ blank \in BOOLEAN
  /\ pc \in {"idle", "scale", "up", "down", "load", "dump", "ended"}
  /\ target \in Amount \cup {0} /\ containers \subseteq Port /\ todo \subseteq Port
  /\ lost \in 0 .. MaxExits /\ exits \in 0 .. MaxExits /\ faults \in 0 .. MaxFaults

\* When a round has carried out its plan, as many containers run as were asked
\* for, less those that exited meanwhile (compute_requirement()).
ReachesForecast ==
  pc = "load" => Cardinality(running) \in (target - lost) .. target

\* upscale() never asks Docker for a port that a container of the image has,
\* whatever gaps exited containers and earlier rounds left (find_free_ports()).
StartsOnFreePorts == pc = "up" => todo \cap running = {}

\* "Update prescal/config.yml with current container ports" (docker.py:106): a
\* round that ends has published every running container; what it has published
\* besides them, and what the forecast asked for that is not there, are
\* containers that exited during the round.
RoundIsPublished ==
  [][pc = "dump" /\ pc' = "idle" =>
       /\ running \subseteq forwards' /\ Cardinality(forwards' \ running) <= lost
       /\ Cardinality(forwards') \in (target - lost) .. target]_vars

\* The file catches up with the containers, also after one exited and after a
\* round that failed.
FileCatchesUp == []<>(~blank /\ forwards = running)

\* "Automatically starts new backend instances as Docker containers to handle
\* increased load" (prescal/README.md:7): the loop goes on deciding.
RoundsGoOn == []<>(pc = "scale")
=============================================================================
