---------------------------- MODULE ScalerProofs ----------------------------
(***************************************************************************)
(* The safety of the scaler's rounds for every range of ports, every set of *)
(* forecasts and any number of exits and failures.                          *)
(***************************************************************************)
EXTENDS Scaler, FiniteSetTheorems, TLAPS

USE ScalerAssumption

(* The inductive invariant.                                                 *)

\* How many containers there will be when the rest of the plan is done: what
\* runs and what is to be started, or what runs and is not to be stopped.
Planned == IF pc = "up" THEN Cardinality(running) + Cardinality(todo)
                        ELSE Cardinality(running \ todo)

\* The plan leads to the target, less the containers lost on the way.
OnTarget ==
  /\ pc \in {"up", "down", "load"} => Planned \in (target - lost) .. target
  /\ pc = "load" => todo = {}
  /\ pc \in {"idle", "scale", "ended"} => lost = 0

\* What update_config() is about to write: every running container, and besides
\* them only containers lost on the way.
Listed ==
  pc \in {"load", "dump"} =>
    /\ running \subseteq containers /\ Cardinality(containers \ running) <= lost
    /\ Cardinality(containers) \in (target - lost) .. target

IInv == TypeOK /\ lost <= exits /\ StartsOnFreePorts /\ OnTarget /\ Listed

-----------------------------------------------------------------------------
\* Every set of ports is finite, and so has a natural number of members.
LEMMA PortsFinite ==
  ASSUME NEW S, S \subseteq Port
  PROVE  IsFiniteSet(S) /\ Cardinality(S) \in Nat
<1>1. FirstPort \in Int /\ LastPort \in Int
  OBVIOUS
<1>2. IsFiniteSet(Port)
  BY <1>1, FS_Interval DEF Port
<1>3. IsFiniteSet(S)
  BY <1>2, FS_Subset
<1> QED
  BY <1>3, FS_CardinalityType

\* A forecast is a number.
LEMMA AmountsAreNumbers == Amount \subseteq Nat
<1>1. Cardinality(Port) \in Nat
  BY PortsFinite
<1> QED
  BY <1>1

LEMMA InitHolds == Init => IInv
<1> SUFFICES ASSUME Init PROVE IInv
  OBVIOUS
<1>1. 0 \in 0 .. MaxExits /\ 0 \in 0 .. MaxFaults
  OBVIOUS
<1>2. TypeOK
  BY <1>1 DEF Init, TypeOK
<1>3. lost <= exits /\ StartsOnFreePorts /\ OnTarget /\ Listed
  BY DEF Init, StartsOnFreePorts, OnTarget, Listed
<1> QED
  BY <1>2, <1>3 DEF IInv

LEMMA ExitStep == ASSUME IInv, Exit PROVE IInv'
<1> USE DEF IInv
<1>1. PICK p \in running : running' = running \ {p}
  BY DEF Exit
<1>2. /\ exits' = exits + 1 /\ exits < MaxExits
      /\ lost' = IF pc \in {"up", "down", "load", "dump"} THEN lost + 1 ELSE lost
      /\ UNCHANGED <<data, forwards, blank, pc, target, containers, todo, faults>>
  BY DEF Exit, file, process
<1>3. TypeOK' /\ lost' <= exits'
  BY <1>1, <1>2 DEF TypeOK
<1>4. StartsOnFreePorts'
  BY <1>1, <1>2 DEF StartsOnFreePorts
<1>5. target \in Nat /\ lost \in Nat
  BY AmountsAreNumbers DEF TypeOK
<1>6. OnTarget'
  <2>1. /\ Cardinality(running) \in Nat /\ Cardinality(todo) \in Nat
        /\ Cardinality(running') = Cardinality(running) - 1
    BY <1>1, PortsFinite, FS_RemoveElement DEF TypeOK
  <2>2. /\ IsFiniteSet(running \ todo) /\ Cardinality(running \ todo) \in Nat
    BY PortsFinite DEF TypeOK
  <2>3. Cardinality(running' \ todo) \in {Cardinality(running \ todo), Cardinality(running \ todo) - 1}
    <3>1. running' \ todo = (running \ todo) \ {p}
      BY <1>1
    <3> QED
      BY <2>2, <3>1, FS_RemoveElement
  <2> QED
    BY <1>2, <1>5, <2>1, <2>2, <2>3 DEF OnTarget, Planned
<1>7. Listed'
  <2> SUFFICES ASSUME pc \in {"load", "dump"}
               PROVE  Listed'
    BY <1>2 DEF Listed
  <2>1. lost' = lost + 1 /\ running \subseteq containers
    BY <1>2 DEF Listed
  <2>2. containers \ running' = (containers \ running) \cup {p} /\ p \notin containers \ running
    BY <1>1, <2>1
  <2>3. /\ IsFiniteSet(containers \ running) /\ Cardinality(containers \ running) \in Nat
        /\ Cardinality(containers) \in Nat
    BY PortsFinite DEF TypeOK
  <2>4. Cardinality(containers \ running') = Cardinality(containers \ running) + 1
    BY <2>2, <2>3, FS_AddElement
  <2> QED
    BY <1>1, <1>2, <1>5, <2>1, <2>3, <2>4 DEF Listed
<1> QED
  BY <1>3, <1>4, <1>6, <1>7

LEMMA PlanStep == ASSUME IInv, Plan PROVE IInv'
<1> USE DEF IInv
<1>1. /\ pc = "scale" /\ containers' = running /\ lost = 0
      /\ UNCHANGED <<running, data, exits, forwards, blank, target, lost, faults>>
  BY DEF Plan, world, file, OnTarget
<1>2. Cardinality(running) \in Nat /\ target \in Nat
  BY PortsFinite, AmountsAreNumbers DEF TypeOK
<1>3. CASE target < Cardinality(running)
  <2>1. PICK n \in Nat : n = Cardinality(running) - target
    BY <1>2, <1>3
  <2>2. pc' = "down" /\ todo' \subseteq running /\ Cardinality(todo') = n
    BY <1>3, <2>1 DEF Plan, Highest
  <2>3. running \cap todo' = todo' /\ IsFiniteSet(running)
    BY <2>2, PortsFinite DEF TypeOK
  <2>4. Cardinality(running \ todo') = target
    <3>1. Cardinality(running \ todo') = Cardinality(running) - Cardinality(running \cap todo')
      BY <2>3, FS_Difference
    <3>2. Cardinality(running \cap todo') = n
      BY <2>2, <2>3
    <3> HIDE DEF IInv
    <3> QED
      BY <1>2, <2>1, <3>1, <3>2
  <2>5. TypeOK' /\ StartsOnFreePorts'
    <3>1. todo' \subseteq Port
      BY <2>2 DEF TypeOK
    <3> QED
      BY <1>1, <2>2, <3>1 DEF TypeOK, StartsOnFreePorts
  <2>6. OnTarget' /\ Listed'
    BY <1>1, <1>2, <2>2, <2>4 DEF OnTarget, Planned, Listed
  <2> QED
    BY <1>1, <2>5, <2>6 DEF TypeOK
<1>4. CASE ~(target < Cardinality(running))
  <2>1. PICK n \in Nat : n = target - Cardinality(running)
    BY <1>2, <1>4
  <2>2. pc' = "up" /\ todo' \subseteq Port \ running /\ Cardinality(todo') = n
    BY <1>4, <2>1 DEF Plan, find_free_ports
  <2>3. TypeOK' /\ StartsOnFreePorts'
    BY <1>1, <2>2 DEF TypeOK, StartsOnFreePorts
  <2>4. OnTarget' /\ Listed'
    BY <1>1, <1>2, <2>1, <2>2 DEF OnTarget, Planned, Listed
  <2> QED
    BY <1>1, <2>3, <2>4 DEF TypeOK
<1> QED
  BY <1>3, <1>4

LEMMA StartOneStep == ASSUME IInv, StartOne PROVE IInv'
<1> USE DEF IInv
<1>1. PICK p \in todo : running' = running \cup {p} /\ todo' = todo \ {p}
  BY DEF StartOne, Lowest
<1>2. /\ pc = "up"
      /\ UNCHANGED <<data, exits, forwards, blank, pc, target, containers, lost, faults>>
  BY DEF StartOne, file
<1>3. p \in Port /\ p \notin running
  BY <1>1, <1>2 DEF TypeOK, StartsOnFreePorts
<1>4. TypeOK' /\ StartsOnFreePorts'
  BY <1>1, <1>2, <1>3 DEF TypeOK, StartsOnFreePorts
<1>5. /\ Cardinality(running') = Cardinality(running) + 1
      /\ Cardinality(todo') = Cardinality(todo) - 1
      /\ Cardinality(running) \in Nat /\ Cardinality(todo) \in Nat
  BY <1>1, <1>3, PortsFinite, FS_AddElement, FS_RemoveElement DEF TypeOK
<1>6. OnTarget' /\ Listed'
  BY <1>2, <1>5 DEF OnTarget, Planned, Listed
<1> QED
  BY <1>2, <1>4, <1>6

LEMMA StopOneStep == ASSUME IInv, StopOne PROVE IInv'
<1> USE DEF IInv
<1>1. PICK p \in todo : running' = running \ {p} /\ todo' = todo \ {p}
  BY DEF StopOne, Lowest
<1>2. /\ pc = "down"
      /\ UNCHANGED <<data, exits, forwards, blank, pc, target, containers, lost, faults>>
  BY DEF StopOne, file
<1>3. TypeOK' /\ StartsOnFreePorts'
  BY <1>1, <1>2 DEF TypeOK, StartsOnFreePorts
<1>4. running' \ todo' = running \ todo
  BY <1>1
<1>5. OnTarget' /\ Listed'
  BY <1>2, <1>4 DEF OnTarget, Planned, Listed
<1> QED
  BY <1>2, <1>3, <1>5

LEMMA RefreshStep == ASSUME IInv, Refresh PROVE IInv'
<1> USE DEF IInv
<1>1. /\ pc \in {"up", "down"} /\ todo = {} /\ pc' = "load" /\ containers' = running
      /\ UNCHANGED <<running, data, exits, forwards, blank, target, todo, lost, faults>>
  BY DEF Refresh, world, file
<1>2. TypeOK' /\ StartsOnFreePorts'
  BY <1>1 DEF TypeOK, StartsOnFreePorts
<1>3. running \ todo = running /\ Cardinality(todo) = 0 /\ Cardinality(running) \in Nat
  BY <1>1, FS_EmptySet, PortsFinite DEF TypeOK
<1>4. OnTarget'
  BY <1>1, <1>3 DEF OnTarget, Planned
<1>5. Listed'
  <2>1. containers' \ running' = {} /\ lost \in Nat
    BY <1>1 DEF TypeOK
  <2>2. Cardinality(containers' \ running') = 0
    BY <2>1, FS_EmptySet
  <2> QED
    BY <1>1, <1>3, <2>1, <2>2 DEF Listed, OnTarget, Planned
<1> QED
  BY <1>1, <1>2, <1>4, <1>5

\* The steps that leave the containers alone and plan nothing.
LEMMA OtherSteps ==
  ASSUME IInv,
         \/ Record \/ Forecast \/ Truncate \/ Dump
         \/ Abort \/ Restart \/ UNCHANGED vars
  PROVE  IInv'
<1> USE DEF IInv
<1>1. CASE Record
  <2>1. UNCHANGED <<running, exits, forwards, blank, pc, target, containers, todo, lost, faults>>
    BY <1>1 DEF Record, file, process
  <2>2. TypeOK'
    BY <1>1, <2>1 DEF TypeOK, Record
  <2> QED
    BY <2>1, <2>2 DEF StartsOnFreePorts, OnTarget, Planned, Listed
<1>2. CASE Forecast \/ Truncate \/ Dump \/ Abort \/ Restart
  <2>1. pc' \notin {"up", "down", "load"} /\ UNCHANGED <<running, data, exits>>
    BY <1>2 DEF Forecast, Truncate, Dump, Abort, Restart, End, world
  <2>2. /\ pc' \in {"idle", "scale", "up", "down", "load", "dump", "ended"}
        /\ target' \in Amount \cup {0} /\ containers' \subseteq Port /\ todo' \subseteq Port
    BY <1>2 DEF TypeOK, Forecast, Truncate, Dump, Abort, Restart, End
  <2>3. forwards' \subseteq Port /\ blank' \in BOOLEAN
    BY <1>2 DEF TypeOK, Forecast, Truncate, Dump, Abort, Restart, End, file
  <2>4. lost' \in {lost, 0}
    BY <1>2 DEF Forecast, Truncate, Dump, Abort, Restart, End
  <2>5. faults' \in 0 .. MaxFaults
    <3>1. faults' = faults \/ (faults < MaxFaults /\ faults' = faults + 1)
      BY <1>2 DEF Forecast, Truncate, Dump, Abort, Restart
    <3> QED
      BY <3>1 DEF TypeOK
  <2>6. TypeOK' /\ lost' <= exits'
    BY <2>1, <2>2, <2>3, <2>4, <2>5 DEF TypeOK
  <2>7. OnTarget'
    <3>1. pc' \in {"idle", "scale", "ended"} =>
             lost' = 0 \/ (pc \in {"idle", "ended"} /\ lost' = lost)
      BY <1>2 DEF Forecast, Truncate, Dump, Abort, Restart, End
    <3> QED
      BY <2>1, <3>1 DEF OnTarget
  <2>8. Listed'
    <3>1. pc' = "dump" => pc = "load" /\ UNCHANGED <<containers, lost, target>>
      BY <1>2 DEF Forecast, Truncate, Dump, Abort, Restart, End
    <3> QED
      BY <2>1, <3>1 DEF Listed
  <2> QED
    BY <2>1, <2>6, <2>7, <2>8 DEF StartsOnFreePorts
<1>3. CASE UNCHANGED vars
  BY <1>3 DEF vars, world, file, process, TypeOK, StartsOnFreePorts, OnTarget, Planned, Listed
<1> QED
  BY <1>1, <1>2, <1>3

-----------------------------------------------------------------------------
(* In every reachable state the plan of the round leads to the forecast     *)
(* (scale() and what it calls).                                             *)
THEOREM Inductive == Safety => []IInv
<1>1. Init => IInv
  BY InitHolds
<1>2. IInv /\ [Next]_vars => IInv'
  BY ExitStep, PlanStep, StartOneStep, StopOneStep, RefreshStep, OtherSteps DEF Next, Round
<1> QED
  BY <1>1, <1>2, PTL DEF Safety

(* The variables of the scaler keep their types.                            *)
THEOREM TypeCorrect == Safety => []TypeOK
  BY Inductive, PTL DEF IInv

(* upscale() never starts a container on a port another one has.            *)
THEOREM FreePortsAreFree == Safety => []StartsOnFreePorts
  BY Inductive, PTL DEF IInv

(* After a round as many containers run as the forecast asked for, less those *)
(* that exited during it.                                                   *)
THEOREM ForecastReached == Safety => []ReachesForecast
<1>1. IInv => ReachesForecast
  <2> SUFFICES ASSUME IInv, pc = "load"
               PROVE  Cardinality(running) \in (target - lost) .. target
    BY DEF ReachesForecast
  <2>1. running \ todo = running
    BY DEF IInv, OnTarget
  <2> QED
    BY <2>1 DEF IInv, OnTarget, Planned
<1> QED
  BY <1>1, Inductive, PTL

(* A round that ends has published what runs, and beyond that only what      *)
(* exited during it (update_config()).                                      *)
THEOREM RoundPublished == Safety => RoundIsPublished
<1>1. ASSUME IInv, [Next]_vars, pc = "dump", pc' = "idle"
      PROVE  /\ running \subseteq forwards' /\ Cardinality(forwards' \ running) <= lost
             /\ Cardinality(forwards') \in (target - lost) .. target
  <2>1. forwards' = containers
    BY <1>1 DEF Next, Round, Exit, Record, Forecast, Plan, StartOne, StopOne, Refresh, Truncate,
                Dump, Abort, Restart, End, process, vars
  <2> QED
    BY <1>1, <2>1 DEF IInv, Listed
<1> QED
  BY <1>1, Inductive, PTL DEF Safety, RoundIsPublished
=============================================================================
