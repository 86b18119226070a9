------------------------------- MODULE Proxy -------------------------------
(***************************************************************************)
(* What prescal promises as a reverse proxy, with no thread in sight: a     *)
(* pool of backends that follows the configuration file, and one request at *)
(* a time, forwarded to a member of the pool it was picked from.  Engine    *)
(* implements this module.                                                  *)
(***************************************************************************)
EXTENDS Sequences, Functions

CONSTANTS
  Lists,      (* backend lists the configuration file may hold *)
  NULL        (* "no request is being served"                  *)

VARIABLES
  published,  (* the backend list in the configuration file    *)
  active,     (* the backend list requests are routed over     *)
  serving     (* the backend serving the current request       *)

proxyVars == <<published, active, serving>>

Init ==
  /\ published \in Lists
  /\ active = published
  /\ serving = NULL

Publish ==
  /\ \E l \in Lists : published' = l
  /\ UNCHANGED <<active, serving>>

Adopt ==
  /\ active' = published
  /\ UNCHANGED <<published, serving>>

Accept ==
  /\ serving = NULL
  /\ \E p \in Range(active) : serving' = p
  /\ UNCHANGED <<published, active>>

Finish ==
  /\ serving # NULL
  /\ serving' = NULL
  /\ UNCHANGED <<published, active>>

\* The process dies and comes back: the request is lost, the file is read anew.
Restart ==
  /\ active' = published
  /\ serving' = NULL
  /\ UNCHANGED published

Next == Publish \/ Adopt \/ Accept \/ Finish \/ Restart

\* A published list is eventually adopted; a request is eventually answered.
Fairness == WF_proxyVars(Adopt) /\ WF_proxyVars(Finish)

Safety == Init /\ [][Next]_proxyVars
Spec == Safety /\ Fairness
=============================================================================
