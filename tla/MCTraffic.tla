----------------------------- MODULE MCTraffic -----------------------------
(* Traffic with batches of one or two requests.                             *)
EXTENDS Traffic

DefaultConfig ==
  [k \in Key |-> CASE k \in {"base_min_requests"} -> 0
                   [] k \in {"high_traffic_max_requests", "high_traffic_duration"} -> 2
                   [] OTHER -> 1]

One(k, v) == [x \in {k} |-> v]

\* The full range of an int; minimum above maximum; a negative value.
SmallFiles ==
  {One("base_max_requests", 2), One("high_traffic_max_requests", 0), One("base_min_requests", -1)}
=============================================================================
