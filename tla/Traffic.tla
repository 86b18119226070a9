------------------------------ MODULE Traffic ------------------------------
(***************************************************************************)
(* traffic/src: the generator that keeps prescal under load, connected to   *)
(* the accept loop of prescal (module AcceptLoop).  traffic_worker() draws  *)
(* the size of a batch of requests every second, and starts a thread for    *)
(* each batch as long as a semaphore admits it; the threads are the clients *)
(* of the accept loop, which wait for an answer without a timeout.          *)
(***************************************************************************)
EXTENDS AcceptLoop

CONSTANTS
  Thread,     (* threads that can exist at once                            *)
  MAX_CONCURRENT_THREADS,
  MaxInt,     (* INT_MAX, which is RAND_MAX, too                           *)
  Defaults,   (* get_default_config()                                      *)
  Files       (* what traffic.conf may say: values of some of the keys     *)

Key == {"base_min_requests", "base_max_requests", "normal_traffic_duration",
        "high_traffic_min_requests", "high_traffic_max_requests", "high_traffic_duration"}

ASSUME TrafficAssumption ==
  /\ MAX_CONCURRENT_THREADS \in Nat \ {0} /\ MaxInt \in Nat
  /\ IsFiniteSet(Thread) /\ Cardinality(Thread) >= MAX_CONCURRENT_THREADS
  /\ Defaults \in [Key -> 0 .. MaxInt]
  /\ \A f \in Files : DOMAIN f \subseteq Key /\ \A k \in DOMAIN f : f[k] \in -MaxInt .. MaxInt

VARIABLES
  config,     (* traffic_config_t                                          *)
  worker,     (* traffic_worker(): "top", "wait" for a slot, "spawn"       *)
  mode,       (* current_state: "normal" or "high"                         *)
  seconds,    (* seconds_in_current_state                                  *)
  traffic,    (* size of the next batch                                    *)
  thread_limiter, (* the semaphore                                         *)
  rest,       (* requests each thread still has to send, -1: no thread     *)
  peer        (* the connection a thread has open, or NULL                 *)

proxy == vars
plan == <<config, mode, seconds, traffic>>
threads == <<rest, peer>>
trafficVars == <<proxy, plan, worker, thread_limiter, threads>>

-----------------------------------------------------------------------------
(* config.c.                                                                *)

validate_config(c) ==
  /\ \A k \in Key : c[k] >= 0
  /\ c["normal_traffic_duration"] > 0 /\ c["high_traffic_duration"] > 0
  /\ c["base_min_requests"] < c["base_max_requests"]
  /\ c["high_traffic_min_requests"] < c["high_traffic_max_requests"]

\* get_default_config() makes sense.
ASSUME DefaultsAssumption == validate_config(Defaults)

\* Mutant of load_config: the values are not validated.
load_unchecked(f) == [k \in Key |-> IF k \in DOMAIN f THEN f[k] ELSE Defaults[k]]

\* The defaults, with what the file says instead; without a file, or with one
\* that makes no sense, the defaults.
load_config(f) ==
  LET c == [k \in Key |-> IF k \in DOMAIN f THEN f[k] ELSE Defaults[k]]
  IN  IF validate_config(c) THEN c ELSE Defaults

Lower(m) == config[IF m = "normal" THEN "base_min_requests" ELSE "high_traffic_min_requests"]
Upper(m) == config[IF m = "normal" THEN "base_max_requests" ELSE "high_traffic_max_requests"]
Duration(m) == config[IF m = "normal" THEN "normal_traffic_duration" ELSE "high_traffic_duration"]

-----------------------------------------------------------------------------
(* traffic_worker().                                                        *)
TrafficInit ==
  /\ Init
  /\ config \in {load_config(f) : f \in Files}
  /\ worker = "top" /\ mode = "normal" /\ seconds = 0 /\ traffic = 0
  /\ thread_limiter = MAX_CONCURRENT_THREADS
  /\ rest = [t \in Thread |-> -1] /\ peer = [t \in Thread |-> NULL]

\* An int, which wraps around.
ToInt(x) == ((x + MaxInt + 1) % (2 * (MaxInt + 1))) - (MaxInt + 1)
Abs(x) == IF x < 0 THEN -x ELSE x

\* (rand() % range) + minimum.
Drawn(m) ==
  LET range == ToInt(Upper(m) - Lower(m) + 1)
  IN  {ToInt(Lower(m) + r) : r \in 0 .. Abs(range) - 1}

\* Mutant of Tick: the period is changed first.
TickAfterSwitch ==
  /\ worker = "top"
  /\ IF seconds + 1 >= Duration(mode)
       THEN mode' = (IF mode = "normal" THEN "high" ELSE "normal") /\ seconds' = 0
       ELSE seconds' = seconds + 1 /\ UNCHANGED mode
  /\ traffic' \in Drawn(mode')
  /\ worker' = "wait"
  /\ UNCHANGED <<proxy, config, thread_limiter, threads>>

\* Once a second: draw a batch, and see whether the period is over.
Tick ==
  /\ worker = "top"
  /\ traffic' \in Drawn(mode)
  /\ IF seconds + 1 >= Duration(mode)
       THEN mode' = (IF mode = "normal" THEN "high" ELSE "normal") /\ seconds' = 0
       ELSE seconds' = seconds + 1 /\ UNCHANGED mode
  /\ worker' = "wait"
  /\ UNCHANGED <<proxy, config, thread_limiter, threads>>

\* sem_wait().
TakeSlot ==
  /\ worker = "wait" /\ thread_limiter > 0
  /\ thread_limiter' = thread_limiter - 1
  /\ worker' = "spawn"
  /\ UNCHANGED <<proxy, plan, threads>>

\* Mutant of SpawnFails: the error path keeps the slot.
SpawnFailsSilently ==
  /\ worker = "spawn"
  /\ worker' = "top"
  /\ UNCHANGED <<proxy, plan, thread_limiter, threads>>

\* malloc() or pthread_create() fails.
SpawnFails ==
  /\ worker = "spawn"
  /\ thread_limiter' = thread_limiter + 1
  /\ worker' = "top"
  /\ UNCHANGED <<proxy, plan, threads>>

Spawn ==
  /\ worker = "spawn"
  /\ \E t \in Thread : rest[t] = -1 /\ rest' = [rest EXCEPT ![t] = traffic]
  /\ worker' = "top"
  /\ UNCHANGED <<proxy, plan, thread_limiter, peer>>

-----------------------------------------------------------------------------
(* traffic_forwarder() and send_request().                                  *)

\* socket() and connect().
Call(t) ==
  /\ rest[t] > 0 /\ peer[t] = NULL
  /\ \E c \in Client : Connect(c) /\ peer' = [peer EXCEPT ![t] = c]
  /\ UNCHANGED <<plan, worker, thread_limiter, rest>>

\* One of them fails: the request counts as sent.
CallFails(t) ==
  /\ rest[t] > 0 /\ peer[t] = NULL
  /\ rest' = [rest EXCEPT ![t] = @ - 1]
  /\ UNCHANGED <<proxy, plan, worker, thread_limiter, peer>>

Send(t) ==
  /\ peer[t] # NULL
  /\ Speak(peer[t]) /\ line'[peer[t]] = "sent"
  /\ UNCHANGED <<plan, worker, thread_limiter, threads>>

Closed(c) == \A f \in Fd : owner[f] # c

\* Mutant of Receive: recv() is repeated until there is an answer.
ReceiveAnswer(t) ==
  /\ peer[t] # NULL
  /\ conn[peer[t]] = "answered"
  /\ peer' = [peer EXCEPT ![t] = NULL]
  /\ rest' = [rest EXCEPT ![t] = @ - 1]
  /\ UNCHANGED <<proxy, plan, worker, thread_limiter>>

\* recv() returns an answer, or 0 when the proxy has closed the connection.
Receive(t) ==
  /\ peer[t] # NULL
  /\ \/ conn[peer[t]] = "answered"
     \/ conn[peer[t]] = "dropped" /\ Closed(peer[t])
  /\ peer' = [peer EXCEPT ![t] = NULL]
  /\ rest' = [rest EXCEPT ![t] = @ - 1]
  /\ UNCHANGED <<proxy, plan, worker, thread_limiter>>

\* sem_post().
Finish(t) ==
  /\ rest[t] = 0
  /\ rest' = [rest EXCEPT ![t] = -1]
  /\ thread_limiter' = thread_limiter + 1
  /\ UNCHANGED <<proxy, plan, worker, peer>>

\* A connection both sides have closed: its name may be used again.
Forget(c) ==
  /\ conn[c] \in {"answered", "dropped"} /\ Closed(c)
  /\ \A t \in Thread : peer[t] # c
  /\ line' = [line EXCEPT ![c] = "none"] /\ conn' = [conn EXCEPT ![c] = "none"]
  /\ UNCHANGED <<backlog, edge, owner, held, errors, loop, plan, worker, thread_limiter, threads>>

Worker == Tick \/ TakeSlot \/ SpawnFails \/ Spawn
Forwarder(t) == Call(t) \/ Send(t) \/ Receive(t) \/ Finish(t)
Proxied == (HandleConnections \/ Take \/ Give) /\ UNCHANGED <<plan, worker, thread_limiter, threads>>

TrafficNext ==
  \/ Worker
  \/ \E t \in Thread : Forwarder(t) \/ CallFails(t)
  \/ \E c \in Client : Forget(c)
  \/ Proxied

(***************************************************************************)
(* Both programs run, and the other threads of prescal close what they      *)
(* opened.                                                                  *)
(***************************************************************************)
TrafficSafety == TrafficInit /\ [][TrafficNext]_trafficVars

TrafficSpec ==
  /\ TrafficSafety
  /\ WF_trafficVars(Worker)
  /\ \A t \in Thread : WF_trafficVars(Forwarder(t))
  /\ \A c \in Client : WF_trafficVars(Forget(c))
  /\ WF_trafficVars(HandleConnections /\ UNCHANGED <<plan, worker, thread_limiter, threads>>)
  /\ WF_trafficVars(Give /\ UNCHANGED <<plan, worker, thread_limiter, threads>>)

-----------------------------------------------------------------------------
(* Properties.                                                              *)

GeneratorTypeOK ==
  /\ config \in [Key -> 0 .. MaxInt]
  /\ worker \in {"top", "wait", "spawn"} /\ mode \in {"normal", "high"}
  /\ seconds \in 0 .. MaxInt /\ traffic \in 0 .. MaxInt
  /\ thread_limiter \in 0 .. MAX_CONCURRENT_THREADS
  /\ rest \in [Thread -> -1 .. MaxInt] /\ peer \in [Thread -> Client \cup {NULL}]

\* The types of the generator's variables, and of those of prescal's loop.
TrafficTypeOK == TypeOK /\ GeneratorTypeOK

\* Every slot is free, in the hands of the worker, or of a thread, whatever
\* fails between sem_wait() and sem_post().
SlotsAreKept ==
  thread_limiter + Cardinality({t \in Thread : rest[t] >= 0})
    + (IF worker = "spawn" THEN 1 ELSE 0) = MAX_CONCURRENT_THREADS

\* Whatever traffic.conf says, a batch lies in the range of its period, and a
\* period ends after its duration.
BatchesFollowConfig ==
  [][worker = "top" /\ worker' = "wait" =>
       /\ traffic' \in Lower(mode) .. Upper(mode)
       /\ mode' # mode <=> seconds + 1 = Duration(mode)]_trafficVars

\* "Wait for a thread slot to become available" (http.c:137): it does.
SlotBecomesAvailable == worker = "wait" ~> worker = "spawn"

\* What holds of it: while prescal's accept() never fails with a connection in
\* the queue, no slot is lost to one that is never answered, and the load rises
\* and falls for ever.
TrafficGoesOn == Admits => []<>(mode = "high") /\ []<>(mode = "normal")
=============================================================================
