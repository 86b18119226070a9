--------------------------- MODULE TrafficProofs ---------------------------
(***************************************************************************)
(* The generator keeps its slots and draws batches from the range of its    *)
(* configuration, whatever that says, and the accept loop keeps what it     *)
(* promises when its connections are the generator's and are used again and *)
(* again, for any number of threads, clients and descriptors of the proxy,  *)
(* and any width of an int.                                                 *)
(***************************************************************************)
EXTENDS Traffic, AcceptLoopProofs

USE TrafficAssumption, AcceptLoopAssumption

-----------------------------------------------------------------------------
(* Arithmetic of ints.                                                      *)

LEMMA SmallModulus == ASSUME NEW n \in Nat \ {0}, NEW x \in 0 .. n - 1 PROVE x % n = x
  BY SMT

LEMMA OwnModulus == ASSUME NEW n \in Nat \ {0} PROVE n % n = 0
  BY SMT

\* An int that fits is itself, and the one after the largest is the smallest.
LEMMA Wraps ==
  /\ \A x \in -(MaxInt + 1) .. MaxInt : ToInt(x) = x
  /\ ToInt(MaxInt + 1) = -(MaxInt + 1)
<1>1. 2 * (MaxInt + 1) \in Nat \ {0}
  OBVIOUS
<1>2. ASSUME NEW x \in -(MaxInt + 1) .. MaxInt PROVE ToInt(x) = x
  <2>1. x + MaxInt + 1 \in 0 .. 2 * (MaxInt + 1) - 1
    OBVIOUS
  <2>2. (x + MaxInt + 1) % (2 * (MaxInt + 1)) = x + MaxInt + 1
    BY <1>1, <2>1, SmallModulus
  <2> QED
    BY <2>2 DEF ToInt
<1>3. ToInt(MaxInt + 1) = -(MaxInt + 1)
  <2>1. MaxInt + 1 + MaxInt + 1 = 2 * (MaxInt + 1)
    OBVIOUS
  <2>2. (MaxInt + 1 + MaxInt + 1) % (2 * (MaxInt + 1)) = 0
    BY <1>1, <2>1, OwnModulus
  <2> QED
    BY <2>2 DEF ToInt
<1> QED
  BY <1>2, <1>3

\* rand() % range + minimum stays in the range, also when range overflows.
LEMMA DrawnInRange ==
  ASSUME NEW m, Lower(m) \in 0 .. MaxInt, Upper(m) \in 0 .. MaxInt, Lower(m) < Upper(m)
  PROVE  Drawn(m) \subseteq Lower(m) .. Upper(m)
<1> DEFINE width == Upper(m) - Lower(m) + 1
<1>1. width \in 2 .. MaxInt + 1
  OBVIOUS
<1>2. Abs(ToInt(width)) = width
  <2>1. CASE width = MaxInt + 1
    BY <1>1, <2>1, Wraps DEF Abs
  <2>2. CASE width # MaxInt + 1
    <3>1. width \in -(MaxInt + 1) .. MaxInt
      BY <1>1, <2>2
    <3>2. ToInt(width) = width
      BY <3>1, Wraps
    <3> QED
      BY <1>1, <3>2 DEF Abs
  <2> QED
    BY <2>1, <2>2
<1>3. ASSUME NEW r \in 0 .. width - 1 PROVE ToInt(Lower(m) + r) \in Lower(m) .. Upper(m)
  <2>1. Lower(m) + r \in Lower(m) .. Upper(m)
    BY <1>1
  <2>2. Lower(m) + r \in -(MaxInt + 1) .. MaxInt
    BY <2>1
  <2> QED
    BY <2>1, <2>2, Wraps
<1> QED
  BY <1>2, <1>3 DEF Drawn
-----------------------------------------------------------------------------
(* The inductive invariant.                                                 *)

\* The threads that run.
Running == {t \in Thread : rest[t] >= 0}

\* What the schedule rests on: a configuration in use is a valid one.
ScheduleOK == validate_config(config) /\ seconds < Duration(mode)

\* Only a thread with a request to send has a connection.
PeersSend == \A t \in Thread : peer[t] # NULL => rest[t] > 0

GeneratorInv == GeneratorTypeOK /\ ScheduleOK /\ PeersSend /\ SlotsAreKept

LEMMA RunningIsFinite == IsFiniteSet(Running) /\ Cardinality(Running) \in Nat
<1>1. IsFiniteSet(Running)
  BY FS_Subset DEF Running
<1> QED
  BY <1>1, FS_CardinalityType

LEMMA SlotsByRunning ==
  SlotsAreKept <=>
    thread_limiter + Cardinality(Running) + (IF worker = "spawn" THEN 1 ELSE 0) = MAX_CONCURRENT_THREADS
  BY DEF SlotsAreKept, Running

\* A thread that runs and goes on running keeps its slot.
LEMMA SameRunning ==
  ASSUME GeneratorTypeOK, NEW t \in Thread, rest[t] > 0, rest' = [rest EXCEPT ![t] = @ - 1],
         UNCHANGED <<worker, thread_limiter>>, SlotsAreKept
  PROVE  SlotsAreKept' /\ rest' \in [Thread -> -1 .. MaxInt]
<1>1. \A u \in Thread : rest'[u] >= 0 <=> rest[u] >= 0
  BY DEF GeneratorTypeOK
<1>2. Running' = Running
  BY <1>1 DEF Running
<1>3. rest' \in [Thread -> -1 .. MaxInt]
  BY DEF GeneratorTypeOK
<1> QED
  BY <1>2, <1>3, SlotsByRunning DEF SlotsAreKept, Running

LEMMA TickStep ==
  ASSUME GeneratorInv, Tick
  PROVE  /\ GeneratorInv'
         /\ traffic' \in Lower(mode) .. Upper(mode)
         /\ mode' # mode <=> seconds + 1 = Duration(mode)
<1> USE DEF GeneratorInv
<1>1. /\ Lower(mode) \in 0 .. MaxInt /\ Upper(mode) \in 0 .. MaxInt /\ Lower(mode) < Upper(mode)
      /\ Duration(mode) \in 1 .. MaxInt
  BY DEF GeneratorTypeOK, ScheduleOK, validate_config, Lower, Upper, Duration, Key
<1>2. Drawn(mode) \subseteq Lower(mode) .. Upper(mode)
  BY <1>1, DrawnInRange
<1>3. traffic' \in Lower(mode) .. Upper(mode)
  BY <1>2 DEF Tick
<1>4. /\ mode' # mode <=> seconds + 1 = Duration(mode)
      /\ mode' \in {"normal", "high"} /\ seconds' \in 0 .. MaxInt
      /\ seconds' < Duration(mode')
  <2>1. seconds \in 0 .. MaxInt /\ seconds < Duration(mode) /\ mode \in {"normal", "high"}
    BY DEF GeneratorTypeOK, ScheduleOK
  <2>2. CASE seconds + 1 >= Duration(mode)
    <3>1. seconds' = 0 /\ mode' \in {"normal", "high"} /\ mode' # mode
      BY <2>1, <2>2 DEF Tick
    <3>2. Duration(mode') \in 1 .. MaxInt
      <4>1. \A m \in {"normal", "high"} : config[IF m = "normal" THEN "normal_traffic_duration"
                                                              ELSE "high_traffic_duration"] \in 1 .. MaxInt
        BY DEF GeneratorTypeOK, ScheduleOK, validate_config, Key
      <4> QED
        BY <3>1, <4>1 DEF Duration
    <3> QED
      BY <1>1, <2>1, <2>2, <3>1, <3>2
  <2>3. CASE ~(seconds + 1 >= Duration(mode))
    <3>1. seconds' = seconds + 1 /\ mode' = mode
      BY <2>3 DEF Tick
    <3> QED
      BY <1>1, <2>1, <2>3, <3>1
  <2> QED
    BY <2>2, <2>3
<1>5. UNCHANGED <<config, thread_limiter, rest, peer>> /\ worker' = "wait" /\ worker = "top"
  BY DEF Tick, threads
<1>6. traffic' \in 0 .. MaxInt
  BY <1>1, <1>3
<1>7. GeneratorTypeOK'
  BY <1>4, <1>5, <1>6 DEF GeneratorTypeOK
<1>8. ScheduleOK'
  BY <1>4, <1>5 DEF ScheduleOK, validate_config, Duration
<1>9. PeersSend' /\ SlotsAreKept'
  BY <1>5 DEF PeersSend, SlotsAreKept
<1> QED
  BY <1>3, <1>4, <1>7, <1>8, <1>9

\* Between sem_wait() and sem_post().
LEMMA SlotSteps ==
  ASSUME GeneratorInv, TakeSlot \/ SpawnFails \/ Spawn
  PROVE  GeneratorInv'
<1> USE DEF GeneratorInv
<1>0. UNCHANGED <<config, mode, seconds, traffic, peer>>
  BY DEF TakeSlot, SpawnFails, Spawn, plan, threads
<1>1. Cardinality(Running) \in Nat /\ thread_limiter \in 0 .. MAX_CONCURRENT_THREADS
  BY RunningIsFinite DEF GeneratorTypeOK
<1>2. ASSUME /\ thread_limiter' \in 0 .. MAX_CONCURRENT_THREADS
             /\ worker' \in {"top", "wait", "spawn"}
             /\ rest' \in [Thread -> -1 .. MaxInt]
      PROVE  GeneratorTypeOK' /\ ScheduleOK'
  BY <1>0, <1>2 DEF GeneratorTypeOK, ScheduleOK, validate_config, Duration
<1>3. CASE TakeSlot \/ SpawnFails
  <2>1. rest' = rest
    BY <1>3 DEF TakeSlot, SpawnFails, threads
  <2>2. /\ thread_limiter' \in 0 .. MAX_CONCURRENT_THREADS /\ worker' \in {"top", "spawn"}
        /\ SlotsAreKept'
    BY <1>1, <1>3, <2>1, SlotsByRunning DEF TakeSlot, SpawnFails, SlotsAreKept, Running
  <2>3. PeersSend'
    BY <1>0, <2>1 DEF PeersSend
  <2> QED
    BY <1>2, <2>1, <2>2, <2>3 DEF GeneratorTypeOK
<1>4. CASE Spawn
  <2>1. PICK t \in Thread : rest[t] = -1 /\ rest' = [rest EXCEPT ![t] = traffic]
    BY <1>4 DEF Spawn
  <2>2. traffic \in 0 .. MaxInt /\ rest \in [Thread -> -1 .. MaxInt]
    BY DEF GeneratorTypeOK
  <2>3. rest' \in [Thread -> -1 .. MaxInt] /\ rest'[t] >= 0 /\ \A u \in Thread \ {t} : rest'[u] = rest[u]
    BY <2>1, <2>2
  <2>4. Running' = Running \cup {t} /\ t \notin Running
    BY <2>1, <2>3 DEF Running
  <2>5. Cardinality(Running') = Cardinality(Running) + 1
    BY <2>4, RunningIsFinite, FS_AddElement
  <2>6. worker = "spawn" /\ worker' = "top" /\ thread_limiter' = thread_limiter
    BY <1>4 DEF Spawn
  <2>7. SlotsAreKept'
    BY <1>1, <2>5, <2>6 DEF SlotsAreKept, Running
  <2>8. PeersSend'
    <3>1. peer[t] = NULL
      BY <2>1 DEF PeersSend
    <3> QED
      BY <1>0, <2>3, <3>1 DEF PeersSend
  <2> QED
    BY <1>1, <1>2, <2>3, <2>6, <2>7, <2>8
<1> QED
  BY <1>3, <1>4

LEMMA ForwarderStep ==
  ASSUME GeneratorInv, NEW t \in Thread, Forwarder(t) \/ CallFails(t)
  PROVE  GeneratorInv'
<1> USE DEF GeneratorInv
<1>0. UNCHANGED <<config, mode, seconds, traffic, worker>>
  BY DEF Forwarder, Call, CallFails, Send, Receive, Finish, plan
<1>1. rest \in [Thread -> -1 .. MaxInt] /\ peer \in [Thread -> Client \cup {NULL}]
  BY DEF GeneratorTypeOK
<1>2. ASSUME /\ thread_limiter' \in 0 .. MAX_CONCURRENT_THREADS
             /\ rest' \in [Thread -> -1 .. MaxInt]
             /\ peer' \in [Thread -> Client \cup {NULL}]
      PROVE  GeneratorTypeOK' /\ ScheduleOK'
  BY <1>0, <1>2 DEF GeneratorTypeOK, ScheduleOK, validate_config, Duration
<1>3. CASE Call(t)
  <2>1. UNCHANGED <<thread_limiter, rest>> /\ rest[t] > 0
    BY <1>3 DEF Call
  <2>2. PICK c \in Client : peer' = [peer EXCEPT ![t] = c]
    BY <1>3 DEF Call
  <2>3. peer' \in [Thread -> Client \cup {NULL}] /\ PeersSend'
    BY <1>1, <2>1, <2>2 DEF PeersSend
  <2>4. SlotsAreKept'
    BY <1>0, <2>1 DEF SlotsAreKept
  <2> QED
    BY <1>1, <1>2, <2>1, <2>3, <2>4 DEF GeneratorTypeOK
<1>4. CASE Send(t)
  <2>1. UNCHANGED <<thread_limiter, rest, peer>>
    BY <1>4 DEF Send, threads
  <2> QED
    BY <1>0, <1>1, <1>2, <2>1 DEF GeneratorTypeOK, PeersSend, SlotsAreKept
<1>5. CASE CallFails(t)
  <2>1. rest[t] > 0 /\ peer[t] = NULL /\ rest' = [rest EXCEPT ![t] = @ - 1]
        /\ UNCHANGED <<worker, thread_limiter, peer>>
    BY <1>5 DEF CallFails
  <2>2. SlotsAreKept' /\ rest' \in [Thread -> -1 .. MaxInt]
    BY <2>1, SameRunning
  <2>3. PeersSend'
    BY <1>1, <2>1 DEF PeersSend
  <2> QED
    BY <1>1, <1>2, <2>1, <2>2, <2>3 DEF GeneratorTypeOK
<1>6. CASE Receive(t)
  <2>1. peer[t] # NULL /\ rest' = [rest EXCEPT ![t] = @ - 1] /\ peer' = [peer EXCEPT ![t] = NULL]
        /\ UNCHANGED <<worker, thread_limiter>>
    BY <1>6 DEF Receive
  <2>2. rest[t] > 0
    BY <2>1 DEF PeersSend
  <2>3. SlotsAreKept' /\ rest' \in [Thread -> -1 .. MaxInt]
    BY <2>1, <2>2, SameRunning
  <2>4. PeersSend' /\ peer' \in [Thread -> Client \cup {NULL}]
    BY <1>1, <2>1 DEF PeersSend
  <2> QED
    BY <1>2, <2>1, <2>3, <2>4 DEF GeneratorTypeOK
<1>7. CASE Finish(t)
  <2>1. /\ rest[t] = 0 /\ rest' = [rest EXCEPT ![t] = -1]
        /\ thread_limiter' = thread_limiter + 1 /\ peer' = peer
    BY <1>7 DEF Finish
  <2>2. rest' \in [Thread -> -1 .. MaxInt] /\ rest'[t] = -1 /\ \A u \in Thread \ {t} : rest'[u] = rest[u]
    BY <1>1, <2>1
  <2>3. Running' = Running \ {t} /\ t \in Running
    BY <2>1, <2>2 DEF Running
  <2>4. Cardinality(Running') = Cardinality(Running) - 1
    BY <2>3, RunningIsFinite, FS_RemoveElement
  <2>5. /\ Cardinality(Running) \in Nat /\ Cardinality(Running') \in Nat
        /\ thread_limiter \in 0 .. MAX_CONCURRENT_THREADS
    <3>1. IsFiniteSet(Running')
      BY <2>3, RunningIsFinite, FS_RemoveElement
    <3> QED
      BY <3>1, RunningIsFinite, FS_CardinalityType DEF GeneratorTypeOK
  <2>6. SlotsAreKept' /\ thread_limiter' \in 0 .. MAX_CONCURRENT_THREADS
    BY <1>0, <2>1, <2>4, <2>5 DEF SlotsAreKept, Running
  <2>7. PeersSend'
    <3>1. peer[t] = NULL
      BY <2>1 DEF PeersSend
    <3> QED
      BY <2>1, <2>2, <3>1 DEF PeersSend
  <2> QED
    BY <1>1, <1>2, <2>1, <2>2, <2>6, <2>7
<1> QED
  BY <1>3, <1>4, <1>5, <1>6, <1>7 DEF Forwarder

LEMMA GeneratorInit == TrafficInit => GeneratorInv
<1> SUFFICES ASSUME TrafficInit PROVE GeneratorInv
  OBVIOUS
<1>1. validate_config(config) /\ config \in [Key -> 0 .. MaxInt]
  <2>1. PICK f \in Files : config = load_config(f)
    BY DEF TrafficInit
  <2>2. CASE config = Defaults
    BY <2>2, DefaultsAssumption
  <2>3. CASE config # Defaults
    <3> DEFINE c == [k \in Key |-> IF k \in DOMAIN f THEN f[k] ELSE Defaults[k]]
    <3>1. config = c /\ validate_config(c)
      BY <2>1, <2>3 DEF load_config
    <3>2. \A k \in Key : c[k] \in -MaxInt .. MaxInt
      OBVIOUS
    <3>3. \A k \in Key : c[k] \in 0 .. MaxInt
      BY <3>1, <3>2 DEF validate_config
    <3> QED
      BY <3>1, <3>3
  <2> QED
    BY <2>2, <2>3
<1>2. ScheduleOK
  BY <1>1 DEF TrafficInit, ScheduleOK, Duration, validate_config, Key
<1>3. GeneratorTypeOK /\ PeersSend
  BY <1>1 DEF TrafficInit, GeneratorTypeOK, PeersSend
<1>4. Running = {}
  BY DEF TrafficInit, Running
<1>5. SlotsAreKept
  <2>1. Cardinality(Running) = 0
    BY <1>4, FS_EmptySet
  <2>2. thread_limiter = MAX_CONCURRENT_THREADS /\ worker = "top"
    BY DEF TrafficInit
  <2> QED
    BY <2>1, <2>2, SlotsByRunning
<1> QED
  BY <1>2, <1>3, <1>5 DEF GeneratorInv

LEMMA GeneratorStep == GeneratorInv /\ [TrafficNext]_trafficVars => GeneratorInv'
<1> SUFFICES ASSUME GeneratorInv, [TrafficNext]_trafficVars PROVE GeneratorInv'
  OBVIOUS
<1>1. CASE Worker
  BY <1>1, TickStep, SlotSteps DEF Worker
<1>2. CASE \E t \in Thread : Forwarder(t) \/ CallFails(t)
  BY <1>2, ForwarderStep
<1>3. CASE (\E c \in Client : Forget(c)) \/ Proxied \/ UNCHANGED trafficVars
  <2>1. UNCHANGED <<config, mode, seconds, traffic, worker, thread_limiter, rest, peer>>
    BY <1>3 DEF Forget, Proxied, trafficVars, plan, threads
  <2> QED
    BY <2>1 DEF GeneratorInv, GeneratorTypeOK, ScheduleOK, validate_config, Duration, PeersSend, SlotsAreKept
<1> QED
  BY <1>1, <1>2, <1>3 DEF TrafficNext

-----------------------------------------------------------------------------
(* Both programs together.                                                  *)

\* A thread waits on a connection of its own that exists, and a connection the
\* proxy still has to deal with is one that a thread waits on.
Pairing ==
  /\ \A t, u \in Thread : peer[t] = peer[u] /\ peer[t] # NULL => t = u
  /\ \A t \in Thread : peer[t] # NULL => line[peer[t]] \in {"silent", "sent"}
  /\ \A c \in Client : conn[c] \in {"queued", "open"} => \E t \in Thread : peer[t] = c

\* The accept loop never sees its invariant broken by a connection whose name
\* is used again.
LEMMA ForgetStep == ASSUME IInv, NEW c \in Client, Forget(c) PROVE IInv'
<1> USE DEF IInv
<1>1. /\ conn[c] \in {"answered", "dropped"} /\ \A f \in Fd : owner[f] # c
      /\ line' = [line EXCEPT ![c] = "none"] /\ conn' = [conn EXCEPT ![c] = "none"]
      /\ UNCHANGED <<backlog, edge, owner, held, errors, events, at, client_fd>>
  BY DEF Forget, Closed, loop
<1>2. TypeOK'
  BY <1>1 DEF TypeOK
<1>3. Queue'
  BY <1>1 DEF Queue, TypeOK
<1>4. DescriptorsAreOwned'
  BY <1>1 DEF DescriptorsAreOwned, TypeOK
<1>5. EventsAreCurrent'
  BY <1>1 DEF EventsAreCurrent, TypeOK, Readable
<1>6. Batch' /\ SlowClientsAreKept'
  BY <1>1 DEF Batch, SlowClientsAreKept, TypeOK, Readable
<1> QED
  BY <1>2, <1>3, <1>4, <1>5, <1>6

\* What a step of both programs is to the accept loop.
LEMMA ProxyStep == IInv /\ GeneratorTypeOK /\ [TrafficNext]_trafficVars => IInv'
<1> SUFFICES ASSUME IInv, GeneratorTypeOK, [TrafficNext]_trafficVars PROVE IInv'
  OBVIOUS
<1>1. CASE Worker
  BY <1>1, StutterStep DEF Worker, Tick, TakeSlot, SpawnFails, Spawn, proxy
<1>2. ASSUME NEW t \in Thread, Forwarder(t) \/ CallFails(t) PROVE IInv'
  <2>1. CASE Call(t)
    BY <2>1, ConnectStep DEF Call
  <2>2. CASE Send(t)
    <3>1. peer[t] \in Client
      BY <2>2 DEF Send, GeneratorTypeOK
    <3> QED
      BY <2>2, <3>1, SpeakStep DEF Send, Speak
  <2>3. CASE Receive(t) \/ Finish(t) \/ CallFails(t)
    BY <2>3, StutterStep DEF Receive, Finish, CallFails, proxy
  <2> QED
    BY <1>2, <2>1, <2>2, <2>3 DEF Forwarder
<1>3. CASE \E c \in Client : Forget(c)
  BY <1>3, ForgetStep
<1>4. CASE Proxied
  BY <1>4, TakeStep, GiveStep, WaitStep, DispatchStep, AcceptStep, StopAcceptingStep, ServeStep, CloseStep
  DEF Proxied, HandleConnections
<1>5. CASE UNCHANGED trafficVars
  BY <1>5, StutterStep DEF trafficVars, proxy
<1> QED
  BY <1>1, <1>2, <1>3, <1>4, <1>5 DEF TrafficNext

LEMMA PairingStep == IInv /\ GeneratorTypeOK /\ Pairing /\ [TrafficNext]_trafficVars => Pairing'
<1> SUFFICES ASSUME IInv, GeneratorTypeOK, Pairing, [TrafficNext]_trafficVars PROVE Pairing'
  OBVIOUS
<1>0. /\ line \in [Client -> {"none", "silent", "sent", "gone"}]
      /\ conn \in [Client -> {"none", "queued", "open", "answered", "dropped"}]
      /\ peer \in [Thread -> Client \cup {NULL}]
      /\ NULL \notin Client
  BY Marks DEF IInv, TypeOK, GeneratorTypeOK
<1>1. CASE UNCHANGED <<line, conn, peer>>
  BY <1>1 DEF Pairing
<1>2. ASSUME NEW t \in Thread, Call(t) PROVE Pairing'
  <2>1. PICK c \in Client : /\ line[c] = "none" /\ line' = [line EXCEPT ![c] = "silent"]
                           /\ conn' = [conn EXCEPT ![c] = "queued"] /\ peer' = [peer EXCEPT ![t] = c]
    BY <1>2 DEF Call, Connect
  <2>2. \A u \in Thread : peer[u] # c
    BY <1>0, <2>1 DEF Pairing
  <2> QED
    BY <1>0, <1>2, <2>1, <2>2 DEF Pairing, Call
<1>3. ASSUME NEW t \in Thread, Send(t) PROVE Pairing'
  <2>1. peer[t] \in Client /\ UNCHANGED <<conn, peer>>
    BY <1>0, <1>3 DEF Send, Speak, threads
  <2>2. line'[peer[t]] = "sent" /\ \A c \in Client \ {peer[t]} : line'[c] = line[c]
    BY <1>0, <1>3, <2>1 DEF Send, Speak
  <2> QED
    BY <1>0, <2>1, <2>2 DEF Pairing
<1>4. ASSUME NEW t \in Thread, Receive(t) PROVE Pairing'
  <2>1. /\ conn[peer[t]] \in {"answered", "dropped"} /\ peer' = [peer EXCEPT ![t] = NULL]
        /\ UNCHANGED <<line, conn>>
    BY <1>4 DEF Receive, proxy, vars, clients
  <2> QED
    BY <1>0, <2>1 DEF Pairing
<1>5. ASSUME NEW c \in Client, Forget(c) PROVE Pairing'
  <2>1. /\ \A t \in Thread : peer[t] # c
        /\ line' = [line EXCEPT ![c] = "none"] /\ conn' = [conn EXCEPT ![c] = "none"] /\ peer' = peer
    BY <1>5 DEF Forget, threads
  <2> QED
    BY <1>0, <2>1 DEF Pairing
<1>6. CASE Accept /\ UNCHANGED <<plan, worker, thread_limiter, threads>>
  <2>1. PICK f \in Free : Open(f)
    BY <1>6 DEF Accept, Lowest
  <2>2. Head(backlog) \in Client /\ conn[Head(backlog)] = "queued"
    BY <1>6, TailElements DEF IInv, TypeOK, Queue, Accept, CanAccept
  <2>3. conn' = [conn EXCEPT ![Head(backlog)] = "open"] /\ UNCHANGED <<line, peer>>
    BY <1>6, <2>1 DEF Open, Accept, threads
  <2> QED
    BY <1>0, <2>2, <2>3 DEF Pairing
<1>7. CASE Serve /\ UNCHANGED <<plan, worker, thread_limiter, threads>>
  <2>1. PICK how \in {"answered", "dropped"} : conn' = [conn EXCEPT ![owner[client_fd]] = how]
    BY <1>7 DEF Serve
  <2>2. UNCHANGED <<line, peer>>
    BY <1>7 DEF Serve, threads
  <2> QED
    BY <1>0, <2>1, <2>2 DEF Pairing
<1>8. CASE Proxied /\ ~Accept /\ ~Serve
  <2>1. UNCHANGED <<line, conn, peer>>
    BY <1>8 DEF Proxied, HandleConnections, Take, Give, Wait, Dispatch, StopAccepting, Close, clients, threads
  <2> QED
    BY <1>1, <2>1
<1>9. ASSUME NEW t \in Thread, CallFails(t) \/ Finish(t) PROVE Pairing'
  BY <1>1, <1>9 DEF CallFails, Finish, proxy, vars, clients
<1>10. CASE Worker \/ UNCHANGED trafficVars
  BY <1>1, <1>10 DEF Worker, Tick, TakeSlot, SpawnFails, Spawn, trafficVars, proxy, vars, clients, threads
<1> QED
  BY <1>2, <1>3, <1>4, <1>5, <1>6, <1>7, <1>8, <1>9, <1>10 DEF TrafficNext, Forwarder, Proxied

\* The inductive invariant of both.
JointInv == IInv /\ GeneratorInv /\ Pairing

\* Each connection the proxy still has to deal with takes a slot of its own.
LEMMA OneSlotEach ==
  ASSUME JointInv
  PROVE  Cardinality({c \in Client : conn[c] \in {"queued", "open"}}) <= MAX_CONCURRENT_THREADS - thread_limiter
<1> USE DEF JointInv
<1> DEFINE waiting == {c \in Client : conn[c] \in {"queued", "open"}}
           of(c) == CHOOSE t \in Thread : peer[t] = c
           slot == [c \in waiting |-> of(c)]
<1>1. IsFiniteSet(waiting)
  BY FS_Subset
<1>2. \A c \in waiting : of(c) \in Thread /\ peer[of(c)] = c /\ c # NULL
  BY Marks DEF Pairing
<1> HIDE DEF of, waiting
<1>3. \A c \in waiting : of(c) \in Running
  BY <1>2 DEF GeneratorInv, PeersSend, Running, GeneratorTypeOK
<1>4. slot \in [waiting -> Running] /\ \A c, d \in waiting : slot[c] = slot[d] => c = d
  BY <1>2, <1>3
<1> HIDE DEF slot
<1>5. slot \in Injection(waiting, Running)
  BY <1>4 DEF Injection, IsInjective
<1>6. Cardinality(waiting) <= Cardinality(Running)
  BY <1>5, RunningIsFinite, FS_Injection
<1>7. Cardinality(Running) <= MAX_CONCURRENT_THREADS - thread_limiter
  BY RunningIsFinite DEF GeneratorInv, SlotsAreKept, GeneratorTypeOK, Running
<1>8. Cardinality(waiting) \in Nat /\ Cardinality(Running) \in Nat /\ thread_limiter \in Nat
  BY <1>1, RunningIsFinite, FS_CardinalityType DEF GeneratorInv, GeneratorTypeOK
<1>9. Cardinality(waiting) <= MAX_CONCURRENT_THREADS - thread_limiter
  BY <1>6, <1>7, <1>8
<1> QED
  BY <1>9 DEF waiting

-----------------------------------------------------------------------------
(* The slots the worker holds, those of the threads and the free ones add   *)
(* up, the configuration in use is a valid one, no period is overrun, and   *)
(* only a thread with a request to send has a connection (traffic_worker(), *)
(* traffic_forwarder()).                                                    *)
THEOREM GeneratorInductive == TrafficSafety => []GeneratorInv
  BY GeneratorInit, GeneratorStep, PTL DEF TrafficSafety

(* No slot of the semaphore is lost or invented, whether malloc(),          *)
(* pthread_create() or the requests fail (traffic_worker(), sem_post()).    *)
THEOREM SlotsKept == TrafficSafety => []SlotsAreKept
<1>1. GeneratorInv => SlotsAreKept
  BY DEF GeneratorInv
<1> QED
  BY <1>1, GeneratorInductive, PTL

(* Every batch lies in the range of its period, although the range may      *)
(* overflow an int, and a period ends after its duration (traffic_worker(), *)
(* load_config()).                                                          *)
THEOREM BatchesInRange == TrafficSafety => BatchesFollowConfig
<1>1. ASSUME GeneratorInv, [TrafficNext]_trafficVars, worker = "top", worker' = "wait"
      PROVE  /\ traffic' \in Lower(mode) .. Upper(mode)
             /\ mode' # mode <=> seconds + 1 = Duration(mode)
  <2>1. Tick
    BY <1>1 DEF TrafficNext, Worker, TakeSlot, SpawnFails, Spawn, Forwarder, Call, CallFails, Send,
                Receive, Finish, Forget, Proxied, trafficVars
  <2> QED
    BY <1>1, <2>1, TickStep
<1>2. GeneratorInv /\ [TrafficNext]_trafficVars =>
        [worker = "top" /\ worker' = "wait" =>
           /\ traffic' \in Lower(mode) .. Upper(mode)
           /\ mode' # mode <=> seconds + 1 = Duration(mode)]_trafficVars
  BY <1>1
<1> QED
  BY <1>2, GeneratorInductive, PTL DEF TrafficSafety, BatchesFollowConfig
(* Both programs together: the invariant of the accept loop, that of the    *)
(* generator, and the pairing of threads with connections.                  *)
THEOREM JointInductive == TrafficSafety => []JointInv
<1>1. TrafficInit => JointInv
  BY InitHolds, GeneratorInit DEF TrafficInit, JointInv, Pairing, Init
<1>2. JointInv /\ [TrafficNext]_trafficVars => JointInv'
  <2> SUFFICES ASSUME JointInv, [TrafficNext]_trafficVars PROVE JointInv'
    OBVIOUS
  <2>1. GeneratorTypeOK
    BY DEF JointInv, GeneratorInv
  <2> QED
    BY <2>1, ProxyStep, GeneratorStep, PairingStep DEF JointInv
<1> QED
  BY <1>1, <1>2, PTL DEF TrafficSafety

(* The variables of both programs keep their types, however often a         *)
(* connection is used again (traffic_worker(), handle_connections()).       *)
THEOREM TrafficTypeCorrect == TrafficSafety => []TrafficTypeOK
<1>1. JointInv => TrafficTypeOK
  BY DEF JointInv, IInv, GeneratorInv, TrafficTypeOK
<1> QED
  BY <1>1, JointInductive, PTL

(* What the accept loop promises, it promises the generator, too: events    *)
(* are about the connection they were reported for, descriptors have one    *)
(* owner, and no thread is cut off before its request arrived, although the *)
(* connections end and begin again without bound (handle_connections()).    *)
THEOREM ProxyKeepsItsPromises ==
  TrafficSafety => [](EventsAreCurrent /\ DescriptorsAreOwned /\ SlowClientsAreKept)
<1>1. JointInv => EventsAreCurrent /\ DescriptorsAreOwned /\ SlowClientsAreKept
  BY DEF JointInv, IInv
<1> QED
  BY <1>1, JointInductive, PTL

(* Threads never share a connection, and none waits on one that does not    *)
(* exist; a connection that is queued or open has a thread that waits on it *)
(* (send_request()).                                                        *)
THEOREM ThreadsArePaired == TrafficSafety => []Pairing
<1>1. JointInv => Pairing
  BY DEF JointInv
<1> QED
  BY <1>1, JointInductive, PTL

(* The generator's semaphore bounds the load on the proxy: the connections  *)
(* queued or open are never more than the slots taken (traffic_worker(),    *)
(* "Wait for a thread slot to become available").                           *)
THEOREM LoadIsBounded ==
  TrafficSafety =>
    [](Cardinality({c \in Client : conn[c] \in {"queued", "open"}}) <= MAX_CONCURRENT_THREADS - thread_limiter)
<1>1. JointInv =>
        Cardinality({c \in Client : conn[c] \in {"queued", "open"}}) <= MAX_CONCURRENT_THREADS - thread_limiter
  BY OneSlotEach
<1> QED
  BY <1>1, JointInductive, PTL
=============================================================================
