-------------------------- MODULE AcceptLoopProofs --------------------------
(***************************************************************************)
(* The safety of the accept loop for any number of clients, descriptors and *)
(* events per epoll_wait().                                                 *)
(***************************************************************************)
EXTENDS AcceptLoop, FiniteSetTheorems, TLAPS

USE AcceptLoopAssumption

(* The inductive invariant.                                                 *)

\* The queue holds the connections that wait, each once; a client connects once.
Queue ==
  /\ \A c \in Client : line[c] = "none" <=> conn[c] = "none"
  /\ \A i \in DOMAIN backlog : conn[backlog[i]] = "queued"
  /\ \A i, j \in DOMAIN backlog : backlog[i] = backlog[j] => i = j

\* No descriptor is reported twice in a batch, and the one being handled is
\* what the event said.
Batch ==
  /\ \A i, j \in DOMAIN events : events[i] = events[j] => i = j
  /\ at = "serve" => /\ client_fd \in Fd /\ owner[client_fd] \in Client
                     /\ conn[owner[client_fd]] = "open" /\ Readable(owner[client_fd])
  /\ at = "close" => /\ client_fd \in Fd /\ owner[client_fd] \in Client
                     /\ conn[owner[client_fd]] \in {"answered", "dropped"}
                     /\ Readable(owner[client_fd])

IInv == TypeOK /\ Queue /\ DescriptorsAreOwned /\ EventsAreCurrent /\ Batch /\ SlowClientsAreKept

-----------------------------------------------------------------------------
(* Lemmas on the data.                                                      *)

\* Descriptors are distinct from the marks that are not clients.
LEMMA Marks == /\ NULL \notin Client /\ OTHERS \notin Client /\ NULL # OTHERS
               /\ LISTENER \notin Fd /\ 0 \notin Fd
  BY DEF Fd

\* The descriptors held by other threads are finitely many.
LEMMA HeldFinite == ASSUME NEW S, S \subseteq Fd PROVE IsFiniteSet(S)
<1>1. 1 \in Int /\ Fds \in Int
  OBVIOUS
<1>2. IsFiniteSet(1 .. Fds)
  BY <1>1, FS_Interval
<1> QED
  BY <1>2, FS_Subset DEF Fd

\* A batch is a sequence of ready descriptors without repetition.
LEMMA BatchOfReady ==
  ASSUME TypeOK, NEW q,
         LET n == Cardinality(Ready) IN
           q \in Orders(Ready, IF n < MaxEvents THEN n ELSE MaxEvents)
  PROVE  /\ q \in Seq(Fd \cup {LISTENER})
         /\ \A i \in DOMAIN q : q[i] \in Ready
         /\ \A i, j \in DOMAIN q : q[i] = q[j] => i = j
<1>1. Ready \subseteq Fd \cup {LISTENER}
  BY DEF Ready
<1>2. IsFiniteSet(Fd \cup {LISTENER})
  BY HeldFinite, FS_AddElement
<1>3. Cardinality(Ready) \in Nat
  BY <1>1, <1>2, FS_Subset, FS_CardinalityType
<1>4. PICK n \in Nat : q \in Orders(Ready, n)
  BY <1>3
<1>5. q \in [1 .. n -> Ready] /\ \A i, j \in 1 .. n : q[i] = q[j] => i = j
  BY <1>4 DEF Orders
<1> QED
  BY <1>1, <1>5

\* The tail of a sequence holds its later elements.
LEMMA TailElements ==
  ASSUME NEW S, NEW q \in Seq(S), q # <<>>
  PROVE  /\ Tail(q) \in Seq(S) /\ Head(q) \in S /\ 1 \in DOMAIN q /\ Head(q) = q[1]
         /\ \A i \in DOMAIN Tail(q) : i + 1 \in DOMAIN q /\ Tail(q)[i] = q[i + 1]
  OBVIOUS

-----------------------------------------------------------------------------
LEMMA InitHolds == Init => IInv
<1> SUFFICES ASSUME Init PROVE IInv
  OBVIOUS
<1>1. Cardinality(held) = 0 /\ 0 <= MaxHeld
  BY FS_EmptySet DEF Init
<1>2. TypeOK
  <2>1. line \in [Client -> {"none"}] /\ conn \in [Client -> {"none"}] /\ owner \in [Fd -> {NULL}]
    BY DEF Init
  <2>2. backlog \in Seq(Client) /\ events \in Seq(Fd \cup {LISTENER})
    BY DEF Init
  <2>3. errors \in 0 .. MaxErrors
    BY DEF Init
  <2> QED
    BY <1>1, <2>1, <2>2, <2>3 DEF Init, TypeOK
<1>3. Queue /\ DescriptorsAreOwned /\ EventsAreCurrent /\ Batch /\ SlowClientsAreKept
  BY Marks DEF Init, Queue, DescriptorsAreOwned, EventsAreCurrent, Batch, SlowClientsAreKept
<1> QED
  BY <1>2, <1>3 DEF IInv

LEMMA ConnectStep == ASSUME IInv, NEW c \in Client, Connect(c) PROVE IInv'
<1> USE DEF IInv
<1>1. TypeOK'
  BY DEF TypeOK, Connect, loop
<1>2. Queue'
  BY DEF Queue, TypeOK, Connect
<1>3. DescriptorsAreOwned'
  BY DEF DescriptorsAreOwned, Queue, TypeOK, Connect, loop
<1>4. EventsAreCurrent'
  BY DEF EventsAreCurrent, Queue, TypeOK, Connect, Readable, loop
<1>5. Batch' /\ SlowClientsAreKept'
  BY DEF Batch, SlowClientsAreKept, Queue, TypeOK, Connect, Readable, loop
<1> QED
  BY <1>1, <1>2, <1>3, <1>4, <1>5

LEMMA SpeakStep == ASSUME IInv, NEW c \in Client, Speak(c) PROVE IInv'
<1> USE DEF IInv
<1>1. TypeOK'
  BY DEF TypeOK, Speak, loop
<1>2. Queue'
  BY DEF Queue, TypeOK, Speak
<1>3. DescriptorsAreOwned'
  BY DEF DescriptorsAreOwned, TypeOK, Speak, loop
<1>4. EventsAreCurrent'
  BY DEF EventsAreCurrent, TypeOK, Speak, Readable, loop
<1>5. Batch' /\ SlowClientsAreKept'
  BY DEF Batch, SlowClientsAreKept, TypeOK, Speak, Readable, loop
<1> QED
  BY <1>1, <1>2, <1>3, <1>4, <1>5

LEMMA TakeStep == ASSUME IInv, Take PROVE IInv'
<1> USE DEF IInv
<1>1. PICK f \in Free : owner' = [owner EXCEPT ![f] = OTHERS] /\ held' = held \cup {f}
  BY DEF Take, Lowest
<1>2. f \in Fd /\ owner[f] = NULL /\ f \notin held
  BY Marks DEF Free, DescriptorsAreOwned
<1>3. Cardinality(held') = Cardinality(held) + 1
  BY <1>1, <1>2, HeldFinite, FS_AddElement DEF TypeOK
<1>4. Cardinality(held) \in Nat
  BY HeldFinite, FS_CardinalityType DEF TypeOK
<1>5. TypeOK'
  BY <1>1, <1>2, <1>3, <1>4 DEF TypeOK, Take, clients, loop
<1>6. Queue'
  BY DEF Queue, Take, clients
<1>7. DescriptorsAreOwned'
  BY <1>1, <1>2, Marks DEF DescriptorsAreOwned, TypeOK, Take, clients, loop
<1>8. EventsAreCurrent'
  BY <1>1, <1>2, Marks DEF EventsAreCurrent, TypeOK, Take, Readable, clients, loop
<1>9. Batch' /\ SlowClientsAreKept'
  BY <1>1, <1>2, Marks DEF Batch, SlowClientsAreKept, TypeOK, Take, Readable, clients, loop
<1> QED
  BY <1>5, <1>6, <1>7, <1>8, <1>9

LEMMA GiveStep == ASSUME IInv, Give PROVE IInv'
<1> USE DEF IInv
<1>1. PICK f \in held : owner' = [owner EXCEPT ![f] = NULL] /\ held' = held \ {f}
  BY DEF Give
<1>2. f \in Fd /\ owner[f] = OTHERS
  BY DEF TypeOK, DescriptorsAreOwned
<1>3. Cardinality(held') = Cardinality(held) - 1 /\ Cardinality(held) \in Nat
  BY <1>1, HeldFinite, FS_RemoveElement, FS_CardinalityType DEF TypeOK
<1>4. TypeOK'
  BY <1>1, <1>2, <1>3 DEF TypeOK, Give, clients, loop
<1>5. Queue'
  BY DEF Queue, Give, clients
<1>6. DescriptorsAreOwned'
  BY <1>1, <1>2, Marks DEF DescriptorsAreOwned, TypeOK, Give, clients, loop
<1>7. EventsAreCurrent'
  BY <1>1, <1>2, Marks DEF EventsAreCurrent, TypeOK, Give, Readable, clients, loop
<1>8. Batch' /\ SlowClientsAreKept'
  BY <1>1, <1>2, Marks DEF Batch, SlowClientsAreKept, TypeOK, Give, Readable, clients, loop
<1> QED
  BY <1>4, <1>5, <1>6, <1>7, <1>8

LEMMA WaitStep == ASSUME IInv, Wait PROVE IInv'
<1> USE DEF IInv
<1>1. /\ events' \in Seq(Fd \cup {LISTENER})
      /\ \A i \in DOMAIN events' : events'[i] \in Ready
      /\ \A i, j \in DOMAIN events' : events'[i] = events'[j] => i = j
  BY BatchOfReady DEF Wait
<1>2. \A f \in Ready : f \in Fd => owner[f] \in Client /\ Readable(owner[f])
  BY Marks DEF Ready
<1>3. at = "wait" /\ at' = "dispatch"
  BY DEF Wait
<1>4. TypeOK'
  BY <1>1, <1>3 DEF TypeOK, Wait, clients
<1>5. Queue' /\ SlowClientsAreKept' /\ DescriptorsAreOwned'
  BY <1>3 DEF Queue, SlowClientsAreKept, DescriptorsAreOwned, Wait, clients, Readable
<1>6. \A f \in Fd : owner[f] \in Client => conn[owner[f]] = "open"
  BY <1>3 DEF DescriptorsAreOwned
<1>7. EventsAreCurrent'
  BY <1>1, <1>2, <1>3, <1>6 DEF EventsAreCurrent, Wait, clients, Readable
<1>8. Batch'
  BY <1>1, <1>3 DEF Batch
<1> QED
  BY <1>4, <1>5, <1>7, <1>8

LEMMA DispatchStep == ASSUME IInv, Dispatch PROVE IInv'
<1> USE DEF IInv
<1>1. at = "dispatch" /\ at' \in {"wait", "accept", "serve"}
  BY DEF Dispatch
<1>2. Queue' /\ SlowClientsAreKept' /\ DescriptorsAreOwned'
  BY <1>1 DEF Queue, SlowClientsAreKept, DescriptorsAreOwned, Dispatch, clients, Readable
<1>3. CASE events = <<>>
  <2>1. at' = "wait" /\ UNCHANGED <<events, client_fd>>
    BY <1>3 DEF Dispatch
  <2>2. TypeOK'
    BY <2>1 DEF TypeOK, Dispatch, clients
  <2>3. EventsAreCurrent' /\ Batch'
    BY <1>3, <2>1 DEF EventsAreCurrent, Batch
  <2> QED
    BY <1>2, <2>2, <2>3
<1>4. CASE events # <<>>
  <2>0. events' = Tail(events) /\ events \in Seq(Fd \cup {LISTENER})
    BY <1>4 DEF TypeOK, Dispatch
  <2>1. /\ events' \in Seq(Fd \cup {LISTENER}) /\ Head(events) \in Fd \cup {LISTENER}
        /\ 1 \in DOMAIN events /\ Head(events) = events[1]
        /\ \A i \in DOMAIN events' : i + 1 \in DOMAIN events /\ events'[i] = events[i + 1]
    BY <1>4, <2>0, TailElements
  <2>2. DOMAIN events' \subseteq Nat \ {0}
    BY <2>1
  <2>3. /\ \A i, j \in DOMAIN events' : events'[i] = events'[j] => i = j
        /\ \A i \in DOMAIN events' : events'[i] # Head(events)
    BY <2>1, <2>2 DEF Batch
  <2>4. CASE Head(events) = LISTENER
    <3>1. at' = "accept" /\ client_fd' = client_fd
      BY <1>4, <2>4 DEF Dispatch
    <3>2. TypeOK'
      BY <2>1, <3>1 DEF TypeOK, Dispatch, clients
    <3>3. EventsAreCurrent' /\ Batch'
      BY <1>1, <2>1, <2>3, <3>1 DEF EventsAreCurrent, Batch, Dispatch, clients, Readable
    <3> QED
      BY <1>2, <3>2, <3>3
  <2>5. CASE Head(events) # LISTENER
    <3>1. at' = "serve" /\ client_fd' = Head(events) /\ Head(events) \in Fd
      BY <1>4, <2>1, <2>5 DEF Dispatch
    <3>2. TypeOK'
      BY <2>1, <3>1 DEF TypeOK, Dispatch, clients
    <3>3. EventsAreCurrent' /\ Batch'
      BY <1>1, <2>1, <2>3, <3>1 DEF EventsAreCurrent, Batch, Dispatch, clients, Readable
    <3> QED
      BY <1>2, <3>2, <3>3
  <2> QED
    BY <2>4, <2>5
<1> QED
  BY <1>3, <1>4

LEMMA AcceptStep == ASSUME IInv, Accept PROVE IInv'
<1> USE DEF IInv
<1>1. PICK f \in Free : Open(f)
  BY DEF Accept, Lowest
<1>2. f \in Fd /\ owner[f] = NULL /\ backlog # <<>> /\ at = "accept"
  BY DEF Free, Accept, CanAccept
<1> DEFINE c == Head(backlog)
<1>3. /\ backlog' \in Seq(Client) /\ c \in Client
      /\ 1 \in DOMAIN backlog /\ c = backlog[1]
      /\ \A i \in DOMAIN backlog' : i + 1 \in DOMAIN backlog /\ backlog'[i] = backlog[i + 1]
  BY <1>1, <1>2, TailElements DEF TypeOK, Open
<1>4. DOMAIN backlog' \subseteq Nat \ {0}
  BY <1>3
<1>5. conn[c] = "queued" /\ \A i \in DOMAIN backlog' : backlog'[i] # c
  BY <1>3, <1>4 DEF Queue
<1>6. \A g \in Fd : owner[g] # c
  BY <1>2, <1>3, <1>5 DEF DescriptorsAreOwned
<1>7. conn' = [conn EXCEPT ![c] = "open"] /\ owner' = [owner EXCEPT ![f] = c]
  BY <1>1 DEF Open
<1> HIDE DEF c
<1>8. TypeOK'
  BY <1>2, <1>3, <1>7 DEF TypeOK, Accept, loop
<1>9. Queue'
  <2>1. \A i \in DOMAIN backlog' : conn'[backlog'[i]] = "queued"
    BY <1>3, <1>5, <1>7 DEF TypeOK, Queue
  <2>2. \A i, j \in DOMAIN backlog' : backlog'[i] = backlog'[j] => i = j
    BY <1>3, <1>4 DEF Queue
  <2>3. \A d \in Client : line'[d] = "none" <=> conn'[d] = "none"
    BY <1>3, <1>5, <1>7 DEF TypeOK, Queue, Accept
  <2> QED
    BY <2>1, <2>2, <2>3 DEF Queue
<1>10. DescriptorsAreOwned'
  BY <1>2, <1>3, <1>5, <1>6, <1>7, Marks DEF DescriptorsAreOwned, TypeOK, Accept, loop
<1>11. EventsAreCurrent'
  BY <1>2, <1>3, <1>5, <1>6, <1>7, Marks
  DEF EventsAreCurrent, TypeOK, Accept, loop, Readable
<1>12. Batch' /\ SlowClientsAreKept'
  BY <1>2, <1>3, <1>5, <1>7, Marks
  DEF Batch, SlowClientsAreKept, TypeOK, Accept, loop, Readable
<1> QED
  BY <1>8, <1>9, <1>10, <1>11, <1>12

LEMMA StopAcceptingStep == ASSUME IInv, StopAccepting PROVE IInv'
<1> USE DEF IInv
<1>1. TypeOK'
  <2>1. errors' \in 0 .. MaxErrors
    BY DEF TypeOK, StopAccepting
  <2> QED
    BY <2>1 DEF TypeOK, StopAccepting, clients
<1>2. Queue' /\ DescriptorsAreOwned' /\ SlowClientsAreKept'
  BY DEF Queue, DescriptorsAreOwned, SlowClientsAreKept, StopAccepting, clients, Readable
<1>3. EventsAreCurrent' /\ Batch'
  BY DEF EventsAreCurrent, Batch, StopAccepting, clients, Readable
<1> QED
  BY <1>1, <1>2, <1>3

LEMMA ServeStep == ASSUME IInv, Serve PROVE IInv'
<1> USE DEF IInv
<1> DEFINE c == owner[client_fd]
<1>1. /\ at = "serve" /\ at' = "close"
      /\ client_fd \in Fd /\ c \in Client /\ conn[c] = "open" /\ Readable(c)
  BY DEF Serve, Batch
<1>2. PICK how \in {"answered", "dropped"} : conn' = [conn EXCEPT ![c] = how]
  BY DEF Serve
<1>3. UNCHANGED <<line, backlog, edge, owner, held, errors, events, client_fd>>
  BY DEF Serve
<1>4. TypeOK'
  BY <1>1, <1>2, <1>3 DEF TypeOK
<1>5. Queue'
  BY <1>1, <1>2, <1>3 DEF Queue, TypeOK
<1>6. DescriptorsAreOwned'
  BY <1>1, <1>2, <1>3 DEF DescriptorsAreOwned, TypeOK
<1>7. EventsAreCurrent'
  BY <1>1, <1>2, <1>3 DEF EventsAreCurrent, DescriptorsAreOwned, TypeOK, Readable
<1>8. Batch' /\ SlowClientsAreKept'
  BY <1>1, <1>2, <1>3 DEF Batch, SlowClientsAreKept, TypeOK, Readable
<1> QED
  BY <1>4, <1>5, <1>6, <1>7, <1>8

LEMMA CloseStep == ASSUME IInv, Close PROVE IInv'
<1> USE DEF IInv
<1>1. /\ at = "close" /\ at' = "dispatch" /\ client_fd' = 0
      /\ client_fd \in Fd /\ owner[client_fd] \in Client
      /\ conn[owner[client_fd]] \in {"answered", "dropped"}
      /\ owner' = [owner EXCEPT ![client_fd] = NULL]
  BY DEF Close, Batch
<1>2. UNCHANGED <<line, conn, backlog, edge, held, errors, events>>
  BY DEF Close, clients
<1>3. TypeOK'
  BY <1>1, <1>2 DEF TypeOK
<1>4. Queue' /\ SlowClientsAreKept'
  BY <1>2 DEF Queue, SlowClientsAreKept, Readable
<1>5. DescriptorsAreOwned'
  BY <1>1, <1>2, Marks DEF DescriptorsAreOwned, TypeOK
<1>6. EventsAreCurrent'
  BY <1>1, <1>2, Marks DEF EventsAreCurrent, TypeOK, Readable
<1>7. Batch'
  BY <1>1, <1>2 DEF Batch
<1> QED
  BY <1>3, <1>4, <1>5, <1>6, <1>7

LEMMA StutterStep == ASSUME IInv, UNCHANGED vars PROVE IInv'
  BY DEF IInv, vars, clients, loop, TypeOK, Queue, DescriptorsAreOwned,
         EventsAreCurrent, Batch, SlowClientsAreKept, Readable

-----------------------------------------------------------------------------
(* The accept loop keeps its descriptors, its queue and its batch of events *)
(* consistent in every reachable state (handle_connections()).              *)
THEOREM Inductive == Safety => []IInv
<1>1. Init => IInv
  BY InitHolds
<1>2. IInv /\ [Next]_vars => IInv'
  BY ConnectStep, SpeakStep, TakeStep, GiveStep, WaitStep, DispatchStep, AcceptStep,
     StopAcceptingStep, ServeStep, CloseStep, StutterStep
  DEF Next, HandleConnections
<1> QED
  BY <1>1, <1>2, PTL DEF Safety

(* The variables of handle_connections() keep their types.                  *)
THEOREM TypeCorrect == Safety => []TypeOK
  BY Inductive, PTL DEF IInv

(* An event of the batch is about the connection it was reported for, however *)
(* many descriptors are closed, taken and accepted again meanwhile.         *)
THEOREM EventsCurrent == Safety => []EventsAreCurrent
  BY Inductive, PTL DEF IInv

(* No client is cut off before it sent a request or hung up (engine.c:136). *)
THEOREM SlowClientsKept == Safety => []SlowClientsAreKept
  BY Inductive, PTL DEF IInv

(* Each descriptor has one owner and is closed once (engine.c:138).         *)
THEOREM DescriptorsOwned == Safety => []DescriptorsAreOwned
  BY Inductive, PTL DEF IInv

-----------------------------------------------------------------------------
(* The way of a connection.                                                 *)

\* Where a connection may be after a step.
NextStages(stage) ==
  CASE stage = "none"   -> {"none", "queued"}
    [] stage = "queued" -> {"queued", "open"}
    [] stage = "open"   -> {"open", "answered", "dropped"}
    [] OTHER            -> {stage}

OneWay == \A c \in Client : conn'[c] \in NextStages(conn[c])

LEMMA OneWayStep == IInv /\ [Next]_vars => OneWay
<1> SUFFICES ASSUME IInv, [Next]_vars, NEW c \in Client
             PROVE  conn'[c] \in NextStages(conn[c])
  BY DEF OneWay
<1>1. conn \in [Client -> {"none", "queued", "open", "answered", "dropped"}]
  BY DEF IInv, TypeOK
<1>2. ASSUME conn'[c] = conn[c] PROVE conn'[c] \in NextStages(conn[c])
  BY <1>1, <1>2 DEF NextStages
<1>3. ASSUME NEW d \in Client, Connect(d) PROVE conn'[c] \in NextStages(conn[c])
  <2>1. conn[d] = "none"
    BY <1>3 DEF Connect, IInv, Queue
  <2>2. conn' = [conn EXCEPT ![d] = "queued"]
    BY <1>3 DEF Connect
  <2> QED
    BY <1>1, <1>2, <2>1, <2>2 DEF NextStages
<1>4. CASE Accept
  <2>1. PICK f \in Fd : Open(f)
    BY <1>4 DEF Accept, Lowest, Free
  <2>2. Head(backlog) \in Client /\ conn[Head(backlog)] = "queued"
    BY <1>4, TailElements DEF Accept, CanAccept, IInv, TypeOK, Queue
  <2>3. conn' = [conn EXCEPT ![Head(backlog)] = "open"]
    BY <2>1 DEF Open
  <2> QED
    BY <1>1, <1>2, <2>2, <2>3 DEF NextStages
<1>5. CASE Serve
  <2>1. PICK how \in {"answered", "dropped"} : conn' = [conn EXCEPT ![owner[client_fd]] = how]
    BY <1>5 DEF Serve
  <2>2. owner[client_fd] \in Client /\ conn[owner[client_fd]] = "open"
    BY <1>5 DEF Serve, IInv, Batch
  <2> QED
    BY <1>1, <1>2, <2>1, <2>2 DEF NextStages
<1>6. CASE \/ \E d \in Client : Speak(d)
           \/ Take \/ Give \/ Wait \/ Dispatch \/ StopAccepting \/ Close \/ UNCHANGED vars
  <2>1. conn' = conn
    BY <1>6 DEF Speak, Take, Give, Wait, Dispatch, StopAccepting, Close, vars, clients
  <2> QED
    BY <1>2, <2>1
<1> QED
  BY <1>3, <1>4, <1>5, <1>6 DEF Next, HandleConnections

(* Each connection is accepted at most once and served at most once, however *)
(* events and descriptors repeat (handle_connections(), handle_request()).   *)
THEOREM ConnectionsAdvance == Safety => [][OneWay]_vars
  BY Inductive, OneWayStep, PTL DEF Safety
=============================================================================
