----------------------------- MODULE AcceptLoop -----------------------------
(***************************************************************************)
(* prescal/src/engine.c, handle_connections(), with the epoll instance that *)
(* create_epoll() sets up: one thread accepts every connection, waits for   *)
(* its request and serves it.                                               *)
(*                                                                          *)
(* The listener is registered edge-triggered (epoll.c:13): it is reported   *)
(* once after a connection arrived, not as long as one waits.  Connections  *)
(* are registered level-triggered.  Descriptors are shared with the other   *)
(* threads of the process, whose sockets come and go at any moment, and the *)
(* kernel hands out the lowest one that is free.                            *)
(***************************************************************************)
EXTENDS Integers, Sequences, FiniteSets

CONSTANTS
  Client,     (* connections made to the proxy, one per client             *)
  Fds,        (* how many descriptors RLIMIT_NOFILE leaves to all of them  *)
  MaxHeld,    (* how many the other threads hold at most                   *)
  MaxEvents,  (* EPOLL_MAX_EVENTS                                          *)
  MaxErrors,  (* bound: how often accept() fails for a passing reason      *)
  NULL, LISTENER, OTHERS

ASSUME AcceptLoopAssumption ==
  /\ IsFiniteSet(Client)
  /\ Fds \in Nat /\ MaxHeld \in Nat /\ MaxEvents \in Nat \ {0} /\ MaxErrors \in Nat
  /\ {NULL, OTHERS} \cap Client = {} /\ NULL # OTHERS
  /\ LISTENER \notin 1 .. Fds

Fd == 1 .. Fds

VARIABLES
  line,       (* the client's side: "none", "silent", "sent" or "gone"     *)
  conn,       (* the proxy's side: "none", "queued", "open", and how it    *)
              (* was closed, "answered" or "dropped"                       *)
  backlog,    (* the listener's queue of connections to accept             *)
  edge,       (* the listener is on epoll's list of ready descriptors      *)
  owner,      (* who each descriptor belongs to, in the kernel             *)
  held,       (* descriptors the other threads believe are theirs          *)
  errors,     (* how often accept() has failed for a passing reason        *)
  events,     (* the part of events[] still to be handled                  *)
  at,         (* where handle_connections() is                             *)
  client_fd   (* its local variable                                        *)

clients == <<line, conn, backlog>>
loop == <<events, at, client_fd>>
vars == <<clients, edge, owner, held, errors, loop>>

Init ==
  /\ line = [c \in Client |-> "none"] /\ conn = [c \in Client |-> "none"]
  /\ backlog = <<>> /\ edge = FALSE
  /\ owner = [f \in Fd |-> NULL] /\ held = {} /\ errors = 0
  /\ events = <<>> /\ at = "wait" /\ client_fd = 0

-----------------------------------------------------------------------------
(* Clients and the other threads.                                           *)
Connect(c) ==
  /\ line[c] = "none"
  /\ line' = [line EXCEPT ![c] = "silent"]
  /\ conn' = [conn EXCEPT ![c] = "queued"]
  /\ backlog' = Append(backlog, c)
  /\ edge' = TRUE
  /\ UNCHANGED <<owner, held, errors, loop>>

\* The request arrives, or the client hangs up without one.
Speak(c) ==
  /\ line[c] = "silent"
  /\ \E what \in {"sent", "gone"} : line' = [line EXCEPT ![c] = what]
  /\ UNCHANGED <<conn, backlog, edge, owner, held, errors, loop>>

Free == {f \in Fd : owner[f] = NULL}
Lowest(S) == {f \in S : \A g \in S : f <= g}

\* socket() in request_metrics() or tsdb_connect(), and the close() after it.
Take ==
  /\ Cardinality(held) < MaxHeld
  /\ \E f \in Lowest(Free) : /\ owner' = [owner EXCEPT ![f] = OTHERS]
                             /\ held' = held \cup {f}
  /\ UNCHANGED <<clients, edge, errors, loop>>

Give ==
  /\ \E f \in held : /\ held' = held \ {f}
                     /\ owner' = [owner EXCEPT ![f] = NULL]
  /\ UNCHANGED <<clients, edge, errors, loop>>

-----------------------------------------------------------------------------
(* handle_connections().                                                    *)
Readable(c) == line[c] \in {"sent", "gone"}

\* What epoll_wait() may report: the listener once per arrival, and every
\* connection that can be read.
Ready ==
  {f \in Fd : owner[f] \in Client /\ Readable(owner[f])} \cup
  (IF edge /\ backlog # <<>> THEN {LISTENER} ELSE {})

\* The sequences of n elements of S, each occurring once.
Orders(S, n) == {q \in [1 .. n -> S] : \A i, j \in 1 .. n : q[i] = q[j] => i = j}

\* epoll_wait() fills events[].
Wait ==
  /\ at = "wait"
  /\ Ready # {}
  /\ LET n == Cardinality(Ready) IN
       events' \in Orders(Ready, IF n < MaxEvents THEN n ELSE MaxEvents)
  /\ edge' = (edge /\ \A i \in DOMAIN events' : events'[i] # LISTENER)
  /\ at' = "dispatch"
  /\ UNCHANGED <<clients, owner, held, errors, client_fd>>

\* The next of the npfd events.
Dispatch ==
  /\ at = "dispatch"
  /\ IF events = <<>>
       THEN at' = "wait" /\ UNCHANGED <<events, client_fd>>
       ELSE /\ events' = Tail(events)
            /\ IF Head(events) = LISTENER
                 THEN at' = "accept" /\ UNCHANGED client_fd
                 ELSE at' = "serve" /\ client_fd' = Head(events)
  /\ UNCHANGED <<clients, edge, owner, held, errors>>

\* accept(): it hands out a connection and epoll_ctl() registers it, or there
\* is none (EAGAIN), or no descriptor is free (EMFILE), or the kernel is short of
\* something that has nothing to do with prescal (ENFILE, ENOBUFS, ENOMEM).
CanAccept == backlog # <<>> /\ Free # {}

Open(f) ==
  /\ conn' = [conn EXCEPT ![Head(backlog)] = "open"]
  /\ backlog' = Tail(backlog)
  /\ owner' = [owner EXCEPT ![f] = Head(backlog)]

\* Mutant of Accept: one accept() per event, as if the listener were
\* level-triggered.
AcceptOne ==
  /\ at = "accept" /\ CanAccept
  /\ \E f \in Lowest(Free) : Open(f)
  /\ at' = "dispatch"
  /\ UNCHANGED <<line, edge, held, errors, events, client_fd>>

\* Mutant of Accept: the new connection is served at once.
AcceptAndServe ==
  /\ at = "accept" /\ CanAccept
  /\ \E f \in Lowest(Free) : Open(f) /\ client_fd' = f
  /\ at' = "serve"
  /\ UNCHANGED <<line, edge, held, errors, events>>

Accept ==
  /\ at = "accept" /\ CanAccept
  /\ \E f \in Lowest(Free) : Open(f)
  /\ UNCHANGED <<line, edge, held, errors, loop>>

\* Mutant of StopAccepting: accept() is called again until it has a descriptor.
AcceptAgain ==
  /\ at = "accept" /\ ~CanAccept
  /\ at' = IF backlog = <<>> THEN "dispatch" ELSE "accept"
  /\ UNCHANGED <<clients, edge, owner, held, errors, events, client_fd>>

\* Mutant of StopAccepting: without a free descriptor, an old connection is
\* closed to make room.
EvictOne ==
  /\ at = "accept" /\ ~CanAccept
  /\ at' = "dispatch"
  /\ \E f \in Fd :
       /\ owner[f] \in Client
       /\ owner' = [owner EXCEPT ![f] = NULL]
       /\ conn' = [conn EXCEPT ![owner[f]] = "dropped"]
  /\ UNCHANGED <<line, backlog, edge, held, errors, events, client_fd>>

\* Any error ends the loop, and leaves what is queued in the queue.
StopAccepting ==
  /\ at = "accept"
  /\ IF CanAccept THEN errors < MaxErrors /\ errors' = errors + 1 ELSE UNCHANGED errors
  /\ at' = "dispatch"
  /\ UNCHANGED <<clients, edge, owner, held, events, client_fd>>

\* Mutant of Serve: handle_request() closes the connection it cannot read,
\* and so does handle_connections() afterwards.
ServeAndClose ==
  /\ at = "serve"
  /\ LET c == owner[client_fd] IN
       IF line[c] = "gone"
         THEN /\ conn' = [conn EXCEPT ![c] = "dropped"]
              /\ owner' = [owner EXCEPT ![client_fd] = NULL]
         ELSE conn' = [conn EXCEPT ![c] = "answered"] /\ UNCHANGED owner
  /\ at' = "close"
  /\ UNCHANGED <<line, backlog, edge, held, errors, events, client_fd>>

\* process_request(): recv() does not block and an answer follows a request,
\* unless no backend is configured; nothing to read, no answer.
Serve ==
  /\ at = "serve"
  /\ \E how \in {"answered", "dropped"} :
       /\ line[owner[client_fd]] # "sent" => how = "dropped"
       /\ conn' = [conn EXCEPT ![owner[client_fd]] = how]
  /\ at' = "close"
  /\ UNCHANGED <<line, backlog, edge, owner, held, errors, events, client_fd>>

\* EPOLL_CTL_DEL and close(client_fd).
Close ==
  /\ at = "close"
  /\ owner' = [owner EXCEPT ![client_fd] = NULL]
  /\ at' = "dispatch" /\ client_fd' = 0
  /\ UNCHANGED <<clients, edge, held, errors, events>>

HandleConnections == Wait \/ Dispatch \/ Accept \/ StopAccepting \/ Serve \/ Close

Next ==
  \/ \E c \in Client : Connect(c) \/ Speak(c)
  \/ Take \/ Give
  \/ HandleConnections

\* The loop's thread keeps running; the other threads close what they opened.
Safety == Init /\ [][Next]_vars
Spec == Safety /\ WF_vars(HandleConnections) /\ WF_vars(Give)

-----------------------------------------------------------------------------
(* Properties.                                                              *)

\* The types of the loop's and the kernel's variables.
TypeOK ==
  /\ line \in [Client -> {"none", "silent", "sent", "gone"}]
  /\ conn \in [Client -> {"none", "queued", "open", "answered", "dropped"}]
  /\ backlog \in Seq(Client) /\ edge \in BOOLEAN
  /\ owner \in [Fd -> Client \cup {NULL, OTHERS}]
  /\ held \subseteq Fd /\ Cardinality(held) <= MaxHeld /\ errors \in 0 .. MaxErrors
  /\ events \in Seq(Fd \cup {LISTENER})
  /\ at \in {"wait", "dispatch", "accept", "serve", "close"}
  /\ client_fd \in Fd \cup {0}

\* An event still to be handled is about the connection it was reported for,
\* although descriptors are closed, taken by other threads and accepted again
\* while the array is worked off: no client is served because of another.
EventsAreCurrent ==
  \A i \in DOMAIN events : events[i] \in Fd =>
    /\ owner[events[i]] \in Client
    /\ conn[owner[events[i]]] = "open" /\ Readable(owner[events[i]])
    /\ ~(at \in {"serve", "close"} /\ events[i] = client_fd)

\* The loop closes a connection only after the client sent a request or hung
\* up: a slow client is not cut off by the non-blocking recv() (engine.c:136).
SlowClientsAreKept ==
  \A c \in Client : conn[c] \in {"answered", "dropped"} => Readable(c)

\* "Don't close(fd) here -- caller (handle_connections) is responsible"
\* (engine.c:138): each descriptor is closed once.  A second close() would hit
\* whatever a monitor has opened in the meantime under the same number.
DescriptorsAreOwned ==
  /\ \A f \in Fd : f \in held <=> owner[f] = OTHERS
  /\ \A c \in Client : conn[c] = "open" => \E f \in Fd : owner[f] = c
  /\ \A f, g \in Fd : owner[f] = owner[g] /\ owner[f] \in Client => f = g
  /\ \A f \in Fd : owner[f] \in Client /\ conn[owner[f]] # "open" =>
       at = "close" /\ client_fd = f

\* "Accept all pending connections in this iteration" (engine.c:244): a
\* connection does not stay in the queue for ever.
BacklogDrains == \A c \in Client : conn[c] = "queued" ~> conn[c] # "queued"

\* What holds of it: the queue drains as long as accept() never fails with a
\* connection in it, for want of a descriptor or for another reason.
Admits == [](Free # {} /\ errors = 0)
BacklogDrainsWithRoom == Admits => BacklogDrains

\* A request that arrives is served: answered or, without backends, dropped;
\* every connection accepted is reported although the batch is limited.
RequestsAreServed ==
  \A c \in Client :
    line[c] = "sent" /\ conn[c] = "open" ~> conn[c] \in {"answered", "dropped"}
=============================================================================
