----------------------------- MODULE ConfigFile -----------------------------
(***************************************************************************)
(* prescal/src/configuration.c, read_config(), building the linked list of  *)
(* ds/linkedlist.c from a file that the scaler rewrites in place.           *)
(*                                                                          *)
(* The file is what yaml.dump() makes of the configuration: the keys in     *)
(* alphabetical order, one item per backend.  Its text is left out, but not *)
(* how long it is: stdio reads it in blocks, until read() returns nothing,  *)
(* and a file that has grown meanwhile gives it the end of another version, *)
(* which may begin in the middle of a line.  A file that yaml.dump() was    *)
(* interrupted in (Abort of module Scaler) is left out here.                *)
(***************************************************************************)
EXTENDS Integers, Sequences, FiniteSets

CONSTANTS
  Host,       (* "localhost:<port>" of the backends                        *)
  Lists,      (* values of "forwards:" the scaler may write                *)
  Node,       (* addresses malloc() may return for a list node; a list that *)
              (* was replaced is never freed: its addresses may be reused  *)
              (* here, since nothing refers to them any more               *)
  NULL,
  MaxWrites   (* bound: how many times the file is rewritten               *)

ASSUME ConfigFileAssumption ==
  /\ Lists \subseteq Seq(Host)
  /\ NULL \notin Node \cup Host \cup Lists
  /\ MaxWrites \in Nat

VARIABLES
  file,       (* the list in config.yml; NULL while it is truncated        *)
  writes,     (* rewrites begun so far                                     *)
  pc,         (* "off", "fill", "parse" or "idle"                          *)
  offset,     (* bytes read from the file                                  *)
  buffer,     (* lines of the block that was read, still to be parsed      *)
  parsing_forwards,
  port,       (* config->port: "garbage", as malloc() left it, or "read"   *)
  listening,  (* the port init_listener() was given: "none" before start() *)
  heap,       (* the list nodes                                            *)
  forwards,   (* config->forwards                                          *)
  backends,   (* engine->backends                                          *)
  seen        (* history: the lists the file held during the last read     *)

scaler == <<file, writes>>
reader == <<pc, offset, buffer, parsing_forwards>>
vars == <<scaler, reader, port, listening, heap, forwards, backends, seen>>

-----------------------------------------------------------------------------
(* The text of the file.                                                    *)
Line(key) == [key |-> key, value |-> NULL]
Item(h) == [key |-> "-", value |-> h]

\* "entry: localhost:90", "forwards:" or "forwards: []", "- localhost:3000",
\* "port: 8080".  A line cut off at its front matches no key and no item.
Lines(list) ==
  [i \in 1 .. Len(list) + 3 |->
     CASE i = 1 -> Line("entry")
       [] i = 2 -> Line("forwards")
       [] i = Len(list) + 3 -> Line("port")
       [] OTHER -> Item(list[i - 2])]
Fragment == Line("")

\* Where the i-th line begins: the lines take 20, 10 or 13, 17 and 11 bytes.
Start(list, i) ==
  IF i <= 2 THEN 20 * (i - 1) ELSE (IF list = <<>> THEN 33 ELSE 30) + 17 * (i - 3)
Size(f) == IF f = NULL THEN 0 ELSE Start(f, Len(f) + 3) + 11

\* What read() returns from an offset on: the lines that begin there or later,
\* and the rest of the line the offset lies in.  A block holds all of it.
LinesFrom(f, at) ==
  IF Size(f) <= at THEN {<<>>}
  ELSE {(IF Start(f, k) = at THEN <<>> ELSE <<Fragment>>) \o SubSeq(Lines(f), k, Len(f) + 3) :
          k \in {i \in 1 .. Len(f) + 4 : /\ at <= Start(f, i)
                                         /\ i = 1 \/ Start(f, i - 1) < at}}

\* The list a reader should find in the file.
Listed(f) == IF f = NULL THEN <<>> ELSE f

-----------------------------------------------------------------------------
(* The linked list.                                                         *)
Nodes == Node \cup {NULL}

\* linkedlist_init().  "nodes" is history: what was appended.
EmptyList == [first |-> NULL, last |-> NULL, size |-> 0, nodes |-> {}]

\* Mutant of append_node: ll->last->next = n is missing.
AppendUnlinked(value) ==
  \E n \in Node \ (forwards.nodes \cup backends.nodes) :
    /\ heap' = [heap EXCEPT ![n] = [prev |-> forwards.last, value |-> value, next |-> NULL]]
    /\ forwards' = [first |-> IF forwards.first = NULL THEN n ELSE forwards.first,
                    last |-> n, size |-> forwards.size + 1,
                    nodes |-> forwards.nodes \cup {n}]

\* append_node(config->forwards, value) with the node new_node() allocates.
append_node(value) ==
  \E n \in Node \ (forwards.nodes \cup backends.nodes) :
    LET new == [prev |-> forwards.last, value |-> value, next |-> NULL]
    IN /\ heap' = [x \in Node |->
                     IF x = n THEN new
                     ELSE IF x = forwards.last THEN [heap[x] EXCEPT !.next = n] ELSE heap[x]]
       /\ forwards' = [first |-> IF forwards.first = NULL THEN n ELSE forwards.first,
                       last |-> n, size |-> forwards.size + 1,
                       nodes |-> forwards.nodes \cup {n}]

\* get_node_at(): the walk stops at NULL.
get_node_at(ll, index) ==
  LET current[i \in 0 .. index] ==
        IF i = 0 THEN ll.first
        ELSE IF current[i - 1] = NULL THEN NULL ELSE heap[current[i - 1]].next
  IN IF index \in 0 .. (ll.size - 1) THEN current[index] ELSE NULL

-----------------------------------------------------------------------------
NoReader == /\ offset = 0 /\ buffer = <<>> /\ parsing_forwards = FALSE
NoHeap == [n \in Node |-> [prev |-> NULL, value |-> NULL, next |-> NULL]]

Init ==
  /\ file \in Lists /\ writes = 0
  /\ pc = "off" /\ NoReader
  /\ port = "garbage" /\ listening = "none"
  /\ heap = NoHeap /\ forwards = EmptyList /\ backends = EmptyList /\ seen = {<<>>}

(* The scaler: open(path, 'w') truncates, yaml.dump() writes all at once.   *)
Write(f) ==
  /\ file' = f
  /\ seen' = IF pc \in {"fill", "parse"} THEN seen \cup {Listed(f)} ELSE seen
  /\ UNCHANGED <<reader, port, listening, heap, forwards, backends>>

Truncate ==
  /\ file # NULL
  /\ writes < MaxWrites
  /\ writes' = writes + 1
  /\ Write(NULL)

Dump ==
  /\ file = NULL
  /\ \E list \in Lists : Write(list)
  /\ UNCHANGED writes

-----------------------------------------------------------------------------
(* prescal.                                                                 *)
\* Mutant of OpenFile: the items are appended to the list in use.
OpenKeepsList ==
  /\ pc' = "fill"
  /\ offset' = 0 /\ buffer' = <<>> /\ parsing_forwards' = FALSE
  /\ seen' = {Listed(file)}
  /\ UNCHANGED forwards

\* The start of read_config(): the file is opened, the list is a new one.
OpenFile ==
  /\ pc' = "fill"
  /\ offset' = 0 /\ buffer' = <<>> /\ parsing_forwards' = FALSE
  /\ seen' = {Listed(file)}
  /\ forwards' = EmptyList

\* main(): config_init() and the start of read_config().
Boot ==
  /\ pc = "off"
  /\ OpenFile
  /\ UNCHANGED <<scaler, port, listening, heap, backends>>

\* reload_config(): a new list, and the start of read_config().
Reload ==
  /\ pc = "idle"
  /\ OpenFile
  /\ UNCHANGED <<scaler, port, listening, heap, backends>>

\* fgets() has used up its block and reads the next one.
Fill ==
  /\ pc = "fill"
  /\ offset < Size(file)
  /\ buffer' \in LinesFrom(file, offset)
  /\ offset' = Size(file)
  /\ pc' = "parse"
  /\ UNCHANGED <<scaler, parsing_forwards, port, listening, heap, forwards, backends, seen>>

\* Mutant of Parse: "port:" does not end the list of forwards.
ParsePortKeeps ==
  /\ pc = "parse"
  /\ LET line == Head(buffer) IN
       /\ IF line.key = "-" /\ parsing_forwards
            THEN append_node(line.value)
            ELSE UNCHANGED <<heap, forwards>>
       /\ port' = IF line.key = "port" THEN "read" ELSE port
       /\ parsing_forwards' = CASE line.key = "forwards" -> TRUE
                                [] line.key = "entry" -> FALSE
                                [] OTHER -> parsing_forwards
  /\ buffer' = Tail(buffer)
  /\ pc' = IF Len(buffer) = 1 THEN "fill" ELSE "parse"
  /\ UNCHANGED <<scaler, offset, listening, backends, seen>>

\* Mutant of Parse: the loop ends with the list of forwards.
ParseStops ==
  /\ pc = "parse"
  /\ LET line == Head(buffer) IN
       /\ IF line.key = "-" /\ parsing_forwards
            THEN append_node(line.value)
            ELSE UNCHANGED <<heap, forwards>>
       /\ buffer' = IF parsing_forwards /\ line.key # "-" THEN <<>> ELSE Tail(buffer)
       /\ parsing_forwards' = (line.key = "forwards" \/ (line.key = "-" /\ parsing_forwards))
  /\ pc' = IF buffer' = <<>> THEN "fill" ELSE "parse"
  /\ UNCHANGED <<scaler, offset, port, listening, backends, seen>>

\* One line: an item of the list, or a key.
Parse ==
  /\ pc = "parse"
  /\ LET line == Head(buffer) IN
       /\ IF line.key = "-" /\ parsing_forwards
            THEN append_node(line.value)
            ELSE UNCHANGED <<heap, forwards>>
       /\ port' = IF line.key = "port" THEN "read" ELSE port
       /\ parsing_forwards' = CASE line.key = "forwards" -> TRUE
                                [] line.key \in {"entry", "port"} -> FALSE
                                [] OTHER -> parsing_forwards
  /\ buffer' = Tail(buffer)
  /\ pc' = IF Len(buffer) = 1 THEN "fill" ELSE "parse"
  /\ UNCHANGED <<scaler, offset, listening, backends, seen>>

\* End of file.  The list is adopted; the first time, start() goes on to listen.
Finish ==
  /\ pc = "fill"
  /\ Size(file) <= offset
  /\ pc' = "idle"
  /\ backends' = forwards
  /\ listening' = IF listening = "none" THEN port ELSE listening
  /\ UNCHANGED <<scaler, offset, buffer, parsing_forwards, port, heap, forwards, seen>>

\* The process dies; systemd starts it again (run.sh).
Die ==
  /\ pc # "off"
  /\ pc' = "off" /\ offset' = 0 /\ buffer' = <<>> /\ parsing_forwards' = FALSE
  /\ port' = "garbage" /\ listening' = "none"
  /\ heap' = NoHeap /\ forwards' = EmptyList /\ backends' = EmptyList /\ seen' = {<<>>}
  /\ UNCHANGED scaler

Next == Truncate \/ Dump \/ Boot \/ Reload \/ Fill \/ Parse \/ Finish \/ Die

Spec == Init /\ [][Next]_vars

-----------------------------------------------------------------------------
(* Properties.                                                              *)
List == [first : Nodes, last : Nodes, size : Nat, nodes : SUBSET Node]
Text == [key : {"entry", "forwards", "-", "port", ""}, value : Host \cup {NULL}]

\* The types of the reader's and the list's variables.
TypeOK ==
  /\ file \in Lists \cup {NULL} /\ writes \in 0 .. MaxWrites
  /\ pc \in {"off", "fill", "parse", "idle"}
  /\ offset \in Nat /\ buffer \in Seq(Text) /\ parsing_forwards \in BOOLEAN
  /\ port \in {"garbage", "read"} /\ listening \in {"none", "garbage", "read"}
  /\ heap \in [Node -> [prev : Nodes, value : Host \cup {NULL}, next : Nodes]]
  /\ forwards \in List /\ backends \in List
  /\ seen \subseteq Lists \cup {<<>>}

\* The nodes s make up the list: forwards by next, backwards by prev.
IsChain(ll, s) ==
  /\ ll.size = 0 => ll.first = NULL /\ ll.last = NULL
  /\ ll.size > 0 => /\ ll.first = s[1] /\ heap[s[1]].prev = NULL
                    /\ ll.last = s[ll.size] /\ heap[s[ll.size]].next = NULL
  /\ \A i \in 1 .. ll.size : s[i] \in ll.nodes
  /\ \A i, j \in 1 .. ll.size :
       j = i + 1 => heap[s[i]].next = s[j] /\ heap[s[j]].prev = s[i]

\* The list is the given sequence of values.
Holds(ll, values) ==
  /\ ll.size = Len(values)
  /\ \E s \in [1 .. ll.size -> Node] :
       IsChain(ll, s) /\ \A i \in 1 .. ll.size : heap[s[i]].value = values[i]

\* The list that requests and start_metric_threads() walk over is one that the
\* file held, as a whole, while it was read ("Give it a small delay to ensure
\* file write is complete", engine.c:492, ensures nothing): no backend of one
\* version among those of another, although the read is not atomic.
ReadsOneVersion == pc = "idle" => \E list \in seen : Holds(backends, list)

\* "Should not happen if size is correct" (linkedlist.c:73): get_node_at() finds
\* a node for every index below the size, a different one for each, and only
\* nodes of this list, also while the next list is being built.
EveryIndexHasItsNode ==
  \A i, j \in 0 .. (backends.size - 1) :
    /\ get_node_at(backends, i) \in backends.nodes
    /\ get_node_at(backends, i) = get_node_at(backends, j) => i = j

\* What a list stands for, as start_metric_threads() and requests walk over it.
Values(ll) == [i \in 1 .. ll.size |-> heap[get_node_at(ll, i - 1)].value]

\* The items that Parse will still append: those between "forwards:", unless that
\* line is past, and "port:", the last line of a block.
Coming ==
  LET Keys == {i \in DOMAIN buffer : buffer[i].key = "forwards"}
      key == IF parsing_forwards THEN 0 ELSE CHOOSE i \in Keys : TRUE
  IN IF parsing_forwards \/ Keys # {}
       THEN [i \in 1 .. Len(buffer) - key - 1 |-> buffer[key + i].value]
       ELSE <<>>

\* The list that was read last: from its first block on, the one being read.
Pool ==
  IF pc \in {"fill", "parse"} /\ offset # 0
    THEN Values(forwards) \o Coming
    ELSE Values(backends)

A == INSTANCE AtomicRead WITH Lists <- Lists \cup {<<>>}, published <- Listed(file), pool <- Pool

\* Although the file is rewritten between two blocks and two lines, a read has
\* the effect of one that happens at an instant (that of its first block): the
\* list in use is always the one the file held at some moment of the last read,
\* in full, and a later read never goes back to an older version.  Engine and
\* System rely on it: their ReadConfig and Reload are single steps.
ReadsAtomically == A!Spec

\* start() listens on a port that is not the file's (config->port is read by
\* nobody else, and set by read_config() only) in one case: the file was truncated
\* when read_config() came to its end, so that there is no backend, either.  A
\* file that is rewritten in the middle of the read does not lead to it.
ListensElsewhereOnlyIfTruncated ==
  [][listening = "none" /\ listening' = "garbage" => file = NULL /\ backends'.size = 0]_vars
=============================================================================
