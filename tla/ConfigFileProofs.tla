-------------------------- MODULE ConfigFileProofs --------------------------
(***************************************************************************)
(* What read_config() reads, for every set of lists and any number of       *)
(* rewrites while it reads: one version of the file, as a well-formed list. *)
(***************************************************************************)
EXTENDS ConfigFile, FiniteSetTheorems, WellFoundedInduction, TLAPS

USE ConfigFileAssumption

(* The inductive invariant.                                                 *)
NodeRecord == [prev : Nodes, value : Host \cup {NULL}, next : Nodes]

\* The rest of a block: the lines of one version from the k-th on.
RestOf(list, k) ==
  /\ Len(buffer) = Len(list) + 4 - k
  /\ \A i \in 1 .. Len(buffer) : buffer[i] = Lines(list)[k + i - 1]

\* How many items of the list come before the k-th line.
Before(list, k) == IF k <= 3 THEN 0 ELSE IF k - 3 <= Len(list) THEN k - 3 ELSE Len(list)

\* The first block is being parsed: so far the list has the items before.
Reading(list) ==
  \E k \in 1 .. Len(list) + 3 :
    /\ RestOf(list, k)
    /\ parsing_forwards = (IF k >= 3 THEN TRUE ELSE FALSE)
    /\ Holds(forwards, SubSeq(list, 1, Before(list, k)))

\* After it: the list is complete, and what other blocks bring is ignored.
Complete(list) ==
  /\ parsing_forwards = FALSE /\ port = "read"
  /\ \A i \in 1 .. Len(buffer) : buffer[i].key # "forwards"
  /\ Holds(forwards, list)

InFirstBlock == \E list \in seen : Reading(list)
PastFirstBlock == \E list \in seen : Complete(list)

Progress ==
  /\ pc = "fill" /\ offset = 0 =>
       parsing_forwards = FALSE /\ Holds(forwards, <<>>)
  /\ pc = "fill" /\ offset # 0 => offset >= 41 /\ PastFirstBlock
  /\ pc = "parse" => offset >= 41 /\ buffer # <<>> /\ (InFirstBlock \/ PastFirstBlock)
  /\ pc \in {"fill", "parse"} => Listed(file) \in seen
  /\ pc = "idle" => \E list \in seen : Holds(backends, list)

IInv == TypeOK /\ Progress

-----------------------------------------------------------------------------
\* Every line of a version, by its place.
LEMMA LinesOf ==
  ASSUME NEW list \in Seq(Host)
  PROVE  /\ Lines(list) \in Seq(Text) /\ Len(Lines(list)) = Len(list) + 3
         /\ Lines(list)[1] = Line("entry") /\ Lines(list)[2] = Line("forwards")
         /\ \A i \in 3 .. Len(list) + 2 : Lines(list)[i] = Item(list[i - 2])
         /\ Lines(list)[Len(list) + 3] = Line("port")
<1>1. \A i \in 1 .. Len(list) : list[i] \in Host
  OBVIOUS
<1>2. \A i \in 1 .. Len(list) + 3 : Lines(list)[i] \in Text
  BY <1>1 DEF Lines, Line, Item, Text
<1>3. Len(list) + 3 \in Nat /\ Lines(list) = [i \in 1 .. Len(list) + 3 |-> Lines(list)[i]]
  BY DEF Lines
<1>4. Lines(list) \in Seq(Text) /\ Len(Lines(list)) = Len(list) + 3
  BY <1>2, <1>3
<1> QED
  BY <1>4 DEF Lines

\* A list that is extended by append_node() has one value more at its end.
LEMMA AppendExtends ==
  ASSUME heap \in [Node -> NodeRecord], forwards \in List, backends \in List,
         NEW values \in Seq(Host), Holds(forwards, values),
         NEW value \in Host, append_node(value)
  PROVE  /\ heap' \in [Node -> NodeRecord] /\ forwards' \in List
         /\ Holds(forwards, Append(values, value))'
<1>1. PICK n \in Node \ (forwards.nodes \cup backends.nodes) :
        /\ heap' = [x \in Node |->
             IF x = n THEN [prev |-> forwards.last, value |-> value, next |-> NULL]
             ELSE IF x = forwards.last THEN [heap[x] EXCEPT !.next = n] ELSE heap[x]]
        /\ forwards' = [first |-> IF forwards.first = NULL THEN n ELSE forwards.first,
                        last |-> n, size |-> forwards.size + 1,
                        nodes |-> forwards.nodes \cup {n}]
  BY DEF append_node
<1>2. PICK s \in [1 .. forwards.size -> Node] :
        IsChain(forwards, s) /\ \A i \in 1 .. forwards.size : heap[s[i]].value = values[i]
  BY DEF Holds
<1>3. /\ forwards.size \in Nat /\ forwards.size = Len(values)
      /\ forwards.first \in Nodes /\ forwards.last \in Nodes /\ forwards.nodes \subseteq Node
  BY DEF List, Holds
<1>4. n # NULL /\ n \in Node /\ n \notin forwards.nodes /\ NULL \notin Node
  BY <1>1
<1>5. heap' \in [Node -> NodeRecord]
  <2>1. [prev |-> forwards.last, value |-> value, next |-> NULL] \in NodeRecord
    BY <1>3 DEF NodeRecord, Nodes
  <2>2. \A x \in Node : [heap[x] EXCEPT !.next = n] \in NodeRecord
    BY <1>4 DEF NodeRecord, Nodes
  <2> QED
    BY <1>1, <2>1, <2>2
<1>6. forwards' \in List
  BY <1>1, <1>3, <1>4 DEF List, Nodes
<1>7. PICK m \in Nat : m = forwards.size
  BY <1>3
<1> DEFINE t == [i \in 1 .. m + 1 |-> IF i <= m THEN s[i] ELSE n]
<1>8. t \in [1 .. m + 1 -> Node]
  BY <1>2, <1>3, <1>4, <1>7
<1>9. \A i \in 1 .. forwards.size :
        /\ s[i] \in Node /\ s[i] # n
        /\ heap'[s[i]].value = heap[s[i]].value /\ heap'[s[i]].prev = heap[s[i]].prev
        /\ heap'[s[i]].next = IF s[i] = forwards.last THEN n ELSE heap[s[i]].next
  <2> SUFFICES ASSUME NEW i \in 1 .. forwards.size
               PROVE  /\ s[i] \in Node /\ s[i] # n
                      /\ heap'[s[i]].value = heap[s[i]].value
                      /\ heap'[s[i]].prev = heap[s[i]].prev
                      /\ heap'[s[i]].next = IF s[i] = forwards.last THEN n ELSE heap[s[i]].next
    OBVIOUS
  <2>1. s[i] \in Node /\ s[i] # n
    BY <1>2, <1>4 DEF IsChain
  <2>2. heap[s[i]] \in NodeRecord
    BY <2>1
  <2>3. heap'[s[i]] = IF s[i] = forwards.last THEN [heap[s[i]] EXCEPT !.next = n] ELSE heap[s[i]]
    BY <1>1, <2>1
  <2> QED
    BY <2>1, <2>2, <2>3 DEF NodeRecord
<1>10. heap'[n] = [prev |-> forwards.last, value |-> value, next |-> NULL]
  BY <1>1, <1>4
<1>11. \A i \in 1 .. forwards.size : s[i] = forwards.last <=> i = forwards.size
  <2>1. \A i \in 1 .. forwards.size : i # forwards.size => heap[s[i]].next = s[i + 1] /\ s[i + 1] \in Node
    BY <1>2, <1>3 DEF IsChain
  <2>2. forwards.size > 0 => forwards.last = s[forwards.size] /\ heap[forwards.last].next = NULL
    BY <1>2 DEF IsChain
  <2> QED
    BY <1>3, <1>4, <2>1, <2>2
<1>12. IsChain(forwards, t)'
  <2>1. /\ forwards'.size = forwards.size + 1 /\ forwards'.last = n
        /\ forwards'.nodes = forwards.nodes \cup {n}
        /\ forwards'.first = IF forwards.first = NULL THEN n ELSE forwards.first
    BY <1>1
  <2>2. /\ forwards.size = 0 => forwards.first = NULL /\ forwards.last = NULL
        /\ forwards.size > 0 => /\ forwards.first = s[1] /\ heap[s[1]].prev = NULL
                                /\ forwards.last = s[forwards.size]
        /\ \A i \in 1 .. forwards.size : s[i] \in forwards.nodes
        /\ \A i, j \in 1 .. forwards.size :
             j = i + 1 => heap[s[i]].next = s[j] /\ heap[s[j]].prev = s[i]
    BY <1>2 DEF IsChain
  <2>3. /\ forwards'.first = t[1] /\ heap'[t[1]].prev = NULL
    <3>1. CASE forwards.size = 0
      BY <3>1, <2>1, <2>2, <1>10, <1>7
    <3>2. CASE forwards.size > 0
      <4>1. 1 \in 1 .. forwards.size /\ t[1] = s[1] /\ s[1] # NULL
        BY <3>2, <1>3, <1>4, <1>9, <1>7
      <4> QED
        BY <4>1, <3>2, <2>1, <2>2, <1>9
    <3> QED
      BY <3>1, <3>2, <1>3
  <2>4. forwards'.last = t[forwards'.size] /\ heap'[t[forwards'.size]].next = NULL
    BY <2>1, <1>3, <1>10, <1>7
  <2>5. \A i \in 1 .. forwards'.size : t[i] \in forwards'.nodes
    BY <2>1, <2>2, <1>3, <1>7
  <2>6. ASSUME NEW i \in 1 .. forwards'.size, NEW j \in 1 .. forwards'.size, j = i + 1
        PROVE  heap'[t[i]].next = t[j] /\ heap'[t[j]].prev = t[i]
    <3>1. i \in 1 .. forwards.size /\ t[i] = s[i]
      BY <2>1, <2>6, <1>3, <1>7
    <3>2. CASE i = forwards.size
      <4>1. t[j] = n /\ s[i] = forwards.last
        BY <2>1, <2>6, <3>1, <3>2, <1>3, <1>11, <1>7
      <4> QED
        BY <3>1, <4>1, <1>9, <1>10
    <3>3. CASE i # forwards.size
      <4>1. j \in 1 .. forwards.size /\ t[j] = s[j] /\ s[i] # forwards.last
        BY <2>1, <2>6, <3>1, <3>3, <1>3, <1>11, <1>7
      <4>2. heap[s[i]].next = s[j] /\ heap[s[j]].prev = s[i]
        BY <2>2, <2>6, <3>1, <4>1
      <4> QED
        BY <3>1, <4>1, <4>2, <1>9
    <3> QED
      BY <3>2, <3>3
  <2>7. forwards'.size > 0
    BY <2>1, <1>3
  <2> HIDE DEF t
  <2> QED
    BY <2>3, <2>4, <2>5, <2>6, <2>7 DEF IsChain
<1>13. \A i \in 1 .. m + 1 : heap'[t[i]].value = Append(values, value)[i]
  <2>1. \A i \in 1 .. m : heap'[t[i]].value = Append(values, value)[i]
    <3>1. \A i \in 1 .. m : t[i] = s[i] /\ Append(values, value)[i] = values[i]
      BY <1>3, <1>7
    <3>2. \A i \in 1 .. m : heap'[s[i]].value = values[i]
      BY <1>2, <1>9, <1>7
    <3> QED
      BY <3>1, <3>2
  <2>2. t[m + 1] = n /\ Append(values, value)[m + 1] = value
    BY <1>3, <1>7
  <2>3. heap'[n].value = value
    BY <1>10
  <2>4. \A i \in 1 .. m + 1 : i \in 1 .. m \/ i = m + 1
    BY <1>7
  <2> HIDE DEF t
  <2> QED
    BY <2>1, <2>2, <2>3, <2>4
<1>14. forwards'.size = m + 1 /\ Len(Append(values, value)) = m + 1
  BY <1>1, <1>3, <1>7
<1>15. Holds(forwards, Append(values, value))'
  <2> HIDE DEF t
  <2> QED
    BY <1>8, <1>12, <1>13, <1>14 DEF Holds
<1> QED
  BY <1>5, <1>6, <1>15

\* A file has an entry, the key of the list, and 17 bytes for each backend.
LEMMA SizeOf ==
  ASSUME NEW list \in Lists
  PROVE  /\ Size(list) \in Nat /\ Size(list) >= 41
         /\ \A i \in 1 .. Len(list) + 4 : Start(list, i) \in Nat /\ (Start(list, i) = 0 <=> i = 1)
         /\ \A i \in 1 .. Len(list) + 4 : Start(list, i) >= 41 => i >= 3
<1>1. list # NULL /\ Len(list) \in Nat
  OBVIOUS
<1>2. PICK first \in {30, 33} : \A i : Start(list, i) = IF i <= 2 THEN 20 * (i - 1) ELSE first + 17 * (i - 3)
  BY DEF Start
<1>3. Size(list) = first + 17 * Len(list) + 11
  BY <1>1, <1>2 DEF Size
<1> QED
  BY <1>1, <1>2, <1>3

\* The first block is a whole version of the file.
LEMMA FirstBlock ==
  ASSUME NEW list \in Lists, NEW block \in LinesFrom(list, 0)
  PROVE  /\ block \in Seq(Text) /\ Len(block) = Len(list) + 3
         /\ \A i \in 1 .. Len(block) : block[i] = Lines(list)[i]
<1>1. list \in Seq(Host) /\ list # NULL
  OBVIOUS
<1>2. Size(list) > 0 /\ Start(list, 1) = 0
  BY <1>1, SizeOf
<1>3. PICK k \in 1 .. Len(list) + 4 :
        /\ k = 1 \/ Start(list, k - 1) < 0
        /\ block = (IF Start(list, k) = 0 THEN <<>> ELSE <<Fragment>>)
                     \o SubSeq(Lines(list), k, Len(list) + 3)
  <2>1. ~(Size(list) <= 0)
    BY <1>2, SizeOf
  <2>2. PICK k \in {i \in 1 .. Len(list) + 4 : 0 <= Start(list, i) /\ (i = 1 \/ Start(list, i - 1) < 0)} :
          block = (IF Start(list, k) = 0 THEN <<>> ELSE <<Fragment>>)
                    \o SubSeq(Lines(list), k, Len(list) + 3)
    BY <2>1, Zenon DEF LinesFrom
  <2> QED
    BY <2>2, Zenon
<1>4. k = 1
  BY <1>1, <1>3, SizeOf
<1>5. block = <<>> \o SubSeq(Lines(list), 1, Len(list) + 3)
  BY <1>2, <1>3, <1>4
<1>6. Lines(list) \in Seq(Text) /\ Len(Lines(list)) = Len(list) + 3
  BY <1>1, LinesOf
<1> QED
  BY <1>1, <1>5, <1>6

\* Another block begins after the key of the list.
LEMMA LaterBlock ==
  ASSUME NEW list \in Lists, NEW at \in Nat, at >= 41, at < Size(list),
         NEW block \in LinesFrom(list, at)
  PROVE  /\ block \in Seq(Text) /\ block # <<>>
         /\ \A i \in 1 .. Len(block) : block[i].key # "forwards"
<1>1. list \in Seq(Host) /\ list # NULL
  OBVIOUS
<1>2. PICK k \in 1 .. Len(list) + 4 :
        /\ at <= Start(list, k)
        /\ block = (IF Start(list, k) = at THEN <<>> ELSE <<Fragment>>)
                     \o SubSeq(Lines(list), k, Len(list) + 3)
  <2>1. ~(Size(list) <= at)
    BY SizeOf
  <2>2. PICK k \in {i \in 1 .. Len(list) + 4 : at <= Start(list, i) /\ (i = 1 \/ Start(list, i - 1) < at)} :
          block = (IF Start(list, k) = at THEN <<>> ELSE <<Fragment>>)
                    \o SubSeq(Lines(list), k, Len(list) + 3)
    BY <2>1, Zenon DEF LinesFrom
  <2> QED
    BY <2>2, Zenon
<1>3. k >= 3
  BY <1>1, <1>2, SizeOf
<1>4. /\ Lines(list) \in Seq(Text) /\ Len(Lines(list)) = Len(list) + 3
      /\ \A i \in 3 .. Len(list) + 3 : Lines(list)[i].key # "forwards"
  <2>1. \A i \in 3 .. Len(list) + 2 : Lines(list)[i].key # "forwards"
    <3>1. \A h : Item(h).key # "forwards"
      BY DEF Item
    <3>2. \A i \in 3 .. Len(list) + 2 : Lines(list)[i] = Item(list[i - 2])
      BY <1>1, LinesOf
    <3> QED
      BY <3>1, <3>2
  <2>2. Lines(list)[Len(list) + 3].key # "forwards"
    BY <1>1, LinesOf DEF Line
  <2>3. \A i \in 3 .. Len(list) + 3 : i \in 3 .. Len(list) + 2 \/ i = Len(list) + 3
    BY <1>1
  <2>4. Lines(list) \in Seq(Text) /\ Len(Lines(list)) = Len(list) + 3
    BY <1>1, LinesOf
  <2>5. \A i \in 3 .. Len(list) + 3 : Lines(list)[i].key # "forwards"
    BY <2>1, <2>2, <2>3
  <2> QED
    BY <2>4, <2>5
<1>5. PICK rest \in Seq(Text) :
        /\ rest = SubSeq(Lines(list), k, Len(list) + 3)
        /\ Len(rest) = Len(list) + 4 - k
        /\ \A i \in 1 .. Len(rest) : rest[i].key # "forwards"
  <2>1. SubSeq(Lines(list), k, Len(list) + 3) \in Seq(Text)
    BY <1>1, <1>3, <1>4
  <2>2. Len(SubSeq(Lines(list), k, Len(list) + 3)) = Len(list) + 4 - k
    BY <1>1, <1>3, <1>4
  <2>3. \A i \in 1 .. Len(list) + 4 - k :
          SubSeq(Lines(list), k, Len(list) + 3)[i] = Lines(list)[k + i - 1]
    BY <1>1, <1>3, <1>4
  <2>4. \A i \in 1 .. Len(list) + 4 - k : k + i - 1 \in 3 .. Len(list) + 3
    BY <1>1, <1>3
  <2> QED
    BY <1>4, <2>1, <2>2, <2>3, <2>4
<1>6. Fragment \in Text /\ Fragment.key # "forwards"
  BY DEF Fragment, Line, Text
<1>7. CASE Start(list, k) = at
  <2>1. k # Len(list) + 4
    BY <1>1, <1>7 DEF Size, Start
  <2>2. block = rest
    BY <1>2, <1>5, <1>7
  <2>3. Len(rest) # 0
    BY <1>1, <1>2, <1>5, <2>1
  <2> QED
    BY <1>5, <2>2, <2>3
<1>8. CASE Start(list, k) # at
  <2>1. block = <<Fragment>> \o rest
    BY <1>2, <1>5, <1>8
  <2>2. /\ block \in Seq(Text) /\ Len(block) = Len(rest) + 1 /\ block[1] = Fragment
        /\ \A i \in 2 .. Len(block) : block[i] = rest[i - 1]
    BY <1>5, <1>6, <2>1
  <2>3. \A i \in 1 .. Len(block) : block[i].key # "forwards"
    <3>1. \A i \in 2 .. Len(block) : i - 1 \in 1 .. Len(rest)
      BY <1>5, <2>2
    <3>2. \A i \in 1 .. Len(block) : i = 1 \/ i \in 2 .. Len(block)
      BY <2>2
    <3> QED
      BY <1>5, <1>6, <2>2, <3>1, <3>2
  <2>4. Len(block) # 0
    BY <1>5, <2>2
  <2> QED
    BY <2>2, <2>3, <2>4
<1> QED
  BY <1>7, <1>8

\* A fresh list is empty, whatever the heap holds.
LEMMA EmptyHolds == Holds(EmptyList, <<>>)
<1>1. EmptyList.size = 0 /\ EmptyList.first = NULL /\ EmptyList.last = NULL
  BY DEF EmptyList
<1>2. PICK s : s \in [1 .. EmptyList.size -> Node]
  <2>1. [i \in 1 .. EmptyList.size |-> NULL] \in [1 .. EmptyList.size -> Node]
    BY <1>1
  <2> QED
    BY <2>1
<1>3. IsChain(EmptyList, s)
  BY <1>1 DEF IsChain
<1>4. Len(<<>>) = 0 /\ \A i \in 1 .. EmptyList.size : FALSE
  BY <1>1
<1>5. EmptyList.size = Len(<<>>)
  BY <1>1, <1>4
<1>6. \A i \in 1 .. EmptyList.size : heap[s[i]].value = <<>>[i]
  BY <1>4
<1> QED
  BY <1>2, <1>3, <1>5, <1>6, Zenon DEF Holds

\* The lists a reader can have seen are sequences of backends.
LEMMA SeenAreLists == TypeOK => seen \subseteq Seq(Host) /\ Listed(file) \in Seq(Host)
<1>1. <<>> \in Seq(Host)
  OBVIOUS
<1> QED
  BY <1>1 DEF TypeOK, Listed

LEMMA InitHolds == Init => IInv
<1> SUFFICES ASSUME Init PROVE IInv
  OBVIOUS
<1>1. EmptyList \in List
  BY DEF EmptyList, List, Nodes
<1>2. NoHeap \in [Node -> NodeRecord]
  BY DEF NoHeap, NodeRecord, Nodes
<1>3. <<>> \in Seq(Text) /\ 0 \in 0 .. MaxWrites
  OBVIOUS
<1>4. TypeOK
  BY <1>1, <1>2, <1>3 DEF Init, NoReader, TypeOK, NodeRecord
<1>5. Progress
  BY DEF Init, NoReader, Progress
<1> QED
  BY <1>4, <1>5 DEF IInv

\* A list that was left alone holds the same values.
LEMMA SameHeap ==
  ASSUME UNCHANGED <<heap, forwards>>, NEW values, Holds(forwards, values)
  PROVE  Holds(forwards, values)'
<1>1. PICK s \in [1 .. forwards.size -> Node] :
        IsChain(forwards, s) /\ \A i \in 1 .. forwards.size : heap[s[i]].value = values[i]
  BY DEF Holds
<1>2. heap' = heap /\ forwards' = forwards
  OBVIOUS
<1>3. IsChain(forwards, s)'
  BY <1>1, <1>2 DEF IsChain
<1>4. /\ forwards'.size = Len(values) /\ s \in [1 .. forwards'.size -> Node]
      /\ \A i \in 1 .. forwards'.size : heap'[s[i]].value = values[i]
  BY <1>1, <1>2 DEF Holds
<1> QED
  BY <1>3, <1>4 DEF Holds

\* The same of the list that is in use.
LEMMA SameBackends ==
  ASSUME UNCHANGED <<heap, backends>>, NEW values, Holds(backends, values)
  PROVE  Holds(backends, values)'
<1>1. PICK s \in [1 .. backends.size -> Node] :
        IsChain(backends, s) /\ \A i \in 1 .. backends.size : heap[s[i]].value = values[i]
  BY DEF Holds
<1>2. heap' = heap /\ backends' = backends
  OBVIOUS
<1>3. IsChain(backends, s)'
  BY <1>1, <1>2 DEF IsChain
<1>4. /\ backends'.size = Len(values) /\ s \in [1 .. backends'.size -> Node]
      /\ \A i \in 1 .. backends'.size : heap'[s[i]].value = values[i]
  BY <1>1, <1>2 DEF Holds
<1> QED
  BY <1>3, <1>4 DEF Holds

\* Truncate and Dump: the reader's state does not depend on the file.
LEMMA WriteStep == ASSUME IInv, Truncate \/ Dump PROVE IInv'
<1>1. PICK f \in Lists \cup {NULL} : Write(f)
  BY DEF Truncate, Dump
<1>2. /\ file' = f
      /\ seen' = IF pc \in {"fill", "parse"} THEN seen \cup {Listed(f)} ELSE seen
      /\ UNCHANGED <<pc, offset, buffer, parsing_forwards, port, listening, heap,
                     forwards, backends>>
  BY <1>1 DEF Write, reader
<1>3. writes' \in 0 .. MaxWrites
  BY DEF Truncate, Dump, IInv, TypeOK
<1>4. Listed(f) \in Lists \cup {<<>>}
  BY DEF Listed
<1>5. TypeOK'
  BY <1>2, <1>3, <1>4 DEF IInv, TypeOK
<1>6. \A values : /\ Holds(forwards, values) => Holds(forwards, values)'
                  /\ Holds(backends, values) => Holds(backends, values)'
  BY <1>2, SameHeap, SameBackends
<1>7. seen \subseteq seen'
  BY <1>2
<1>8. PastFirstBlock => PastFirstBlock'
  BY <1>2, <1>6, <1>7 DEF PastFirstBlock, Complete
<1>9. InFirstBlock => InFirstBlock'
  <2> SUFFICES ASSUME NEW list \in seen, NEW k \in 1 .. Len(list) + 3,
                      RestOf(list, k), parsing_forwards = (IF k >= 3 THEN TRUE ELSE FALSE),
                      Holds(forwards, SubSeq(list, 1, Before(list, k)))
               PROVE  InFirstBlock'
    BY DEF InFirstBlock, Reading
  <2>1. RestOf(list, k)' /\ parsing_forwards' = (IF k >= 3 THEN TRUE ELSE FALSE)
    BY <1>2 DEF RestOf
  <2>2. Holds(forwards, SubSeq(list, 1, Before(list, k)))'
    <3>1. PICK values : values = SubSeq(list, 1, Before(list, k))
      OBVIOUS
    <3>2. Holds(forwards, values)'
      BY <1>6, <3>1
    <3> QED
      BY <3>1, <3>2
  <2> QED
    BY <1>7, <2>1, <2>2 DEF InFirstBlock, Reading
<1>10. pc \in {"fill", "parse"} => Listed(file)' \in seen'
  BY <1>2 DEF Listed
<1>11. pc = "fill" /\ offset = 0 => parsing_forwards' = FALSE /\ Holds(forwards, <<>>)'
  BY <1>2, <1>6 DEF IInv, Progress
<1>12. pc = "idle" => \E list \in seen' : Holds(backends, list)'
  BY <1>2, <1>6, <1>7 DEF IInv, Progress
<1>13. Progress'
  BY <1>2, <1>8, <1>9, <1>10, <1>11, <1>12 DEF IInv, Progress
<1> QED
  BY <1>5, <1>13 DEF IInv

\* Boot and Reload: an empty list, at the start of the file.
LEMMA OpenStep == ASSUME IInv, Boot \/ Reload PROVE IInv'
<1>1. /\ OpenFile /\ UNCHANGED <<file, writes, port, listening, heap, backends>>
  BY DEF Boot, Reload, scaler
<1>2. EmptyList \in List /\ <<>> \in Seq(Text) /\ Listed(file) \in Lists \cup {<<>>}
  BY DEF EmptyList, List, Nodes, Listed, IInv, TypeOK
<1>3. TypeOK'
  BY <1>1, <1>2 DEF OpenFile, IInv, TypeOK
<1>4. Holds(forwards, <<>>)'
  <2>1. forwards' = EmptyList
    BY <1>1 DEF OpenFile
  <2>2. Holds(EmptyList, <<>>)'
    BY EmptyHolds, <1>1 DEF Holds, IsChain, EmptyList
  <2> QED
    BY <2>1, <2>2 DEF Holds, IsChain, EmptyList
<1>5. Listed(file)' \in seen'
  BY <1>1 DEF OpenFile, Listed
<1>6. pc' = "fill" /\ offset' = 0 /\ parsing_forwards' = FALSE
  BY <1>1 DEF OpenFile
<1>7. Progress'
  BY <1>4, <1>5, <1>6 DEF Progress
<1> QED
  BY <1>3, <1>7 DEF IInv

\* The first block: it is a whole version.
LEMMA FirstFill ==
  ASSUME IInv, Fill, offset = 0, NEW list, list = file
  PROVE  /\ list \in seen' /\ Reading(list)'
         /\ buffer' \in Seq(Text) /\ buffer' # <<>>
<1>1. /\ pc = "fill" /\ offset < Size(file) /\ buffer' \in LinesFrom(file, offset)
      /\ UNCHANGED <<parsing_forwards, heap, forwards, seen>>
  BY DEF Fill
<1>2. list \in Lists /\ list \in Seq(Host) /\ Len(list) \in Nat
  <2>1. file # NULL
    BY <1>1 DEF IInv, TypeOK, Size
  <2> QED
    BY <2>1 DEF IInv, TypeOK
<1>3. /\ buffer' \in Seq(Text) /\ Len(buffer') = Len(list) + 3
      /\ \A i \in 1 .. Len(buffer') : buffer'[i] = Lines(list)[i]
  BY <1>1, <1>2, FirstBlock
<1>4. list \in seen'
  BY <1>1, <1>2 DEF IInv, Progress, Listed
<1>5. RestOf(list, 1)'
  <2>1. /\ Len(buffer') = Len(list) + 4 - 1
        /\ \A i \in 1 .. Len(buffer') : i = 1 + i - 1 /\ buffer'[i] = Lines(list)[i]
    BY <1>2, <1>3
  <2> QED
    BY <2>1 DEF RestOf
<1>6. parsing_forwards' = (IF 1 >= 3 THEN TRUE ELSE FALSE)
  <2>1. parsing_forwards' = FALSE /\ ~(1 >= 3)
    BY <1>1 DEF IInv, Progress
  <2> QED
    BY <2>1, Zenon
<1>7. Holds(forwards, SubSeq(list, 1, Before(list, 1)))'
  <2>1. Holds(forwards, <<>>)'
    BY <1>1, SameHeap DEF IInv, Progress
  <2>2. SubSeq(list, 1, Before(list, 1)) = <<>>
    <3>1. Before(list, 1) = 0
      BY DEF Before
    <3>2. SubSeq(list, 1, 0) = <<>>
      BY <1>2
    <3> QED
      BY <3>1, <3>2
  <2> QED
    BY <2>1, <2>2
<1>8. 1 \in 1 .. Len(list) + 3 /\ buffer' # <<>>
  BY <1>2, <1>3
<1> QED
  BY <1>3, <1>4, <1>5, <1>6, <1>7, <1>8 DEF Reading

\* A later block adds nothing to the list.
LEMMA LaterFill ==
  ASSUME IInv, Fill, offset # 0, NEW list, Complete(list)
  PROVE  /\ Complete(list)'
         /\ buffer' \in Seq(Text) /\ buffer' # <<>>
<1>1. /\ pc = "fill" /\ offset < Size(file) /\ buffer' \in LinesFrom(file, offset)
      /\ UNCHANGED <<parsing_forwards, port, heap, forwards>>
  BY DEF Fill
<1>2. file \in Lists /\ offset \in Nat /\ offset >= 41
  <2>1. file # NULL /\ offset \in Nat /\ offset >= 41
    BY <1>1 DEF IInv, TypeOK, Progress, Size
  <2> QED
    BY <2>1 DEF IInv, TypeOK
<1>3. /\ buffer' \in Seq(Text) /\ buffer' # <<>>
      /\ \A i \in 1 .. Len(buffer') : buffer'[i].key # "forwards"
  BY <1>1, <1>2, LaterBlock
<1>4. Holds(forwards, list)'
  BY <1>1, SameHeap DEF Complete
<1> QED
  BY <1>1, <1>3, <1>4 DEF Complete

\* Fill: a whole version at the start of the file, the end of one later.
LEMMA FillStep == ASSUME IInv, Fill PROVE IInv'
<1>1. /\ pc = "fill" /\ offset' = Size(file) /\ pc' = "parse"
      /\ UNCHANGED <<file, writes, parsing_forwards, port, listening, heap, forwards,
                     backends, seen>>
  BY DEF Fill, scaler
<1>2. Size(file) \in Nat /\ Size(file) >= 41
  <2>1. file # NULL
    BY DEF Fill, IInv, TypeOK, Size
  <2> QED
    BY <2>1, SizeOf DEF IInv, TypeOK
<1>3. /\ buffer' \in Seq(Text) /\ buffer' # <<>>
      /\ InFirstBlock' \/ PastFirstBlock'
  <2>1. CASE offset = 0
    <3>1. PICK list : list = file
      OBVIOUS
    <3> QED
      BY <2>1, <3>1, FirstFill DEF InFirstBlock
  <2>2. CASE offset # 0
    <3>1. PICK list \in seen : Complete(list)
      BY <1>1, <2>2 DEF IInv, Progress, PastFirstBlock
    <3> QED
      BY <1>1, <2>2, <3>1, LaterFill DEF PastFirstBlock
  <2> QED
    BY <2>1, <2>2
<1>4. TypeOK'
  BY <1>1, <1>2, <1>3 DEF IInv, TypeOK
<1>5. Progress'
  BY <1>1, <1>2, <1>3 DEF IInv, Progress, Listed
<1> QED
  BY <1>4, <1>5 DEF IInv

\* The lines of a block: what Parse sees, and what it leaves.
LEMMA NextLine ==
  ASSUME NEW block \in Seq(Text), block # <<>>
  PROVE  /\ Head(block) = block[1] /\ Head(block) \in Text
         /\ Tail(block) \in Seq(Text) /\ Len(Tail(block)) = Len(block) - 1 /\ Len(block) >= 1
         /\ \A i \in 1 .. Len(Tail(block)) : Tail(block)[i] = block[i + 1]
<1>1. Len(block) \in Nat /\ Len(block) >= 1
  OBVIOUS
<1>2. Head(block) = block[1] /\ Head(block) \in Text
  BY <1>1
<1>3. Tail(block) \in Seq(Text) /\ Len(Tail(block)) = Len(block) - 1
  BY <1>1
<1>4. \A i \in 1 .. Len(Tail(block)) : Tail(block)[i] = block[i + 1]
  BY <1>1, <1>3
<1> QED
  BY <1>1, <1>2, <1>3, <1>4

\* What every Parse step does, whatever the line.
LEMMA ParseLine ==
  ASSUME IInv, Parse
  PROVE  \E line \in Text :
           /\ line = buffer[1]
           /\ IF line.key = "-" /\ parsing_forwards
                THEN append_node(line.value) ELSE UNCHANGED <<heap, forwards>>
           /\ port' = IF line.key = "port" THEN "read" ELSE port
           /\ parsing_forwards' = CASE line.key = "forwards" -> TRUE
                                    [] line.key \in {"entry", "port"} -> FALSE
                                    [] OTHER -> parsing_forwards
           /\ buffer' \in Seq(Text) /\ Len(buffer') = Len(buffer) - 1 /\ Len(buffer) \in Nat
           /\ \A i \in 1 .. Len(buffer') : buffer'[i] = buffer[i + 1]
           /\ pc' = IF buffer' = <<>> THEN "fill" ELSE "parse"
           /\ UNCHANGED <<file, writes, offset, listening, backends, seen>>
<1>1. /\ buffer' = Tail(buffer) /\ pc' = IF Len(buffer) = 1 THEN "fill" ELSE "parse"
      /\ UNCHANGED <<file, writes, offset, listening, backends, seen>>
      /\ pc = "parse"
  BY DEF Parse, scaler
<1>2. buffer \in Seq(Text) /\ buffer # <<>>
  BY <1>1 DEF IInv, TypeOK, Progress
<1>3. PICK line \in Text : line = Head(buffer) /\ line = buffer[1]
  BY <1>2, NextLine
<1>4. /\ IF line.key = "-" /\ parsing_forwards
           THEN append_node(line.value) ELSE UNCHANGED <<heap, forwards>>
      /\ port' = IF line.key = "port" THEN "read" ELSE port
      /\ parsing_forwards' = CASE line.key = "forwards" -> TRUE
                               [] line.key \in {"entry", "port"} -> FALSE
                               [] OTHER -> parsing_forwards
  BY <1>3 DEF Parse
<1>5. /\ buffer' \in Seq(Text) /\ Len(buffer') = Len(buffer) - 1 /\ Len(buffer) \in Nat
      /\ \A i \in 1 .. Len(buffer') : buffer'[i] = buffer[i + 1]
  BY <1>1, <1>2, NextLine
<1>6. Len(buffer) = 1 <=> buffer' = <<>>
  BY <1>5
<1> QED
  BY <1>1, <1>3, <1>4, <1>5, <1>6

\* The types, when the list is left alone or extended as it should be.
LEMMA ParseTypes ==
  ASSUME IInv, Parse, heap' \in [Node -> NodeRecord], forwards' \in List
  PROVE  TypeOK'
<1>1. PICK line \in Text :
        /\ port' = IF line.key = "port" THEN "read" ELSE port
        /\ parsing_forwards' = CASE line.key = "forwards" -> TRUE
                                 [] line.key \in {"entry", "port"} -> FALSE
                                 [] OTHER -> parsing_forwards
        /\ buffer' \in Seq(Text)
        /\ pc' = IF buffer' = <<>> THEN "fill" ELSE "parse"
        /\ UNCHANGED <<file, writes, offset, listening, backends, seen>>
  BY ParseLine
<1>2. parsing_forwards' \in BOOLEAN /\ port' \in {"garbage", "read"}
  BY <1>1 DEF IInv, TypeOK
<1>3. pc' \in {"off", "fill", "parse", "idle"}
  BY <1>1
<1> QED
  BY <1>1, <1>2, <1>3 DEF IInv, TypeOK, NodeRecord

\* A line of the first block: the list grows by the items of one version.
LEMMA FirstBlockStep ==
  ASSUME IInv, Parse, NEW list \in seen, Reading(list)
  PROVE  /\ heap' \in [Node -> NodeRecord] /\ forwards' \in List
         /\ IF buffer' = <<>> THEN Complete(list)' ELSE Reading(list)'
<1>2. PICK k \in 1 .. Len(list) + 3 :
        /\ RestOf(list, k)
        /\ parsing_forwards = (IF k >= 3 THEN TRUE ELSE FALSE)
        /\ Holds(forwards, SubSeq(list, 1, Before(list, k)))
  BY DEF Reading
<1>3. list \in Seq(Host) /\ Len(list) \in Nat /\ k \in Nat
  BY SeenAreLists, <1>2 DEF IInv
<1>4. PICK line \in Text :
        /\ line = buffer[1]
        /\ IF line.key = "-" /\ parsing_forwards
             THEN append_node(line.value) ELSE UNCHANGED <<heap, forwards>>
        /\ port' = IF line.key = "port" THEN "read" ELSE port
        /\ parsing_forwards' = CASE line.key = "forwards" -> TRUE
                                 [] line.key \in {"entry", "port"} -> FALSE
                                 [] OTHER -> parsing_forwards
        /\ buffer' \in Seq(Text) /\ Len(buffer') = Len(buffer) - 1 /\ Len(buffer) \in Nat
        /\ \A i \in 1 .. Len(buffer') : buffer'[i] = buffer[i + 1]
        /\ UNCHANGED <<file, writes, offset, listening, backends, seen>>
  BY ParseLine
<1>5. line = Lines(list)[k] /\ Len(buffer) = Len(list) + 4 - k
  <2>1. 1 \in 1 .. Len(buffer) /\ k + 1 - 1 = k
    BY <1>2, <1>3, <1>4 DEF RestOf
  <2> QED
    BY <1>2, <1>4, <2>1 DEF RestOf
<1>6. RestOf(list, k + 1)'
  <2>1. Len(buffer') = Len(list) + 4 - (k + 1)
    BY <1>3, <1>4, <1>5
  <2>2. \A i \in 1 .. Len(buffer') : i + 1 \in 1 .. Len(buffer) /\ k + (i + 1) - 1 = (k + 1) + i - 1
    BY <1>3, <1>4
  <2>3. \A i \in 1 .. Len(buffer') : buffer'[i] = Lines(list)[(k + 1) + i - 1]
    BY <1>2, <1>4, <2>2 DEF RestOf
  <2> QED
    BY <2>1, <2>3 DEF RestOf
<1>7. heap \in [Node -> NodeRecord] /\ forwards \in List /\ backends \in List
  BY DEF IInv, TypeOK, NodeRecord
<1>9. CASE k <= 2
  <2>1. line = IF k = 1 THEN Line("entry") ELSE Line("forwards")
    BY <1>3, <1>5, <1>9, LinesOf
  <2>2. parsing_forwards' = (IF k + 1 >= 3 THEN TRUE ELSE FALSE) /\ UNCHANGED <<heap, forwards>>
    <3>1. line.key = IF k = 1 THEN "entry" ELSE "forwards"
      BY <2>1 DEF Line
    <3>2. parsing_forwards' = IF k = 1 THEN FALSE ELSE TRUE
      BY <1>4, <3>1
    <3>3. UNCHANGED <<heap, forwards>>
      BY <1>4, <3>1
    <3> QED
      BY <1>3, <1>9, <3>2, <3>3
  <2>3. PICK values : values = SubSeq(list, 1, 0) /\ Holds(forwards, values)
    <3>1. Before(list, k) = 0
      BY <1>3, <1>9 DEF Before
    <3> QED
      BY <1>2, <3>1
  <2>4. Holds(forwards, SubSeq(list, 1, Before(list, k + 1)))'
    <3>1. Before(list, k + 1) = 0
      BY <1>3, <1>9 DEF Before
    <3>2. Holds(forwards, values)'
      BY <2>2, <2>3, SameHeap
    <3> QED
      BY <2>3, <3>1, <3>2
  <2>5. k + 1 \in 1 .. Len(list) + 3
    BY <1>3, <1>9
  <2>6. Reading(list)'
    BY <1>6, <2>2, <2>4, <2>5 DEF Reading
  <2>7. buffer' # <<>>
    BY <1>3, <1>4, <1>5, <1>9
  <2> QED
    BY <1>7, <2>2, <2>6, <2>7
<1>10. CASE k \in 3 .. Len(list) + 2
  <2>1. k - 2 \in 1 .. Len(list) /\ list[k - 2] \in Host
    BY <1>3, <1>10
  <2>2. line = Item(list[k - 2])
    BY <1>3, <1>5, <1>10, LinesOf
  <2>3. line.key = "-" /\ line.value = list[k - 2]
    BY <2>2 DEF Item
  <2>4. parsing_forwards = TRUE
    BY <1>2, <1>10, <1>3
  <2>5. append_node(list[k - 2]) /\ parsing_forwards' = TRUE
    BY <1>4, <2>3, <2>4
  <2>6. PICK values \in Seq(Host) :
          /\ values = SubSeq(list, 1, k - 3) /\ Holds(forwards, values)
          /\ Append(values, list[k - 2]) = SubSeq(list, 1, k - 2)
    <3>1. Before(list, k) = k - 3
      BY <1>3, <1>10 DEF Before
    <3>2. SubSeq(list, 1, k - 3) \in Seq(Host)
      BY <1>3, <1>10
    <3>3. Append(SubSeq(list, 1, k - 3), list[k - 2]) = SubSeq(list, 1, k - 2)
      BY <1>3, <1>10, <2>1
    <3> QED
      BY <1>2, <3>1, <3>2, <3>3
  <2>7. PICK h \in Host : h = list[k - 2]
    BY <2>1
  <2>8. /\ heap' \in [Node -> NodeRecord] /\ forwards' \in List
        /\ Holds(forwards, Append(values, h))'
    BY <1>7, <2>5, <2>6, <2>7, AppendExtends
  <2>9. Holds(forwards, SubSeq(list, 1, Before(list, k + 1)))'
    <3>1. Before(list, k + 1) = k - 2
      BY <1>3, <1>10 DEF Before
    <3>2. Append(values, h) = SubSeq(list, 1, Before(list, k + 1))
      BY <2>6, <2>7, <3>1
    <3> QED
      BY <2>8, <3>2
  <2>10. k + 1 \in 1 .. Len(list) + 3 /\ k + 1 >= 3
    BY <1>3, <1>10
  <2>11. Reading(list)'
    BY <1>6, <2>5, <2>9, <2>10 DEF Reading
  <2>12. buffer' # <<>>
    BY <1>3, <1>4, <1>5, <1>10
  <2> QED
    BY <2>8, <2>11, <2>12
<1>11. CASE k = Len(list) + 3
  <2>1. line = Line("port")
    BY <1>3, <1>5, <1>11, LinesOf
  <2>2. parsing_forwards' = FALSE /\ port' = "read" /\ UNCHANGED <<heap, forwards>>
    BY <1>4, <2>1 DEF Line
  <2>3. PICK values : values = list /\ Holds(forwards, values)
    <3>1. Before(list, k) = Len(list)
      BY <1>3, <1>11 DEF Before
    <3>2. SubSeq(list, 1, Len(list)) = list
      BY <1>3
    <3> QED
      BY <1>2, <3>1, <3>2
  <2>4. Holds(forwards, values)'
    BY <2>2, <2>3, SameHeap
  <2>5. Len(buffer') = 0
    BY <1>3, <1>4, <1>5, <1>11
  <2>6. buffer' = <<>> /\ \A i \in 1 .. Len(buffer') : buffer'[i].key # "forwards"
    <3>1. buffer' \in Seq(Text)
      BY <1>4
    <3>2. buffer' = <<>>
      BY <2>5, <3>1
    <3>3. \A i \in 1 .. Len(buffer') : FALSE
      BY <2>5
    <3> QED
      BY <3>2, <3>3
  <2>7. Complete(list)'
    BY <2>2, <2>3, <2>4, <2>6 DEF Complete
  <2> QED
    BY <1>7, <2>2, <2>6, <2>7
<1> QED
  BY <1>2, <1>3, <1>9, <1>10, <1>11

\* A line of a later block changes nothing that matters.
LEMMA LaterBlockStep ==
  ASSUME IInv, Parse, NEW list, Complete(list)
  PROVE  UNCHANGED <<heap, forwards>> /\ Complete(list)'
<1>1. PICK line \in Text :
        /\ line = buffer[1]
        /\ IF line.key = "-" /\ parsing_forwards
             THEN append_node(line.value) ELSE UNCHANGED <<heap, forwards>>
        /\ port' = IF line.key = "port" THEN "read" ELSE port
        /\ parsing_forwards' = CASE line.key = "forwards" -> TRUE
                                 [] line.key \in {"entry", "port"} -> FALSE
                                 [] OTHER -> parsing_forwards
        /\ buffer' \in Seq(Text) /\ Len(buffer') = Len(buffer) - 1 /\ Len(buffer) \in Nat
        /\ \A i \in 1 .. Len(buffer') : buffer'[i] = buffer[i + 1]
        /\ UNCHANGED <<file, writes, offset, listening, backends, seen>>
  BY ParseLine
<1>2. 1 \in 1 .. Len(buffer) /\ \A i \in 1 .. Len(buffer') : i + 1 \in 1 .. Len(buffer)
  BY <1>1
<1>3. line.key # "forwards" /\ \A i \in 1 .. Len(buffer') : buffer'[i].key # "forwards"
  BY <1>1, <1>2 DEF Complete
<1>4. parsing_forwards' = FALSE /\ port' = "read" /\ UNCHANGED <<heap, forwards>>
  BY <1>1, <1>3 DEF Complete
<1>5. Holds(forwards, list)
  BY DEF Complete
<1>6. Holds(forwards, list)'
  BY <1>4, <1>5, SameHeap
<1> QED
  BY <1>3, <1>4, <1>5, <1>6 DEF Complete

LEMMA ParseStep == ASSUME IInv, Parse PROVE IInv'
<1>1. /\ pc = "parse" /\ UNCHANGED <<file, offset, seen>>
      /\ pc' = IF buffer' = <<>> THEN "fill" ELSE "parse"
  BY ParseLine DEF Parse
<1>2. /\ heap' \in [Node -> NodeRecord] /\ forwards' \in List
      /\ InFirstBlock' \/ PastFirstBlock'
      /\ buffer' = <<>> => PastFirstBlock'
  <2>1. CASE InFirstBlock
    <3>1. PICK list \in seen : Reading(list)
      BY <2>1 DEF InFirstBlock
    <3> QED
      BY <1>1, <3>1, FirstBlockStep DEF InFirstBlock, PastFirstBlock
  <2>2. CASE PastFirstBlock
    <3>1. PICK list \in seen : Complete(list)
      BY <2>2 DEF PastFirstBlock
    <3> QED
      BY <1>1, <3>1, LaterBlockStep DEF IInv, TypeOK, NodeRecord, PastFirstBlock
  <2> QED
    BY <1>1, <2>1, <2>2 DEF IInv, Progress
<1>3. TypeOK'
  BY <1>2, ParseTypes
<1>4. offset >= 41 /\ offset \in Nat /\ Listed(file) \in seen
  BY <1>1 DEF IInv, Progress, TypeOK
<1>5. Progress'
  BY <1>1, <1>2, <1>4 DEF Progress, Listed
<1> QED
  BY <1>3, <1>5 DEF IInv

\* The end of the file: what was read is what requests are given.
LEMMA FinishStep == ASSUME IInv, Finish PROVE IInv'
<1>1. /\ pc = "fill" /\ pc' = "idle" /\ backends' = forwards
      /\ listening' \in {port, listening}
      /\ UNCHANGED <<file, writes, offset, buffer, parsing_forwards, port, heap, forwards, seen>>
  BY DEF Finish, scaler
<1>2. TypeOK'
  BY <1>1 DEF IInv, TypeOK
<1>3. PICK list \in seen' : Holds(forwards, list)
  <2>1. CASE offset = 0
    <3>1. file = NULL
      BY <2>1, SizeOf DEF Finish, IInv, TypeOK
    <3>2. <<>> \in seen /\ Holds(forwards, <<>>)
      BY <1>1, <2>1, <3>1 DEF IInv, Progress, Listed
    <3> QED
      BY <1>1, <3>2
  <2>2. CASE offset # 0
    BY <1>1, <2>2 DEF IInv, Progress, PastFirstBlock, Complete
  <2> QED
    BY <2>1, <2>2
<1>4. Holds(backends, list)'
  BY <1>1, <1>3 DEF Holds, IsChain
<1>5. Progress'
  BY <1>1, <1>3, <1>4 DEF Progress
<1> QED
  BY <1>2, <1>5 DEF IInv

LEMMA DieStep == ASSUME IInv, Die PROVE IInv'
<1>1. EmptyList \in List /\ NoHeap \in [Node -> NodeRecord] /\ <<>> \in Seq(Text)
  BY DEF EmptyList, List, Nodes, NoHeap, NodeRecord
<1>2. TypeOK'
  BY <1>1 DEF IInv, TypeOK, Die, scaler, NodeRecord
<1>3. Progress'
  BY DEF Die, Progress
<1> QED
  BY <1>2, <1>3 DEF IInv

-----------------------------------------------------------------------------
(* The walk over a list.  It is defined by recursion on the index; a set of *)
(* numbers has a least element, which takes the place of an induction.      *)

LEMMA LeastNumber ==
  ASSUME NEW S, S \subseteq Nat, S # {}
  PROVE  \E x \in S : \A y \in S : x <= y
<1> DEFINE R == OpToRel(<, Nat)
<1>1. IsWellFoundedOn(R, Nat)
  BY NatLessThanWellFounded
<1>2. \A x, y \in Nat : y < x => <<y, x>> \in R
  BY DEF OpToRel
<1> HIDE DEF R
<1>3. PICK x \in S : \A y \in S : ~(<<y, x>> \in R)
  BY <1>1, WFMin
<1>4. ASSUME NEW y \in S PROVE x <= y
  <2>1. x \in Nat /\ y \in Nat /\ ~(y < x)
    BY <1>2, <1>3
  <2> QED
    BY <2>1
<1> QED
  BY <1>4

\* The nodes of a chain are different ones: two that were the same would have
\* the same predecessors, down to the first node, which has none.
LEMMA ChainIsInjective ==
  ASSUME NEW ll, ll.size \in Nat, NEW s \in [1 .. ll.size -> Node], IsChain(ll, s)
  PROVE  \A i, j \in 1 .. ll.size : s[i] = s[j] => i = j
<1> DEFINE Twice == {i \in 1 .. ll.size : \E j \in 1 .. ll.size : i < j /\ s[i] = s[j]}
<1>1. ASSUME Twice # {} PROVE FALSE
  <2>1. PICK i \in Twice : \A k \in Twice : i <= k
    <3>1. Twice \subseteq Nat
      OBVIOUS
    <3> HIDE DEF Twice
    <3> QED
      BY <1>1, <3>1, LeastNumber
  <2>2. PICK j \in 1 .. ll.size : i < j /\ s[i] = s[j]
    OBVIOUS
  <2>3. i \in 1 .. ll.size /\ j - 1 \in 1 .. ll.size /\ (j - 1) + 1 = j
    BY <2>2
  <2>4. heap[s[j]].prev = s[j - 1]
    BY <2>3 DEF IsChain
  <2>5. CASE i = 1
    <3>1. heap[s[1]].prev = NULL /\ s[j - 1] \in Node
      BY <2>3 DEF IsChain
    <3> QED
      BY <2>2, <2>4, <2>5, <3>1
  <2>6. CASE i # 1
    <3>1. i - 1 \in 1 .. ll.size /\ (i - 1) + 1 = i
      BY <2>3, <2>6
    <3>2. heap[s[i]].prev = s[i - 1]
      BY <2>3, <3>1 DEF IsChain
    <3>3. i - 1 \in Twice
      BY <2>2, <2>3, <2>4, <3>1, <3>2
    <3> QED
      BY <2>1, <2>3, <3>3
  <2> QED
    BY <2>5, <2>6
<1> QED
  BY <1>1

\* get_node_at() finds the node of each index.
LEMMA WalkFindsNode ==
  ASSUME NEW ll, ll.size \in Nat, NEW s \in [1 .. ll.size -> Node], IsChain(ll, s),
         NEW index \in 0 .. ll.size - 1
  PROVE  get_node_at(ll, index) = s[index + 1]
<1> DEFINE Steps(f) == [i \in 0 .. index |->
             IF i = 0 THEN ll.first
             ELSE IF f[i - 1] = NULL THEN NULL ELSE heap[f[i - 1]].next]
           current == CHOOSE f : f = Steps(f)
           chain == [i \in 0 .. index |-> s[i + 1]]
<1>1. get_node_at(ll, index) = current[index]
  BY DEF get_node_at
<1>2. chain = Steps(chain)
  <2>1. ASSUME NEW i \in 0 .. index
        PROVE  s[i + 1] = IF i = 0 THEN ll.first
                          ELSE IF chain[i - 1] = NULL THEN NULL ELSE heap[chain[i - 1]].next
    <3>1. CASE i = 0
      BY <3>1 DEF IsChain
    <3>2. CASE i # 0
      <4>1. i - 1 \in 0 .. index /\ i \in 1 .. ll.size /\ i + 1 \in 1 .. ll.size
        BY <3>2
      <4>2. chain[i - 1] = s[i] /\ s[i] \in Node
        BY <4>1
      <4>3. heap[s[i]].next = s[i + 1]
        BY <4>1 DEF IsChain
      <4> QED
        BY <3>2, <4>2, <4>3
    <3> QED
      BY <3>1, <3>2
  <2> QED
    BY <2>1
<1> HIDE DEF Steps, chain
<1>3. current = Steps(current)
  BY <1>2
<1> HIDE DEF current
<1> DEFINE Differ == {i \in 0 .. index : current[i] # s[i + 1]}
<1>4. ASSUME Differ # {} PROVE FALSE
  <2>1. PICK i \in Differ : \A k \in Differ : i <= k
    <3>1. Differ \subseteq Nat
      OBVIOUS
    <3> HIDE DEF Differ
    <3> QED
      BY <1>4, <3>1, LeastNumber
  <2>2. /\ i \in 0 .. index
        /\ current[i] = IF i = 0 THEN ll.first
                        ELSE IF current[i - 1] = NULL THEN NULL ELSE heap[current[i - 1]].next
        /\ s[i + 1] = IF i = 0 THEN ll.first
                      ELSE IF chain[i - 1] = NULL THEN NULL ELSE heap[chain[i - 1]].next
    <3>1. Steps(current)[i] = current[i] /\ Steps(chain)[i] = chain[i] /\ chain[i] = s[i + 1]
      BY <1>2, <1>3 DEF chain
    <3> QED
      BY <3>1 DEF Steps
  <2>3. i # 0
    BY <2>1, <2>2
  <2>4. i - 1 \in 0 .. index /\ i - 1 \notin Differ
    BY <2>1, <2>2, <2>3
  <2>5. current[i - 1] = chain[i - 1]
    BY <2>4 DEF chain
  <2> QED
    BY <2>1, <2>2, <2>5
<1>5. index \in 0 .. index
  OBVIOUS
<1> QED
  BY <1>1, <1>4, <1>5

(* The list in use while the next one is built.                             *)

Chained(ll) == \E s \in [1 .. ll.size -> Node] : IsChain(ll, s)

\* The list that requests walk over is a chain in every state, and the one
\* read_config() appends to has no node of it.
ListsApart ==
  /\ Chained(backends)
  /\ pc \in {"fill", "parse"} => forwards.nodes \cap backends.nodes = {}

LEMMA EmptyIsChained == Chained(EmptyList)
  BY EmptyHolds DEF Holds, Chained

LEMMA ForwardsAreChained == ASSUME IInv, pc \in {"fill", "parse"} PROVE Chained(forwards)
<1>1. \E values : Holds(forwards, values)
  BY DEF IInv, Progress, InFirstBlock, Reading, PastFirstBlock, Complete
<1> QED
  BY <1>1 DEF Holds, Chained

\* Without a change of the heap, a chain remains one.
LEMMA SameChain ==
  ASSUME heap' = heap,
         \/ backends' = backends /\ Chained(backends)
         \/ backends' = forwards /\ Chained(forwards)
  PROVE  Chained(backends)'
<1>1. PICK s \in [1 .. backends'.size -> Node] : IsChain(backends, s)'
  <2>1. CASE backends' = backends /\ Chained(backends)
    BY <2>1 DEF Chained, IsChain
  <2>2. CASE backends' = forwards /\ Chained(forwards)
    BY <2>2 DEF Chained, IsChain
  <2> QED
    BY <2>1, <2>2
<1> QED
  BY <1>1 DEF Chained

\* append_node() writes to a node that is in no list, and to the last one of the
\* list it extends.
LEMMA AppendLeavesBackends ==
  ASSUME IInv, ListsApart, pc = "parse", NEW value, append_node(value), backends' = backends
  PROVE  Chained(backends)' /\ forwards'.nodes \cap backends'.nodes = {}
<1>1. PICK n \in Node \ (forwards.nodes \cup backends.nodes) :
        /\ heap' = [x \in Node |->
             IF x = n THEN [prev |-> forwards.last, value |-> value, next |-> NULL]
             ELSE IF x = forwards.last THEN [heap[x] EXCEPT !.next = n] ELSE heap[x]]
        /\ forwards' = [first |-> IF forwards.first = NULL THEN n ELSE forwards.first,
                        last |-> n, size |-> forwards.size + 1,
                        nodes |-> forwards.nodes \cup {n}]
  BY DEF append_node
<1>2. PICK t \in [1 .. forwards.size -> Node] : IsChain(forwards, t)
  <2>1. Chained(forwards)
    BY ForwardsAreChained
  <2> QED
    BY <2>1 DEF Chained
<1>3. forwards.last \in forwards.nodes \cup {NULL}
  <2>1. forwards.size \in Nat
    BY DEF IInv, TypeOK, List
  <2> QED
    BY <1>2, <2>1 DEF IsChain
<1>4. forwards.nodes \cap backends.nodes = {}
  BY DEF ListsApart
<1>5. PICK s \in [1 .. backends.size -> Node] : IsChain(backends, s)
  BY DEF ListsApart, Chained
<1>6. \A i \in 1 .. backends.size : heap'[s[i]] = heap[s[i]]
  <2> SUFFICES ASSUME NEW i \in 1 .. backends.size PROVE heap'[s[i]] = heap[s[i]]
    OBVIOUS
  <2>1. s[i] \in Node /\ s[i] \in backends.nodes
    BY <1>5 DEF IsChain
  <2>2. s[i] # n /\ s[i] # forwards.last
    BY <1>1, <1>3, <1>4, <2>1
  <2> QED
    BY <1>1, <2>1, <2>2
<1>7. IsChain(backends, s)'
  <2>1. backends.size \in Nat
    BY DEF IInv, TypeOK, List
  <2> QED
    BY <1>5, <1>6, <2>1 DEF IsChain
<1>8. Chained(backends)'
  BY <1>5, <1>7 DEF Chained
<1> QED
  BY <1>1, <1>4, <1>8

LEMMA ApartInit == Init => ListsApart
<1> SUFFICES ASSUME Init PROVE ListsApart
  OBVIOUS
<1>1. backends = EmptyList /\ pc = "off"
  BY DEF Init
<1> QED
  BY <1>1, EmptyIsChained DEF ListsApart

LEMMA ApartStep == IInv /\ ListsApart /\ [Next]_vars => ListsApart'
<1> SUFFICES ASSUME IInv, ListsApart, [Next]_vars PROVE ListsApart'
  OBVIOUS
<1>1. CASE Truncate \/ Dump \/ Fill \/ UNCHANGED vars
  <2>1. UNCHANGED <<heap, forwards, backends>> /\ (pc' = pc \/ pc = "fill")
    BY <1>1 DEF Truncate, Dump, Write, Fill, vars, reader
  <2>2. Chained(backends)'
    BY <2>1, SameChain DEF ListsApart
  <2> QED
    BY <2>1, <2>2 DEF ListsApart
<1>2. CASE Boot \/ Reload
  <2>1. UNCHANGED <<heap, backends>> /\ forwards' = EmptyList
    BY <1>2 DEF Boot, Reload, OpenFile
  <2>2. Chained(backends)'
    BY <2>1, SameChain DEF ListsApart
  <2> QED
    BY <2>1, <2>2 DEF ListsApart, EmptyList
<1>3. CASE Parse
  <2>1. PICK line \in Text : /\ IF line.key = "-" /\ parsing_forwards
                                THEN append_node(line.value) ELSE UNCHANGED <<heap, forwards>>
                            /\ backends' = backends
    BY <1>3, ParseLine
  <2>2. pc = "parse"
    BY <1>3 DEF Parse
  <2>3. CASE append_node(line.value)
    BY <2>1, <2>2, <2>3, AppendLeavesBackends DEF ListsApart
  <2>4. CASE UNCHANGED <<heap, forwards>>
    <3>1. Chained(backends)'
      BY <2>1, <2>4, SameChain DEF ListsApart
    <3> QED
      BY <2>1, <2>2, <2>4, <3>1 DEF ListsApart
  <2> QED
    BY <2>1, <2>3, <2>4
<1>4. CASE Finish
  <2>1. pc = "fill" /\ pc' = "idle" /\ heap' = heap /\ backends' = forwards
    BY <1>4 DEF Finish
  <2> QED
    BY <2>1, ForwardsAreChained, SameChain DEF ListsApart
<1>5. CASE Die
  <2>1. pc' = "off" /\ backends' = EmptyList
    BY <1>5 DEF Die
  <2>2. PICK s \in [1 .. EmptyList.size -> Node] : TRUE
    BY EmptyIsChained DEF Chained
  <2>3. EmptyList.size = 0 /\ EmptyList.first = NULL /\ EmptyList.last = NULL
    BY DEF EmptyList
  <2>4. IsChain(backends, s)' /\ s \in [1 .. backends'.size -> Node]
    BY <2>1, <2>2, <2>3 DEF IsChain
  <2> QED
    BY <2>1, <2>4 DEF ListsApart, Chained
<1> QED
  BY <1>1, <1>2, <1>3, <1>4, <1>5 DEF Next

\* Every index of the list in use leads to a node of its own.
LEMMA IndexesOfChain == IInv /\ ListsApart => EveryIndexHasItsNode
<1> SUFFICES ASSUME IInv, ListsApart,
                    NEW i \in 0 .. (backends.size - 1), NEW j \in 0 .. (backends.size - 1)
             PROVE  /\ get_node_at(backends, i) \in backends.nodes
                    /\ get_node_at(backends, i) = get_node_at(backends, j) => i = j
  BY DEF EveryIndexHasItsNode
<1>1. backends.size \in Nat
  BY DEF IInv, TypeOK, List
<1>2. PICK s \in [1 .. backends.size -> Node] : IsChain(backends, s)
  BY DEF ListsApart, Chained
<1>3. get_node_at(backends, i) = s[i + 1] /\ get_node_at(backends, j) = s[j + 1]
  BY <1>1, <1>2, WalkFindsNode
<1>4. i + 1 \in 1 .. backends.size /\ j + 1 \in 1 .. backends.size
  BY <1>1
<1>5. s[i + 1] \in backends.nodes
  BY <1>2, <1>4 DEF IsChain
<1>6. s[i + 1] = s[j + 1] => i + 1 = j + 1
  BY <1>1, <1>2, <1>4, ChainIsInjective
<1> QED
  BY <1>3, <1>5, <1>6

-----------------------------------------------------------------------------
(* The list that is read, as one value.                                     *)

\* Walking over a list by index gives the values it holds.
LEMMA ValuesHeld ==
  ASSUME NEW ll \in List, NEW values \in Seq(Host \cup {NULL}), Holds(ll, values)
  PROVE  Values(ll) = values
<1>1. ll.size \in Nat /\ ll.size = Len(values)
  BY DEF List, Holds
<1>2. PICK s \in [1 .. ll.size -> Node] :
        IsChain(ll, s) /\ \A i \in 1 .. ll.size : heap[s[i]].value = values[i]
  BY DEF Holds
<1>3. \A i \in 1 .. ll.size : heap[get_node_at(ll, i - 1)].value = values[i]
  <2> SUFFICES ASSUME NEW i \in 1 .. ll.size
               PROVE  heap[get_node_at(ll, i - 1)].value = values[i]
    OBVIOUS
  <2>1. i - 1 \in 0 .. ll.size - 1 /\ (i - 1) + 1 = i
    BY <1>1
  <2>2. get_node_at(ll, i - 1) = s[i]
    BY <1>1, <1>2, <2>1, WalkFindsNode
  <2> QED
    BY <1>2, <2>2
<1>4. Values(ll) = [i \in 1 .. Len(values) |-> values[i]]
  BY <1>1, <1>3 DEF Values
<1> QED
  BY <1>4

\* The list in use holds the values one walks over.
LEMMA BackendsHoldValues ==
  ASSUME IInv, ListsApart
  PROVE  \E values \in Seq(Host \cup {NULL}) : Holds(backends, values)
<1>1. backends.size \in Nat /\ heap \in [Node -> NodeRecord]
  BY DEF IInv, TypeOK, List, NodeRecord
<1>2. PICK s \in [1 .. backends.size -> Node] : IsChain(backends, s)
  BY DEF ListsApart, Chained
<1>3. PICK values : values = [i \in 1 .. backends.size |-> heap[s[i]].value]
  OBVIOUS
<1>4. \A i \in 1 .. backends.size : heap[s[i]].value \in Host \cup {NULL}
  BY <1>1, <1>2 DEF NodeRecord
<1>5. values \in Seq(Host \cup {NULL}) /\ Len(values) = backends.size
  BY <1>1, <1>3, <1>4
<1> QED
  BY <1>2, <1>3, <1>5 DEF Holds

\* Nothing is to come once the list is complete, ...
LEMMA NothingComing == \A list : Complete(list) => Coming = <<>>
<1> SUFFICES ASSUME NEW list, Complete(list) PROVE Coming = <<>>
  OBVIOUS
<1>1. parsing_forwards = FALSE /\ {i \in 1 .. Len(buffer) : buffer[i].key = "forwards"} = {}
  BY DEF Complete
<1> QED
  BY <1>1 DEF Coming

\* ... and before that the items after the current line.
LEMMA RestComing ==
  ASSUME NEW list \in Seq(Host), NEW k \in 1 .. Len(list) + 3, buffer \in Seq(Text),
         RestOf(list, k), parsing_forwards = (IF k >= 3 THEN TRUE ELSE FALSE)
  PROVE  Coming = [i \in 1 .. Len(list) - Before(list, k) |-> list[Before(list, k) + i]]
<1>1. Len(list) \in Nat /\ Len(buffer) = Len(list) + 4 - k /\ DOMAIN buffer = 1 .. Len(buffer)
  BY DEF RestOf
<1>2. \A i \in 1 .. Len(buffer) : buffer[i] = Lines(list)[k + i - 1] /\ k + i - 1 \in 1 .. Len(list) + 3
  BY <1>1 DEF RestOf
<1>0. \A i \in 3 .. Len(list) + 2 : Lines(list)[i].key = "-" /\ Lines(list)[i].value = list[i - 2]
  <2>1. \A h : Item(h).key = "-" /\ Item(h).value = h
    BY DEF Item
  <2>2. \A i \in 3 .. Len(list) + 2 : Lines(list)[i] = Item(list[i - 2])
    BY LinesOf
  <2> QED
    BY <2>1, <2>2
<1>3. \A i \in 1 .. Len(list) + 3 : Lines(list)[i].key = "forwards" <=> i = 2
  <2>1. \A i \in 3 .. Len(list) + 2 : Lines(list)[i].key = "-"
    BY <1>0
  <2>2. /\ Lines(list)[1].key = "entry" /\ Lines(list)[2].key = "forwards"
        /\ Lines(list)[Len(list) + 3].key = "port"
    BY LinesOf DEF Line
  <2>3. \A i \in 1 .. Len(list) + 3 : i = 1 \/ i = 2 \/ i \in 3 .. Len(list) + 2 \/ i = Len(list) + 3
    BY <1>1
  <2> QED
    BY <1>1, <2>1, <2>2, <2>3
<1>4. \A i \in 1 .. Len(list) : Lines(list)[i + 2].value = list[i]
  <2>1. \A i \in 1 .. Len(list) : i + 2 \in 3 .. Len(list) + 2 /\ (i + 2) - 2 = i
    BY <1>1
  <2> QED
    BY <1>0, <2>1
<1> DEFINE Keys == {i \in DOMAIN buffer : buffer[i].key = "forwards"}
           key == IF parsing_forwards THEN 0 ELSE CHOOSE i \in Keys : TRUE
           b == Before(list, k)
<1>5. \A i \in 1 .. Len(buffer) : i \in Keys <=> i = 3 - k
  <2>1. \A i \in 1 .. Len(buffer) : k + i - 1 = 2 <=> i = 3 - k
    BY <1>1
  <2> QED
    BY <1>1, <1>2, <1>3, <2>1
<1>6. /\ parsing_forwards \/ Keys # {}
      /\ key = b + 3 - k /\ b \in 0 .. Len(list) /\ k <= b + 3
  <2>1. CASE k <= 2
    <3>1. parsing_forwards = FALSE /\ b = 0
      BY <1>1, <2>1 DEF Before
    <3>2. 3 - k \in 1 .. Len(buffer)
      BY <1>1, <2>1
    <3>3. Keys = {3 - k}
      BY <1>1, <1>5, <3>2
    <3>4. key = 3 - k
      BY <3>1, <3>3
    <3> QED
      BY <1>1, <3>1, <3>3, <3>4
  <2>2. CASE k >= 3
    <3>1. parsing_forwards = TRUE /\ b = k - 3
      BY <1>1, <2>2 DEF Before
    <3> QED
      BY <1>1, <2>2, <3>1
  <2> QED
    BY <2>1, <2>2
<1>7. Coming = [i \in 1 .. Len(buffer) - key - 1 |-> buffer[key + i].value]
  BY <1>6 DEF Coming
<1> HIDE DEF Keys, key, b
<1>8. Len(buffer) - key - 1 = Len(list) - b
  BY <1>1, <1>6
<1>9. \A i \in 1 .. Len(list) - b : buffer[key + i].value = list[b + i]
  <2> SUFFICES ASSUME NEW i \in 1 .. Len(list) - b
               PROVE  buffer[key + i].value = list[b + i]
    OBVIOUS
  <2>1. PICK c \in 0 .. Len(list) : c = b /\ key = c + 3 - k /\ k <= c + 3 /\ i \in 1 .. Len(list) - c
    BY <1>6
  <2>2. /\ c + i \in 1 .. Len(list) /\ (c + 3 - k) + i \in 1 .. Len(buffer)
        /\ k + ((c + 3 - k) + i) - 1 = (c + i) + 2
    BY <1>1, <1>6, <2>1
  <2>3. /\ buffer[(c + 3 - k) + i] = Lines(list)[k + ((c + 3 - k) + i) - 1]
        /\ Lines(list)[(c + i) + 2].value = list[c + i]
    BY <1>2, <1>4, <2>2
  <2> QED
    BY <2>1, <2>2, <2>3
<1>10. Coming = [i \in 1 .. Len(list) - b |-> list[b + i]]
  BY <1>7, <1>8, <1>9
<1> QED
  BY <1>10 DEF b

\* From the first block on, the list being read is the version of that block.
ReadIsPool ==
  \A list \in Seq(Host) :
    /\ TypeOK /\ pc \in {"fill", "parse"} /\ offset # 0
    /\ Reading(list) \/ Complete(list)
    => Pool = list

LEMMA PoolIsRead == ReadIsPool
<1> SUFFICES ASSUME NEW list \in Seq(Host), TypeOK, pc \in {"fill", "parse"}, offset # 0,
                    Reading(list) \/ Complete(list)
             PROVE  Pool = list
  BY DEF ReadIsPool
<1>1. Pool = Values(forwards) \o Coming /\ forwards \in List /\ buffer \in Seq(Text)
  BY DEF Pool, TypeOK
<1>2. CASE Complete(list)
  <2>1. list \in Seq(Host \cup {NULL}) /\ Holds(forwards, list)
    BY <1>2 DEF Complete
  <2>2. Values(forwards) = list
    BY <1>1, <2>1, ValuesHeld
  <2>3. Coming = <<>>
    BY <1>2, NothingComing
  <2> QED
    BY <1>1, <2>2, <2>3
<1>3. CASE Reading(list)
  <2>1. PICK k \in 1 .. Len(list) + 3 :
          /\ RestOf(list, k)
          /\ parsing_forwards = (IF k >= 3 THEN TRUE ELSE FALSE)
          /\ Holds(forwards, SubSeq(list, 1, Before(list, k)))
    BY <1>3 DEF Reading
  <2>2. PICK b \in 0 .. Len(list) : b = Before(list, k)
    BY DEF Before
  <2>3. SubSeq(list, 1, b) \in Seq(Host \cup {NULL})
    OBVIOUS
  <2>4. Values(forwards) = SubSeq(list, 1, b)
    BY <1>1, <2>1, <2>2, <2>3, ValuesHeld
  <2>5. Coming = [i \in 1 .. Len(list) - b |-> list[b + i]]
    BY <1>1, <2>1, <2>2, RestComing
  <2>6. SubSeq(list, 1, b) \o [i \in 1 .. Len(list) - b |-> list[b + i]] = list
    OBVIOUS
  <2> QED
    BY <1>1, <2>4, <2>5, <2>6
<1> QED
  BY <1>2, <1>3

\* At other times it is the list in use.
UseIsPool ==
  \A values \in Seq(Host \cup {NULL}) :
    /\ TypeOK /\ ~(pc \in {"fill", "parse"} /\ offset # 0)
    /\ Holds(backends, values)
    => Pool = values

LEMMA PoolIsInUse == UseIsPool
<1> SUFFICES ASSUME NEW values \in Seq(Host \cup {NULL}), TypeOK,
                    ~(pc \in {"fill", "parse"} /\ offset # 0), Holds(backends, values)
             PROVE  Pool = values
  BY DEF UseIsPool
<1>1. Pool = Values(backends) /\ backends \in List
  BY DEF Pool, TypeOK
<1> QED
  BY <1>1, ValuesHeld

-----------------------------------------------------------------------------
(* Reading is atomic.  ReadIsPool and UseIsPool name the two lemmas above   *)
(* so that they can be used in the state before a step and in that after it.*)

\* Nothing that the pool depends on changes.
LEMMA PoolStays ==
  ASSUME IInv, ListsApart, ReadIsPool, UseIsPool, TypeOK', ReadIsPool', UseIsPool',
         UNCHANGED <<pc, offset, buffer, parsing_forwards, port, heap, forwards, backends>>
  PROVE  Pool' = Pool
<1>1. CASE pc \in {"fill", "parse"} /\ offset # 0
  <2>1. PICK list \in seen : Reading(list) \/ Complete(list)
    BY <1>1 DEF IInv, Progress, InFirstBlock, PastFirstBlock
  <2>2. list \in Seq(Host) /\ TypeOK
    BY SeenAreLists DEF IInv
  <2>3. Reading(list) => Reading(list)'
    <3> SUFFICES ASSUME NEW k \in 1 .. Len(list) + 3, RestOf(list, k),
                        parsing_forwards = (IF k >= 3 THEN TRUE ELSE FALSE),
                        Holds(forwards, SubSeq(list, 1, Before(list, k)))
                 PROVE  Reading(list)'
      BY DEF Reading
    <3>1. RestOf(list, k)' /\ parsing_forwards' = (IF k >= 3 THEN TRUE ELSE FALSE)
      BY DEF RestOf
    <3>2. PICK values : values = SubSeq(list, 1, Before(list, k))
      OBVIOUS
    <3>3. Holds(forwards, values)'
      BY <3>2, SameHeap
    <3> QED
      BY <3>1, <3>2, <3>3 DEF Reading
  <2>4. Complete(list) => Complete(list)'
    <3>1. Holds(forwards, list) => Holds(forwards, list)'
      BY SameHeap
    <3> QED
      BY <3>1 DEF Complete
  <2>5. Pool = list
    BY <1>1, <2>1, <2>2 DEF ReadIsPool
  <2>6. Pool' = list
    BY <1>1, <2>1, <2>2, <2>3, <2>4 DEF ReadIsPool
  <2> QED
    BY <2>5, <2>6
<1>2. CASE ~(pc \in {"fill", "parse"} /\ offset # 0)
  <2>1. PICK values \in Seq(Host \cup {NULL}) : Holds(backends, values)
    BY BackendsHoldValues
  <2>2. Holds(backends, values)'
    BY <2>1, SameBackends
  <2> QED
    BY <1>2, <2>1, <2>2 DEF UseIsPool, IInv
<1> QED
  BY <1>1, <1>2

\* The scaler publishes; a read that only begins changes nothing.
LEMMA PublishOrOpen ==
  ASSUME IInv, ListsApart, ReadIsPool, UseIsPool, TypeOK', ReadIsPool', UseIsPool',
         Truncate \/ Dump \/ Boot \/ Reload
  PROVE  [A!Next]_(A!readVars)
<1>1. CASE Truncate \/ Dump
  <2>1. PICK f \in Lists \cup {NULL} : Write(f)
    BY <1>1 DEF Truncate, Dump
  <2>2. /\ file' = f
        /\ UNCHANGED <<pc, offset, buffer, parsing_forwards, port, heap, forwards, backends>>
    BY <2>1 DEF Write, reader
  <2>3. Pool' = Pool
    BY <2>2, PoolStays
  <2>4. Listed(file)' \in Lists \cup {<<>>}
    BY <2>2 DEF Listed
  <2> QED
    BY <2>3, <2>4 DEF A!Next, A!Publish
<1>2. CASE Boot \/ Reload
  <2>1. /\ pc \in {"off", "idle"} /\ offset' = 0
        /\ UNCHANGED <<file, heap, backends>>
    BY <1>2 DEF Boot, Reload, OpenFile, scaler
  <2>2. PICK values \in Seq(Host \cup {NULL}) : Holds(backends, values)
    BY BackendsHoldValues
  <2>3. Holds(backends, values)'
    BY <2>1, <2>2, SameBackends
  <2>4. Pool = values /\ Pool' = values
    BY <2>1, <2>2, <2>3 DEF UseIsPool, IInv
  <2>5. Listed(file)' = Listed(file)
    BY <2>1 DEF Listed
  <2> QED
    BY <2>4, <2>5 DEF A!readVars
<1> QED
  BY <1>1, <1>2

\* The first block is the instant at which the list is read.
LEMMA FillReads ==
  ASSUME IInv, ListsApart, ReadIsPool, UseIsPool, TypeOK', ReadIsPool', UseIsPool', Fill
  PROVE  [A!Next]_(A!readVars)
<1>1. /\ pc = "fill" /\ pc' = "parse" /\ file' = file /\ offset' # 0 /\ file \in Lists
  <2>1. file # NULL /\ offset \in Nat /\ offset < Size(file)
    BY DEF Fill, IInv, TypeOK, Size
  <2>2. file \in Lists
    BY <2>1 DEF IInv, TypeOK
  <2> QED
    BY <2>1, <2>2, SizeOf DEF Fill, scaler
<1>2. Listed(file)' = Listed(file) /\ Listed(file) = file /\ file \in Seq(Host)
  BY <1>1 DEF Listed
<1>3. CASE offset = 0
  <2>1. PICK list : list = file
    OBVIOUS
  <2>2. Reading(list)'
    BY <1>3, <2>1, FirstFill
  <2>3. Pool' = list
    BY <1>1, <1>2, <2>1, <2>2 DEF ReadIsPool
  <2> QED
    BY <1>2, <2>1, <2>3 DEF A!Next, A!Read
<1>4. CASE offset # 0
  <2>1. PICK list \in seen : Complete(list)
    BY <1>1, <1>4 DEF IInv, Progress, PastFirstBlock
  <2>2. list \in Seq(Host) /\ Complete(list)'
    BY <1>4, <2>1, LaterFill, SeenAreLists DEF IInv
  <2>3. Pool = list /\ Pool' = list
    BY <1>1, <1>4, <2>1, <2>2 DEF ReadIsPool, IInv
  <2> QED
    BY <1>2, <2>3 DEF A!readVars
<1> QED
  BY <1>3, <1>4

\* Parsing adds to the list what was still to come.
LEMMA ParseKeeps ==
  ASSUME IInv, ListsApart, ReadIsPool, TypeOK', ReadIsPool', Parse
  PROVE  [A!Next]_(A!readVars)
<1>1. /\ pc = "parse" /\ pc' \in {"fill", "parse"} /\ offset' = offset /\ offset # 0
      /\ Listed(file)' = Listed(file)
  BY DEF Parse, scaler, IInv, Progress, Listed
<1>2. PICK list \in seen : Reading(list) \/ Complete(list)
  BY <1>1 DEF IInv, Progress, InFirstBlock, PastFirstBlock
<1>3. list \in Seq(Host)
  BY SeenAreLists DEF IInv
<1>4. Reading(list)' \/ Complete(list)'
  BY <1>2, FirstBlockStep, LaterBlockStep
<1>5. Pool = list /\ Pool' = list
  BY <1>1, <1>2, <1>3, <1>4 DEF ReadIsPool, IInv
<1> QED
  BY <1>1, <1>5 DEF A!readVars

\* What was read is put in use; an empty file is read at its end.
LEMMA FinishKeeps ==
  ASSUME IInv, ReadIsPool, TypeOK', UseIsPool', Finish
  PROVE  [A!Next]_(A!readVars)
<1>1. /\ pc = "fill" /\ pc' = "idle" /\ backends' = forwards /\ heap' = heap
      /\ Listed(file)' = Listed(file)
  BY DEF Finish, scaler, Listed
<1>2. PICK list \in Seq(Host) :
        /\ Holds(forwards, list)
        /\ IF offset = 0 THEN list = Listed(file) ELSE Pool = list
  <2>1. CASE offset = 0
    <3>1. file = NULL
      BY <2>1, SizeOf DEF Finish, IInv, TypeOK
    <3>2. Holds(forwards, <<>>) /\ Listed(file) = <<>> /\ <<>> \in Seq(Host)
      BY <1>1, <2>1, <3>1 DEF IInv, Progress, Listed
    <3> QED
      BY <2>1, <3>2
  <2>2. CASE offset # 0
    <3>1. PICK list \in seen : Complete(list)
      BY <1>1, <2>2 DEF IInv, Progress, PastFirstBlock
    <3>2. list \in Seq(Host)
      BY SeenAreLists DEF IInv
    <3>3. Pool = list
      BY <1>1, <2>2, <3>1, <3>2 DEF ReadIsPool, IInv
    <3> QED
      BY <2>2, <3>1, <3>2, <3>3 DEF Complete
  <2> QED
    BY <2>1, <2>2
<1>3. Holds(backends, list)' /\ list \in Seq(Host \cup {NULL})
  BY <1>1, <1>2 DEF Holds, IsChain
<1>4. Pool' = list
  BY <1>1, <1>3 DEF UseIsPool
<1> QED
  BY <1>1, <1>2, <1>4 DEF A!Next, A!Read, A!readVars

LEMMA DieForgets ==
  ASSUME TypeOK', UseIsPool', Holds(EmptyList, <<>>)', Die
  PROVE  [A!Next]_(A!readVars)
<1>1. pc' = "off" /\ backends' = EmptyList /\ Listed(file)' = Listed(file)
  BY DEF Die, scaler, Listed
<1>2. Holds(backends, <<>>)'
  <2>1. PICK s \in [1 .. EmptyList.size -> Node] :
          EmptyList.size = Len(<<>>) /\ IsChain(EmptyList, s)'
    BY DEF Holds, EmptyList
  <2>2. /\ s \in [1 .. backends'.size -> Node] /\ IsChain(backends, s)'
        /\ backends'.size = Len(<<>>)
    BY <1>1, <2>1 DEF IsChain
  <2>3. \A i \in 1 .. backends'.size : heap'[s[i]].value = <<>>[i]
    BY <2>2
  <2> QED
    BY <2>2, <2>3, Zenon DEF Holds
<1>3. Pool' = <<>>
  <2>1. <<>> \in Seq(Host \cup {NULL})
    OBVIOUS
  <2> QED
    BY <1>1, <1>2, <2>1 DEF UseIsPool
<1> QED
  BY <1>1, <1>3 DEF A!Next, A!Die

-----------------------------------------------------------------------------
(* The heap of the model is large enough.                                   *)

\* A list has no more nodes than elements.
NodesCounted(ll) == IsFiniteSet(ll.nodes) /\ Cardinality(ll.nodes) <= ll.size

\* The lists are no longer than those the scaler writes; of the list under
\* construction it follows from IInv.
ListsBounded(longest) ==
  NodesCounted(forwards) /\ NodesCounted(backends) /\ backends.size <= longest

\* malloc() in new_node() has an address to return whenever it is called.
NodeIsLeft ==
  pc = "parse" /\ Head(buffer).key = "-" /\ parsing_forwards =>
    Node \ (forwards.nodes \cup backends.nodes) # {}

LEMMA BoundedStep ==
  ASSUME NEW longest \in Nat, \A list \in Lists : Len(list) <= longest,
         IInv, ListsBounded(longest), [Next]_vars
  PROVE  ListsBounded(longest)'
<1>1. forwards.size \in Nat /\ backends.size \in Nat
  BY DEF IInv, TypeOK, List
<1>2. NodesCounted(EmptyList)
  BY <1>1, FS_EmptySet DEF NodesCounted, EmptyList
<1>3. CASE Truncate \/ Dump \/ Fill \/ UNCHANGED vars
  <2>1. UNCHANGED <<forwards, backends>>
    BY <1>3 DEF Truncate, Dump, Write, Fill, vars
  <2> QED
    BY <2>1 DEF ListsBounded, NodesCounted
<1>4. CASE Boot \/ Reload
  <2>1. forwards' = EmptyList /\ backends' = backends
    BY <1>4 DEF Boot, Reload, OpenFile
  <2> QED
    BY <1>2, <2>1 DEF ListsBounded, NodesCounted
<1>5. CASE Parse
  <2>1. PICK line \in Text : /\ IF line.key = "-" /\ parsing_forwards
                                THEN append_node(line.value) ELSE UNCHANGED <<heap, forwards>>
                            /\ backends' = backends
    BY <1>5, ParseLine
  <2>2. CASE append_node(line.value)
    <3>1. PICK n \in Node \ (forwards.nodes \cup backends.nodes) :
            /\ forwards'.size = forwards.size + 1
            /\ forwards'.nodes = forwards.nodes \cup {n}
      BY <2>2 DEF append_node
    <3>2. IsFiniteSet(forwards.nodes) /\ Cardinality(forwards.nodes) <= forwards.size
      BY DEF ListsBounded, NodesCounted
    <3>3. /\ IsFiniteSet(forwards'.nodes)
          /\ Cardinality(forwards'.nodes) = Cardinality(forwards.nodes) + 1
      BY <3>1, <3>2, FS_AddElement
    <3>4. Cardinality(forwards.nodes) \in Nat
      BY <3>2, FS_CardinalityType
    <3>5. Cardinality(forwards'.nodes) <= forwards'.size
      BY <1>1, <3>1, <3>2, <3>3, <3>4
    <3> QED
      BY <2>1, <3>3, <3>5 DEF ListsBounded, NodesCounted
  <2>3. CASE UNCHANGED forwards
    BY <2>1, <2>3 DEF ListsBounded, NodesCounted
  <2> QED
    BY <2>1, <2>2, <2>3
<1>6. CASE Finish
  <2>1. backends' = forwards /\ forwards' = forwards
    BY <1>6 DEF Finish
  <2>2. IInv'
    BY <1>6, FinishStep
  <2>3. PICK list \in seen' : Holds(backends, list)'
    BY <1>6, <2>2 DEF Finish, IInv, Progress
  <2>4. backends'.size = Len(list) /\ Len(list) <= longest
    <3>1. list \in Lists \cup {<<>>} /\ Len(<<>>) <= longest
      BY <2>2, <2>3 DEF IInv, TypeOK
    <3> QED
      BY <2>3, <3>1 DEF Holds
  <2> QED
    BY <2>1, <2>4 DEF ListsBounded, NodesCounted
<1>7. CASE Die
  <2>1. forwards' = EmptyList /\ backends' = EmptyList /\ EmptyList.size = 0
    BY <1>7 DEF Die, EmptyList
  <2> QED
    BY <1>2, <2>1 DEF ListsBounded, NodesCounted
<1> QED
  BY <1>3, <1>4, <1>5, <1>6, <1>7 DEF Next

\* An item is appended to a list that is not complete yet.
LEMMA RoomForItem ==
  ASSUME IInv, pc = "parse", Head(buffer).key = "-", parsing_forwards
  PROVE  \E list \in Lists : forwards.size < Len(list)
<1>1. PICK list \in seen : Reading(list)
  BY DEF IInv, Progress, InFirstBlock, PastFirstBlock, Complete
<1>2. PICK k \in 1 .. Len(list) + 3 :
        /\ RestOf(list, k)
        /\ parsing_forwards = (IF k >= 3 THEN TRUE ELSE FALSE)
        /\ Holds(forwards, SubSeq(list, 1, Before(list, k)))
  BY <1>1 DEF Reading
<1>3. list \in Seq(Host) /\ list \in Lists \cup {<<>>} /\ Len(list) \in Nat /\ k >= 3
  BY <1>1, <1>2, SeenAreLists DEF IInv, TypeOK
<1>4. Head(buffer) = Lines(list)[k]
  <2>1. buffer \in Seq(Text) /\ buffer # <<>>
    BY DEF IInv, TypeOK, Progress
  <2>2. Head(buffer) = buffer[1] /\ 1 \in 1 .. Len(buffer) /\ k + 1 - 1 = k
    BY <1>2, <2>1
  <2> QED
    BY <1>2, <2>2 DEF RestOf
<1>5. k # Len(list) + 3
  <2>1. Lines(list)[Len(list) + 3].key = "port"
    BY <1>3, LinesOf DEF Line
  <2> QED
    BY <1>4, <2>1
<1>6. PICK b \in Nat : b = Before(list, k) /\ b < Len(list)
  BY <1>2, <1>3, <1>5 DEF Before
<1>7. Len(SubSeq(list, 1, b)) = b
  BY <1>3, <1>6
<1>8. forwards.size = b
  BY <1>2, <1>6, <1>7 DEF Holds
<1>9. list # <<>>
  BY <1>3, <1>6
<1> QED
  BY <1>3, <1>6, <1>8, <1>9

-----------------------------------------------------------------------------
\* The invariant is inductive.
THEOREM Inductive == Spec => []IInv
<1>1. IInv /\ [Next]_vars => IInv'
  <2> SUFFICES ASSUME IInv, [Next]_vars PROVE IInv'
    OBVIOUS
  <2>1. CASE Truncate \/ Dump
    BY <2>1, WriteStep
  <2>2. CASE Boot \/ Reload
    BY <2>2, OpenStep
  <2>3. CASE Fill
    BY <2>3, FillStep
  <2>4. CASE Parse
    BY <2>4, ParseStep
  <2>5. CASE Finish
    BY <2>5, FinishStep
  <2>6. CASE Die
    BY <2>6, DieStep
  <2>7. CASE UNCHANGED vars
    <3>1. UNCHANGED <<file, writes, pc, offset, buffer, parsing_forwards, port, listening,
                      heap, forwards, backends, seen>>
      BY <2>7 DEF vars, scaler, reader
    <3>2. TypeOK'
      BY <3>1 DEF IInv, TypeOK
    <3>3. \A values : /\ Holds(forwards, values) => Holds(forwards, values)'
                      /\ Holds(backends, values) => Holds(backends, values)'
      BY <3>1, SameHeap, SameBackends
    <3>4. InFirstBlock => InFirstBlock'
      <4> SUFFICES ASSUME NEW list \in seen, NEW k \in 1 .. Len(list) + 3, RestOf(list, k),
                          parsing_forwards = (IF k >= 3 THEN TRUE ELSE FALSE),
                          Holds(forwards, SubSeq(list, 1, Before(list, k)))
                   PROVE  InFirstBlock'
        BY DEF InFirstBlock, Reading
      <4>1. RestOf(list, k)'
        BY <3>1 DEF RestOf
      <4>2. PICK values : values = SubSeq(list, 1, Before(list, k))
        OBVIOUS
      <4>3. Holds(forwards, values)'
        BY <3>3, <4>2
      <4>4. Holds(forwards, SubSeq(list, 1, Before(list, k)))'
        BY <4>2, <4>3
      <4> QED
        BY <3>1, <4>1, <4>4 DEF InFirstBlock, Reading
    <3>5. PastFirstBlock => PastFirstBlock'
      BY <3>1, <3>3 DEF PastFirstBlock, Complete
    <3>6. Progress'
      BY <3>1, <3>3, <3>4, <3>5 DEF IInv, Progress, Listed
    <3> QED
      BY <3>2, <3>6 DEF IInv
  <2> QED
    BY <2>1, <2>2, <2>3, <2>4, <2>5, <2>6, <2>7 DEF Next
<1> QED
  BY InitHolds, <1>1, PTL DEF Spec

\* TypeOK for any hosts, lists, nodes and number of rewrites.
THEOREM TypeCorrect == Spec => []TypeOK
BY Inductive, PTL DEF IInv

\* The backends are one version of the file as a whole, however the rewrites
\* and the reads of the file's blocks interleave.
THEOREM OneVersionRead == Spec => []ReadsOneVersion
<1>1. IInv => ReadsOneVersion
  BY DEF IInv, Progress, ReadsOneVersion
<1> QED
  BY Inductive, <1>1, PTL

\* Only a read that came to the end of a truncated file leaves prescal to listen
\* on a port that the file does not name, and then without backends.
THEOREM ListensOnFilePort == Spec => ListensElsewhereOnlyIfTruncated
<1>1. IInv /\ [Next]_vars =>
        (listening = "none" /\ listening' = "garbage" => file = NULL /\ backends'.size = 0)
  <2> SUFFICES ASSUME IInv, [Next]_vars, listening = "none", listening' = "garbage"
               PROVE  file = NULL /\ backends'.size = 0
    OBVIOUS
  <2>1. Finish
    BY DEF Next, Truncate, Dump, Write, Boot, Reload, OpenFile, Fill, Parse, Die, vars, reader, scaler
  <2>2. pc = "fill" /\ backends' = forwards /\ port = "garbage" /\ Size(file) <= offset
    BY <2>1 DEF Finish
  <2>3. offset = 0 /\ Holds(forwards, <<>>)
    BY <2>2 DEF IInv, Progress, PastFirstBlock, Complete
  <2>4. file = NULL
    <3> SUFFICES ASSUME file # NULL PROVE FALSE
      OBVIOUS
    <3>1. file \in Lists
      BY DEF IInv, TypeOK
    <3>2. Size(file) \in Nat /\ Size(file) >= 41
      BY <3>1, SizeOf
    <3> QED
      BY <2>2, <2>3, <3>2
  <2> QED
    BY <2>2, <2>3, <2>4 DEF Holds
<1>2. [][listening = "none" /\ listening' = "garbage" => file = NULL /\ backends'.size = 0]_vars
        <=> ListensElsewhereOnlyIfTruncated
  BY PTL DEF ListensElsewhereOnlyIfTruncated
<1> QED
  BY Inductive, <1>1, PTL DEF Spec, ListensElsewhereOnlyIfTruncated

\* get_node_at() never finds NULL below the size ("Should not happen if size is
\* correct", linkedlist.c:73), nor a node twice or one of another list, for lists
\* of any length, also while read_config() builds the next one.
THEOREM IndexesHaveNodes == Spec => []EveryIndexHasItsNode
<1>1. Init => ListsApart
  BY ApartInit
<1>2. IInv /\ ListsApart /\ [Next]_vars => ListsApart'
  BY ApartStep
<1>3. IInv /\ ListsApart => EveryIndexHasItsNode
  BY IndexesOfChain
<1> QED
  BY <1>1, <1>2, <1>3, Inductive, PTL DEF Spec

\* read_config() takes the list of the file over as if in one step, for any lists
\* and however often the file is truncated and written while it is read: what
\* Engine and System assume of it.
THEOREM ReadImplementsAtomicRead == Spec => ReadsAtomically
<1>1. Init => A!Init
  <2> SUFFICES ASSUME Init PROVE A!Init
    OBVIOUS
  <2>1. pc = "off" /\ backends = EmptyList /\ Listed(file) \in Lists \cup {<<>>} /\ TypeOK
    BY InitHolds DEF Init, Listed, IInv
  <2>2. Holds(backends, <<>>) /\ <<>> \in Seq(Host \cup {NULL})
    BY <2>1, EmptyHolds
  <2>3. Pool = <<>>
    BY <2>1, <2>2, PoolIsInUse DEF UseIsPool
  <2> QED
    BY <2>1, <2>3 DEF A!Init
<1>2. Init => ListsApart
  BY ApartInit
<1>3. IInv /\ ListsApart /\ [Next]_vars => ListsApart'
  BY ApartStep
<1>4. /\ IInv /\ ListsApart /\ ReadIsPool /\ UseIsPool
      /\ IInv' /\ ReadIsPool' /\ UseIsPool' /\ Holds(EmptyList, <<>>)' /\ [Next]_vars
      => [A!Next]_(A!readVars)
  <2> SUFFICES ASSUME IInv, ListsApart, ReadIsPool, UseIsPool,
                      IInv', ReadIsPool', UseIsPool', Holds(EmptyList, <<>>)', [Next]_vars
               PROVE  [A!Next]_(A!readVars)
    OBVIOUS
  <2>0. TypeOK'
    BY DEF IInv
  <2>1. CASE Truncate \/ Dump \/ Boot \/ Reload
    BY <2>0, <2>1, PublishOrOpen
  <2>2. CASE Fill
    BY <2>0, <2>2, FillReads
  <2>3. CASE Parse
    BY <2>0, <2>3, ParseKeeps
  <2>4. CASE Finish
    BY <2>0, <2>4, FinishKeeps
  <2>5. CASE Die
    BY <2>0, <2>5, DieForgets
  <2>6. CASE UNCHANGED vars
    <3>1. /\ UNCHANGED <<pc, offset, buffer, parsing_forwards, port, heap, forwards, backends>>
          /\ Listed(file)' = Listed(file)
      BY <2>6 DEF vars, scaler, reader, Listed
    <3> QED
      BY <2>0, <3>1, PoolStays DEF A!readVars
  <2> QED
    BY <2>1, <2>2, <2>3, <2>4, <2>5, <2>6 DEF Next
<1> QED
  BY <1>1, <1>2, <1>3, <1>4, Inductive, PoolIsRead, PoolIsInUse, EmptyHolds, PTL
  DEF Spec, ReadsAtomically, A!Spec

\* The list in use and the one being read need no more nodes than two of the
\* longest lists have, however often the file is rewritten: with that many, the
\* model's heap never keeps append_node() from going on.
THEOREM NodesSuffice ==
  ASSUME NEW longest \in Nat, \A list \in Lists : Len(list) <= longest,
         IsFiniteSet(Node), Cardinality(Node) >= 2 * longest
  PROVE  Spec => []NodeIsLeft
<1>1. Init => ListsBounded(longest)
  <2> SUFFICES ASSUME Init PROVE ListsBounded(longest)
    OBVIOUS
  <2>1. forwards = EmptyList /\ backends = EmptyList
    BY DEF Init
  <2> QED
    BY <2>1, FS_EmptySet DEF ListsBounded, NodesCounted, EmptyList
<1>2. IInv /\ ListsBounded(longest) /\ [Next]_vars => ListsBounded(longest)'
  BY BoundedStep
<1>3. IInv /\ ListsBounded(longest) => NodeIsLeft
  <2> SUFFICES ASSUME IInv, ListsBounded(longest),
                      pc = "parse", Head(buffer).key = "-", parsing_forwards,
                      Node \subseteq forwards.nodes \cup backends.nodes
               PROVE  FALSE
    BY DEF NodeIsLeft
  <2>1. forwards.size < longest /\ forwards.size \in Nat /\ backends.size \in Nat
    <3>1. PICK list \in Lists : forwards.size < Len(list)
      BY RoomForItem
    <3>2. forwards.size \in Nat /\ backends.size \in Nat /\ Len(list) \in Nat
      BY DEF IInv, TypeOK, List
    <3> QED
      BY <3>1, <3>2
  <2> DEFINE F == forwards.nodes
             B == backends.nodes
  <2>2. /\ IsFiniteSet(F) /\ Cardinality(F) <= forwards.size
        /\ IsFiniteSet(B) /\ Cardinality(B) <= backends.size /\ backends.size <= longest
    BY DEF ListsBounded, NodesCounted
  <2> HIDE DEF F, B
  <2>3. /\ IsFiniteSet(F \cup B)
        /\ Cardinality(F \cup B) = Cardinality(F) + Cardinality(B) - Cardinality(F \cap B)
    BY <2>2, FS_Union
  <2>4. /\ Cardinality(F) \in Nat /\ Cardinality(B) \in Nat
        /\ Cardinality(F \cap B) \in Nat /\ Cardinality(Node) \in Nat
    BY <2>2, FS_CardinalityType, FS_Intersection
  <2>5. Cardinality(Node) <= Cardinality(F \cup B)
    <3>1. Node \subseteq F \cup B
      BY DEF F, B
    <3> QED
      BY <2>3, <3>1, FS_Subset
  <2> QED
    BY <2>1, <2>2, <2>3, <2>4, <2>5
<1> QED
  BY <1>1, <1>2, <1>3, Inductive, PTL DEF Spec
=============================================================================
