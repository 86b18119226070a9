-------------------------- MODULE DashboardProofs --------------------------
(***************************************************************************)
(* The invariants of Dashboard, for any days, ports and number of queries    *)
(* that are on their way at the same time.                                  *)
(***************************************************************************)
EXTENDS Dashboard, TLAPS

USE DashboardAssumption

(* The inductive invariant.                                                 *)
Asked == [query : Query, late : BOOLEAN]
Current == buildFluxQuery(isRealtimeMode, selectedDate)

Types ==
  /\ page \in {"new", "mounted", "destroyed"}
  /\ isRealtimeMode \in BOOLEAN /\ selectedDate \in Date
  /\ refreshInterval \in Timer \cup {NULL} /\ timers \subseteq Timer
  /\ pending \in Seq(Asked)
  /\ serverData \in [query : Query \cup {NULL}, ports : SUBSET Port,
                     limited : BOOLEAN, late : BOOLEAN]
  /\ ports \subseteq serverData.ports
  /\ loading \in BOOLEAN /\ error \in BOOLEAN /\ failures \in 0 .. MaxFailures

Lines == ~serverData.limited => ports = serverData.ports

\* A query is only overtaken together with those asked before it.
LateFirst ==
  \A i, j \in 1 .. Len(pending) : i < j /\ pending[j].late => pending[i].late

\* The query asked last is still to come, and is the right one.
RightToCome ==
  /\ pending # <<>> /\ ~pending[Len(pending)].late
  /\ pending[Len(pending)].query = Current

\* Whatever is still to come has been overtaken, and what is shown is right
\* unless it is late, or an error.
RightShown ==
  /\ pending = <<>> \/ pending[Len(pending)].late
  /\ \/ error
     \/ serverData.late
     \/ serverData.query = Current /\ (serverData.limited <=> isRealtimeMode)

IInv ==
  /\ Types /\ Lines /\ Len(pending) <= MaxPending
  /\ OneInterval /\ LoadingIsAwaited /\ LateFirst
  /\ page = "new" => isRealtimeMode = TRUE
  /\ page = "mounted" => RightToCome \/ RightShown

-----------------------------------------------------------------------------
\* A query is asked: it is the last one, and nobody has overtaken it.
LEMMA QueryAsked ==
  ASSUME pending \in Seq(Asked), LateFirst,
         NEW realtime \in BOOLEAN, NEW date \in Date, fetchServerData(realtime, date),
         isRealtimeMode' = realtime, selectedDate' = date
  PROVE  /\ pending' \in Seq(Asked) /\ Len(pending') <= MaxPending /\ pending' # <<>>
         /\ LateFirst' /\ RightToCome'
<1>1. PICK n \in Nat, query \in Query :
        /\ n = Len(pending) /\ n < MaxPending /\ query = buildFluxQuery(realtime, date)
        /\ pending' = Append(pending, [query |-> query, late |-> FALSE])
  <2>1. buildFluxQuery(realtime, date) \in Query
    BY DEF buildFluxQuery, Query
  <2>2. Len(pending) \in Nat
    OBVIOUS
  <2> QED
    BY <2>1, <2>2 DEF fetchServerData
<1>2. [query |-> query, late |-> FALSE] \in Asked
  BY DEF Asked
<1>3. /\ pending' \in Seq(Asked) /\ Len(pending') = n + 1
      /\ \A i \in 1 .. n : pending'[i] = pending[i]
      /\ pending'[n + 1] = [query |-> query, late |-> FALSE]
  BY <1>1, <1>2
<1>4. pending' # <<>> /\ Len(pending') <= MaxPending
  BY <1>1, <1>3
<1>5. LateFirst'
  <2> SUFFICES ASSUME NEW i \in 1 .. n + 1, NEW j \in 1 .. n + 1, i < j, pending'[j].late
               PROVE  pending'[i].late
    BY <1>3 DEF LateFirst
  <2>1. j # n + 1
    BY <1>3
  <2>2. i \in 1 .. n /\ j \in 1 .. n
    BY <2>1, <1>1
  <2> QED
    BY <2>2, <1>1, <1>3 DEF LateFirst
<1>6. RightToCome'
  BY <1>1, <1>3, <1>4 DEF RightToCome, Current
<1> QED
  BY <1>3, <1>4, <1>5, <1>6

\* One interval is started where there was none.
LEMMA IntervalStarted ==
  ASSUME timers = {}, setInterval
  PROVE  /\ refreshInterval' \in Timer /\ refreshInterval' # NULL
         /\ timers' = {refreshInterval'}
BY DEF setInterval

\* An answer leaves the younger queries as they were; the older ones are late.
LEMMA QueryAnswered ==
  ASSUME pending \in Seq(Asked), LateFirst, NEW i \in 1 .. Len(pending), pending' = Without(i)
  PROVE  /\ pending' \in Seq(Asked) /\ Len(pending') = Len(pending) - 1 /\ LateFirst'
         /\ i < Len(pending) => pending'[Len(pending')] = pending[Len(pending)]
         /\ i = Len(pending) => pending' = <<>> \/ pending'[Len(pending')].late
<1>1. PICK n \in Nat : n = Len(pending) /\ i \in 1 .. n
  OBVIOUS
<1>2. pending' = [j \in 1 .. n - 1 |->
                    IF j < i THEN [pending[j] EXCEPT !.late = TRUE] ELSE pending[j + 1]]
  BY <1>1 DEF Without
<1>3. \A j \in 1 .. n : pending[j] \in Asked
  BY <1>1
<1>4. \A j \in 1 .. n - 1 : pending'[j] \in Asked
  <2> SUFFICES ASSUME NEW j \in 1 .. n - 1 PROVE pending'[j] \in Asked
    OBVIOUS
  <2>1. j \in 1 .. n /\ j + 1 \in 1 .. n
    BY <1>1
  <2>2. [pending[j] EXCEPT !.late = TRUE] \in Asked
    BY <1>3, <2>1 DEF Asked
  <2> QED
    BY <1>2, <1>3, <2>1, <2>2
<1>5. n - 1 \in Nat /\ pending' \in Seq(Asked) /\ Len(pending') = n - 1
  <2>1. n - 1 \in Nat
    BY <1>1
  <2>2. pending' = [j \in 1 .. n - 1 |-> pending'[j]]
    BY <1>2
  <2> QED
    BY <1>4, <2>1, <2>2
<1>6. \A j \in 1 .. n - 1 : j < i => pending'[j].late
  <2> SUFFICES ASSUME NEW j \in 1 .. n - 1, j < i PROVE pending'[j].late
    OBVIOUS
  <2>1. pending[j] \in Asked
    BY <1>1, <1>3
  <2>2. pending'[j] = [pending[j] EXCEPT !.late = TRUE]
    BY <1>2
  <2> QED
    BY <2>1, <2>2 DEF Asked
<1>7. \A j \in 1 .. n - 1 : ~(j < i) => j + 1 \in 1 .. n /\ pending'[j] = pending[j + 1]
  BY <1>1, <1>2
<1>8. LateFirst'
  <2> SUFFICES ASSUME NEW j \in 1 .. n - 1, NEW k \in 1 .. n - 1, j < k, pending'[k].late
               PROVE  pending'[j].late
    BY <1>5 DEF LateFirst
  <2>1. CASE j < i
    BY <2>1, <1>6
  <2>2. CASE ~(j < i)
    <3>1. ~(k < i) /\ j + 1 < k + 1
      BY <2>2, <1>1
    <3> QED
      BY <2>2, <3>1, <1>1, <1>7 DEF LateFirst
  <2> QED
    BY <2>1, <2>2
<1>9. i < n => pending'[n - 1] = pending[n]
  BY <1>1, <1>7
<1>10. i = n => pending' = <<>> \/ pending'[n - 1].late
  <2>1. CASE n = 1
    BY <2>1, <1>5
  <2>2. CASE n # 1
    BY <2>2, <1>1, <1>6
  <2> QED
    BY <2>1, <2>2
<1> QED
  BY <1>1, <1>5, <1>8, <1>9, <1>10

LEMMA InitHolds == Init => IInv
<1> SUFFICES ASSUME Init PROVE IInv
  OBVIOUS
<1>1. NoData \in [query : Query \cup {NULL}, ports : SUBSET Port, limited : BOOLEAN, late : BOOLEAN]
  BY DEF NoData
<1>2. <<>> \in Seq(Asked) /\ Len(<<>>) = 0 /\ 0 \in 0 .. MaxFailures
  OBVIOUS
<1>3. Types
  BY <1>1, <1>2 DEF Init, Types
<1> QED
  BY <1>2, <1>3 DEF Init, IInv, Lines, NoData, OneInterval, LoadingIsAwaited, LateFirst

\* Mount, and an interval that elapses.
LEMMA PollStep == ASSUME IInv, Mount \/ Poll PROVE IInv'
<1>1. fetchServerData(isRealtimeMode, selectedDate)
  BY DEF Mount, Poll
<1>2. UNCHANGED <<isRealtimeMode, selectedDate, serverData, ports, error, loading, failures>>
  BY DEF Mount, Poll, mode, view
<1>3. /\ pending' \in Seq(Asked) /\ Len(pending') <= MaxPending /\ pending' # <<>>
      /\ LateFirst' /\ RightToCome'
  BY <1>1, <1>2, QueryAsked DEF IInv, Types
<1>4. /\ refreshInterval' \in Timer \cup {NULL} /\ timers' \subseteq Timer /\ OneInterval'
      /\ page' = "mounted"
  <2>1. CASE Mount
    <3>1. timers = {} /\ isRealtimeMode = TRUE /\ setInterval /\ page' = "mounted"
      BY <2>1 DEF Mount, IInv, OneInterval
    <3>2. /\ refreshInterval' \in Timer /\ refreshInterval' # NULL
          /\ timers' = {refreshInterval'} /\ isRealtimeMode' = TRUE
      BY <3>1, <1>2, IntervalStarted
    <3> QED
      BY <3>1, <3>2 DEF OneInterval
  <2>2. CASE Poll
    <3>1. page = "mounted"
      BY <2>2 DEF Poll, IInv, OneInterval
    <3>2. UNCHANGED <<page, isRealtimeMode, refreshInterval, timers>>
      BY <2>2 DEF Poll, mode, interval
    <3> QED
      BY <3>1, <3>2 DEF IInv, Types, OneInterval
  <2> QED
    BY <2>1, <2>2
<1>5. Types' /\ Lines'
  BY <1>2, <1>3, <1>4 DEF IInv, Types, Lines
<1> QED
  BY <1>3, <1>4, <1>5 DEF IInv, LoadingIsAwaited

LEMMA DateStep == ASSUME IInv, NEW date \in Date, handleDateChange(date) PROVE IInv'
<1>1. /\ fetchServerData(FALSE, date) /\ isRealtimeMode' = FALSE /\ selectedDate' = date
      /\ refreshInterval' = NULL /\ timers' = timers \ {refreshInterval}
      /\ page = "mounted" /\ loading' = TRUE
      /\ UNCHANGED <<page, serverData, ports, error, failures>>
  BY DEF handleDateChange, view
<1>2. /\ pending' \in Seq(Asked) /\ Len(pending') <= MaxPending /\ pending' # <<>>
      /\ LateFirst' /\ RightToCome'
  BY <1>1, QueryAsked DEF IInv, Types
<1>3. timers' = {} /\ OneInterval'
  BY <1>1 DEF IInv, OneInterval
<1>4. Types' /\ Lines'
  BY <1>1, <1>2, <1>3 DEF IInv, Types, Lines
<1> QED
  BY <1>1, <1>2, <1>3, <1>4 DEF IInv, LoadingIsAwaited

LEMMA SwitchStep == ASSUME IInv, switchToRealtime PROVE IInv'
<1>1. timers = {} /\ refreshInterval = NULL /\ page = "mounted"
  BY DEF switchToRealtime, IInv, OneInterval
<1>2. /\ fetchServerData(TRUE, Today) /\ isRealtimeMode' = TRUE /\ selectedDate' = Today
      /\ setInterval
      /\ UNCHANGED <<page, serverData, ports, error, loading, failures>>
  BY <1>1 DEF switchToRealtime, view
<1>3. /\ pending' \in Seq(Asked) /\ Len(pending') <= MaxPending /\ pending' # <<>>
      /\ LateFirst' /\ RightToCome'
  BY <1>2, QueryAsked DEF IInv, Types
<1>4. /\ refreshInterval' \in Timer /\ timers' \subseteq Timer /\ OneInterval'
  BY <1>1, <1>2, IntervalStarted DEF OneInterval
<1>5. Types' /\ Lines'
  BY <1>2, <1>3, <1>4 DEF IInv, Types, Lines
<1> QED
  BY <1>2, <1>3, <1>4, <1>5 DEF IInv, LoadingIsAwaited

\* An answer: what it shows is right, unless a younger query is to come or was.
LEMMA ArriveStep == ASSUME IInv, NEW i \in 1 .. MaxPending, Arrive(i) PROVE IInv'
<1>1. /\ pending \in Seq(Asked) /\ LateFirst /\ i \in 1 .. Len(pending) /\ pending' = Without(i)
      /\ loading' = FALSE
      /\ UNCHANGED <<page, isRealtimeMode, selectedDate, refreshInterval, timers>>
  BY DEF Arrive, IInv, Types, mode, interval
<1>2. /\ pending' \in Seq(Asked) /\ Len(pending') = Len(pending) - 1 /\ LateFirst'
      /\ i < Len(pending) => pending'[Len(pending')] = pending[Len(pending)]
      /\ i = Len(pending) => pending' = <<>> \/ pending'[Len(pending')].late
  BY <1>1, QueryAnswered
<1>3. pending[i] \in Asked /\ Len(pending') <= MaxPending
  BY <1>1, <1>2 DEF IInv
<1>4. \/ \E found \in parseCSV, fresh \in SUBSET Port :
            /\ serverData' = [query |-> pending[i].query, ports |-> found,
                              limited |-> isRealtimeMode, late |-> pending[i].late]
            /\ ports' = IF isRealtimeMode THEN fresh \cap found ELSE found
            /\ error' = FALSE /\ failures' = failures
      \/ /\ failures < MaxFailures
         /\ failures' = failures + 1 /\ error' = TRUE
         /\ serverData' = serverData /\ ports' = ports
  BY DEF Arrive
<1>5. Types' /\ Lines'
  <2>1. CASE \E found \in parseCSV, fresh \in SUBSET Port :
            /\ serverData' = [query |-> pending[i].query, ports |-> found,
                              limited |-> isRealtimeMode, late |-> pending[i].late]
            /\ ports' = IF isRealtimeMode THEN fresh \cap found ELSE found
            /\ error' = FALSE /\ failures' = failures
    <3>1. PICK found \in parseCSV, fresh \in SUBSET Port :
            /\ serverData' = [query |-> pending[i].query, ports |-> found,
                              limited |-> isRealtimeMode, late |-> pending[i].late]
            /\ ports' = IF isRealtimeMode THEN fresh \cap found ELSE found
            /\ error' = FALSE /\ failures' = failures
      BY <2>1
    <3>2. pending[i].query \in Query /\ pending[i].late \in BOOLEAN
      BY <1>3 DEF Asked
    <3>3. isRealtimeMode \in BOOLEAN /\ failures \in 0 .. MaxFailures
      BY DEF IInv, Types
    <3>4. serverData' \in [query : Query \cup {NULL}, ports : SUBSET Port,
                           limited : BOOLEAN, late : BOOLEAN]
      BY <3>1, <3>2, <3>3 DEF parseCSV
    <3>5. ports' \subseteq serverData'.ports /\ Lines'
      BY <3>1, <3>3 DEF Lines
    <3>6. error' \in BOOLEAN /\ failures' \in 0 .. MaxFailures
      BY <3>1, <3>3
    <3>7. Types'
      BY <3>4, <3>5, <3>6, <1>1, <1>2 DEF IInv, Types
    <3> QED
      BY <3>5, <3>7
  <2>2. CASE /\ failures < MaxFailures
             /\ failures' = failures + 1 /\ error' = TRUE
             /\ serverData' = serverData /\ ports' = ports
    <3>1. failures' \in 0 .. MaxFailures
      BY <2>2 DEF IInv, Types
    <3>2. /\ serverData' = serverData /\ ports' = ports /\ error' \in BOOLEAN
          /\ UNCHANGED <<page, isRealtimeMode, selectedDate, refreshInterval, timers>>
          /\ loading' \in BOOLEAN /\ pending' \in Seq(Asked)
      BY <2>2, <1>1, <1>2
    <3>3. Types'
      BY <3>1, <3>2 DEF IInv, Types
    <3>4. Lines'
      BY <3>2 DEF IInv, Lines
    <3> QED
      BY <3>3, <3>4
  <2> QED
    BY <1>4, <2>1, <2>2
<1>6. ASSUME page = "mounted" PROVE RightToCome' \/ RightShown'
  <2>1. Current' = Current
    BY <1>1 DEF Current
  <2>2. \/ error'
        \/ /\ serverData'.query = pending[i].query /\ serverData'.late = pending[i].late
           /\ serverData'.limited = isRealtimeMode'
    BY <1>1, <1>4
  <2>3. RightToCome \/ RightShown
    BY <1>6 DEF IInv
  <2>4. CASE i = Len(pending) /\ RightToCome
    BY <2>1, <2>2, <2>4, <1>2 DEF RightToCome, RightShown
  <2>5. CASE i < Len(pending) /\ RightToCome
    <3>1. Len(pending') # 0 /\ pending' # <<>>
      BY <2>5, <1>1, <1>2
    <3> QED
      BY <2>1, <2>5, <3>1, <1>2 DEF RightToCome
  <2>6. CASE RightShown
    <3>1. pending # <<>> /\ pending[Len(pending)].late
      BY <2>6, <1>1 DEF RightShown
    <3>2. pending[i].late
      BY <3>1, <1>1 DEF LateFirst
    <3>3. pending' = <<>> \/ pending'[Len(pending')].late
      BY <3>1, <1>1, <1>2
    <3> QED
      BY <2>2, <3>2, <3>3 DEF RightShown
  <2> QED
    BY <1>1, <2>3, <2>4, <2>5, <2>6
<1> QED
  BY <1>1, <1>2, <1>3, <1>5, <1>6 DEF IInv, OneInterval, LoadingIsAwaited

LEMMA LeaveStep == ASSUME IInv, Destroy \/ Load PROVE IInv'
<1>1. CASE Destroy
  <2>1. UNCHANGED <<isRealtimeMode, selectedDate, refreshInterval, pending, serverData, ports,
                    error, loading, failures>>
    BY <1>1 DEF Destroy, mode, view
  <2>2. timers' = {} /\ page' = "destroyed"
    BY <1>1 DEF Destroy, IInv, OneInterval
  <2> QED
    BY <2>1, <2>2 DEF IInv, Types, Lines, OneInterval, LoadingIsAwaited, LateFirst
<1>2. CASE Load
  <2>1. NoData \in [query : Query \cup {NULL}, ports : SUBSET Port, limited : BOOLEAN, late : BOOLEAN]
    BY DEF NoData
  <2>2. <<>> \in Seq(Asked) /\ Len(<<>>) = 0
    OBVIOUS
  <2>3. Types'
    BY <1>2, <2>1, <2>2 DEF Load, IInv, Types
  <2> QED
    BY <1>2, <2>2, <2>3 DEF Load, IInv, Lines, NoData, OneInterval, LoadingIsAwaited, LateFirst
<1> QED
  BY <1>1, <1>2

-----------------------------------------------------------------------------
\* The invariant is inductive.
THEOREM Inductive == Spec => []IInv
<1>1. IInv /\ [Next]_vars => IInv'
  <2> SUFFICES ASSUME IInv, [Next]_vars PROVE IInv'
    OBVIOUS
  <2>1. CASE Mount \/ Poll
    BY <2>1, PollStep
  <2>2. CASE switchToRealtime
    BY <2>2, SwitchStep
  <2>3. CASE \E date \in Date : handleDateChange(date)
    BY <2>3, DateStep
  <2>4. CASE SomeArrival
    BY <2>4, ArriveStep DEF SomeArrival
  <2>5. CASE Destroy \/ Load
    BY <2>5, LeaveStep
  <2>6. CASE UNCHANGED vars
    BY <2>6 DEF vars, mode, interval, view, IInv, Types, Lines, OneInterval, LoadingIsAwaited,
                LateFirst, RightToCome, RightShown, Current
  <2> QED
    BY <2>1, <2>2, <2>3, <2>4, <2>5, <2>6 DEF Next
<1> QED
  BY InitHolds, <1>1, PTL DEF Spec

\* TypeOK for any days, ports and bounds.
THEOREM TypeCorrect == Spec => []TypeOK
<1>1. IInv => TypeOK
  BY DEF IInv, Types, Lines, TypeOK, Asked
<1> QED
  BY Inductive, <1>1, PTL

\* No interval is lost or forgotten, however the user switches back and forth.
THEOREM IntervalsKept == Spec => []OneInterval
BY Inductive, PTL DEF IInv

\* What is shown at rest is what was asked for, unless it was overtaken.
THEOREM SelectionShown == Spec => []ShowsTheSelection
<1>1. IInv => ShowsTheSelection
  BY DEF IInv, RightToCome, RightShown, ShowsTheSelection, Current, Types
<1> QED
  BY Inductive, <1>1, PTL

\* The page does not load for ever while nothing is on its way.
THEOREM LoadingAwaited == Spec => []LoadingIsAwaited
BY Inductive, PTL DEF IInv
=============================================================================
