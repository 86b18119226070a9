----------------------------- MODULE Dashboard -----------------------------
(***************************************************************************)
(* dashboard/src/lib/components/ServerMonitor.svelte: one page that polls    *)
(* the database in real-time mode and shows a day's history on request.     *)
(*                                                                          *)
(* The page has one thread, but a query is asked in one turn of its event   *)
(* loop and answered in a later one: polls do not wait for the answer of    *)
(* the one before, the user changes the mode in between, nothing is ever    *)
(* aborted, and answers come back in any order.                             *)
(***************************************************************************)
EXTENDS Integers, Sequences, FiniteSets

CONSTANTS
  Date,         (* days the user may pick                                  *)
  Today,
  LIVE,         (* the query for the last five minutes                     *)
  Port,         (* backends with samples in the database                   *)
  Timer,        (* identifiers setInterval() may return                    *)
  NULL,
  MaxPending,   (* bound: queries on their way at the same time            *)
  MaxFailures   (* bound: queries that fail                                *)

ASSUME DashboardAssumption ==
  /\ Today \in Date /\ LIVE \notin Date
  /\ NULL \notin Timer
  /\ MaxPending \in Nat \ {0} /\ MaxFailures \in Nat

VARIABLES
  page,             (* "new", "mounted" or "destroyed"                     *)
  isRealtimeMode, selectedDate,
  refreshInterval,  (* the component's variable                            *)
  timers,           (* the intervals the browser runs                      *)
  pending,          (* queries on their way, in the order they were asked; *)
                    (* "late" is history: a younger one was answered       *)
  serverData,       (* what the charts show: the query it answers, the     *)
                    (* ports, whether it was limited to MAX_DATA_POINTS    *)
  ports,            (* the ports that get a line in the charts             *)
  loading,
  error,            (* an error is shown                                   *)
  failures          (* queries that failed so far                          *)

mode == <<isRealtimeMode, selectedDate>>
interval == <<refreshInterval, timers>>
view == <<serverData, ports, error>>
vars == <<page, mode, interval, pending, view, loading, failures>>

NoData == [query |-> NULL, ports |-> {}, limited |-> FALSE, late |-> FALSE]

Init ==
  /\ page = "new"
  /\ isRealtimeMode = TRUE /\ selectedDate = Today
  /\ refreshInterval = NULL /\ timers = {}
  /\ pending = <<>>
  /\ serverData = NoData /\ ports = {}
  /\ loading = TRUE /\ error = FALSE /\ failures = 0

-----------------------------------------------------------------------------
buildFluxQuery(realtime, date) == IF realtime THEN LIVE ELSE date

\* The part of fetchServerData() before its first await: the query is asked.
fetchServerData(realtime, date) ==
  /\ Len(pending) < MaxPending
  /\ pending' = Append(pending, [query |-> buildFluxQuery(realtime, date), late |-> FALSE])

\* setInterval(fetchServerData, REFRESH_INTERVAL).
setInterval ==
  \E t \in Timer \ timers : refreshInterval' = t /\ timers' = timers \cup {t}

Mount ==
  /\ page = "new"
  /\ page' = "mounted"
  /\ fetchServerData(isRealtimeMode, selectedDate)
  /\ setInterval
  /\ UNCHANGED <<mode, view, loading, failures>>

\* An interval has elapsed.
Poll ==
  /\ timers # {}
  /\ fetchServerData(isRealtimeMode, selectedDate)
  /\ UNCHANGED <<page, mode, interval, view, loading, failures>>

\* Mutant of handleDateChange: the query is built before the mode is changed.
FetchThenChange(date) ==
  /\ page = "mounted" /\ date # selectedDate
  /\ isRealtimeMode' = FALSE /\ selectedDate' = date
  /\ refreshInterval' = NULL /\ timers' = timers \ {refreshInterval}
  /\ loading' = TRUE
  /\ fetchServerData(isRealtimeMode, selectedDate)
  /\ UNCHANGED <<page, view, failures>>

\* Mutant of handleDateChange: clearInterval() is missing.
ForgetInterval(date) ==
  /\ page = "mounted" /\ date # selectedDate
  /\ isRealtimeMode' = FALSE /\ selectedDate' = date
  /\ refreshInterval' = NULL /\ UNCHANGED timers
  /\ loading' = TRUE
  /\ fetchServerData(FALSE, date)
  /\ UNCHANGED <<page, view, failures>>

\* Mutant of handleDateChange: refreshInterval keeps the identifier.
KeepInterval(date) ==
  /\ page = "mounted" /\ date # selectedDate
  /\ isRealtimeMode' = FALSE /\ selectedDate' = date
  /\ timers' = timers \ {refreshInterval} /\ UNCHANGED refreshInterval
  /\ loading' = TRUE
  /\ fetchServerData(FALSE, date)
  /\ UNCHANGED <<page, view, failures>>

\* The user picks a day: polling stops, and its history is asked for.
handleDateChange(date) ==
  /\ page = "mounted" /\ date # selectedDate
  /\ isRealtimeMode' = FALSE /\ selectedDate' = date
  /\ refreshInterval' = NULL /\ timers' = timers \ {refreshInterval}
  /\ loading' = TRUE
  /\ fetchServerData(FALSE, date)
  /\ UNCHANGED <<page, view, failures>>

\* The button, which is there only outside real-time mode.
switchToRealtime ==
  /\ page = "mounted" /\ ~isRealtimeMode
  /\ isRealtimeMode' = TRUE /\ selectedDate' = Today
  /\ IF refreshInterval = NULL
       THEN fetchServerData(TRUE, Today) /\ setInterval
       ELSE UNCHANGED <<interval, pending>>
  /\ UNCHANGED <<page, view, loading, failures>>

-----------------------------------------------------------------------------
\* What an answer may hold: samples of some ports, and of none when it is not
\* the table that was expected.
parseCSV == SUBSET Port

\* The queries left when the i-th has been answered.
Without(i) ==
  [j \in 1 .. Len(pending) - 1 |->
     IF j < i THEN [pending[j] EXCEPT !.late = TRUE] ELSE pending[j + 1]]

\* Mutant of Arrive: a failed query leaves loading set.
ArriveLoading(i) ==
  /\ i <= Len(pending)
  /\ pending' = Without(i)
  /\ \/ \E found \in parseCSV, fresh \in SUBSET Port :
          /\ serverData' = [query |-> pending[i].query, ports |-> found,
                            limited |-> isRealtimeMode, late |-> pending[i].late]
          /\ ports' = IF isRealtimeMode THEN fresh \cap found ELSE found
          /\ error' = FALSE /\ loading' = FALSE
          /\ UNCHANGED failures
     \/ /\ failures < MaxFailures
        /\ failures' = failures + 1
        /\ error' = TRUE
        /\ UNCHANGED <<serverData, ports, loading>>
  /\ UNCHANGED <<page, mode, interval>>

\* The rest of fetchServerData(): processData() with the mode of now, or the
\* catch block.  Ports whose last sample is too old get no line in real time.
Arrive(i) ==
  /\ i <= Len(pending)
  /\ pending' = Without(i)
  /\ \/ \E found \in parseCSV, fresh \in SUBSET Port :
          /\ serverData' = [query |-> pending[i].query, ports |-> found,
                            limited |-> isRealtimeMode, late |-> pending[i].late]
          /\ ports' = IF isRealtimeMode THEN fresh \cap found ELSE found
          /\ error' = FALSE
          /\ UNCHANGED failures
     \/ /\ failures < MaxFailures
        /\ failures' = failures + 1
        /\ error' = TRUE
        /\ UNCHANGED <<serverData, ports>>
  /\ loading' = FALSE
  /\ UNCHANGED <<page, mode, interval>>

\* onDestroy().  Queries on their way still arrive.
Destroy ==
  /\ page = "mounted"
  /\ page' = "destroyed"
  /\ timers' = timers \ {refreshInterval}
  /\ UNCHANGED <<mode, refreshInterval, pending, view, loading, failures>>

\* The page is loaded again: everything starts afresh, queries are dropped.
Load ==
  /\ page' = "new"
  /\ isRealtimeMode' = TRUE /\ selectedDate' = Today
  /\ refreshInterval' = NULL /\ timers' = {}
  /\ pending' = <<>>
  /\ serverData' = NoData /\ ports' = {}
  /\ loading' = TRUE /\ error' = FALSE
  /\ UNCHANGED failures

SomeArrival == \E i \in 1 .. MaxPending : Arrive(i)

Next ==
  \/ Mount \/ Poll \/ switchToRealtime \/ Destroy \/ Load
  \/ \E date \in Date : handleDateChange(date)
  \/ SomeArrival

\* The browser mounts the page, its intervals elapse, and queries are answered,
\* in some order: fetch() fails when the connection does.
Fairness == WF_vars(Mount) /\ WF_vars(Poll) /\ WF_vars(SomeArrival)

Spec == Init /\ [][Next]_vars /\ Fairness

-----------------------------------------------------------------------------
(* Properties.                                                              *)
Query == Date \cup {LIVE}

\* The types of the component's variables.  In real time the lines drawn are
\* some of the ports that were found, otherwise all of them.
TypeOK ==
  /\ page \in {"new", "mounted", "destroyed"}
  /\ isRealtimeMode \in BOOLEAN /\ selectedDate \in Date
  /\ refreshInterval \in Timer \cup {NULL} /\ timers \subseteq Timer
  /\ pending \in Seq([query : Query, late : BOOLEAN]) /\ Len(pending) <= MaxPending
  /\ serverData \in [query : Query \cup {NULL}, ports : SUBSET Port,
                     limited : BOOLEAN, late : BOOLEAN]
  /\ ports \subseteq serverData.ports
  /\ ~serverData.limited => ports = serverData.ports
  /\ loading \in BOOLEAN /\ error \in BOOLEAN /\ failures \in 0 .. MaxFailures

\* However often the user goes back and forth, one interval polls in real-time
\* mode and none otherwise ("Stop realtime updates when viewing historical
\* data", ServerMonitor.svelte:274), nor after onDestroy(): no interval is lost.
OneInterval ==
  /\ timers = IF page = "mounted" /\ isRealtimeMode THEN {refreshInterval} ELSE {}
  /\ page = "mounted" => (isRealtimeMode <=> refreshInterval # NULL)

\* What the user sees is what the user asked for, once every query has been
\* answered, unless an error is shown or the last answer was overtaken: the
\* right query, with the points and ports of the right mode.
ShowsTheSelection ==
  page = "mounted" /\ pending = <<>> /\ ~error /\ ~serverData.late =>
    /\ serverData.query = buildFluxQuery(isRealtimeMode, selectedDate)
    /\ serverData.limited = isRealtimeMode

\* "Loading" means that an answer is awaited; failing is an answer.
LoadingIsAwaited == page = "mounted" /\ loading => pending # <<>>

\* The user who stays in real-time mode sees real-time data again and again,
\* whatever history was on its way, and however late it comes.
RealtimeReturns ==
  <>[](page = "mounted" /\ isRealtimeMode) => []<>(serverData.query = LIVE)
=============================================================================
