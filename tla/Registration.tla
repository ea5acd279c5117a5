---------------------------- MODULE Registration ----------------------------
(***************************************************************************)
(* RegisterPodScrapingMetrics (internal/collector/registration/            *)
(* pod_scraping.go) run in a controller process beside the two other       *)
(* parties it meets: the startup code that puts the pod-scraping source in *)
(* the SourceRegistry, and the controller loop that calls the source's     *)
(* Refresh.  The registries and Refresh are not in this repository's      *)
(* source; they are modelled from spec 4.6 step 5 and 4.8: Get returns nil *)
(* for an unregistered name, MustRegister panics on a duplicate, Refresh   *)
(* keeps only registered names unless the query registry is empty.  A      *)
(* panic ends the process; it restarts with empty registries.              *)
(*                                                                         *)
(* One MustRegister call is one step: the registries are goroutine-safe,   *)
(* and a Refresh may run between two of them.                              *)
(***************************************************************************)
EXTENDS Naturals, Sequences

CONSTANTS
  Expected,   \* the four query names, in the order they are registered
  Reported,   \* the metric names scraped pods may expose
  Exposures,  \* the sets of names one Refresh may scrape
  MaxCalls    \* RegisterPodScrapingMetrics calls per process lifetime

ExpectedNames == {Expected[i] : i \in DOMAIN Expected}

\* Four distinct names; the pods may expose others.
ASSUME RegAssumption ==
  /\ Expected \in Seq(Reported) /\ Len(Expected) > 0
  /\ \A i, j \in DOMAIN Expected : Expected[i] = Expected[j] => i = j
  /\ MaxCalls \in Nat \ {0}
  /\ Exposures \subseteq SUBSET Reported

VARIABLES
  sourceRegistered,  \* sourceRegistry.Get(sourceName) # nil
  queries,           \* names in podSource.QueryList()
  calls,             \* RegisterPodScrapingMetrics calls started
  pc,                \* 0 when idle, else the index of the next MustRegister
  crashed,           \* a MustRegister panicked
  completed,         \* some call of this process lifetime has returned after registering
  exposed,           \* names the pods exposed to the last Refresh
  result,            \* names in its result map
  fresh              \* the last Refresh started after a call had completed

vars == <<sourceRegistered, queries, calls, pc, crashed, completed, exposed, result, fresh>>

Init ==
  /\ sourceRegistered = FALSE /\ queries = {} /\ calls = 0 /\ pc = 0
  /\ crashed = FALSE /\ completed = FALSE /\ exposed = {} /\ result = {}
  /\ fresh = FALSE

(* Startup: SourceRegistry.MustRegister(sourceName, podSource). *)
RegisterSource ==
  /\ ~crashed /\ ~sourceRegistered
  /\ sourceRegistered' = TRUE
  /\ UNCHANGED <<queries, calls, pc, crashed, completed, exposed, result, fresh>>

(* Fault variant: a call started while another one is still registering. *)
CallWhileRunning ==
  /\ ~crashed /\ calls < MaxCalls
  /\ calls' = calls + 1
  /\ pc' = IF sourceRegistered THEN 1 ELSE 0
  /\ UNCHANGED <<sourceRegistered, queries, crashed, completed, exposed, result, fresh>>

(* RegisterPodScrapingMetrics entry: Get, and return at once on nil. *)
Call ==
  /\ ~crashed /\ pc = 0 /\ calls < MaxCalls
  /\ calls' = calls + 1
  /\ pc' = IF sourceRegistered THEN 1 ELSE 0
  /\ UNCHANGED <<sourceRegistered, queries, crashed, completed, exposed, result, fresh>>

(* Fault variant: the last MustRegister left out. *)
MustRegisterStepShort ==
  /\ ~crashed /\ pc \in DOMAIN Expected
  /\ IF Expected[pc] \in queries
       THEN /\ crashed' = TRUE
            /\ UNCHANGED <<queries, pc, completed>>
       ELSE /\ queries' = IF pc = Len(Expected) THEN queries ELSE queries \cup {Expected[pc]}
            /\ pc' = IF pc = Len(Expected) THEN 0 ELSE pc + 1
            /\ completed' = (completed \/ pc = Len(Expected))
            /\ UNCHANGED crashed
  /\ UNCHANGED <<sourceRegistered, calls, exposed, result, fresh>>

(* Fault variant: the loop ends one registration late. *)
MustRegisterStepPastEnd ==
  /\ ~crashed /\ pc \in DOMAIN Expected
  /\ IF Expected[pc] \in queries
       THEN /\ crashed' = TRUE
            /\ UNCHANGED <<queries, pc, completed>>
       ELSE /\ queries' = queries \cup {Expected[pc]}
            /\ pc' = IF pc > Len(Expected) THEN 0 ELSE pc + 1
            /\ completed' = (completed \/ pc = Len(Expected))
            /\ UNCHANGED crashed
  /\ UNCHANGED <<sourceRegistered, calls, exposed, result, fresh>>

(* Fault variant: the last MustRegister does not end the loop.            *)
MustRegisterStepRepeatLast ==
  /\ ~crashed /\ pc \in DOMAIN Expected
  /\ IF Expected[pc] \in queries
       THEN /\ crashed' = TRUE
            /\ UNCHANGED <<queries, pc, completed>>
       ELSE /\ queries' = queries \cup {Expected[pc]}
            /\ pc' = IF pc = Len(Expected) THEN pc ELSE pc + 1
            /\ completed' = (completed \/ pc = Len(Expected))
            /\ UNCHANGED crashed
  /\ UNCHANGED <<sourceRegistered, calls, exposed, result, fresh>>

(* registry.MustRegister(QueryTemplate{Name: Expected[pc], ...}); the call *)
(* returns after the last one.                                             *)
MustRegisterStep ==
  /\ ~crashed /\ pc \in DOMAIN Expected
  /\ IF Expected[pc] \in queries
       THEN /\ crashed' = TRUE
            /\ UNCHANGED <<queries, pc, completed>>
       ELSE /\ queries' = queries \cup {Expected[pc]}
            /\ pc' = IF pc = Len(Expected) THEN 0 ELSE pc + 1
            /\ completed' = (completed \/ pc = Len(Expected))
            /\ UNCHANGED crashed
  /\ UNCHANGED <<sourceRegistered, calls, exposed, result, fresh>>

(* PodScrapingSource.Refresh step 5: with a non-empty query registry keep  *)
(* only the registered names of what the pods exposed.                     *)
Refresh ==
  /\ ~crashed
  /\ \E e \in Exposures :
       /\ exposed' = e
       /\ result' = IF queries = {} THEN e ELSE e \cap queries
  /\ fresh' = completed
  /\ UNCHANGED <<sourceRegistered, queries, calls, pc, crashed, completed>>

(* The process restarts after a panic with its registries empty. *)
Restart ==
  /\ crashed
  /\ sourceRegistered' = FALSE /\ queries' = {} /\ calls' = 0 /\ pc' = 0
  /\ crashed' = FALSE /\ completed' = FALSE /\ exposed' = {}
  /\ result' = {} /\ fresh' = FALSE

Next == RegisterSource \/ Call \/ MustRegisterStep \/ Refresh \/ Restart

Spec == Init /\ [][Next]_vars

(***************************************************************************)
(* The registration goroutine runs to its end once started, the controller *)
(* loop keeps refreshing while the process lives, and a crashed process is *)
(* restarted: weak fairness of each.  Startup itself may stop before it    *)
(* registers the source or calls the registration.                         *)
(***************************************************************************)
FairSpec ==
  Spec /\ WF_vars(MustRegisterStep) /\ WF_vars(Refresh) /\ WF_vars(Restart)

-----------------------------------------------------------------------------
(* Properties *)

TypeOK ==
  /\ sourceRegistered \in BOOLEAN /\ crashed \in BOOLEAN
  /\ completed \in BOOLEAN /\ fresh \in BOOLEAN
  /\ queries \subseteq ExpectedNames
  /\ exposed \in Exposures \cup {{}} /\ result \subseteq exposed
  /\ calls \in 0..MaxCalls /\ pc \in 0..Len(Expected)

(***************************************************************************)
(* Once a RegisterPodScrapingMetrics call of this process has returned,    *)
(* every later Refresh reports exactly the expected metrics the pods       *)
(* exposed to it: neither an unregistered metric nor a missing expected one, even *)
(* with further calls, a duplicate panic and a restart in between.         *)
(***************************************************************************)
FilteredAfterRegistration ==
  fresh => result = exposed \cap ExpectedNames

(***************************************************************************)
(* Once RegisterPodScrapingMetrics has found the source, a Refresh that    *)
(* filters to the expected metrics eventually follows: the four           *)
(* MustRegister calls end and the controller loop refreshes after them.    *)
(***************************************************************************)
RegistrationTakesEffect == (pc = 1) ~> fresh

(***************************************************************************)
(* The duplicate panic of MustRegister only ever hits a repeated call: the *)
(* first call of a process lifetime registers its four distinct names      *)
(* without a panic, and when a later call panics the registry already      *)
(* holds all four, so the panic never leaves a half-filled registry.       *)
(***************************************************************************)
PanicOnlyWhenComplete ==
  crashed => (completed /\ queries = ExpectedNames)

(***************************************************************************)
(* The doc comment of RegisterPodScrapingMetrics: it "registers expected    *)
(* metrics for Pod sources".  Once it has been called in a process, the    *)
(* query registry eventually holds every expected name, so that Refresh    *)
(* filters, whenever startup calls it relative to the source registration. *)
(***************************************************************************)
CallTakesEffect == (calls > 0) ~> (ExpectedNames \subseteq queries)
=============================================================================
