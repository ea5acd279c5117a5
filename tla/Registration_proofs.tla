------------------------ MODULE Registration_proofs ------------------------
(***************************************************************************)
(* Proofs about RegisterPodScrapingMetrics in its process, for every list  *)
(* of distinct query names, every set of exposed names and every bound on  *)
(* the calls.                                                              *)
(***************************************************************************)
EXTENDS Registration, TLAPS

(***************************************************************************)
(* The inductive invariant.  Before a call of this process lifetime has    *)
(* completed, the query registry holds exactly the names the running call *)
(* has registered so far (none when no call runs), so its duplicate check  *)
(* passes; after, it holds all four, so a later call panics before it      *)
(* changes anything.  A fresh Refresh came after the completion, and a     *)
(* panic happened with the registry complete.                              *)
(***************************************************************************)
IInv ==
  /\ TypeOK
  /\ completed => queries = ExpectedNames
  /\ ~completed => queries = {Expected[i] : i \in 1..(pc - 1)}
  /\ fresh => (completed /\ result = exposed \cap ExpectedNames)
  /\ PanicOnlyWhenComplete

LEMMA ExpectedFacts ==
  /\ Len(Expected) \in Nat \ {0}
  /\ DOMAIN Expected = 1..Len(Expected)
  /\ ExpectedNames # {}
  /\ \A i, j \in DOMAIN Expected : Expected[i] = Expected[j] => i = j
BY RegAssumption DEF ExpectedNames

\* With no call running (pc = 0) the registered prefix is empty.
LEMMA EmptyPrefix == {Expected[i] : i \in 1..(0 - 1)} = {}
<1>1. 1..(0 - 1) = {}
  OBVIOUS
<1>2. QED
  BY <1>1

\* The variables of a process that has just started.
LEMMA FreshProcess ==
  ASSUME sourceRegistered = FALSE, queries = {}, calls = 0, pc = 0, crashed = FALSE,
         completed = FALSE, exposed = {}, result = {}, fresh = FALSE
  PROVE  IInv
<1>1. TypeOK
  <2>1. calls \in 0..MaxCalls /\ pc \in 0..Len(Expected)
    BY ExpectedFacts, RegAssumption
  <2>2. QED
    BY <2>1 DEF TypeOK
<1>2. queries = {Expected[i] : i \in 1..(pc - 1)}
  BY EmptyPrefix
<1>3. QED
  BY <1>1, <1>2 DEF IInv, PanicOnlyWhenComplete

LEMMA InitIInv == Init => IInv
BY FreshProcess DEF Init

LEMMA StepIInv == IInv /\ [Next]_vars => IInv'
<1> SUFFICES ASSUME IInv, [Next]_vars PROVE IInv'
  OBVIOUS
<1> USE ExpectedFacts
<1>1. CASE RegisterSource
  BY <1>1 DEF RegisterSource, IInv, PanicOnlyWhenComplete, TypeOK
<1>2. CASE Call
  <2>1. ~completed => queries = {}
    BY <1>2 DEF Call, IInv, PanicOnlyWhenComplete
  <2>2. QED
    BY <1>2, <2>1, RegAssumption DEF Call, IInv, PanicOnlyWhenComplete, TypeOK
<1>3. CASE MustRegisterStep
  <2> DEFINE k == pc
  <2>1. k \in 1..Len(Expected)
    BY <1>3 DEF MustRegisterStep
  <2>2. CASE completed
    <3>1. Expected[k] \in queries
      BY <2>1, <2>2 DEF IInv, PanicOnlyWhenComplete, ExpectedNames
    <3>2. QED
      BY <1>3, <2>2, <3>1 DEF MustRegisterStep, IInv, PanicOnlyWhenComplete, TypeOK
  <2>3. CASE ~completed
    <3>1. queries = {Expected[i] : i \in 1..(k - 1)}
      BY <2>3 DEF IInv, PanicOnlyWhenComplete
    <3>2. Expected[k] \notin queries
      BY <2>1, <3>1
    <3>3. queries' = {Expected[i] : i \in 1..k}
      BY <1>3, <3>1, <3>2 DEF MustRegisterStep
    <3>4. ~fresh
      BY <2>3 DEF IInv, PanicOnlyWhenComplete
    <3>5. CASE k = Len(Expected)
      <4>1. completed' /\ pc' = 0 /\ queries' = ExpectedNames
        BY <1>3, <3>2, <3>3, <3>5 DEF MustRegisterStep, ExpectedNames
      <4>2. QED
        BY <1>3, <3>2, <3>4, <4>1 DEF MustRegisterStep, IInv, PanicOnlyWhenComplete, TypeOK, ExpectedNames
    <3>6. CASE k # Len(Expected)
      <4>1. ~completed' /\ pc' = k + 1
        BY <1>3, <2>3, <3>2, <3>6 DEF MustRegisterStep
      <4>2. queries' \subseteq ExpectedNames
        BY <2>1, <3>3 DEF ExpectedNames
      <4>3. QED
        BY <1>3, <2>1, <3>2, <3>3, <3>4, <3>6, <4>1, <4>2 DEF MustRegisterStep, IInv, PanicOnlyWhenComplete, TypeOK
    <3>7. QED
      BY <3>5, <3>6
  <2>4. QED
    BY <2>2, <2>3
<1>4. CASE Refresh
  <2>1. PICK e \in Exposures : /\ exposed' = e
                               /\ result' = IF queries = {} THEN e ELSE e \cap queries
    BY <1>4 DEF Refresh
  <2>2. completed => result' = e \cap ExpectedNames
    BY <2>1 DEF IInv, PanicOnlyWhenComplete
  <2>3. QED
    BY <1>4, <2>1, <2>2 DEF Refresh, IInv, PanicOnlyWhenComplete, TypeOK
<1>5. CASE Restart
  <2>1. TypeOK'
    <3>1. calls' \in 0..MaxCalls /\ pc' \in 0..Len(Expected)
      BY <1>5, RegAssumption DEF Restart
    <3>2. QED
      BY <1>5, <3>1 DEF Restart, TypeOK
  <2>2. queries' = {Expected[i] : i \in 1..(pc' - 1)}
    BY <1>5, EmptyPrefix DEF Restart
  <2>3. QED
    BY <1>5, <2>1, <2>2 DEF Restart, IInv, PanicOnlyWhenComplete
<1>6. CASE UNCHANGED vars
  BY <1>6 DEF vars, IInv, PanicOnlyWhenComplete, TypeOK
<1>7. QED
  BY <1>1, <1>2, <1>3, <1>4, <1>5, <1>6 DEF Next

(***************************************************************************)
(* The counters, registries and results of the registration keep their     *)
(* types in every behaviour.                                               *)
(***************************************************************************)
THEOREM TypeCorrect == Spec => []TypeOK
<1>1. IInv => TypeOK
  BY DEF IInv, PanicOnlyWhenComplete
<1>2. QED
  BY InitIInv, StepIInv, <1>1, PTL DEF Spec

(***************************************************************************)
(* FilteredAfterRegistration for every instance: once a                     *)
(* RegisterPodScrapingMetrics call of the process has returned, every later *)
(* Refresh reports exactly the expected metrics the pods exposed, across   *)
(* further calls, duplicate panics and restarts.                           *)
(***************************************************************************)
THEOREM FilteredAfterRegistrationHolds == Spec => []FilteredAfterRegistration
<1>1. IInv => FilteredAfterRegistration
  BY DEF IInv, PanicOnlyWhenComplete, FilteredAfterRegistration
<1>2. QED
  BY InitIInv, StepIInv, <1>1, PTL DEF Spec

(***************************************************************************)
(* PanicOnlyWhenComplete for every instance: the duplicate panic of        *)
(* MustRegister never hits the first RegisterPodScrapingMetrics call of a  *)
(* process, and it leaves all four names registered when it hits a later   *)
(* one.                                                                    *)
(***************************************************************************)
THEOREM PanicOnlyOnRepeatedCall == Spec => []PanicOnlyWhenComplete
<1>1. IInv => PanicOnlyWhenComplete
  BY DEF IInv, PanicOnlyWhenComplete
<1>2. QED
  BY InitIInv, StepIInv, <1>1, PTL DEF Spec

=============================================================================
