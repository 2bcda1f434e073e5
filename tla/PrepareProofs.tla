--------------------------- MODULE PrepareProofs ----------------------------
(***************************************************************************)
(* Proofs about Prepare, for any number of sources and feeds, any sharing  *)
(* of URLs and any maxConcurrency: the semaphore and the wait group count  *)
(* what they should, and Prepare implements FeedOutcomes.                  *)
(***************************************************************************)
EXTENDS Prepare, FiniteSetTheorems, TLAPS

RunSteps == Steps \ {"none", "ended"}
Running == {j \in Feeds : pc[j] \in RunSteps}

DecidedSteps == {"release", "done", "ended"}

MainInv ==
    /\ main = "agencies" => spawned = 0
    /\ main = "checks" => spawned = NumFeeds /\ wg = 0
    /\ \A j \in Feeds : pc[j] = "none" <=> j > spawned

\* The wait group counts the goroutines that have not called Done, the
\* semaphore those that hold a slot.
CountInv ==
    /\ wg = Cardinality(Running)
    /\ inUse = Cardinality(Inside)
    /\ inUse <= cap

\* A goroutine past its fetch has left exactly one trace, an earlier one none.
TraceInv ==
    /\ \A j \in Feeds : j \in parsed \cup failed <=> pc[j] \in DecidedSteps
    /\ parsed \cap failed = {}
    /\ \A j \in Feeds : pc[j] = "write" => mu[SourceOf[j]] = j

BaseTypes ==
    /\ main \in {"agencies", "spawn", "checks"}
    /\ agencies \in {"unknown", "listed", "error"}
    /\ cap \in Nat \ {0}
    /\ spawned \in 0 .. NumFeeds
    /\ pc \in [Feeds -> Steps]
    /\ urlLock \in [Urls -> Feeds \cup {NoFeed}]
    /\ mu \in [Sources -> Feeds \cup {NoFeed}]
    /\ parsed \subseteq Feeds
    /\ failed \subseteq Feeds

IInv == BaseTypes /\ MainInv /\ CountInv /\ TraceInv
-----------------------------------------------------------------------------
LEMMA Finite ==
    ASSUME NEW S \in SUBSET Feeds
    PROVE  IsFiniteSet(S) /\ Cardinality(S) \in 0 .. NumFeeds
<1>1. IsFiniteSet(Feeds) /\ Cardinality(Feeds) = NumFeeds
  BY PrepareAssumption, FS_Interval DEF Feeds
<1>2. IsFiniteSet(S) /\ Cardinality(S) <= Cardinality(Feeds)
  BY <1>1, FS_Subset
<1>3. Cardinality(S) \in Nat
  BY <1>2, FS_CardinalityType
<1> QED BY <1>1, <1>2, <1>3, PrepareAssumption

LEMMA Enter ==
    ASSUME NEW S \in SUBSET Feeds, NEW j \in Feeds, j \notin S
    PROVE  Cardinality(S \cup {j}) = Cardinality(S) + 1
BY Finite, FS_AddElement

LEMMA Leave ==
    ASSUME NEW S \in SUBSET Feeds, NEW j \in S
    PROVE  Cardinality(S \ {j}) = Cardinality(S) - 1
BY Finite, FS_RemoveElement

LEMMA TypesFollow == IInv => TypeOK
<1> SUFFICES ASSUME IInv PROVE TypeOK
  OBVIOUS
<1>1. Running \in SUBSET Feeds /\ Inside \in SUBSET Feeds
  BY DEF Running, Inside
<1> QED BY <1>1, Finite DEF IInv, BaseTypes, CountInv, TypeOK

LEMMA InitInv == Init => IInv
<1> SUFFICES ASSUME Init PROVE IInv
  OBVIOUS
<1>1. BaseTypes
  <2>1. cap \in Nat \ {0}
    BY PrepareAssumption DEF Init, Capacity
  <2> QED BY <2>1, PrepareAssumption DEF Init, BaseTypes, Steps
<1>2. Running = {} /\ Inside = {}
  BY DEF Init, Running, Inside, RunSteps, SlotSteps
<1>3. CountInv
  BY <1>1, <1>2, FS_EmptySet DEF Init, CountInv, BaseTypes
<1>4. MainInv /\ TraceInv
  BY PrepareAssumption DEF Init, MainInv, TraceInv, DecidedSteps, Feeds
<1> QED BY <1>1, <1>3, <1>4 DEF IInv

\* How a step of one goroutine moves it in and out of the two counted sets.
LEMMA Move ==
    ASSUME pc \in [Feeds -> Steps], NEW j \in Feeds, NEW to, pc' = [pc EXCEPT ![j] = to]
    PROVE  /\ Running' = IF to \in RunSteps THEN Running \cup {j} ELSE Running \ {j}
           /\ Inside' = IF to \in SlotSteps THEN Inside \cup {j} ELSE Inside \ {j}
BY DEF Running, Inside

LEMMA NextInv == IInv /\ [Next]_vars => IInv'
<1> SUFFICES ASSUME IInv, [Next]_vars PROVE IInv'
  OBVIOUS
<1>0. /\ Running \in SUBSET Feeds /\ Inside \in SUBSET Feeds
      /\ wg \in Nat /\ inUse \in Nat /\ NumFeeds \in Nat
      /\ \A j \in Feeds : SourceOf[j] \in Sources /\ j # NoFeed
  BY TypesFollow, PrepareAssumption DEF Running, Inside, TypeOK
<1> USE DEF BaseTypes, Steps
<1>1. CASE ListAgencies
  BY <1>1 DEF ListAgencies, IInv, MainInv, CountInv, TraceInv, Running, Inside
<1>2. CASE Spawn
  <2>1. spawned + 1 \in Feeds /\ spawned' = spawned + 1 /\ spawned' \in 0 .. NumFeeds
    BY <1>0, <1>2 DEF Spawn, IInv, Feeds
  <2>2. pc[spawned + 1] = "none"
    BY <2>1 DEF IInv, MainInv, Feeds
  <2>3. Running' = Running \cup {spawned + 1} /\ Inside' = Inside
    <3>1. pc \in [Feeds -> Steps] /\ pc' = [pc EXCEPT ![spawned + 1] = "sem"]
      BY <1>2 DEF Spawn, IInv
    <3>2. spawned + 1 \notin Inside
      BY <2>2 DEF Inside, SlotSteps
    <3>3. "sem" \in RunSteps /\ "sem" \notin SlotSteps
      BY DEF RunSteps, SlotSteps
    <3>4. Running' = Running \cup {spawned + 1} /\ Inside' = Inside \ {spawned + 1}
      BY <2>1, <3>1, <3>3, Move
    <3> QED BY <3>2, <3>4
  <2>4. CountInv'
    BY <1>0, <1>2, <2>1, <2>2, <2>3, Enter DEF Spawn, IInv, CountInv, Running, RunSteps
  <2>5. BaseTypes' /\ TraceInv'
    BY <1>2, <2>1, <2>2 DEF Spawn, IInv, TraceInv, DecidedSteps
  <2>6. MainInv'
    BY <1>2, <2>1, <2>2 DEF Spawn, IInv, MainInv, Feeds
  <2> QED BY <2>4, <2>5, <2>6 DEF IInv
<1>3. CASE BeginChecks
  BY <1>3 DEF BeginChecks, IInv, MainInv, CountInv, TraceInv, Running, Inside
<1>4. ASSUME NEW j \in Feeds, Goroutine(j) PROVE IInv'
  <2>0. pc \in [Feeds -> Steps]
    BY DEF IInv
  <2> DEFINE Kept == UNCHANGED mainVars /\ pc[j] \notin {"none"} /\ pc'[j] # "none"
  <2>1. Kept
    BY <1>4, <2>0 DEF Goroutine, Acquire, LockUrl, Fetch, Parse, LockErrors, WriteError,
       Release, Done, Goto
  <2>2. main # "checks"
    <3>1. ASSUME main = "checks" PROVE FALSE
      <4>1. Running = {}
        BY <1>0, <3>1, Finite, FS_EmptySet DEF IInv, MainInv, CountInv
      <4>2. pc[j] = "ended"
        BY <2>0, <2>1, <4>1 DEF Running, RunSteps
      <4> QED BY <1>4, <4>2 DEF Goroutine, Acquire, LockUrl, Fetch, Parse, LockErrors,
                 WriteError, Release, Done, Goto
    <3> QED BY <3>1
  <2>3. ASSUME NEW to \in Steps, pc' = [pc EXCEPT ![j] = to] PROVE MainInv'
    BY <2>1, <2>2, <2>3 DEF IInv, MainInv, mainVars
  <2>4. CASE Acquire(j)
    <3>1. PICK to \in {"fetch", "lock"} : pc' = [pc EXCEPT ![j] = to]
      BY <2>4 DEF Acquire, Goto
    <3>2. Running' = Running /\ Inside' = Inside \cup {j} /\ j \notin Inside
      BY <2>0, <2>4, <3>1, Move DEF Acquire, Goto, RunSteps, SlotSteps, Running, Inside
    <3>3. CountInv'
      BY <1>0, <2>1, <2>4, <3>2, Enter DEF Acquire, IInv, CountInv, mainVars
    <3>4. BaseTypes' /\ TraceInv'
      BY <2>0, <2>1, <2>4, <3>1 DEF Acquire, Goto, IInv, TraceInv, DecidedSteps, mainVars
    <3> QED BY <2>3, <3>1, <3>3, <3>4 DEF IInv
  <2>5. CASE LockUrl(j) \/ Fetch(j) \/ LockErrors(j)
    <3>1. PICK to \in {"fetch", "parse", "record", "write"} :
             pc' = [pc EXCEPT ![j] = to]
      BY <2>5 DEF LockUrl, Fetch, LockErrors, Goto
    <3>2. pc[j] \in {"lock", "fetch", "record"}
      BY <2>5 DEF LockUrl, Fetch, LockErrors, Goto
    <3>3. Running' = Running /\ Inside' = Inside
      BY <2>0, <3>1, <3>2, Move DEF RunSteps, SlotSteps, Running, Inside
    <3>4. CountInv'
      BY <2>1, <2>5, <3>3 DEF LockUrl, Fetch, LockErrors, IInv, CountInv, mainVars
    <3>5. /\ urlLock' \in [Urls -> Feeds \cup {NoFeed}]
          /\ mu' \in [Sources -> Feeds \cup {NoFeed}]
      BY <1>0, <2>5 DEF LockUrl, Fetch, Unlocked, LockErrors, IInv
    <3>6. parsed' = parsed /\ failed' = failed
      BY <2>5 DEF LockUrl, Fetch, LockErrors
    <3>7. ASSUME NEW i \in Feeds, pc'[i] = "write" PROVE mu'[SourceOf[i]] = i
      <4>1. CASE LockErrors(j)
        BY <1>0, <2>0, <3>7, <4>1 DEF LockErrors, Goto, IInv, TraceInv
      <4>2. CASE LockUrl(j) \/ Fetch(j)
        BY <2>0, <3>7, <4>2 DEF LockUrl, Fetch, Goto, IInv, TraceInv
      <4> QED BY <2>5, <4>1, <4>2
    <3>8. BaseTypes' /\ TraceInv'
      BY <2>0, <2>1, <3>1, <3>2, <3>5, <3>6, <3>7 DEF IInv, TraceInv, DecidedSteps, mainVars
    <3> QED BY <2>3, <3>1, <3>4, <3>8 DEF IInv
  <2>6. CASE Parse(j) \/ WriteError(j)
    <3>1. PICK to \in {"record", "release"} : pc' = [pc EXCEPT ![j] = to]
      BY <2>6 DEF Parse, WriteError, Goto
    <3>2. pc[j] \in {"parse", "write"}
      BY <2>6 DEF Parse, WriteError, Goto
    <3>3. Running' = Running /\ Inside' = Inside
      BY <2>0, <3>1, <3>2, Move DEF RunSteps, SlotSteps, Running, Inside
    <3>4. CountInv'
      BY <2>1, <2>6, <3>3 DEF Parse, WriteError, IInv, CountInv, mainVars
    <3>5. BaseTypes'
      BY <1>0, <2>0, <2>1, <2>6, <3>1 DEF Parse, WriteError, IInv, mainVars
    <3>6. TraceInv'
      BY <1>0, <2>0, <2>6 DEF Parse, WriteError, Goto, IInv, TraceInv, DecidedSteps
    <3> QED BY <2>3, <3>1, <3>4, <3>5, <3>6 DEF IInv
  <2>7. CASE Release(j)
    <3>1. pc' = [pc EXCEPT ![j] = "done"] /\ pc[j] = "release"
      BY <2>7 DEF Release, Goto
    <3>2. Running' = Running /\ Inside' = Inside \ {j} /\ j \in Inside
      BY <2>0, <3>1, Move DEF RunSteps, SlotSteps, Running, Inside
    <3>3. CountInv'
      BY <1>0, <2>1, <2>7, <3>2, Leave DEF Release, IInv, CountInv, mainVars
    <3>4. BaseTypes' /\ TraceInv'
      BY <2>0, <2>1, <2>7, <3>1 DEF Release, IInv, TraceInv, DecidedSteps, mainVars
    <3> QED BY <2>3, <3>1, <3>3, <3>4 DEF IInv
  <2>8. CASE Done(j)
    <3>1. pc' = [pc EXCEPT ![j] = "ended"] /\ pc[j] = "done"
      BY <2>8 DEF Done, Goto
    <3>2. Running' = Running \ {j} /\ Inside' = Inside /\ j \in Running
      BY <2>0, <3>1, Move DEF RunSteps, SlotSteps, Running, Inside
    <3>3. CountInv'
      BY <1>0, <2>1, <2>8, <3>2, Leave DEF Done, IInv, CountInv, mainVars
    <3>4. BaseTypes' /\ TraceInv'
      BY <2>0, <2>1, <2>8, <3>1 DEF Done, IInv, TraceInv, DecidedSteps, mainVars
    <3> QED BY <2>3, <3>1, <3>3, <3>4 DEF IInv
  <2> QED BY <1>4, <2>4, <2>5, <2>6, <2>7, <2>8 DEF Goroutine
<1>5. CASE UNCHANGED vars
  BY <1>5 DEF vars, IInv, MainInv, CountInv, TraceInv, Running, Inside
<1> QED BY <1>1, <1>2, <1>3, <1>4, <1>5 DEF Next, Main

THEOREM Invariance == Spec => []IInv
<1>1. Init => IInv
  BY InitInv
<1>2. IInv /\ [Next]_vars => IInv'
  BY NextInv
<1> QED BY <1>1, <1>2, PTL DEF Spec

\* The counters of the semaphore and of the wait group never leave their range:
\* no goroutine gives back what it did not take (a negative wait group panics).
THEOREM TypeCorrect == Spec => []TypeOK
<1>1. IInv => TypeOK
  BY TypesFollow
<1> QED BY <1>1, Invariance, PTL

\* validator.go:80: the semaphore bounds the feeds in work, for every maxConcurrency.
THEOREM CapRespected == Spec => []WithinCap
<1>1. IInv => WithinCap
  BY DEF IInv, CountInv, WithinCap
<1> QED BY <1>1, Invariance, PTL

\* context.go:29-36: one goroutine at a time writes the error map of a source.
THEOREM ErrorsExclusive == Spec => []OneWriter
<1>1. IInv => OneWriter
  BY DEF IInv, TraceInv, OneWriter
<1> QED BY <1>1, Invariance, PTL

-----------------------------------------------------------------------------
\* Once every goroutine has called Done, every feed has left its trace.
LEMMA AllDecided ==
    ASSUME IInv, wg = 0, spawned = NumFeeds
    PROVE  \A j \in Feeds : j \in parsed \cup failed
<1>1. Running = {}
  <2>1. Running \in SUBSET Feeds
    BY DEF Running
  <2> QED BY <2>1, Finite, FS_EmptySet DEF IInv, CountInv
<1> SUFFICES ASSUME NEW j \in Feeds PROVE pc[j] \in DecidedSteps
  BY DEF IInv, TraceInv
<1>2. pc[j] # "none"
  BY PrepareAssumption DEF IInv, MainInv, Feeds
<1>3. pc[j] \notin RunSteps /\ pc[j] \in Steps
  BY <1>1 DEF Running, IInv, BaseTypes
<1> QED BY <1>2, <1>3 DEF RunSteps, DecidedSteps

\* Only Parse and WriteError leave a trace, each for a feed that had none.
LEMMA GoroutineDecides ==
    ASSUME IInv, NEW j \in Feeds, Goroutine(j)
    PROVE  /\ main' = main
           /\ \/ parsed' = parsed /\ failed' = failed
              \/ /\ j \notin parsed \cup failed
                 /\ \/ parsed' = parsed \cup {j} /\ failed' = failed
                    \/ parsed' = parsed /\ failed' = failed \cup {j}
<1>1. CASE Parse(j) \/ WriteError(j)
  BY <1>1 DEF Parse, WriteError, Goto, mainVars, IInv, TraceInv, DecidedSteps
<1>2. CASE ~(Parse(j) \/ WriteError(j))
  BY <1>2 DEF Goroutine, Acquire, LockUrl, Fetch, LockErrors, Release, Done, mainVars
<1> QED BY <1>1, <1>2

\* Prepare implements FeedOutcomes.
THEOREM Implementation == Spec => ImplementsOutcomes
<1> DEFINE Out == [j \in Feeds |-> Outcome(j)]
           Chk == (main = "checks")
<1>1. Init => Outcomes!Init
  BY DEF Init, Outcomes!Init, Outcome
<1>2. IInv /\ [Next]_vars => [Outcomes!Next]_<<Out, Chk>>
  <2> SUFFICES ASSUME IInv, [Next]_vars PROVE [Outcomes!Next]_<<Out, Chk>>
    OBVIOUS
  <2>1. CASE ListAgencies \/ Spawn \/ UNCHANGED vars
    <3>1. parsed' = parsed /\ failed' = failed /\ Chk' = Chk
      BY <2>1 DEF ListAgencies, Spawn, vars
    <3>2. Out' = Out
      BY <3>1 DEF Outcome
    <3> QED BY <3>1, <3>2
  <2>2. CASE BeginChecks
    <3>1. \A j \in Feeds : Out[j] # "pending"
      BY <2>2, AllDecided DEF BeginChecks, Outcome
    <3>2. Out' = Out
      BY <2>2 DEF BeginChecks, Outcome
    <3>3. Chk = FALSE /\ Chk' = TRUE
      BY <2>2 DEF BeginChecks
    <3> QED BY <3>1, <3>2, <3>3 DEF Outcomes!Next, Outcomes!Check
  <2>3. ASSUME NEW j \in Feeds, Goroutine(j) PROVE [Outcomes!Next]_<<Out, Chk>>
    <3>1. main # "checks"
      <4>1. pc[j] # "ended"
        BY <2>3 DEF Goroutine, Acquire, LockUrl, Fetch, Parse, LockErrors, WriteError,
           Release, Done, Goto
      <4>2. pc[j] # "none"
        BY <2>3 DEF Goroutine, Acquire, LockUrl, Fetch, Parse, LockErrors, WriteError,
           Release, Done, Goto
      <4>3. j \in Running
        BY <4>1, <4>2 DEF Running, RunSteps, IInv, BaseTypes
      <4>4. Running \in SUBSET Feeds
        BY DEF Running
      <4>5. wg # 0
        BY <4>3, <4>4, Finite, FS_EmptySet DEF IInv, CountInv
      <4> QED BY <4>5 DEF IInv, MainInv
    <3>2. Chk = FALSE /\ Chk' = FALSE
      BY <2>3, <3>1, GoroutineDecides
    <3>3. CASE parsed' = parsed /\ failed' = failed
      BY <3>2, <3>3 DEF Outcome
    <3>4. CASE /\ j \notin parsed \cup failed
               /\ \/ parsed' = parsed \cup {j} /\ failed' = failed
                  \/ parsed' = parsed /\ failed' = failed \cup {j}
      <4>1. Out[j] = "pending"
        BY <3>4 DEF Outcome
      <4>2. \A i \in Feeds \ {j} : Outcome(i)' = Outcome(i)
        BY <3>4 DEF Outcome
      <4>3. Outcome(j)' \in {"parsed", "failed"}
        BY <3>4 DEF Outcome
      <4>4. Out' = [Out EXCEPT ![j] = Outcome(j)']
        BY <4>2
      <4> QED BY <3>2, <4>1, <4>3, <4>4 DEF Outcomes!Next, Outcomes!Decide
    <3> QED BY <2>3, <3>3, <3>4, GoroutineDecides
  <2> QED BY <2>1, <2>2, <2>3 DEF Next, Main
<1> QED BY <1>1, <1>2, Invariance, PTL DEF Spec, ImplementsOutcomes, Outcomes!Spec
=============================================================================
