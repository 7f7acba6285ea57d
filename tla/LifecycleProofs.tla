-------------------------- MODULE LifecycleProofs --------------------------
(***************************************************************************)
(* Proofs about Lifecycle for every set of services.                       *)
(***************************************************************************)
EXTENDS Lifecycle, FiniteSetTheorems, TLAPS

\* Registering a new service makes the registry one longer and keeps every
\* service in it only once.
LEMMA Registers ==
    ASSUME TypeOK, NEW s \in Services, NewService(s)
    PROVE  /\ registry' \in Seq(Services)
           /\ Len(registry') = Len(registry) + 1
           /\ Registered' = Registered \cup {s}
           /\ Cardinality(Registered') = Len(registry')
<1>1. /\ registry \in Seq(Services) /\ registry' = Append(registry, s)
      /\ s \notin Registered /\ Cardinality(Registered) = Len(registry)
  BY DEF TypeOK, NewService
<1>2. /\ registry' \in Seq(Services) /\ Len(registry') = Len(registry) + 1
      /\ Len(registry) \in Nat
  BY <1>1
<1>3. /\ \A n \in 1..Len(registry) : registry'[n] = registry[n]
      /\ registry'[Len(registry) + 1] = s
  BY <1>1
<1>4. Registered' = Registered \cup {s}
  BY <1>1, <1>2, <1>3 DEF Registered
<1>5. IsFiniteSet(Registered)
  <2>1. IsFiniteSet(1..Len(registry))
    BY <1>2, FS_Interval
  <2>2. registry \in Surjection(1..Len(registry), Registered)
    BY <1>1 DEF Registered, Surjection
  <2>3. QED
    BY <2>1, <2>2, FS_Surjection
<1>6. Cardinality(Registered \cup {s}) = Cardinality(Registered) + 1
  BY <1>1, <1>5, FS_AddElement
<1>7. QED
  BY <1>1, <1>2, <1>4, <1>6

\* No service registers twice, only registered services raise a flag or run,
\* and a request never reads past the registry it has locked.
THEOREM TypeCorrect == Spec => []TypeOK
<1>1. Init => TypeOK
  <2> SUFFICES ASSUME Init PROVE TypeOK
    OBVIOUS
  <2>1. registry = <<>> /\ Registered = {}
    BY DEF Init, Registered
  <2>2. Cardinality(Registered) = Len(registry)
    BY <2>1, FS_EmptySet
  <2>3. registry \in Seq(Services) /\ Len(registry) = 0
    BY <2>1
  <2>4. scanned \in -1..Len(registry)
    BY <2>3 DEF Init
  <2>5. QED
    BY <2>1, <2>2, <2>3, <2>4 DEF Init, TypeOK
<1>2. TypeOK /\ [Next]_vars => TypeOK'
  <2> SUFFICES ASSUME TypeOK, [Next]_vars PROVE TypeOK'
    OBVIOUS
  <2>1. CASE \E s \in Services : NewService(s)
    <3>1. PICK s \in Services : NewService(s)
      BY <2>1
    <3>2. /\ registry' \in Seq(Services) /\ Len(registry') = Len(registry) + 1
          /\ Registered' = Registered \cup {s}
          /\ Cardinality(Registered') = Len(registry')
      BY <3>1, Registers
    <3>3. Len(registry) \in Nat
      BY DEF TypeOK
    <3>4. /\ running' = running \cup {s}
          /\ UNCHANGED <<started, scanned, answer, lowered, shutdownVars>>
      BY <3>1 DEF NewService
    <3>5. QED
      BY <3>2, <3>3, <3>4 DEF TypeOK, shutdownVars
  <2>2. CASE ~ (\E s \in Services : NewService(s))
    <3>1. registry' = registry /\ Registered' = Registered
      BY <2>2 DEF Next, ServiceStep, HealthStep, Ready, Fail, Wind, Health, LoadRaised,
         LoadLowered, AllRaised, Signal, ShutdownStep, TakeSignal, CancelToken,
         TakeCancelled, Panic, ReadVerdict, vars, healthVars, shutdownVars, Registered
    <3>2. Registered \subseteq Services /\ Len(registry) \in Nat
      BY DEF TypeOK, Registered
    <3> USE DEF TypeOK, healthVars, shutdownVars
    <3>3. CASE ServiceStep
      BY <2>2, <3>1, <3>2, <3>3 DEF ServiceStep, Ready, Fail, Wind
    <3>4. CASE HealthStep
      BY <3>1, <3>2, <3>4 DEF HealthStep, Health, LoadRaised, LoadLowered, AllRaised, FlagsLeft,
         Locked
    <3>5. CASE Signal \/ ShutdownStep \/ UNCHANGED vars
      BY <3>1, <3>5 DEF Signal, ShutdownStep, TakeSignal, CancelToken, TakeCancelled, Panic,
         ReadVerdict, vars
    <3>6. QED
      BY <3>3, <3>4, <3>5 DEF Next
  <2>3. QED
    BY <2>1, <2>2
<1>3. QED
  BY <1>1, <1>2, PTL DEF Spec

----------------------------------------------------------------------------
\* The flag is stored before the token is cancelled by the signal; every
\* other cancellation has a culprit.
VerdictInv ==
    /\ graceful => signal
    /\ task = "stored" => graceful
    /\ cancelled /\ ~ graceful => culprits # {}
    /\ task \in {"select", "stored", "done"}
    /\ verdict \in {"none", "graceful", "failed"}
    /\ VerdictTruthful

\* If only the signal has cancelled the token main reads "graceful", if no
\* signal has arrived "failed", whatever the order in which the signal, the
\* services and the shutdown task run.  The rest is open: the signal may
\* arrive behind a failure and be taken by the shutdown task all the same.
THEOREM VerdictIsTrue == Spec => []VerdictTruthful
<1>1. Init => VerdictInv
  BY DEF Init, VerdictInv, VerdictTruthful
<1>2. VerdictInv /\ [Next]_vars => VerdictInv'
  <2> SUFFICES ASSUME VerdictInv, [Next]_vars PROVE VerdictInv'
    OBVIOUS
  <2> USE DEF VerdictInv, VerdictTruthful, healthVars, shutdownVars
  <2>1. CASE HealthStep \/ UNCHANGED vars
    BY <2>1 DEF HealthStep, Health, LoadRaised, LoadLowered, AllRaised, vars
  <2>2. CASE ServiceStep
    BY <2>2 DEF ServiceStep, NewService, Ready, Fail, Wind
  <2>3. CASE Signal
    BY <2>3 DEF Signal
  <2>4. CASE ShutdownStep
    BY <2>4 DEF ShutdownStep, TakeSignal, CancelToken, TakeCancelled, Panic, ReadVerdict
  <2>5. QED
    BY <2>1, <2>2, <2>3, <2>4 DEF Next
<1>3. VerdictInv => VerdictTruthful
  BY DEF VerdictInv
<1>4. QED
  BY <1>1, <1>2, <1>3, PTL DEF Spec

\* Who cancels the token first is known when it is cancelled, and main reads
\* after that; as long as no signal is there a failure is read as one.
FailureInv ==
    /\ culprits # {} \/ verdict # "none" => cancelled
    /\ graceful => signal
    /\ culprits # {} => verdict # "graceful"

\* A failure is hidden by nothing but a signal: when none arrives before main
\* has read, main never takes a shutdown that something else caused for a
\* graceful one.
THEOREM FailureIsReported ==
    Spec /\ [](culprits # {} /\ verdict = "none" => ~ signal)
        => [](culprits # {} => verdict # "graceful")
<1> DEFINE SignalIsLate == culprits # {} /\ verdict = "none" => ~ signal
<1>1. Init => FailureInv
  BY DEF Init, FailureInv
<1>2. FailureInv /\ SignalIsLate /\ [Next]_vars => FailureInv'
  <2> SUFFICES ASSUME FailureInv, SignalIsLate, [Next]_vars PROVE FailureInv'
    OBVIOUS
  <2> USE DEF FailureInv, healthVars, shutdownVars
  <2>1. CASE HealthStep \/ UNCHANGED vars
    BY <2>1 DEF HealthStep, Health, LoadRaised, LoadLowered, AllRaised, vars
  <2>2. CASE ServiceStep
    BY <2>2 DEF ServiceStep, NewService, Ready, Fail, Wind
  <2>3. CASE Signal
    BY <2>3 DEF Signal
  <2>4. CASE TakeSignal \/ CancelToken \/ TakeCancelled \/ Panic
    BY <2>4 DEF TakeSignal, CancelToken, TakeCancelled, Panic
  <2>5. CASE ReadVerdict
    BY <2>5 DEF ReadVerdict
  <2>6. QED
    BY <2>1, <2>2, <2>3, <2>4, <2>5 DEF Next, ShutdownStep
<1>3. FailureInv => (culprits # {} => verdict # "graceful")
  BY DEF FailureInv
<1>4. QED
  BY <1>1, <1>2, <1>3, PTL DEF Spec

----------------------------------------------------------------------------
\* While the lock is held the registry stands still and flags only go up:
\* what has been read as raised stays raised, and a flag that is down now
\* was down when the request came in.
ScanInv ==
    /\ registry \in Seq(Services)
    /\ scanned \in -1..Len(registry)
    /\ Locked => /\ \A n \in 1..scanned : registry[n] \in started
                 /\ Registered \ started \subseteq lowered

LEMMA ScanInductive == Spec => []ScanInv
<1>1. Init => ScanInv
  BY DEF Init, ScanInv, Locked
<1>2. ScanInv /\ [Next]_vars => ScanInv'
  <2> SUFFICES ASSUME ScanInv, [Next]_vars PROVE ScanInv'
    OBVIOUS
  <2> USE DEF ScanInv, Locked, Registered, healthVars, shutdownVars
  <2>1. CASE \E s \in Services : NewService(s)
    BY <2>1 DEF NewService
  <2>2. CASE \E s \in Services : Ready(s)
    BY <2>2 DEF Ready
  <2>3. CASE \E s \in Services : Fail(s) \/ Wind(s)
    BY <2>3 DEF Fail, Wind
  <2>4. CASE Health
    BY <2>4 DEF Health
  <2>5. CASE LoadRaised
    BY <2>5 DEF LoadRaised, FlagsLeft
  <2>6. CASE LoadLowered \/ AllRaised
    BY <2>6 DEF LoadLowered, AllRaised
  <2>7. CASE Signal \/ ShutdownStep \/ UNCHANGED vars
    BY <2>7 DEF Signal, ShutdownStep, TakeSignal, CancelToken, TakeCancelled, Panic,
        ReadVerdict, vars
  <2>8. QED
    BY <2>1, <2>2, <2>3, <2>4, <2>5, <2>6, <2>7 DEF Next, ServiceStep, HealthStep
<1>3. QED
  BY <1>1, <1>2, PTL DEF Spec

\* /health never answers from a mix of old and new flags that was wrong
\* throughout, although it reads them one after the other.
THEOREM HealthIsTrue == Spec => HealthAnswersTrue
<1>1. ASSUME ScanInv, [Next]_vars, Locked, ~ Locked'
      PROVE  IF answer' = "healthy" THEN Registered \subseteq started ELSE lowered # {}
  <2> USE <1>1 DEF ScanInv, Locked, Registered, healthVars, shutdownVars
  <2>1. CASE LoadLowered
    <3>1. answer' = "starting" /\ scanned + 1 \in DOMAIN registry
          /\ registry[scanned + 1] \notin started
      BY <2>1 DEF LoadLowered, FlagsLeft
    <3>2. registry[scanned + 1] \in lowered
      BY <3>1
    <3>3. QED
      BY <3>1, <3>2
  <2>2. CASE AllRaised
    BY <2>2 DEF AllRaised, FlagsLeft
  <2>3. QED
    BY <2>1, <2>2 DEF Next, ServiceStep, HealthStep, NewService, Ready, Fail, Wind, Health,
        LoadRaised, Signal, ShutdownStep, TakeSignal, CancelToken, TakeCancelled, Panic,
        ReadVerdict, vars
<1>2. QED
  BY <1>1, ScanInductive, PTL DEF Spec, HealthAnswersTrue

----------------------------------------------------------------------------
(* Where "healthy" is final                                                *)

\* Every service is ready, and a request that is under way will find it so.
ReadyInv ==
    answer = "healthy" => Registered \subseteq started

\* An orchestrator that was told "healthy" is not told "starting" later, as
\* long as no service registers after that answer (lib.rs:179 lets one).  A
\* service that ends, or a shutdown, does not take the answer back.
THEOREM HealthyIsFinal ==
    Spec /\ [][answer = "healthy" => UNCHANGED registry]_vars
        => [][answer = "healthy" => answer' = "healthy"]_vars
<1> DEFINE NoneRegistersLate == answer = "healthy" => UNCHANGED registry
<1>1. Init => ReadyInv
  BY DEF Init, ReadyInv
<1>2. ScanInv /\ ReadyInv /\ [Next]_vars /\ [NoneRegistersLate]_vars => ReadyInv'
  <2> SUFFICES ASSUME ScanInv, ReadyInv, [Next]_vars, [NoneRegistersLate]_vars
               PROVE  ReadyInv'
    OBVIOUS
  <2> USE DEF ReadyInv, Registered, healthVars, shutdownVars
  <2>1. CASE \E s \in Services : NewService(s)
    <3>1. answer' = answer
      BY <2>1 DEF NewService
    <3>2. answer = "healthy" => registry' = registry /\ started' = started
      BY <2>1 DEF NewService, vars
    <3>3. QED
      BY <3>1, <3>2
  <2>2. CASE \E s \in Services : Ready(s) \/ Fail(s) \/ Wind(s)
    BY <2>2 DEF Ready, Fail, Wind
  <2>3. CASE Health \/ LoadRaised \/ LoadLowered
    BY <2>3 DEF Health, LoadRaised, LoadLowered
  <2>4. CASE Signal \/ ShutdownStep \/ UNCHANGED vars
    BY <2>4 DEF Signal, ShutdownStep, TakeSignal, CancelToken, TakeCancelled, Panic,
        ReadVerdict, vars
  <2>5. CASE AllRaised
    BY <2>5 DEF AllRaised, ScanInv, Locked, FlagsLeft
  <2>6. QED
    BY <2>1, <2>2, <2>3, <2>4, <2>5 DEF Next, ServiceStep, HealthStep
<1>3. ScanInv /\ ReadyInv /\ [Next]_vars => [answer = "healthy" => answer' = "healthy"]_vars
  <2> SUFFICES ASSUME ScanInv, ReadyInv, Next, answer = "healthy" PROVE answer' = "healthy"
    OBVIOUS
  <2>1. ~ LoadLowered
    BY DEF LoadLowered, ScanInv, ReadyInv, Registered, Locked, FlagsLeft
  <2>2. QED
    BY <2>1 DEF Next, ServiceStep, HealthStep, NewService, Ready, Fail, Wind, Health,
       LoadRaised, AllRaised, Signal, ShutdownStep, TakeSignal, CancelToken, TakeCancelled,
       Panic, ReadVerdict, healthVars, shutdownVars
<1>4. QED
  BY <1>1, <1>2, <1>3, ScanInductive, PTL DEF Spec
=============================================================================
