------------------------ MODULE SharedPostgresProofs ------------------------
(***************************************************************************)
(* Proofs about SharedPostgres for every set of tests, also an infinite    *)
(* one.                                                                    *)
(***************************************************************************)
EXTENDS SharedPostgres, TLAPS

\* The lock is held from the look at the weak reference until the container
\* is up, so every handle is one of the container the reference is to, and
\* there is none while a container starts.
LockInv ==
    /\ \A t \in Tests : pc[t] \in {"locked", "starting"} <=> owner = t
    /\ \A t \in Tests : handle[t] # 0 => handle[t] = weak
    /\ booting # 0 <=> owner # NoTest /\ pc[owner] = "starting"
    /\ booting # 0 => \A t \in Tests : handle[t] = 0

IInv == TypeOK /\ LockInv

LEMMA Inductive == Spec => []IInv
<1>1. Init => IInv
  BY NoTestAssumption DEF Init, IInv, TypeOK, LockInv
<1>2. IInv /\ [Next]_vars => IInv'
  <2> SUFFICES ASSUME IInv, [Next]_vars PROVE IInv'
    OBVIOUS
  <2> USE NoTestAssumption DEF IInv
  <2>1. ASSUME NEW t \in Tests, TestStep(t) PROVE IInv'
    <3>1. CASE Ask(t)
      BY <3>1 DEF Ask, TypeOK, LockInv
    <3>2. CASE Lock(t)
      BY <3>2 DEF Lock, TypeOK, LockInv
    <3>3. CASE Upgrade(t)
      BY <3>3 DEF Upgrade, Alive, TypeOK, LockInv
    <3>4. CASE Start(t)
      <4>1. \A u \in Tests : handle[u] = 0
        BY <3>4 DEF Start, Alive, TypeOK, LockInv
      <4>2. TypeOK'
        BY <3>4 DEF Start, TypeOK
      <4>3. LockInv'
        BY <3>4, <4>1 DEF Start, TypeOK, LockInv
      <4>4. QED
        BY <4>2, <4>3
    <3>5. CASE Booted(t)
      <4>1. TypeOK'
        BY <3>5 DEF Booted, TypeOK
      <4>2. LockInv'
        BY <3>5 DEF Booted, TypeOK, LockInv
      <4>3. QED
        BY <4>1, <4>2
    <3>6. CASE BootFails(t)
      BY <3>6 DEF BootFails, TypeOK, LockInv
    <3>7. CASE Quit(t)
      BY <3>7 DEF Quit, TypeOK, LockInv
    <3>8. CASE Drop(t)
      BY <3>8 DEF Drop, TypeOK, LockInv
    <3>9. QED
      BY <2>1, <3>1, <3>2, <3>3, <3>4, <3>5, <3>6, <3>7, <3>8 DEF TestStep
  <2>2. CASE UNCHANGED vars
    BY <2>2 DEF vars, TypeOK, LockInv
  <2>3. QED
    BY <2>1, <2>2 DEF Next, Finished
<1>3. QED
  BY <1>1, <1>2, PTL DEF Spec

\* The lock, the reference and the handles stay within their types.
THEOREM TypeCorrect == Spec => []TypeOK
<1>1. IInv => TypeOK
  BY DEF IInv
<1>2. QED
  BY <1>1, Inductive, PTL

\* However many tests come, go and are dropped, those that overlap share one
\* container, and none is started while a handle is alive.
THEOREM TestsShareOne == Spec => []OneContainer
<1>1. IInv => OneContainer
  BY DEF IInv, LockInv, OneContainer
<1>2. QED
  BY <1>1, Inductive, PTL
=============================================================================
