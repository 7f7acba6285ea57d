------------------------- MODULE PostgresPoolProofs -------------------------
(***************************************************************************)
(* Proofs about PostgresPool for every set of nodes and number of retries. *)
(***************************************************************************)
EXTENDS PostgresPool, TLAPS

\* Attempts are counted: none before the schema is there, one at least in
\* the pool creation, and one is left as long as the node sleeps.
AttemptsInv ==
    \A n \in Nodes :
        /\ pc[n] \in {"schema", "insert"} => attempts[n] = 0 /\ n \in create
        /\ pc[n] = "connecting" => attempts[n] \in 1..(MaxRetries + 1)
        /\ pc[n] = "sleeping" => attempts[n] \in 1..MaxRetries
        /\ n \notin create => attempts[n] > 0
        /\ error[n] # "none" => pc[n] = "failed"

IInv ==
    /\ TypeOK
    /\ AttemptsInv
    /\ SchemaInPlace

LEMMA InitIInv == Init => IInv
<1> SUFFICES ASSUME Init PROVE IInv
  OBVIOUS
<1>1. TypeOK
  BY MaxRetriesAssumption DEF Init, TypeOK, States, Errors, Begin, FirstAttempt
<1>2. ASSUME NEW n \in Nodes
      PROVE  /\ pc[n] = IF n \in create THEN "schema" ELSE "connecting"
             /\ attempts[n] = IF n \in create THEN 0 ELSE 1
             /\ error[n] = "none"
  BY DEF Init, Begin, FirstAttempt
<1>3. AttemptsInv
  <2>1. 1 \in 1..(MaxRetries + 1)
    BY MaxRetriesAssumption
  <2> SUFFICES ASSUME NEW n \in Nodes
               PROVE  /\ pc[n] \in {"schema", "insert"} => attempts[n] = 0 /\ n \in create
                      /\ pc[n] = "connecting" => attempts[n] \in 1..(MaxRetries + 1)
                      /\ pc[n] = "sleeping" => attempts[n] \in 1..MaxRetries
                      /\ n \notin create => attempts[n] > 0
                      /\ error[n] # "none" => pc[n] = "failed"
    BY DEF AttemptsInv
  <2>2. CASE n \in create
    BY <1>2, <2>2
  <2>3. CASE n \notin create
    BY <1>2, <2>1, <2>3
  <2>4. QED
    BY <2>2, <2>3
<1>4. create \subseteq Nodes
  BY DEF Init
<1>5. SchemaInPlace
  BY <1>2, <1>4 DEF SchemaInPlace
<1>6. QED
  BY <1>1, <1>3, <1>5 DEF IInv

\* What holds of the other nodes goes on holding when node n moves on and
\* the schema is at most added.
LEMMA GotoIInv ==
    ASSUME IInv, NEW n \in Nodes, NEW where \in States, Goto(n, where),
           up' \in BOOLEAN, exists' \in BOOLEAN, usable' \in BOOLEAN,
           exists => exists',
           where \in {"connecting", "open"} => (n \in create => exists'),
           where = "insert" => pc[n] = "schema",
           where = "connecting" => attempts[n] \in 0..MaxRetries,
           where = "sleeping" => attempts[n] \in 1..MaxRetries,
           where # "schema",
           error[n] = "none"
    PROVE  IInv'
<1> USE MaxRetriesAssumption DEF IInv, Goto
<1>1. TypeOK'
  BY DEF TypeOK
<1>2. ASSUME NEW m \in Nodes
      PROVE  /\ pc'[m] = IF m = n THEN where ELSE pc[m]
             /\ attempts'[m] = IF m = n /\ where = "connecting" THEN attempts[m] + 1 ELSE attempts[m]
             /\ attempts[m] \in Nat
             /\ error'[m] = error[m]
             /\ create' = create
  BY DEF TypeOK
<1>3. AttemptsInv'
  BY <1>2 DEF AttemptsInv
<1>4. SchemaInPlace'
  BY <1>2 DEF SchemaInPlace, TypeOK
<1>5. QED
  BY <1>1, <1>3, <1>4

\* A node that fails leaves the others alone.
LEMMA FailIInv ==
    ASSUME IInv, NEW n \in Nodes, NEW e \in {"transient", "permanent", "duplicate"},
           FailWith(n, e),
           up' \in BOOLEAN, exists' \in BOOLEAN, usable' \in BOOLEAN,
           exists => exists',
           e = "duplicate" => exists'
    PROVE  IInv'
<1> USE MaxRetriesAssumption DEF IInv, FailWith
<1>1. TypeOK'
  BY DEF TypeOK, States, Errors
<1>2. ASSUME NEW m \in Nodes
      PROVE  /\ pc'[m] = IF m = n THEN "failed" ELSE pc[m]
             /\ error'[m] = IF m = n THEN e ELSE error[m]
             /\ attempts'[m] = attempts[m]
             /\ create' = create
  BY DEF TypeOK
<1>3. AttemptsInv'
  BY <1>2 DEF AttemptsInv
<1>4. SchemaInPlace'
  BY <1>2 DEF SchemaInPlace, TypeOK
<1>5. QED
  BY <1>1, <1>3, <1>4

LEMMA RestartIInv == ASSUME IInv, NEW n \in Nodes, Restart(n) PROVE IInv'
<1> USE MaxRetriesAssumption DEF IInv, Restart, dbVars
<1>1. TypeOK'
  BY DEF TypeOK, States, Errors, Begin, FirstAttempt
<1>2. ASSUME NEW m \in Nodes
      PROVE  /\ pc'[m] = IF m = n THEN Begin(n) ELSE pc[m]
             /\ error'[m] = IF m = n THEN "none" ELSE error[m]
             /\ attempts'[m] = IF m = n THEN FirstAttempt(n) ELSE attempts[m]
             /\ create' = create
  BY DEF TypeOK
<1>3. AttemptsInv'
  BY <1>2 DEF AttemptsInv, Begin, FirstAttempt
<1>4. SchemaInPlace'
  BY <1>2 DEF SchemaInPlace, TypeOK, Begin, FirstAttempt
<1>5. QED
  BY <1>1, <1>3, <1>4

\* The schema creation moves on, or ends `pg_pool_with_schema`.
LEMMA CreateIInv == ASSUME IInv, NEW n \in Nodes, CreateStep(n) PROVE IInv'
<1> USE DEF dbVars
<1>1. /\ up \in BOOLEAN /\ exists \in BOOLEAN /\ usable \in BOOLEAN
      /\ pc[n] \in {"schema", "insert"}
      /\ attempts[n] = 0
      /\ error[n] = "none"
      /\ 0 \in 0..MaxRetries
  BY MaxRetriesAssumption DEF IInv, TypeOK, AttemptsInv, CreateStep, SchemaLookup, SchemaInsert,
     SchemaDuplicate, SchemaError
<1>2. CASE SchemaLookup(n)
  BY <1>1, <1>2, GotoIInv DEF SchemaLookup, States
<1>3. CASE SchemaInsert(n)
  BY <1>1, <1>3, GotoIInv DEF SchemaInsert, States
<1>4. CASE SchemaDuplicate(n)
  BY <1>1, <1>4, FailIInv DEF SchemaDuplicate
<1>5. CASE SchemaError(n)
  BY <1>1, <1>5, FailIInv DEF SchemaError
<1>6. QED
  BY <1>2, <1>3, <1>4, <1>5 DEF CreateStep

\* The pool creation moves on, or ends `pg_pool_with_schema`.
LEMMA PoolIInv == ASSUME IInv, NEW n \in Nodes, PoolStep(n) PROVE IInv'
<1> USE DEF dbVars
<1>1. /\ up \in BOOLEAN /\ exists \in BOOLEAN /\ usable \in BOOLEAN
      /\ pc[n] \in {"connecting", "sleeping"}
      /\ error[n] = "none"
      /\ pc[n] = "connecting" => attempts[n] \in 1..(MaxRetries + 1)
      /\ pc[n] = "sleeping" => attempts[n] \in 1..MaxRetries
      /\ n \in create => exists
  BY MaxRetriesAssumption DEF IInv, TypeOK, AttemptsInv, SchemaInPlace, PoolStep, Connect,
     BackOff, GiveUp, Refuse, Retry
<1>2. CASE Connect(n)
  BY <1>1, <1>2, GotoIInv DEF Connect, States
<1>3. CASE BackOff(n)
  <2>1. attempts[n] \in 1..MaxRetries
    BY <1>1, <1>3, MaxRetriesAssumption DEF BackOff, CanRetry
  <2>2. QED
    BY <1>1, <1>3, <2>1, GotoIInv DEF BackOff, States
<1>4. CASE GiveUp(n)
  BY <1>1, <1>4, FailIInv DEF GiveUp
<1>5. CASE Refuse(n)
  BY <1>1, <1>5, FailIInv DEF Refuse
<1>6. CASE Retry(n)
  <2>1. attempts[n] \in 0..MaxRetries
    BY <1>1, <1>6, MaxRetriesAssumption DEF Retry
  <2>2. QED
    BY <1>1, <1>6, <2>1, GotoIInv DEF Retry, States
<1>7. QED
  BY <1>2, <1>3, <1>4, <1>5, <1>6 DEF PoolStep

LEMMA Inductive == Spec => []IInv
<1>1. IInv /\ [Next]_vars => IInv'
  <2> SUFFICES ASSUME IInv, [Next]_vars PROVE IInv'
    OBVIOUS
  <2>1. CASE UpDown \/ UNCHANGED vars
    BY <2>1 DEF UpDown, vars, dbVars, IInv, TypeOK, AttemptsInv, SchemaInPlace
  <2>2. CASE \E n \in Nodes : Restart(n)
    BY <2>2, RestartIInv
  <2>3. CASE \E n \in Nodes : CreateStep(n)
    BY <2>3, CreateIInv
  <2>4. CASE \E n \in Nodes : PoolStep(n)
    BY <2>4, PoolIInv
  <2>5. QED
    BY <2>1, <2>2, <2>3, <2>4 DEF Next
<1>2. QED
  BY <1>1, InitIInv, PTL DEF Spec

\* Database and nodes stay within their types; no node makes more than one
\* attempt and `max_retries` retries.
THEOREM TypeCorrect == Spec => []TypeOK
<1>1. IInv => TypeOK
  BY DEF IInv
<1>2. QED
  BY <1>1, Inductive, PTL

\* Whatever the nodes race for and the database does, an open pool of a node
\* that creates its schema has that schema.
THEOREM OpenPoolHasSchema == Spec => []SchemaInPlace
<1>1. IInv => SchemaInPlace
  BY DEF IInv
<1>2. QED
  BY <1>1, Inductive, PTL
=============================================================================
