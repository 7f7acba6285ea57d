---------------------------- MODULE PostgresPool ----------------------------
(***************************************************************************)
(* `pg_pool_with_schema` (postgres.rs): several nodes start against one    *)
(* database, create their common schema if they are told to, and open      *)
(* their pools with retries.  The database comes and goes; a node that     *)
(* fails to start is started again by its supervisor.                      *)
(*                                                                         *)
(* CREATE SCHEMA IF NOT EXISTS looks the schema up and then inserts it:    *)
(* when another node has inserted it in between, Postgres refuses with a   *)
(* unique violation, a `Database` error.                                   *)
(***************************************************************************)
EXTENDS Integers

CONSTANTS
    Nodes,      \* the nodes that share the database and the schema
    MaxRetries  \* `max_retries`

ASSUME MaxRetriesAssumption == MaxRetries \in Nat \ {0}

VARIABLES
    up,         \* the database can be reached
    exists,     \* the schema exists
    usable,     \* the connection string and the rights of the nodes are right
    create,     \* which nodes run with CreateSchema::Yes
    pc,         \* where each node's pg_pool_with_schema stands
    attempts,   \* how many times it has tried to create the pool
    error       \* the error it has returned

dbVars == <<up, exists, usable>>
vars == <<dbVars, create, pc, attempts, error>>

States == {"schema", "insert", "connecting", "sleeping", "open", "failed"}
Errors == {"none", "transient", "permanent", "duplicate"}

TypeOK ==
    /\ up \in BOOLEAN
    /\ exists \in BOOLEAN
    /\ usable \in BOOLEAN
    /\ create \subseteq Nodes
    /\ pc \in [Nodes -> States]
    /\ attempts \in [Nodes -> 0..(MaxRetries + 1)]
    /\ error \in [Nodes -> Errors]

\* The schema is created first, unless CreateSchema::No.
Begin(n) == IF n \in create THEN "schema" ELSE "connecting"
FirstAttempt(n) == IF n \in create THEN 0 ELSE 1

Init ==
    /\ up \in BOOLEAN
    /\ exists \in BOOLEAN
    /\ usable \in BOOLEAN
    /\ create \in SUBSET Nodes
    /\ pc = [n \in Nodes |-> Begin(n)]
    /\ attempts = [n \in Nodes |-> FirstAttempt(n)]
    /\ error = [n \in Nodes |-> "none"]

----------------------------------------------------------------------------
(* The database and the supervisor                                         *)

UpDown ==
    /\ up' = ~ up
    /\ UNCHANGED <<exists, usable, create, pc, attempts, error>>

Restart(n) ==
    /\ pc[n] = "failed"
    /\ pc' = [pc EXCEPT ![n] = Begin(n)]
    /\ attempts' = [attempts EXCEPT ![n] = FirstAttempt(n)]
    /\ error' = [error EXCEPT ![n] = "none"]
    /\ UNCHANGED <<dbVars, create>>

----------------------------------------------------------------------------
(* maybe_create_schema                                                     *)

Goto(n, where) ==
    /\ pc' = [pc EXCEPT ![n] = where]
    /\ attempts' = [attempts EXCEPT ![n] = IF where = "connecting" THEN @ + 1 ELSE @]
    /\ UNCHANGED <<create, error>>

FailWith(n, e) ==
    /\ pc' = [pc EXCEPT ![n] = "failed"]
    /\ error' = [error EXCEPT ![n] = e]
    /\ UNCHANGED <<create, attempts>>

\* Mutant: the statement lacks IF NOT EXISTS.
SchemaLookupAlwaysInserts(n) ==
    /\ pc[n] = "schema"
    /\ up /\ usable
    /\ Goto(n, "insert")
    /\ UNCHANGED dbVars

SchemaLookup(n) ==
    /\ pc[n] = "schema"
    /\ up /\ usable
    /\ Goto(n, IF exists THEN "connecting" ELSE "insert")
    /\ UNCHANGED dbVars

SchemaInsert(n) ==
    /\ pc[n] = "insert"
    /\ up
    /\ ~ exists
    /\ exists' = TRUE
    /\ Goto(n, "connecting")
    /\ UNCHANGED <<up, usable>>

SchemaDuplicate(n) ==
    /\ pc[n] = "insert"
    /\ up
    /\ exists
    /\ FailWith(n, "duplicate")
    /\ UNCHANGED dbVars

\* Mutant: the result of the creation is not looked at.
SchemaErrorIgnored(n) ==
    /\ pc[n] \in {"schema", "insert"}
    /\ ~ up \/ ~ usable
    /\ Goto(n, "connecting")
    /\ UNCHANGED dbVars

\* Any error of the creation is returned at once, a transient one too.  The
\* schema may have been inserted when the connection broke.
SchemaError(n) ==
    /\ pc[n] \in {"schema", "insert"}
    /\ ~ up \/ ~ usable
    /\ FailWith(n, IF usable THEN "transient" ELSE "permanent")
    /\ exists' \in {exists, exists \/ pc[n] = "insert"}
    /\ UNCHANGED <<up, usable>>

----------------------------------------------------------------------------
(* The retried pool creation                                               *)

\* The first connection is made and its search path is set.
Connect(n) ==
    /\ pc[n] = "connecting"
    /\ up /\ usable
    /\ Goto(n, "open")
    /\ UNCHANGED dbVars

\* Mutant: one attempt too many.
CanRetryMore(n) == attempts[n] <= MaxRetries + 1

\* The backoff has a delay left: `max_times` of them, behind the attempt
\* that uses none.  The documentation counts the first one as well.
CanRetry(n) == attempts[n] <= MaxRetries

\* An error that `is_retryable_error` lets through: the database is away, or
\* its connections are all in use.
BackOff(n) ==
    /\ pc[n] = "connecting"
    /\ CanRetry(n)
    /\ Goto(n, "sleeping")
    /\ UNCHANGED dbVars

GiveUp(n) ==
    /\ pc[n] = "connecting"
    /\ ~ CanRetry(n)
    /\ FailWith(n, "transient")
    /\ UNCHANGED dbVars

\* An error that is not retryable.
Refuse(n) ==
    /\ pc[n] = "connecting"
    /\ ~ usable
    /\ FailWith(n, "permanent")
    /\ UNCHANGED dbVars

\* Mutant: each retry sets out with a new backoff.
RetryFromStart(n) ==
    /\ pc[n] = "sleeping"
    /\ pc' = [pc EXCEPT ![n] = "connecting"]
    /\ attempts' = [attempts EXCEPT ![n] = 1]
    /\ UNCHANGED <<dbVars, create, error>>

\* `retry_delay` has passed.
Retry(n) ==
    /\ pc[n] = "sleeping"
    /\ Goto(n, "connecting")
    /\ UNCHANGED dbVars

----------------------------------------------------------------------------
CreateStep(n) == SchemaLookup(n) \/ SchemaInsert(n) \/ SchemaDuplicate(n) \/ SchemaError(n)
PoolStep(n) == Connect(n) \/ BackOff(n) \/ GiveUp(n) \/ Refuse(n) \/ Retry(n)

Next == UpDown \/ \E n \in Nodes : Restart(n) \/ CreateStep(n) \/ PoolStep(n)

Spec == Init /\ [][Next]_vars

\* The nodes are restarted, every attempt to create the pool ends, with
\* `acquire_timeout` at the latest, and so does every delay.  A database that
\* can be reached accepts a node that keeps trying.  The connection on which
\* the schema is created has no timeout: that it ends is an assumption.
FairSpec ==
    /\ Spec
    /\ \A n \in Nodes :
        /\ WF_vars(Restart(n))
        /\ WF_vars(CreateStep(n))
        /\ WF_vars(PoolStep(n))
        /\ SF_vars(Connect(n))

----------------------------------------------------------------------------
(* Properties                                                              *)

\* A node whose pool is open has the schema it asked for, and one that lost
\* the race to create it finds it when it is started again.
SchemaInPlace ==
    \A n \in create : pc[n] = "open" \/ attempts[n] > 0 \/ error[n] = "duplicate" => exists

\* The pool creation hands a pool or an error to its caller in the end, also
\* when the database comes and goes between the attempts for ever.
PoolCreationEnds ==
    \A n \in Nodes : pc[n] \in {"connecting", "sleeping"} ~> pc[n] \in {"open", "failed"}

\* When the database stays up, every node gets its pool in the end, whatever
\* the nodes did to each other and the database did to them before.
NodesStart == usable /\ <>[]up => \A n \in Nodes : <>(pc[n] = "open")
=============================================================================
