--------------------------- MODULE SharedPostgres ---------------------------
(***************************************************************************)
(* `shared_postgres_testcontainer` (test_utils.rs): the tests of a process *)
(* share one Postgres container.  The static `SHARED_PG` is a lock around  *)
(* a weak reference; who finds it dead starts a container and holds the    *)
(* lock until it is up.  A container is shared as long as a handle of it   *)
(* is alive; its removal, which the last drop sets off, is not modelled.   *)
(*                                                                         *)
(* A test asks once, on a runtime and a thread of its own.  It can be      *)
(* dropped at an `await`: while it waits for the lock or for the container.*)
(***************************************************************************)
EXTENDS Integers

CONSTANT Tests  \* the tests that want the container

\* Nobody holds the lock.
NoTest == "no test"
ASSUME NoTestAssumption == NoTest \notin Tests

VARIABLES
    owner,      \* who holds the lock of `SHARED_PG`
    weak,       \* the container it refers to, 0 for none
    started,    \* how many containers have been started: they are numbered
    booting,    \* the container that is being started, 0 for none
    handle,     \* the container each test has a handle of, 0 for none
    pc          \* where each test stands

vars == <<owner, weak, started, booting, handle, pc>>

TypeOK ==
    /\ owner \in Tests \cup {NoTest}
    /\ started \in Nat
    /\ weak \in 0..started
    /\ booting \in 0..started
    /\ handle \in [Tests -> 0..started]
    /\ pc \in [Tests -> {"idle", "waiting", "locked", "starting", "using", "done", "failed"}]

Init ==
    /\ owner = NoTest
    /\ weak = 0
    /\ started = 0
    /\ booting = 0
    /\ handle = [t \in Tests |-> 0]
    /\ pc = [t \in Tests |-> "idle"]

----------------------------------------------------------------------------
Ask(t) ==
    /\ pc[t] = "idle"
    /\ pc' = [pc EXCEPT ![t] = "waiting"]
    /\ UNCHANGED <<owner, weak, started, booting, handle>>

Lock(t) ==
    /\ pc[t] = "waiting"
    /\ owner = NoTest
    /\ owner' = t
    /\ pc' = [pc EXCEPT ![t] = "locked"]
    /\ UNCHANGED <<weak, started, booting, handle>>

\* The weak reference can be upgraded: some handle is alive.
Alive == weak # 0 /\ \E t \in Tests : handle[t] = weak

Upgrade(t) ==
    /\ pc[t] = "locked"
    /\ Alive
    /\ handle' = [handle EXCEPT ![t] = weak]
    /\ pc' = [pc EXCEPT ![t] = "using"]
    /\ owner' = NoTest
    /\ UNCHANGED <<weak, started, booting>>

\* Mutant: the lock is not held while the container starts.
StartUnlocked(t) ==
    /\ pc[t] = "locked"
    /\ ~ Alive
    /\ started' = started + 1
    /\ booting' = started + 1
    /\ pc' = [pc EXCEPT ![t] = "starting"]
    /\ owner' = NoTest
    /\ UNCHANGED <<weak, handle>>

\* Mutant: the number of the new container is not counted.
StartUncounted(t) ==
    /\ pc[t] = "locked"
    /\ ~ Alive
    /\ booting' = started + 1
    /\ pc' = [pc EXCEPT ![t] = "starting"]
    /\ UNCHANGED <<owner, weak, started, handle>>

Start(t) ==
    /\ pc[t] = "locked"
    /\ ~ Alive
    /\ started' = started + 1
    /\ booting' = started + 1
    /\ pc' = [pc EXCEPT ![t] = "starting"]
    /\ UNCHANGED <<owner, weak, handle>>

\* The container is up: the reference is stored and the lock released.
Booted(t) ==
    /\ pc[t] = "starting"
    /\ handle' = [handle EXCEPT ![t] = booting]
    /\ weak' = booting
    /\ booting' = 0
    /\ owner' = NoTest
    /\ pc' = [pc EXCEPT ![t] = "using"]
    /\ UNCHANGED started

\* The container does not start, or its address cannot be had.
BootFails(t) ==
    /\ pc[t] = "starting"
    /\ booting' = 0
    /\ owner' = NoTest
    /\ pc' = [pc EXCEPT ![t] = "failed"]
    /\ UNCHANGED <<weak, started, handle>>

\* Mutant: a test that is dropped while it starts the container keeps the lock.
QuitLocked(t) ==
    /\ pc[t] \in {"waiting", "starting"}
    /\ booting' = IF owner = t THEN 0 ELSE booting
    /\ pc' = [pc EXCEPT ![t] = "done"]
    /\ UNCHANGED <<owner, weak, started, handle>>

\* The test is dropped, and with it the guard and a half started container.
Quit(t) ==
    /\ pc[t] \in {"waiting", "starting"}
    /\ booting' = IF owner = t THEN 0 ELSE booting
    /\ owner' = IF owner = t THEN NoTest ELSE owner
    /\ pc' = [pc EXCEPT ![t] = "done"]
    /\ UNCHANGED <<weak, started, handle>>

\* The test ends and drops its handle.
Drop(t) ==
    /\ pc[t] = "using"
    /\ handle' = [handle EXCEPT ![t] = 0]
    /\ pc' = [pc EXCEPT ![t] = "done"]
    /\ UNCHANGED <<owner, weak, started, booting>>

Finished ==
    /\ \A t \in Tests : pc[t] \in {"done", "failed"}
    /\ UNCHANGED vars

TestStep(t) ==
    \/ Ask(t) \/ Lock(t) \/ Upgrade(t) \/ Start(t) \/ Booted(t)
    \/ BootFails(t) \/ Quit(t) \/ Drop(t)

Next == (\E t \in Tests : TestStep(t)) \/ Finished

Spec == Init /\ [][Next]_vars

\* The runtimes poll the tests, the lock goes to somebody who waits for it,
\* and a start of a container ends one way or the other.
FairSpec ==
    /\ Spec
    /\ WF_vars(\E t \in Tests : Lock(t))
    /\ \A t \in Tests : WF_vars(Upgrade(t) \/ Start(t) \/ Booted(t) \/ BootFails(t))

----------------------------------------------------------------------------
(* Properties                                                              *)

\* At most one container has handles: the tests that overlap have handles of
\* the same one, and a new one is started only when no handle is left, whoever
\* drops the last handle while another test looks at the weak reference.  (The
\* old one may still be on its way out then: it is removed asynchronously.)
OneContainer ==
    /\ \A t, u \in Tests : handle[t] # 0 /\ handle[u] # 0 => handle[t] = handle[u]
    /\ booting # 0 => \A t \in Tests : handle[t] = 0

\* Whoever asks is served or gets the error, also behind tests that fail to
\* start the container or are dropped while they do.
TestsServed == \A t \in Tests : pc[t] = "waiting" ~> pc[t] \in {"using", "done", "failed"}
=============================================================================
