----------------------------- MODULE Lifecycle -----------------------------
(***************************************************************************)
(* Start-up and shutdown of a node (lib.rs and api.rs): services register  *)
(* in `StartedServices` and raise their flag when they are ready, `/health`*)
(* reads the flags, and the task of `spawn_shutdown_task` turns a signal   *)
(* into the cancellation of the token everybody shares.                    *)
(*                                                                         *)
(* The tasks run on several threads.  `all_started` holds the registry's   *)
(* lock while it reads the flags one after the other; the flags are raised *)
(* without the lock.  The services are those of the application: each owns *)
(* a drop guard of the token, as TxSender's task does, and main waits for  *)
(* the token and then reads `is_graceful`.                                 *)
(***************************************************************************)
EXTENDS Integers, Sequences, FiniteSets

CONSTANT Services   \* the async services the node may start

VARIABLES
    registry,   \* `external_service`: the services in order of registration
    started,    \* the services whose flag is raised
    running,    \* the services whose task has not ended
    scanned,    \* how many flags the /health request has found raised, or -1
    answer,     \* what the last /health request answered
    lowered,    \* history: the registered flags not raised when it took the lock
    signal,     \* `shutdown_signal` has completed
    cancelled,  \* the cancellation token
    graceful,   \* `is_graceful`
    task,       \* where the shutdown task stands
    verdict,    \* what main has read from `is_graceful`
    culprits    \* history: who has cancelled the token, other than by the signal

healthVars == <<registry, started, scanned, answer, lowered>>
shutdownVars == <<signal, cancelled, graceful, task, verdict, culprits>>
vars == <<healthVars, running, shutdownVars>>

Registered == {registry[n] : n \in DOMAIN registry}
ShutdownTask == "shutdown task"

TypeOK ==
    /\ registry \in Seq(Services)
    /\ Cardinality(Registered) = Len(registry)
    /\ started \subseteq Registered
    /\ running \subseteq Registered
    /\ scanned \in -1..Len(registry)
    /\ answer \in {"none", "healthy", "starting"}
    /\ lowered \subseteq Registered
    /\ signal \in BOOLEAN
    /\ cancelled \in BOOLEAN
    /\ graceful \in BOOLEAN
    /\ task \in {"select", "stored", "done"}
    /\ verdict \in {"none", "graceful", "failed"}
    /\ culprits \subseteq Services \cup {ShutdownTask}

Init ==
    /\ registry = <<>>
    /\ started = {}
    /\ running = {}
    /\ scanned = -1
    /\ answer = "none"
    /\ lowered = {}
    /\ signal = FALSE
    /\ cancelled = FALSE
    /\ graceful = FALSE
    /\ task = "select"
    /\ verdict = "none"
    /\ culprits = {}

----------------------------------------------------------------------------
(* Services                                                                *)

Locked == scanned >= 0

\* Mutant: the flag is handed out and not pushed.
NewServiceUnlisted(s) ==
    /\ s \notin Registered
    /\ ~ Locked
    /\ running' = running \cup {s}
    /\ UNCHANGED <<healthVars, shutdownVars>>

\* `new_service`, which takes the lock.
NewService(s) ==
    /\ s \notin Registered
    /\ ~ Locked
    /\ registry' = Append(registry, s)
    /\ running' = running \cup {s}
    /\ UNCHANGED <<started, scanned, answer, lowered, shutdownVars>>

\* The service is ready and raises its flag; nobody lowers it again.
Ready(s) ==
    /\ s \in running \ started
    /\ started' = started \cup {s}
    /\ UNCHANGED <<registry, running, scanned, answer, lowered, shutdownVars>>

\* The service's task ends by itself; its drop guard cancels the token.
Fail(s) ==
    /\ s \in running
    /\ running' = running \ {s}
    /\ cancelled' = TRUE
    /\ culprits' = IF cancelled THEN culprits ELSE culprits \cup {s}
    /\ UNCHANGED <<healthVars, signal, graceful, task, verdict>>

\* The service sees the cancellation and ends.
Wind(s) ==
    /\ s \in running
    /\ cancelled
    /\ running' = running \ {s}
    /\ UNCHANGED <<healthVars, shutdownVars>>

----------------------------------------------------------------------------
(* /health                                                                 *)

\* A request is handled: `all_started` takes the lock.
Health ==
    /\ ~ Locked
    /\ scanned' = 0
    /\ lowered' = Registered \ started
    /\ UNCHANGED <<registry, started, answer, running, shutdownVars>>

\* Mutant: the last registered service is not looked at.
FlagsLeftButLast == scanned < Len(registry) - 1

\* There are flags `all` has not read yet.
FlagsLeft == scanned < Len(registry)

LoadRaised ==
    /\ Locked
    /\ FlagsLeft
    /\ registry[scanned + 1] \in started
    /\ scanned' = scanned + 1
    /\ UNCHANGED <<registry, started, answer, lowered, running, shutdownVars>>

\* The first flag that is not raised decides.
LoadLowered ==
    /\ Locked
    /\ FlagsLeft
    /\ registry[scanned + 1] \notin started
    /\ scanned' = -1
    /\ answer' = "starting"
    /\ UNCHANGED <<registry, started, lowered, running, shutdownVars>>

AllRaised ==
    /\ Locked
    /\ ~ FlagsLeft
    /\ scanned' = -1
    /\ answer' = "healthy"
    /\ UNCHANGED <<registry, started, lowered, running, shutdownVars>>

----------------------------------------------------------------------------
(* Shutdown                                                                *)

Signal ==
    /\ ~ signal
    /\ signal' = TRUE
    /\ UNCHANGED <<healthVars, running, cancelled, graceful, task, verdict, culprits>>

\* Mutant: the token is cancelled and the flag is not stored.
CancelOnly ==
    /\ task = "select"
    /\ signal
    /\ cancelled' = TRUE
    /\ task' = "done"
    /\ UNCHANGED <<healthVars, running, signal, graceful, verdict, culprits>>

\* The branch of the signal, which select may take when the token is
\* cancelled too: the flag is stored ...
TakeSignal ==
    /\ task = "select"
    /\ signal
    /\ graceful' = TRUE
    /\ task' = "stored"
    /\ UNCHANGED <<healthVars, running, signal, cancelled, verdict, culprits>>

\* ... and then the token is cancelled.
CancelToken ==
    /\ task = "stored"
    /\ cancelled' = TRUE
    /\ task' = "done"
    /\ UNCHANGED <<healthVars, running, signal, graceful, verdict, culprits>>

\* The branch of the token.
TakeCancelled ==
    /\ task = "select"
    /\ cancelled
    /\ task' = "done"
    /\ UNCHANGED <<healthVars, running, signal, cancelled, graceful, verdict, culprits>>

\* Mutant: the task holds no drop guard.
PanicUnguarded ==
    /\ task = "select"
    /\ ~ signal
    /\ task' = "done"
    /\ UNCHANGED <<healthVars, running, signal, cancelled, graceful, verdict, culprits>>

\* `default_shutdown_signal` panics when a handler cannot be installed, and
\* the drop guard cancels the token.
Panic ==
    /\ task = "select"
    /\ ~ signal
    /\ task' = "done"
    /\ cancelled' = TRUE
    /\ culprits' = IF cancelled THEN culprits ELSE culprits \cup {ShutdownTask}
    /\ UNCHANGED <<healthVars, running, signal, graceful, verdict>>

\* Main has waited for the token.
ReadVerdict ==
    /\ cancelled
    /\ verdict = "none"
    /\ verdict' = IF graceful THEN "graceful" ELSE "failed"
    /\ UNCHANGED <<healthVars, running, signal, cancelled, graceful, task, culprits>>

----------------------------------------------------------------------------
ServiceStep == \E s \in Services : NewService(s) \/ Ready(s) \/ Fail(s) \/ Wind(s)
HealthStep == Health \/ LoadRaised \/ LoadLowered \/ AllRaised
ShutdownStep == TakeSignal \/ CancelToken \/ TakeCancelled \/ Panic \/ ReadVerdict

Next == ServiceStep \/ HealthStep \/ Signal \/ ShutdownStep

Spec == Init /\ [][Next]_vars

\* The runtime polls the shutdown task, main and the services, which end
\* when they see the cancellation.
FairSpec ==
    /\ Spec
    /\ WF_vars(TakeSignal \/ TakeCancelled \/ CancelToken)
    /\ WF_vars(ReadVerdict)
    /\ \A s \in Services : WF_vars(Wind(s))

----------------------------------------------------------------------------
(* Properties                                                              *)

\* /health answers "healthy" only when every service registered by then is
\* ready, although the flags are raised while they are being read, and
\* "starting" only when one was not ready when the request came in.
HealthAnswersTrue ==
    [][Locked /\ ~ Locked' => IF answer' = "healthy" THEN Registered \subseteq started
                                                    ELSE lowered # {}]_vars

\* What main can rely on in `is_graceful`, however the task, main and the
\* services interleave: a shutdown nobody but the signal caused is never
\* taken for a failure, and one without a signal never for a graceful one.
\* When something fails and the signal arrives as well, main may read either.
VerdictTruthful ==
    /\ verdict # "none" /\ culprits = {} => verdict = "graceful"
    /\ verdict # "none" /\ ~ signal => verdict = "failed"

\* The signal, a failing service and a shutdown task that dies all bring
\* down every service, and main gets its verdict.
ShutdownReachesAll ==
    signal \/ task = "done" \/ culprits # {} ~> running = {} /\ verdict # "none"
=============================================================================
