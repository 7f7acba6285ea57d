------------------------------ MODULE LogFeed ------------------------------
(***************************************************************************)
(* What the stream returned by `EventStreamBuilder::build` promises to     *)
(* the code that consumes it: the logs of the contract, each after the     *)
(* one before it, beginning right behind the position the consumer asked   *)
(* for; a log is passed over only after an error item has been yielded.    *)
(*                                                                         *)
(* Logs are numbered 1, 2, 3, ... in chain order; "last" is the number of  *)
(* the last log handed to the consumer.                                    *)
(***************************************************************************)
EXTENDS Integers

VARIABLES
    start,  \* the log the consumer has already handled, or Now
    phase,  \* "opening" | "open" | "closed"
    last,   \* the last log handed to the consumer
    alarm   \* an error item was yielded after log "last"

feedVars == <<start, phase, last, alarm>>

\* The consumer asked for live logs only: the feed picks its own first log.
Now == -1

TypeOK ==
    /\ start \in Nat \cup {Now}
    /\ phase \in {"opening", "open", "closed"}
    /\ last \in Nat
    /\ alarm \in BOOLEAN

Init ==
    /\ start \in Nat \cup {Now}
    /\ phase = "opening"
    /\ last = 0
    /\ alarm = FALSE

Open ==
    /\ phase = "opening"
    /\ phase' = "open"
    /\ last' \in Nat
    /\ start # Now => last' = start
    /\ UNCHANGED <<start, alarm>>

Deliver ==
    /\ phase = "open"
    /\ last' \in Nat
    /\ last' > last
    /\ ~alarm => last' = last + 1
    /\ alarm' = FALSE
    /\ UNCHANGED <<start, phase>>

Signal ==
    /\ phase = "open"
    /\ alarm' = TRUE
    /\ UNCHANGED <<start, phase, last>>

Close ==
    /\ phase # "closed"
    /\ phase' = "closed"
    /\ UNCHANGED <<start, last, alarm>>

Next == Open \/ Deliver \/ Signal \/ Close

Spec == Init /\ [][Next]_feedVars
=============================================================================
