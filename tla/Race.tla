-------------------------------- MODULE Race --------------------------------
(***************************************************************************)
(* What the transport stack of `HttpRpcProvider` (web3.rs) promises about  *)
(* one request: every endpoint is asked at once; the first that succeeds   *)
(* decides, and an error is reported when all of them have failed and not  *)
(* before.  A decision is final, and nobody is asked again after it.       *)
(***************************************************************************)
EXTENDS Integers

CONSTANT Racers     \* the endpoints

VARIABLES
    tries,      \* how often each endpoint has been asked
    lost,       \* the endpoints that have failed for good
    outcome     \* "pending" | "won" | "lost"

raceVars == <<tries, lost, outcome>>

TypeOK ==
    /\ tries \in [Racers -> Nat]
    /\ lost \subseteq Racers
    /\ outcome \in {"pending", "won", "lost"}

Init ==
    /\ tries = [r \in Racers |-> 1]
    /\ lost = {}
    /\ outcome = "pending"

Running(r) == outcome = "pending" /\ r \notin lost

AskAgain(r) ==
    /\ Running(r)
    /\ tries' = [tries EXCEPT ![r] = @ + 1]
    /\ UNCHANGED <<lost, outcome>>

Win(r) ==
    /\ Running(r)
    /\ outcome' = "won"
    /\ UNCHANGED <<tries, lost>>

Drop(r) ==
    /\ Running(r)
    /\ lost' = lost \cup {r}
    /\ outcome' = IF lost' = Racers THEN "lost" ELSE "pending"
    /\ UNCHANGED tries

Next == \E r \in Racers : AskAgain(r) \/ Win(r) \/ Drop(r)

Spec == Init /\ [][Next]_raceVars
=============================================================================
