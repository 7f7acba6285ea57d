--------------------------- MODULE TxSenderProofs ---------------------------
(***************************************************************************)
(* Proofs about TxSender for any set of jobs and any queue size: type      *)
(* correctness, the order in which transactions land, and the truth of     *)
(* what callers are told.                                                  *)
(***************************************************************************)
EXTENDS TxSender, FiniteSetTheorems, TLAPS

LEMMA InitTypeOK == Init => TypeOK
<1> SUFFICES ASSUME Init PROVE TypeOK
  OBVIOUS
<1>1. permits \in Nat
  BY QueueSizeAssumption DEF Init
<1>2. turn \in [Jobs -> 0..pushed] /\ landed \in [Jobs -> 0..count] /\ taken \in 0..pushed
  BY DEF Init
<1>3. QED
  BY <1>1, <1>2 DEF Init, TypeOK, Places, Results, Broadcasting

LEMMA NextTypeOK == ASSUME TypeOK, [Next]_vars PROVE TypeOK'
<1> USE DEF TypeOK, queueVars, nodeVars, Places, Broadcasting, Stopped
<1>1. CASE \E j \in Jobs : Submit(j) \/ Grant(j) \/ Abandon(j)
  <2>1. PICK j \in Jobs : Submit(j) \/ Grant(j) \/ Abandon(j)
    BY <1>1
  <2>2. CASE Submit(j)
    BY <2>2 DEF Submit, Results, Errors
  <2>3. CASE Grant(j)
    BY <2>3 DEF Grant
  <2>4. CASE Abandon(j)
    BY <2>4 DEF Abandon, Results
  <2>5. QED
    BY <2>1, <2>2, <2>3, <2>4
<1>2. CASE \E j \in Jobs : Push(j)
  <2>1. PICK j \in Jobs : Push(j)
    BY <1>2
  <2>2. /\ pushed' \in Nat
        /\ turn' \in [Jobs -> 0..pushed']
        /\ taken' \in 0..pushed'
    BY <2>1 DEF Push
  <2>3. place' \in [Jobs -> Places]
    BY <2>1 DEF Push
  <2>4. QED
    BY <2>1, <2>2, <2>3 DEF Push
<1>3. CASE DropHandles \/ Cancel \/ UNCHANGED vars
  BY <1>3 DEF DropHandles, Cancel, vars
<1>4. CASE \E j \in Jobs : TakeJob(j)
  <2>1. PICK j \in Jobs : TakeJob(j)
    BY <1>4
  <2>2. taken' \in 0..pushed
    BY <2>1 DEF TakeJob
  <2>3. QED
    BY <2>1, <2>2 DEF TakeJob, Broadcasting
<1>5. CASE FillNonce \/ SendRaw
  BY <1>5 DEF FillNonce, SendRaw, Broadcasting
<1>6. CASE ReplyOk \/ ReplyError \/ ReplyTimeout
  <2>1. PICK r \in {"ok", "contract", "timeout"} : Reply(r)
    BY <1>6 DEF ReplyOk, ReplyError, ReplyTimeout
  <2>2. result' \in [Jobs -> Results]
    BY <2>1 DEF Reply, Results, Errors
  <2>3. place' \in [Jobs -> Places] /\ task' = "select" /\ current' = NoJob
    BY <2>1 DEF Reply
  <2>4. QED
    BY <2>1, <2>2, <2>3 DEF Reply
<1>7. CASE StopOnCancel \/ StopOnClosed \/ Abort
  <2>1. PICK how \in Stopped, dropped \in SUBSET Places : Stop(how, dropped)
    BY <1>7 DEF StopOnCancel, StopOnClosed, Abort, Stopped
  <2>2. result' \in [Jobs -> Results]
    BY <2>1 DEF Stop, Results, Errors
  <2>3. place' \in [Jobs -> Places] /\ task' \in Stopped /\ current' = NoJob
    BY <2>1 DEF Stop
  <2>4. QED
    BY <2>1, <2>2, <2>3 DEF Stop
<1>8. CASE \E j \in Jobs : Land(j)
  <2>1. PICK j \in Jobs : Land(j)
    BY <1>8
  <2>2. count' \in Nat /\ landed' \in [Jobs -> 0..count'] /\ wire' \subseteq Jobs
    BY <2>1 DEF Land
  <2>3. QED
    BY <2>1, <2>2 DEF Land
<1>9. CASE \E j \in Jobs : Lose(j)
  BY <1>9 DEF Lose
<1>10. QED
  BY <1>1, <1>2, <1>3, <1>4, <1>5, <1>6, <1>7, <1>8, <1>9
  DEF Next, CallerStep, TaskStep, NodeStep, Finished

----------------------------------------------------------------------------
(* The inductive invariant                                                 *)

\* Turns number the pushes; the task has received the turns up to "taken",
\* and what it broadcasts is the last of them.
QueueInv ==
    /\ \A i, j \in Jobs : turn[i] = turn[j] /\ turn[i] > 0 => i = j
    /\ \A j \in Jobs : place[j] \in {"none", "waiting", "granted"} => turn[j] = 0
    /\ \A j \in Jobs : place[j] = "queued" => turn[j] > taken
    /\ \A j \in Jobs : place[j] = "broadcast" => j = current /\ task \in Broadcasting
    /\ task \in Broadcasting =>
           current \in Jobs /\ place[current] = "broadcast" /\ turn[current] = taken /\ taken > 0

\* Nonces are filled in the order of the turns and never ahead of the node's
\* count, which is what keeps a late transaction from overtaking.
NonceInv ==
    /\ \A j \in Jobs : nonce[j] >= 0 => 0 < turn[j] /\ turn[j] <= taken /\ nonce[j] <= count
    /\ \A i, j \in Jobs :
           nonce[i] >= 0 /\ nonce[j] >= 0 /\ turn[i] < turn[j] => nonce[i] <= nonce[j]
    /\ task = "fill" => nonce[current] = -1
    /\ task = "send" => nonce[current] >= 0
    /\ \A j \in wire : nonce[j] >= 0
    /\ \A j \in Jobs : landed[j] > 0 => nonce[j] = landed[j] - 1
    /\ \A i, j \in Jobs : landed[i] = landed[j] /\ landed[i] > 0 => i = j

\* A caller is told `TaskStopped` only once the task has stopped, and then
\* its job has not been filled.
ReplyInv ==
    /\ \A j \in Jobs : result[j] = "ok" => landed[j] > 0
    /\ \A j \in Jobs : result[j] = "stopped" => task \in Stopped
    /\ \A j \in Jobs : result[j] = "stopped" /\ task # "aborted" => nonce[j] = -1
    /\ \A j \in Jobs : result[j] = "none" => place[j] = "none"

IInv == TypeOK /\ QueueInv /\ NonceInv /\ ReplyInv

LEMMA InitIInv == Init => IInv
<1> SUFFICES ASSUME Init PROVE IInv
  OBVIOUS
<1>1. TypeOK
  BY InitTypeOK
<1>2. QueueInv /\ NonceInv /\ ReplyInv
  BY DEF Init, QueueInv, NonceInv, ReplyInv, Broadcasting
<1>3. QED
  BY <1>1, <1>2 DEF IInv

\* Submitting, granting a permit and giving up touch neither turns nor nonces.
LEMMA CallerIInv ==
    ASSUME IInv, CallerStep, TypeOK'
    PROVE  IInv'
<1> USE DEF queueVars, nodeVars
<1>1. TypeOK /\ QueueInv /\ NonceInv /\ ReplyInv
  BY DEF IInv
<1>2. CASE \E j \in Jobs : Submit(j)
  <2>1. PICK j \in Jobs : Submit(j)
    BY <1>2
  <2>2. place[j] = "none" /\ place' \in [Jobs -> Places]
    BY <1>1, <2>1 DEF Submit, ReplyInv, TypeOK
  <2>3. QueueInv'
    BY <1>1, <2>1, <2>2 DEF Submit, QueueInv, TypeOK
  <2>4. NonceInv'
    BY <1>1, <2>1 DEF Submit, NonceInv
  <2>5. ReplyInv'
    <3>1. turn[j] = 0 /\ nonce[j] \in Nat \cup {-1}
      BY <1>1, <2>2 DEF QueueInv, TypeOK
    <3>2. nonce[j] = -1
      BY <1>1, <3>1 DEF NonceInv
    <3>3. QED
      BY <1>1, <2>1, <3>2 DEF Submit, ReplyInv, TypeOK
  <2>6. QED
    BY <2>3, <2>4, <2>5 DEF IInv
<1>3. CASE \E j \in Jobs : Grant(j) \/ Abandon(j)
  <2>1. PICK j \in Jobs : Grant(j) \/ Abandon(j)
    BY <1>3
  <2>2. /\ \A i \in Jobs : place'[i] # place[i] =>
               place[i] \in {"waiting", "granted"} /\ place'[i] \in {"granted", "over"}
        /\ \A i \in Jobs : result'[i] # result[i] => result'[i] = "abandoned"
        /\ \A i \in Jobs : result'[i] = "none" => place'[i] = place[i] /\ result[i] = "none"
    BY <1>1, <2>1 DEF Grant, Abandon, TypeOK, ReplyInv
  <2>3. /\ UNCHANGED <<task, current, pushed, turn, taken, nonce, wire, count, landed>>
        /\ DOMAIN place' = Jobs /\ DOMAIN result' = Jobs
    BY <1>1, <2>1 DEF Grant, Abandon, TypeOK
  <2>4. QueueInv'
    BY <1>1, <2>2, <2>3 DEF QueueInv
  <2>5. NonceInv'
    BY <1>1, <2>3 DEF NonceInv
  <2>6. ReplyInv'
    BY <1>1, <2>2, <2>3 DEF ReplyInv
  <2>7. QED
    BY <2>4, <2>5, <2>6 DEF IInv
<1>4. CASE \E j \in Jobs : Push(j)
  <2>1. PICK j \in Jobs : Push(j)
    BY <1>4
  <2>2. /\ turn' = [turn EXCEPT ![j] = pushed + 1] /\ turn[j] = 0
        /\ place' = [place EXCEPT ![j] = "queued"] /\ place[j] = "granted"
        /\ UNCHANGED <<task, current, result, taken, nonce, wire, count, landed>>
    BY <1>1, <2>1 DEF Push, QueueInv
  <2>3. /\ pushed \in Nat /\ taken \in 0..pushed
        /\ turn \in [Jobs -> 0..pushed] /\ place \in [Jobs -> Places]
        /\ \A i \in Jobs : nonce[i] \in Nat \cup {-1}
    BY <1>1 DEF TypeOK
  <2>4. QueueInv'
    BY <1>1, <2>2, <2>3 DEF QueueInv
  <2>5. NonceInv'
    <3>1. ~ (nonce[j] >= 0)
      BY <1>1, <2>2 DEF NonceInv
    <3>2. QED
      BY <1>1, <2>2, <2>3, <3>1 DEF NonceInv
  <2>6. ReplyInv'
    BY <1>1, <2>2, <2>3 DEF ReplyInv
  <2>7. QED
    BY <2>4, <2>5, <2>6 DEF IInv
<1>5. CASE DropHandles \/ Cancel
  BY <1>1, <1>5 DEF DropHandles, Cancel, IInv, QueueInv, NonceInv, ReplyInv
<1>6. QED
  BY <1>2, <1>3, <1>4, <1>5 DEF CallerStep

LEMMA TaskIInv ==
    ASSUME IInv, TaskStep, TypeOK'
    PROVE  IInv'
<1> USE DEF queueVars, nodeVars, Broadcasting, Stopped
<1>1. TypeOK /\ QueueInv /\ NonceInv /\ ReplyInv
  BY DEF IInv
<1>2. /\ pushed \in Nat /\ taken \in Nat /\ count \in Nat
      /\ place \in [Jobs -> Places] /\ result \in [Jobs -> Results]
      /\ nonce \in [Jobs -> Nat \cup {-1}]
      /\ \A i \in Jobs : turn[i] \in Nat /\ landed[i] \in Nat
  BY <1>1 DEF TypeOK
<1>3. CASE \E j \in Jobs : TakeJob(j)
  <2>1. PICK j \in Jobs : TakeJob(j)
    BY <1>3
  <2>2. /\ task = "select" /\ place[j] = "queued" /\ turn[j] = taken + 1
        /\ taken' = taken + 1 /\ place' = [place EXCEPT ![j] = "broadcast"]
        /\ current' = j /\ task' = "fill"
        /\ UNCHANGED <<turn, result, nonce, wire, count, landed>>
    BY <2>1 DEF TakeJob
  <2>3. QueueInv'
    BY <1>1, <1>2, <2>2 DEF QueueInv
  <2>4. nonce[j] = -1
    BY <1>1, <1>2, <2>2 DEF NonceInv
  <2>5. NonceInv'
    BY <1>1, <1>2, <2>2, <2>4 DEF NonceInv
  <2>6. ReplyInv'
    BY <1>1, <1>2, <2>2 DEF ReplyInv
  <2>7. QED
    BY <2>3, <2>5, <2>6 DEF IInv
<1>4. CASE FillNonce
  <2>1. /\ task = "fill" /\ task' = "send" /\ nonce' = [nonce EXCEPT ![current] = count]
        /\ UNCHANGED <<current, place, result, turn, taken, wire, count, landed>>
    BY <1>4 DEF FillNonce
  <2>2. current \in Jobs /\ turn[current] = taken /\ taken > 0 /\ nonce[current] = -1
    BY <1>1, <2>1 DEF QueueInv, NonceInv
  <2>3. QueueInv'
    BY <1>1, <2>1 DEF QueueInv
  <2>4. NonceInv'
    <3>1. \A i \in Jobs : i # current => nonce'[i] = nonce[i]
      BY <1>2, <2>1
    <3>2. nonce'[current] = count
      BY <1>2, <2>1, <2>2
    <3>3. \A j \in wire : j # current
      BY <1>1, <2>2 DEF NonceInv
    <3>4. landed[current] = 0
      BY <1>1, <1>2, <2>2 DEF NonceInv
    <3>5. \A i \in Jobs : nonce[i] >= 0 => turn[i] <= turn[current] /\ nonce[i] <= count
      BY <1>1, <2>2 DEF NonceInv
    <3>6. /\ \A j \in Jobs : nonce'[j] >= 0 => 0 < turn[j] /\ turn[j] <= taken /\ nonce'[j] <= count
          /\ \A i, j \in Jobs :
                nonce'[i] >= 0 /\ nonce'[j] >= 0 /\ turn[i] < turn[j] => nonce'[i] <= nonce'[j]
      BY <1>1, <1>2, <2>2, <3>1, <3>2, <3>5 DEF NonceInv
    <3>7. /\ \A j \in wire : nonce'[j] >= 0
          /\ \A j \in Jobs : landed[j] > 0 => nonce'[j] = landed[j] - 1
      BY <1>1, <1>2, <3>1, <3>3, <3>4 DEF NonceInv, TypeOK
    <3>8. QED
      BY <1>1, <1>2, <2>1, <3>2, <3>6, <3>7 DEF NonceInv
  <2>5. ReplyInv'
    BY <1>1, <1>2, <2>1 DEF ReplyInv
  <2>6. QED
    BY <2>3, <2>4, <2>5 DEF IInv
<1>5. CASE SendRaw
  <2>1. /\ task = "send" /\ wire' = wire \cup {current}
        /\ UNCHANGED <<task, current, place, result, turn, taken, nonce, count, landed>>
    BY <1>5 DEF SendRaw
  <2>2. QED
    BY <1>1, <2>1 DEF IInv, QueueInv, NonceInv, ReplyInv
<1>6. CASE ReplyOk \/ ReplyError \/ ReplyTimeout
  <2>1. PICK r \in {"ok", "contract", "timeout"} :
            Reply(r) /\ task \in Broadcasting /\ (r = "ok" => landed[current] > 0)
    BY <1>6 DEF ReplyOk, ReplyError, ReplyTimeout
  <2>2. /\ current \in Jobs /\ task' = "select" /\ place' = [place EXCEPT ![current] = "over"]
        /\ UNCHANGED <<turn, taken, nonce, wire, count, landed>>
        /\ \A i \in Jobs : i # current => result'[i] = result[i]
        /\ result'[current] \in {result[current], r}
    BY <1>1, <1>2, <2>1 DEF Reply, QueueInv
  <2>3. QueueInv'
    BY <1>1, <1>2, <2>2 DEF QueueInv
  <2>4. NonceInv'
    BY <1>1, <2>2 DEF NonceInv
  <2>5. ReplyInv'
    <3>1. \A i \in Jobs : result[i] # "stopped"
      BY <1>1, <2>1 DEF ReplyInv
    <3>2. result[current] # "none"
      BY <1>1, <2>1 DEF ReplyInv, QueueInv
    <3>3. QED
      BY <1>1, <1>2, <2>1, <2>2, <3>1, <3>2 DEF ReplyInv
  <2>6. QED
    BY <2>3, <2>4, <2>5 DEF IInv
<1>7. CASE StopOnCancel \/ StopOnClosed \/ Abort
  <2>1. PICK how \in Stopped, dropped \in SUBSET Places :
            /\ Stop(how, dropped) /\ "none" \notin dropped /\ task \notin Stopped
            /\ {"waiting", "granted", "queued"} \subseteq dropped
            /\ "broadcast" \in dropped \/ task = "select"
            /\ how = "stopped" => "broadcast" \notin dropped /\ "over" \notin dropped
    BY <1>7 DEF StopOnCancel, StopOnClosed, Abort, Places
  <2>2. /\ task' = how /\ UNCHANGED <<turn, taken, nonce, wire, count, landed>>
        /\ \A i \in Jobs : place'[i] = IF place[i] \in dropped THEN "over" ELSE place[i]
        /\ \A i \in Jobs : result'[i] # result[i] =>
               place[i] \in dropped /\ result'[i] = "stopped" /\ result[i] = "pending"
    BY <1>2, <2>1 DEF Stop
  <2>3. QueueInv'
    BY <1>1, <1>2, <2>1, <2>2 DEF QueueInv
  <2>4. NonceInv'
    BY <1>1, <2>2 DEF NonceInv
  <2>5. ReplyInv'
    <3>1. ASSUME NEW i \in Jobs, place[i] \in {"waiting", "granted", "queued"}
          PROVE  nonce[i] = -1
      <4>1. turn[i] = 0 \/ turn[i] > taken
        BY <1>1, <3>1 DEF QueueInv
      <4>2. ~ (nonce[i] >= 0)
        BY <1>1, <1>2, <4>1 DEF NonceInv
      <4>3. QED
        BY <1>2, <4>2
    <3>2. \A i \in Jobs : result[i] # "stopped"
      BY <1>1, <2>1 DEF ReplyInv
    <3>3. \A i \in Jobs : result'[i] = "stopped" /\ how = "stopped" =>
              place[i] \in {"waiting", "granted", "queued"}
      BY <1>2, <2>1, <2>2, <3>2 DEF Places
    <3>4. QED
      BY <1>1, <1>2, <2>1, <2>2, <3>1, <3>2, <3>3 DEF ReplyInv
  <2>6. QED
    BY <2>3, <2>4, <2>5 DEF IInv
<1>8. QED
  BY <1>3, <1>4, <1>5, <1>6, <1>7 DEF TaskStep

LEMMA NodeIInv ==
    ASSUME IInv, NodeStep, TypeOK'
    PROVE  IInv'
<1> USE DEF queueVars, nodeVars
<1>1. TypeOK /\ QueueInv /\ NonceInv /\ ReplyInv
  BY DEF IInv
<1>2. CASE \E j \in Jobs : Land(j)
  <2>1. PICK j \in Jobs : Land(j)
    BY <1>2
  <2>2. /\ j \in wire /\ nonce[j] = count /\ count' = count + 1 /\ wire' = wire \ {j}
        /\ landed' = [landed EXCEPT ![j] = count + 1]
        /\ UNCHANGED <<task, current, place, result, nonce, turn, taken>>
    BY <2>1 DEF Land
  <2>3. count \in Nat /\ landed \in [Jobs -> 0..count] /\ nonce \in [Jobs -> Nat \cup {-1}]
    BY <1>1 DEF TypeOK
  <2>4. /\ \A i \in Jobs : i # j => landed'[i] = landed[i]
        /\ landed'[j] = count + 1
    BY <2>2, <2>3
  <2>5. NonceInv'
    BY <1>1, <2>2, <2>3, <2>4 DEF NonceInv
  <2>6. QueueInv' /\ ReplyInv'
    BY <1>1, <2>2, <2>3, <2>4 DEF QueueInv, ReplyInv
  <2>7. QED
    BY <2>5, <2>6 DEF IInv
<1>3. CASE \E j \in Jobs : Lose(j)
  BY <1>1, <1>3 DEF Lose, IInv, QueueInv, NonceInv, ReplyInv
<1>4. QED
  BY <1>2, <1>3 DEF NodeStep

LEMMA Inductive == Spec => []IInv
<1>1. IInv /\ [Next]_vars => IInv'
  <2> SUFFICES ASSUME IInv, [Next]_vars PROVE IInv'
    OBVIOUS
  <2>1. TypeOK'
    BY NextTypeOK DEF IInv
  <2>2. CASE UNCHANGED vars
    BY <2>1, <2>2 DEF vars, queueVars, nodeVars, IInv, QueueInv, NonceInv, ReplyInv
  <2>3. QED
    BY <2>1, <2>2, CallerIInv, TaskIInv, NodeIInv DEF Next, Finished
<1>2. QED
  BY <1>1, InitIInv, PTL DEF Spec

----------------------------------------------------------------------------
(* Theorems                                                                *)

\* The state of the queue, the task and the node stays within its types.
THEOREM TypeCorrect == Spec => []TypeOK
<1>1. IInv => TypeOK
  BY DEF IInv
<1>2. QED
  BY <1>1, Inductive, PTL

\* However many broadcasts time out, fail or arrive late, the node accepts
\* the transactions in the order in which they were queued, each once.
THEOREM LandsInOrder == Spec => []LandedInOrder
<1>1. IInv => LandedInOrder
  <2> SUFFICES ASSUME IInv, NEW i \in Jobs, NEW j \in Jobs,
                      landed[i] > 0, landed[j] > 0, i # j
               PROVE  /\ landed[i] # landed[j]
                      /\ landed[i] < landed[j] <=> turn[i] < turn[j]
    BY DEF LandedInOrder
  <2>1. /\ landed[i] \in Nat /\ landed[j] \in Nat /\ turn[i] \in Nat /\ turn[j] \in Nat
    BY DEF IInv, TypeOK
  <2>2. nonce[i] = landed[i] - 1 /\ nonce[j] = landed[j] - 1 /\ landed[i] # landed[j]
    BY DEF IInv, NonceInv
  <2>3. turn[i] > 0 /\ turn[i] # turn[j]
    BY <2>1, <2>2 DEF IInv, NonceInv, QueueInv
  <2>4. /\ turn[i] < turn[j] => nonce[i] <= nonce[j]
        /\ turn[j] < turn[i] => nonce[j] <= nonce[i]
    BY <2>1, <2>2 DEF IInv, NonceInv
  <2>5. QED
    BY <2>1, <2>2, <2>3, <2>4
<1>2. QED
  BY <1>1, Inductive, PTL

\* What `submit` returns can be relied on: "ok" means the node has the
\* transaction, and `TaskStopped` that it was never sent, unless the task
\* was aborted in the middle of a broadcast.
THEOREM RepliesAreTrue == Spec => []ReplyTruthful
<1>1. IInv => ReplyTruthful
  <2> SUFFICES ASSUME IInv, NEW j \in Jobs
               PROVE  /\ result[j] = "ok" => landed[j] > 0
                      /\ result[j] = "stopped" /\ task # "aborted" =>
                             nonce[j] = -1 /\ j \notin wire /\ landed[j] = 0
    BY DEF ReplyTruthful
  <2>1. result[j] = "ok" => landed[j] > 0
    BY DEF IInv, ReplyInv
  <2>2. ASSUME result[j] = "stopped", task # "aborted"
        PROVE  nonce[j] = -1 /\ j \notin wire /\ landed[j] = 0
    <3>1. nonce[j] = -1
      BY <2>2 DEF IInv, ReplyInv
    <3>2. j \notin wire
      BY <3>1 DEF IInv, NonceInv
    <3>3. landed[j] \in Nat /\ ~ (landed[j] > 0)
      BY <3>1 DEF IInv, NonceInv, TypeOK
    <3>4. QED
      BY <3>1, <3>2, <3>3
  <2>3. QED
    BY <2>1, <2>2
<1>2. QED
  BY <1>1, Inductive, PTL

----------------------------------------------------------------------------
(* The permits                                                             *)

\* The jobs that hold a permit.
Held == {j \in Jobs : place[j] \in {"granted", "queued"}}

PermitInv ==
    task \notin Stopped => IsFiniteSet(Held) /\ permits + Cardinality(Held) = QueueSize

\* A permit changes hands: a job gets one, or gives one back.
LEMMA PermitMoves ==
    ASSUME IInv, PermitInv, task \notin Stopped, NEW j \in Jobs,
           \/ j \notin Held /\ Held' = Held \cup {j} /\ permits' = permits - 1
           \/ j \in Held /\ Held' = Held \ {j} /\ permits' = permits + 1
           \/ Held' = Held /\ permits' = permits
    PROVE  PermitInv'
<1>1. /\ IsFiniteSet(Held)
      /\ permits + Cardinality(Held) = QueueSize
      /\ permits \in Nat /\ Cardinality(Held) \in Nat
  BY FS_CardinalityType DEF PermitInv, IInv, TypeOK
<1>2. CASE j \notin Held /\ Held' = Held \cup {j} /\ permits' = permits - 1
  <2>1. IsFiniteSet(Held') /\ Cardinality(Held') = Cardinality(Held) + 1
    BY <1>1, <1>2, FS_AddElement
  <2>2. QED
    BY <1>1, <1>2, <2>1 DEF PermitInv
<1>3. CASE j \in Held /\ Held' = Held \ {j} /\ permits' = permits + 1
  <2>1. IsFiniteSet(Held') /\ Cardinality(Held') = Cardinality(Held) - 1
    BY <1>1, <1>3, FS_RemoveElement
  <2>2. QED
    BY <1>1, <1>3, <2>1 DEF PermitInv
<1>4. CASE Held' = Held /\ permits' = permits
  BY <1>1, <1>4 DEF PermitInv
<1>5. QED
  BY <1>2, <1>3, <1>4

LEMMA CallerPermitInv ==
    ASSUME IInv, PermitInv, task \notin Stopped, CallerStep
    PROVE  PermitInv'
<1> USE DEF nodeVars, queueVars
<1>1. place \in [Jobs -> Places]
  BY DEF IInv, TypeOK
<1>2. ASSUME NEW j \in Jobs, Submit(j) PROVE PermitInv'
  <2>1. place[j] = "none" /\ place' = [place EXCEPT ![j] = "waiting"] /\ permits' = permits
    BY <1>2 DEF Submit, IInv, ReplyInv
  <2>2. Held' = Held
    BY <1>1, <2>1 DEF Held
  <2>3. QED
    BY <2>1, <2>2, PermitMoves
<1>3. ASSUME NEW j \in Jobs, Grant(j) PROVE PermitInv'
  <2>1. j \notin Held /\ Held' = Held \cup {j} /\ permits' = permits - 1
    BY <1>1, <1>3 DEF Grant, Held
  <2>2. QED
    BY <2>1, PermitMoves
<1>4. ASSUME NEW j \in Jobs, Push(j) PROVE PermitInv'
  <2>1. Held' = Held /\ permits' = permits
    BY <1>1, <1>4 DEF Push, Held
  <2>2. QED
    BY <2>1, PermitMoves
<1>5. ASSUME NEW j \in Jobs, Abandon(j) PROVE PermitInv'
  <2>1. CASE place[j] = "granted"
    <3>1. j \in Held /\ Held' = Held \ {j} /\ permits' = permits + 1
      BY <1>1, <1>5, <2>1 DEF Abandon, Held
    <3>2. QED
      BY <3>1, PermitMoves
  <2>2. CASE place[j] # "granted"
    <3>1. Held' = Held /\ permits' = permits
      BY <1>1, <1>5, <2>2 DEF Abandon, Held
    <3>2. QED
      BY <3>1, PermitMoves
  <2>3. QED
    BY <2>1, <2>2
<1>6. CASE DropHandles \/ Cancel
  BY <1>6 DEF DropHandles, Cancel, PermitInv, Held
<1>7. QED
  BY <1>2, <1>3, <1>4, <1>5, <1>6 DEF CallerStep

LEMMA TaskPermitInv ==
    ASSUME IInv, PermitInv, task \notin Stopped, TaskStep
    PROVE  PermitInv'
<1> USE DEF nodeVars, queueVars
<1>1. place \in [Jobs -> Places]
  BY DEF IInv, TypeOK
<1>2. ASSUME NEW j \in Jobs, TakeJob(j) PROVE PermitInv'
  <2>1. j \in Held /\ Held' = Held \ {j} /\ permits' = permits + 1
    BY <1>1, <1>2 DEF TakeJob, Held
  <2>2. QED
    BY <2>1, PermitMoves
<1>3. CASE FillNonce \/ SendRaw
  BY <1>3 DEF FillNonce, SendRaw, PermitInv, Held, Stopped
<1>4. CASE ReplyOk \/ ReplyError \/ ReplyTimeout
  <2>1. current \in Jobs /\ place[current] = "broadcast"
    BY <1>4 DEF ReplyOk, ReplyError, ReplyTimeout, Broadcasting, IInv, QueueInv
  <2>2. place' = [place EXCEPT ![current] = "over"] /\ permits' = permits
    BY <1>4 DEF ReplyOk, ReplyError, ReplyTimeout, Reply
  <2>3. Held' = Held
    BY <1>1, <2>1, <2>2 DEF Held
  <2>4. QED
    BY <2>1, <2>2, <2>3, PermitMoves
<1>5. CASE StopOnCancel \/ StopOnClosed \/ Abort
  BY <1>5 DEF StopOnCancel, StopOnClosed, Abort, Stop, PermitInv, Stopped
<1>6. QED
  BY <1>2, <1>3, <1>4, <1>5 DEF TaskStep

\* No permit of the queue is lost or made up, whatever callers give up and
\* when: while the task runs the queue never holds more than `queue_size`.
THEOREM PermitsAreConserved == Spec => []PermitsConserved
<1>1. Init => PermitInv
  <2> SUFFICES ASSUME Init PROVE PermitInv
    OBVIOUS
  <2>1. Held = {} /\ permits = QueueSize
    BY DEF Init, Held
  <2>2. QED
    BY <2>1, FS_EmptySet, QueueSizeAssumption DEF PermitInv
<1>2. IInv /\ PermitInv /\ [Next]_vars => PermitInv'
  <2> SUFFICES ASSUME IInv, PermitInv, [Next]_vars PROVE PermitInv'
    OBVIOUS
  <2>1. CASE task \in Stopped
    <3>1. task' \in Stopped
      BY <2>1 DEF Next, CallerStep, Submit, Grant, Push, Abandon, DropHandles, Cancel,
         TaskStep, TakeJob, FillNonce, SendRaw, ReplyOk, ReplyError, ReplyTimeout, Broadcasting,
         StopOnCancel, StopOnClosed, Abort, NodeStep, Land, Lose, Finished, Stopped, vars
    <3>2. QED
      BY <3>1 DEF PermitInv
  <2>2. CASE task \notin Stopped /\ (NodeStep \/ UNCHANGED vars)
    BY <2>2 DEF NodeStep, Land, Lose, vars, queueVars, PermitInv, Held
  <2>3. QED
    BY <2>1, <2>2, CallerPermitInv, TaskPermitInv DEF Next, Finished
<1>3. PermitInv => PermitsConserved
  BY DEF PermitInv, PermitsConserved, Held
<1>4. QED
  BY <1>1, <1>2, <1>3, Inductive, PTL DEF Spec

\* Whoever gives up and whoever drops the last handle, a task that nobody
\* cancels has broadcast every job that was queued when it stops.
THEOREM DrainsTheQueue == Spec => QueueDrained
<1>1. ASSUME IInv, [Next]_vars, ~ cancelled /\ task = "select" /\ task' = "stopped"
      PROVE  \A j \in Jobs : turn[j] > 0 => place[j] = "over"
  <2> SUFFICES ASSUME NEW j \in Jobs, turn[j] > 0 PROVE place[j] = "over"
    OBVIOUS
  <2> USE <1>1
  <2>1. StopOnClosed
    BY DEF Next, CallerStep, Submit, Grant, Push, Abandon, DropHandles, Cancel, TaskStep,
       TakeJob, FillNonce, SendRaw, ReplyOk, ReplyError, ReplyTimeout, Broadcasting,
       StopOnCancel, Abort, Stop, NodeStep, Land, Lose, Finished, Stopped, vars
  <2>2. taken = pushed /\ turn[j] \in 0..pushed /\ pushed \in Nat /\ place[j] \in Places
    BY <2>1 DEF StopOnClosed, IInv, TypeOK
  <2>3. place[j] \notin {"none", "waiting", "granted", "queued", "broadcast"}
    BY <2>2 DEF IInv, QueueInv, Broadcasting
  <2>4. QED
    BY <2>2, <2>3 DEF Places
<1>2. QED
  BY <1>1, Inductive, PTL DEF Spec, QueueDrained

\* What LandedInOrder says of a state holds of the past too: a transaction
\* the node has accepted keeps its place, although the transport may send it
\* again and copies of it may be on the wire; and a caller's answer is final.
THEOREM OutcomesAreFinal ==
    Spec => [][\A j \in Jobs :
                 /\ landed[j] > 0 => landed'[j] = landed[j]
                 /\ result[j] \notin {"none", "pending"} => result'[j] = result[j]]_vars
<1> DEFINE Final(j) ==
             /\ landed[j] > 0 => landed'[j] = landed[j]
             /\ result[j] \notin {"none", "pending"} => result'[j] = result[j]
<1>1. ASSUME IInv, Next, NEW j \in Jobs
      PROVE  Final(j)
  <2> USE DEF queueVars, nodeVars
  <2>1. /\ landed \in [Jobs -> 0..count] /\ count \in Nat
        /\ result \in [Jobs -> Results] /\ nonce \in [Jobs -> Nat \cup {-1}]
    BY <1>1 DEF IInv, TypeOK
  <2>2. CASE CallerStep
    BY <2>1, <2>2 DEF CallerStep, Submit, Grant, Push, Abandon, DropHandles, Cancel
  <2>3. CASE TaskStep
    BY <2>1, <2>3 DEF TaskStep, TakeJob, FillNonce, SendRaw, ReplyOk, ReplyError, ReplyTimeout,
       Reply, StopOnCancel, StopOnClosed, Abort, Stop
  <2>4. CASE \E i \in Jobs : Land(i)
    <3>1. PICK i \in Jobs : Land(i)
      BY <2>4
    <3>2. landed[i] > 0 => nonce[i] = landed[i] - 1
      BY <1>1 DEF IInv, NonceInv
    <3>3. ~ (landed[i] > 0)
      BY <2>1, <3>1, <3>2 DEF Land
    <3>4. QED
      BY <2>1, <3>1, <3>3 DEF Land
  <2>5. CASE (\E i \in Jobs : Lose(i)) \/ Finished
    BY <2>5 DEF Lose, Finished, vars
  <2>6. QED
    BY <1>1, <2>2, <2>3, <2>4, <2>5 DEF Next, NodeStep
<1>2. IInv /\ [Next]_vars => [\A j \in Jobs : Final(j)]_vars
  BY <1>1
<1>3. QED
  BY <1>2, Inductive, PTL DEF Spec

----------------------------------------------------------------------------
(* Where the promise about nonces holds                                    *)

\* A broadcast ends without the node's "ok" while its transaction is still
\* on its way there.
GivesUp == current \in wire /\ (ReplyError \/ ReplyTimeout \/ Abort)

\* As long as none does, the wire carries the job being sent, if anything.
WireInv ==
    \A j \in wire : task = "send" /\ j = current /\ landed[j] = 0

LEMMA StepWireInv ==
    ASSUME IInv, WireInv, Next, ~ GivesUp
    PROVE  WireInv'
<1> USE DEF queueVars, nodeVars
<1>1. TypeOK /\ QueueInv
  BY DEF IInv
<1>2. wire \subseteq Jobs /\ landed \in [Jobs -> 0..count] /\ count \in Nat
  BY <1>1 DEF TypeOK
<1>3. CASE CallerStep \/ Finished
  <2>1. UNCHANGED <<task, current, wire, landed>>
    BY <1>3 DEF CallerStep, Finished, Submit, Grant, Push, Abandon, DropHandles, Cancel, vars
  <2>2. QED
    BY <2>1 DEF WireInv
<1>4. CASE (\E j \in Jobs : TakeJob(j)) \/ FillNonce \/ StopOnCancel \/ StopOnClosed
  <2>1. task # "send" /\ wire' = wire
    BY <1>4 DEF TakeJob, FillNonce, StopOnCancel, StopOnClosed, Stop
  <2>2. QED
    BY <2>1 DEF WireInv
<1>5. CASE SendRaw
  BY <1>5 DEF SendRaw, WireInv
<1>6. CASE ReplyOk
  <2>1. current \notin wire
    BY <1>2, <1>6 DEF ReplyOk, WireInv
  <2>2. wire' = wire
    BY <1>6 DEF ReplyOk, Reply
  <2>3. QED
    BY <2>1, <2>2 DEF WireInv
<1>7. CASE ReplyError \/ ReplyTimeout \/ Abort
  <2>1. current \notin wire /\ wire' = wire
    BY <1>7 DEF GivesUp, ReplyError, ReplyTimeout, Abort, Reply, Stop
  <2>2. QED
    BY <2>1 DEF WireInv
<1>8. CASE \E j \in Jobs : Land(j) \/ Lose(j)
  <2>1. PICK j \in Jobs : Land(j) \/ Lose(j)
    BY <1>8
  <2>2. /\ wire' = wire \ {j} /\ UNCHANGED <<task, current>>
        /\ \A i \in Jobs : i # j => landed'[i] = landed[i]
    BY <1>2, <2>1 DEF Land, Lose
  <2>3. QED
    BY <1>2, <2>2 DEF WireInv
<1>9. QED
  BY <1>3, <1>4, <1>5, <1>6, <1>7, <1>8 DEF Next, TaskStep, NodeStep

\* What tx_sender.rs says of nonces is true of every behaviour in which each
\* broadcast that is given up (a timeout, an error, an abort) has lost its
\* transaction before: two transactions race for a nonce only after one was
\* given up on its way to the node.
THEOREM NoRaceUnlessGivenUp == Spec /\ [][~ GivesUp]_vars => []NoncesDoNotRace
<1>1. Init => WireInv
  BY DEF Init, WireInv
<1>2. IInv /\ WireInv /\ [Next]_vars /\ [~ GivesUp]_vars => WireInv'
  <2>1. CASE UNCHANGED vars
    BY <2>1 DEF vars, nodeVars, WireInv
  <2>2. CASE ~ UNCHANGED vars
    BY <2>2, StepWireInv
  <2>3. QED
    BY <2>1, <2>2
<1>3. WireInv => NoncesDoNotRace
  BY DEF WireInv, NoncesDoNotRace
<1>4. QED
  BY <1>1, <1>2, <1>3, Inductive, PTL DEF Spec
=============================================================================
