------------------------ MODULE ContractCheckProofs ------------------------
(***************************************************************************)
(* Proofs about ContractCheck: the call for the receipt, the identifier of *)
(* an interface and the check of the contract, for every set of nodes,     *)
(* every lag, every number of delays, every interface and every contract.  *)
(***************************************************************************)
EXTENDS ContractCheck, TLAPS, FiniteSetTheorems, WellFoundedInduction

----------------------------------------------------------------------------
(* The call for the receipt                                                *)

\* Some node has shown the confirmations once a try has got past watching.
ConfirmedInv ==
    pc = "fetching" \/ receipt = "found" \/ nulls # {} =>
        mined > 0 /\ \E b \in Backends : view[b] >= mined + confirmations - 1

\* Where the loop stands: try `tries` is under way, or has ended.
LoopInv ==
    /\ pc = "returned" <=> receipt # "pending"
    /\ pc = "sleeping" => tries > 1 /\ tries < MaxTimes + 2
    /\ receipt = "error" => tries = MaxTimes + 2
    /\ \A n \in nulls : n <= tries
    /\ pc \in {"watching", "fetching"} => \A n \in nulls : n < tries

\* The delays that have passed since try n ended without a receipt; no
\* delay separates the first try from the first poll.
Slept(n) == tries - (IF n = 1 THEN 2 ELSE n)

\* Every node that is still behind the transaction has gained a block in
\* each delay since, the one that is not over included once it has imported.
LagInv ==
    \A n \in nulls, b \in Backends :
        \/ view[b] >= mined
        \/ /\ view[b] + MaxLag >= mined + confirmations - 1 + Slept(n)
           /\ pc = "sleeping" /\ b \notin due =>
                  view[b] + MaxLag >= mined + confirmations + Slept(n)

ReceiptInv == ReceiptOK /\ ConfirmedInv /\ LoopInv /\ LagInv /\ LagIsCovered

LEMMA ConstantsOK ==
    /\ MaxHead \in Nat /\ MaxLag \in Nat /\ MaxTimes \in Nat
    /\ MaxConfirmations \in 1..MaxHead
BY HeadAssumption, ReceiptAssumption

LEMMA InitReceipt == ReceiptInit => ReceiptInv
<1> SUFFICES ASSUME ReceiptInit PROVE ReceiptInv
  OBVIOUS
<1> USE ConstantsOK DEF ReceiptInit, ViewsInit
<1>1. ViewsOK
  BY DEF ViewsOK, Blocks
<1>2. ReceiptOK
  BY <1>1 DEF ReceiptOK, Tries
<1>3. ConfirmedInv /\ LoopInv /\ LagInv /\ LagIsCovered
  BY DEF ConfirmedInv, LoopInv, LagInv, LagIsCovered
<1>4. QED
  BY <1>2, <1>3 DEF ReceiptInv

\* A new block leaves the call alone, but for the block of the transaction.
LEMMA GrowReceipt ==
    ASSUME ReceiptInv, Mine \/ GrowWithout
    PROVE  ReceiptInv'
<1> USE ConstantsOK
<1>1. /\ head \in Blocks /\ head < MaxHead
      /\ view \in [Backends -> Blocks]
      /\ \A b \in Backends : view[b] <= head /\ head < view[b] + MaxLag
      /\ head' = head + 1 /\ view' = view
      /\ UNCHANGED <<confirmations, pc, tries, due, nulls, receipt>>
      /\ mined' = mined \/ (mined = 0 /\ mined' = head + 1)
  BY DEF ReceiptInv, ReceiptOK, ViewsOK, Mine, GrowWithout, Grow
<1>2. ViewsOK'
  BY <1>1 DEF ViewsOK, Blocks
<1>3. ReceiptOK'
  BY <1>1, <1>2 DEF ReceiptInv, ReceiptOK, Blocks
<1>4. pc = "fetching" \/ receipt = "found" \/ nulls # {} => mined' = mined
  BY <1>1 DEF ReceiptInv, ConfirmedInv
<1>5. ConfirmedInv'
  BY <1>1, <1>4 DEF ReceiptInv, ConfirmedInv
<1>6. LoopInv'
  BY <1>1 DEF ReceiptInv, LoopInv
<1>7. LagInv'
  BY <1>1, <1>4 DEF ReceiptInv, LagInv, Slept
<1>8. LagIsCovered'
  BY <1>1 DEF ReceiptInv, LagIsCovered, Needed
<1>9. QED
  BY <1>3, <1>5, <1>6, <1>7, <1>8 DEF ReceiptInv

LEMMA ImportReceipt ==
    ASSUME ReceiptInv, NEW c \in Backends, Import(c)
    PROVE  ReceiptInv'
<1> USE ConstantsOK
<1>1. /\ head \in Nat /\ head <= MaxHead /\ mined \in Nat /\ confirmations \in Nat
      /\ view \in [Backends -> Blocks] /\ tries \in Nat /\ nulls \subseteq Nat
      /\ view[c] < head
      /\ view' = [view EXCEPT ![c] = @ + 1]
      /\ due' = due \ {c}
      /\ UNCHANGED <<head, confirmations, mined, pc, tries, nulls, receipt>>
  BY DEF ReceiptInv, ReceiptOK, ViewsOK, Blocks, Tries, Import, ImportBlock
<1>2. /\ \A b \in Backends : view[b] \in Nat /\ view'[b] >= view[b]
      /\ view'[c] = view[c] + 1
      /\ \A b \in Backends \ {c} : view'[b] = view[b]
  BY <1>1 DEF Blocks
<1>3. ViewsOK'
  BY <1>1, <1>2 DEF ReceiptInv, ReceiptOK, ViewsOK, Blocks
<1>4. ReceiptOK'
  BY <1>1, <1>3 DEF ReceiptInv, ReceiptOK
<1>5. ConfirmedInv'
  BY <1>1, <1>2 DEF ReceiptInv, ConfirmedInv
<1>6. LoopInv'
  BY <1>1 DEF ReceiptInv, LoopInv
<1>7. LagInv'
  BY <1>1, <1>2 DEF ReceiptInv, LagInv, Slept
<1>8. LagIsCovered'
  BY <1>1 DEF ReceiptInv, LagIsCovered, Needed
<1>9. QED
  BY <1>4, <1>5, <1>6, <1>7, <1>8 DEF ReceiptInv

LEMMA ConfirmReceipt ==
    ASSUME ReceiptInv, NEW c \in Backends, Confirm(c)
    PROVE  ReceiptInv'
<1> USE ConstantsOK
<1>1. /\ pc = "watching" /\ pc' = "fetching"
      /\ mined > 0 /\ view[c] >= mined + confirmations - 1
      /\ UNCHANGED <<head, view, confirmations, mined, tries, due, nulls, receipt>>
  BY DEF Confirm, Required
<1>2. ReceiptOK'
  BY <1>1 DEF ReceiptInv, ReceiptOK, ViewsOK
<1>3. ConfirmedInv' /\ LoopInv' /\ LagIsCovered'
  BY <1>1 DEF ReceiptInv, ConfirmedInv, LoopInv, LagIsCovered, Needed
<1>4. LagInv'
  BY <1>1 DEF ReceiptInv, LagInv, Slept
<1>5. QED
  BY <1>2, <1>3, <1>4 DEF ReceiptInv

LEMMA FetchReceipt ==
    ASSUME ReceiptInv, NEW c \in Backends, Fetch(c)
    PROVE  ReceiptInv'
<1> USE ConstantsOK
<1>1. /\ pc = "fetching" /\ pc' = "returned" /\ receipt' = "found"
      /\ UNCHANGED <<head, view, confirmations, mined, tries, due, nulls>>
  BY DEF Fetch
<1>2. ReceiptOK'
  BY <1>1 DEF ReceiptInv, ReceiptOK, ViewsOK
<1>3. ConfirmedInv' /\ LoopInv' /\ LagIsCovered'
  BY <1>1 DEF ReceiptInv, ConfirmedInv, LoopInv, LagIsCovered, Needed
<1>4. LagInv'
  BY <1>1 DEF ReceiptInv, LagInv, Slept
<1>5. QED
  BY <1>2, <1>3, <1>4 DEF ReceiptInv

\* A delay is over: every node that was behind has imported a block.
LEMMA WakeReceipt ==
    ASSUME ReceiptInv, Wake
    PROVE  ReceiptInv'
<1> USE ConstantsOK
<1>1. /\ pc = "sleeping" /\ due = {} /\ tries' = tries + 1 /\ pc' = "watching"
      /\ UNCHANGED <<head, view, confirmations, mined, due, nulls, receipt>>
      /\ tries \in Nat /\ nulls \subseteq Nat /\ mined \in Nat /\ confirmations \in Nat
      /\ view \in [Backends -> Blocks]
  BY DEF Wake, ReceiptInv, ReceiptOK, ViewsOK, Tries, Blocks
<1>2. ReceiptOK'
  BY <1>1 DEF ReceiptInv, ReceiptOK, ViewsOK, LoopInv, Tries
<1>3. ConfirmedInv' /\ LoopInv' /\ LagIsCovered'
  BY <1>1 DEF ReceiptInv, ConfirmedInv, LoopInv, LagIsCovered, Needed
<1>4. LagInv'
  BY <1>1 DEF ReceiptInv, LagInv, Slept, Blocks
<1>5. QED
  BY <1>2, <1>3, <1>4 DEF ReceiptInv

\* What TryFails does to the loop, however the try has ended.
LEMMA TryFailsLoop ==
    ASSUME ReceiptInv, TryFails
    PROVE  /\ tries' \in Tries /\ pc' \in {"watching", "sleeping", "returned"}
           /\ due' \subseteq Backends /\ receipt' \in {"error", receipt}
           /\ \/ tries = 1 /\ tries' = 2 /\ pc' = "watching" /\ receipt' = receipt
              \/ /\ tries > 1 /\ tries < MaxTimes + 2 /\ tries' = tries
                 /\ pc' = "sleeping" /\ receipt' = receipt
                 /\ due' = {b \in Backends : view[b] < head}
              \/ tries = MaxTimes + 2 /\ tries' = tries /\ pc' = "returned" /\ receipt' = "error"
<1> USE ConstantsOK
<1>1. tries \in Tries /\ due \subseteq Backends
  BY DEF ReceiptInv, ReceiptOK
<1>2. QED
  BY <1>1 DEF TryFails, MorePolls, Tries

LEMMA BreakReceipt ==
    ASSUME ReceiptInv, Break
    PROVE  ReceiptInv'
<1> USE ConstantsOK
<1>1. /\ pc \in {"watching", "fetching"}
      /\ UNCHANGED <<head, view, confirmations, mined, nulls>>
      /\ tries \in Nat /\ nulls \subseteq Nat /\ mined \in Nat /\ confirmations \in Nat
      /\ mined <= head /\ head \in Nat
      /\ view \in [Backends -> Nat]
  BY DEF Break, ReceiptInv, ReceiptOK, ViewsOK, Tries, Blocks
<1>2. TryFails /\ receipt = "pending" /\ \A n \in nulls : n < tries
  BY <1>1 DEF Break, ReceiptInv, LoopInv, ReceiptOK
<1>3. ReceiptOK'
  BY <1>1, <1>2, TryFailsLoop DEF ReceiptInv, ReceiptOK, ViewsOK
<1>4. ConfirmedInv'
  BY <1>1, <1>2, TryFailsLoop DEF ReceiptInv, ConfirmedInv
<1>5. LoopInv'
  BY <1>1, <1>2, TryFailsLoop DEF ReceiptInv, LoopInv
<1>6. LagInv'
  <2>1. \A n \in nulls : tries > 1 => Slept(n)' = Slept(n)
    BY <1>1, <1>2, TryFailsLoop DEF Slept
  <2>2. CASE tries = 1
    <3>1. \A n \in nulls : n = 0
      BY <1>1, <1>2, <2>2
    <3>2. nulls = {}
      BY <3>1 DEF ReceiptInv, ReceiptOK, Tries
    <3>3. QED
      BY <1>1, <3>2 DEF LagInv
  <2>3. CASE tries > 1
    <3>1. \A n \in nulls, b \in Backends :
              view[b] >= mined \/ view[b] + MaxLag >= mined + confirmations - 1 + Slept(n)
      BY DEF ReceiptInv, LagInv
    <3>2. pc' = "sleeping" => \A b \in Backends : b \notin due' => view[b] >= mined
      BY <1>1, <1>2, TryFailsLoop
    <3>3. QED
      BY <1>1, <2>1, <2>3, <3>1, <3>2 DEF LagInv
  <2>4. QED
    BY <1>1, <2>2, <2>3 DEF ReceiptInv, ReceiptOK, Tries
<1>7. LagIsCovered'
  BY <1>1, <1>2, TryFailsLoop DEF LagIsCovered
<1>8. QED
  BY <1>3, <1>4, <1>5, <1>6, <1>7 DEF ReceiptInv

\* A try ends without a receipt: the node that answered is behind the
\* transaction, and yet within MaxLag of the head that confirmed it.
LEMMA FetchNullReceipt ==
    ASSUME ReceiptInv, NEW c \in Backends, FetchNull(c)
    PROVE  ReceiptInv'
<1> USE ConstantsOK
<1>1. /\ pc = "fetching" /\ view[c] < mined
      /\ nulls' = nulls \cup {tries}
      /\ UNCHANGED <<head, view, confirmations, mined>>
      /\ tries \in Nat /\ tries > 0 /\ nulls \subseteq Nat /\ mined \in Nat /\ confirmations \in Nat
      /\ mined <= head /\ head \in Nat
      /\ view \in [Backends -> Nat]
      /\ \A b \in Backends : view[b] <= head /\ head <= view[b] + MaxLag
  BY DEF FetchNull, ReceiptInv, ReceiptOK, ViewsOK, Tries, Blocks
<1>2. TryFails /\ receipt = "pending" /\ \A n \in nulls : n < tries /\ n > 0
  BY <1>1 DEF FetchNull, ReceiptInv, LoopInv, ReceiptOK, Tries
<1>3. ReceiptOK'
  BY <1>1, <1>2, TryFailsLoop DEF ReceiptInv, ReceiptOK, ViewsOK
<1>4. ConfirmedInv'
  BY <1>1, <1>2, TryFailsLoop DEF ReceiptInv, ConfirmedInv
<1>5. LoopInv'
  BY <1>1, <1>2, TryFailsLoop DEF ReceiptInv, LoopInv
<1>6. \A b \in Backends : view[b] + MaxLag >= mined + confirmations - 1
  <2>1. PICK b \in Backends : view[b] >= mined + confirmations - 1
    BY <1>1 DEF ReceiptInv, ConfirmedInv
  <2>2. head >= mined + confirmations - 1
    BY <1>1, <2>1
  <2>3. QED
    BY <1>1, <2>2
<1>7. \A n \in nulls, b \in Backends :
          view[b] >= mined \/ view[b] + MaxLag >= mined + confirmations - 1 + Slept(n)
  BY DEF ReceiptInv, LagInv
<1>8. LagInv'
  <2>1. pc' = "sleeping" => \A b \in Backends : b \notin due' => view[b] >= mined
    BY <1>1, <1>2, TryFailsLoop
  <2>2. CASE tries = 1
    <3>1. nulls = {}
      BY <1>1, <1>2, <2>2
    <3>2. nulls' = {1} /\ tries' = 2 /\ pc' = "watching"
      BY <1>1, <1>2, <2>2, <3>1, TryFailsLoop
    <3>3. QED
      BY <1>1, <1>6, <3>2 DEF LagInv, Slept
  <2>3. CASE tries > 1
    <3>1. tries' = tries
      BY <1>2, <2>3, TryFailsLoop
    <3>2. \A n \in nulls : Slept(n)' = Slept(n)
      BY <3>1 DEF Slept
    <3>3. \A n \in nulls', b \in Backends :
              view[b] >= mined \/ view[b] + MaxLag >= mined + confirmations - 1 + Slept(n)'
      <4> SUFFICES ASSUME NEW n \in nulls', NEW b \in Backends, ~ view[b] >= mined
                   PROVE  view[b] + MaxLag >= mined + confirmations - 1 + Slept(n)'
        OBVIOUS
      <4>1. CASE n \in nulls
        BY <1>7, <3>2, <4>1
      <4>2. CASE n = tries
        BY <1>1, <1>6, <2>3, <3>1, <4>2 DEF Slept
      <4>3. QED
        BY <1>1, <4>1, <4>2
    <3>4. QED
      BY <1>1, <2>1, <3>3 DEF LagInv
  <2>4. QED
    BY <1>1, <2>2, <2>3
<1>9. LagIsCovered'
  <2> SUFFICES ASSUME receipt' = "error", MaxTimes >= Needed', NEW n \in nulls'
               PROVE  n > MaxTimes + 2 - Needed'
    BY DEF LagIsCovered
  <2>1. Needed' = MaxLag + 1 - confirmations /\ Needed' \in Int
    BY <1>1 DEF Needed
  <2>2. tries = MaxTimes + 2
    BY <1>2, TryFailsLoop
  <2>3. view[c] + MaxLag >= mined + confirmations - 1
    BY <1>6
  <2>4. CASE n = tries
    BY <1>1, <2>1, <2>2, <2>3, <2>4
  <2>5. CASE n \in nulls
    <3>1. view[c] + MaxLag >= mined + confirmations - 1 + Slept(n)
      BY <1>1, <1>7, <2>5
    <3>2. QED
      BY <1>1, <1>2, <2>1, <2>2, <2>5, <3>1 DEF Slept
  <2>6. QED
    BY <1>1, <2>4, <2>5
<1>10. QED
  BY <1>3, <1>4, <1>5, <1>8, <1>9 DEF ReceiptInv

\* Every step of the chain, the nodes and the call keeps the invariant.
LEMMA StepReceipt ==
    ASSUME ReceiptInv,
           \/ Mine \/ GrowWithout \/ Poll \/ UNCHANGED receiptVars
           \/ \E b \in Backends : Import(b)
    PROVE  ReceiptInv'
<1>1. CASE UNCHANGED receiptVars
  BY <1>1 DEF receiptVars, ReceiptInv, ReceiptOK, ViewsOK, ConfirmedInv, LoopInv,
              LagInv, LagIsCovered, Needed, Slept
<1>2. CASE Poll
  BY <1>2, ConfirmReceipt, FetchReceipt, FetchNullReceipt, BreakReceipt, WakeReceipt DEF Poll
<1>3. QED
  BY <1>1, <1>2, GrowReceipt, ImportReceipt

----------------------------------------------------------------------------
(* The identifier of an interface                                          *)

\* The bits that an odd number of the selectors at the places in s has.
OddBits(list, s) ==
    {bit \in Bits : Cardinality({i \in s : bit \in list[i]}) % 2 = 1}

\* What the fold makes of the places in s, once it knows the smaller sets.
FoldStep(list, g, s) ==
    IF s = {} THEN {}
    ELSE LET x == CHOOSE x \in s : TRUE
         IN  Xor(list[x], g[s \ {x}])

\* The fold is a function of the sets of places that satisfies its equation.
LEMMA FoldIs ==
    ASSUME NEW list
    PROVE  erc165_interface_selector(list) =
             (CHOOSE g : g = [s \in SUBSET (DOMAIN list) |-> FoldStep(list, g, s)])[DOMAIN list]
BY DEF erc165_interface_selector, FoldFunction, FoldFunctionOnSet, MapThenFoldSet, FoldStep

\* One place more: its selector flips the bits it has.
LEMMA OddBitsStep ==
    ASSUME NEW list, NEW s, IsFiniteSet(s), NEW x \in s, list[x] \subseteq Bits
    PROVE  OddBits(list, s) = Xor(list[x], OddBits(list, s \ {x}))
<1> DEFINE having(t, bit) == {i \in t : bit \in list[i]}
<1> SUFFICES ASSUME NEW bit \in Bits
             PROVE  Cardinality(having(s, bit)) % 2 = 1 <=>
                      (bit \in list[x] <=> Cardinality(having(s \ {x}, bit)) % 2 # 1)
  BY DEF OddBits, Xor
<1>1. IsFiniteSet(having(s \ {x}, bit))
  <2>1. having(s \ {x}, bit) \subseteq s
    OBVIOUS
  <2>2. QED
    BY <2>1, FS_Subset
<1>2. Cardinality(having(s \ {x}, bit)) \in Nat
  BY <1>1, FS_CardinalityType
<1>3. CASE bit \in list[x]
  <2>1. having(s, bit) = having(s \ {x}, bit) \cup {x} /\ x \notin having(s \ {x}, bit)
    BY <1>3
  <2>2. Cardinality(having(s, bit)) = Cardinality(having(s \ {x}, bit)) + 1
    BY <1>1, <2>1, FS_AddElement
  <2> HIDE DEF having
  <2>3. \A n \in Nat : (n + 1) % 2 = 1 <=> n % 2 # 1
    OBVIOUS
  <2>4. QED
    BY <1>2, <1>3, <2>2, <2>3
<1>4. CASE bit \notin list[x]
  <2>1. having(s, bit) = having(s \ {x}, bit)
    BY <1>4
  <2>2. QED
    BY <1>4, <2>1
<1>5. QED
  BY <1>3, <1>4

LEMMA EmptyOddBits == \A list : OddBits(list, {}) = {}
<1> SUFFICES ASSUME NEW list, NEW bit \in Bits
             PROVE  Cardinality({i \in {} : bit \in list[i]}) % 2 # 1
  BY DEF OddBits
<1>1. {i \in {} : bit \in list[i]} = {}
  OBVIOUS
<1>2. QED
  BY <1>1, FS_EmptySet

LEMMA FinitePlaces == \A list \in Seq(Ids) : IsFiniteSet(DOMAIN list)
<1> SUFFICES ASSUME NEW list \in Seq(Ids) PROVE IsFiniteSet(DOMAIN list)
  OBVIOUS
<1>1. PICK n \in Nat : DOMAIN list = 1..n
  <2>1. DOMAIN list = 1..Len(list) /\ Len(list) \in Nat
    OBVIOUS
  <2>2. QED
    BY <2>1
<1>2. IsFiniteSet(1..n)
  BY FS_Interval
<1>3. QED
  BY <1>1, <1>2

\* Two functions of the sets of places that satisfy the equation of the
\* fold agree: a smallest set on which they differ cannot be.
LEMMA FoldUnique ==
    ASSUME NEW list, IsFiniteSet(DOMAIN list), NEW g, NEW h,
           \A s \in SUBSET (DOMAIN list) : g[s] = FoldStep(list, g, s),
           \A s \in SUBSET (DOMAIN list) : h[s] = FoldStep(list, h, s)
    PROVE  \A s \in SUBSET (DOMAIN list) : g[s] = h[s]
<1> DEFINE places == DOMAIN list
           differ == {s \in SUBSET places : g[s] # h[s]}
<1>1. IsWellFoundedOn(StrictSubsetOrdering(places), SUBSET places)
  BY FS_StrictSubsetOrderingWellFounded, FS_FiniteSubsetsOfFinite
<1>2. ASSUME differ # {} PROVE FALSE
  <2>1. PICK s \in differ : \A t \in differ : <<t, s>> \notin StrictSubsetOrdering(places)
    BY <1>1, <1>2, WFMin
  <2>2. s # {}
    BY DEF FoldStep
  <2> DEFINE x == CHOOSE x \in s : TRUE
  <2>3. x \in s
    BY <2>2
  <2>4. g[s \ {x}] = h[s \ {x}]
    <3>1. s \ {x} \in SUBSET places /\ s \ {x} # s
      BY <2>3
    <3>2. <<s \ {x}, s>> \in StrictSubsetOrdering(places)
      BY <3>1 DEF StrictSubsetOrdering
    <3>3. QED
      BY <2>1, <3>1, <3>2
  <2>5. g[s] = Xor(list[x], g[s \ {x}]) /\ h[s] = Xor(list[x], h[s \ {x}])
    BY <2>2 DEF FoldStep
  <2>6. QED
    BY <2>4, <2>5
<1>3. QED
  BY <1>2

\* The fold of erc165.rs computes the identifier EIP-165 defines, whatever
\* order it takes the selectors in.
THEOREM SelectorIsInterfaceId ==
    ASSUME NEW list \in Seq(Ids)
    PROVE  erc165_interface_selector(list) = InterfaceId(list)
<1> DEFINE places == DOMAIN list
           fold == CHOOSE g : g = [s \in SUBSET places |-> FoldStep(list, g, s)]
           odd == [s \in SUBSET places |-> OddBits(list, s)]
<1>1. IsFiniteSet(places)
  BY FinitePlaces
<1>2. odd = [s \in SUBSET places |-> FoldStep(list, odd, s)]
  <2>1. ASSUME NEW s \in SUBSET places
        PROVE  OddBits(list, s) = FoldStep(list, odd, s)
    <3>1. CASE s = {}
      BY <3>1, EmptyOddBits DEF FoldStep
    <3>2. CASE s # {}
      <4> DEFINE x == CHOOSE x \in s : TRUE
      <4>1. x \in s
        BY <3>2
      <4> HIDE DEF x
      <4>2. IsFiniteSet(s)
        BY <1>1, FS_Subset
      <4>3. list[x] \subseteq Bits
        BY <4>1 DEF Ids
      <4>4. OddBits(list, s) = Xor(list[x], OddBits(list, s \ {x}))
        BY <4>1, <4>2, <4>3, OddBitsStep
      <4>5. s \ {x} \in SUBSET places
        OBVIOUS
      <4>6. QED
        BY <3>2, <4>4, <4>5 DEF FoldStep, x
    <3>3. QED
      BY <3>1, <3>2
  <2>2. QED
    BY <2>1
<1>3. fold = [s \in SUBSET places |-> FoldStep(list, fold, s)]
  BY <1>2
<1>4. /\ \A s \in SUBSET places : fold[s] = FoldStep(list, fold, s)
      /\ \A s \in SUBSET places : odd[s] = FoldStep(list, odd, s)
  <2> HIDE DEF fold, odd
  <2>1. QED
    BY <1>2, <1>3
<1> HIDE DEF fold, odd
<1>5. fold[places] = odd[places]
  BY <1>1, <1>4, FoldUnique
<1>6. erc165_interface_selector(list) = fold[places]
  BY FoldIs DEF fold
<1>7. QED
  BY <1>5, <1>6 DEF odd, OddBits, InterfaceId

\* The order of the selectors does not matter (the test at erc165.rs:302-306
\* reverses one list; here any list, rearranged in any way).
THEOREM SelectorOrderDoesNotMatter ==
    ASSUME NEW list \in Seq(Ids), NEW other \in Seq(Ids),
           NEW at \in Bijection(DOMAIN other, DOMAIN list),
           \A i \in DOMAIN other : other[i] = list[at[i]]
    PROVE  erc165_interface_selector(other) = erc165_interface_selector(list)
<1> DEFINE having(t, bit) == {i \in DOMAIN t : bit \in t[i]}
<1>1. ASSUME NEW bit \in Bits
      PROVE  Cardinality(having(other, bit)) = Cardinality(having(list, bit))
  <2> DEFINE moved == [i \in having(other, bit) |-> at[i]]
  <2>1. /\ at \in [DOMAIN other -> DOMAIN list]
        /\ \A i, j \in DOMAIN other : at[i] = at[j] => i = j
        /\ \A k \in DOMAIN list : \E i \in DOMAIN other : at[i] = k
    BY DEF Bijection, Injection, Surjection, IsInjective
  <2>2. moved \in [having(other, bit) -> having(list, bit)]
    BY <2>1
  <2>3. \A i, j \in having(other, bit) : moved[i] = moved[j] => i = j
    BY <2>1
  <2>4. \A k \in having(list, bit) : \E i \in having(other, bit) : moved[i] = k
    BY <2>1
  <2> HIDE DEF moved, having
  <2>5. moved \in Bijection(having(other, bit), having(list, bit))
    BY <2>2, <2>3, <2>4 DEF Bijection, Injection, Surjection, IsInjective
  <2>6. IsFiniteSet(having(other, bit))
    <3>1. IsFiniteSet(DOMAIN other)
      BY FinitePlaces
    <3>2. having(other, bit) \subseteq DOMAIN other
      BY DEF having
    <3>3. QED
      BY <3>1, <3>2, FS_Subset
  <2>7. QED
    BY <2>5, <2>6, FS_Bijection DEF ExistsBijection
<1>2. InterfaceId(other) = InterfaceId(list)
  BY <1>1 DEF InterfaceId
<1>3. QED
  BY <1>2, SelectorIsInterfaceId

LEMMA SelectorOfInterface ==
    ASSUME NEW s \in Interfaces \cup {<<>>}
    PROVE  erc165_interface_selector(s) = InterfaceId(s)
<1>1. CASE s \in Interfaces
  BY <1>1, InterfacesAssumption, SelectorIsInterfaceId
<1>2. CASE s = <<>>
  <2>1. <<>> \in Seq(Ids)
    OBVIOUS
  <2>2. QED
    BY <1>2, <2>1, SelectorIsInterfaceId
<1>3. QED
  BY <1>1, <1>2

----------------------------------------------------------------------------
(* The decisions of erc165.rs about one contract                           *)

LEMMA QueriesAreIds ==
    ASSUME NEW c, NEW s \in Interfaces \cup {<<>>}
    PROVE  Queries(c, s) \subseteq Ids /\ Queries(c, s) # {}
<1>1. erc165_interface_selector(s) \in Ids
  BY SelectorOfInterface DEF InterfaceId, Ids
<1>2. QED
  BY <1>1, SelectorAssumption
     DEF Queries, ConformanceQueries, INVALID_INTERFACE_SELECTOR, Ids, Unchecked

\* A reply that agrees with the contract is judged as EIP-165 does.
LEMMA JudgedAsEip ==
    ASSUME NEW c \in Checks, NEW s \in Interfaces \cup {<<>>}, NEW contract, NEW reply,
           \A id \in Queries(c, s) : reply[id] = contract[id]
    PROVE  Judge(c, s, reply) = IF Implements(c, s, contract) THEN "Ok" ELSE "Unsupported"
<1>1. erc165_interface_selector(s) = InterfaceId(s)
  BY SelectorOfInterface
<1>2. c # Unchecked => Conform(reply) = ImplementsErc165(contract)
  BY DEF Queries, ConformanceQueries, Conform, ImplementsErc165, INVALID_INTERFACE_SELECTOR
<1>3. c # "ensure_erc165_conform" => reply[InterfaceId(s)] = contract[InterfaceId(s)]
  BY <1>1 DEF Queries
<1>4. QED
  BY <1>1, <1>2, <1>3 DEF Judge, Implements

\* EIP-165's procedure accepts only a contract that answers every query
\* with a Boolean.
LEMMA AcceptedIsBoolean ==
    ASSUME NEW c \in Checks, NEW s \in Interfaces \cup {<<>>}, NEW contract,
           Implements(c, s, contract), NEW id \in Queries(c, s)
    PROVE  contract[id] \in {"true", "false"}
<1>1. erc165_interface_selector(s) = InterfaceId(s)
  BY SelectorOfInterface
<1>2. QED
  BY <1>1 DEF Queries, ConformanceQueries, Implements, ImplementsErc165,
              INVALID_INTERFACE_SELECTOR

\* What a check makes of a result of one node, at one block.
LEMMA DecisionSound ==
    ASSUME NEW c \in Checks, NEW s \in Interfaces \cup {<<>>}, NEW contract \in Contracts,
           NEW m \in BOOLEAN, NEW reply, NEW response, NEW v,
           reply = [id \in Queries(c, s) |-> contract[id]],
           response = Response(c, {reply[id] : id \in Queries(c, s)}, m),
           v = IF response = "booleans" THEN Judge(c, s, reply) ELSE ConfirmError(c, response),
           response # "errorResp"
    PROVE  /\ v \in {"Ok", "NotAContract", "Unsupported"}
           /\ v = "Ok" => Implements(c, s, contract)
           /\ v = "Unsupported" => contract # NoCode /\ ~ Implements(c, s, contract)
           /\ v = "NotAContract" =>
                  (c # Unchecked /\ ~ m) \/ \E id \in Ids : contract[id] \in {"garbage", "empty"}
<1> DEFINE answers == {reply[id] : id \in Queries(c, s)}
<1>1. answers = {contract[id] : id \in Queries(c, s)} /\ answers \subseteq Replies /\ answers # {}
  BY QueriesAreIds DEF Contracts
<1>2. \A r \in answers : r # "empty" => contract # NoCode
  BY <1>1, QueriesAreIds DEF NoCode
<1>3. Implements(c, s, contract) => answers \subseteq {"true", "false"}
  BY <1>1, AcceptedIsBoolean
<1>4. (\A id \in Ids : contract[id] \notin {"garbage", "empty"}) => answers \subseteq {"true", "false", "revert"}
  BY <1>1, QueriesAreIds DEF Replies
<1>5. Judge(c, s, reply) = IF Implements(c, s, contract) THEN "Ok" ELSE "Unsupported"
  BY JudgedAsEip
<1>6. response = Response(c, answers, m)
  OBVIOUS
<1> HIDE DEF answers
<1>7. CASE response = "booleans"
  <2>1. answers \subseteq {"true", "false"}
    BY <1>6, <1>7 DEF Response
  <2>2. QED
    BY <1>1, <1>2, <1>5, <1>7, <2>1
<1>8. CASE response # "booleans"
  <2>1. "revert" \notin answers \/ (c # Unchecked /\ ~ m)
    BY <1>6, <1>8 DEF Response
  <2>2. CASE c # Unchecked
    <3>1. response \in {"noReturnData", "decodeError"}
      BY <1>6, <1>8, <2>2 DEF Response
    <3>2. v = "NotAContract"
      BY <1>8, <2>2, <3>1 DEF ConfirmError, FromMulticallError
    <3>3. m => ~ answers \subseteq {"true", "false"}
      BY <1>6, <1>8, <2>2 DEF Response
    <3>4. QED
      BY <1>4, <1>8, <2>1, <2>2, <3>2, <3>3
  <2>3. CASE c = Unchecked
    <3>1. /\ ~ answers \subseteq {"true", "false"} /\ "revert" \notin answers
          /\ response = IF "empty" \in answers THEN "zeroData" ELSE "decodeError"
      BY <1>6, <1>8, <2>3 DEF Response
    <3>2. v = IF "empty" \in answers THEN "NotAContract" ELSE "Unsupported"
      BY <1>8, <2>3, <3>1 DEF ConfirmError, unwrap_erc165_call
    <3>3. QED
      BY <1>1, <1>2, <1>3, <1>4, <1>8, <3>1, <3>2
  <2>4. QED
    BY <2>2, <2>3
<1>9. QED
  BY <1>7, <1>8

----------------------------------------------------------------------------
(* The check                                                               *)

\* The check begins after the call for the receipt and returns after that.
OrderInv ==
    /\ verdict # "pending" => check # "none"
    /\ check # "none" => receipt # "pending"

IInv ==
    /\ TypeOK
    /\ ReceiptInv
    /\ OrderInv
    /\ OkIsOneBlock
    /\ RefusalHasReason
    /\ DeployedIsFound

LEMMA InitIInv == Init => IInv
<1> SUFFICES ASSUME Init PROVE IInv
  OBVIOUS
<1>1. ReceiptInv
  BY InitReceipt DEF Init
<1>2. NoCode \in Contracts
  BY DEF NoCode, Contracts, Replies
<1>3. TypeOK
  BY <1>1, <1>2 DEF Init, TypeOK, ReceiptInv
<1>4. QED
  BY <1>1, <1>3 DEF Init, IInv, OrderInv, OkIsOneBlock, RefusalHasReason, DeployedIsFound

\* While no verdict is given, the properties of verdicts hold by themselves.
LEMMA NoVerdict ==
    ASSUME verdict = "pending"
    PROVE  OkIsOneBlock /\ RefusalHasReason /\ DeployedIsFound
BY DEF OkIsOneBlock, RefusalHasReason, DeployedIsFound

\* A new block, an import: the check has not returned.
LEMMA ChainIInv ==
    ASSUME IInv, Deploy \/ Extend \/ \E b \in Backends : ImportView(b)
    PROVE  IInv'
<1>1. /\ Mine \/ GrowWithout \/ \E b \in Backends : Import(b)
      /\ verdict = "pending" /\ UNCHANGED checkVars
  BY DEF Deploy, Extend, ImportView
<1>2. ReceiptInv'
  BY <1>1, StepReceipt DEF IInv
<1>3. receipt' = receipt
  BY <1>1 DEF Mine, GrowWithout, Import
<1>4. code' \in [Blocks -> Contracts]
  <2>1. CASE code' = code
    BY <2>1 DEF IInv, TypeOK
  <2>2. CASE \E c \in Codes : code' = [code EXCEPT ![head + 1] = c]
    BY <2>2, CodesAssumption DEF IInv, TypeOK
  <2>3. CASE code' = [code EXCEPT ![head + 1] = code[head]]
    BY <2>3 DEF IInv, TypeOK, ReceiptOK, ViewsOK
  <2>4. QED
    BY <2>1, <2>2, <2>3 DEF Deploy, Extend, ImportView
<1>5. TypeOK'
  BY <1>1, <1>2, <1>4 DEF IInv, TypeOK, checkVars, ReceiptInv
<1>6. OrderInv'
  BY <1>1, <1>3 DEF IInv, OrderInv, checkVars
<1>7. (OkIsOneBlock /\ RefusalHasReason /\ DeployedIsFound)'
  BY <1>1 DEF OkIsOneBlock, RefusalHasReason, DeployedIsFound, checkVars
<1>8. QED
  BY <1>2, <1>5, <1>6, <1>7 DEF IInv

\* The call for the receipt: no check has begun.
LEMMA PollIInv ==
    ASSUME IInv, PollReceipt
    PROVE  IInv'
<1>1. Poll /\ UNCHANGED <<code, checkVars>>
  BY DEF PollReceipt
<1>2. ReceiptInv'
  BY <1>1, StepReceipt DEF IInv
<1>3. pc # "returned"
  BY <1>1 DEF Poll, Confirm, Fetch, FetchNull, Break, Wake
<1>4. check = "none" /\ verdict = "pending"
  BY <1>3 DEF IInv, OrderInv, ReceiptInv, LoopInv
<1>5. TypeOK'
  BY <1>1, <1>2 DEF IInv, TypeOK, checkVars, ReceiptInv
<1>6. QED
  BY <1>1, <1>2, <1>4, <1>5
     DEF IInv, OrderInv, checkVars, OkIsOneBlock, RefusalHasReason, DeployedIsFound

LEMMA StartIInv ==
    ASSUME IInv, StartCheck
    PROVE  IInv'
<1>1. /\ receipt # "pending" /\ check = "none" /\ check' \in Checks
      /\ selectors' \in Interfaces \cup {<<>>} /\ multicall' \in BOOLEAN
      /\ UNCHANGED <<receiptVars, code, failed, verdict>>
  BY DEF StartCheck
<1>2. ReceiptInv'
  BY <1>1, StepReceipt DEF IInv
<1>3. verdict = "pending"
  BY <1>1 DEF IInv, OrderInv
<1>4. TypeOK'
  BY <1>1, <1>2 DEF IInv, TypeOK, ReceiptInv
<1>5. OrderInv'
  BY <1>1, <1>3 DEF OrderInv, receiptVars
<1>6. QED
  BY <1>1, <1>2, <1>3, <1>4, <1>5 DEF IInv, OkIsOneBlock, RefusalHasReason, DeployedIsFound

\* The answer of node b is a decision about the contract at b's view, which
\* has the transaction when the receipt came with enough confirmations.
LEMMA NodeAnswer ==
    ASSUME IInv, NEW b \in Backends, Asked(b)
    PROVE  /\ check \in Checks /\ selectors \in Interfaces \cup {<<>>} /\ multicall \in BOOLEAN
           /\ view[b] \in 0..head /\ code[view[b]] \in Contracts
           /\ Answers(b) = [id \in Queries(check, selectors) |-> code[view[b]][id]]
           /\ receipt = "found" /\ confirmations > MaxLag => view[b] \in mined..head
<1> USE ConstantsOK
<1>1. /\ check \in Checks /\ selectors \in Interfaces \cup {<<>>} /\ multicall \in BOOLEAN
      /\ code \in [Blocks -> Contracts] /\ view \in [Backends -> Blocks]
      /\ head \in Blocks /\ mined \in 0..head /\ confirmations \in 1..MaxConfirmations
      /\ \A c \in Backends : view[c] <= head /\ head <= view[c] + MaxLag
  BY DEF IInv, TypeOK, ReceiptOK, ViewsOK, Asked
<1>2. Answers(b) = [id \in Queries(check, selectors) |-> code[view[b]][id]]
  BY DEF Answers, Queried
<1>3. ASSUME receipt = "found", confirmations > MaxLag
      PROVE  view[b] >= mined
  <2>1. PICK c \in Backends : view[c] >= mined + confirmations - 1
    BY <1>3 DEF IInv, ReceiptInv, ConfirmedInv
  <2>2. QED
    BY <1>1, <1>3, <2>1 DEF Blocks
<1>4. QED
  BY <1>1, <1>2, <1>3 DEF Blocks

LEMMA DecideIInv ==
    ASSUME IInv, NEW b \in Backends, Decide(b)
    PROVE  IInv'
<1> DEFINE contract == code[view[b]]
<1>1. /\ Asked(b) /\ Answer(b) # "errorResp"
      /\ verdict' = IF Answer(b) = "booleans" THEN Judge(check, selectors, Answers(b))
                    ELSE ConfirmError(check, Answer(b))
      /\ UNCHANGED <<receiptVars, code, multicall, check, selectors, failed>>
  BY DEF Decide
<1>2. /\ verdict' \in {"Ok", "NotAContract", "Unsupported"}
      /\ verdict' = "Ok" => Implements(check, selectors, contract)
      /\ verdict' = "Unsupported" => contract # NoCode /\ ~ Implements(check, selectors, contract)
      /\ verdict' = "NotAContract" =>
            (check # Unchecked /\ ~ multicall)
            \/ \E id \in Ids : contract[id] \in {"garbage", "empty"}
  BY <1>1, NodeAnswer, DecisionSound DEF Answer
<1>3. ReceiptInv'
  BY <1>1, StepReceipt DEF IInv
<1>4. TypeOK'
  BY <1>1, <1>2, <1>3 DEF IInv, TypeOK, ReceiptInv, Verdicts
<1>5. OrderInv'
  BY <1>1 DEF IInv, OrderInv, Asked, receiptVars
<1>6. OkIsOneBlock' /\ RefusalHasReason'
  BY <1>1, <1>2, NodeAnswer DEF OkIsOneBlock, RefusalHasReason, receiptVars
<1>7. DeployedIsFound'
  BY <1>1, <1>2, NodeAnswer DEF DeployedIsFound, receiptVars
<1>8. QED
  BY <1>3, <1>4, <1>5, <1>6, <1>7 DEF IInv

LEMMA FailIInv ==
    ASSUME IInv, NEW b \in Backends, NEW error \in Errors, Fail(b, error)
    PROVE  IInv'
<1>1. /\ Asked(b) /\ verdict = "pending"
      /\ failed' = [failed EXCEPT ![b] = error]
      /\ verdict' = IF \A c \in Backends \ {b} : failed[c] # "none"
                    THEN ConfirmError(check, error)
                    ELSE verdict
      /\ UNCHANGED <<receiptVars, code, multicall, check, selectors>>
  BY DEF Fail, Asked
<1>2. verdict' # "pending" => NoneAnswered'
  <2> SUFFICES ASSUME verdict' # "pending", NEW c \in Backends PROVE failed'[c] # "none"
    BY DEF NoneAnswered
  <2>1. c = b \/ failed[c] # "none"
    BY <1>1
  <2>2. QED
    BY <1>1, <2>1 DEF IInv, TypeOK, Errors
<1>3. ConfirmError(check, error) = IF error = "transport" THEN "TransportError" ELSE "Unsupported"
  BY DEF Errors, ConfirmError, unwrap_erc165_call, FromMulticallError
<1>4. ReceiptInv'
  BY <1>1, StepReceipt DEF IInv
<1>5. TypeOK'
  BY <1>1, <1>3, <1>4 DEF IInv, TypeOK, ReceiptInv, Verdicts, Errors
<1>6. OrderInv'
  BY <1>1 DEF IInv, OrderInv, Asked, receiptVars
<1>7. failed'[b] = error
  BY <1>1 DEF IInv, TypeOK
<1>8. /\ verdict' \in {"pending", "TransportError", "Unsupported"}
      /\ verdict' = "TransportError" => error = "transport"
      /\ verdict' = "Unsupported" => error = "errorResp"
  BY <1>1, <1>3 DEF Errors
<1>9. RefusalHasReason'
  BY <1>2, <1>7, <1>8 DEF RefusalHasReason
<1>10. OkIsOneBlock' /\ DeployedIsFound'
  BY <1>8 DEF OkIsOneBlock, DeployedIsFound
<1>11. QED
  BY <1>4, <1>5, <1>6, <1>9, <1>10 DEF IInv

LEMMA Inductive == Spec => []IInv
<1>1. IInv /\ [Next]_vars => IInv'
  <2> SUFFICES ASSUME IInv, [Next]_vars PROVE IInv'
    OBVIOUS
  <2>1. CASE UNCHANGED vars
    <3>1. ReceiptInv'
      BY <2>1, StepReceipt DEF IInv, vars
    <3>2. QED
      BY <2>1, <3>1 DEF vars, checkVars, receiptVars, IInv, TypeOK, ReceiptInv, OrderInv,
                        OkIsOneBlock, RefusalHasReason, NoneAnswered, DeployedIsFound
  <2>2. CASE Next
    BY <2>1, <2>2, ChainIInv, PollIInv, StartIInv, DecideIInv, FailIInv DEF Next, Finished
  <2>3. QED
    BY <2>1, <2>2
<1>2. QED
  BY <1>1, InitIInv, PTL DEF Spec

----------------------------------------------------------------------------
\* The call and the check stay within their types; the loop makes no more
\* polls than the backoff has delays, and one.
THEOREM TypeCorrect == Spec => []TypeOK
<1>1. IInv => TypeOK
  BY DEF IInv
<1>2. QED
  BY <1>1, Inductive, PTL

\* Every receipt comes with the confirmations the caller asked for.
THEOREM FoundIsConfirmed == Spec => []ReceiptIsConfirmed
<1>1. IInv => ReceiptIsConfirmed
  BY DEF IInv, ReceiptInv, ConfirmedInv, ReceiptIsConfirmed
<1>2. QED
  BY <1>1, Inductive, PTL

\* With enough delays, nodes that are behind do not fail the call.
THEOREM DelaysCoverLag == Spec => []LagIsCovered
<1>1. IInv => LagIsCovered
  BY DEF IInv, ReceiptInv
<1>2. QED
  BY <1>1, Inductive, PTL

\* Whatever the contract answers and however it is upgraded, Ok means that
\* EIP-165's procedure accepts it in one block.
THEOREM OkSound == Spec => []OkIsOneBlock
<1>1. IInv => OkIsOneBlock
  BY DEF IInv
<1>2. QED
  BY <1>1, Inductive, PTL

\* A contract that the procedure accepts in every block is refused only when
\* no node has answered and one has responded with an error; an outage of
\* the transport alone is reported as what it is.
THEOREM RefusalSound == Spec => []RefusalHasReason
<1>1. IInv => RefusalHasReason
  BY DEF IInv
<1>2. QED
  BY <1>1, Inductive, PTL

\* With more confirmations than lag the check after the receipt never
\* misses a contract that answers.
THEOREM ConfirmedIsFound == Spec => []DeployedIsFound
<1>1. IInv => DeployedIsFound
  BY DEF IInv
<1>2. QED
  BY <1>1, Inductive, PTL

----------------------------------------------------------------------------
(* The check is one request of the transport stack                         *)

failedNodes == {b \in Backends : failed[b] # "none"}
raceOutcome ==
    IF verdict = "pending" THEN "pending"
    ELSE IF failedNodes = Backends THEN "lost" ELSE "won"

\* The tries of a node are not told apart.
Node == INSTANCE Race WITH
    Racers <- Backends, tries <- [b \in Backends |-> 1], lost <- failedNodes,
    outcome <- raceOutcome

LEMMA DecideWins ==
    ASSUME IInv, NEW b \in Backends, Decide(b)
    PROVE  Node!Win(b)
<1>1. /\ Asked(b) /\ Answer(b) # "errorResp" /\ failed' = failed
      /\ verdict' = IF Answer(b) = "booleans" THEN Judge(check, selectors, Answers(b))
                    ELSE ConfirmError(check, Answer(b))
  BY DEF Decide
<1>2. verdict' \in {"Ok", "NotAContract", "Unsupported"}
  BY <1>1, NodeAnswer, DecisionSound DEF Answer
<1>3. verdict = "pending" /\ failed[b] = "none"
  BY <1>1 DEF Asked
<1>4. failedNodes' = failedNodes /\ b \notin failedNodes /\ failedNodes # Backends
  BY <1>1, <1>3 DEF failedNodes
<1>5. raceOutcome = "pending" /\ raceOutcome' = "won"
  BY <1>2, <1>3, <1>4 DEF raceOutcome
<1>6. QED
  BY <1>4, <1>5 DEF Node!Win, Node!Running

LEMMA FailDrops ==
    ASSUME IInv, NEW b \in Backends, NEW error \in Errors, Fail(b, error)
    PROVE  Node!Drop(b)
<1>1. /\ verdict = "pending" /\ failed[b] = "none" /\ error # "none"
      /\ failed \in [Backends -> Errors \cup {"none"}]
      /\ failed' = [failed EXCEPT ![b] = error]
      /\ verdict' = IF \A c \in Backends \ {b} : failed[c] # "none"
                    THEN ConfirmError(check, error)
                    ELSE verdict
  BY DEF Fail, Asked, IInv, TypeOK, Errors
<1>2. b \notin failedNodes /\ failedNodes' = failedNodes \cup {b}
  BY <1>1 DEF failedNodes
<1>3. (\A c \in Backends \ {b} : failed[c] # "none") <=> failedNodes' = Backends
  BY <1>1, <1>2 DEF failedNodes
<1>4. ConfirmError(check, error) # "pending"
  BY DEF Errors, ConfirmError, unwrap_erc165_call, FromMulticallError
<1>5. /\ raceOutcome = "pending"
      /\ raceOutcome' = IF failedNodes' = Backends THEN "lost" ELSE "pending"
  BY <1>1, <1>3, <1>4 DEF raceOutcome
<1>6. QED
  BY <1>2, <1>5 DEF Node!Drop, Node!Running

\* The request of the check, as Decide and Fail have it, is the race that
\* the loops of RpcTransport implement (LoopsAreARace): using it for the
\* transport stack adds nothing the stack does not promise.
THEOREM CheckIsARace == Spec => Node!Spec
<1>1. Init => Node!Init
  BY DEF Init, Node!Init, failedNodes, raceOutcome
<1>2. IInv /\ [Next]_vars => [Node!Next]_(Node!raceVars)
  <2> SUFFICES ASSUME IInv, [Next]_vars PROVE [Node!Next]_(Node!raceVars)
    OBVIOUS
  <2>1. ASSUME UNCHANGED <<failed, verdict>>
        PROVE  UNCHANGED Node!raceVars
    <3>1. failedNodes' = failedNodes
      BY <2>1 DEF failedNodes
    <3>2. QED
      BY <2>1, <3>1 DEF Node!raceVars, raceOutcome
  <2>2. CASE \E b \in Backends : Decide(b)
    BY <2>2, DecideWins DEF Node!Next
  <2>3. CASE \E b \in Backends, error \in Errors : Fail(b, error)
    BY <2>3, FailDrops DEF Node!Next
  <2>4. CASE \/ UNCHANGED vars \/ Deploy \/ Extend \/ PollReceipt \/ StartCheck
             \/ \E b \in Backends : ImportView(b)
    BY <2>1, <2>4 DEF vars, checkVars, Deploy, Extend, PollReceipt, StartCheck, ImportView
  <2>5. QED
    BY <2>2, <2>3, <2>4 DEF Next, Finished
<1>3. QED
  BY <1>1, <1>2, Inductive, PTL DEF Spec, Node!Spec
=============================================================================
