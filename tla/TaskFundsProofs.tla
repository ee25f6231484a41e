--------------------------- MODULE TaskFundsProofs ---------------------------
(***************************************************************************)
(* What becomes of deposits, for any number of chains, tasks and           *)
(* concurrent queries:                                                     *)
(*                                                                         *)
(*  - each stays in one piece and goes along its route, one step after the *)
(*    other, with every fault, retry and governance (KeepsToRoute);        *)
(*  - where the last step is a bridge, a completed task has delivered all  *)
(*    of it, with every fault, retry and governance (PaidInFull), and so   *)
(*    the engine implements Journey;                                       *)
(*  - where it is not, that holds when every other step is a bridge and    *)
(*    what section 4 of the README shows to go wrong is excluded; without  *)
(*    retry each step also runs with what was settled for it               *)
(*    (RunsSettled), with it a step that runs again finds the deposit      *)
(*    taken, as long as no two steps share a chain.                        *)
(***************************************************************************)
EXTENDS TaskOrderProofs

USE ChainsAssumption, TaskEngineAssumption

-----------------------------------------------------------------------------
(***************************************************************************)
(* What the steps of the chains do to a deposit.                           *)
(***************************************************************************)

\* Including a transaction adds one fact, if it succeeds.
LEMMA MineResult ==
    ASSUME ChainsTypeOK, NEW c \in Chains, NEW tx \in pool[c], Mine(c, tx)
    PROVE  \E ok \in BOOLEAN :
              /\ \A t \in Tasks : \A j \in Steps(t) :
                    TookFunds(t, j)' <=> \/ TookFunds(t, j)
                                         \/ /\ ok /\ c = Src(t, j)
                                            /\ tx.task = t /\ tx.step = j /\ tx.spend > 0
              /\ \A t \in Tasks :
                    ClaimedOnChain(t)' <=> \/ ClaimedOnChain(t)
                                           \/ /\ ok /\ c = Source(t)
                                              /\ tx.task = t /\ tx.kind = "claim"
              /\ IF ok THEN Executable(tx) /\ Effects(tx) ELSE UNCHANGED <<bal, transit>>
<1>1. PICK ok \in BOOLEAN :
         /\ mined' = [mined EXCEPT ![c] = Append(@, [tx |-> tx, ok |-> ok])]
         /\ IF ok THEN Executable(tx) /\ Effects(tx) ELSE UNCHANGED <<bal, transit>>
  BY DEF Mine
<1>2. PICK new : new = [tx |-> tx, ok |-> ok]
  OBVIOUS
<1>3. mined[c] \in Seq(Receipt) /\ new \in Receipt /\ new.tx = tx /\ new.ok = ok
  BY <1>2 DEF ChainsTypeOK, Receipt
<1>4. mined'[c] = Append(mined[c], new) /\ \A d \in Chains : d # c => mined'[d] = mined[d]
  BY <1>1, <1>2 DEF ChainsTypeOK
<1>5. PICK L \in Nat : L = Len(mined[c])
  BY <1>3, LenProperties
<1>6. /\ Len(mined'[c]) = L + 1 /\ mined'[c][L + 1] = new
      /\ \A n \in 1..L : mined'[c][n] = mined[c][n]
  BY <1>3, <1>4, <1>5, AppendProperties
<1>7. \A n : n \in 1..(L + 1) <=> n \in 1..L \/ n = L + 1
  OBVIOUS
<1>8. ASSUME NEW t \in Tasks, NEW j \in Steps(t)
      PROVE  TookFunds(t, j)' <=> \/ TookFunds(t, j)
                                  \/ /\ ok /\ c = Src(t, j)
                                     /\ tx.task = t /\ tx.step = j /\ tx.spend > 0
  <2>1. CASE c = Src(t, j)
    BY <1>3, <1>5, <1>6, <1>7, <2>1 DEF TookFunds
  <2>2. CASE c # Src(t, j)
    BY <1>4, <2>2, RouteType DEF TookFunds
  <2>3. QED
    BY <2>1, <2>2
<1>9. ASSUME NEW t \in Tasks
      PROVE  ClaimedOnChain(t)' <=> \/ ClaimedOnChain(t)
                                    \/ /\ ok /\ c = Source(t)
                                       /\ tx.task = t /\ tx.kind = "claim"
  <2>1. CASE c = Source(t)
    BY <1>3, <1>5, <1>6, <1>7, <2>1 DEF ClaimedOnChain
  <2>2. CASE c # Source(t)
    BY <1>4, <2>2, RouteType DEF ClaimedOnChain
  <2>3. QED
    BY <2>1, <2>2
<1>10. QED
  BY <1>1, <1>8, <1>9

\* The deposit of t stays where it is, ...
Stays(t) ==
    /\ \A j \in Steps(t) : TookFunds(t, j)' <=> TookFunds(t, j)
    /\ ClaimedOnChain(t)' <=> ClaimedOnChain(t)
    /\ \A j \in 0..Len(Route[t]) : bal'[t][j] = bal[t][j]
    /\ Bridged(t)' = Bridged(t)

\* ... or is sent on by step i, ...
SentOn(t, i) == IF Bridge(t, i) THEN OnBridge(t, i)' ELSE OnAccount(t, i)'

\* ... or comes to the next place of its route.
GoesOn(t) ==
    \/ Unclaimed(t) /\ IF Source(t) \in Evm THEN SentOn(t, 1) ELSE OnAccount(t, 0)'
    \/ \E i \in Steps(t) : OnAccount(t, i - 1) /\ SentOn(t, i)
    \/ \E i \in Steps(t) : OnBridge(t, i) /\ OnAccount(t, i)'

LEMMA UnchangedStays ==
    ASSUME UNCHANGED <<mined, bal, transit>>, NEW t \in Tasks
    PROVE  Stays(t)
  BY DEF Stays, TookFunds, ClaimedOnChain, Bridged

LEMMA StaysInPlace ==
    ASSUME NEW t \in Tasks, Stays(t)
    PROVE  /\ Unclaimed(t) => Unclaimed(t)'
           /\ \A i \in 0..Len(Route[t]) : OnAccount(t, i) => OnAccount(t, i)'
           /\ \A i \in Steps(t) : OnBridge(t, i) => OnBridge(t, i)'
<1>1. ASSUME NEW i \in 0..Len(Route[t])
      PROVE  /\ TookUpTo(t, i) <=> TookUpTo(t, i)'
             /\ AllAt(t, i) <=> AllAt(t, i)'
  BY DEF Stays, TookUpTo, AllAt
<1>2. NoneLeft(t) <=> NoneLeft(t)'
  BY DEF Stays, NoneLeft
<1>3. Steps(t) \subseteq 0..Len(Route[t]) /\ 0 \in 0..Len(Route[t])
  BY RouteType DEF Steps
<1>4. ASSUME NEW i \in Steps(t), OnBridge(t, i)
      PROVE  OnBridge(t, i)'
  <2>1. PICK tx \in transit : Bridged(t) = {tx} /\ tx.spend = Amount /\ tx.step = i
    BY <1>4 DEF OnBridge
  <2>2. Bridged(t)' = {tx}
    BY <2>1 DEF Stays
  <2>3. tx \in transit'
    BY <2>2 DEF Bridged
  <2>4. QED
    BY <1>1, <1>2, <1>3, <1>4, <2>1, <2>2, <2>3 DEF OnBridge, Stays
<1>5. ASSUME NEW i \in 0..Len(Route[t]), OnAccount(t, i)
      PROVE  OnAccount(t, i)'
  BY <1>1, <1>5 DEF OnAccount, Stays
<1>6. Unclaimed(t) => Unclaimed(t)'
  BY <1>1, <1>2, <1>3 DEF Unclaimed, Stays
<1>7. QED
  BY <1>4, <1>5, <1>6

LEMMA StaysInOnePiece ==
    ASSUME NEW t \in Tasks, InOnePiece(t), Stays(t)
    PROVE  InOnePiece(t)'
<1>1. Steps(t) \subseteq 0..Len(Route[t]) /\ 0 \in 0..Len(Route[t])
  BY RouteType DEF Steps
<1>2. QED
  BY <1>1, StaysInPlace DEF InOnePiece

LEMMA GoesOnInOnePiece ==
    ASSUME NEW t \in Tasks, GoesOn(t)
    PROVE  InOnePiece(t)'
  BY RouteType DEF GoesOn, SentOn, InOnePiece

\* What is at a place of the route is the deposit or nothing.
LEMMA BalanceAllOrNothing ==
    ASSUME NEW t \in Tasks, InOnePiece(t), NEW j \in 0..Len(Route[t])
    PROVE  bal[t][j] \in {0, Amount}
  BY DEF InOnePiece, Unclaimed, OnAccount, OnBridge, AllAt, NoneLeft

\* At most one deposit moves, and that along its route.
Travel ==
    \A t \in Tasks : \/ Stays(t)
                     \/ GoesOn(t) /\ \A u \in Tasks \ {t} : Stays(u)

\* A successful claim.
LEMMA ClaimMoves ==
    ASSUME ChainsTypeOK, NEW t \in Tasks, Unclaimed(t), NEW tx \in Tx, tx.task = t,
           tx.kind = "claim", Spends(Source(t), tx), Effects(tx), ClaimedOnChain(t)',
           \A j \in Steps(t) : TookFunds(t, j)' <=> TookFunds(t, j) \/ (tx.step = j /\ tx.spend > 0)
    PROVE  GoesOn(t)
<1> DEFINE L == Len(Route[t])
           step == IF Source(t) \in Evm THEN 1 ELSE 0
           spend == IF Source(t) \in Evm THEN Amount ELSE 0
<1>1. /\ tx.step = step /\ tx.spend = spend /\ Amount \in Nat \ {0}
      /\ L \in Nat \ {0} /\ Steps(t) = 1..L /\ bal[t] \in [0..L -> Nat]
  BY RouteType DEF Spends, Steps, ChainsTypeOK
<1>2. /\ \A j \in Steps(t) : ~TookFunds(t, j)
      /\ \A j \in 0..L : bal[t][j] = 0
      /\ Bridged(t) = {}
  BY <1>1 DEF Unclaimed, TookUpTo, NoneLeft
<1>3. bal'[t] = [i \in 0..L |-> (bal[t][i] + Credit(tx, i)) - Debit(tx, i)]
  BY <1>1 DEF Effects, ChainsTypeOK
<1>4. /\ step > 0 /\ Bridge(t, step) => transit' = transit \cup {tx}
      /\ ~(step > 0 /\ Bridge(t, step)) => transit' = transit
  BY <1>1 DEF Effects
<1>5. CASE Source(t) \notin Evm
  <2>1. \A j \in 0..L : bal'[t][j] = IF j = 0 THEN Amount ELSE 0
    BY <1>1, <1>2, <1>3, <1>5 DEF Credit, Debit
  <2>2. Bridged(t)' = {}
    BY <1>1, <1>2, <1>4, <1>5 DEF Bridged
  <2>3. TookUpTo(t, 0)'
    BY <1>1, <1>2, <1>5 DEF TookUpTo
  <2>4. QED
    BY <1>5, <2>1, <2>2, <2>3 DEF GoesOn, OnAccount, AllAt
<1>6. CASE Source(t) \in Evm
  <2>1. TookUpTo(t, 1)'
    BY <1>1, <1>2, <1>6 DEF TookUpTo
  <2>2. CASE Bridge(t, 1)
    <3>1. \A j \in 0..L : bal'[t][j] = 0
      BY <1>1, <1>2, <1>3, <1>6, <2>2 DEF Credit, Debit
    <3>2. Bridged(t)' = {tx} /\ tx \in transit'
      BY <1>1, <1>2, <1>4, <1>6, <2>2 DEF Bridged
    <3>3. OnBridge(t, 1)'
      BY <1>1, <1>6, <2>1, <2>2, <3>1, <3>2 DEF OnBridge, NoneLeft
    <3>4. QED
      BY <1>6, <2>2, <3>3 DEF GoesOn, SentOn
  <2>3. CASE ~Bridge(t, 1)
    <3>1. ASSUME NEW j \in 0..L
          PROVE  bal'[t][j] = IF j = 1 THEN Amount ELSE 0
      <4>1. /\ Credit(tx, j) = (IF j = 0 THEN Amount ELSE 0) + (IF j = 1 THEN Amount ELSE 0)
            /\ Debit(tx, j) = IF j = 0 THEN Amount ELSE 0
        BY <1>1, <1>6, <2>3 DEF Credit, Debit
      <4>2. bal'[t][j] = (0 + Credit(tx, j)) - Debit(tx, j)
        BY <1>2, <1>3
      <4>3. QED
        BY <1>1, <4>1, <4>2
    <3>2. Bridged(t)' = {}
      BY <1>1, <1>2, <1>4, <1>6, <2>3 DEF Bridged
    <3>3. OnAccount(t, 1)'
      BY <2>1, <3>1, <3>2 DEF OnAccount, AllAt
    <3>4. QED
      BY <1>6, <2>3, <3>3 DEF GoesOn, SentOn
  <2>4. QED
    BY <2>2, <2>3
<1>7. QED
  BY <1>5, <1>6

\* A successful step that spends the deposit.
LEMMA StepMoves ==
    ASSUME ChainsTypeOK, NEW t \in Tasks, InOnePiece(t), NEW tx \in Tx, tx.task = t,
           NEW i \in Steps(t), tx.step = i, tx.kind = "step", tx.spend = Amount,
           Executable(tx), Effects(tx), ClaimedOnChain(t)' <=> ClaimedOnChain(t),
           \A j \in Steps(t) : TookFunds(t, j)' <=> TookFunds(t, j) \/ i = j
    PROVE  GoesOn(t)
<1> DEFINE L == Len(Route[t])
<1>1. /\ Amount \in Nat \ {0} /\ L \in Nat \ {0} /\ Steps(t) = 1..L
      /\ bal[t] \in [0..L -> Nat] /\ i \in Nat \ {0} /\ i - 1 \in 0..L /\ i \in 0..L
  <2>1. L \in Nat \ {0} /\ Steps(t) = 1..L
    BY RouteType DEF Steps
  <2>2. i \in 1..L
    BY <2>1
  <2>3. i \in Nat \ {0} /\ i - 1 \in 0..L /\ i \in 0..L
    BY <2>1, <2>2
  <2>4. bal[t] \in [0..L -> Nat]
    BY DEF ChainsTypeOK
  <2>5. QED
    BY <2>1, <2>3, <2>4
<1>2. bal[t][i - 1] >= Amount
  BY DEF Executable
<1>3. OnAccount(t, i - 1)
  <2>1. ~NoneLeft(t)
    BY <1>1, <1>2 DEF NoneLeft
  <2>2. PICK j \in 0..L : OnAccount(t, j)
    BY <1>1, <2>1 DEF InOnePiece, Unclaimed, OnBridge
  <2>3. j = i - 1
    BY <1>1, <1>2, <2>2 DEF OnAccount, AllAt
  <2>4. QED
    BY <2>2, <2>3
<1>4. /\ ClaimedOnChain(t) /\ Bridged(t) = {}
      /\ \A j \in Steps(t) : TookFunds(t, j) <=> j <= i - 1
      /\ \A j \in 0..L : bal[t][j] = IF j = i - 1 THEN Amount ELSE 0
  BY <1>3 DEF OnAccount, TookUpTo, AllAt
<1>5. bal'[t] = [j \in 0..L |-> (bal[t][j] + Credit(tx, j)) - Debit(tx, j)]
  BY <1>1 DEF Effects, ChainsTypeOK
<1>6. transit' = IF Bridge(t, i) THEN transit \cup {tx} ELSE transit
  BY <1>1 DEF Effects
<1>7. TookUpTo(t, i)'
  BY <1>1, <1>4 DEF TookUpTo
<1>8. CASE Bridge(t, i)
  <2>1. \A j \in 0..L : bal'[t][j] = 0
    BY <1>1, <1>4, <1>5, <1>8 DEF Credit, Debit
  <2>2. Bridged(t)' = {tx} /\ tx \in transit'
    BY <1>1, <1>4, <1>6, <1>8 DEF Bridged
  <2>3. OnBridge(t, i)'
    BY <1>4, <1>7, <1>8, <2>1, <2>2 DEF OnBridge, NoneLeft
  <2>4. QED
    BY <1>3, <1>8, <2>3 DEF GoesOn, SentOn
<1>9. CASE ~Bridge(t, i)
  <2>1. ASSUME NEW j \in 0..L
        PROVE  bal'[t][j] = IF j = i THEN Amount ELSE 0
    <3>1. /\ Credit(tx, j) = 0 + (IF j = i THEN Amount ELSE 0)
          /\ Debit(tx, j) = IF j = i - 1 THEN Amount ELSE 0
      BY <1>1, <1>9 DEF Credit, Debit
    <3>2. bal'[t][j] = (bal[t][j] + Credit(tx, j)) - Debit(tx, j)
      BY <1>5
    <3>3. QED
      BY <1>1, <1>4, <3>1, <3>2
  <2>2. Bridged(t)' = {}
    BY <1>4, <1>6, <1>9 DEF Bridged
  <2>3. OnAccount(t, i)'
    BY <1>4, <1>7, <2>1, <2>2 DEF OnAccount, AllAt
  <2>4. QED
    BY <1>3, <1>9, <2>3 DEF GoesOn, SentOn
<1>10. QED
  BY <1>8, <1>9

\* What a transaction does to tasks that are not its own, and what one without funds does.
LEMMA OthersStay ==
    ASSUME ChainsTypeOK, NEW tx \in Tx, Effects(tx), NEW t \in Tasks,
           tx.task # t \/ (tx.spend = 0 /\ tx.kind # "claim"),
           \A j \in Steps(t) : TookFunds(t, j)' <=> TookFunds(t, j),
           ClaimedOnChain(t)' <=> ClaimedOnChain(t)
    PROVE  Stays(t)
<1> DEFINE L == Len(Route[t])
<1>1. /\ L \in Nat /\ bal[t] \in [0..L -> Nat] /\ tx.spend \in Nat
      /\ bal = [u \in Tasks |-> bal[u]]
  BY RouteType DEF ChainsTypeOK, Tx
<1>2. transit' = transit \/ transit' = transit \cup {tx}
  BY DEF Effects
<1>3. Bridged(t)' = Bridged(t)
  BY <1>1, <1>2 DEF Bridged
<1>4. \A j \in 0..L : bal'[t][j] = bal[t][j]
  <2>1. CASE tx.task # t
    BY <1>1, <2>1 DEF Effects
  <2>2. CASE tx.task = t /\ tx.spend = 0 /\ tx.kind # "claim"
    <3>1. \A j \in 0..L : Credit(tx, j) = 0 /\ Debit(tx, j) = 0
      BY <1>1, <2>2 DEF Credit, Debit
    <3>2. bal'[t] = bal[t] \/ bal'[t] = [j \in 0..L |-> (bal[t][j] + Credit(tx, j)) - Debit(tx, j)]
      BY <1>1, <2>2 DEF Effects
    <3>3. QED
      BY <1>1, <3>1, <3>2
  <2>3. QED
    BY <2>1, <2>2
<1>5. QED
  BY <1>3, <1>4 DEF Stays

LEMMA MineTravels ==
    ASSUME ChainsTypeOK, \A t \in Tasks : InOnePiece(t),
           NEW c \in Chains, NEW tx \in pool[c], Spends(c, tx), Mine(c, tx)
    PROVE  Travel
<1>1. tx \in Tx /\ tx.spend \in Nat /\ Amount \in Nat \ {0}
  BY DEF ChainsTypeOK, Tx
<1>2. PICK ok \in BOOLEAN :
         /\ \A t \in Tasks : \A j \in Steps(t) :
               TookFunds(t, j)' <=> \/ TookFunds(t, j)
                                    \/ /\ ok /\ c = Src(t, j)
                                       /\ tx.task = t /\ tx.step = j /\ tx.spend > 0
         /\ \A t \in Tasks :
               ClaimedOnChain(t)' <=> \/ ClaimedOnChain(t)
                                      \/ ok /\ c = Source(t) /\ tx.task = t /\ tx.kind = "claim"
         /\ IF ok THEN Executable(tx) /\ Effects(tx) ELSE UNCHANGED <<bal, transit>>
  BY MineResult
<1>3. CASE ~ok
  BY <1>2, <1>3 DEF Travel, Stays, Bridged
<1>4. CASE ok
  <2>1. ASSUME NEW t \in Tasks, tx.task # t
        PROVE  Stays(t)
    BY <1>1, <1>2, <1>4, <2>1, OthersStay
  <2>2. ASSUME NEW t \in Tasks, tx.task = t
        PROVE  Stays(t) \/ GoesOn(t)
    <3>1. CASE tx.kind = "claim"
      <4>1. c = Source(t) /\ ~ClaimedOnChain(t)
        BY <1>2, <1>4, <2>2, <3>1 DEF Spends, Executable, Active
      <4>2. Unclaimed(t)
        BY <4>1 DEF InOnePiece, OnAccount, OnBridge
      <4>3. \A j \in Steps(t) : tx.step = j => c = Src(t, j)
        BY <2>2, <3>1, <4>1, RouteType DEF Spends, Source
      <4>4. GoesOn(t)
        BY <1>1, <1>2, <1>4, <2>2, <3>1, <4>1, <4>2, <4>3, ClaimMoves
      <4>5. QED
        BY <4>4
    <3>2. CASE tx.kind = "step" /\ tx.spend = Amount
      <4>1. tx.step \in Steps(t) /\ c = Src(t, tx.step)
        BY <2>2, <3>2 DEF Spends
      <4>2. GoesOn(t)
        BY <1>1, <1>2, <1>4, <2>2, <3>2, <4>1, StepMoves
      <4>3. QED
        BY <4>2
    <3>3. CASE tx.kind # "claim" /\ tx.spend = 0
      BY <1>1, <1>2, <1>4, <3>3, OthersStay
    <3>4. QED
      BY <3>1, <3>2, <3>3 DEF Spends
  <2>3. QED
    BY <2>1, <2>2 DEF Travel
<1>5. QED
  BY <1>3, <1>4

\* Bridged funds arrive.
LEMMA ArriveTravels ==
    ASSUME ChainsTypeOK, \A t \in Tasks : InOnePiece(t), NEW tx \in transit, Arrive(tx)
    PROVE  Travel
<1>1. /\ tx.spend \in Nat /\ Amount \in Nat \ {0} /\ bal = [u \in Tasks |-> bal[u]]
      /\ UNCHANGED mined
      /\ transit' = transit \ {tx} /\ bal' = [bal EXCEPT ![tx.task][tx.step] = @ + tx.spend]
  BY DEF ChainsTypeOK, Tx, Arrive
<1>2. \A t \in Tasks : /\ \A j \in Steps(t) : TookFunds(t, j)' <=> TookFunds(t, j)
                       /\ ClaimedOnChain(t)' <=> ClaimedOnChain(t)
  BY <1>1 DEF TookFunds, ClaimedOnChain
<1>3. ASSUME NEW t \in Tasks, tx.task # t \/ tx.spend = 0
      PROVE  Stays(t)
  <2>1. bal[t] \in [0..Len(Route[t]) -> Nat]
    BY DEF ChainsTypeOK
  <2>2. \A j \in 0..Len(Route[t]) : bal'[t][j] = bal[t][j]
    <3>1. CASE tx.task # t
      BY <1>1, <3>1
    <3>2. CASE tx.task = t /\ tx.spend = 0
      <4>1. bal'[t] = [bal[t] EXCEPT ![tx.step] = @ + 0]
        BY <1>1, <3>2
      <4>2. QED
        BY <2>1, <4>1
    <3>3. QED
      BY <1>3, <3>1, <3>2
  <2>3. Bridged(t)' = Bridged(t)
    BY <1>1, <1>3 DEF Bridged
  <2>4. QED
    BY <1>2, <2>2, <2>3 DEF Stays
<1>4. ASSUME NEW t \in Tasks, tx.task = t, tx.spend > 0
      PROVE  GoesOn(t)
  <2> DEFINE L == Len(Route[t])
  <2>1. tx \in Bridged(t)
    BY <1>4 DEF Bridged
  <2>2. PICK i \in Steps(t) : OnBridge(t, i)
    BY <2>1 DEF InOnePiece, Unclaimed, OnAccount
  <2>3. /\ Bridged(t) = {tx} /\ tx.spend = Amount /\ tx.step = i /\ NoneLeft(t)
        /\ TookUpTo(t, i) /\ ClaimedOnChain(t)
    BY <2>1, <2>2 DEF OnBridge
  <2>4. i \in 0..L /\ L \in Nat /\ bal[t] \in [0..L -> Nat] /\ \A j \in 0..L : bal[t][j] = 0
    BY <2>3, RouteType DEF Steps, NoneLeft, ChainsTypeOK
  <2>5. bal'[t] = [bal[t] EXCEPT ![i] = @ + Amount]
    BY <1>1, <1>4, <2>3
  <2>6. \A j \in 0..L : bal'[t][j] = IF j = i THEN Amount ELSE 0
    <3>1. \A j \in 0..L : j # i => bal'[t][j] = bal[t][j]
      BY <2>4, <2>5
    <3>2. bal'[t][i] = bal[t][i] + Amount
      BY <2>4, <2>5
    <3>3. 0 + Amount = Amount
      BY <1>1
    <3>4. QED
      BY <2>4, <3>1, <3>2, <3>3
  <2>7. Bridged(t)' = {}
    BY <1>1, <2>3 DEF Bridged
  <2>8. TookUpTo(t, i)' /\ ClaimedOnChain(t)'
    BY <1>2, <2>3 DEF TookUpTo
  <2>9. OnAccount(t, i)'
    BY <2>6, <2>7, <2>8 DEF OnAccount, AllAt
  <2>10. QED
    BY <2>2, <2>9 DEF GoesOn
<1>5. QED
  BY <1>1, <1>3, <1>4 DEF Travel

-----------------------------------------------------------------------------
(***************************************************************************)
(* The amounts in the copies, the documents and the transactions.          *)
(***************************************************************************)

\* The updates of amounts.
LEMMA AmountsUpdated ==
    ASSUME NEW t \in Tasks, NEW r \in Task(t), AllOrNothing(t, r), NEW i \in Steps(t),
           NEW n \in {0, Amount}
    PROVE  /\ [r EXCEPT !.spend[i] = n] \in Task(t)
           /\ AllOrNothing(t, [r EXCEPT !.spend[i] = n])
           /\ [r EXCEPT !.origin[i] = n] \in Task(t)
           /\ AllOrNothing(t, [r EXCEPT !.origin[i] = n])
<1>1. n \in Nat
  OBVIOUS
<1>2. /\ [r EXCEPT !.spend[i] = n] \in Task(t)
      /\ [r EXCEPT !.origin[i] = n] \in Task(t)
  BY <1>1, UpdateType
<1>3. /\ [r EXCEPT !.spend[i] = n].spend = [r.spend EXCEPT ![i] = n]
      /\ [r EXCEPT !.spend[i] = n].origin = r.origin
      /\ [r EXCEPT !.origin[i] = n].origin = [r.origin EXCEPT ![i] = n]
      /\ [r EXCEPT !.origin[i] = n].spend = r.spend
      /\ r.spend = [j \in Steps(t) |-> r.spend[j]]
      /\ r.origin = [j \in Steps(t) |-> r.origin[j]]
  BY DEF Task
<1>4. /\ [r.spend EXCEPT ![i] = n][i] = n
      /\ \A j \in Steps(t) : [r.spend EXCEPT ![i] = n][j] \in {0, Amount}
      /\ \A j \in Steps(t) : [r.origin EXCEPT ![i] = n][j] \in {0, Amount, NoBalance}
  BY <1>3 DEF AllOrNothing
<1>5. QED
  BY <1>2, <1>3, <1>4 DEF AllOrNothing

\* The query goes on with amounts that are all or nothing, and claims with all.
KeepsAmounts(s) ==
    /\ AllOrNothing(job[s], rec'[s])
    /\ pc'[s] = "sendClaim" /\ Source(job[s]) \in Evm => rec'[s].spend[1] = Amount

LEMMA GotoAmounts ==
    ASSUME TypeOK, NEW s \in Sessions, NEW p, NEW q, Goto(s, p, q), AllOrNothing(job[s], q),
           p = "sendClaim" /\ Source(job[s]) \in Evm => q.spend[1] = Amount
    PROVE  KeepsAmounts(s)
  BY GotoOthers DEF KeepsAmounts

LEMMA FailAmounts ==
    ASSUME TypeOK, NEW s \in Sessions, NEW q, Fail(s, q), AllOrNothing(job[s], q)
    PROVE  KeepsAmounts(s) \/ Return(s)
  BY GotoAmounts DEF Fail

LEMMA CopyStepAmounts ==
    ASSUME TypeOK, NEW s \in Sessions, CopyStep(s), InOnePiece(job[s]),
           AllOrNothing(job[s], rec[s])
    PROVE  KeepsAmounts(s) \/ Return(s)
<1> DEFINE t == job[s]
           r == rec[s]
           i == r.execute_index
<1>1. t \in Tasks /\ r \in Task(t) /\ AllOrNothing(t, r)
  BY CopyStepMoves, CopyType
<1>2. i \in Steps(t) /\ 1 \in Steps(t) /\ Steps(t) \subseteq 0..Len(Route[t])
  BY <1>1, RouteType DEF Task, Steps
<1>3. \A j \in 0..Len(Route[t]) : bal[t][j] \in {0, Amount}
  BY <1>1, BalanceAllOrNothing
<1>4. \A a, b, c : /\ AllOrNothing(t, [r EXCEPT !.status = a, !.at = b])
                   /\ AllOrNothing(t, [r EXCEPT !.execute_index = c, !.retry_counter = b])
                   /\ AllOrNothing(t, [r EXCEPT !.retry_counter = b])
  BY <1>1 DEF AllOrNothing, Task
<1> HIDE DEF t, r, i
<1>5. CASE CheckClaimed(s)
  BY <1>1, <1>5, GotoAmounts, FailAmounts DEF CheckClaimed, t, r
<1>6. CASE Claim(s)
  <2>0. PICK all, seen : /\ all = Amount /\ seen = bal[t][1]
                         /\ all \in {0, Amount} /\ seen \in {0, Amount}
    BY <1>2, <1>3
  <2> DEFINE spent  == [r EXCEPT !.spend[1] = all]
             synced == [spent EXCEPT !.origin[1] = seen]
  <2>1. spent.spend[1] = all /\ synced.spend[1] = all
    BY <1>1, <1>2 DEF Task
  <2>2. spent \in Task(t) /\ AllOrNothing(t, spent)
    BY <1>1, <1>2, <2>0, AmountsUpdated
  <2> HIDE DEF spent
  <2>3. AllOrNothing(t, synced)
    BY <1>1, <1>2, <2>0, <2>2, AmountsUpdated
  <2>4. \/ Source(t) \notin Evm /\ Goto(s, "sendClaim", r)
        \/ Goto(s, "sendClaim", synced) \/ Fail(s, synced) \/ Fail(s, spent)
    BY <1>6, <2>0 DEF Claim, spent, t, r
  <2> HIDE DEF synced
  <2>5. QED
    BY <1>1, <2>0, <2>1, <2>2, <2>3, <2>4, GotoAmounts, FailAmounts DEF t
<1>7. CASE SendClaim(s)
  <2>1. AllOrNothing(t, Claimed(t, r))
    <3>1. AllOrNothing(t, [r EXCEPT !.nonce[1] = r.claim_nonce])
      BY <1>1 DEF AllOrNothing, Task
    <3>2. AllOrNothing(t, [r EXCEPT !.spend[1] = Amount])
      BY <1>1, <1>2, AmountsUpdated
    <3>3. QED
      BY <3>1, <3>2 DEF Claimed
  <2>2. Goto(s, "save", Claimed(t, r)) \/ Fail(s, r)
    BY <1>7 DEF SendClaim, t, r
  <2>3. QED
    BY <1>1, <2>1, <2>2, GotoAmounts, FailAmounts DEF t
<1>8. CASE CheckStep(s)
  <2>1. \/ Fail(s, r)
        \/ Goto(s, "destroy", [r EXCEPT !.status = "Completed", !.at = 0])
        \/ Goto(s, "settle", [r EXCEPT !.execute_index = r.execute_index + 1,
                                       !.retry_counter = 0])
        \/ Goto(s, "canRun", [r EXCEPT !.retry_counter = r.retry_counter + 1])
    BY <1>8 DEF CheckStep, t, r
  <2>2. QED
    BY <1>1, <1>4, <2>1, GotoAmounts, FailAmounts DEF t
<1>9. CASE Settle(s)
  <2> DEFINE now == bal[t][i - 1]
             before == r.origin[i - 1]
             amount == IF now > before THEN now - before ELSE 0
  <2>1. i - 1 \in Steps(t)
    BY <1>1, <1>2, <1>9, RouteType DEF Steps, Settle, TypeOK, r, i
  <2>2. now \in {0, Amount} /\ before \in {0, Amount, NoBalance}
    BY <1>1, <1>2, <1>3, <2>1 DEF AllOrNothing
  <2>3. before # NoBalance => amount \in {0, Amount}
    BY <2>2
  <2>4. Fail(s, r) \/ (before # NoBalance /\ Goto(s, "canRun", [r EXCEPT !.spend[i] = amount]))
    BY <1>9 DEF Settle, t, r, i
  <2> HIDE DEF amount, before, now
  <2>5. before # NoBalance => AllOrNothing(t, [r EXCEPT !.spend[i] = amount])
    BY <1>1, <1>2, <2>3, AmountsUpdated
  <2>6. QED
    BY <1>1, <2>4, <2>5, GotoAmounts, FailAmounts DEF t
<1>10. CASE CanRun(s)
  BY <1>1, <1>4, <1>10, GotoAmounts DEF CanRun, t, r
<1>11. CASE Run(s)
  <2> DEFINE synced == [r EXCEPT !.origin[i] = bal[t][i]]
  <2>1. AllOrNothing(t, synced)
    BY <1>1, <1>2, <1>3, AmountsUpdated
  <2>2. Goto(s, "send", synced) \/ Fail(s, synced)
    BY <1>11 DEF Run, t, r, i
  <2> HIDE DEF synced
  <2>3. QED
    BY <1>1, <2>1, <2>2, GotoAmounts, FailAmounts DEF t
<1>12. CASE SendStep(s)
  BY <1>1, <1>12, GotoAmounts, FailAmounts DEF SendStep, t, r
<1>13. CASE Destroy(s) \/ DeleteWorker(s)
  BY <1>1, <1>13, GotoAmounts DEF Destroy, DeleteWorker, t, r
<1>14. CASE RpcError(s)
  BY <1>1, <1>14, FailAmounts DEF RpcError, t, r
<1>15. QED
  BY <1>5, <1>6, <1>7, <1>8, <1>9, <1>10, <1>11, <1>12, <1>13, <1>14 DEF CopyStep

\* The copy of the query that makes the step.
LEMMA OwnCopyAmounts ==
    ASSUME TypeOK, FundsInv, NEW s \in Sessions, QueryStep(s),
           NEW u, u = job'[s], NEW q, q = rec'[s]
    PROVE  /\ pc'[s] \in Holding \cup {"insertTask"} => AllOrNothing(u, q)
           /\ pc'[s] = "sendClaim" /\ Source(u) \in Evm => q.spend[1] = Amount
<1>1. "sendClaim" \in Holding
  BY DEF Holding
<1>2. CASE CopyStep(s) /\ pc[s] \in Holding /\ Moves(s)
  <2>1. job[s] \in Tasks /\ AllOrNothing(job[s], rec[s]) /\ InOnePiece(job[s])
    BY <1>2, CopyType DEF FundsInv
  <2>2. KeepsAmounts(s) \/ Return(s)
    BY <1>2, <2>1, CopyStepAmounts
  <2>3. pc'[s] # "idle"
    BY <1>2 DEF Moves, Holding
  <2>4. QED
    BY <1>2, <2>2, <2>3, ReturnOthers DEF Moves, Goto, KeepsAmounts
<1>3. CASE pc'[s] = "insertTask" /\ job'[s] = job[s] /\ rec'[s] = NewTask(job[s])
  BY <1>3 DEF AllOrNothing, NewTask
<1>4. CASE /\ pc'[s] \in {"claimed", "reapply"} /\ job'[s] \in Tasks
           /\ taskDoc[job'[s]] # NoDoc /\ rec'[s] = taskDoc[job'[s]]
  BY <1>4 DEF FundsInv
<1>5. CASE /\ pc[s] = "reapply" /\ pc'[s] = "canRun" /\ job'[s] = job[s]
           /\ rec'[s].spend = rec[s].spend /\ rec'[s].origin = rec[s].origin
  <2>1. AllOrNothing(u, rec[s])
    BY <1>5 DEF FundsInv, Holding
  <2>2. QED
    BY <1>5, <2>1 DEF AllOrNothing
<1>6. QED
  BY <1>1, <1>2, <1>3, <1>4, <1>5, OwnCopy

LEMMA QueryAmounts ==
    ASSUME TypeOK, FundsInv, NEW s \in Sessions, QueryStep(s)
    PROVE  /\ \A t \in Tasks : taskDoc'[t] # NoDoc => AllOrNothing(t, taskDoc'[t])
           /\ \A v \in Sessions :
                 /\ pc'[v] \in Holding \cup {"insertTask"} => AllOrNothing(job'[v], rec'[v])
                 /\ pc'[v] = "sendClaim" /\ Source(job'[v]) \in Evm => rec'[v].spend[1] = Amount
<1>1. Others(s)
  BY QueryOthers
<1>2. ASSUME NEW v \in Sessions
      PROVE  /\ pc'[v] \in Holding \cup {"insertTask"} => AllOrNothing(job'[v], rec'[v])
             /\ pc'[v] = "sendClaim" /\ Source(job'[v]) \in Evm => rec'[v].spend[1] = Amount
  <2>1. CASE v = s
    BY <2>1, OwnCopyAmounts
  <2>2. CASE v # s
    BY <1>1, <2>2 DEF Others, FundsInv
  <2>3. QED
    BY <2>1, <2>2
<1>3. ASSUME NEW t \in Tasks, taskDoc'[t] # NoDoc
      PROVE  AllOrNothing(t, taskDoc'[t])
  <2>1. CASE taskDoc'[t] = taskDoc[t]
    BY <1>3, <2>1 DEF FundsInv
  <2>2. CASE pc[s] \in {"insertTask", "save"} /\ t = job[s] /\ taskDoc'[t] = rec[s]
    BY <2>2 DEF FundsInv, Holding
  <2>3. QED
    BY <2>1, <2>2, QueryDocs
<1>4. QED
  BY <1>2, <1>3

\* A query leaves the funds where they are and only sends what spends all or nothing.
LEMMA QuerySpends ==
    ASSUME TypeOK, FundsInv, NEW s \in Sessions, QueryStep(s)
    PROVE  /\ UNCHANGED <<mined, bal, transit>>
           /\ \A c \in Chains : \A tx \in Sent(c)' : Spends(c, tx)
<1>1. ChainsTypeOK /\ \A c \in Chains : \A tx \in Sent(c) : Spends(c, tx)
  BY TypeParts DEF FundsInv
<1>2. CASE SendClaim(s)
  <2>1. PICK t, r : t = job[s] /\ r = rec[s]
    OBVIOUS
  <2>2. PICK tx : tx = ClaimTx(t, r)
    OBVIOUS
  <2>3. t \in Tasks /\ Source(t) \in Chains /\ (Source(t) \in Evm => r.spend[1] = Amount)
    BY <1>2, <2>1, CopyType, RouteType DEF SendClaim, Holding, FundsInv
  <2>4. Spends(Source(t), tx)
    BY <2>2, <2>3 DEF Spends, ClaimTx
  <2>5. Accepts(Source(t), tx) \/ Refuses(Source(t), tx)
    BY <1>2, <2>1, <2>2 DEF SendClaim
  <2>6. UNCHANGED <<mined, bal, transit>>
    BY <2>5 DEF Accepts, Refuses, chainVars
  <2>7. QED
    BY <1>1, <2>3, <2>4, <2>5, <2>6, AcceptsSent
<1>3. CASE SendStep(s)
  <2>1. PICK t, r : t = job[s] /\ r = rec[s]
    OBVIOUS
  <2>2. PICK tx, c : tx = StepTx(t, r) /\ c = Src(t, r.execute_index)
    OBVIOUS
  <2>3. t \in Tasks /\ r \in Task(t) /\ AllOrNothing(t, r)
    BY <1>3, <2>1, CopyType DEF SendStep, Holding, FundsInv
  <2>4. r.execute_index \in Steps(t) /\ c \in Chains
    BY <2>2, <2>3, RouteType DEF Task
  <2>5. Spends(c, tx)
    BY <2>2, <2>3, <2>4 DEF Spends, StepTx, AllOrNothing
  <2>6. Accepts(c, tx) \/ Refuses(c, tx)
    BY <1>3, <2>1, <2>2 DEF SendStep
  <2>7. UNCHANGED <<mined, bal, transit>>
    BY <2>6 DEF Accepts, Refuses, chainVars
  <2>8. QED
    BY <1>1, <2>4, <2>5, <2>6, <2>7, AcceptsSent
<1>4. CASE UNCHANGED chainVars
  BY <1>1, <1>4 DEF chainVars, Sent
<1>5. QED
  BY <1>2, <1>3, <1>4
  DEF QueryStep, FetchStep, CopyStep, ExecuteStep, FetchTask, InitTask, ApplyNonce, InsertTask,
      InsertWorker, CheckClaimed, Claim, CheckStep, Settle, CanRun, Run, Destroy, DeleteWorker,
      RpcError, ExecuteTask, ReadTask, SaveTask, Abort, RetryTask, ReapplyNonce, Start

\* Governance spends nothing.
LEMMA OwnerSpends ==
    ASSUME TypeOK, FundsInv, OwnerStep
    PROVE  /\ UNCHANGED <<mined, bal, transit>>
           /\ \A c \in Chains : \A tx \in Sent(c)' : Spends(c, tx)
<1>1. ChainsTypeOK /\ \A c \in Chains : \A tx \in Sent(c) : Spends(c, tx)
  BY TypeParts DEF FundsInv
<1>2. ASSUME NEW c \in Chains, NEW kind \in {"approve", "drop"}, NEW t, OwnerSends(c, kind, t)
      PROVE  /\ UNCHANGED <<mined, bal, transit>>
             /\ \A d \in Chains : \A tx \in Sent(d)' : Spends(d, tx)
  <2>1. PICK tx : tx = [kind |-> kind, task |-> t, step |-> 0, spend |-> 0,
                        nonce |-> Len(mined[c])]
    OBVIOUS
  <2>2. Spends(c, tx) /\ (Accepts(c, tx) \/ Refuses(c, tx))
    BY <1>2, <2>1 DEF Spends, OwnerSends
  <2>3. UNCHANGED <<mined, bal, transit>>
    BY <2>2 DEF Accepts, Refuses, chainVars
  <2>4. QED
    BY <1>1, <2>2, <2>3, AcceptsSent
<1>3. ASSUME NEW t \in Tasks, WorkerDropTask(t)
      PROVE  /\ UNCHANGED <<mined, bal, transit>>
             /\ \A d \in Chains : \A tx \in Sent(d)' : Spends(d, tx)
  BY <1>2, <1>3, RouteType DEF WorkerDropTask
<1>4. CASE PauseExecutor \/ ResumeExecutor
  BY <1>1, <1>4 DEF PauseExecutor, ResumeExecutor, chainVars, Sent
<1>5. QED
  BY <1>2, <1>3, <1>4 DEF OwnerStep, WorkerApprove

\* Every step leaves each deposit where it is or takes it to the next place of its route.
LEMMA NextTravels == TypeOK /\ FundsInv /\ [Next]_vars => Travel
<1> SUFFICES ASSUME TypeOK, FundsInv, [Next]_vars PROVE Travel
  OBVIOUS
<1>1. ChainsTypeOK /\ \A t \in Tasks : InOnePiece(t)
  BY TypeParts DEF FundsInv
<1>2. CASE UNCHANGED <<mined, bal, transit>>
  BY <1>2, UnchangedStays DEF Travel
<1>3. ASSUME NEW c \in Chains, NEW tx \in pool[c], Mine(c, tx)
      PROVE  Travel
  <2>1. Spends(c, tx)
    BY DEF FundsInv, Sent
  <2>2. QED
    BY <1>1, <1>3, <2>1, MineTravels
<1>4. CASE ChainStep
  BY <1>1, <1>2, <1>3, <1>4, ArriveTravels DEF ChainStep, Evict, Index
<1>5. CASE UNCHANGED vars
  BY <1>2, <1>5 DEF vars, chainVars
<1>6. QED
  BY <1>2, <1>4, <1>5, NextParts, QuerySpends, OwnerSpends DEF QueryStep

LEMMA InitUnclaimed ==
    ASSUME Init, NEW t \in Tasks
    PROVE  Unclaimed(t)
<1>1. \A c \in Chains : mined[c] = <<>> /\ Len(mined[c]) = 0
  BY DEF Init, ChainsInit
<1>2. ~ClaimedOnChain(t) /\ Bridged(t) = {} /\ NoneLeft(t)
  BY <1>1, RouteType DEF ClaimedOnChain, Bridged, NoneLeft, Init, ChainsInit
<1>3. TookUpTo(t, 0)
  BY <1>1, RouteType DEF TookUpTo, TookFunds
<1>4. QED
  BY <1>2, <1>3 DEF Unclaimed

LEMMA InitFunds == Init => FundsInv
<1> SUFFICES ASSUME Init PROVE FundsInv
  OBVIOUS
<1>1. \A c \in Chains : mined[c] = <<>> /\ pool[c] = {} /\ Len(mined[c]) = 0
  BY DEF Init, ChainsInit
<1>2. \A c \in Chains : Sent(c) = {}
  BY <1>1 DEF Sent
<1>3. QED
  BY <1>2, InitUnclaimed DEF FundsInv, InOnePiece, Init, Holding

LEMMA NextFunds == TypeOK /\ FundsInv /\ [Next]_vars => FundsInv'
<1> SUFFICES ASSUME TypeOK, FundsInv, [Next]_vars PROVE FundsInv'
  OBVIOUS
<1>1. \A t \in Tasks : InOnePiece(t)'
  BY NextTravels, StaysInOnePiece, GoesOnInOnePiece DEF Travel, FundsInv
<1>2. CASE \E s \in Sessions : QueryStep(s)
  BY <1>1, <1>2, QueryAmounts, QuerySpends DEF FundsInv
<1>3. CASE ChainStep \/ OwnerStep \/ UNCHANGED vars
  <2>1. UNCHANGED <<storageVars, sessionVars>>
    BY <1>3 DEF ChainStep, OwnerStep, PauseExecutor, ResumeExecutor, WorkerApprove,
                WorkerDropTask, OwnerSends, vars
  <2>2. \A c \in Chains : \A tx \in Sent(c)' : Spends(c, tx)
    <3>1. CASE ChainStep
      BY <3>1, ChainStepSent, TypeParts DEF FundsInv
    <3>2. CASE UNCHANGED vars
      BY <3>2 DEF FundsInv, vars, chainVars, Sent
    <3>3. QED
      BY <1>3, <3>1, <3>2, OwnerSpends
  <2>3. QED
    BY <1>1, <2>1, <2>2 DEF FundsInv, storageVars, sessionVars
<1>4. QED
  BY <1>2, <1>3, NextParts DEF QueryStep

-----------------------------------------------------------------------------
(***************************************************************************)
(* What the depositor sees.                                                *)
(***************************************************************************)

At(n, place) == [taken |-> n, where |-> place]

\* The place of a deposit in one piece, as Journey names it.
LEMMA PlaceSeen ==
    \A t \in Tasks :
        /\ Unclaimed(t) => Deposit(t) = At(0, "handler")
        /\ \A i \in 0..Len(Route[t]) : OnAccount(t, i) => Deposit(t) = At(i, "account")
        /\ \A i \in Steps(t) : OnBridge(t, i) => Deposit(t) = At(i, "bridge")
<1> SUFFICES ASSUME NEW t \in Tasks
             PROVE  /\ Unclaimed(t) => Deposit(t) = At(0, "handler")
                    /\ \A i \in 0..Len(Route[t]) : OnAccount(t, i) => Deposit(t) = At(i, "account")
                    /\ \A i \in Steps(t) : OnBridge(t, i) => Deposit(t) = At(i, "bridge")
  OBVIOUS
<1>1. PICK L \in Nat : L = Len(Route[t]) /\ Steps(t) = 1..L
  BY RouteType DEF Steps
<1>2. PICK taken : taken = Cardinality({i \in Steps(t) : TookFunds(t, i)})
  OBVIOUS
<1>3. ASSUME NEW i \in 0..L, TookUpTo(t, i)
      PROVE  taken = i
  <2>1. {j \in Steps(t) : TookFunds(t, j)} = 1..i
    BY <1>1, <1>3 DEF TookUpTo
  <2>2. Cardinality(1..i) = i
    BY <1>1, FS_Interval
  <2>3. QED
    BY <1>2, <2>1, <2>2
<1>4. Cardinality({}) = 0 /\ \A x : Cardinality({x}) = 1
  BY FS_EmptySet, FS_Singleton
<1>5. Deposit(t) =
        At(taken,
           CASE ~ClaimedOnChain(t) /\ NoneLeft(t) -> "handler"
             [] ClaimedOnChain(t) /\ Bridged(t) = {} /\ AllAt(t, taken) -> "account"
             [] /\ NoneLeft(t) /\ Cardinality(Bridged(t)) = 1
                /\ \A tx \in Bridged(t) : tx.spend = Amount /\ tx.step = taken -> "bridge"
             [] OTHER -> "scattered")
  BY <1>2 DEF Deposit, At, Bridged
<1>6. ASSUME Unclaimed(t)
      PROVE  Deposit(t) = At(0, "handler")
  <2>1. taken = 0 /\ Cardinality(Bridged(t)) = 0
    BY <1>1, <1>3, <1>4, <1>6 DEF Unclaimed
  <2>2. QED
    BY <1>5, <1>6, <2>1 DEF Unclaimed
<1>7. ASSUME NEW i \in 0..L, OnAccount(t, i)
      PROVE  Deposit(t) = At(i, "account")
  <2>1. taken = i /\ Cardinality(Bridged(t)) = 0
    BY <1>3, <1>4, <1>7 DEF OnAccount
  <2>2. QED
    BY <1>5, <1>7, <2>1 DEF OnAccount
<1>8. ASSUME NEW i \in Steps(t), OnBridge(t, i)
      PROVE  Deposit(t) = At(i, "bridge")
  <2>1. PICK tx : Bridged(t) = {tx} /\ tx.spend = Amount /\ tx.step = i
    BY <1>8 DEF OnBridge
  <2>2. i \in 0..L
    BY <1>1
  <2>3. taken = i
    BY <1>3, <1>8, <2>2 DEF OnBridge
  <2>4. Cardinality(Bridged(t)) = 1
    BY <1>4, <2>1
  <2>5. QED
    BY <1>5, <1>8, <2>1, <2>3, <2>4 DEF OnBridge
<1>9. QED
  BY <1>1, <1>6, <1>7, <1>8

LEMMA PlaceSeenNext ==
    \A t \in Tasks :
        /\ Unclaimed(t)' => Deposit(t)' = At(0, "handler")
        /\ \A i \in 0..Len(Route[t]) : OnAccount(t, i)' => Deposit(t)' = At(i, "account")
        /\ \A i \in Steps(t) : OnBridge(t, i)' => Deposit(t)' = At(i, "bridge")
<1> DEFINE Seen ==
             \A t \in Tasks :
                /\ Unclaimed(t) => Deposit(t) = At(0, "handler")
                /\ \A i \in 0..Len(Route[t]) : OnAccount(t, i) => Deposit(t) = At(i, "account")
                /\ \A i \in Steps(t) : OnBridge(t, i) => Deposit(t) = At(i, "bridge")
<1>1. Seen
  BY PlaceSeen
<1> HIDE DEF Seen
<1>2. Seen'
  BY <1>1, PTL
<1>3. QED
  BY <1>2 DEF Seen, At

\* Journey's places that follow those of the route.
LEMMA OnwardIs ==
    ASSUME NEW t \in Tasks
    PROVE  /\ Promise!Onward(t, At(0, "handler")) =
                {IF Source(t) \notin Evm THEN At(0, "account")
                 ELSE At(1, IF Bridge(t, 1) THEN "bridge" ELSE "account")}
           /\ \A i \in Steps(t) :
                 /\ At(i, IF Bridge(t, i) THEN "bridge" ELSE "account")
                       \in Promise!Onward(t, At(i - 1, "account"))
                 /\ At(i, "account") \in Promise!Onward(t, At(i, "bridge"))
<1>1. /\ 1 \in Steps(t) /\ 0 \notin Steps(t)
      /\ \A i \in Steps(t) : i - 1 + 1 = i /\ i \in 1..Len(Route[t])
  BY RouteType DEF Steps
<1>2. \A i : Promise!After(t, i) = At(i, IF i \in Steps(t) /\ Bridge(t, i) THEN "bridge" ELSE "account")
  BY DEF Promise!After, At
<1>3. Promise!Onward(t, At(0, "handler")) =
                {IF Source(t) \notin Evm THEN At(0, "account")
                 ELSE At(1, IF Bridge(t, 1) THEN "bridge" ELSE "account")}
  BY <1>1, <1>2 DEF Promise!Onward, At
<1>4. ASSUME NEW i \in Steps(t)
      PROVE  /\ At(i, IF Bridge(t, i) THEN "bridge" ELSE "account")
                       \in Promise!Onward(t, At(i - 1, "account"))
             /\ At(i, "account") \in Promise!Onward(t, At(i, "bridge"))
  BY <1>1, <1>2 DEF Promise!Onward, At
<1>5. QED
  BY <1>3, <1>4

LEMMA StaysSeen ==
    ASSUME NEW t \in Tasks, InOnePiece(t), Stays(t)
    PROVE  Deposit(t)' = Deposit(t)
<1>1. Steps(t) \subseteq 0..Len(Route[t]) /\ 0 \in 0..Len(Route[t])
  BY RouteType DEF Steps
<1>2. CASE Unclaimed(t)
  BY <1>2, StaysInPlace, PlaceSeen, PlaceSeenNext
<1>3. ASSUME NEW i \in 0..Len(Route[t]), OnAccount(t, i)
      PROVE  Deposit(t)' = Deposit(t)
  BY <1>3, StaysInPlace, PlaceSeen, PlaceSeenNext
<1>4. ASSUME NEW i \in Steps(t), OnBridge(t, i)
      PROVE  Deposit(t)' = Deposit(t)
  BY <1>4, StaysInPlace, PlaceSeen, PlaceSeenNext
<1>5. QED
  BY <1>1, <1>2, <1>3, <1>4 DEF InOnePiece

LEMMA GoesOnSeen ==
    ASSUME NEW t \in Tasks, GoesOn(t)
    PROVE  Deposit(t)' \in Promise!Onward(t, Deposit(t))
<1>1. /\ 1 \in Steps(t) /\ 0 \in 0..Len(Route[t])
      /\ \A i \in Steps(t) : i \in 0..Len(Route[t]) /\ i - 1 \in 0..Len(Route[t])
  BY RouteType DEF Steps
<1>2. ASSUME NEW i \in Steps(t), SentOn(t, i)
      PROVE  Deposit(t)' = At(i, IF Bridge(t, i) THEN "bridge" ELSE "account")
  BY <1>1, <1>2, PlaceSeenNext DEF SentOn
<1>3. CASE Unclaimed(t) /\ IF Source(t) \in Evm THEN SentOn(t, 1) ELSE OnAccount(t, 0)'
  <2>1. Deposit(t) = At(0, "handler")
    BY <1>3, PlaceSeen
  <2>2. Source(t) \notin Evm => Deposit(t)' = At(0, "account")
    BY <1>1, <1>3, PlaceSeenNext
  <2>3. QED
    BY <1>1, <1>2, <1>3, <2>1, <2>2, OnwardIs
<1>4. ASSUME NEW i \in Steps(t), OnAccount(t, i - 1), SentOn(t, i)
      PROVE  Deposit(t)' \in Promise!Onward(t, Deposit(t))
  BY <1>1, <1>2, <1>4, PlaceSeen, OnwardIs
<1>5. ASSUME NEW i \in Steps(t), OnBridge(t, i), OnAccount(t, i)'
      PROVE  Deposit(t)' \in Promise!Onward(t, Deposit(t))
  BY <1>1, <1>5, PlaceSeen, PlaceSeenNext, OnwardIs
<1>6. QED
  BY <1>3, <1>4, <1>5 DEF GoesOn

\* Whatever fails, overlaps, is cut off, sent again by retry or sent by governance: each
\* deposit stays in one piece and only goes on along its route, from one step to the next
\* (set_spend before the claim, settle and what the contracts execute together).
THEOREM DepositKeepsToRoute == Spec => KeepsToRoute
<1>1. TypeOK /\ FundsInv /\ [Next]_vars
        => [\A t \in Tasks :
              Deposit(t)' = Deposit(t) \/ Deposit(t)' \in Promise!Onward(t, Deposit(t))]_vars
  BY NextTravels, StaysSeen, GoesOnSeen DEF Travel, FundsInv
<1>2. QED
  BY <1>1, InitFunds, NextFunds, TaskTypeCorrect, PTL DEF Spec, KeepsToRoute

-----------------------------------------------------------------------------
(***************************************************************************)
(* A deposit that is at the end of its route stays there, so a declaration *)
(* that was right when it was made stays right, whoever saves it.          *)
(***************************************************************************)

\* Where funds are on an account, the whole deposit is.
LEMMA FundsAt ==
    ASSUME NEW t \in Tasks, InOnePiece(t), NEW j \in 0..Len(Route[t]), bal[t][j] = Amount
    PROVE  OnAccount(t, j)
<1>1. Amount # 0
  OBVIOUS
<1>2. ~NoneLeft(t)
  BY <1>1 DEF NoneLeft
<1>3. Steps(t) \subseteq 0..Len(Route[t]) /\ 0 \in 0..Len(Route[t])
  BY RouteType DEF Steps
<1>4. PICK i \in 0..Len(Route[t]) : OnAccount(t, i)
  BY <1>2, <1>3 DEF InOnePiece, Unclaimed, OnBridge
<1>5. i = j
  BY <1>1, <1>4 DEF OnAccount, AllAt
<1>6. QED
  BY <1>4, <1>5

\* When funds leave the account they have reached with step i, the next step takes them.
LEMMA OnlyNextTakes ==
    ASSUME NEW t \in Tasks, InOnePiece(t), Stays(t) \/ GoesOn(t),
           NEW j \in 0..Len(Route[t]), bal[t][j] = Amount, bal'[t][j] # Amount
    PROVE  j + 1 \in Steps(t) /\ TookFunds(t, j + 1)'
<1>1. OnAccount(t, j) /\ GoesOn(t)
  BY FundsAt DEF Stays
<1>2. Amount # 0 /\ ~NoneLeft(t) /\ ~Unclaimed(t)
  BY <1>1 DEF NoneLeft, Unclaimed, OnAccount
<1>3. PICK i \in Steps(t) : OnAccount(t, i - 1) /\ SentOn(t, i)
  BY <1>1, <1>2 DEF GoesOn, OnBridge
<1>4. i \in Nat /\ i - 1 \in 0..Len(Route[t])
  BY RouteType DEF Steps
<1>5. j = i - 1
  BY <1>1, <1>2, <1>3, <1>4 DEF OnAccount, AllAt
<1>6. TookUpTo(t, i)'
  BY <1>3 DEF SentOn, OnAccount, OnBridge
<1>7. TookFunds(t, i)'
  BY <1>4, <1>6 DEF TookUpTo
<1>8. j + 1 = i
  BY <1>4, <1>5
<1>9. QED
  BY <1>7, <1>8

LEMMA EndKept ==
    ASSUME TypeOK, FundsInv, [Next]_vars, NEW t \in Tasks, AllAt(t, Len(Route[t]))
    PROVE  AllAt(t, Len(Route[t]))'
<1>1. PICK L \in Nat : L = Len(Route[t]) /\ L \in 0..L /\ L + 1 \notin 1..L
  BY RouteType
<1>2. InOnePiece(t) /\ InOnePiece(t)' /\ (Stays(t) \/ GoesOn(t))
  BY NextFunds, NextTravels DEF FundsInv, Travel
<1>3. bal[t][L] = Amount
  BY <1>1 DEF AllAt
<1>4. bal'[t][L] = Amount
  BY <1>1, <1>2, <1>3, OnlyNextTakes DEF Steps
<1>5. Amount # 0 /\ ~NoneLeft(t)'
  BY <1>1, <1>4 DEF NoneLeft
<1>6. Steps(t) \subseteq 0..L /\ 0 \in 0..L
  BY <1>1 DEF Steps
<1>7. PICK i \in 0..L : OnAccount(t, i)'
  BY <1>1, <1>2, <1>5, <1>6 DEF InOnePiece, Unclaimed, OnBridge
<1>8. i = L
  BY <1>1, <1>4, <1>5, <1>7 DEF OnAccount, AllAt
<1>9. QED
  BY <1>1, <1>7, <1>8 DEF OnAccount

\* has_finished only accepts a last step when the deposit is at the end.
LastPays ==
    \A s \in Sessions :
        LET t == job[s]
            r == rec[s]
        IN  /\ pc[s] = "check" /\ IsLast(t, r)
            /\ Finished(t, r) /\ ~MissingOriginReserve(t, r)
            => AllAt(t, Len(Route[t]))

LEMMA OwnCopyPaid ==
    ASSUME TypeOK, PaidInv, LastPays, NEW s \in Sessions, QueryStep(s),
           NEW u, u = job'[s], NEW q, q = rec'[s],
           pc'[s] \in Holding \cup {"insertTask"}, q.status = "Completed"
    PROVE  u \in Tasks /\ AllAt(u, Len(Route[u]))
<1>1. CASE CopyStep(s) /\ pc[s] \in Holding /\ Moves(s)
  <2>1. u = job[s] /\ u \in Tasks /\ Paid(u, rec[s]) /\ pc'[s] # "idle"
    BY <1>1, CopyType DEF PaidInv, Moves, Goto, Holding
  <2>2. Follows(s)
    BY <1>1, <2>1, CopyStepFollows, ReturnOthers
  <2>3. CASE q.status = rec[s].status
    BY <2>1, <2>3 DEF Paid
  <2>4. CASE q.status # rec[s].status
    <3>1. /\ pc[s] = "check" /\ IsLast(u, rec[s])
          /\ Finished(u, rec[s]) /\ ~MissingOriginReserve(u, rec[s])
      BY <2>1, <2>2, <2>4 DEF Follows, Keeps
    <3>2. QED
      BY <2>1, <3>1 DEF LastPays
  <2>5. QED
    BY <2>3, <2>4
<1>2. CASE rec'[s] = NewTask(job[s])
  BY <1>2 DEF NewTask
<1>3. CASE /\ job'[s] \in Tasks /\ taskDoc[job'[s]] # NoDoc /\ rec'[s] = taskDoc[job'[s]]
  BY <1>3 DEF PaidInv, Paid
<1>4. CASE pc[s] = "reapply" /\ job'[s] = job[s] /\ rec'[s].status = rec[s].status
  BY <1>4, CopyType DEF PaidInv, Paid, Holding
<1>5. QED
  BY <1>1, <1>2, <1>3, <1>4, OwnCopy

LEMMA NextPaid == TypeOK /\ FundsInv /\ PaidInv /\ LastPays /\ [Next]_vars => PaidInv'
<1> SUFFICES ASSUME TypeOK, FundsInv, PaidInv, LastPays, [Next]_vars PROVE PaidInv'
  OBVIOUS
<1>1. \A s \in Sessions : pc[s] \in Holding \cup {"insertTask"} => job[s] \in Tasks
  BY DEF TypeOK, Holding
<1>2. CASE UNCHANGED <<taskDoc, pc, job, rec>>
  BY <1>1, <1>2, EndKept DEF PaidInv, Paid
<1>3. ASSUME NEW s \in Sessions, QueryStep(s)
      PROVE  PaidInv'
  <2>1. ASSUME NEW v \in Sessions, NEW u, u = job'[v], NEW q, q = rec'[v],
               pc'[v] \in Holding \cup {"insertTask"}, q.status = "Completed"
        PROVE  AllAt(u, Len(Route[u]))'
    <3>1. CASE v = s
      BY <1>3, <2>1, <3>1, OwnCopyPaid, EndKept
    <3>2. CASE v # s
      <4>1. pc'[v] = pc[v] /\ u = job[v] /\ q = rec[v]
        BY <1>3, <2>1, <3>2, QueryOthers DEF Others
      <4>2. u \in Tasks /\ AllAt(u, Len(Route[u]))
        BY <1>1, <2>1, <4>1 DEF PaidInv, Paid
      <4>3. QED
        BY <4>2, EndKept
    <3>3. QED
      BY <3>1, <3>2
  <2>2. ASSUME NEW t \in Tasks, NEW q, q = taskDoc'[t], q # NoDoc, q.status = "Completed"
        PROVE  AllAt(t, Len(Route[t]))'
    <3>1. CASE q = taskDoc[t]
      BY <2>2, <3>1, EndKept DEF PaidInv, Paid
    <3>2. CASE pc[s] \in {"insertTask", "save"} /\ t = job[s] /\ q = rec[s]
      BY <2>2, <3>2, EndKept DEF PaidInv, Paid, Holding
    <3>3. QED
      BY <1>3, <2>2, <3>1, <3>2, QueryDocs
  <2>3. QED
    BY <2>1, <2>2 DEF PaidInv, Paid
<1>4. CASE ChainStep \/ OwnerStep \/ UNCHANGED vars
  BY <1>2, <1>4 DEF ChainStep, OwnerStep, PauseExecutor, ResumeExecutor, WorkerApprove,
                    WorkerDropTask, OwnerSends, vars, storageVars, sessionVars
<1>5. QED
  BY <1>3, <1>4, NextParts DEF QueryStep

LEMMA InitPaid == Init => PaidInv
  BY DEF Init, PaidInv, Holding

LEMMA PaidIsPaidInFull == PaidInv => PaidInFull
  BY DEF PaidInv, Paid, PaidInFull, AllAt

\* A bridge counts as finished when its funds have arrived.
LEMMA FinishedBridge ==
    ASSUME TypeOK, FundsInv, NEW s \in Sessions, pc[s] = "check",
           NEW t, t = job[s], NEW r, r = rec[s], NEW i, i = r.execute_index,
           Bridge(t, i), Finished(t, r), ~MissingOriginReserve(t, r)
    PROVE  /\ t \in Tasks /\ i \in Steps(t) /\ i \in 0..Len(Route[t])
           /\ r.origin[i] = 0 /\ bal[t][i] = Amount
<1>1. t \in Tasks /\ r \in Task(t) /\ AllOrNothing(t, r)
  BY CopyType DEF Holding, FundsInv
<1>2. i \in Steps(t) /\ i \in 0..Len(Route[t])
  BY <1>1, RouteType DEF Task, Steps
<1>3. bal[t][i] > r.origin[i] /\ r.origin[i] # NoBalance
  BY DEF Finished, MissingOriginReserve
<1>4. bal[t][i] \in {0, Amount} /\ r.origin[i] \in {0, Amount, NoBalance}
  BY <1>1, <1>2, BalanceAllOrNothing DEF AllOrNothing, FundsInv
<1>5. QED
  BY <1>1, <1>2, <1>3, <1>4

LEMMA LastBridgePays ==
    EndsOnBridge /\ TypeOK /\ FundsInv => LastPays
<1> SUFFICES ASSUME EndsOnBridge, TypeOK, FundsInv,
                    NEW s \in Sessions, NEW t, t = job[s], NEW r, r = rec[s],
                    pc[s] = "check", IsLast(t, r),
                    Finished(t, r), ~MissingOriginReserve(t, r)
             PROVE  AllAt(t, Len(Route[t]))
  BY DEF LastPays
<1>1. t \in Tasks /\ r.execute_index = Len(Route[t])
  BY CopyType DEF Holding, IsLast
<1>2. Bridge(t, r.execute_index)
  BY <1>1 DEF EndsOnBridge
<1>3. Len(Route[t]) \in 0..Len(Route[t]) /\ bal[t][Len(Route[t])] = Amount
  BY <1>1, <1>2, FinishedBridge
<1>4. QED
  BY <1>1, <1>3, FundsAt DEF OnAccount, FundsInv

\* Where the last step of every task is a bridge, a completed task has delivered the whole
\* deposit whatever happens, retry and foreign nonces included: has_finished looks at the
\* balance and not only at a receipt.
THEOREM PaidOverBridge == EndsOnBridge => (Spec => []PaidInFull)
<1> SUFFICES ASSUME EndsOnBridge PROVE Spec => []PaidInFull
  OBVIOUS
<1>1. Init => FundsInv /\ PaidInv
  BY InitFunds, InitPaid
<1>2. TypeOK /\ FundsInv /\ PaidInv /\ [Next]_vars => FundsInv' /\ PaidInv'
  BY NextFunds, LastBridgePays, NextPaid
<1>3. QED
  BY <1>1, <1>2, PaidIsPaidInFull, TaskTypeCorrect, PTL DEF Spec

-----------------------------------------------------------------------------
(***************************************************************************)
(* The refinement: what Journey promises is kept by every step as long as  *)
(* completed tasks are paid.                                               *)
(***************************************************************************)

Declared == {t \in Tasks : taskDoc[t] # NoDoc /\ taskDoc[t].status = "Completed"}

LEMMA InitJourney == Init => Promise!Init
<1> SUFFICES ASSUME Init PROVE Promise!Init
  OBVIOUS
<1>1. \A t \in Tasks : Deposit(t) = At(0, "handler")
  BY InitUnclaimed, PlaceSeen
<1>2. Declared = {}
  BY DEF Declared, Init
<1>3. QED
  BY <1>1, <1>2 DEF Promise!Init, At, Declared

\* A document that is written declares its task completed or takes that back.
LEMMA WritingIsDeclaring ==
    ASSUME TypeOK, FundsInv, PaidInFull', \A t \in Tasks : Deposit(t)' = Deposit(t),
           UNCHANGED bal, NEW t \in Tasks, taskDoc'[t] # NoDoc,
           \A u \in Tasks \ {t} : taskDoc'[u] = taskDoc[u]
    PROVE  Promise!Next
<1>1. [u \in Tasks |-> Deposit(u)]' = [u \in Tasks |-> Deposit(u)]
  OBVIOUS
<1>2. CASE taskDoc'[t].status = "Completed"
  <2>1. PICK L : L = Len(Route[t]) /\ L \in 0..L
    BY RouteType
  <2>2. bal[t][L] = Amount
    BY <1>2, <2>1 DEF PaidInFull
  <2>3. OnAccount(t, L)
    BY <2>1, <2>2, FundsAt DEF FundsInv
  <2>4. Deposit(t) = At(L, "account")
    BY <2>1, <2>3, PlaceSeen
  <2>5. Declared' = Declared \cup {t}
    BY <1>2 DEF Declared
  <2>6. Promise!Complete(t)
    BY <1>1, <2>1, <2>4, <2>5 DEF Promise!Complete, At, Declared
  <2>7. QED
    BY <2>6 DEF Promise!Next
<1>3. CASE taskDoc'[t].status # "Completed"
  <2>1. Declared' = Declared \ {t}
    BY <1>3 DEF Declared
  <2>2. Promise!Forget(t)
    BY <1>1, <2>1 DEF Promise!Forget, Declared
  <2>3. QED
    BY <2>2 DEF Promise!Next
<1>4. QED
  BY <1>2, <1>3

\* A step that leaves the documents alone moves one deposit or none.
LEMMA TravelIsMove ==
    ASSUME FundsInv, Travel, UNCHANGED taskDoc
    PROVE  [Promise!Next]_(Promise!vars)
<1>1. Declared' = Declared
  BY DEF Declared
<1>2. \A t \in Tasks : Stays(t) => Deposit(t)' = Deposit(t)
  BY StaysSeen DEF FundsInv
<1>3. CASE \A t \in Tasks : Stays(t)
  <2>1. [u \in Tasks |-> Deposit(u)]' = [u \in Tasks |-> Deposit(u)]
    BY <1>2, <1>3
  <2>2. QED
    BY <1>1, <2>1 DEF Promise!vars, Declared
<1>4. ASSUME NEW t \in Tasks, GoesOn(t), \A u \in Tasks \ {t} : Stays(u)
      PROVE  Promise!Next
  <2>1. Deposit(t)' \in Promise!Onward(t, Deposit(t))
    BY <1>4, GoesOnSeen
  <2>2. [u \in Tasks |-> Deposit(u)]' = [[u \in Tasks |-> Deposit(u)] EXCEPT ![t] = Deposit(t)']
    BY <1>2, <1>4
  <2>3. Promise!Move(t)
    BY <1>1, <2>1, <2>2 DEF Promise!Move, Declared
  <2>4. QED
    BY <2>3 DEF Promise!Next
<1>5. QED
  BY <1>3, <1>4 DEF Travel

LEMMA NextJourney ==
    TypeOK /\ FundsInv /\ PaidInFull' /\ [Next]_vars => [Promise!Next]_(Promise!vars)
<1> SUFFICES ASSUME TypeOK, FundsInv, PaidInFull', [Next]_vars
             PROVE  [Promise!Next]_(Promise!vars)
  OBVIOUS
<1>1. Travel
  BY NextTravels
<1>2. CASE UNCHANGED taskDoc
  BY <1>1, <1>2, TravelIsMove
<1>3. ASSUME NEW s \in Sessions, QueryStep(s)
      PROVE  [Promise!Next]_(Promise!vars)
  <2>1. CASE /\ pc[s] \in {"insertTask", "save"} /\ job[s] \in Tasks
             /\ taskDoc'[job[s]] = rec[s]
             /\ \A t \in Tasks \ {job[s]} : taskDoc'[t] = taskDoc[t]
             /\ UNCHANGED chainVars
    <3>1. UNCHANGED <<mined, bal, transit>>
      BY <2>1 DEF chainVars
    <3>2. \A t \in Tasks : Deposit(t)' = Deposit(t)
      BY <3>1, UnchangedStays, StaysSeen DEF FundsInv
    <3>3. rec[s] # NoDoc
      BY <2>1 DEF TypeOK, Holding
    <3>4. Promise!Next
      BY <2>1, <3>1, <3>2, <3>3, WritingIsDeclaring
    <3>5. QED
      BY <3>4
  <2>2. QED
    BY <1>2, <1>3, <2>1, QueryDocs
<1>4. CASE ChainStep \/ OwnerStep \/ UNCHANGED vars
  BY <1>2, <1>4 DEF ChainStep, OwnerStep, PauseExecutor, ResumeExecutor, WorkerApprove,
                    WorkerDropTask, OwnerSends, vars, storageVars
<1>5. QED
  BY <1>3, <1>4, NextParts DEF QueryStep

\* As long as what is declared completed is paid, the executor keeps the whole promise
\* made to depositors, step by step: that is the only part of it a lost race can break.
THEOREM JourneyWhilePaid == Spec /\ []PaidInFull => ImplementsJourney
<1>1. Init => FundsInv
  BY InitFunds
<1>2. TypeOK /\ FundsInv /\ [Next]_vars => FundsInv'
  BY NextFunds
<1>3. QED
  BY <1>1, <1>2, InitJourney, NextJourney, TaskTypeCorrect, PTL
  DEF Spec, ImplementsJourney, Promise!Spec

\* Where the last step of every task is a bridge it keeps the promise whatever happens.
THEOREM JourneyOverBridge == EndsOnBridge => (Spec => ImplementsJourney)
<1> SUFFICES ASSUME EndsOnBridge PROVE Spec => ImplementsJourney
  OBVIOUS
<1>1. Spec => []PaidInFull
  BY PaidOverBridge
<1>2. QED
  BY <1>1, JourneyWhilePaid

-----------------------------------------------------------------------------
(***************************************************************************)
(* A step after the first runs with what was settled for it.               *)
(***************************************************************************)

\* Two copies of the same step of t with the same nonce and amount for it.
SameStep(t, q, r) ==
    /\ q.execute_index = r.execute_index
    /\ r.execute_index > 1 => /\ q.spend[r.execute_index] = r.spend[r.execute_index]
                              /\ q.nonce[r.execute_index] = r.nonce[r.execute_index]

LEMMA SameStepSettled ==
    ASSUME NEW t, NEW r, NEW q, SameStep(t, q, r), Settled(t, r)
    PROVE  Settled(t, q)
  BY DEF SameStep, Settled

LEMMA GotoSettled ==
    ASSUME TypeOK, NEW s \in Sessions, NEW p, NEW q, Goto(s, p, q), SettledCopy(job[s], q, p)
    PROVE  SettledCopy(job[s], rec'[s], pc'[s])
  BY GotoOthers

LEMMA FailSettled ==
    ASSUME TypeOK, NEW s \in Sessions, NEW q, Fail(s, q), Settled(job[s], q)
    PROVE  SettledCopy(job[s], rec'[s], pc'[s]) \/ Return(s)
  BY GotoSettled DEF Fail, SettledCopy

LEMMA CopyStepSettled ==
    ASSUME BridgesFirst, "rpcError" \notin Faults,
           TypeOK, FundsInv, NEW s \in Sessions, CopyStep(s),
           SettledCopy(job[s], rec[s], pc[s])
    PROVE  SettledCopy(job[s], rec'[s], pc'[s]) \/ Return(s)
<1> DEFINE t == job[s]
           r == rec[s]
           i == r.execute_index
<1>1. t \in Tasks /\ r \in Task(t) /\ pc[s] \in Holding
  BY CopyStepMoves, CopyType
<1>2. /\ i \in Steps(t) /\ i \in Nat \ {0} /\ Src(t, i) \in Chains
      /\ r.spend \in [Steps(t) -> Nat] /\ r.nonce \in [Steps(t) -> Nat]
      /\ r.origin \in [Steps(t) -> Nat \cup {NoBalance}]
  BY <1>1, RouteType DEF Task
<1>3. pc[s] # "settle" => Settled(t, r)
  BY <1>1 DEF SettledCopy
<1> HIDE DEF t, r, i
<1>4. ~RpcError(s)
  BY DEF RpcError
<1>5. CASE CheckClaimed(s)
  BY <1>1, <1>3, <1>5, GotoSettled, FailSettled DEF CheckClaimed, SettledCopy, t, r
<1>6. CASE Claim(s)
  <2> DEFINE spent  == [r EXCEPT !.spend[1] = Amount]
             synced == [spent EXCEPT !.origin[1] = bal[t][1]]
  <2>1. SameStep(t, spent, r) /\ SameStep(t, synced, r)
    BY <1>1, <1>2 DEF SameStep, Task, i
  <2> HIDE DEF spent, synced
  <2>2. Settled(t, spent) /\ Settled(t, synced) /\ Settled(t, r)
    BY <1>3, <1>6, <2>1, SameStepSettled DEF Claim
  <2>3. \/ Goto(s, "sendClaim", r) \/ Goto(s, "sendClaim", synced)
        \/ Fail(s, synced) \/ Fail(s, spent)
    BY <1>6 DEF Claim, spent, synced, t, r
  <2>4. QED
    BY <2>2, <2>3, GotoSettled, FailSettled DEF SettledCopy, t
<1>7. CASE SendClaim(s)
  <2>1. SameStep(t, Claimed(t, r), r)
    BY <1>1, <1>2 DEF SameStep, Claimed, Task, i
  <2>2. Settled(t, Claimed(t, r)) /\ Settled(t, r)
    BY <1>3, <1>7, <2>1, SameStepSettled DEF SendClaim
  <2>3. Goto(s, "save", Claimed(t, r)) \/ Fail(s, r)
    BY <1>7 DEF SendClaim, t, r
  <2>4. QED
    BY <2>2, <2>3, GotoSettled, FailSettled DEF SettledCopy, t
<1>8. CASE CheckStep(s)
  <2> DEFINE done == [r EXCEPT !.status = "Completed", !.at = 0]
             next == [r EXCEPT !.execute_index = @ + 1, !.retry_counter = 0]
             again == [r EXCEPT !.retry_counter = @ + 1]
  <2>1. SameStep(t, done, r) /\ SameStep(t, again, r)
    BY <1>1 DEF SameStep, Task
  <2>2. next.execute_index = i + 1 /\ next.origin = r.origin
    BY <1>1 DEF Task, i
  <2>3. \/ Fail(s, r)
        \/ Goto(s, "destroy", done)
        \/ /\ Finished(t, r) /\ ~MissingOriginReserve(t, r)
           /\ i # Len(Route[t]) /\ Goto(s, "settle", next)
        \/ Goto(s, "canRun", again)
    BY <1>8 DEF CheckStep, IsLast, t, r, i
  <2> HIDE DEF done, next, again
  <2>4. pc[s] = "check" /\ Settled(t, r) /\ Settled(t, done) /\ Settled(t, again)
    BY <1>3, <1>8, <2>1, SameStepSettled DEF CheckStep
  <2>5. CASE /\ Finished(t, r) /\ ~MissingOriginReserve(t, r)
             /\ i # Len(Route[t]) /\ Goto(s, "settle", next)
    <3>1. Bridge(t, i)
      <4>1. i < Len(Route[t])
        BY <1>1, <1>2, <2>5, RouteType DEF Steps
      <4>2. QED
        BY <1>1, <1>2, <4>1 DEF BridgesFirst
    <3>2. r.origin[i] = 0 /\ bal[t][i] = Amount
      BY <2>4, <2>5, <3>1, FinishedBridge DEF t, r, i
    <3>3. (i + 1) - 1 = i
      BY <1>2
    <3>4. next.origin[next.execute_index - 1] = 0 /\ bal[t][next.execute_index - 1] = Amount
      BY <2>2, <3>2, <3>3
    <3>5. SettledCopy(t, next, "settle")
      BY <3>4 DEF SettledCopy
    <3>6. QED
      BY <2>5, <3>5, GotoSettled DEF t
  <2>6. CASE Fail(s, r)
    BY <2>4, <2>6, FailSettled DEF t
  <2>7. CASE Goto(s, "destroy", done) \/ Goto(s, "canRun", again)
    BY <2>4, <2>7, GotoSettled DEF SettledCopy, t
  <2>8. QED
    BY <2>3, <2>5, <2>6, <2>7
<1>9. CASE Settle(s)
  <2> DEFINE now == bal[t][i - 1]
             amount == IF now > 0 THEN now - 0 ELSE 0
             settled == [r EXCEPT !.spend[i] = amount]
  <2>1. /\ pc[s] = "settle" /\ r.origin[i - 1] = 0
        /\ bal[t][i - 1] = Amount \/ r.nonce[i] < Len(mined[Src(t, i)])
    BY <1>9 DEF Settle, SettledCopy, t, r, i
  <2>2. 0 # NoBalance
    OBVIOUS
  <2>3. Goto(s, "canRun", settled)
    BY <1>9, <2>1, <2>2 DEF Settle, t, r, i
  <2>4. settled.execute_index = i /\ settled.nonce = r.nonce /\ settled.spend[i] = amount
    BY <1>1, <1>2 DEF Task, i
  <2>5. now = Amount => amount = Amount
    OBVIOUS
  <2> HIDE DEF settled, amount
  <2>6. Settled(t, settled)
    BY <2>1, <2>4, <2>5 DEF Settled
  <2>7. QED
    BY <2>3, <2>6, GotoSettled DEF SettledCopy, t
<1>10. CASE CanRun(s)
  <2> DEFINE ready == [r EXCEPT !.status = "Executing", !.at = i]
  <2>1. /\ SameStep(t, ready, r) /\ ready.execute_index = i
        /\ ready.spend = r.spend
    BY <1>1 DEF SameStep, Task, i
  <2> HIDE DEF ready
  <2>2. Settled(t, ready) /\ Settled(t, r)
    BY <1>3, <1>10, <2>1, SameStepSettled DEF CanRun
  <2>3. \/ OnchainNonce(Src(t, i)) <= r.nonce[i] /\ Goto(s, "run", ready)
        \/ Goto(s, "save", r)
    BY <1>10 DEF CanRun, t, r, i, ready
  <2>4. ASSUME OnchainNonce(Src(t, i)) <= r.nonce[i], i > 1
        PROVE  ready.spend[i] = Amount
    <3>1. /\ OnchainNonce(Src(t, i)) \in Nat
          /\ Len(mined[Src(t, i)]) <= OnchainNonce(Src(t, i))
          /\ Len(mined[Src(t, i)]) \in Nat /\ r.nonce[i] \in Nat
      BY <1>2, OnchainNonceType, MinedLength, TypeParts
    <3>2. ~(r.nonce[i] < Len(mined[Src(t, i)]))
      BY <2>4, <3>1
    <3>3. QED
      BY <2>1, <2>2, <2>4, <3>2 DEF Settled, i
  <2>5. QED
    BY <2>1, <2>2, <2>3, <2>4, GotoSettled DEF SettledCopy, t
<1>11. CASE Run(s)
  <2> DEFINE synced == [r EXCEPT !.origin[i] = bal[t][i]]
  <2>1. /\ SameStep(t, synced, r) /\ synced.execute_index = i
        /\ synced.spend = r.spend
    BY <1>1 DEF SameStep, Task, i
  <2> HIDE DEF synced
  <2>2. pc[s] = "run" /\ Settled(t, synced) /\ (i > 1 => r.spend[i] = Amount)
    BY <1>3, <1>11, <2>1, SameStepSettled DEF Run, SettledCopy, t, r, i
  <2>3. Goto(s, "send", synced) \/ Fail(s, synced)
    BY <1>11 DEF Run, t, r, i, synced
  <2>4. QED
    BY <2>1, <2>2, <2>3, GotoSettled, FailSettled DEF SettledCopy, t
<1>12. CASE SendStep(s)
  <2>1. Settled(t, r) /\ (Goto(s, "save", r) \/ Fail(s, r))
    BY <1>3, <1>12 DEF SendStep, t, r
  <2>2. QED
    BY <2>1, GotoSettled, FailSettled DEF SettledCopy, t
<1>13. CASE Destroy(s) \/ DeleteWorker(s)
  <2>1. Settled(t, r)
    BY <1>3, <1>13 DEF Destroy, DeleteWorker
  <2>2. QED
    BY <1>13, <2>1, GotoSettled DEF Destroy, DeleteWorker, SettledCopy, t, r
<1>14. QED
  BY <1>4, <1>5, <1>6, <1>7, <1>8, <1>9, <1>10, <1>11, <1>12, <1>13 DEF CopyStep

\* Funds that a step after the first has taken, it took at the nonce of the plan.
TookPlanned ==
    \A t \in Tasks : \A i \in Steps(t) :
        i > 1 /\ TookFunds(t, i)
        => taskDoc[t] # NoDoc /\ taskDoc[t].nonce[i] < Len(mined[Src(t, i)])

LEMMA TookAtNonce == TypeOK /\ OnceInv /\ FundsInv => TookPlanned
<1> SUFFICES ASSUME TypeOK, OnceInv, FundsInv,
                    NEW t \in Tasks, NEW i \in Steps(t), i > 1, TookFunds(t, i)
             PROVE  taskDoc[t] # NoDoc /\ taskDoc[t].nonce[i] < Len(mined[Src(t, i)])
  BY DEF TookPlanned
<1>1. PICK c \in Chains : c = Src(t, i) /\ i # 0 /\ i # 1
  BY RouteType
<1>2. PICK n \in 1..Len(mined[c]) :
         mined[c][n].tx.task = t /\ mined[c][n].tx.step = i /\ mined[c][n].tx.spend > 0
  BY <1>1 DEF TookFunds
<1>3. PICK tx : tx = mined[c][n].tx
  OBVIOUS
<1>4. Spends(c, tx) /\ Planned(tx) /\ tx.nonce = n - 1
  BY <1>3 DEF FundsInv, Sent, OnceInv, NoncesPlanned
<1>5. tx.kind = "step"
  BY <1>1, <1>2, <1>3, <1>4 DEF Spends
<1>6. taskDoc[t] # NoDoc /\ taskDoc[t].nonce[i] = n - 1
  BY <1>2, <1>3, <1>4, <1>5 DEF Planned, Unmerged
<1>7. Len(mined[c]) \in Nat
  BY MinedLength, TypeParts
<1>8. n - 1 < Len(mined[c])
  BY <1>7
<1>9. QED
  BY <1>1, <1>6, <1>8

\* What is settled depends on the chains only.
LEMMA SameChainsSettled ==
    ASSUME UNCHANGED <<mined, bal>>, NEW t, NEW r
    PROVE  /\ Settled(t, r) => Settled(t, r)'
           /\ \A place : SettledCopy(t, r, place) => SettledCopy(t, r, place)'
<1>1. Settled(t, r) <=> Settled(t, r)'
  BY DEF Settled
<1>2. QED
  BY <1>1 DEF SettledCopy

\* Once settled, it stays settled: what leaves the account goes to this very step.
LEMMA SettledStays ==
    ASSUME TypeOK, TypeOK', FundsInv, TookPlanned', Grown, Travel,
           NEW t \in Tasks, NEW r \in Task(t), NEW place
    PROVE  /\ Settled(t, r) => Settled(t, r)'
           /\ /\ SettledCopy(t, r, place)
              /\ place = "settle" => r.execute_index > 1 /\ SameNonces(t, r, taskDoc'[t])
              => SettledCopy(t, r, place)'
<1>1. PICK i \in Steps(t) : i = r.execute_index
  BY DEF Task
<1>2. PICK c \in Chains : c = Src(t, i)
  BY <1>1, RouteType
<1>3. /\ Len(mined[c]) \in Nat /\ Len(mined'[c]) \in Nat /\ Len(mined[c]) <= Len(mined'[c])
      /\ r.nonce[i] \in Nat /\ i \in Nat \ {0}
  <2>1. Len(mined[c]) \in Nat
    BY MinedLength, TypeParts
  <2>2. Len(mined'[c]) \in Nat
    BY TypeParts, LenProperties DEF ChainsTypeOK
  <2>3. QED
    BY <1>1, <2>1, <2>2, RouteType DEF Grown, Task
<1>4. r.nonce[i] < Len(mined[c]) => r.nonce[i] < Len(mined'[c])
  BY <1>3
<1>5. Settled(t, r) => Settled(t, r)'
  BY <1>1, <1>2, <1>4 DEF Settled
<1>6. ASSUME i > 1, SameNonces(t, r, taskDoc'[t]), bal[t][i - 1] = Amount,
             bal'[t][i - 1] # Amount
      PROVE  r.nonce[i] < Len(mined'[c])
  <2>1. i - 1 \in 0..Len(Route[t]) /\ (i - 1) + 1 = i
    BY <1>3, RouteType DEF Steps
  <2>2. InOnePiece(t) /\ (Stays(t) \/ GoesOn(t))
    BY DEF FundsInv, Travel
  <2>3. TookFunds(t, i)'
    BY <1>6, <2>1, <2>2, OnlyNextTakes
  <2>4. taskDoc'[t].nonce[i] < Len(mined'[c])
    BY <1>2, <1>6, <2>3 DEF TookPlanned
  <2>5. taskDoc'[t].nonce[i] = r.nonce[i]
    BY <1>6 DEF SameNonces, Unmerged
  <2>6. QED
    BY <2>4, <2>5
<1>7. QED
  BY <1>1, <1>2, <1>4, <1>5, <1>6 DEF SettledCopy

LEMMA OwnCopySettled ==
    ASSUME BridgesFirst, "rpcError" \notin Faults, NoRetry,
           TypeOK, OnceInv, FundsInv, SettledInv, NEW s \in Sessions, QueryStep(s),
           NEW u, u = job'[s], NEW q, q = rec'[s], NEW place, place = pc'[s]
    PROVE  SettledCopy(u, q, place)
<1>1. CASE place \notin Holding \cup {"insertTask"}
  BY <1>1 DEF SettledCopy, Holding
<1>2. CASE CopyStep(s) /\ pc[s] \in Holding /\ Moves(s)
  <2>1. u = job[s] /\ place # "idle"
    BY <1>2 DEF Moves, Goto, Holding
  <2>2. SettledCopy(job[s], rec[s], pc[s])
    BY DEF SettledInv
  <2>3. SettledCopy(u, q, place) \/ Return(s)
    BY <1>2, <2>1, <2>2, CopyStepSettled
  <2>4. QED
    BY <2>1, <2>3, ReturnOthers
<1>3. CASE place = "insertTask" /\ q = NewTask(job[s])
  <2>1. Settled(u, q)
    BY <1>3 DEF NewTask, Settled
  <2>2. QED
    BY <1>3, <2>1 DEF SettledCopy
<1>4. CASE /\ place \in {"claimed", "reapply"} /\ u \in Tasks
           /\ taskDoc[u] # NoDoc /\ q = taskDoc[u]
  BY <1>4 DEF SettledInv, SettledCopy
<1>5. pc[s] # "reapply"
  BY DEF OnceInv
<1>6. QED
  BY <1>1, <1>2, <1>3, <1>4, <1>5, OwnCopy

\* What was sent of steps after the first spends the deposit.
SpendsSettled ==
    \A c \in Chains : \A tx \in Sent(c) : tx.kind = "step" /\ tx.step > 1 => tx.spend = Amount

LEMMA QuerySpendsSettled ==
    ASSUME TypeOK, SettledInv, NEW s \in Sessions, QueryStep(s)
    PROVE  SpendsSettled'
<1>1. ChainsTypeOK /\ SpendsSettled
  BY TypeParts DEF SettledInv, SpendsSettled
<1>2. CASE SendClaim(s)
  <2>1. PICK tx, c : /\ tx = ClaimTx(job[s], rec[s]) /\ c = Source(job[s])
                     /\ Accepts(c, tx) \/ Refuses(c, tx)
    BY <1>2 DEF SendClaim
  <2>2. c \in Chains /\ tx.kind = "claim"
    BY <1>2, <2>1, CopyType, RouteType DEF SendClaim, Holding, ClaimTx
  <2>3. QED
    BY <1>1, <2>1, <2>2, AcceptsSent DEF SpendsSettled
<1>3. CASE SendStep(s)
  <2>1. PICK t, r : t = job[s] /\ r = rec[s]
    OBVIOUS
  <2>2. PICK tx, c : /\ tx = StepTx(t, r) /\ c = Src(t, r.execute_index)
                     /\ Accepts(c, tx) \/ Refuses(c, tx)
    BY <1>3, <2>1 DEF SendStep
  <2>3. pc[s] = "send" /\ SettledCopy(t, r, pc[s]) /\ t \in Tasks /\ r \in Task(t)
    BY <1>3, <2>1, CopyType DEF SendStep, Holding, SettledInv
  <2>4. c \in Chains /\ (tx.step > 1 => tx.spend = Amount)
    BY <2>2, <2>3, RouteType DEF Task, StepTx, SettledCopy
  <2>5. QED
    BY <1>1, <2>2, <2>4, AcceptsSent DEF SpendsSettled
<1>4. CASE UNCHANGED chainVars
  BY <1>1, <1>4 DEF chainVars, Sent, SpendsSettled
<1>5. QED
  BY <1>2, <1>3, <1>4
  DEF QueryStep, FetchStep, CopyStep, ExecuteStep, FetchTask, InitTask, ApplyNonce, InsertTask,
      InsertWorker, CheckClaimed, Claim, CheckStep, Settle, CanRun, Run, Destroy, DeleteWorker,
      RpcError, ExecuteTask, ReadTask, SaveTask, Abort, RetryTask, ReapplyNonce, Start

LEMMA OwnerSpendsSettled ==
    ASSUME TypeOK, SpendsSettled, OwnerStep
    PROVE  SpendsSettled'
<1>1. ChainsTypeOK
  BY TypeParts
<1>2. ASSUME NEW c \in Chains, NEW kind \in {"approve", "drop"}, NEW t, OwnerSends(c, kind, t)
      PROVE  SpendsSettled'
  <2>1. PICK tx : tx = [kind |-> kind, task |-> t, step |-> 0, spend |-> 0,
                        nonce |-> Len(mined[c])]
    OBVIOUS
  <2>2. tx.kind # "step" /\ (Accepts(c, tx) \/ Refuses(c, tx))
    BY <1>2, <2>1 DEF OwnerSends
  <2>3. QED
    BY <1>1, <2>2, AcceptsSent DEF SpendsSettled
<1>3. ASSUME NEW t \in Tasks, WorkerDropTask(t)
      PROVE  SpendsSettled'
  BY <1>2, <1>3, RouteType DEF WorkerDropTask
<1>4. CASE PauseExecutor \/ ResumeExecutor
  BY <1>4 DEF PauseExecutor, ResumeExecutor, chainVars, Sent, SpendsSettled
<1>5. QED
  BY <1>2, <1>3, <1>4 DEF OwnerStep, WorkerApprove

LEMMA InitSettled == Init => SettledInv
<1> SUFFICES ASSUME Init PROVE SettledInv
  OBVIOUS
<1>1. \A c \in Chains : mined[c] = <<>> /\ pool[c] = {} /\ Len(mined[c]) = 0
  BY DEF Init, ChainsInit
<1>2. \A c \in Chains : Sent(c) = {}
  BY <1>1 DEF Sent
<1>3. QED
  BY <1>2 DEF SettledInv, SettledCopy, Init, Holding

LEMMA NextSettled ==
    /\ NoRetry /\ BridgesFirst /\ "rpcError" \notin Faults
    /\ TypeOK /\ OnceInv /\ FundsInv /\ SettledInv /\ TookPlanned' /\ [Next]_vars
    => SettledInv'
<1> SUFFICES ASSUME NoRetry, BridgesFirst, "rpcError" \notin Faults,
                    TypeOK, OnceInv, FundsInv, SettledInv, TookPlanned', [Next]_vars
             PROVE  SettledInv'
  OBVIOUS
<1>1. SpendsSettled /\ (SettledInv' <=>
         /\ \A t \in Tasks : taskDoc'[t] # NoDoc => Settled(t, taskDoc[t])'
         /\ \A v \in Sessions : SettledCopy(job[v], rec[v], pc[v])'
         /\ SpendsSettled')
  BY DEF SettledInv, SpendsSettled
<1>2. ASSUME NEW s \in Sessions, QueryStep(s)
      PROVE  SettledInv'
  <2>1. UNCHANGED <<mined, bal>> /\ Others(s)
    BY <1>2, QuerySpends, QueryOthers
  <2>2. ASSUME NEW v \in Sessions, NEW u, u = job'[v], NEW q, q = rec'[v],
               NEW place, place = pc'[v]
        PROVE  SettledCopy(u, q, place)'
    <3>1. SettledCopy(u, q, place)
      <4>1. CASE v = s
        BY <1>2, <2>2, <4>1, OwnCopySettled
      <4>2. CASE v # s
        <5>1. u = job[v] /\ q = rec[v] /\ place = pc[v]
          BY <2>1, <2>2, <4>2 DEF Others
        <5>2. QED
          BY <5>1 DEF SettledInv
      <4>3. QED
        BY <4>1, <4>2
    <3>2. QED
      BY <2>1, <3>1, SameChainsSettled
  <2>3. ASSUME NEW t \in Tasks, NEW q, q = taskDoc'[t], q # NoDoc
        PROVE  Settled(t, q)'
    <3>1. Settled(t, q)
      <4>1. CASE q = taskDoc[t]
        BY <2>3, <4>1 DEF SettledInv
      <4>2. CASE pc[s] \in {"insertTask", "save"} /\ t = job[s] /\ q = rec[s]
        BY <4>2 DEF SettledInv, SettledCopy, Holding
      <4>3. QED
        BY <1>2, <2>3, <4>1, <4>2, QueryDocs
    <3>2. QED
      BY <2>1, <3>1, SameChainsSettled
  <2>4. SpendsSettled'
    BY <1>2, QuerySpendsSettled
  <2>5. (\A t \in Tasks : taskDoc'[t] # NoDoc => Settled(t, taskDoc[t])')
    BY <2>3 DEF Settled
  <2>6. (\A v \in Sessions : SettledCopy(job[v], rec[v], pc[v])')
    BY <2>2 DEF SettledCopy, Settled
  <2>7. QED
    BY <1>1, <2>4, <2>5, <2>6
<1>3. CASE ChainStep \/ OwnerStep \/ UNCHANGED vars
  <2>1. UNCHANGED <<taskDoc, pc, job, rec>>
    BY <1>3 DEF ChainStep, OwnerStep, PauseExecutor, ResumeExecutor, WorkerApprove,
                WorkerDropTask, OwnerSends, vars, storageVars, sessionVars
  <2>2. TypeOK' /\ Grown /\ Travel
    BY NextType, NextGrown, NextTravels
  <2>3. ASSUME NEW v \in Sessions, NEW u, u = job[v], NEW q, q = rec[v],
               NEW place, place = pc[v]
        PROVE  SettledCopy(u, q, place)'
    <3>1. CASE place \notin Holding \cup {"insertTask"}
      BY <3>1 DEF SettledCopy, Holding
    <3>2. CASE place \in Holding \cup {"insertTask"}
      <4>1. u \in Tasks /\ q \in Task(u) /\ (place = "settle" => q.execute_index > 1)
        BY <2>3, <3>2 DEF TypeOK, Holding
      <4>2. SettledCopy(u, q, place)
        BY <2>3 DEF SettledInv
      <4>3. place = "settle" => SameNonces(u, q, taskDoc'[u])
        BY <2>1, <2>3 DEF OnceInv, NoncesAgree, Holding
      <4>4. QED
        BY <2>2, <4>1, <4>2, <4>3, SettledStays
    <3>3. QED
      BY <3>1, <3>2
  <2>4. ASSUME NEW t \in Tasks, NEW q, q = taskDoc[t], q # NoDoc
        PROVE  Settled(t, q)'
    <3>1. q \in Task(t) /\ Settled(t, q)
      BY <2>4 DEF TypeOK, SettledInv
    <3>2. QED
      BY <2>2, <3>1, SettledStays
  <2>5. SpendsSettled'
    <3>1. CASE ChainStep
      BY <1>1, <3>1, ChainStepSent, TypeParts DEF SpendsSettled
    <3>2. CASE UNCHANGED vars
      BY <1>1, <3>2 DEF SpendsSettled, vars, chainVars, Sent
    <3>3. QED
      BY <1>1, <1>3, <3>1, <3>2, OwnerSpendsSettled
  <2>6. (\A t \in Tasks : taskDoc'[t] # NoDoc => Settled(t, taskDoc[t])')
    BY <2>1, <2>4 DEF Settled
  <2>7. (\A v \in Sessions : SettledCopy(job[v], rec[v], pc[v])')
    BY <2>1, <2>3 DEF SettledCopy, Settled
  <2>8. QED
    BY <1>1, <2>5, <2>6, <2>7
<1>4. QED
  BY <1>2, <1>3, NextParts DEF QueryStep

LEMMA SettledIsRunsSettled == SettledInv => RunsSettled
<1>1. Amount > 0
  OBVIOUS
<1>2. QED
  BY <1>1 DEF SettledInv, SettledCopy, RunsSettled

\* What task.rs:229 assumes holds where every step but the last is a bridge: then the balance
\* settled from is the deposit or this step is done, however queries overlap, are cut off
\* or save old copies.  An endpoint that fails between the two breaks it.
THEOREM StepsRunSettled ==
    NoRetry /\ BridgesFirst /\ "rpcError" \notin Faults => (Spec => []RunsSettled)
<1> SUFFICES ASSUME NoRetry, BridgesFirst, "rpcError" \notin Faults
             PROVE  Spec => []RunsSettled
  OBVIOUS
<1>1. Init => OnceInv /\ FundsInv /\ SettledInv
  BY InitOnce, InitFunds, InitSettled
<1>2. TypeOK /\ OnceInv /\ FundsInv => TookPlanned
  BY TookAtNonce
<1>3. TypeOK /\ OnceInv /\ FundsInv /\ SettledInv /\ TookPlanned' /\ [Next]_vars
        => OnceInv' /\ FundsInv' /\ SettledInv'
  BY NextOnce, NextFunds, NextSettled
<1>4. TypeOK /\ OnceInv /\ FundsInv /\ [Next]_vars => OnceInv' /\ FundsInv'
  BY NextOnce, NextFunds
<1>5. QED
  BY <1>1, <1>2, <1>3, <1>4, SettledIsRunsSettled, TaskTypeCorrect, PTL DEF Spec

-----------------------------------------------------------------------------
(***************************************************************************)
(* A task that ends with a step on one chain is paid too.                  *)
(***************************************************************************)

\* What was sent of a step after the first spends the deposit, or the step has taken it.
SpendsFunded ==
    \A c \in Chains : \A tx \in Sent(c) :
        tx.kind = "step" /\ tx.step > 1 => tx.spend = Amount \/ TookFunds(tx.task, tx.step)

\* has_finished is right about the last step if that was executed and ran funded.
LEMMA LastRanPays ==
    ASSUME LastIsFunded, TypeOK, FundsInv, SpendsFunded, NEW s \in Sessions, pc[s] = "check",
           NEW t, t = job[s], NEW r, r = rec[s], IsLast(t, r), Finished(t, r),
           ~MissingOriginReserve(t, r), ClaimedOnChain(t), Ran(t, Len(Route[t]))
    PROVE  AllAt(t, Len(Route[t]))
<1>1. PICK L \in Nat : L = Len(Route[t]) /\ L > 0
  BY CopyType, RouteType DEF Holding
<1>2. /\ t \in Tasks /\ r.execute_index = L /\ Steps(t) = 1..L /\ L \in Steps(t)
      /\ L \in 0..L /\ InOnePiece(t)
  BY <1>1, CopyType DEF Holding, IsLast, Steps, FundsInv
<1>3. CASE Bridge(t, L)
  <2>1. bal[t][L] = Amount
    BY <1>2, <1>3, FinishedBridge
  <2>2. QED
    BY <1>1, <1>2, <2>1, FundsAt DEF OnAccount
<1>4. CASE ~Bridge(t, L) /\ L > 1
  <2>1. PICK c \in Chains : c = Src(t, L)
    BY <1>2, RouteType
  <2>2. Ran(t, L)
    BY <1>1
  <2>3. PICK n \in 1..Len(mined[c]) :
           /\ mined[c][n].ok /\ mined[c][n].tx.task = t /\ mined[c][n].tx.step = L
           /\ mined[c][n].tx.kind \in {"claim", "step"}
    BY <2>2, <2>1 DEF Ran
  <2>4. PICK tx : tx = mined[c][n].tx
    OBVIOUS
  <2>5. /\ Spends(c, tx)
        /\ tx.kind = "step" /\ tx.step > 1 => tx.spend = Amount \/ TookFunds(tx.task, tx.step)
    BY <2>4 DEF FundsInv, SpendsFunded, Sent
  <2>6. tx.kind = "step"
    BY <1>4, <2>3, <2>4, <2>5 DEF Spends
  <2>7. TookFunds(t, L)
    <3>1. tx.spend = Amount => mined[c][n].tx.spend > 0
      BY <2>4
    <3>2. mined[c][n].tx.spend > 0 => TookFunds(t, L)
      BY <2>1, <2>3 DEF TookFunds
    <3>3. tx.spend = Amount \/ TookFunds(t, L)
      BY <1>4, <2>3, <2>4, <2>5, <2>6
    <3>4. QED
      BY <3>1, <3>2, <3>3
  <2>8. \A i \in 0..L : TookUpTo(t, i) => i = L
    BY <1>2, <2>7 DEF TookUpTo
  <2>9. OnAccount(t, L)
    BY <1>1, <1>2, <1>4, <2>8 DEF InOnePiece, Unclaimed, OnAccount, OnBridge
  <2>10. QED
    BY <1>1, <2>9 DEF OnAccount
<1>5. CASE ~Bridge(t, L) /\ L = 1 /\ Source(t) \in Evm
  <2>1. \A i \in Steps(t) : i = L
    BY <1>2, <1>5
  <2>2. OnAccount(t, L)
    BY <1>2, <1>5, <2>1 DEF InOnePiece, Unclaimed, OnBridge
  <2>3. QED
    BY <1>1, <2>2 DEF OnAccount
<1>6. Bridge(t, L) \/ L > 1 \/ Source(t) \in Evm
  BY <1>1, <1>2 DEF LastIsFunded
<1>7. \A n \in Nat : n > 0 => n > 1 \/ n = 1
  OBVIOUS
<1>8. L > 1 \/ L = 1
  BY <1>1, <1>7
<1>9. QED
  BY <1>3, <1>4, <1>5, <1>6, <1>8

LEMMA FundedStepPays ==
    LastIsFunded /\ TypeOK /\ OnceInv /\ OrderInv /\ OwnNonces /\ FundsInv /\ SettledInv
    => LastPays
<1> SUFFICES ASSUME LastIsFunded, TypeOK, OnceInv, OrderInv, OwnNonces, FundsInv, SettledInv,
                    NEW s \in Sessions, NEW t, t = job[s], NEW r, r = rec[s],
                    pc[s] = "check", IsLast(t, r),
                    Finished(t, r), ~MissingOriginReserve(t, r)
             PROVE  AllAt(t, Len(Route[t]))
  BY DEF LastPays
<1>1. pc[s] \in Holding /\ r.execute_index = Len(Route[t]) /\ r.execute_index \in Steps(t)
  BY CopyType DEF Holding, IsLast, Task
<1>2. ClaimedOnChain(t)
  BY DEF OrderInv, CopiesJustified, PastClaim
<1>3. Ran(t, Len(Route[t]))
  BY <1>1, ConfirmedStep DEF Finished
<1>4. SpendsFunded
  BY DEF SettledInv, SpendsFunded
<1>5. QED
  BY <1>2, <1>3, <1>4, LastRanPays

\* While no foreign transaction takes a planned nonce and no endpoint fails, a completed task
\* whose steps before the last are bridges has delivered the whole deposit, with overlapping
\* queries, cuts, lost replies, reverts and evictions: init's nonces, has_finished, settle and
\* the spend amount of the claim together.
THEOREM CompletedIsPaid ==
    NoRetry /\ BridgesFirst /\ LastIsFunded /\ "rpcError" \notin Faults
    => (Spec /\ []OwnNonces => []PaidInFull)
<1> SUFFICES ASSUME NoRetry, BridgesFirst, LastIsFunded, "rpcError" \notin Faults
             PROVE  Spec /\ []OwnNonces => []PaidInFull
  OBVIOUS
<1>1. Init => OnceInv /\ OrderInv /\ FundsInv /\ SettledInv /\ PaidInv
  BY InitOnce, InitOrder, InitFunds, InitSettled, InitPaid
<1>2. TypeOK /\ OnceInv /\ FundsInv => TookPlanned
  BY TookAtNonce
<1>3. TypeOK /\ OnceInv /\ FundsInv /\ [Next]_vars => OnceInv' /\ FundsInv'
  BY NextOnce, NextFunds
<1>4. TypeOK /\ OnceInv /\ OrderInv /\ OwnNonces /\ [Next]_vars => OrderInv'
  BY NextOrder
<1>5. TypeOK /\ OnceInv /\ FundsInv /\ SettledInv /\ TookPlanned' /\ [Next]_vars => SettledInv'
  BY NextSettled
<1>6. TypeOK /\ OnceInv /\ OrderInv /\ OwnNonces /\ FundsInv /\ SettledInv /\ PaidInv
      /\ [Next]_vars => PaidInv'
  BY FundedStepPays, NextPaid
<1>7. QED
  BY <1>1, <1>2, <1>3, <1>4, <1>5, <1>6, PaidIsPaidInFull, TaskTypeCorrect, PTL DEF Spec

\* With one task per chain and without retry, governance and failing endpoints the executor
\* keeps everything Journey promises for such routes.
THEOREM JourneyKept ==
    NoRetry /\ Apart /\ BridgesFirst /\ LastIsFunded /\ "rpcError" \notin Faults
    => (Spec => []PaidInFull /\ ImplementsJourney)
<1> SUFFICES ASSUME NoRetry, Apart, BridgesFirst, LastIsFunded, "rpcError" \notin Faults
             PROVE  Spec => []PaidInFull /\ ImplementsJourney
  OBVIOUS
<1>1. Spec => []OwnNonces
  BY ApartKeepsNonces
<1>2. Spec /\ []OwnNonces => []PaidInFull
  BY CompletedIsPaid
<1>3. QED
  BY <1>1, <1>2, JourneyWhilePaid

-----------------------------------------------------------------------------
(***************************************************************************)
(* When retry is called, a step may run without the deposit, but only      *)
(* after it has taken it.                                                  *)
(***************************************************************************)

\* What a step has taken it has taken.
LEMMA TookStays ==
    ASSUME ChainsTypeOK, Grown, NEW t \in Tasks, NEW i \in Steps(t), TookFunds(t, i)
    PROVE  TookFunds(t, i)'
<1>1. PICK c \in Chains : c = Src(t, i)
  BY RouteType
<1>2. PICK n \in 1..Len(mined[c]) :
         /\ mined[c][n].ok /\ mined[c][n].tx.task = t /\ mined[c][n].tx.step = i
         /\ mined[c][n].tx.spend > 0
  BY <1>1 DEF TookFunds
<1>3. Len(mined[c]) \in Nat /\ Len(mined[c]) <= Len(mined'[c]) /\ mined'[c][n] = mined[c][n]
  BY MinedLength DEF Grown
<1>4. n \in 1..Len(mined'[c])
  BY <1>3
<1>5. QED
  BY <1>1, <1>2, <1>3, <1>4 DEF TookFunds

LEMMA SameStepFunded ==
    ASSUME NEW t, NEW r, NEW q, SameStep(t, q, r), Funded(t, r)
    PROVE  Funded(t, q)
  BY DEF SameStep, Funded

LEMMA GotoFunded ==
    ASSUME TypeOK, NEW s \in Sessions, NEW p, NEW q, Goto(s, p, q), FundedCopy(job[s], q, p)
    PROVE  FundedCopy(job[s], rec'[s], pc'[s])
  BY GotoOthers

LEMMA FailFunded ==
    ASSUME TypeOK, NEW s \in Sessions, NEW q, Fail(s, q), Funded(job[s], q)
    PROVE  FundedCopy(job[s], rec'[s], pc'[s]) \/ Return(s)
  BY GotoFunded DEF Fail, FundedCopy

LEMMA CopyStepFunded ==
    ASSUME BridgesFirst, "rpcError" \notin Faults,
           TypeOK, FundsInv, NEW s \in Sessions, CopyStep(s),
           FundedCopy(job[s], rec[s], pc[s])
    PROVE  FundedCopy(job[s], rec'[s], pc'[s]) \/ Return(s)
<1> DEFINE t == job[s]
           r == rec[s]
           i == r.execute_index
<1>1. t \in Tasks /\ r \in Task(t) /\ pc[s] \in Holding
  BY CopyStepMoves, CopyType
<1>2. /\ i \in Steps(t) /\ i \in Nat \ {0} /\ Src(t, i) \in Chains
      /\ r.spend \in [Steps(t) -> Nat] /\ r.nonce \in [Steps(t) -> Nat]
      /\ r.origin \in [Steps(t) -> Nat \cup {NoBalance}]
  BY <1>1, RouteType DEF Task
<1>3. pc[s] # "settle" => Funded(t, r)
  BY <1>1 DEF FundedCopy
<1> HIDE DEF t, r, i
<1>4. ~RpcError(s)
  BY DEF RpcError
<1>5. CASE CheckClaimed(s)
  BY <1>1, <1>3, <1>5, GotoFunded, FailFunded DEF CheckClaimed, FundedCopy, t, r
<1>6. CASE Claim(s)
  <2> DEFINE spent  == [r EXCEPT !.spend[1] = Amount]
             synced == [spent EXCEPT !.origin[1] = bal[t][1]]
  <2>1. SameStep(t, spent, r) /\ SameStep(t, synced, r)
    BY <1>1, <1>2 DEF SameStep, Task, i
  <2> HIDE DEF spent, synced
  <2>2. Funded(t, spent) /\ Funded(t, synced) /\ Funded(t, r)
    BY <1>3, <1>6, <2>1, SameStepFunded DEF Claim
  <2>3. \/ Goto(s, "sendClaim", r) \/ Goto(s, "sendClaim", synced)
        \/ Fail(s, synced) \/ Fail(s, spent)
    BY <1>6 DEF Claim, spent, synced, t, r
  <2>4. QED
    BY <2>2, <2>3, GotoFunded, FailFunded DEF FundedCopy, t
<1>7. CASE SendClaim(s)
  <2>1. SameStep(t, Claimed(t, r), r)
    BY <1>1, <1>2 DEF SameStep, Claimed, Task, i
  <2>2. Funded(t, Claimed(t, r)) /\ Funded(t, r)
    BY <1>3, <1>7, <2>1, SameStepFunded DEF SendClaim
  <2>3. Goto(s, "save", Claimed(t, r)) \/ Fail(s, r)
    BY <1>7 DEF SendClaim, t, r
  <2>4. QED
    BY <2>2, <2>3, GotoFunded, FailFunded DEF FundedCopy, t
<1>8. CASE CheckStep(s)
  <2> DEFINE done == [r EXCEPT !.status = "Completed", !.at = 0]
             next == [r EXCEPT !.execute_index = @ + 1, !.retry_counter = 0]
             again == [r EXCEPT !.retry_counter = @ + 1]
  <2>1. SameStep(t, done, r) /\ SameStep(t, again, r)
    BY <1>1 DEF SameStep, Task
  <2>2. next.execute_index = i + 1 /\ next.origin = r.origin
    BY <1>1 DEF Task, i
  <2>3. \/ Fail(s, r)
        \/ Goto(s, "destroy", done)
        \/ /\ Finished(t, r) /\ ~MissingOriginReserve(t, r)
           /\ i # Len(Route[t]) /\ Goto(s, "settle", next)
        \/ Goto(s, "canRun", again)
    BY <1>8 DEF CheckStep, IsLast, t, r, i
  <2> HIDE DEF done, next, again
  <2>4. pc[s] = "check" /\ Funded(t, r) /\ Funded(t, done) /\ Funded(t, again)
    BY <1>3, <1>8, <2>1, SameStepFunded DEF CheckStep
  <2>5. CASE /\ Finished(t, r) /\ ~MissingOriginReserve(t, r)
             /\ i # Len(Route[t]) /\ Goto(s, "settle", next)
    <3>1. Bridge(t, i)
      <4>1. i < Len(Route[t])
        BY <1>1, <1>2, <2>5, RouteType DEF Steps
      <4>2. QED
        BY <1>1, <1>2, <4>1 DEF BridgesFirst
    <3>2. r.origin[i] = 0 /\ bal[t][i] = Amount
      BY <2>4, <2>5, <3>1, FinishedBridge DEF t, r, i
    <3>3. (i + 1) - 1 = i
      BY <1>2
    <3>4. next.origin[next.execute_index - 1] = 0 /\ bal[t][next.execute_index - 1] = Amount
      BY <2>2, <3>2, <3>3
    <3>5. FundedCopy(t, next, "settle")
      BY <3>4 DEF FundedCopy
    <3>6. QED
      BY <2>5, <3>5, GotoFunded DEF t
  <2>6. CASE Fail(s, r)
    BY <2>4, <2>6, FailFunded DEF t
  <2>7. CASE Goto(s, "destroy", done) \/ Goto(s, "canRun", again)
    BY <2>4, <2>7, GotoFunded DEF FundedCopy, t
  <2>8. QED
    BY <2>3, <2>5, <2>6, <2>7
<1>9. CASE Settle(s)
  <2> DEFINE now == bal[t][i - 1]
             amount == IF now > 0 THEN now - 0 ELSE 0
             settled == [r EXCEPT !.spend[i] = amount]
  <2>1. /\ pc[s] = "settle" /\ r.origin[i - 1] = 0
        /\ bal[t][i - 1] = Amount \/ TookFunds(t, i)
    BY <1>9 DEF Settle, FundedCopy, t, r, i
  <2>2. 0 # NoBalance
    OBVIOUS
  <2>3. Goto(s, "canRun", settled)
    BY <1>9, <2>1, <2>2 DEF Settle, t, r, i
  <2>4. settled.execute_index = i /\ settled.spend[i] = amount
    BY <1>1, <1>2 DEF Task, i
  <2>5. now = Amount => amount = Amount
    OBVIOUS
  <2> HIDE DEF settled, amount
  <2>6. Funded(t, settled)
    BY <2>1, <2>4, <2>5 DEF Funded
  <2>7. QED
    BY <2>3, <2>6, GotoFunded DEF FundedCopy, t
<1>10. CASE CanRun(s)
  <2> DEFINE ready == [r EXCEPT !.status = "Executing", !.at = i]
  <2>1. SameStep(t, ready, r)
    BY <1>1 DEF SameStep, Task, i
  <2> HIDE DEF ready
  <2>2. Funded(t, ready) /\ Funded(t, r)
    BY <1>3, <1>10, <2>1, SameStepFunded DEF CanRun
  <2>3. Goto(s, "run", ready) \/ Goto(s, "save", r)
    BY <1>10 DEF CanRun, t, r, i, ready
  <2>4. QED
    BY <2>2, <2>3, GotoFunded DEF FundedCopy, t
<1>11. CASE Run(s)
  <2> DEFINE synced == [r EXCEPT !.origin[i] = bal[t][i]]
  <2>1. SameStep(t, synced, r)
    BY <1>1 DEF SameStep, Task, i
  <2> HIDE DEF synced
  <2>2. Funded(t, synced)
    BY <1>3, <1>11, <2>1, SameStepFunded DEF Run
  <2>3. Goto(s, "send", synced) \/ Fail(s, synced)
    BY <1>11 DEF Run, t, r, i, synced
  <2>4. QED
    BY <2>2, <2>3, GotoFunded, FailFunded DEF FundedCopy, t
<1>12. CASE SendStep(s)
  <2>1. Funded(t, r) /\ (Goto(s, "save", r) \/ Fail(s, r))
    BY <1>3, <1>12 DEF SendStep, t, r
  <2>2. QED
    BY <2>1, GotoFunded, FailFunded DEF FundedCopy, t
<1>13. CASE Destroy(s) \/ DeleteWorker(s)
  <2>1. Funded(t, r)
    BY <1>3, <1>13 DEF Destroy, DeleteWorker
  <2>2. QED
    BY <1>13, <2>1, GotoFunded DEF Destroy, DeleteWorker, FundedCopy, t, r
<1>14. QED
  BY <1>4, <1>5, <1>6, <1>7, <1>8, <1>9, <1>10, <1>11, <1>12, <1>13 DEF CopyStep

\* It depends on the chains only.
LEMMA SameChainsFunded ==
    ASSUME UNCHANGED <<mined, bal>>, NEW t, NEW r
    PROVE  /\ Funded(t, r) => Funded(t, r)'
           /\ \A place : FundedCopy(t, r, place) => FundedCopy(t, r, place)'
<1>1. Funded(t, r) <=> Funded(t, r)'
  BY DEF Funded, TookFunds
<1>2. \A i : TookFunds(t, i) <=> TookFunds(t, i)'
  BY DEF TookFunds
<1>3. QED
  BY <1>1, <1>2 DEF FundedCopy

\* What is funded stays so, ...
LEMMA FundedStays ==
    ASSUME TypeOK, Grown, NEW t \in Tasks, NEW r \in Task(t), Funded(t, r)
    PROVE  Funded(t, r)'
<1>1. PICK i \in Steps(t) : i = r.execute_index
  BY DEF Task
<1>2. TookFunds(t, i) => TookFunds(t, i)'
  BY TypeParts, TookStays
<1>3. QED
  BY <1>1, <1>2 DEF Funded

\* ... since what leaves the account goes to this very step.
LEMMA FundedCopyStays ==
    ASSUME TypeOK, FundsInv, Grown, Travel, NEW t \in Tasks, NEW r \in Task(t), NEW place,
           place = "settle" => r.execute_index > 1, FundedCopy(t, r, place)
    PROVE  FundedCopy(t, r, place)'
<1>1. PICK i \in Steps(t) : i = r.execute_index
  BY DEF Task
<1>2. TookFunds(t, i) => TookFunds(t, i)'
  BY TypeParts, TookStays
<1>3. Funded(t, r) => Funded(t, r)'
  BY FundedStays
<1>4. ASSUME i > 1, bal[t][i - 1] = Amount, bal'[t][i - 1] # Amount
      PROVE  TookFunds(t, i)'
  <2>1. i \in Nat \ {0}
    BY RouteType
  <2>2. i - 1 \in 0..Len(Route[t]) /\ (i - 1) + 1 = i
    BY <2>1, RouteType DEF Steps
  <2>3. InOnePiece(t) /\ (Stays(t) \/ GoesOn(t))
    BY DEF FundsInv, Travel
  <2>4. QED
    BY <1>4, <2>2, <2>3, OnlyNextTakes
<1>5. QED
  BY <1>1, <1>2, <1>3, <1>4 DEF FundedCopy

LEMMA OwnCopyFunded ==
    ASSUME BridgesFirst, "rpcError" \notin Faults,
           TypeOK, FundsInv, FundedInv, NEW s \in Sessions, QueryStep(s),
           NEW u, u = job'[s], NEW q, q = rec'[s], NEW place, place = pc'[s]
    PROVE  FundedCopy(u, q, place)
<1>1. CASE place \notin Holding \cup {"insertTask"}
  BY <1>1 DEF FundedCopy, Holding
<1>2. CASE CopyStep(s) /\ pc[s] \in Holding /\ Moves(s)
  <2>1. u = job[s] /\ place # "idle"
    BY <1>2 DEF Moves, Goto, Holding
  <2>2. FundedCopy(job[s], rec[s], pc[s])
    BY DEF FundedInv
  <2>3. FundedCopy(u, q, place) \/ Return(s)
    BY <1>2, <2>1, <2>2, CopyStepFunded
  <2>4. QED
    BY <2>1, <2>3, ReturnOthers
<1>3. CASE place = "insertTask" /\ q = NewTask(job[s])
  <2>1. Funded(u, q)
    BY <1>3 DEF NewTask, Funded
  <2>2. QED
    BY <1>3, <2>1 DEF FundedCopy
<1>4. CASE /\ place \in {"claimed", "reapply"} /\ u \in Tasks
           /\ taskDoc[u] # NoDoc /\ q = taskDoc[u]
  BY <1>4 DEF FundedInv, FundedCopy
<1>5. CASE /\ pc[s] = "reapply" /\ place = "canRun" /\ u = job[s]
           /\ q.spend = rec[s].spend /\ q.execute_index = rec[s].execute_index
  <2>1. Funded(u, rec[s])
    BY <1>5 DEF FundedInv, FundedCopy, Holding
  <2>2. Funded(u, q)
    BY <1>5, <2>1 DEF Funded
  <2>3. QED
    BY <1>5, <2>2 DEF FundedCopy
<1>6. QED
  BY <1>1, <1>2, <1>3, <1>4, <1>5, OwnCopy

LEMMA QuerySpendsFunded ==
    ASSUME TypeOK, FundedInv, UNCHANGED mined, NEW s \in Sessions, QueryStep(s)
    PROVE  SpendsFunded'
<1>1. ChainsTypeOK /\ SpendsFunded /\ \A t, i : TookFunds(t, i)' <=> TookFunds(t, i)
  BY TypeParts DEF FundedInv, SpendsFunded, TookFunds
<1>2. ASSUME \A c \in Chains : \A tx \in Sent(c)' :
                tx \in Sent(c) \/ (tx.kind = "step" /\ tx.step > 1
                                   => tx.spend = Amount \/ TookFunds(tx.task, tx.step))
      PROVE  SpendsFunded'
  BY <1>1, <1>2 DEF SpendsFunded
<1>3. CASE SendClaim(s)
  <2>1. PICK tx, c : /\ tx = ClaimTx(job[s], rec[s]) /\ c = Source(job[s])
                     /\ Accepts(c, tx) \/ Refuses(c, tx)
    BY <1>3 DEF SendClaim
  <2>2. c \in Chains /\ tx.kind = "claim"
    BY <1>3, <2>1, CopyType, RouteType DEF SendClaim, Holding, ClaimTx
  <2>3. QED
    BY <1>1, <1>2, <2>1, <2>2, AcceptsSent
<1>4. CASE SendStep(s)
  <2>1. PICK t, r : t = job[s] /\ r = rec[s]
    OBVIOUS
  <2>2. PICK tx, c : /\ tx = StepTx(t, r) /\ c = Src(t, r.execute_index)
                     /\ Accepts(c, tx) \/ Refuses(c, tx)
    BY <1>4, <2>1 DEF SendStep
  <2>3. Funded(t, r) /\ t \in Tasks /\ r \in Task(t)
    BY <1>4, <2>1, CopyType DEF SendStep, Holding, FundedInv, FundedCopy
  <2>4. c \in Chains /\ (tx.step > 1 => tx.spend = Amount \/ TookFunds(tx.task, tx.step))
    BY <2>2, <2>3, RouteType DEF Task, StepTx, Funded
  <2>5. QED
    BY <1>1, <1>2, <2>2, <2>4, AcceptsSent
<1>5. CASE UNCHANGED chainVars
  BY <1>2, <1>5 DEF chainVars, Sent
<1>6. QED
  BY <1>3, <1>4, <1>5
  DEF QueryStep, FetchStep, CopyStep, ExecuteStep, FetchTask, InitTask, ApplyNonce, InsertTask,
      InsertWorker, CheckClaimed, Claim, CheckStep, Settle, CanRun, Run, Destroy, DeleteWorker,
      RpcError, ExecuteTask, ReadTask, SaveTask, Abort, RetryTask, ReapplyNonce, Start

\* Nothing else sends a step.
LEMMA OtherSpendsFunded ==
    ASSUME "owner" \notin Callers, TypeOK, FundsInv, FundedInv, Grown,
           ChainStep \/ OwnerStep \/ UNCHANGED vars
    PROVE  SpendsFunded'
<1>1. ChainsTypeOK
  BY TypeParts
<1>2. \A c \in Chains : \A tx \in Sent(c)' : tx \in Sent(c)
  <2>1. CASE ChainStep
    BY <1>1, <2>1, ChainStepSent
  <2>2. CASE UNCHANGED chainVars
    BY <2>2 DEF chainVars, Sent
  <2>3. QED
    BY <2>1, <2>2 DEF OwnerStep, PauseExecutor, ResumeExecutor, WorkerApprove, WorkerDropTask,
                      OwnerSends, vars
<1>3. ASSUME NEW c \in Chains, NEW tx \in Sent(c), tx.kind = "step", tx.step > 1
      PROVE  tx.spend = Amount \/ TookFunds(tx.task, tx.step)'
  <2>1. tx.spend = Amount \/ TookFunds(tx.task, tx.step)
    BY <1>3 DEF FundedInv
  <2>2. tx.task \in Tasks /\ tx.step \in Steps(tx.task)
    BY <1>3 DEF FundsInv, Spends
  <2>3. QED
    BY <1>1, <2>1, <2>2, TookStays
<1>4. QED
  BY <1>2, <1>3 DEF SpendsFunded

LEMMA InitFunded == Init => FundedInv
<1> SUFFICES ASSUME Init PROVE FundedInv
  OBVIOUS
<1>1. \A c \in Chains : mined[c] = <<>> /\ pool[c] = {} /\ Len(mined[c]) = 0
  BY DEF Init, ChainsInit
<1>2. \A c \in Chains : Sent(c) = {}
  BY <1>1 DEF Sent
<1>3. QED
  BY <1>2 DEF FundedInv, FundedCopy, Init, Holding

LEMMA NextFunded ==
    /\ "owner" \notin Callers /\ BridgesFirst /\ "rpcError" \notin Faults
    /\ TypeOK /\ FundsInv /\ FundedInv /\ [Next]_vars
    => FundedInv'
<1> SUFFICES ASSUME "owner" \notin Callers, BridgesFirst, "rpcError" \notin Faults,
                    TypeOK, FundsInv, FundedInv, [Next]_vars
             PROVE  FundedInv'
  OBVIOUS
<1>1. FundedInv' <=>
         /\ \A t \in Tasks : taskDoc'[t] # NoDoc => Funded(t, taskDoc[t])'
         /\ \A v \in Sessions : FundedCopy(job[v], rec[v], pc[v])'
         /\ SpendsFunded'
  BY DEF FundedInv, SpendsFunded
<1>2. ASSUME NEW s \in Sessions, QueryStep(s)
      PROVE  FundedInv'
  <2>1. UNCHANGED <<mined, bal>> /\ Others(s)
    BY <1>2, QuerySpends, QueryOthers
  <2>2. ASSUME NEW v \in Sessions, NEW u, u = job'[v], NEW q, q = rec'[v],
               NEW place, place = pc'[v]
        PROVE  FundedCopy(u, q, place)'
    <3>1. FundedCopy(u, q, place)
      <4>1. CASE v = s
        BY <1>2, <2>2, <4>1, OwnCopyFunded
      <4>2. CASE v # s
        <5>1. u = job[v] /\ q = rec[v] /\ place = pc[v]
          BY <2>1, <2>2, <4>2 DEF Others
        <5>2. QED
          BY <5>1 DEF FundedInv
      <4>3. QED
        BY <4>1, <4>2
    <3>2. QED
      BY <2>1, <3>1, SameChainsFunded
  <2>3. ASSUME NEW t \in Tasks, NEW q, q = taskDoc'[t], q # NoDoc
        PROVE  Funded(t, q)'
    <3>1. Funded(t, q)
      <4>1. CASE q = taskDoc[t]
        BY <2>3, <4>1 DEF FundedInv
      <4>2. CASE pc[s] \in {"insertTask", "save"} /\ t = job[s] /\ q = rec[s]
        BY <4>2 DEF FundedInv, FundedCopy, Holding
      <4>3. QED
        BY <1>2, <2>3, <4>1, <4>2, QueryDocs
    <3>2. QED
      BY <2>1, <3>1, SameChainsFunded
  <2>4. SpendsFunded'
    BY <1>2, <2>1, QuerySpendsFunded
  <2>5. (\A t \in Tasks : taskDoc'[t] # NoDoc => Funded(t, taskDoc[t])')
    BY <2>3 DEF Funded, TookFunds
  <2>6. (\A v \in Sessions : FundedCopy(job[v], rec[v], pc[v])')
    BY <2>2 DEF FundedCopy, Funded, TookFunds
  <2>7. QED
    BY <1>1, <2>4, <2>5, <2>6
<1>3. CASE ChainStep \/ OwnerStep \/ UNCHANGED vars
  <2>1. UNCHANGED <<taskDoc, pc, job, rec>>
    BY <1>3 DEF ChainStep, OwnerStep, PauseExecutor, ResumeExecutor, WorkerApprove,
                WorkerDropTask, OwnerSends, vars, storageVars, sessionVars
  <2>2. Grown /\ Travel
    BY NextGrown, NextTravels
  <2>3. ASSUME NEW v \in Sessions, NEW u, u = job[v], NEW q, q = rec[v],
               NEW place, place = pc[v]
        PROVE  FundedCopy(u, q, place)'
    <3>1. CASE place \notin Holding \cup {"insertTask"}
      BY <3>1 DEF FundedCopy, Holding
    <3>2. CASE place \in Holding \cup {"insertTask"}
      <4>1. u \in Tasks /\ q \in Task(u) /\ (place = "settle" => q.execute_index > 1)
        BY <2>3, <3>2 DEF TypeOK, Holding
      <4>2. FundedCopy(u, q, place)
        BY <2>3 DEF FundedInv
      <4>3. QED
        BY <2>2, <4>1, <4>2, FundedCopyStays
    <3>3. QED
      BY <3>1, <3>2
  <2>4. ASSUME NEW t \in Tasks, NEW q, q = taskDoc'[t], q # NoDoc
        PROVE  Funded(t, q)'
    <3>1. q \in Task(t) /\ Funded(t, q)
      BY <2>1, <2>4 DEF TypeOK, FundedInv
    <3>2. QED
      BY <2>2, <3>1, FundedStays
  <2>5. SpendsFunded'
    BY <1>3, <2>2, OtherSpendsFunded
  <2>6. (\A t \in Tasks : taskDoc'[t] # NoDoc => Funded(t, taskDoc[t])')
    BY <2>4 DEF Funded, TookFunds
  <2>7. (\A v \in Sessions : FundedCopy(job[v], rec[v], pc[v])')
    BY <2>1, <2>3 DEF FundedCopy, Funded, TookFunds
  <2>8. QED
    BY <1>1, <2>5, <2>6, <2>7
<1>4. QED
  BY <1>2, <1>3, NextParts DEF QueryStep

LEMMA RetriedLastPays ==
    Apart /\ OwnChains /\ LastIsFunded /\ TypeOK /\ ClaimInv /\ FundsInv /\ FundedInv => LastPays
<1> SUFFICES ASSUME Apart, OwnChains, LastIsFunded, TypeOK, ClaimInv, FundsInv, FundedInv,
                    NEW s \in Sessions, NEW t, t = job[s], NEW r, r = rec[s],
                    pc[s] = "check", IsLast(t, r),
                    Finished(t, r), ~MissingOriginReserve(t, r)
             PROVE  AllAt(t, Len(Route[t]))
  BY DEF LastPays
<1>1. pc[s] \in Holding /\ r.execute_index = Len(Route[t]) /\ r.execute_index \in Steps(t)
  BY CopyType DEF Holding, IsLast, Task
<1>2. ClaimedOnChain(t)
  BY DEF ClaimInv, BegunCopy, PastClaim, ClaimIncluded
<1>3. Ran(t, Len(Route[t]))
  BY <1>1, ConfirmedRan DEF Finished
<1>4. SpendsFunded
  BY DEF FundedInv, SpendsFunded
<1>5. QED
  BY <1>2, <1>3, <1>4, LastRanPays

\* Where no two tasks and no two steps of a task share a chain, every step but the last is a
\* bridge, the owner sends nothing and no endpoint fails, the executor keeps everything
\* Journey promises, also when retry is called, again and again and while other queries run:
\* a step that retry runs a second time finds that the first run has taken the deposit.
THEOREM JourneySurvivesRetry ==
    Apart /\ OwnChains /\ BridgesFirst /\ LastIsFunded /\ "rpcError" \notin Faults
    => (Spec => []PaidInFull /\ ImplementsJourney)
<1> SUFFICES ASSUME Apart, OwnChains, BridgesFirst, LastIsFunded, "rpcError" \notin Faults
             PROVE  Spec => []PaidInFull /\ ImplementsJourney
  OBVIOUS
<1>1. Init => ClaimInv /\ FundsInv /\ FundedInv /\ PaidInv
  BY InitClaim, InitFunds, InitFunded, InitPaid
<1>2. TypeOK /\ ClaimInv /\ FundsInv /\ FundedInv /\ PaidInv /\ [Next]_vars
        => ClaimInv' /\ FundsInv' /\ FundedInv' /\ PaidInv'
  <2>1. "owner" \notin Callers
    BY DEF Apart
  <2>2. QED
    BY <2>1, NextClaim, NextFunds, NextFunded, RetriedLastPays, NextPaid
<1>3. Spec => []PaidInFull
  BY <1>1, <1>2, PaidIsPaidInFull, TaskTypeCorrect, PTL DEF Spec
<1>4. QED
  BY <1>3, JourneyWhilePaid, PTL
=============================================================================
