--------------------------- MODULE ExecutorProofs ---------------------------
(***************************************************************************)
(* Proofs about module Executor.                                           *)
(***************************************************************************)
EXTENDS Executor, TLAPS

\* The accounts of a list of keys.
LEMMA AccountsOfKeys ==
    ASSUME NEW keys \in Seq(Keys)
    PROVE  /\ AccountsOf(keys) \in Seq({Account(k) : k \in Keys})
           /\ Len(AccountsOf(keys)) = Len(keys)
           /\ \A i \in 1..Len(keys) : AccountsOf(keys)[i] = Account(keys[i])
  BY DEF AccountsOf, Account

-----------------------------------------------------------------------------
\* The owner's messages and those of the key stores keep the state well-formed.
THEOREM ExecutorTypeCorrect == Spec => []TypeOK
<1>1. Init => TypeOK
  <2> SUFFICES ASSUME Init
               PROVE  TypeOK
    OBVIOUS
  <2>1. <<>> \in Seq(Keys) /\ <<>> \in Seq({Account(k) : k \in Keys})
    OBVIOUS
  <2>2. storeExecutor \in [Stores -> Users \cup {Self, NoExecutor}]
    BY DEF Init
  <2> QED
    BY <2>1, <2>2 DEF Init, TypeOK
<1>2. TypeOK /\ [Next]_vars => TypeOK'
  <2> SUFFICES ASSUME TypeOK, [Next]_vars
               PROVE  TypeOK'
    OBVIOUS
  <2> USE DEF TypeOK, keyVars, storeVars
  <2>1. ASSUME NEW u \in Users, NEW v \in Users, TransferOwnership(u, v)
        PROVE  TypeOK'
    BY <2>1 DEF TransferOwnership
  <2>2. ASSUME NEW keys \in Seq(Keys), SetKeys(keys)
        PROVE  prvKeys' \in Seq(Keys) /\ accounts' \in Seq({Account(k) : k \in Keys})
    BY <2>2, AccountsOfKeys DEF SetKeys
  <2>3. ASSUME NEW u \in Users, NEW keys \in Seq(Keys), ImportWorkerKeys(u, keys)
        PROVE  TypeOK'
    BY <2>2, <2>3 DEF ImportWorkerKeys
  <2>4. ASSUME NEW u \in Users, NEW k \in Stores, NEW importKey \in BOOLEAN,
               ConfigEngine(u, k, importKey)
        PROVE  TypeOK'
    <3>1. StoreKeys[k] \in Seq(Keys)
      BY ExecutorAssumption
    <3>2. CASE importKey
      BY <2>2, <2>4, <3>1, <3>2 DEF ConfigEngine
    <3>3. CASE ~importKey
      BY <2>4, <3>3 DEF ConfigEngine
    <3> QED
      BY <3>2, <3>3
  <2>5. ASSUME NEW u \in Users, PauseExecutor(u) \/ ResumeExecutor(u)
        PROVE  TypeOK'
    BY <2>5 DEF PauseExecutor, ResumeExecutor
  <2>6. ASSUME NEW u \in Users, NEW k \in Stores, NEW v \in Users,
               StoreTransferOwnership(u, k, v)
        PROVE  TypeOK'
    BY <2>6 DEF StoreTransferOwnership
  <2>7. ASSUME NEW u \in Users, NEW k \in Stores, NEW e \in Users \cup {Self, NoExecutor},
               SetExecutor(u, k, e)
        PROVE  TypeOK'
    BY <2>7 DEF SetExecutor
  <2>8. CASE UNCHANGED vars
    BY <2>8 DEF vars
  <2>9. CASE Next
    <3>1. \A keys \in Imports : keys \in Seq(Keys)
      BY ExecutorAssumption
    <3> QED
      BY <2>1, <2>3, <2>4, <2>5, <2>6, <2>7, <2>9, <3>1
      DEF Next, ReimportWorkerKeys, RemoveExecutor
  <2> QED
    BY <2>8, <2>9
<1> QED
  BY <1>1, <1>2, PTL DEF Spec

-----------------------------------------------------------------------------
\* An import of the only list of keys there is leaves keys and accounts aligned.
LEMMA SetKeysAligned ==
    ASSUME TypeOK, NEW K \in Seq(Keys), Aligned(K),
           NEW keys \in {prvKeys, K}, SetKeys(keys)
    PROVE  Aligned(K)'
<1> USE DEF TypeOK
<1> DEFINE A == AccountsOf(keys)
<1>1. keys \in Seq(Keys)
  OBVIOUS
<1>2. /\ A \in Seq({Account(k) : k \in Keys})
      /\ Len(A) = Len(keys)
      /\ \A i \in 1..Len(keys) : A[i] = Account(keys[i])
  BY <1>1, AccountsOfKeys
<1>3. prvKeys' = keys /\ accounts' = accounts \o A
  BY DEF SetKeys
<1> HIDE DEF A
<1>4. CASE accounts = <<>>
  <2>1. accounts' = A
    BY <1>2, <1>3, <1>4
  <2>2. prvKeys = <<>>
    BY <1>4 DEF Aligned
  <2>3. keys = <<>> => A = <<>>
    BY <1>2
  <2>4. prvKeys' \in {<<>>, K} /\ (prvKeys' = <<>> => accounts' = <<>>)
    BY <1>3, <2>1, <2>2, <2>3
  <2> QED
    BY <1>1, <1>2, <1>3, <2>1, <2>4 DEF Aligned
<1>5. CASE accounts # <<>>
  <2>1. prvKeys = K /\ keys = K /\ K # <<>>
    BY <1>5 DEF Aligned
  <2>2. \A i \in DOMAIN accounts : accounts'[i] = accounts[i]
    BY <1>2, <1>3
  <2>3. \A i \in DOMAIN accounts' \ DOMAIN accounts :
           i - Len(accounts) \in 1..Len(A) /\ accounts'[i] = A[i - Len(accounts)]
    BY <1>2, <1>3
  <2>4. Len(accounts') >= Len(accounts)
    BY <1>2, <1>3
  <2>5. \A i \in DOMAIN accounts' : \E j \in DOMAIN K : accounts'[i] = Account(K[j])
    <3>1. ASSUME NEW i \in DOMAIN accounts
          PROVE  \E j \in DOMAIN K : accounts'[i] = Account(K[j])
      BY <2>1, <2>2 DEF Aligned
    <3>2. ASSUME NEW i \in DOMAIN accounts' \ DOMAIN accounts
          PROVE  \E j \in DOMAIN K : accounts'[i] = Account(K[j])
      BY <1>2, <2>1, <2>3
    <3> QED
      BY <3>1, <3>2
  <2>6. \A i \in DOMAIN K : accounts'[i] = Account(K[i])
    BY <2>1, <2>2 DEF Aligned
  <2> QED
    BY <1>3, <2>1, <2>4, <2>5, <2>6 DEF Aligned
<1> QED
  BY <1>4, <1>5

\* With a single source of keys, pub_to_prv finds the private key of every
\* account listed, whatever the order and number of imports.
THEOREM KeysStayAligned ==
    ASSUME NEW K \in Seq(Keys), SingleSource(K)
    PROVE  Spec => []KeyOfAccount
<1>1. Init => Aligned(K)
  BY DEF Init, Aligned
<1>2. TypeOK /\ Aligned(K) /\ [Next]_vars => Aligned(K)'
  <2> SUFFICES ASSUME TypeOK, Aligned(K), [Next]_vars
               PROVE  Aligned(K)'
    OBVIOUS
  <2>1. CASE UNCHANGED keyVars
    BY <2>1 DEF Aligned, keyVars
  <2>2. ASSUME NEW keys \in {prvKeys, K}, SetKeys(keys)
        PROVE  Aligned(K)'
    BY <2>2, SetKeysAligned
  <2>3. (\E keys \in {prvKeys, K} : SetKeys(keys)) \/ UNCHANGED keyVars
    <3>1. CASE UNCHANGED vars
      BY <3>1 DEF vars, keyVars
    <3>2. ASSUME NEW u \in Users, NEW keys \in Imports, ImportWorkerKeys(u, keys)
          PROVE  \E q \in {prvKeys, K} : SetKeys(q)
      BY <3>2 DEF ImportWorkerKeys, SingleSource
    <3>3. ASSUME NEW u \in Users, ReimportWorkerKeys(u)
          PROVE  \E q \in {prvKeys, K} : SetKeys(q)
      BY <3>3 DEF ReimportWorkerKeys, ImportWorkerKeys
    <3>4. ASSUME NEW u \in Users, NEW k \in Stores, NEW importKey \in BOOLEAN,
                 ConfigEngine(u, k, importKey)
          PROVE  (\E q \in {prvKeys, K} : SetKeys(q)) \/ UNCHANGED keyVars
      BY <3>4 DEF ConfigEngine, SingleSource
    <3>5. CASE Next
      BY <3>2, <3>3, <3>4, <3>5
      DEF Next, TransferOwnership, PauseExecutor, ResumeExecutor,
          StoreTransferOwnership, SetExecutor, RemoveExecutor, keyVars, storeVars
    <3> QED
      BY <3>1, <3>5
  <2> QED
    BY <2>1, <2>2, <2>3
<1>3. TypeOK /\ Aligned(K) => KeyOfAccount
  <2> SUFFICES ASSUME TypeOK, Aligned(K), NEW i \in DOMAIN accounts, Position(accounts[i], i)
               PROVE  i \in DOMAIN prvKeys /\ Account(prvKeys[i]) = accounts[i]
    BY DEF KeyOfAccount
  <2>1. PICK j \in DOMAIN prvKeys : accounts[i] = Account(prvKeys[j])
    BY DEF Aligned
  <2>2. j \in DOMAIN accounts /\ accounts[j] = accounts[i]
    BY <2>1 DEF Aligned, TypeOK
  <2>3. i <= j
    BY <2>2 DEF Position
  <2> QED
    BY <2>1, <2>3 DEF Aligned, TypeOK
<1> QED
  BY <1>1, <1>2, <1>3, ExecutorTypeCorrect, PTL DEF Spec
=============================================================================
