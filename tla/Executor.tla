------------------------------ MODULE Executor ------------------------------
(***************************************************************************)
(* The owner's side of the two contracts: the Executor's ownership,        *)
(* configuration, pause switch and worker keys (lib.rs), and the KeyStore  *)
(* contracts it may import the keys from.  A message runs to its end       *)
(* before the next one, and an error undoes what it did.                   *)
(*                                                                         *)
(* AccountInfo::from is a one-to-one function of the private key; nothing  *)
(* else of it matters here.  Left out: the registry messages               *)
(* (update_chain_info, register_asset), the url and token of the storage,  *)
(* the engine key, and what queries and governance messages do with a key. *)
(***************************************************************************)
EXTENDS Naturals, Sequences

CONSTANTS
    Users,      \* accounts that call the contracts
    Keys,       \* private keys of workers
    Stores,     \* deployed KeyStore contracts
    StoreKeys,  \* StoreKeys[k]: the keys derived by the constructor of store k
    Imports,    \* lists of keys the owner may pass to import_worker_keys
    Self,       \* the account of the Executor contract
    NoExecutor, \* Option::None of KeyStore.executor
    MaxAccounts \* bound of the model: no import beyond this many worker accounts

ASSUME ExecutorAssumption ==
    /\ StoreKeys \in [Stores -> Seq(Keys)]
    /\ Imports \subseteq Seq(Keys)
    /\ Self \notin Users /\ NoExecutor \notin Users \cup {Self}
    /\ MaxAccounts \in Nat

VARIABLES
    admin,          \* the owner of the Executor
    configured,     \* config is Some
    prvKeys,        \* worker_prv_keys
    accounts,       \* worker_accounts
    paused,         \* is_paused
    storeAdmin,     \* the owner of each KeyStore
    storeExecutor   \* the one account each KeyStore gives its keys to

keyVars   == <<prvKeys, accounts>>
storeVars == <<storeAdmin, storeExecutor>>
vars == <<admin, configured, keyVars, paused, storeVars>>

\* AccountInfo::from
Account(key) == [of |-> key]

\* Slip: the keys themselves are listed.
AccountsOf_Keys(keys) == keys

AccountsOf(keys) == [i \in DOMAIN keys |-> Account(keys[i])]

TypeOK ==
    /\ admin \in Users
    /\ configured \in BOOLEAN
    /\ prvKeys \in Seq(Keys)
    /\ accounts \in Seq({Account(k) : k \in Keys})
    /\ paused \in BOOLEAN
    /\ storeAdmin \in [Stores -> Users]
    /\ storeExecutor \in [Stores -> Users \cup {Self, NoExecutor}]

Init ==
    /\ admin \in Users
    /\ configured = FALSE
    /\ prvKeys = <<>>
    /\ accounts = <<>>
    /\ paused = TRUE
    /\ storeAdmin \in [Stores -> Users]
    /\ storeExecutor = [k \in Stores |-> NoExecutor]

-----------------------------------------------------------------------------
\* ensure_owner
Owner(u) == u = admin

TransferOwnership(u, v) ==
    /\ Owner(u)
    /\ admin' = v
    /\ UNCHANGED <<configured, keyVars, paused, storeVars>>

\* The keys are replaced, their accounts are appended.
SetKeys(keys) ==
    /\ Len(accounts) + Len(keys) <= MaxAccounts
    /\ prvKeys' = keys
    /\ accounts' = accounts \o AccountsOf(keys)

ImportWorkerKeys(u, keys) ==
    /\ Owner(u)
    /\ SetKeys(keys)
    /\ UNCHANGED <<admin, configured, paused, storeVars>>

\* import_worker_keys with what export_worker_keys returned.
ReimportWorkerKeys(u) == ImportWorkerKeys(u, prvKeys)

\* get_worker_keys: store k gives its keys to the one executor it has whitelisted.
GetsWorkerKeys(k) == storeExecutor[k] = Self

\* config_engine
ConfigEngine(u, k, importKey) ==
    /\ Owner(u)
    /\ configured' = TRUE
    /\ IF importKey
       THEN GetsWorkerKeys(k) /\ SetKeys(StoreKeys[k])
       ELSE UNCHANGED keyVars
    /\ UNCHANGED <<admin, paused, storeVars>>

PauseExecutor(u) ==
    /\ Owner(u)
    /\ ~paused
    /\ paused' = TRUE
    /\ UNCHANGED <<admin, configured, keyVars, storeVars>>

ResumeExecutor(u) ==
    /\ Owner(u)
    /\ paused
    /\ paused' = FALSE
    /\ UNCHANGED <<admin, configured, keyVars, storeVars>>

-----------------------------------------------------------------------------
(***************************************************************************)
(* KeyStore                                                                *)
(***************************************************************************)

StoreTransferOwnership(u, k, v) ==
    /\ u = storeAdmin[k]
    /\ storeAdmin' = [storeAdmin EXCEPT ![k] = v]
    /\ UNCHANGED <<admin, configured, keyVars, paused, storeExecutor>>

\* set_executor and remove_executor
SetExecutor(u, k, e) ==
    /\ u = storeAdmin[k]
    /\ storeExecutor' = [storeExecutor EXCEPT ![k] = e]
    /\ UNCHANGED <<admin, configured, keyVars, paused, storeAdmin>>

RemoveExecutor(u, k) == SetExecutor(u, k, NoExecutor)

Next ==
    \E u \in Users :
        \/ \E v \in Users : TransferOwnership(u, v)
        \/ \E keys \in Imports : ImportWorkerKeys(u, keys)
        \/ ReimportWorkerKeys(u)
        \/ \E k \in Stores, importKey \in BOOLEAN : ConfigEngine(u, k, importKey)
        \/ PauseExecutor(u) \/ ResumeExecutor(u)
        \/ \E k \in Stores :
              \/ \E v \in Users : StoreTransferOwnership(u, k, v)
              \/ \E e \in Users \cup {Self} : SetExecutor(u, k, e)
              \/ RemoveExecutor(u, k)

Spec == Init /\ [][Next]_vars

-----------------------------------------------------------------------------
\* Slip: the last match is taken.
Position_Last(account, i) ==
    /\ i \in DOMAIN accounts
    /\ accounts[i] = account
    /\ \A j \in DOMAIN accounts : accounts[j] = account => j <= i

\* pub_to_prv: i is the position of an account, the first match, ...
Position(account, i) ==
    /\ i \in DOMAIN accounts
    /\ accounts[i] = account
    /\ \A j \in DOMAIN accounts : accounts[j] = account => i <= j

\* ... and the key at that position of worker_prv_keys signs for it.
\*
\* pub_to_prv (lib.rs:638): every worker account the contract lists is given its
\* own private key, however often keys were imported: the two vectors, of which
\* an import replaces one and extends the other, stay aligned as far as it looks.
KeyOfAccount ==
    \A i \in DOMAIN accounts :
        Position(accounts[i], i) => i \in DOMAIN prvKeys /\ Account(prvKeys[i]) = accounts[i]

\* All the Executor can ever import is the list keys.
SingleSource(keys) ==
    /\ \A k \in Stores : StoreKeys[k] = keys
    /\ Imports \subseteq {keys}

\* Why it holds with a single source: the accounts are copies of the list of keys
\* one after the other, so the first match is in the first copy.
Aligned(keys) ==
    /\ prvKeys \in {<<>>, keys}
    /\ prvKeys = <<>> => accounts = <<>>
    /\ Len(prvKeys) <= Len(accounts)
    /\ \A i \in DOMAIN prvKeys : accounts[i] = Account(prvKeys[i])
    /\ \A i \in DOMAIN accounts : \E j \in DOMAIN prvKeys : accounts[i] = Account(prvKeys[j])
=============================================================================
