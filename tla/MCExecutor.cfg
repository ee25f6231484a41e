SPECIFICATION Spec
CONSTANTS
    k1 = k1
    k2 = k2
    store = store
    Users = {alice, bob}
    Keys = {k1, k2}
    Stores = {store}
    StoreKeys <- OneStoreKeys
    Imports <- OneImports
    Self = Self
    NoExecutor = NoExecutor
    MaxAccounts = 6
INVARIANTS
    TypeOK
    KeyOfAccount
