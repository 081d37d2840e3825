------------------------------ MODULE StateDB ------------------------------
(***************************************************************************)
(* CommitStateDB (evm/types/statedb.go), its state objects, its journal    *)
(* and its access list.  A method is an operator from the state db of the  *)
(* StateDB before a call to the one after it; the getters that load an     *)
(* object or a storage slot into the caches are such operators too.        *)
(*                                                                         *)
(* The slices stateObjects, dirties, preimages and the slots of the access *)
(* list are kept with the maps that index them, because the code maintains *)
(* the two by hand; 0 in a map stands for an absent key.  A code is its    *)
(* own hash.  The storage slices of an object, which are only ever used by *)
(* key, are functions.  A panic of the code sets db.panic.                 *)
(***************************************************************************)
EXTENDS Integers, Sequences

CONSTANTS
  Users, Contracts,   \* addresses without code, addresses where contracts are created
  Ripemd,             \* the address of the precompile with the touch exception
  Keys, Values,       \* of the storage; the value 0 is the empty hash
  Codes, NoCode,
  Hashes              \* of the preimages

VARIABLES
  db,      \* the CommitStateDB of the running transaction
  store    \* the account mapper, the KVStore of the evm module, and the addresses the
           \* bank keeper refuses (BlacklistedAddr), which no transaction changes

Addresses == Users \cup Contracts
Unset == -1             \* no entry in a storage cache
NoAcc == [found |-> FALSE, balance |-> 0, nonce |-> 0, codeHash |-> NoCode]

\* newStateObject on the account acc.
newStateObject(acc) ==
  [account |-> acc, code |-> NoCode, dirtyCode |-> FALSE,
   dirty |-> [k \in Keys |-> Unset], origin |-> [k \in Keys |-> Unset],
   suicided |-> FALSE]

\* CreateEmptyCommitStateDB, as the handler calls it for every transaction.
CreateEmptyCommitStateDB ==
  [objects |-> <<>>, index |-> [a \in Addresses |-> 0],
   entries |-> <<>>, dirties |-> <<>>, dirtyIndex |-> [a \in Addresses |-> 0],
   revisions |-> <<>>, nextRevision |-> 0,
   refund |-> 0, logs |-> <<>>, logSize |-> 0,
   preimages |-> <<>>, preimageIndex |-> [h \in Hashes |-> 0],
   addresses |-> [a \in Addresses |-> 0], slots |-> <<>>,
   panic |-> FALSE]

----------------------------------------------------------------------------
(* journal.go: the dirty counters *)

InRange(s, a) == s.dirtyIndex[a] \in DOMAIN s.dirties

\* addDirty.  An index beyond the slice is a panic of the runtime.
addDirty(s, a) ==
  IF s.dirtyIndex[a] = 0
    THEN [s EXCEPT !.dirties = Append(@, [address |-> a, changes |-> 1]),
                   !.dirtyIndex[a] = Len(s.dirties) + 1]
  ELSE IF InRange(s, a) THEN [s EXCEPT !.dirties[s.dirtyIndex[a]].changes = @ + 1]
  ELSE [s EXCEPT !.panic = TRUE]

RemoveIndex(seq, i) == SubSeq(seq, 1, i - 1) \o SubSeq(seq, i + 1, Len(seq))

\* Mutant of dropDirty: the key of a removed counter stays in the map.
dropDirtyKeepIndex(s, a) ==
  LET i == s.dirtyIndex[a]
  IN  IF ~InRange(s, a) THEN s
      ELSE IF s.dirties[i].changes > 1 THEN [s EXCEPT !.dirties[i].changes = @ - 1]
      ELSE [s EXCEPT !.dirties = RemoveIndex(@, i)]

\* substractDirty, getDirty and deleteDirty as revert calls them: a counter that
\* reaches 0 is removed; the indices of the counters behind it are not adapted.
dropDirty(s, a) ==
  LET i == s.dirtyIndex[a]
  IN  IF i = 0 THEN s
      ELSE IF ~InRange(s, a) THEN [s EXCEPT !.panic = TRUE]
      ELSE IF s.dirties[i].changes > 1 THEN [s EXCEPT !.dirties[i].changes = @ - 1]
      ELSE [s EXCEPT !.dirties = RemoveIndex(@, i), !.dirtyIndex[a] = 0]

\* append: an entry is a record with its kind, what its revert needs, and the address
\* it dirties, if any.
append(s, entry) ==
  LET t == [s EXCEPT !.entries = Append(@, entry)]
  IN  IF entry.dirtied = {} THEN t ELSE addDirty(t, CHOOSE a \in entry.dirtied : TRUE)

----------------------------------------------------------------------------
(* statedb.go: state objects *)

Object(s, a) == s.objects[s.index[a]].so

setStateObject(s, a, so) ==
  IF s.index[a] # 0 THEN [s EXCEPT !.objects[s.index[a]].so = so]
  ELSE [s EXCEPT !.objects = Append(@, [address |-> a, so |-> so]),
                 !.index[a] = Len(s.objects) + 1]

\* getStateObject as a step: an account that is not cached is loaded.
Load(s, a) ==
  IF s.index[a] = 0 /\ store.accounts[a].found
    THEN setStateObject(s, a, newStateObject(store.accounts[a])) ELSE s

\* getStateObject # nil, after Load: no object is marked deleted before Finalise.
Exist(s, a) == s.index[a] # 0

Edit(s, a, so) == [s EXCEPT !.objects[s.index[a]].so = so]

createObject(s, a) ==
  LET t == Load(s, a)
      entry == IF Exist(t, a) THEN [kind |-> "reset", address |-> a, prev |-> Object(t, a), dirtied |-> {}]
               ELSE [kind |-> "create", address |-> a, dirtied |-> {a}]
  IN  setStateObject(append(t, entry), a, newStateObject([NoAcc EXCEPT !.found = TRUE]))

GetOrNewStateObject(s, a) == LET t == Load(s, a) IN IF Exist(t, a) THEN t ELSE createObject(t, a)

\* CreateAccount carries the balance over.
CreateAccount(s, a) ==
  LET t == Load(s, a)
      u == createObject(t, a)
  IN  IF Exist(t, a) THEN Edit(u, a, [Object(u, a) EXCEPT !.account.balance = Object(t, a).account.balance])
      ELSE u

----------------------------------------------------------------------------
(* state_object.go *)

\* empty: no balance, no nonce, no code.
empty(so) == so.account.balance = 0 /\ so.account.nonce = 0 /\ so.account.codeHash = NoCode

\* Code: the code loaded or set, else the one stored under the hash.
Code(so) ==
  IF so.code # NoCode THEN so.code
  ELSE IF so.account.codeHash \in store.codes THEN so.account.codeHash ELSE NoCode

\* SetBalance of an object.
setBalance(s, a, n) ==
  LET so == Object(s, a)
  IN  Edit(append(s, [kind |-> "balance", address |-> a, prev |-> so.account.balance, dirtied |-> {a}]),
           a, [so EXCEPT !.account.balance = n])

SubBalance(s, a, n) ==
  LET t == GetOrNewStateObject(s, a)
  IN  IF n = 0 THEN t ELSE setBalance(t, a, Object(t, a).account.balance - n)

\* touch, with the exception for Ripemd.
touch(s, a) ==
  LET t == append(s, [kind |-> "touch", address |-> a, dirtied |-> {a}])
  IN  IF a = Ripemd THEN addDirty(t, a) ELSE t

AddBalance(s, a, n) ==
  LET t == GetOrNewStateObject(s, a)
  IN  IF n # 0 THEN setBalance(t, a, Object(t, a).account.balance + n)
      ELSE IF empty(Object(t, a)) THEN touch(t, a) ELSE t

SetNonce(s, a, n) ==
  LET t == GetOrNewStateObject(s, a)
      so == Object(t, a)
  IN  Edit(append(t, [kind |-> "nonce", address |-> a, prev |-> so.account.nonce, dirtied |-> {a}]),
           a, [so EXCEPT !.account.nonce = n])

SetCode(s, a, c) ==
  LET t == GetOrNewStateObject(s, a)
      so == Object(t, a)
  IN  Edit(append(t, [kind |-> "code", address |-> a, prevHash |-> so.account.codeHash,
                      prev |-> Code(so), dirtied |-> {a}]),
           a, [so EXCEPT !.code = c, !.account.codeHash = c, !.dirtyCode = TRUE])

\* GetCommittedState: the slot is loaded into the origin cache.
LoadSlot(s, a, k) ==
  IF Object(s, a).origin[k] # Unset THEN s
  ELSE Edit(s, a, [Object(s, a) EXCEPT !.origin[k] = store.storage[a][k]])

\* GetState of an object: the value, and the state it leaves.
Slot(so, a, k) ==
  IF so.dirty[k] # Unset THEN so.dirty[k]
  ELSE IF so.origin[k] # Unset THEN so.origin[k] ELSE store.storage[a][k]
ReadSlot(s, a, k) == IF Object(s, a).dirty[k] # Unset THEN s ELSE LoadSlot(s, a, k)

\* The slots that the store holds, with the values written to them since.
ForEachStorage(s, a) ==
  LET t == Load(s, a)
      Value(k) == IF Object(t, a).dirty[k] # Unset THEN Object(t, a).dirty[k] ELSE store.storage[a][k]
  IN  [k \in Keys |-> IF Exist(t, a) /\ store.storage[a][k] # 0 THEN Value(k) ELSE 0]

\* SetState: nothing is done when the value is the same.
SetState(s, a, k, v) ==
  LET t == ReadSlot(GetOrNewStateObject(s, a), a, k)
      so == Object(t, a)
      prev == Slot(so, a, k)
  IN  IF prev = v THEN t
      ELSE Edit(append(t, [kind |-> "storage", address |-> a, key |-> k, prev |-> prev, dirtied |-> {a}]),
                a, [so EXCEPT !.dirty[k] = v])

\* Suicide journals the balance, and SetBalance journals it once more.
Suicide(s, a) ==
  LET so == Object(s, a)
      t == append(s, [kind |-> "suicide", address |-> a, prev |-> so.suicided,
                      balance |-> so.account.balance, dirtied |-> {a}])
  IN  setBalance(Edit(t, a, [so EXCEPT !.suicided = TRUE]), a, 0)

----------------------------------------------------------------------------
(* access_list.go, and the other journalled state of the transaction *)

\* An address of the access list has the index of its slots, or NoSlots.
NoSlots == -1

AddAddressToAccessList(s, a) ==
  IF s.addresses[a] # 0 THEN s
  ELSE append([s EXCEPT !.addresses[a] = NoSlots], [kind |-> "access", address |-> a, dirtied |-> {}])

AddSlotToAccessList(s, a, k) ==
  LET i == s.addresses[a]
      t == IF i \in {0, NoSlots}
             THEN [s EXCEPT !.addresses[a] = Len(s.slots) + 1, !.slots = Append(@, {k})]
             ELSE [s EXCEPT !.slots[i] = @ \cup {k}]
      u == IF i = 0 THEN append(t, [kind |-> "access", address |-> a, dirtied |-> {}]) ELSE t
  IN  IF i \notin {0, NoSlots} /\ (i > Len(s.slots) \/ k \in s.slots[i]) THEN s
      ELSE append(u, [kind |-> "slot", address |-> a, key |-> k, dirtied |-> {}])

\* Mutant of DeleteSlot: the address keeps the index of its removed slots.
DeleteSlotKeepIndex(s, a, k) ==
  LET i == s.addresses[a]
  IN  IF i \notin DOMAIN s.slots THEN [s EXCEPT !.panic = TRUE]
      ELSE IF s.slots[i] \subseteq {k} THEN [s EXCEPT !.slots = SubSeq(@, 1, i - 1)]
      ELSE [s EXCEPT !.slots[i] = @ \ {k}]

DeleteSlot(s, a, k) ==
  LET i == s.addresses[a]
  IN  IF i \notin DOMAIN s.slots THEN [s EXCEPT !.panic = TRUE]
      ELSE IF s.slots[i] \subseteq {k}
        THEN [s EXCEPT !.slots = SubSeq(@, 1, i - 1), !.addresses[a] = NoSlots]
      ELSE [s EXCEPT !.slots[i] = @ \ {k}]

AddPreimage(s, h) ==
  IF s.preimageIndex[h] # 0 THEN s
  ELSE [append(s, [kind |-> "preimage", hash |-> h, dirtied |-> {}])
          EXCEPT !.preimages = Append(@, h), !.preimageIndex[h] = Len(s.preimages) + 1]

\* AddRefund and SubRefund.
Refund(s, n) == [append(s, [kind |-> "refund", prev |-> s.refund, dirtied |-> {}]) EXCEPT !.refund = @ + n]

AddLog(s) ==
  [append(s, [kind |-> "log", dirtied |-> {}])
     EXCEPT !.logs = Append(@, s.logSize), !.logSize = @ + 1]

----------------------------------------------------------------------------
(* journal.go: the reverts *)

\* The index of a slice with the given keys after the removal of position i: the keys
\* behind it move one position to the left.
Shifted(index, keys, i) ==
  [x \in DOMAIN index |->
     IF i < Len(keys) /\ x \in {keys[j] : j \in (i + 1)..Len(keys)}
       THEN (CHOOSE j \in (i + 1)..Len(keys) : keys[j] = x) - 1
     ELSE IF x = keys[i] THEN 0 ELSE index[x]]

revertCreate(s, a) ==
  LET i == s.index[a]
      keys == [j \in DOMAIN s.objects |-> s.objects[j].address]
  IN  IF i = 0 THEN s
      ELSE [s EXCEPT !.objects = RemoveIndex(@, i), !.index = Shifted(@, keys, i)]

revertPreimage(s, h) ==
  LET i == s.preimageIndex[h]
  IN  IF i = 0 THEN s
      ELSE [s EXCEPT !.preimages = RemoveIndex(@, i), !.preimageIndex = Shifted(@, s.preimages, i)]

\* The reverts that change the object of an account; one that is gone is a panic.
revertObject(s, e) ==
  LET t == Load(s, e.address)
      so == Object(t, e.address)
  IN  IF ~Exist(t, e.address) THEN [t EXCEPT !.panic = TRUE]
      ELSE Edit(t, e.address,
             CASE e.kind = "suicide" -> [so EXCEPT !.suicided = e.prev, !.account.balance = e.balance]
               [] e.kind = "balance" -> [so EXCEPT !.account.balance = e.prev]
               [] e.kind = "nonce"   -> [so EXCEPT !.account.nonce = e.prev]
               [] e.kind = "code"    -> [so EXCEPT !.account.codeHash = e.prevHash, !.code = e.prev,
                                                   !.dirtyCode = TRUE]
               [] e.kind = "storage" -> [so EXCEPT !.dirty[e.key] = e.prev])

revertEntry(s, e) ==
  CASE e.kind = "create"   -> revertCreate(s, e.address)
    [] e.kind = "reset"    -> setStateObject(s, e.address, e.prev)
    [] e.kind = "touch"    -> s
    [] e.kind = "refund"   -> [s EXCEPT !.refund = e.prev]
    [] e.kind = "log"      -> [s EXCEPT !.logs = SubSeq(@, 1, Len(@) - 1), !.logSize = @ - 1]
    [] e.kind = "preimage" -> revertPreimage(s, e.hash)
    [] e.kind = "access"   -> [s EXCEPT !.addresses[e.address] = 0]
    [] e.kind = "slot"     -> DeleteSlot(s, e.address, e.key)
    [] OTHER               -> revertObject(s, e)


\* revert: the entries after the first n, from the last one down.
revert(s, n) ==
  LET undone[i \in n..Len(s.entries)] ==
        IF i = Len(s.entries) THEN s
        ELSE LET e == s.entries[i + 1]
                 t == revertEntry(undone[i + 1], e)
             IN  IF e.dirtied = {} THEN t ELSE dropDirty(t, e.address)
  IN  [undone[n] EXCEPT !.entries = SubSeq(@, 1, n)]

Snapshot(s) ==
  [s EXCEPT !.revisions = Append(@, [id |-> s.nextRevision, journalIndex |-> Len(s.entries)]),
            !.nextRevision = @ + 1]

\* RevertToSnapshot: the first revision with an id not below revID has to be the one.
Found(s, revID) == {i \in DOMAIN s.revisions : s.revisions[i].id >= revID}
RevertToSnapshot(s, revID) ==
  LET i == CHOOSE j \in Found(s, revID) : \A m \in Found(s, revID) : j <= m
  IN  IF Found(s, revID) = {} \/ s.revisions[i].id # revID THEN [s EXCEPT !.panic = TRUE]
      ELSE [revert(s, s.revisions[i].journalIndex) EXCEPT !.revisions = SubSeq(@, 1, i - 1)]

----------------------------------------------------------------------------
(* Finalise(true) followed by Commit(true) *)

\* The addresses over which Finalise and Commit loop.
Dirties(s) == {s.dirties[i].address : i \in DOMAIN s.dirties}
Live(s) == {a \in Addresses : s.index[a] # 0}

Deleted(s) ==
  {a \in Live(s) : Object(s, a).suicided \/ (a \in Dirties(s) /\ empty(Object(s, a)))}

\* The accounts that updateStateObject writes.
Updated(s) == (Dirties(s) \cap Live(s)) \ Deleted(s)

\* Mutant of commitState: an empty value is not deleted from the store.
commitStateNoDelete(s, a, k) ==
  LET so == Object(s, a)
  IN  IF a \notin Updated(s) \/ so.dirty[k] \in {Unset, 0} THEN store.storage[a][k]
      ELSE IF so.origin[k] = Unset \/ so.dirty[k] = so.origin[k] THEN store.storage[a][k]
      ELSE so.dirty[k]

\* commitState: what the store has for key k of account a.
commitState(s, a, k) ==
  LET so == Object(s, a)
  IN  IF a \notin Updated(s) \/ so.dirty[k] = Unset THEN store.storage[a][k]
      ELSE IF so.dirty[k] = 0 THEN 0
      ELSE IF so.origin[k] = Unset \/ so.dirty[k] = so.origin[k] THEN store.storage[a][k]
      ELSE so.dirty[k]

\* updateStateObject refuses a negative balance and a blacklisted address.
Writable(s) == \A a \in Updated(s) : Object(s, a).account.balance >= 0 /\ a \notin store.blacklist

\* updateStateObject: the account that is handed to the account mapper.  The balance it
\* writes is read from that account.
updateStateObject(s, a) == Object(s, a).account

\* Finalise and Commit, of a state that is Writable.
Commit(s) ==
  [store EXCEPT
     !.accounts = [a \in Addresses |-> IF a \in Deleted(s) THEN NoAcc
                                       ELSE IF a \in Updated(s) THEN updateStateObject(s, a)
                                       ELSE @[a]],
     !.storage = [a \in Addresses |-> [k \in Keys |-> commitState(s, a, k)]],
     !.codes = @ \cup {Object(s, a).account.codeHash :
                         a \in {b \in Updated(s) : Object(s, b).dirtyCode /\ Object(s, b).code # NoCode}}]
=============================================================================
