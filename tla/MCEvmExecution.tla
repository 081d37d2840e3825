--------------------------- MODULE MCEvmExecution ---------------------------
(* Instances of EvmExecution for TLC. *)
EXTENDS EvmGenesis, Functions, TLC

Symmetry == Permutations(Users) \cup Permutations(Keys) \cup Permutations(Hashes)

\* Transfers between all accounts; code and storage of a contract; the other effects, with
\* a user that is blacklisted; a contract that is exported, changed and exported again.
AllWorkloads ==
  {[operations |-> {"snapshot", "call", "create", "destruct"}, addresses |-> Addresses, keys |-> {},
    funds |-> {0, 1}, blacklist |-> {}]}
  \cup {[operations |-> {"snapshot", "get", "create", "code", "storage", "destruct"},
         addresses |-> Contracts \cup {u}, keys |-> {k}, funds |-> {0}, blacklist |-> {}] :
           u \in Users, k \in Keys}
  \cup {[operations |-> {"snapshot", "nonce", "refund", "log", "preimage", "access"},
         addresses |-> Contracts \cup {u}, keys |-> Keys, funds |-> {1}, blacklist |-> {u}] :
           u \in Users}
  \cup {[operations |-> {"create", "code", "storage", "destruct", "export"},
         addresses |-> Contracts \cup {u}, keys |-> {k}, funds |-> {1}, blacklist |-> {}] :
           u \in Users, k \in Keys}

\* A transaction runs while no genesis does; of an earlier export only the files remain.
MCNext ==
  \/ Next /\ gen.stage \in {"off", "exported"}
          /\ gen' = [NoGenesis EXCEPT !.exports = gen.exports, !.disk = gen.disk]
  \/ GenNext

MCInit == Init /\ GenInit

MCSpec == MCInit /\ [][MCNext]_<<vars, gen>>

\* The StateDB implements the world with nested savepoints: whatever the order of loads,
\* writes, snapshots and reverts, the interpreter sees what it would see if every
\* snapshot had been a full copy of the world (journal.go revert, statedb.go
\* RevertToSnapshot, Finalise and Commit).
ImplementsWorld == World!Spec

\* A map from keys to positions agrees with its slice.
Indexes(index, keys) ==
  /\ \A i \in DOMAIN keys : index[keys[i]] = i
  /\ \A x \in DOMAIN index : index[x] # 0 => index[x] \in DOMAIN keys /\ keys[index[x]] = x

Addressed(seq) == [i \in DOMAIN seq |-> seq[i].address]

\* The slices of a StateDB agree with the maps that index them, although objects and
\* counters are removed from the middle, deleteDirty does not renumber the counters behind
\* the one it removes and loads are not journalled (journal.go addDirty, substractDirty,
\* deleteDirty, createObjectChange and addPreimageChange revert, accessList DeleteSlot); and
\* every counter is the number of journal entries of its address.
IndicesExact ==
  /\ Indexes(db.dirtyIndex, Addressed(db.dirties))
  /\ Indexes(db.index, Addressed(db.objects))
  /\ Indexes(db.preimageIndex, db.preimages)
  /\ \A i \in DOMAIN db.slots : \E a \in Addresses : db.addresses[a] = i /\ db.slots[i] # {}
  /\ \A a \in Addresses : db.addresses[a] \in {0, NoSlots} \cup DOMAIN db.slots
  /\ \A i \in DOMAIN db.dirties :
       db.dirties[i].changes =
         Cardinality({j \in DOMAIN db.entries : db.entries[j].dirtied = {db.dirties[i].address}})

=============================================================================
