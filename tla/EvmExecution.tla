---------------------------- MODULE EvmExecution ----------------------------
(***************************************************************************)
(* Transactions over the StateDB.  The interpreter of go-ethereum, which   *)
(* is not part of the repository, calls the methods of the StateDB in any  *)
(* order its own checks allow: an account pays what it has, a contract is  *)
(* created where there is neither nonce nor code, only a running contract  *)
(* stores, installs code and destroys itself.  A transaction ends with     *)
(* Finalise and Commit, or with an error, and then its cached context is   *)
(* dropped with the StateDB.                                               *)
(***************************************************************************)
EXTENDS StateDB, FiniteSets

CONSTANTS
  Workloads,     \* what the interpreter does in a behaviour: the kinds of operation, the
                 \* addresses and keys, the balances at the start and the blacklist
  MaxEntries,    \* bound on the journal of a transaction
  MaxSnapshots   \* bound on the snapshots of a transaction

VARIABLES
  workload,
  seen,     \* history: what the interpreter can observe
  saved     \* history: what it could observe at each valid revision

vars == <<db, store, workload, seen, saved>>

----------------------------------------------------------------------------
(* What a contract can observe of a StateDB *)

ViewAccount(found, balance, nonce, code, suicided) ==
  [exists |-> found, balance |-> balance, nonce |-> nonce, code |-> code, suicided |-> suicided]

\* A code that is not the one its hash names would show as lost.
ViewCode(so) == IF Code(so) = so.account.codeHash THEN Code(so) ELSE "lost"

ViewObject(so) ==
  ViewAccount(so.account.found, so.account.balance, so.account.nonce, ViewCode(so), so.suicided)

View(s) ==
  [acc       |-> [a \in Addresses |->
                    ViewObject(IF Exist(s, a) THEN Object(s, a) ELSE newStateObject(store.accounts[a]))],
   storage   |-> [a \in Addresses |-> [k \in Keys |->
                    IF Exist(s, a) THEN Slot(Object(s, a), a, k) ELSE store.storage[a][k]]],
   touched   |-> Dirties(s),
   refund    |-> s.refund,
   logs      |-> s.logs,
   access    |-> {a \in Addresses : s.addresses[a] # 0},
   slots     |-> {p \in Addresses \X Keys :
                    s.addresses[p[1]] \in DOMAIN s.slots /\ p[2] \in s.slots[s.addresses[p[1]]]},
   preimages |-> {s.preimages[i] : i \in DOMAIN s.preimages}]

----------------------------------------------------------------------------
(* The transactions *)

Does(kind) == kind \in workload.operations
ActiveUsers == workload.addresses \cap Users
ActiveContracts == workload.addresses \cap Contracts

Init ==
  /\ workload \in Workloads
  /\ \E balance \in [ActiveUsers -> workload.funds] :
       store = [accounts |-> [a \in Addresses |->
                                IF a \in ActiveUsers /\ balance[a] # 0
                                  THEN [NoAcc EXCEPT !.found = TRUE, !.balance = balance[a]] ELSE NoAcc],
                storage  |-> [a \in Addresses |-> [k \in Keys |-> 0]],
                codes    |-> {},
                blacklist |-> workload.blacklist]
  /\ db = CreateEmptyCommitStateDB
  /\ saved = <<>>
  /\ seen = View(db)

\* An operation of the interpreter.
Become(s) == ~db.panic /\ Len(db.entries) < MaxEntries /\ db' = s /\ UNCHANGED <<store, saved>>

\* GetBalance, GetNonce, GetCode...: the account is loaded.
Get(a) == Become(Load(db, a))

\* SLOAD, and the read of the committed value that prices an SSTORE.
GetState(a, k) == Exist(db, a) /\ Become(ReadSlot(db, a, k))
GetCommittedState(a, k) == Exist(db, a) /\ Become(LoadSlot(db, a, k))

\* What the interpreter sees of an account.
Account(a) == IF Exist(db, a) THEN Object(db, a).account ELSE store.accounts[a]

\* A call with a value: an account that does not exist is created unless the call is a
\* no-op; then the value is transferred.
Call(a, b, n) ==
  /\ Account(a).found /\ Account(a).balance >= n
  /\ Account(b).found \/ n # 0 \/ b = Ripemd
  /\ LET s == IF Account(b).found THEN db ELSE CreateAccount(db, b)
     IN  Become(AddBalance(SubBalance(s, a, n), b, n))

Create(a) ==
  /\ Account(a).nonce = 0 /\ Account(a).codeHash = NoCode
  /\ Become(SetNonce(CreateAccount(db, a), a, 1))

Running(a) == Account(a).found /\ Account(a).nonce # 0

InstallCode(a, c) == Running(a) /\ Account(a).codeHash = NoCode /\ Become(SetCode(db, a, c))

Store(a, k, v) == Running(a) /\ Become(SetState(db, a, k, v))

\* SELFDESTRUCT: the balance goes to b before the account is marked.
SelfDestruct(a, b) ==
  /\ Running(a)
  /\ LET s == AddBalance(Load(db, a), b, Account(a).balance) IN Become(Suicide(s, a))

\* The sender's nonce, as TransitionDb sets it around the execution.
SetSenderNonce(a, n) == Become(SetNonce(db, a, n))

TakeSnapshot ==
  /\ ~db.panic /\ db.nextRevision < MaxSnapshots
  /\ db' = Snapshot(db)
  /\ saved' = Append(saved, seen)
  /\ UNCHANGED store

\* The interpreter reverts to the snapshots of the frames it is in.
Revert ==
  \E i \in DOMAIN db.revisions :
    /\ ~db.panic
    /\ db' = RevertToSnapshot(db, db.revisions[i].id)
    /\ saved' = SubSeq(saved, 1, i - 1)
    /\ UNCHANGED store

EndTx ==
  /\ ~db.panic /\ Writable(db)
  /\ store' = Commit(db)
  /\ db' = CreateEmptyCommitStateDB
  /\ saved' = <<>>

\* An error of the execution or of Finalise, or a panic that runTx recovers.
FailTx == db' = CreateEmptyCommitStateDB /\ saved' = <<>> /\ UNCHANGED store

Step ==
  \/ \E a \in workload.addresses : Does("get") /\ Get(a)
  \/ \E a \in ActiveContracts, k \in workload.keys :
       Does("storage") /\ (GetState(a, k) \/ GetCommittedState(a, k))
  \/ \E a, b \in workload.addresses, n \in {0, 1} : Does("call") /\ Call(a, b, n)
  \/ \E a \in ActiveContracts : Does("create") /\ Create(a)
  \/ \E a \in ActiveContracts, c \in Codes : Does("code") /\ InstallCode(a, c)
  \/ \E a \in ActiveContracts, k \in workload.keys, v \in Values : Does("storage") /\ Store(a, k, v)
  \/ \E a \in ActiveContracts, b \in workload.addresses : Does("destruct") /\ SelfDestruct(a, b)
  \/ \E a \in ActiveUsers, n \in {0, 1} : Does("nonce") /\ SetSenderNonce(a, n)
  \/ \E n \in {-1, 1} : Does("refund") /\ db.refund + n >= 0 /\ Become(Refund(db, n))
  \/ Does("log") /\ Become(AddLog(db))
  \/ \E h \in Hashes : Does("preimage") /\ Become(AddPreimage(db, h))
  \/ \E a \in workload.addresses : Does("access") /\ Become(AddAddressToAccessList(db, a))
  \/ \E a \in workload.addresses, k \in workload.keys :
       Does("access") /\ Become(AddSlotToAccessList(db, a, k))
  \/ Does("snapshot") /\ TakeSnapshot
  \/ Revert \/ EndTx \/ FailTx

Next == Step /\ seen' = View(db)' /\ UNCHANGED workload

Spec == Init /\ [][Next]_vars

----------------------------------------------------------------------------
(* The refinement *)

World == INSTANCE WorldState WITH
  committed  <- [acc |-> [a \in Addresses |-> ViewObject(newStateObject(store.accounts[a]))],
                 storage |-> store.storage],
  world      <- seen,
  savepoints <- saved
=============================================================================
