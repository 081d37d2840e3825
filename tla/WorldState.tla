----------------------------- MODULE WorldState -----------------------------
(***************************************************************************)
(* What the EVM expects of its StateDB: a world of accounts with nested    *)
(* savepoints.  A revert restores the whole world of the savepoint; at the *)
(* end of a transaction the world is committed, without the accounts that  *)
(* destroyed themselves and without the empty ones that were touched.      *)
(*                                                                         *)
(* A world w is a record of everything a contract can observe or cause:    *)
(* the accounts and their storage, the addresses touched, the refund       *)
(* counter, the logs, the access list and the preimages.                   *)
(***************************************************************************)
EXTENDS Integers, Sequences

CONSTANTS
  Users, Contracts,   \* addresses without code, addresses where contracts are created
  Keys, Values,       \* of the storage; the value 0 is the empty hash
  Codes, NoCode,
  Hashes              \* of the preimages

VARIABLES
  committed,   \* accounts and storage as the last transaction left them
  world,
  savepoints   \* worlds to which the EVM may still revert, the latest last

Addresses == Users \cup Contracts

NoAccount == [exists |-> FALSE, balance |-> 0, nonce |-> 0, code |-> NoCode, suicided |-> FALSE]
NewAccount == [NoAccount EXCEPT !.exists = TRUE]

Empty(acc) == acc.balance = 0 /\ acc.nonce = 0 /\ acc.code = NoCode

\* The world at the beginning of a transaction.
Fresh(c) == [acc |-> c.acc, storage |-> c.storage, touched |-> {}, refund |-> 0, logs |-> <<>>,
             access |-> {}, slots |-> {}, preimages |-> {}]

Touch(w, a) == [w EXCEPT !.touched = @ \cup {a}]
Exist(w, a) == w.acc[a].exists

\* An operation on an account that does not exist creates it.
Created(w, a) == IF Exist(w, a) THEN w ELSE Touch([w EXCEPT !.acc[a] = NewAccount], a)

SetBalance(w, a, n) == Touch([Created(w, a) EXCEPT !.acc[a].balance = n], a)
SubBalance(w, a, n) == IF n = 0 THEN Created(w, a) ELSE SetBalance(w, a, w.acc[a].balance - n)
AddBalance(w, a, n) ==
  IF n # 0 THEN SetBalance(w, a, w.acc[a].balance + n)
  ELSE IF Empty(w.acc[a]) THEN Touch(Created(w, a), a) ELSE w
SetNonce(w, a, n) == Touch([Created(w, a) EXCEPT !.acc[a].nonce = n], a)
SetCode(w, a, c) == Touch([w EXCEPT !.acc[a].code = c], a)
SetState(w, a, k, v) ==
  IF w.storage[a][k] = v THEN w ELSE Touch([w EXCEPT !.storage[a][k] = v], a)
CreateAccount(w, a) ==
  IF Exist(w, a) THEN [w EXCEPT !.acc[a] = [NewAccount EXCEPT !.balance = w.acc[a].balance]]
  ELSE Created(w, a)
Suicide(w, a) == Touch([w EXCEPT !.acc[a].suicided = TRUE, !.acc[a].balance = 0], a)

Removed(w, a) == w.acc[a].suicided \/ (a \in w.touched /\ Empty(w.acc[a]))

\* What a transaction leaves; the storage of a removed account is the one before it.
Committed(c, w) ==
  [acc     |-> [a \in Addresses |-> IF Removed(w, a) THEN NoAccount ELSE w.acc[a]],
   storage |-> [a \in Addresses |-> IF Removed(w, a) THEN c.storage[a] ELSE w.storage[a]]]

----------------------------------------------------------------------------
Init ==
  /\ \E balance \in [Users -> {0, 1}] :
       committed = [acc     |-> [a \in Addresses |->
                                   IF a \in Users /\ balance[a] # 0
                                     THEN [NewAccount EXCEPT !.balance = balance[a]] ELSE NoAccount],
                    storage |-> [a \in Addresses |-> [k \in Keys |-> 0]]]
  /\ world = Fresh(committed)
  /\ savepoints = <<>>

Become(w) == world' = w /\ UNCHANGED <<committed, savepoints>>

\* A call: the callee comes into being unless it gets nothing, then the value moves.
Call(a, b, n) ==
  /\ Exist(world, a) /\ world.acc[a].balance >= n
  /\ Exist(world, b) \/ n # 0
  /\ LET w == IF Exist(world, b) THEN world ELSE CreateAccount(world, b)
     IN  Become(AddBalance(SubBalance(w, a, n), b, n))

\* A contract is created where there is neither nonce nor code.
Create(a) ==
  /\ world.acc[a].nonce = 0 /\ world.acc[a].code = NoCode
  /\ Become(SetNonce(CreateAccount(world, a), a, 1))

Running(a) == Exist(world, a) /\ world.acc[a].nonce # 0

\* Self-destruction in favour of b.
Destruct(a, b) ==
  /\ Running(a)
  /\ Become(Suicide(AddBalance(world, b, world.acc[a].balance), a))

Operation ==
  \/ \E a, b \in Addresses, n \in {0, 1} : Call(a, b, n)
  \/ \E a \in Contracts : Create(a)
  \/ \E a \in Contracts, c \in Codes :
       Running(a) /\ world.acc[a].code = NoCode /\ Become(SetCode(world, a, c))
  \/ \E a \in Users, n \in {0, 1} : Become(SetNonce(world, a, n))
  \/ \E a \in Contracts, k \in Keys, v \in Values : Running(a) /\ Become(SetState(world, a, k, v))
  \/ \E a \in Contracts, b \in Addresses : Destruct(a, b)
  \/ \E n \in {-1, 1} : world.refund + n >= 0 /\ Become([world EXCEPT !.refund = @ + n])
  \/ Become([world EXCEPT !.logs = Append(@, Len(@))])
  \/ \E h \in Hashes : Become([world EXCEPT !.preimages = @ \cup {h}])
  \/ \E a \in Addresses : Become([world EXCEPT !.access = @ \cup {a}])
  \/ \E a \in Addresses, k \in Keys :
       Become([world EXCEPT !.access = @ \cup {a}, !.slots = @ \cup {<<a, k>>}])

Snapshot == savepoints' = Append(savepoints, world) /\ UNCHANGED <<committed, world>>

RevertToSnapshot ==
  \E i \in DOMAIN savepoints :
    /\ world' = savepoints[i]
    /\ savepoints' = SubSeq(savepoints, 1, i - 1)
    /\ UNCHANGED committed

\* The end of a transaction: it is committed, or it fails and has no effect.
EndTx ==
  \E c \in {committed, Committed(committed, world)} :
    committed' = c /\ world' = Fresh(c) /\ savepoints' = <<>>

Next == Operation \/ Snapshot \/ RevertToSnapshot \/ EndTx

vars == <<committed, world, savepoints>>

Spec == Init /\ [][Next]_vars
=============================================================================
