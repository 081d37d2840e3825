------------------------------ MODULE RpcSend ------------------------------
(***************************************************************************)
(* eth_sendTransaction and the personal namespace: a node signs with a key *)
(* that has been unlocked and chooses the nonce itself.  Requests run at   *)
(* the same time as each other, as CheckTx of other transactions and as    *)
(* blocks; between the steps of a request anything may happen.             *)
(*                                                                         *)
(* A key is named by its address.  Optional arguments are sequences with   *)
(* one element or none.                                                    *)
(***************************************************************************)
EXTENDS EthAPI

CONSTANTS Requests,
          SendTxArgs,           \* from, nonce, gas, price, amount, to, payload
          DefaultRPCGasLimit,   \* the cap of a simulation
          GasBuffer,            \* what EstimateGas adds
          MaxKeys

ASSUME SendAssumption ==
  /\ {DefaultRPCGasLimit, GasBuffer, MaxKeys} \subseteq Nat
  /\ Nobody \notin Requests
  /\ \A a \in SendTxArgs : a.from \in Senders

VARIABLES keyInfos,   \* keys of the keyring that PrivateAccountAPI has listed
          keys,       \* unlocked keys, in the order of unlocking
          nonceLock,  \* for each address the request that holds its mutex, or Nobody
          requests

sendVars == <<keyInfos, keys, nonceLock, requests>>

NoTx == [from |-> Nobody, nonce |-> 0]
NewRequest == [pc |-> "new", args |-> <<>>, height |-> 0, nonce |-> 0, fresh |-> TRUE, tx |-> NoTx]

SendInit ==
  /\ keyInfos = {} /\ keys = <<>>
  /\ nonceLock = [s \in Senders |-> Nobody]
  /\ requests = [r \in Requests |-> NewRequest]

----------------------------------------------------------------------------
\* The personal namespace.

\* A key that is in the keyring already is left as it is.
ImportRawKey(s) ==
  /\ keyInfos' = keyInfos \cup {s}
  /\ UNCHANGED <<keys, nonceLock, requests>>

NewAccount(s) ==
  /\ s \notin keyInfos
  /\ keyInfos' = keyInfos \cup {s}
  /\ UNCHANGED <<keys, nonceLock, requests>>

\* An account that is unlocked twice has its key there twice.
UnlockAccount(s) ==
  /\ s \in keyInfos /\ Len(keys) < MaxKeys
  /\ keys' = Append(keys, s)
  /\ UNCHANGED <<keyInfos, nonceLock, requests>>

\* The first key of the address is removed.
LockAccount(s) ==
  /\ s \in Range(keys)
  /\ keys' = RemoveFirst(keys, s)
  /\ UNCHANGED <<keyInfos, nonceLock, requests>>

GetKeyByAddress(s) == s \in Range(keys)

----------------------------------------------------------------------------
\* eth_estimateGas: a call of the message with the gas of the cap, on the committed state.  What
\* an interpreter adds to the intrinsic gas is left out.

Message(a, nonce, gas) ==
  [kind |-> "eth", from |-> a.from, nonce |-> nonce, gas |-> gas, price |-> a.price, amount |-> a.amount,
   to |-> a.to, payload |-> a.payload, signed |-> ChainID]

doCall(a) ==
  LET gas == IF a.gas = <<>> \/ a.gas[1] > DefaultRPCGasLimit THEN DefaultRPCGasLimit ELSE a.gas[1]
      used == IntrinsicGas(Message(a, 0, gas), TRUE)
  IN  IF used <= gas /\ backend!queryBalance(a.from) >= a.amount THEN Found(used) ELSE Error

EstimateGas(a) == IF doCall(a).ok THEN Found(Value(doCall(a)) + GasBuffer) ELSE Error

----------------------------------------------------------------------------
\* eth_sendTransaction, in steps.

At(r, pc) == requests[r].pc = pc
Sender(r) == requests[r].args[1].from

\* The mutex of the address is for requests that leave the nonce open.
Locks(r) == requests[r].args[1].nonce = <<>>

SendTransaction(r, a) ==
  /\ At(r, "new")
  /\ requests' = [requests EXCEPT ![r].args = <<a>>,
       ![r].pc = IF ~GetKeyByAddress(a.from) THEN "failed" ELSE IF a.nonce = <<>> THEN "lock" ELSE "account"]
  /\ UNCHANGED <<keyInfos, keys, nonceLock>>

\* Mutant: a request does not wait for the mutex.
LockAddrAnyway(r) ==
  /\ At(r, "lock")
  /\ nonceLock' = [nonceLock EXCEPT ![Sender(r)] = r]
  /\ requests' = [requests EXCEPT ![r].pc = "account"]
  /\ UNCHANGED <<keyInfos, keys>>

LockAddr(r) ==
  /\ At(r, "lock") /\ nonceLock[Sender(r)] = Nobody
  /\ nonceLock' = [nonceLock EXCEPT ![Sender(r)] = r]
  /\ requests' = [requests EXCEPT ![r].pc = "account"]
  /\ UNCHANGED <<keyInfos, keys>>

UnlockAddr(r) == nonceLock' = IF Locks(r) THEN [nonceLock EXCEPT ![Sender(r)] = Nobody] ELSE nonceLock

\* accountNonce asks for the account first and for the pending transactions after it.
AccountNonce(r) ==
  /\ At(r, "account")
  /\ LET acc == committed.accs[Sender(r)] IN
     requests' = [requests EXCEPT ![r].pc = IF acc.found THEN "pending" ELSE "generate",
                                  ![r].nonce = accountNonce(Sender(r), FALSE),
                                  ![r].height = committed.height]
  /\ UNCHANGED <<keyInfos, keys, nonceLock>>

PendingCount(r) ==
  /\ At(r, "pending")
  /\ requests' = [requests EXCEPT ![r].pc = "generate",
                                  ![r].nonce = @ + backend!UserPendingTransactionsCnt(Sender(r)),
                                  ![r].fresh = (requests[r].height = committed.height)]
  /\ UNCHANGED <<keyInfos, keys, nonceLock>>

\* The rest of generateFromArgs, and ValidateBasic.
generateFromArgs(r) ==
  LET a == requests[r].args[1]
      nonce == requests[r].nonce
      gas == IF a.gas = <<>> THEN EstimateGas(a) ELSE Found(a.gas[1])
      ok == /\ a.nonce \in {<<>>, <<nonce>>}
            /\ ~(a.to = Nobody /\ a.payload = 0)
            /\ gas.ok /\ ValidateBasic(Message(a, nonce, Value(gas)))
  IN
  /\ At(r, "generate")
  /\ IF ok
     THEN /\ requests' = [requests EXCEPT ![r].pc = "broadcast", ![r].tx = Message(a, nonce, Value(gas))]
          /\ UNCHANGED nonceLock
     ELSE /\ requests' = [requests EXCEPT ![r].pc = "failed"]
          /\ UnlockAddr(r)
  /\ UNCHANGED <<keyInfos, keys>>

\* The mempool answers; CheckError makes an error of any code but 0.  The mutex is released on
\* the way out.
Broadcast(r) ==
  /\ At(r, "broadcast")
  /\ \/ /\ CheckTx(requests[r].tx)
        /\ requests' = [requests EXCEPT ![r].pc = "sent"]
     \/ /\ ~Accepts(requests[r].tx)
        /\ requests' = [requests EXCEPT ![r].pc = "failed"]
        /\ UNCHANGED vars
  /\ UnlockAddr(r)
  /\ UNCHANGED <<keyInfos, keys>>

\* Data that cannot be decoded is answered with an empty hash and reaches no mempool.
SendRawTransaction(t) == CheckTx(t) /\ UNCHANGED sendVars

\* The process ends with its requests; the keyring is on the disk.
SendCrash ==
  /\ keys' = <<>> /\ nonceLock' = [s \in Senders |-> Nobody]
  /\ requests' = [r \in Requests |-> NewRequest]
  /\ UNCHANGED keyInfos

PersonalStep(s) == ImportRawKey(s) \/ NewAccount(s) \/ UnlockAccount(s) \/ LockAccount(s)

RequestStep(r) ==
  \/ \E a \in SendTxArgs : SendTransaction(r, a)
  \/ LockAddr(r) \/ AccountNonce(r) \/ PendingCount(r) \/ generateFromArgs(r)

----------------------------------------------------------------------------
\* Whether Tendermint has executed every transaction of s that a block contained.
NothingRefused(s) ==
  \A h \in DOMAIN committed.blocks : \A i \in DOMAIN committed.blocks[h] :
    committed.blocks[h][i].tx.from = s => committed.blocks[h][i].outcome # NotAccepted

\* No nonce goes to two requests: when the mempool takes the transaction of a request that left
\* the nonce open, none of the transactions of such requests that are pending has that nonce, so
\* none is replaced or overtaken, whatever other requests, raw transactions and blocks do in
\* between.  Excepted is a request whose two reads a block came between, and a sender of whom a
\* block has dropped a transaction (SendTransaction, AddrLocker, accountNonce).
NonceAssignedOnce ==
  [][\A r \in Requests :
       (/\ At(r, "broadcast") /\ requests'[r].pc = "sent"
        /\ Locks(r) /\ requests[r].fresh /\ NothingRefused(Sender(r)))
         => \A q \in Requests :
              At(q, "sent") /\ Locks(q) /\ Sender(q) = Sender(r) /\ requests[q].tx \in Range(mempool)
                => requests[q].nonce # requests[r].nonce]_<<vars, sendVars>>
=============================================================================
