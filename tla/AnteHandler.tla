---------------------------- MODULE AnteHandler ----------------------------
(***************************************************************************)
(* What happens to an account before and after a message: the decorators   *)
(* that NewAnteHandler chains for a MsgEthereumTx, in check, recheck and   *)
(* deliver mode, and the gas refund.  They are operators on the accounts   *)
(* of whichever state they run in (check state or deliver state).          *)
(*                                                                         *)
(* A transaction is a record: kind ("eth", or "ethermint" for a StdTx that *)
(* carries a MsgEthermint), from, nonce, gas (its limit), price, amount,   *)
(* to (Nobody creates a contract), payload (its non-zero bytes) and signed *)
(* (the chain id that from has signed it for, 0 for a signature without).  *)
(***************************************************************************)
EXTENDS Integers, Sequences

CONSTANTS Senders,             \* addresses that sign transactions
          Nobody,              \* the recipient of a contract creation
          MaxGasLimitPerTx,    \* parameter of the evm module
          MinGasPrice,         \* of this node, for its mempool
          ChainID,             \* the epoch of the chain id
          TxGas, CreateGas,    \* intrinsic gas of a call, and what a creation adds
          ByteGas, ByteGasIstanbul  \* intrinsic gas of a byte before and since EIP-2028

ASSUME GasAssumption ==
  /\ {MaxGasLimitPerTx, MinGasPrice, ChainID, TxGas, CreateGas, ByteGas, ByteGasIstanbul} \subseteq Nat
  /\ ByteGasIstanbul <= ByteGas
  /\ ChainID # 0
  /\ Nobody \notin Senders

Transaction ==
  [kind : {"eth", "ethermint"}, from : Senders, nonce : Nat, gas : Nat, price : Nat, amount : Nat,
   to : Senders \cup {Nobody}, payload : Nat, signed : Nat]

\* An account that the account keeper does not know has neither coins nor sequence.
Account == [found : BOOLEAN, seq : Nat, coins : Nat]

Modes == {"check", "recheck", "deliver"}

Fee(t) == t.price * t.gas
Cost(t) == Fee(t) + t.amount

\* Mutant: the rules of EIP-2028 are applied the wrong way round.
IntrinsicGasSwapped(t, istanbul) ==
  TxGas + (IF t.to = Nobody THEN CreateGas ELSE 0)
        + t.payload * (IF istanbul THEN ByteGas ELSE ByteGasIstanbul)

IntrinsicGas(t, istanbul) ==
  TxGas + (IF t.to = Nobody THEN CreateGas ELSE 0)
        + t.payload * (IF istanbul THEN ByteGasIstanbul ELSE ByteGas)

EnoughForMempool(t) == MinGasPrice = 0 \/ Fee(t) >= MinGasPrice * t.gas

ValidateBasic(t) == t.price > 0 /\ t.amount >= 0

\* What Sign writes into V, with recovery id 0.
V(t) == IF t.signed = 0 THEN 27 ELSE 2 * t.signed + 35

isProtectedV(v) == v \notin {27, 28}

\* The bytes of v are those of its absolute value.
recoverEthSig(v) == (IF v < 0 THEN -v ELSE v) \in {27, 28}

VerifySig(t) == recoverEthSig(IF isProtectedV(V(t)) THEN V(t) - 2 * ChainID - 8 ELSE V(t))

EthSigVerification(t) == t.kind = "eth" /\ VerifySig(t)

\* The nonces that NonceVerificationDecorator lets pass, pending being the number of
\* transactions of the sender in the mempool.
NonceAccepted(mode, t, seq, pending, conf) ==
  LET checkTxModeNonce == IF conf.recheck THEN seq ELSE seq + pending
  IN  CASE mode # "check" -> t.nonce = seq
        [] mode = "check" /\ conf.sort -> t.nonce \in seq .. checkTxModeNonce
        [] mode = "check" /\ ~conf.sort -> t.nonce = checkTxModeNonce

\* The account is created in the check state only.
AccountFound(mode, acc) == mode # "deliver" \/ acc.found

AnteAccepts(mode, t, accs, pending, conf) ==
  LET acc == accs[t.from] IN
  /\ t.gas <= MaxGasLimitPerTx
  /\ mode = "deliver" \/ EnoughForMempool(t)
  /\ ValidateBasic(t)
  /\ EthSigVerification(t)
  /\ mode = "deliver" \/ acc.coins >= Cost(t)
  /\ AccountFound(mode, acc)
  /\ NonceAccepted(mode, t, acc.seq, pending, conf)
  /\ mode = "deliver" \/ t.gas >= IntrinsicGas(t, FALSE)
  /\ acc.coins >= Fee(t)

\* Mutant: the mode is not looked at.
IncrementsIfRecheck(mode, conf) == conf.recheck

\* In check mode the sequence moves only where the mempool rechecks after every block.
Increments(mode, conf) == mode # "check" \/ conf.recheck

\* The accounts after an accepted transaction: charged for all of its gas, sequence incremented.
AnteHandle(mode, t, accs, conf) ==
  [accs EXCEPT ![t.from] =
     [found |-> TRUE,
      seq   |-> @.seq + (IF Increments(mode, conf) THEN 1 ELSE 0),
      coins |-> @.coins - Fee(t)]]

\* The SDK's decorators for a StdTx in deliver mode, and AccountSetupDecorator before them.
StdAccepts(t, accs) == t.nonce = accs[t.from].seq /\ accs[t.from].coins >= Fee(t)

\* What GasRefund pays back.
GasRefund(t, used) == IF used >= t.gas THEN 0 ELSE Fee(t) - (Fee(t) \div t.gas) * used
=============================================================================
