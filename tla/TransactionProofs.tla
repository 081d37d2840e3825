------------------------- MODULE TransactionProofs -------------------------
(***************************************************************************)
(* What becomes of an account, for any transactions, in any blocks, with   *)
(* any mempool and after any crash: its nonces are used once and in order, *)
(* it pays for the gas it used, and what CheckTx let in has the gas to     *)
(* start.  And the transactions and logs of every block are numbered       *)
(* without a gap, although the counters are not in the store.              *)
(*                                                                         *)
(* The argument: each fact is one about a multi-store, and the committed   *)
(* one has it as well as the one a block executes on, so it survives a     *)
(* block that is thrown away.  A transaction changes a store in one of two *)
(* ways only: not at all, or as Effect says.  The counters in memory are   *)
(* those of the block that executes; LogInv says when, and needs that a    *)
(* crash or BeginBlock starts them again and that no result of a store is  *)
(* of a later height.                                                      *)
(***************************************************************************)
EXTENDS Integers, Sequences, FiniteSets, Transactions, SumTheorems, TLAPS

Kinds == {"outOfGas", "refused", "panic", "failed", "executed", "notAllowed", "notAccepted"}
Outcome == [kind : Kinds, used : Nat, logs : Nat]

Result == [tx : Txs, kind : Kinds, height : Nat, used : Nat, index : Nat, firstLog : Nat, logs : Nat]

MultiStore ==
  [height : Nat, collector : Nat, contracts : Nat, hashes : SUBSET Nat, blooms : Seq(SUBSET Txs),
   results : Seq(Result), blocks : Seq(Seq([tx : Txs, outcome : Outcome])), accs : [Senders -> Account]]

\* The facts of NonceUsedOnce, PaidForGasUsed and AdmittedReachesEvm, about any multi-store.
From(done, s) == {i \in DOMAIN done : done[i].tx.from = s}
To(done, s) == {i \in DOMAIN done : done[i].tx.to = s}
Payments(done) == [i \in DOMAIN done |-> Paid(done[i])]
Sendings(done) == [i \in DOMAIN done |-> Sent(done[i])]

NoncesOk(ms) ==
  LET done == ms.results IN
  /\ \A i, j \in DOMAIN done : i < j /\ done[i].tx.from = done[j].tx.from => done[i].tx.nonce < done[j].tx.nonce
  /\ \A s \in Senders : {done[i].tx.nonce : i \in From(done, s)} = 0 .. ms.accs[s].seq - 1

CollectorOk(ms) == ms.collector = SumOf(Payments(ms.results), DOMAIN ms.results)

CoinsOk(ms) ==
  LET done == ms.results IN
  \A s \in Senders :
    ms.accs[s].coins = InitialCoins[s] - SumOf(Payments(done), From(done, s)) - SumOf(Sendings(done), From(done, s))
                         + SumOf(Sendings(done), To(done, s))

ShortOnes(ms) ==
  \A i \in DOMAIN ms.results : ms.results[i].kind = "outOfGas" => ms.results[i].tx.gas < IntrinsicGas(ms.results[i].tx, TRUE)

StoreOk(ms) == NoncesOk(ms) /\ CollectorOk(ms) /\ CoinsOk(ms) /\ ShortOnes(ms)

\* The parts of the state the argument needs.  The check state and the mempool are not among
\* them: no proposer is bound by them.
TypeOK ==
  /\ committed \in MultiStore /\ deliver \in MultiStore
  /\ decided \in Seq([tx : Txs, outcome : Outcome])
  /\ keeper \in [TxCount : Nat, LogSize : Nat, Bloom : SUBSET Txs]
  /\ admitted \subseteq Txs

AdmittedOk == \A t \in admitted : t.gas >= IntrinsicGas(t, FALSE)

\* The store of a block has the results of the committed one.
Ahead ==
  \A i \in DOMAIN committed.results : i \in DOMAIN deliver.results /\ deliver.results[i] = committed.results[i]

Inv == TypeOK /\ StoreOk(committed) /\ StoreOk(deliver) /\ Ahead /\ AdmittedOk

\* The counters of a block: the Ethereum transactions of height h, their logs, and those with logs.
Places(done, h) == {i \in DOMAIN done : done[i].height = h /\ done[i].tx.kind = "eth"}
Before(done, i) == {j \in Places(done, done[i].height) : j < i}
LogCounts(done) == [i \in DOMAIN done |-> done[i].logs]
Loud(done, h) == {done[i].tx : i \in {j \in Places(done, h) : done[j].logs > 0}}

\* The facts of BlockLogsExact, about any multi-store.
LogsOk(ms) ==
  \A h \in Nat : Regular(h) =>
    /\ \A i \in Places(ms.results, h) :
         /\ ms.results[i].index = Cardinality(Before(ms.results, i))
         /\ ms.results[i].firstLog = SumOf(LogCounts(ms.results), Before(ms.results, i))
    /\ h \in DOMAIN ms.blooms => ms.blooms[h] = Loud(ms.results, h)

Below(done, n) == \A i \in DOMAIN done : done[i].height <= n

\* A store has the blooms of its blocks and results of no later one.
HeightsOk ==
  /\ Len(committed.blooms) = committed.height /\ Below(committed.results, committed.height)
  /\ Below(deliver.results, committed.height + 1)
  /\ phase = "block" => Len(deliver.blooms) = committed.height
  /\ phase = "ended" => deliver.height = committed.height + 1 /\ Len(deliver.blooms) = committed.height + 1

\* The keeper has counted the results of the block that executes.
Counts(k, done, h) ==
  /\ k.TxCount = Cardinality(Places(done, h))
  /\ k.LogSize = SumOf(LogCounts(done), Places(done, h))
  /\ k.Bloom = Loud(done, h)

HasFields(w) == "made" \in DOMAIN w

CountersOk ==
  /\ phase = "block" /\ Regular(committed.height + 1) => Counts(keeper, deliver.results, committed.height + 1)
  /\ phase = "idle" /\ committed.height = 0 => keeper = NewKeeper
  /\ phase = "block" /\ conf.watch /\ committed.height > 0 => HasFields(watcher) /\ watcher.made

LogInv == LogsOk(committed) /\ LogsOk(deliver) /\ HeightsOk /\ CountersOk

\* What running a transaction with result r makes of a multi-store.
Effect(ms, new, r) ==
  /\ new.results = Append(ms.results, r)
  /\ r.tx.nonce = ms.accs[r.tx.from].seq
  /\ new.collector = ms.collector + Paid(r)
  /\ \A s \in Senders :
       /\ new.accs[s].seq = ms.accs[s].seq + (IF s = r.tx.from THEN 1 ELSE 0)
       /\ new.accs[s].coins = ms.accs[s].coins - (IF s = r.tx.from THEN Paid(r) ELSE 0)
                                - (IF s = r.tx.from THEN Sent(r) ELSE 0) + (IF s = r.tx.to THEN Sent(r) ELSE 0)
  /\ r.kind = "outOfGas" => r.tx.gas < IntrinsicGas(r.tx, TRUE)

----------------------------------------------------------------------------
\* Arithmetic of gas.

\* A product of natural numbers grows with its second factor.
LEMMA ProductGrows ==
  ASSUME NEW p \in Nat, NEW a \in Nat, NEW b \in Nat, a <= b
  PROVE  p * a \in Nat /\ p * b \in Nat /\ p * a <= p * b
<1>1. PICK d \in Nat : b = a + d
  <2> WITNESS b - a \in Nat
  <2> QED OBVIOUS
<1>2. p * b = p * a + p * d /\ p * a \in Nat /\ p * d \in Nat
  BY <1>1
<1> QED BY <1>2

\* The gas price that GasRefund computes from the fee is the price of the transaction.
LEMMA Quotient ==
  ASSUME NEW p \in Nat, NEW g \in Nat \ {0}
  PROVE  (p * g) \div g = p
<1> DEFINE x == p * g
           q == x \div g
<1>1. x \in Nat
  OBVIOUS
<1>2. q \in Int /\ g * q <= x /\ x < g * q + g
  <2> HIDE DEF x
  <2> QED BY <1>1
<1> HIDE DEF q
<1>3. g * p = x
  OBVIOUS
<1> HIDE DEF x
<1>4. ~(q < p)
  <2> SUFFICES ASSUME q < p PROVE FALSE
    OBVIOUS
  <2>1. PICK d \in Nat : p = q + 1 + d
    <3>1. p - q - 1 \in Nat /\ p = q + 1 + (p - q - 1)
      BY <1>2
    <3> QED BY <3>1
  <2>2. g * p = g * q + g + g * d /\ g * d \in Nat /\ g * q \in Int
    BY <1>2, <2>1
  <2> QED BY <1>1, <1>2, <1>3, <2>2
<1>5. ~(p < q)
  <2> SUFFICES ASSUME p < q PROVE FALSE
    OBVIOUS
  <2>1. PICK d \in Nat : q = p + 1 + d
    <3>1. q - p - 1 \in Nat /\ q = p + 1 + (q - p - 1)
      BY <1>2
    <3> QED BY <3>1
  <2>2. g * q = g * p + g + g * d /\ g * d \in Nat /\ g * q \in Int
    BY <1>2, <2>1
  <2> QED BY <1>1, <1>2, <1>3, <2>2
<1>6. q = p
  BY <1>2, <1>4, <1>5
<1> QED BY Zenon, <1>6 DEF q, x

\* The fields of a transaction.
LEMMA TxFields ==
  ASSUME NEW t \in Txs
  PROVE  /\ t.from \in Senders /\ t.to \in Senders \cup {Nobody}
         /\ t.nonce \in Nat /\ t.gas \in Nat /\ t.price \in Nat /\ t.amount \in Nat /\ t.payload \in Nat
<1>1. t \in Transaction
  BY Zenon, TxAssumption
<1> QED BY Zenon, <1>1 DEF Transaction

\* GasRefund pays back the fee but for the price of the gas used, and never more than the fee.
LEMMA Refunds ==
  ASSUME NEW t \in Txs, NEW used \in Nat, NEW r, r.tx = t, r.used = used
  PROVE  /\ Fee(t) \in Nat /\ GasRefund(t, used) \in Nat /\ Paid(r) \in Nat
         /\ Fee(t) = GasRefund(t, used) + Paid(r)
<1> DEFINE p == t.price
           g == t.gas
<1>1. p \in Nat /\ g \in Nat
  BY Zenon, TxFields
<1>2. Fee(t) = p * g /\ p * g \in Nat
  <2>1. Fee(t) = p * g
    BY Zenon DEF Fee
  <2> HIDE DEF p, g
  <2> QED BY <1>1, <2>1
<1>3. CASE used >= g
  <2>1. GasRefund(t, used) = 0
    BY Zenon, <1>3 DEF GasRefund
  <2>2. ~(used < g)
    BY <1>1, <1>3
  <2>3. Paid(r) = p * g
    BY Zenon, <2>2 DEF Paid, GasPaid
  <2> HIDE DEF p, g
  <2> QED BY <1>2, <2>1, <2>3
<1>4. CASE used < g
  <2>1. ~(used >= g) /\ g \in Nat \ {0}
    BY <1>1, <1>4
  <2>2. GasRefund(t, used) = Fee(t) - (Fee(t) \div g) * used
    BY Zenon, <2>1 DEF GasRefund
  <2>3. Paid(r) = p * used
    BY Zenon, <1>4 DEF Paid, GasPaid
  <2> HIDE DEF p, g
  <2>4. Fee(t) \div g = p
    BY Zenon, <1>1, <1>2, <2>1, Quotient
  <2>5. p * used \in Nat /\ p * used <= p * g
    BY <1>1, <1>4, ProductGrows
  <2> QED BY <1>2, <2>2, <2>3, <2>4, <2>5
<1>5. used >= g \/ used < g
  BY <1>1
<1> QED BY Zenon, <1>3, <1>4, <1>5

\* The intrinsic gas since EIP-2028 is at most that before it.
LEMMA IntrinsicGasFalls ==
  ASSUME NEW t \in Txs
  PROVE  IntrinsicGas(t, TRUE) \in Nat /\ IntrinsicGas(t, FALSE) \in Nat /\ IntrinsicGas(t, TRUE) <= IntrinsicGas(t, FALSE)
<1>1. t.payload \in Nat /\ TxGas \in Nat /\ CreateGas \in Nat /\ ByteGas \in Nat /\ ByteGasIstanbul \in Nat
  BY Zenon, TxFields, GasAssumption
<1>2. /\ t.payload * ByteGasIstanbul \in Nat /\ t.payload * ByteGas \in Nat
      /\ t.payload * ByteGasIstanbul <= t.payload * ByteGas
  BY <1>1, GasAssumption, ProductGrows
<1> DEFINE a == t.payload * ByteGasIstanbul
           b == t.payload * ByteGas
           c == IF t.to = Nobody THEN CreateGas ELSE 0
           since == IntrinsicGas(t, TRUE)
           before == IntrinsicGas(t, FALSE)
<1>3. since = TxGas + c + a /\ before = TxGas + c + b
  BY Zenon DEF IntrinsicGas
<1>4. c \in Nat
  BY <1>1
<1> HIDE DEF a, b, c, since, before
<1>5. a \in Nat /\ b \in Nat /\ a <= b
  BY Zenon, <1>2 DEF a, b
<1>6. since \in Nat /\ before \in Nat /\ since <= before
  BY <1>1, <1>3, <1>4, <1>5
<1> QED BY Zenon, <1>6 DEF since, before

----------------------------------------------------------------------------
\* What the steps of DeliverTx make of a multi-store.

\* The fields of a multi-store.
LEMMA StoreFields ==
  ASSUME NEW ms \in MultiStore
  PROVE  /\ ms.collector \in Nat /\ ms.contracts \in Nat /\ ms.height \in Nat
         /\ ms.results \in Seq(Result) /\ ms.blooms \in Seq(SUBSET Txs)
         /\ ms.accs \in [Senders -> Account]
         /\ \A s \in Senders : ms.accs[s].seq \in Nat /\ ms.accs[s].coins \in Nat /\ ms.accs[s].found \in BOOLEAN
<1>1. ms.accs \in [Senders -> Account]
  BY Zenon DEF MultiStore
<1>2. \A s \in Senders : ms.accs[s] \in Account
  BY Zenon, <1>1
<1>3. \A s \in Senders : ms.accs[s].seq \in Nat /\ ms.accs[s].coins \in Nat /\ ms.accs[s].found \in BOOLEAN
  BY Zenon, <1>2 DEF Account
<1>4. /\ ms.collector \in Nat /\ ms.contracts \in Nat /\ ms.height \in Nat
      /\ ms.results \in Seq(Result) /\ ms.blooms \in Seq(SUBSET Txs)
  BY Zenon DEF MultiStore
<1> QED BY Zenon, <1>1, <1>3, <1>4

\* Other accounts, collector or contracts leave a multi-store.
LEMMA StoreWith ==
  ASSUME NEW ms \in MultiStore, NEW a \in [Senders -> Account], NEW n \in Nat, NEW m \in Nat
  PROVE  /\ [ms EXCEPT !.accs = a, !.collector = n] \in MultiStore
         /\ [ms EXCEPT !.accs = a, !.contracts = m] \in MultiStore
         /\ [ms EXCEPT !.accs = a] \in MultiStore
  BY Zenon DEF MultiStore

\* The ante handler charges for the whole gas limit and moves the sequence.
Charged(ms, t, c) == [ms EXCEPT !.accs = AnteHandle("deliver", t, @, c), !.collector = @ + Fee(t)]

\* The ante handler of a block charges a sender that can pay.
LEMMA Charging ==
  ASSUME NEW ms \in MultiStore, NEW t \in Txs, NEW c, Fee(t) \in Nat, ms.accs[t.from].coins >= Fee(t)
  PROVE  /\ Charged(ms, t, c) \in MultiStore
         /\ Charged(ms, t, c).results = ms.results /\ Charged(ms, t, c).blooms = ms.blooms
         /\ Charged(ms, t, c).collector = ms.collector + Fee(t)
         /\ \A s \in Senders :
              /\ Charged(ms, t, c).accs[s].seq = ms.accs[s].seq + (IF s = t.from THEN 1 ELSE 0)
              /\ Charged(ms, t, c).accs[s].coins = ms.accs[s].coins - (IF s = t.from THEN Fee(t) ELSE 0)
<1> DEFINE a == AnteHandle("deliver", t, ms.accs, c)
           n == ms.collector + Fee(t)
           acc == [found |-> TRUE, seq |-> ms.accs[t.from].seq + 1, coins |-> ms.accs[t.from].coins - Fee(t)]
<1>1. t.from \in Senders
  BY Zenon, TxFields
<1>2. Increments("deliver", c)
  BY DEF Increments
<1>3. a = [ms.accs EXCEPT ![t.from] = acc]
  BY Zenon, <1>2 DEF AnteHandle
<1>4. /\ ms.accs[t.from].seq + 1 \in Nat /\ ms.accs[t.from].coins - Fee(t) \in Nat /\ n \in Nat
      /\ ms.accs \in [Senders -> Account]
  BY <1>1, StoreFields
<1>5. acc \in Account
  BY <1>4 DEF Account
<1> HIDE DEF a, acc, n
<1>6. a \in [Senders -> Account] /\ \A s \in Senders : a[s] = IF s = t.from THEN acc ELSE ms.accs[s]
  BY Zenon, <1>3, <1>4, <1>5
<1>7. Charged(ms, t, c) = [ms EXCEPT !.accs = a, !.collector = n] /\ n \in Nat
  BY Zenon, <1>4 DEF Charged, a, n
<1>8. Charged(ms, t, c) \in MultiStore
  <2>1. [ms EXCEPT !.accs = a, !.collector = n] \in MultiStore
    BY Zenon, <1>6, <1>7, StoreWith
  <2> QED BY Zenon, <1>7, <2>1
<1>9. /\ Charged(ms, t, c).results = ms.results /\ Charged(ms, t, c).blooms = ms.blooms
      /\ Charged(ms, t, c).collector = n
      /\ Charged(ms, t, c).accs = a
  BY Zenon, <1>7 DEF MultiStore
<1>10. acc.seq = ms.accs[t.from].seq + 1 /\ acc.coins = ms.accs[t.from].coins - Fee(t)
  BY Zenon DEF acc
<1>11. ASSUME NEW s \in Senders
       PROVE  /\ a[s].seq = ms.accs[s].seq + (IF s = t.from THEN 1 ELSE 0)
              /\ a[s].coins = ms.accs[s].coins - (IF s = t.from THEN Fee(t) ELSE 0)
  <2>1. CASE s = t.from
    BY Zenon, <1>6, <1>10, <2>1
  <2>2. CASE s # t.from
    <3>1. a[s] = ms.accs[s] /\ ms.accs[s].seq \in Nat /\ ms.accs[s].coins \in Nat
      BY Zenon, <1>6, <2>2, StoreFields
    <3> QED BY <2>2, <3>1
  <2> QED BY Zenon, <2>1, <2>2
<1> QED BY Zenon, <1>8, <1>9, <1>11 DEF n

\* A successful execution moves the amount from the sender to the recipient or to a contract.
LEMMA Transferring ==
  ASSUME NEW ms \in MultiStore, NEW t \in Txs, ms.accs[t.from].coins >= t.amount
  PROVE  /\ Transfer(ms, t) \in MultiStore
         /\ Transfer(ms, t).results = ms.results /\ Transfer(ms, t).blooms = ms.blooms
         /\ Transfer(ms, t).collector = ms.collector
         /\ \A s \in Senders :
              /\ Transfer(ms, t).accs[s].seq = ms.accs[s].seq
              /\ Transfer(ms, t).accs[s].coins = ms.accs[s].coins - (IF s = t.from THEN t.amount ELSE 0)
                                                   + (IF s = t.to THEN t.amount ELSE 0)
<1> DEFINE new == Transfer(ms, t)
           less == [ms.accs[t.from] EXCEPT !.coins = @ - t.amount]
           b == [ms.accs EXCEPT ![t.from] = less]
<1>1. t.from \in Senders /\ t.to \in Senders \cup {Nobody} /\ t.amount \in Nat /\ Nobody \notin Senders
  BY Zenon, TxFields, GasAssumption
<1>2. /\ ms.accs[t.from].coins - t.amount \in Nat /\ ms.contracts + t.amount \in Nat
      /\ ms.accs \in [Senders -> Account] /\ ms.accs[t.from] \in Account
      /\ \A s \in Senders : ms.accs[s].coins \in Nat
  BY <1>1, StoreFields
<1>3. /\ less \in Account /\ less.seq = ms.accs[t.from].seq
      /\ less.coins = ms.accs[t.from].coins - t.amount
  BY <1>2 DEF Account
<1> HIDE DEF less
<1>4. b \in [Senders -> Account] /\ \A s \in Senders : b[s] = IF s = t.from THEN less ELSE ms.accs[s]
  BY Zenon, <1>2, <1>3
<1>5. CASE t.to = Nobody
  <2>1. new = [ms EXCEPT !.accs = b, !.contracts = ms.contracts + t.amount]
    BY <1>1, <1>2, <1>5 DEF Transfer, less, MultiStore
  <2> HIDE DEF new, b
  <2>2. new \in MultiStore
    BY Zenon, <1>2, <1>4, <2>1, StoreWith
  <2>3. new.results = ms.results /\ new.blooms = ms.blooms /\ new.collector = ms.collector /\ new.accs = b
    BY Zenon, <2>1 DEF MultiStore
  <2>4. ASSUME NEW s \in Senders
        PROVE  /\ b[s].seq = ms.accs[s].seq
               /\ b[s].coins = ms.accs[s].coins - (IF s = t.from THEN t.amount ELSE 0) + (IF s = t.to THEN t.amount ELSE 0)
    <3>1. s # t.to /\ ms.accs[s].coins \in Nat
      BY Zenon, <1>1, <1>2, <1>5
    <3>2. CASE s = t.from
      BY <1>1, <1>2, <1>3, <1>4, <3>1, <3>2
    <3>3. CASE s # t.from
      BY <1>4, <3>1, <3>3
    <3> QED BY Zenon, <3>2, <3>3
  <2> QED BY Zenon, <2>2, <2>3, <2>4 DEF new
<1>6. CASE t.to # Nobody
  <2> DEFINE more == [found |-> TRUE, seq |-> b[t.to].seq, coins |-> b[t.to].coins + t.amount]
             d == [b EXCEPT ![t.to] = more]
  <2>1. t.to \in Senders /\ b[t.to] \in Account /\ b[t.to].coins \in Nat
    BY Zenon, <1>1, <1>4, <1>6 DEF Account
  <2>2. new = [ms EXCEPT !.accs = d]
    BY Zenon, <1>6 DEF Transfer, less
  <2> HIDE DEF new, b
  <2>3. more \in Account /\ more.seq = b[t.to].seq /\ more.coins = b[t.to].coins + t.amount
    <3>1. b[t.to].coins + t.amount \in Nat
      BY <1>1, <2>1
    <3> QED BY Zenon, <2>1, <3>1 DEF Account
  <2> HIDE DEF more
  <2>4. d \in [Senders -> Account] /\ \A s \in Senders : d[s] = IF s = t.to THEN more ELSE b[s]
    BY Zenon, <1>4, <2>1, <2>3
  <2> HIDE DEF d
  <2>5. new \in MultiStore
    BY Zenon, <2>2, <2>4, StoreWith
  <2>6. new.results = ms.results /\ new.blooms = ms.blooms /\ new.collector = ms.collector /\ new.accs = d
    BY Zenon, <2>2 DEF MultiStore
  <2>7. ASSUME NEW s \in Senders
        PROVE  /\ d[s].seq = ms.accs[s].seq
               /\ d[s].coins = ms.accs[s].coins - (IF s = t.from THEN t.amount ELSE 0) + (IF s = t.to THEN t.amount ELSE 0)
    <3>1. b[s].seq = ms.accs[s].seq /\ b[s].coins = ms.accs[s].coins - (IF s = t.from THEN t.amount ELSE 0)
      <4>1. CASE s = t.from
        BY Zenon, <1>3, <1>4, <4>1
      <4>2. CASE s # t.from
        BY <1>2, <1>4, <4>2
      <4> QED BY Zenon, <4>1, <4>2
    <3>2. CASE s = t.to
      BY <1>1, <1>2, <2>3, <2>4, <3>1, <3>2
    <3>3. CASE s # t.to
      <4>1. b[s].coins \in Int
        BY <1>1, <1>2, <3>1
      <4> QED BY <2>4, <3>1, <3>3, <4>1
    <3> QED BY Zenon, <3>2, <3>3
  <2> QED BY Zenon, <2>5, <2>6, <2>7 DEF new
<1> QED BY Zenon, <1>5, <1>6 DEF new

\* The refund goes from the fee collector to the sender.
LEMMA Refunding ==
  ASSUME NEW ms \in MultiStore, NEW t \in Txs, NEW used, GasRefund(t, used) \in Nat, ms.collector >= GasRefund(t, used)
  PROVE  /\ Refund(ms, t, used) \in MultiStore
         /\ Refund(ms, t, used).results = ms.results /\ Refund(ms, t, used).blooms = ms.blooms
         /\ Refund(ms, t, used).collector = ms.collector - GasRefund(t, used)
         /\ \A s \in Senders :
              /\ Refund(ms, t, used).accs[s].seq = ms.accs[s].seq
              /\ Refund(ms, t, used).accs[s].coins = ms.accs[s].coins + (IF s = t.from THEN GasRefund(t, used) ELSE 0)
<1> DEFINE new == Refund(ms, t, used)
           x == GasRefund(t, used)
           more == [ms.accs[t.from] EXCEPT !.coins = @ + x]
           b == [ms.accs EXCEPT ![t.from] = more]
           n == ms.collector - x
<1> HIDE DEF x
<1>1. t.from \in Senders /\ x \in Nat
  BY Zenon, TxFields DEF x
<1>2. /\ ms.accs[t.from].coins + x \in Nat /\ n \in Nat
      /\ ms.accs \in [Senders -> Account] /\ ms.accs[t.from] \in Account
      /\ \A s \in Senders : ms.accs[s].coins \in Nat
  <2>1. ms.collector >= x /\ ms.collector \in Nat
    BY Zenon, StoreFields DEF x
  <2> QED BY <1>1, <2>1, StoreFields
<1>3. more \in Account /\ more.seq = ms.accs[t.from].seq /\ more.coins = ms.accs[t.from].coins + x
  BY <1>2 DEF Account
<1> HIDE DEF more
<1>4. b \in [Senders -> Account] /\ \A s \in Senders : b[s] = IF s = t.from THEN more ELSE ms.accs[s]
  BY Zenon, <1>2, <1>3
<1>5. new = [ms EXCEPT !.accs = b, !.collector = n]
  BY <1>1, <1>2 DEF Refund, more, x, MultiStore
<1> HIDE DEF new, b, n
<1>6. new \in MultiStore
  BY Zenon, <1>2, <1>4, <1>5, StoreWith
<1>7. new.results = ms.results /\ new.blooms = ms.blooms /\ new.collector = n /\ new.accs = b
  BY Zenon, <1>5 DEF MultiStore
<1>8. ASSUME NEW s \in Senders
      PROVE  b[s].seq = ms.accs[s].seq /\ b[s].coins = ms.accs[s].coins + (IF s = t.from THEN x ELSE 0)
  <2>1. CASE s = t.from
    BY Zenon, <1>3, <1>4, <2>1
  <2>2. CASE s # t.from
    BY <1>2, <1>4, <2>2
  <2> QED BY Zenon, <2>1, <2>2
<1> QED BY Zenon, <1>6, <1>7, <1>8 DEF new, n, x

\* The result of a transaction is put behind the others.
Added(ms, r) == [ms EXCEPT !.results = Append(@, r)]

\* A result is written behind the others.
LEMMA Recording ==
  ASSUME NEW ms \in MultiStore, NEW r \in Result
  PROVE  /\ Added(ms, r) \in MultiStore
         /\ Added(ms, r).results = Append(ms.results, r) /\ Added(ms, r).blooms = ms.blooms
         /\ Added(ms, r).collector = ms.collector
         /\ Added(ms, r).accs = ms.accs
<1> DEFINE done == Append(ms.results, r)
           new == Added(ms, r)
<1>1. new = [ms EXCEPT !.results = done]
  BY Zenon DEF Added
<1>2. done \in Seq(Result)
  BY StoreFields
<1> HIDE DEF done, new
<1>3. /\ new \in MultiStore /\ new.results = done /\ new.blooms = ms.blooms
      /\ new.collector = ms.collector /\ new.accs = ms.accs
  BY Zenon, <1>1, <1>2 DEF MultiStore
<1> QED BY Zenon, <1>3 DEF new, done

----------------------------------------------------------------------------
\* DeliverTx changes the multi-store not at all or as Effect says.

\* An execution uses a natural number of gas; it runs out of gas only below the intrinsic cost
\* and succeeds only where the sender can pay the amount.
LEMMA OutcomeFacts ==
  ASSUME NEW t \in Txs, NEW coins \in Int, NEW o \in Outcomes(t, coins)
  PROVE  /\ o \in Outcome /\ o.kind # "notAccepted"
         /\ o.kind = "outOfGas" => t.gas < IntrinsicGas(t, TRUE)
         /\ o.kind = "executed" => coins >= t.amount
<1> DEFINE cost == IntrinsicGas(t, TRUE)
<1>1. cost \in Nat /\ t.gas \in Nat
  BY Zenon, IntrinsicGasFalls, TxFields
<1>2. CASE t.gas < cost
  <2>1. o = [kind |-> "outOfGas", used |-> cost, logs |-> 0]
    <3>1. Outcomes(t, coins) = {[kind |-> "outOfGas", used |-> cost, logs |-> 0]}
      BY <1>2 DEF Outcomes
    <3> QED BY Zenon, <3>1
  <2> HIDE DEF cost
  <2>2. o \in Outcome
    BY <1>1, <2>1 DEF Outcome, Kinds
  <2>3. o.kind = "outOfGas"
    BY Zenon, <2>1
  <2> QED BY Zenon, <1>2, <2>2, <2>3 DEF cost
<1>3. CASE ~(t.gas < cost)
  <2>1. \/ \E k \in {"refused", "panic"} : o = [kind |-> k, used |-> cost, logs |-> 0]
        \/ \E used \in cost .. t.gas : o = [kind |-> "failed", used |-> used, logs |-> 0]
        \/ \E used \in {u \in cost .. t.gas : coins >= t.amount}, logs \in 0 .. 1 :
             o = [kind |-> "executed", used |-> used, logs |-> logs]
    <3>1. Outcomes(t, coins) =
            {[kind |-> k, used |-> cost, logs |-> 0] : k \in {"refused", "panic"}}
              \cup {[kind |-> "failed", used |-> used, logs |-> 0] : used \in cost .. t.gas}
              \cup {[kind |-> "executed", used |-> used, logs |-> logs] :
                       used \in {u \in cost .. t.gas : coins >= t.amount}, logs \in 0 .. 1}
      BY <1>3 DEF Outcomes
    <3> HIDE DEF cost
    <3> QED BY <3>1
  <2> HIDE DEF cost
  <2>2. CASE \E k \in {"refused", "panic"} : o = [kind |-> k, used |-> cost, logs |-> 0]
    <3>1. PICK k \in {"refused", "panic"} : o = [kind |-> k, used |-> cost, logs |-> 0]
      BY Zenon, <2>2
    <3>2. o.kind = k
      BY Zenon, <3>1
    <3> QED BY Zenon, <1>1, <3>1, <3>2 DEF Outcome, Kinds
  <2>3. CASE \E used \in cost .. t.gas : o = [kind |-> "failed", used |-> used, logs |-> 0]
    <3>1. PICK used \in cost .. t.gas : o = [kind |-> "failed", used |-> used, logs |-> 0]
      BY Zenon, <2>3
    <3>2. used \in Nat
      BY <1>1
    <3> QED BY <3>1, <3>2 DEF Outcome, Kinds
  <2>4. CASE \E used \in {u \in cost .. t.gas : coins >= t.amount}, logs \in 0 .. 1 :
               o = [kind |-> "executed", used |-> used, logs |-> logs]
    <3>1. PICK used \in cost .. t.gas, logs \in 0 .. 1 :
            coins >= t.amount /\ o = [kind |-> "executed", used |-> used, logs |-> logs]
      BY Zenon, <2>4
    <3>2. used \in Nat /\ logs \in Nat
      BY <1>1
    <3> QED BY <3>1, <3>2 DEF Outcome, Kinds
  <2> QED BY Zenon, <2>1, <2>2, <2>3, <2>4
<1> QED BY Zenon, <1>2, <1>3

\* Accepted in deliver mode: the nonce is the sequence, and the fee can be paid.
LEMMA AcceptedFacts ==
  ASSUME NEW t, NEW accs, NEW c, AnteAccepts("deliver", t, accs, 0, c)
  PROVE  t.nonce = accs[t.from].seq /\ accs[t.from].coins >= Fee(t)
<1>1. NonceAccepted("deliver", t, accs[t.from].seq, 0, c) /\ accs[t.from].coins >= Fee(t)
  BY Zenon DEF AnteAccepts
<1>2. t.nonce = accs[t.from].seq
  BY <1>1 DEF NonceAccepted
<1> QED BY Zenon, <1>1, <1>2

\* The result carries the keeper's counters; a message that failed leaves no logs.
Numbered(t, o, r) ==
  /\ r.tx = t /\ r.height = committed.height + 1
  /\ t.kind = "eth" => /\ r.index = keeper.TxCount /\ r.firstLog = keeper.LogSize
                       /\ r.logs = IF ResultKind(o) = "executed" THEN o.logs ELSE 0

Run(t, o, r) == Effect(deliver, deliver', r) /\ Numbered(t, o, r) /\ deliver'.blooms = deliver.blooms

\* What is recorded after a refund is Effect: handleMsgEthereumTx.
LEMMA EthereumTxEffect ==
  ASSUME TypeOK, NEW t \in Txs, NEW o, AnteAccepts("deliver", t, deliver.accs, 0, conf),
         o \in Outcomes(t, deliver.accs[t.from].coins - Fee(t)), handleMsgEthereumTx(t, o)
  PROVE  deliver' \in MultiStore /\ \E r \in Result : Run(t, o, r)
<1> DEFINE ch == Charged(deliver, t, conf)
           k == ResultKind(o)
           amount == IF k = "executed" THEN t.amount ELSE 0
           ex == IF k = "executed" THEN Transfer(ch, t) ELSE ch
           back == GasRefund(t, o.used)
           rf == Refund(ex, t, o.used)
           logs == IF k = "executed" THEN o.logs ELSE 0
<1>1. deliver' = Record(rf, t, k, o.used, keeper.TxCount, keeper.LogSize, logs)
  BY Zenon DEF handleMsgEthereumTx, Charged
<1>2. /\ t.from \in Senders /\ t.amount \in Nat
      /\ deliver \in MultiStore /\ committed \in MultiStore
      /\ keeper.TxCount \in Nat /\ keeper.LogSize \in Nat
  BY Zenon, TxFields DEF TypeOK
<1>3. t.nonce = deliver.accs[t.from].seq /\ deliver.accs[t.from].coins >= Fee(t)
  BY Zenon, AcceptedFacts
<1>4. t.price * t.gas \in Nat /\ Fee(t) \in Nat
  BY TxFields DEF Fee
<1>5. deliver.collector \in Nat /\ \A s \in Senders : deliver.accs[s].seq \in Nat /\ deliver.accs[s].coins \in Nat
  BY Zenon, <1>2, StoreFields
<1>6. deliver.accs[t.from].coins - Fee(t) \in Int
  BY <1>2, <1>4, <1>5
<1>7. /\ o \in Outcome
      /\ o.kind = "outOfGas" => t.gas < IntrinsicGas(t, TRUE)
      /\ o.kind = "executed" => deliver.accs[t.from].coins - Fee(t) >= t.amount
  BY Zenon, <1>6, OutcomeFacts
<1>8. o.used \in Nat /\ o.logs \in Nat /\ o.kind \in Kinds
  BY Zenon, <1>7 DEF Outcome
<1>9. k \in Kinds /\ (k = "executed" => o.kind = "executed") /\ (k = "outOfGas" => o.kind = "outOfGas")
  BY <1>8 DEF ResultKind, Kinds
<1>10. logs \in Nat /\ amount \in Nat
  BY <1>2, <1>8
<1> HIDE DEF ch, k, logs
<1>11. /\ ch \in MultiStore /\ ch.results = deliver.results /\ ch.blooms = deliver.blooms
       /\ ch.collector = deliver.collector + Fee(t)
       /\ \A s \in Senders :
            /\ ch.accs[s].seq = deliver.accs[s].seq + (IF s = t.from THEN 1 ELSE 0)
            /\ ch.accs[s].coins = deliver.accs[s].coins - (IF s = t.from THEN Fee(t) ELSE 0)
  BY <1>2, <1>3, <1>4, Charging DEF ch
<1>12. \A s \in Senders : ch.accs[s].coins \in Nat
  BY Zenon, <1>11, StoreFields
<1>13. /\ ex \in MultiStore /\ ex.results = deliver.results /\ ex.blooms = deliver.blooms
       /\ ex.collector = deliver.collector + Fee(t)
       /\ \A s \in Senders :
            /\ ex.accs[s].seq = deliver.accs[s].seq + (IF s = t.from THEN 1 ELSE 0)
            /\ ex.accs[s].coins = ch.accs[s].coins - (IF s = t.from THEN amount ELSE 0) + (IF s = t.to THEN amount ELSE 0)
  <2>1. CASE k = "executed"
    <3>1. ch.accs[t.from].coins = deliver.accs[t.from].coins - Fee(t)
      BY Zenon, <1>2, <1>11
    <3>2. ch.accs[t.from].coins >= t.amount
      BY Zenon, <1>7, <1>9, <2>1, <3>1
    <3>3. ex = Transfer(ch, t) /\ amount = t.amount
      BY Zenon, <2>1
    <3> HIDE DEF ex, amount
    <3>4. /\ ex \in MultiStore /\ ex.results = ch.results /\ ex.blooms = ch.blooms /\ ex.collector = ch.collector
          /\ \A s \in Senders :
               /\ ex.accs[s].seq = ch.accs[s].seq
               /\ ex.accs[s].coins = ch.accs[s].coins - (IF s = t.from THEN amount ELSE 0) + (IF s = t.to THEN amount ELSE 0)
      BY <1>11, <3>2, <3>3, Transferring
    <3> QED BY Zenon, <1>11, <3>4
  <2>2. CASE k # "executed"
    <3>1. ex = ch /\ amount = 0
      BY Zenon, <2>2
    <3> HIDE DEF ex, amount
    <3>2. \A s \in Senders : ch.accs[s].coins = ch.accs[s].coins - (IF s = t.from THEN 0 ELSE 0) + (IF s = t.to THEN 0 ELSE 0)
      BY <1>12
    <3> QED BY Zenon, <1>11, <3>1, <3>2
  <2> QED BY Zenon, <2>1, <2>2
<1> HIDE DEF ex
<1>14. /\ back \in Nat
       /\ \A r : r.tx = t /\ r.used = o.used => Paid(r) \in Nat /\ Fee(t) = back + Paid(r)
  <2>1. \A r : r.tx = t /\ r.used = o.used => back \in Nat /\ Paid(r) \in Nat /\ Fee(t) = back + Paid(r)
    BY Zenon, <1>8, Refunds
  <2> DEFINE r == [tx |-> t, used |-> o.used]
  <2>2. r.tx = t /\ r.used = o.used
    OBVIOUS
  <2> QED BY Zenon, <2>1, <2>2
<1>15. back <= Fee(t)
  <2> DEFINE r == [tx |-> t, used |-> o.used]
  <2>1. r.tx = t /\ r.used = o.used
    OBVIOUS
  <2>2. Paid(r) \in Nat /\ Fee(t) = back + Paid(r)
    BY Zenon, <1>14, <2>1
  <2> HIDE DEF r, back
  <2> QED BY <1>14, <2>2
<1> HIDE DEF back
<1>16. ex.collector >= back
  BY <1>4, <1>5, <1>13, <1>14, <1>15
<1>17. /\ rf \in MultiStore /\ rf.results = ex.results /\ rf.blooms = ex.blooms /\ rf.collector = ex.collector - back
       /\ \A s \in Senders :
            /\ rf.accs[s].seq = ex.accs[s].seq
            /\ rf.accs[s].coins = ex.accs[s].coins + (IF s = t.from THEN back ELSE 0)
  <2> HIDE DEF ex
  <2> QED BY <1>13, <1>14, <1>16, Refunding DEF back
<1> HIDE DEF rf
<1> DEFINE r == [tx |-> t, kind |-> k, height |-> committed.height + 1, used |-> o.used, index |-> keeper.TxCount,
                 firstLog |-> keeper.LogSize, logs |-> logs]
<1>18. /\ r \in Result
       /\ r.tx = t /\ r.kind = k /\ r.used = o.used
       /\ r.height = committed.height + 1 /\ r.index = keeper.TxCount /\ r.firstLog = keeper.LogSize /\ r.logs = logs
       /\ deliver' \in MultiStore /\ deliver'.results = Append(deliver.results, r)
       /\ deliver'.blooms = deliver.blooms
       /\ deliver'.collector = rf.collector /\ deliver'.accs = rf.accs
  <2>1. committed.height + 1 \in Nat
    BY <1>2, StoreFields
  <2>2. r \in Result
    BY Zenon, <1>2, <1>8, <1>9, <1>10, <2>1 DEF Result
  <2>3. /\ r.tx = t /\ r.kind = k /\ r.used = o.used
        /\ r.height = committed.height + 1 /\ r.index = keeper.TxCount /\ r.firstLog = keeper.LogSize /\ r.logs = logs
    BY Zenon
  <2>4. deliver' = Added(rf, r)
    BY Zenon, <1>1 DEF Record, Added
  <2>5. rf.results = deliver.results /\ rf.blooms = deliver.blooms
    BY Zenon, <1>13, <1>17
  <2> HIDE DEF r
  <2>6. /\ Added(rf, r) \in MultiStore
        /\ Added(rf, r).results = Append(rf.results, r) /\ Added(rf, r).blooms = rf.blooms
        /\ Added(rf, r).collector = rf.collector
        /\ Added(rf, r).accs = rf.accs
    <3>1. rf \in MultiStore
      BY Zenon, <1>17
    <3> QED BY Zenon, <2>2, <3>1, Recording
  <2> QED BY Zenon, <2>2, <2>3, <2>4, <2>5, <2>6
<1> HIDE DEF r
<1>19. Sent(r) = amount
  BY Zenon, <1>18 DEF Sent
<1> HIDE DEF amount
<1>20. deliver'.collector = deliver.collector + Paid(r) /\ Paid(r) \in Nat /\ Fee(t) = back + Paid(r)
  <2>1. Paid(r) \in Nat /\ Fee(t) = back + Paid(r)
    BY Zenon, <1>14, <1>18
  <2> QED BY <1>5, <1>13, <1>14, <1>17, <1>18, <2>1
<1>21. ASSUME NEW s \in Senders
       PROVE  /\ deliver'.accs[s].seq = deliver.accs[s].seq + (IF s = t.from THEN 1 ELSE 0)
              /\ deliver'.accs[s].coins = deliver.accs[s].coins - (IF s = t.from THEN Paid(r) ELSE 0)
                                            - (IF s = t.from THEN Sent(r) ELSE 0) + (IF s = t.to THEN Sent(r) ELSE 0)
  <2> DEFINE a == IF s = t.from THEN amount ELSE 0
             b == IF s = t.to THEN amount ELSE 0
  <2>1. a \in Nat /\ b \in Nat
    BY Zenon, <1>10, 0 \in Nat
  <2>2. deliver'.accs[s].coins = deliver.accs[s].coins - (IF s = t.from THEN Fee(t) ELSE 0) - a + b
                                   + (IF s = t.from THEN back ELSE 0)
    <3>1. deliver'.accs[s].coins = ex.accs[s].coins + (IF s = t.from THEN back ELSE 0)
      BY Zenon, <1>17, <1>18
    <3>2. ex.accs[s].coins = ch.accs[s].coins - a + b
      BY Zenon, <1>13
    <3>3. ch.accs[s].coins = deliver.accs[s].coins - (IF s = t.from THEN Fee(t) ELSE 0)
      BY Zenon, <1>11
    <3> HIDE DEF a, b
    <3> QED BY Zenon, <3>1, <3>2, <3>3
  <2> HIDE DEF a, b
  <2>3. deliver'.accs[s].coins = deliver.accs[s].coins - (IF s = t.from THEN Paid(r) ELSE 0) - a + b
    BY <1>5, <1>14, <1>20, <2>1, <2>2
  <2>4. deliver'.accs[s].seq = deliver.accs[s].seq + (IF s = t.from THEN 1 ELSE 0)
    <3>1. deliver'.accs[s].seq = ex.accs[s].seq
      BY Zenon, <1>17, <1>18
    <3> QED BY Zenon, <1>13, <3>1
  <2> QED BY Zenon, <1>19, <2>3, <2>4 DEF a, b
<1>22. Effect(deliver, deliver', r)
  BY Zenon, <1>3, <1>7, <1>9, <1>18, <1>20, <1>21 DEF Effect
<1>23. Numbered(t, o, r)
  BY Zenon, <1>18 DEF Numbered, logs, k
<1> QED BY Zenon, <1>18, <1>22, <1>23 DEF Run

\* A StdTx with a MsgEthermint pays its whole fee: handleMsgEthermint.
LEMMA EthermintEffect ==
  ASSUME TypeOK, NEW t \in Txs, NEW o, t.kind = "ethermint", StdAccepts(t, deliver.accs), handleMsgEthermint(t)
  PROVE  deliver' \in MultiStore /\ \E r \in Result : Run(t, o, r)
<1> DEFINE ch == Charged(deliver, t, conf)
           r == [tx |-> t, kind |-> "notAllowed", height |-> committed.height + 1, used |-> t.gas, index |-> 0,
                 firstLog |-> 0, logs |-> 0]
<1>1. t.from \in Senders /\ t.gas \in Nat /\ t.price \in Nat /\ deliver \in MultiStore /\ committed \in MultiStore
  BY Zenon, TxFields DEF TypeOK
<1>2. t.nonce = deliver.accs[t.from].seq /\ deliver.accs[t.from].coins >= Fee(t)
  BY Zenon DEF StdAccepts
<1>3. Fee(t) \in Nat /\ Fee(t) = t.price * t.gas
  BY <1>1 DEF Fee
<1>4. deliver' = Added(ch, r)
  <2>1. Increments("deliver", conf)
    BY DEF Increments
  <2>2. ch = [deliver EXCEPT !.collector = @ + Fee(t),
                !.accs[t.from] = [found |-> TRUE, seq |-> @.seq + 1, coins |-> @.coins - Fee(t)]]
    BY Zenon, <1>1, <2>1 DEF Charged, AnteHandle, MultiStore
  <2> HIDE DEF ch
  <2> QED BY Zenon, <2>2 DEF handleMsgEthermint, Record, Added
<1>5. committed.height + 1 \in Nat
  BY <1>1, StoreFields
<1>6. r \in Result /\ r.tx = t /\ r.kind = "notAllowed" /\ r.used = t.gas /\ r.height = committed.height + 1
  BY <1>1, <1>5 DEF Result, Kinds
<1>7. Paid(r) = Fee(t) /\ Sent(r) = 0
  <2> HIDE DEF r
  <2>1. Sent(r) = 0
    BY <1>6 DEF Sent
  <2>2. GasPaid(r) = t.gas
    BY Zenon, <1>6 DEF GasPaid
  <2> QED BY Zenon, <1>3, <1>6, <2>1, <2>2 DEF Paid
<1> HIDE DEF ch, r
<1>8. /\ ch \in MultiStore /\ ch.results = deliver.results /\ ch.blooms = deliver.blooms
      /\ ch.collector = deliver.collector + Fee(t)
      /\ \A s \in Senders :
           /\ ch.accs[s].seq = deliver.accs[s].seq + (IF s = t.from THEN 1 ELSE 0)
           /\ ch.accs[s].coins = deliver.accs[s].coins - (IF s = t.from THEN Fee(t) ELSE 0)
  BY <1>1, <1>2, <1>3, Charging DEF ch
<1>9. /\ deliver' \in MultiStore /\ deliver'.results = Append(deliver.results, r) /\ deliver'.blooms = deliver.blooms
      /\ deliver'.collector = deliver.collector + Paid(r) /\ deliver'.accs = ch.accs
  <2>1. ch \in MultiStore
    BY Zenon, <1>8
  <2>2. /\ Added(ch, r) \in MultiStore
        /\ Added(ch, r).results = Append(ch.results, r) /\ Added(ch, r).blooms = ch.blooms
        /\ Added(ch, r).collector = ch.collector
        /\ Added(ch, r).accs = ch.accs
    BY Zenon, <1>6, <2>1, Recording
  <2> QED BY Zenon, <1>4, <1>7, <1>8, <2>2
<1>10. ASSUME NEW s \in Senders
       PROVE  /\ deliver'.accs[s].seq = deliver.accs[s].seq + (IF s = t.from THEN 1 ELSE 0)
              /\ deliver'.accs[s].coins = deliver.accs[s].coins - (IF s = t.from THEN Paid(r) ELSE 0)
                                            - (IF s = t.from THEN Sent(r) ELSE 0) + (IF s = t.to THEN Sent(r) ELSE 0)
  <2>1. deliver.accs[s].coins \in Nat
    BY Zenon, <1>1, StoreFields
  <2>2. deliver'.accs[s].coins = deliver.accs[s].coins - (IF s = t.from THEN Paid(r) ELSE 0)
    BY Zenon, <1>7, <1>8, <1>9
  <2>3. deliver'.accs[s].seq = deliver.accs[s].seq + (IF s = t.from THEN 1 ELSE 0)
    BY Zenon, <1>8, <1>9
  <2> QED BY <1>3, <1>7, <2>1, <2>2, <2>3
<1>11. r.kind # "outOfGas"
  BY <1>6
<1>12. Effect(deliver, deliver', r)
  BY Zenon, <1>2, <1>6, <1>9, <1>10, <1>11 DEF Effect
<1>13. Numbered(t, o, r)
  <2>1. t.kind # "eth"
    OBVIOUS
  <2> QED BY Zenon, <1>6, <2>1 DEF Numbered
<1> QED BY Zenon, <1>6, <1>9, <1>12, <1>13 DEF Run

\* Every way through DeliverTx.
LEMMA DeliverEffect ==
  ASSUME TypeOK, NEW t \in Txs, NEW o, Deliver(t, o)
  PROVE  /\ deliver' \in MultiStore
         /\ deliver' = deliver \/ \E r \in Result : Run(t, o, r)
<1>1. CASE /\ AnteAccepts("deliver", t, deliver.accs, 0, conf)
           /\ o \in Outcomes(t, deliver.accs[t.from].coins - Fee(t))
           /\ handleMsgEthereumTx(t, o)
  BY Zenon, <1>1, EthereumTxEffect
<1>2. CASE t.kind = "ethermint" /\ StdAccepts(t, deliver.accs) /\ handleMsgEthermint(t)
  BY Zenon, <1>2, EthermintEffect
<1>3. CASE UNCHANGED <<deliver, keeper, watcher>>
  BY Zenon, <1>3 DEF TypeOK
<1> QED BY Zenon, <1>1, <1>2, <1>3 DEF Deliver

----------------------------------------------------------------------------
\* The facts about a multi-store survive Effect.

\* The fields of a result.
LEMMA ResultFields ==
  ASSUME NEW r \in Result
  PROVE  /\ r.tx \in Txs /\ r.tx.from \in Senders /\ r.tx.nonce \in Nat
         /\ r.used \in Nat /\ Paid(r) \in Nat /\ Sent(r) \in Nat
<1>1. r.tx \in Txs /\ r.used \in Nat
  BY Zenon DEF Result
<1>2. r.tx.from \in Senders /\ r.tx.nonce \in Nat /\ r.tx.amount \in Nat
  BY Zenon, <1>1, TxFields
<1>3. Paid(r) \in Nat
  BY Zenon, <1>1, Refunds
<1>4. Sent(r) \in Nat
  <2>1. 0 \in Nat
    OBVIOUS
  <2> QED BY Zenon, <1>2, <2>1 DEF Sent
<1> QED BY Zenon, <1>1, <1>2, <1>3, <1>4

\* One more result: the positions and what is at them.
Extended(done, r, all, n) ==
  /\ IsFiniteSet(DOMAIN done) /\ n \in Int /\ n \notin DOMAIN done
  /\ DOMAIN all = DOMAIN done \cup {n}
  /\ all[n] = r
  /\ \A i \in DOMAIN done : all[i] = done[i] /\ done[i] \in Result /\ i \in Int /\ i < n
  /\ \A s : s = r.tx.from => From(all, s) = From(done, s) \cup {n}
  /\ \A s : s # r.tx.from => From(all, s) = From(done, s)
  /\ \A s : s = r.tx.to => To(all, s) = To(done, s) \cup {n}
  /\ \A s : s # r.tx.to => To(all, s) = To(done, s)

\* Append extends a sequence.
LEMMA AppendFacts ==
  ASSUME NEW done \in Seq(Result), NEW r \in Result
  PROVE  Extended(done, r, Append(done, r), Len(done) + 1)
<1> DEFINE all == Append(done, r)
           n == Len(done) + 1
<1>1. Len(done) \in Nat /\ DOMAIN done = 1 .. Len(done)
  OBVIOUS
<1>2. IsFiniteSet(DOMAIN done)
  BY <1>1, FS_Interval
<1>3. n \in Int /\ n \notin DOMAIN done /\ DOMAIN all = DOMAIN done \cup {n}
  BY <1>1
<1>4. all[n] = r /\ \A i \in DOMAIN done : all[i] = done[i] /\ done[i] \in Result /\ i \in Int /\ i < n
  BY <1>1
<1> HIDE DEF all, n
<1>5. ASSUME NEW s
      PROVE  /\ s = r.tx.from => From(all, s) = From(done, s) \cup {n}
             /\ s # r.tx.from => From(all, s) = From(done, s)
  BY Zenon, <1>3, <1>4 DEF From
<1>6. ASSUME NEW s
      PROVE  /\ s = r.tx.to => To(all, s) = To(done, s) \cup {n}
             /\ s # r.tx.to => To(all, s) = To(done, s)
  BY Zenon, <1>3, <1>4 DEF To
<1>7. Extended(done, r, all, n)
  BY Zenon, <1>2, <1>3, <1>4, <1>5, <1>6 DEF Extended
<1> QED BY Zenon, <1>7 DEF all, n

\* Nonces: the new one is the sequence, and all before it are below.
LEMMA NoncesStep ==
  ASSUME NEW ms \in MultiStore, NEW new \in MultiStore, NEW r \in Result, Effect(ms, new, r), NoncesOk(ms)
  PROVE  NoncesOk(new)
<1> DEFINE done == ms.results
           all == new.results
           n == Len(done) + 1
           f == r.tx.from
           q == ms.accs[f].seq
           Nonces(d, s) == {d[i].tx.nonce : i \in From(d, s)}
<1>1. done \in Seq(Result) /\ all = Append(done, r)
  BY Zenon, StoreFields DEF Effect
<1>2. f \in Senders /\ r.tx.nonce = q /\ q \in Nat
  BY Zenon, ResultFields, StoreFields DEF Effect
<1>3. /\ n \notin DOMAIN done /\ DOMAIN all = DOMAIN done \cup {n} /\ all[n] = r
      /\ \A i \in DOMAIN done : all[i] = done[i] /\ done[i] \in Result /\ i \in Int /\ i < n
      /\ \A s : s = f => From(all, s) = From(done, s) \cup {n}
      /\ \A s : s # f => From(all, s) = From(done, s)
      /\ n \in Int
  <2>1. Extended(done, r, all, n)
    <3> HIDE DEF done, all
    <3> QED BY Zenon, <1>1, AppendFacts
  <2> HIDE DEF done, all, n
  <2> QED BY Zenon, <2>1 DEF Extended
<1>4. \A s \in Senders : new.accs[s].seq = ms.accs[s].seq + (IF s = f THEN 1 ELSE 0) /\ ms.accs[s].seq \in Nat
  BY Zenon, StoreFields DEF Effect
<1>5. /\ \A i, j \in DOMAIN done : i < j /\ done[i].tx.from = done[j].tx.from => done[i].tx.nonce < done[j].tx.nonce
      /\ \A s \in Senders : Nonces(done, s) = 0 .. ms.accs[s].seq - 1
  BY Zenon DEF NoncesOk
<1> HIDE DEF n, f, q, done, all
<1>7. ASSUME NEW i \in DOMAIN all, NEW j \in DOMAIN all, i < j, all[i].tx.from = all[j].tx.from
      PROVE  all[i].tx.nonce < all[j].tx.nonce
  <2>1. i \in DOMAIN done
    <3>1. i # n
      BY <1>3, <1>7
    <3> QED BY Zenon, <1>3, <3>1
  <2>2. CASE j \in DOMAIN done
    BY Zenon, <1>3, <1>5, <1>7, <2>1, <2>2
  <2>3. CASE j = n
    <3>1. done[i].tx.from = f /\ all[i].tx.nonce = done[i].tx.nonce /\ all[j].tx.nonce = q
      BY Zenon, <1>2, <1>3, <1>7, <2>1, <2>3 DEF f
    <3>2. done[i].tx.nonce \in Nonces(done, f)
      BY Zenon, <2>1, <3>1 DEF From
    <3>3. done[i].tx.nonce \in 0 .. q - 1
      BY Zenon, <1>2, <1>5, <3>2 DEF q
    <3> QED BY <1>2, <3>1, <3>3
  <2> QED BY Zenon, <1>3, <2>2, <2>3
<1>8. ASSUME NEW s \in Senders
      PROVE  Nonces(all, s) = 0 .. new.accs[s].seq - 1
  <2>1. \A i \in From(done, s) : all[i] = done[i]
    BY Zenon, <1>3 DEF From
  <2>2. CASE s = f
    <3>1. From(all, s) = From(done, s) \cup {n}
      BY Zenon, <1>3, <2>2
    <3>2. Nonces(all, s) = Nonces(done, s) \cup {q}
      <4>1. ASSUME NEW x \in Nonces(all, s) PROVE x \in Nonces(done, s) \cup {q}
        <5>1. PICK i \in From(all, s) : x = all[i].tx.nonce
          BY Zenon
        <5>2. CASE i = n
          BY Zenon, <1>2, <1>3, <5>1, <5>2
        <5>3. CASE i \in From(done, s)
          BY Zenon, <2>1, <5>1, <5>3
        <5> QED BY Zenon, <3>1, <5>2, <5>3
      <4>2. ASSUME NEW x \in Nonces(done, s) PROVE x \in Nonces(all, s)
        <5>1. PICK i \in From(done, s) : x = done[i].tx.nonce
          BY Zenon
        <5>2. i \in From(all, s) /\ x = all[i].tx.nonce
          BY Zenon, <2>1, <3>1, <5>1
        <5> QED BY Zenon, <5>2
      <4>3. q \in Nonces(all, s)
        <5>1. n \in From(all, s) /\ q = all[n].tx.nonce
          BY Zenon, <1>2, <1>3, <3>1
        <5> QED BY Zenon, <5>1
      <4> HIDE DEF Nonces
      <4> QED BY Zenon, <4>1, <4>2, <4>3
    <3>3. Nonces(done, s) = 0 .. q - 1 /\ new.accs[s].seq = q + 1
      BY Zenon, <1>4, <1>5, <2>2 DEF q
    <3>4. (0 .. q - 1) \cup {q} = 0 .. (q + 1) - 1
      BY <1>2
    <3> HIDE DEF Nonces
    <3> QED BY Zenon, <3>2, <3>3, <3>4
  <2>3. CASE s # f
    <3>1. From(all, s) = From(done, s)
      BY Zenon, <1>3, <2>3
    <3>2. Nonces(all, s) = Nonces(done, s)
      BY Zenon, <2>1, <3>1
    <3>3. new.accs[s].seq = ms.accs[s].seq
      BY <1>4, <2>3
    <3> HIDE DEF Nonces
    <3> QED BY Zenon, <1>5, <3>2, <3>3
  <2> QED BY Zenon, <2>2, <2>3
<1> QED BY Zenon, <1>7, <1>8 DEF NoncesOk, all

\* A sum over one more position.
OneMore(S, n, f, g) ==
  /\ SumOf(g, S \cup {n}) = SumOf(f, S) + g[n]
  /\ SumOf(g, S) = SumOf(f, S)
  /\ SumOf(f, S) \in Int

\* A sum over the extended sequence has one more summand where the new place is among its places.
LEMMA SumExtended ==
  ASSUME NEW S, IsFiniteSet(S), NEW n, n \notin S, NEW f, NEW g,
         \A x \in S : f[x] \in Int /\ g[x] = f[x], g[n] \in Int
  PROVE  OneMore(S, n, f, g)
<1>1. SumOf(g, S) = SumOf(f, S)
  BY Zenon, SumEqual
<1>2. SumOf(f, S) \in Int
  BY Zenon, SumInt
<1>3. \A x \in S \cup {n} : g[x] \in Int
  BY Zenon
<1>4. SumOf(g, S \cup {n}) = g[n] + SumOf(g, S)
  BY Zenon, <1>3, SumAdd
<1> QED BY <1>1, <1>2, <1>4 DEF OneMore

\* Sums over the results so far and the new one, by payer, by sender and by recipient.
SumsMove(done, all, r, s) ==
  /\ SumOf(Payments(all), From(all, s)) = SumOf(Payments(done), From(done, s)) + (IF s = r.tx.from THEN Paid(r) ELSE 0)
  /\ SumOf(Sendings(all), From(all, s)) = SumOf(Sendings(done), From(done, s)) + (IF s = r.tx.from THEN Sent(r) ELSE 0)
  /\ SumOf(Sendings(all), To(all, s)) = SumOf(Sendings(done), To(done, s)) + (IF s = r.tx.to THEN Sent(r) ELSE 0)
  /\ SumOf(Payments(done), From(done, s)) \in Int
  /\ SumOf(Sendings(done), From(done, s)) \in Int
  /\ SumOf(Sendings(done), To(done, s)) \in Int

\* The sums of all accounts after one more result.
LEMMA SumsStep ==
  ASSUME NEW ms \in MultiStore, NEW new \in MultiStore, NEW r \in Result, new.results = Append(ms.results, r)
  PROVE  /\ SumOf(Payments(new.results), DOMAIN new.results)
              = SumOf(Payments(ms.results), DOMAIN ms.results) + Paid(r)
         /\ \A s \in Senders : SumsMove(ms.results, new.results, r, s)
<1> DEFINE done == ms.results
           all == new.results
           n == Len(done) + 1
           p == Payments(done)
           pp == Payments(all)
           q == Sendings(done)
           qq == Sendings(all)
<1>1. done \in Seq(Result) /\ all = Append(done, r)
  BY Zenon, StoreFields
<1>2. Extended(done, r, all, n)
  <2> HIDE DEF done, all
  <2> QED BY Zenon, <1>1, AppendFacts
<1>3. Paid(r) \in Int /\ Sent(r) \in Int
  BY ResultFields
<1> HIDE DEF done, all, n
<1>4. pp[n] = Paid(r) /\ qq[n] = Sent(r)
  BY Zenon, <1>2 DEF Extended, Payments, Sendings
<1>5. \A i \in DOMAIN done : p[i] \in Nat /\ q[i] \in Nat /\ pp[i] = p[i] /\ qq[i] = q[i]
  BY Zenon, <1>2, ResultFields DEF Extended, Payments, Sendings
<1>6. \A i \in DOMAIN done : p[i] \in Int /\ q[i] \in Int /\ pp[i] = p[i] /\ qq[i] = q[i]
  BY <1>5
<1> HIDE DEF p, pp, q, qq
<1>7. ASSUME NEW S, S \subseteq DOMAIN done
      PROVE  /\ SumOf(pp, S \cup {n}) = SumOf(p, S) + Paid(r) /\ SumOf(pp, S) = SumOf(p, S) + 0 /\ SumOf(p, S) \in Int
             /\ SumOf(qq, S \cup {n}) = SumOf(q, S) + Sent(r) /\ SumOf(qq, S) = SumOf(q, S) + 0 /\ SumOf(q, S) \in Int
  <2>1. IsFiniteSet(DOMAIN done) /\ n \notin DOMAIN done
    BY Zenon, <1>2 DEF Extended
  <2>2. IsFiniteSet(S) /\ n \notin S
    BY Zenon, <1>7, <2>1, FS_Subset
  <2>3. pp[n] \in Int /\ qq[n] \in Int
    BY Zenon, <1>3, <1>4
  <2>4. \A x \in S : p[x] \in Int /\ pp[x] = p[x]
    BY Zenon, <1>6, <1>7
  <2>5. \A x \in S : q[x] \in Int /\ qq[x] = q[x]
    BY Zenon, <1>6, <1>7
  <2>6. SumOf(pp, S \cup {n}) = SumOf(p, S) + pp[n] /\ SumOf(pp, S) = SumOf(p, S) /\ SumOf(p, S) \in Int
    <3>1. OneMore(S, n, p, pp)
      BY Zenon, <2>2, <2>3, <2>4, SumExtended
    <3> QED BY Zenon, <3>1 DEF OneMore
  <2>7. SumOf(qq, S \cup {n}) = SumOf(q, S) + qq[n] /\ SumOf(qq, S) = SumOf(q, S) /\ SumOf(q, S) \in Int
    <3>1. OneMore(S, n, q, qq)
      BY Zenon, <2>2, <2>3, <2>5, SumExtended
    <3> QED BY Zenon, <3>1 DEF OneMore
  <2> QED BY <1>4, <2>6, <2>7
<1>8. SumOf(pp, DOMAIN all) = SumOf(p, DOMAIN done) + Paid(r)
  <2>1. DOMAIN all = DOMAIN done \cup {n}
    BY Zenon, <1>2 DEF Extended
  <2> QED BY Zenon, <1>7, <2>1
<1>9. ASSUME NEW s \in Senders
      PROVE  /\ SumOf(pp, From(all, s)) = SumOf(p, From(done, s)) + (IF s = r.tx.from THEN Paid(r) ELSE 0)
             /\ SumOf(qq, From(all, s)) = SumOf(q, From(done, s)) + (IF s = r.tx.from THEN Sent(r) ELSE 0)
             /\ SumOf(p, From(done, s)) \in Int /\ SumOf(q, From(done, s)) \in Int
  <2>1. From(done, s) \subseteq DOMAIN done
    BY Zenon DEF From
  <2>2. CASE s = r.tx.from
    <3>1. From(all, s) = From(done, s) \cup {n}
      BY Zenon, <1>2, <2>2 DEF Extended
    <3> QED BY Zenon, <1>7, <2>1, <2>2, <3>1
  <2>3. CASE s # r.tx.from
    <3>1. From(all, s) = From(done, s)
      BY Zenon, <1>2, <2>3 DEF Extended
    <3> QED BY Zenon, <1>7, <2>1, <2>3, <3>1
  <2> QED BY Zenon, <2>2, <2>3
<1>10. ASSUME NEW s \in Senders
       PROVE  SumOf(qq, To(all, s)) = SumOf(q, To(done, s)) + (IF s = r.tx.to THEN Sent(r) ELSE 0) /\ SumOf(q, To(done, s)) \in Int
  <2>1. To(done, s) \subseteq DOMAIN done
    BY Zenon DEF To
  <2>2. CASE s = r.tx.to
    <3>1. To(all, s) = To(done, s) \cup {n}
      BY Zenon, <1>2, <2>2 DEF Extended
    <3> QED BY Zenon, <1>7, <2>1, <2>2, <3>1
  <2>3. CASE s # r.tx.to
    <3>1. To(all, s) = To(done, s)
      BY Zenon, <1>2, <2>3 DEF Extended
    <3> QED BY Zenon, <1>7, <2>1, <2>3, <3>1
  <2> QED BY Zenon, <2>2, <2>3
<1>11. \A s \in Senders : SumsMove(done, all, r, s)
  BY Zenon, <1>9, <1>10 DEF SumsMove, p, pp, q, qq
<1> QED BY Zenon, <1>8, <1>11 DEF p, pp, done, all

\* What was paid and sent: everybody's coins and the fee collector follow the results.
LEMMA CoinsStep ==
  ASSUME NEW ms \in MultiStore, NEW new \in MultiStore, NEW r \in Result, Effect(ms, new, r), CollectorOk(ms), CoinsOk(ms)
  PROVE  CollectorOk(new) /\ CoinsOk(new)
<1> DEFINE done == ms.results
           all == new.results
<1>1. all = Append(done, r) /\ new.collector = ms.collector + Paid(r)
  BY Zenon DEF Effect
<1>2. CollectorOk(new)
  <2>1. SumOf(Payments(all), DOMAIN all) = SumOf(Payments(done), DOMAIN done) + Paid(r)
    BY Zenon, <1>1, SumsStep
  <2>2. ms.collector = SumOf(Payments(done), DOMAIN done)
    BY Zenon DEF CollectorOk
  <2> QED BY Zenon, <1>1, <2>1, <2>2 DEF CollectorOk
<1>3. ASSUME NEW s \in Senders
      PROVE  new.accs[s].coins = InitialCoins[s] - SumOf(Payments(all), From(all, s)) - SumOf(Sendings(all), From(all, s))
                                   + SumOf(Sendings(all), To(all, s))
  <2> DEFINE a == SumOf(Payments(done), From(done, s))
             b == SumOf(Sendings(done), From(done, s))
             c == SumOf(Sendings(done), To(done, s))
             aa == SumOf(Payments(all), From(all, s))
             bb == SumOf(Sendings(all), From(all, s))
             cc == SumOf(Sendings(all), To(all, s))
             x == IF s = r.tx.from THEN Paid(r) ELSE 0
             y == IF s = r.tx.from THEN Sent(r) ELSE 0
             z == IF s = r.tx.to THEN Sent(r) ELSE 0
  <2>1. aa = a + x /\ bb = b + y /\ cc = c + z /\ a \in Int /\ b \in Int /\ c \in Int
    <3>1. SumsMove(done, all, r, s)
      BY Zenon, <1>1, SumsStep
    <3> HIDE DEF done, all
    <3> QED BY Zenon, <3>1 DEF SumsMove
  <2>2. ms.accs[s].coins = InitialCoins[s] - a - b + c
    BY Zenon DEF CoinsOk
  <2>3. new.accs[s].coins = ms.accs[s].coins - x - y + z
    BY Zenon DEF Effect
  <2>4. x \in Nat /\ y \in Nat /\ z \in Nat /\ InitialCoins[s] \in Nat
    <3>1. Paid(r) \in Nat /\ Sent(r) \in Nat /\ InitialCoins[s] \in Nat
      BY Zenon, ResultFields, TxAssumption
    <3> QED BY <3>1
  <2> HIDE DEF a, b, c, aa, bb, cc, x, y, z
  <2>5. new.accs[s].coins = InitialCoins[s] - aa - bb + cc
    BY <2>1, <2>2, <2>3, <2>4
  <2> QED BY Zenon, <2>5 DEF aa, bb, cc
<1>4. CoinsOk(new)
  BY Zenon, <1>3 DEF CoinsOk
<1> QED BY Zenon, <1>2, <1>4

\* Only what is short of the intrinsic gas has run out of it.
LEMMA ShortStep ==
  ASSUME NEW ms \in MultiStore, NEW new \in MultiStore, NEW r \in Result, Effect(ms, new, r), ShortOnes(ms)
  PROVE  ShortOnes(new)
<1> DEFINE n == Len(ms.results) + 1
<1>1. Extended(ms.results, r, new.results, n)
  <2>1. ms.results \in Seq(Result) /\ new.results = Append(ms.results, r)
    BY Zenon, StoreFields DEF Effect
  <2> QED BY Zenon, <2>1, AppendFacts
<1> HIDE DEF n
<1>2. ASSUME NEW i \in DOMAIN new.results, new.results[i].kind = "outOfGas"
      PROVE  new.results[i].tx.gas < IntrinsicGas(new.results[i].tx, TRUE)
  <2>1. CASE i \in DOMAIN ms.results
    BY Zenon, <1>1, <1>2, <2>1 DEF Extended, ShortOnes
  <2>2. CASE i = n
    BY Zenon, <1>1, <1>2, <2>2 DEF Extended, Effect
  <2> QED BY Zenon, <1>1, <2>1, <2>2 DEF Extended
<1> QED BY Zenon, <1>2 DEF ShortOnes

\* All facts about a multi-store.
LEMMA StoreStep ==
  ASSUME NEW ms \in MultiStore, NEW new \in MultiStore, NEW r \in Result, Effect(ms, new, r), StoreOk(ms)
  PROVE  StoreOk(new)
  BY Zenon, NoncesStep, CoinsStep, ShortStep DEF StoreOk

\* They are about the results, the accounts and the fee collector alone.
LEMMA SameStore ==
  ASSUME NEW ms, NEW new, new.results = ms.results, new.accs = ms.accs, new.collector = ms.collector, StoreOk(ms)
  PROVE  StoreOk(new)
<1>1. NoncesOk(new)
  <2> DEFINE done == ms.results
             Increasing == \A i, j \in DOMAIN done :
                             i < j /\ done[i].tx.from = done[j].tx.from => done[i].tx.nonce < done[j].tx.nonce
  <2>1. NoncesOk(ms)
    BY Zenon DEF StoreOk
  <2>2. Increasing /\ \A s \in Senders : {done[i].tx.nonce : i \in From(done, s)} = 0 .. ms.accs[s].seq - 1
    BY <2>1, Zenon DEF NoncesOk
  <2>3. NoncesOk(new) = (Increasing /\ \A s \in Senders : {done[i].tx.nonce : i \in From(done, s)} = 0 .. new.accs[s].seq - 1)
    BY Zenon DEF NoncesOk
  <2> HIDE DEF done, Increasing
  <2> QED BY Zenon, <2>2, <2>3
<1>2. CollectorOk(new) /\ CoinsOk(new)
  BY Zenon DEF StoreOk, CollectorOk, CoinsOk
<1>3. ShortOnes(new)
  BY Zenon DEF StoreOk, ShortOnes
<1> QED BY Zenon, <1>1, <1>2, <1>3 DEF StoreOk

----------------------------------------------------------------------------
\* The invariant.

\* The genesis store has them: nothing has run and everybody has the initial coins.
LEMMA GenesisOk == Genesis \in MultiStore /\ StoreOk(Genesis)
<1> DEFINE a == [s \in Senders |-> [found |-> InitialCoins[s] > 0, seq |-> 0, coins |-> InitialCoins[s]]]
<1>1. \A s \in Senders : InitialCoins[s] \in Nat
  BY Zenon, TxAssumption
<1>2. a \in [Senders -> Account] /\ \A s \in Senders : a[s].seq = 0 /\ a[s].coins = InitialCoins[s]
  BY <1>1 DEF Account
<1>3. /\ Genesis.results = <<>> /\ Genesis.accs = a /\ Genesis.collector = 0
  BY Zenon DEF Genesis
<1>4. Genesis \in MultiStore
  <2> HIDE DEF a
  <2> QED BY <1>2 DEF Genesis, MultiStore, a
<1> HIDE DEF a
<1>5. DOMAIN <<>> = {} /\ \A s : From(<<>>, s) = {} /\ To(<<>>, s) = {}
  BY DEF From, To
<1>6. NoncesOk(Genesis)
  <2>1. 0 .. 0 - 1 = {}
    OBVIOUS
  <2>2. \A s \in Senders : {<<>>[i].tx.nonce : i \in From(<<>>, s)} = {}
    BY Zenon, <1>5
  <2> QED BY Zenon, <1>2, <1>3, <1>5, <2>1, <2>2 DEF NoncesOk
<1>7. CollectorOk(Genesis)
  BY Zenon, <1>3, <1>5, SumEmpty DEF CollectorOk
<1>8. CoinsOk(Genesis)
  <2>1. ASSUME NEW s \in Senders
        PROVE  Genesis.accs[s].coins = InitialCoins[s] - 0 - 0 + 0
    BY <1>1, <1>2, <1>3
  <2> QED BY Zenon, <1>3, <1>5, <2>1, SumEmpty DEF CoinsOk
<1>9. ShortOnes(Genesis)
  BY Zenon, <1>3, <1>5 DEF ShortOnes
<1> QED BY Zenon, <1>4, <1>6, <1>7, <1>8, <1>9 DEF StoreOk

\* Initially.
LEMMA InitInv == Init => Inv
<1> SUFFICES ASSUME Init PROVE Inv
  OBVIOUS
<1>1. committed = Genesis /\ deliver = Genesis /\ keeper = NewKeeper /\ admitted = {} /\ decided = <<>>
  BY Zenon DEF Init
<1>2. NewKeeper \in [TxCount : Nat, LogSize : Nat, Bloom : SUBSET Txs]
  BY DEF NewKeeper
<1>3. TypeOK
  <2>1. decided \in Seq([tx : Txs, outcome : Outcome])
    BY <1>1
  <2> QED BY Zenon, <1>1, <1>2, <2>1, GenesisOk DEF TypeOK
<1>4. Ahead
  BY <1>1, GenesisOk DEF Ahead, MultiStore
<1>5. AdmittedOk
  BY Zenon, <1>1 DEF AdmittedOk
<1> QED BY Zenon, <1>1, <1>3, <1>4, <1>5, GenesisOk DEF Inv

\* CheckTx lets in what has the intrinsic gas of the older rules.
LEMMA CheckTxInv == ASSUME Inv, NEW t \in Txs, CheckTx(t) PROVE Inv'
<1>1. UNCHANGED <<committed, deliver, decided, keeper>> /\ admitted' = admitted \cup {t}
  BY Zenon DEF CheckTx, blockVars
<1>2. t.gas >= IntrinsicGas(t, FALSE)
  <2>1. AnteAccepts("check", t, check, GetUserPendingTxsCnt(t.from), conf)
    BY Zenon DEF CheckTx, Accepts
  <2> QED BY Zenon, <2>1 DEF AnteAccepts
<1>3. TypeOK' /\ AdmittedOk'
  BY Zenon, <1>1, <1>2 DEF Inv, TypeOK, AdmittedOk
<1> QED BY Zenon, <1>1, <1>3 DEF Inv, Ahead

\* The result of a block's transaction is added to the store the block executes on.
LEMMA DeliverTxInv == ASSUME Inv, NEW t \in Txs, NEW o \in AllOutcomes(t), DeliverTx(t, o) PROVE Inv'
<1>1. /\ UNCHANGED <<committed, admitted>> /\ Deliver(t, o)
      /\ decided' = decided \/ decided' = Append(decided, [tx |-> t, outcome |-> o])
  BY Zenon DEF DeliverTx
<1>2. TypeOK
  BY Zenon DEF Inv
<1>3. o \in Outcome
  <2>1. CASE o \in Outcomes(t, t.amount)
    <3>1. t.amount \in Int
      BY TxFields
    <3> QED BY Zenon, <2>1, <3>1, OutcomeFacts
  <2>2. CASE o = NotAccepted
    BY <2>2 DEF NotAccepted, Outcome, Kinds
  <2> QED BY Zenon, <2>1, <2>2 DEF AllOutcomes
<1>4. /\ deliver' \in MultiStore
      /\ deliver' = deliver \/ \E r \in Result : Effect(deliver, deliver', r)
  BY Zenon, <1>1, <1>2, DeliverEffect DEF Run
<1>5. keeper' \in [TxCount : Nat, LogSize : Nat, Bloom : SUBSET Txs]
  <2>1. keeper' = keeper \/ keeper' = Counted(o, t)
    BY Zenon, <1>1 DEF Deliver, handleMsgEthereumTx, handleMsgEthermint
  <2>2. keeper \in [TxCount : Nat, LogSize : Nat, Bloom : SUBSET Txs] /\ o.logs \in Nat
    BY Zenon, <1>2, <1>3 DEF TypeOK, Outcome
  <2> DEFINE size == IF o.kind = "executed" THEN keeper.LogSize + o.logs ELSE keeper.LogSize
             bloom == IF o.kind = "executed" /\ o.logs > 0 THEN keeper.Bloom \cup {t} ELSE keeper.Bloom
  <2>3. Counted(o, t) \in [TxCount : Nat, LogSize : Nat, Bloom : SUBSET Txs]
    <3>1. Counted(o, t) = [keeper EXCEPT !.TxCount = keeper.TxCount + 1, !.LogSize = size, !.Bloom = bloom]
      BY Zenon DEF Counted
    <3>2. size \in Nat /\ keeper.TxCount + 1 \in Nat
      BY <2>2
    <3>3. bloom \in SUBSET Txs
      <4>1. keeper.Bloom \in SUBSET Txs
        BY Zenon, <2>2
      <4> QED BY Zenon, <4>1
    <3> HIDE DEF size, bloom
    <3> QED BY Zenon, <2>2, <3>1, <3>2, <3>3
  <2> QED BY Zenon, <2>1, <2>2, <2>3
<1>6. decided' \in Seq([tx : Txs, outcome : Outcome])
  <2> DEFINE B == [tx : Txs, outcome : Outcome]
  <2>1. decided \in Seq(B)
    BY Zenon, <1>2 DEF TypeOK
  <2>2. [tx |-> t, outcome |-> o] \in B
    BY Zenon, <1>3
  <2> HIDE DEF B
  <2>3. Append(decided, [tx |-> t, outcome |-> o]) \in Seq(B)
    BY <2>1, <2>2
  <2> QED BY Zenon, <1>1, <2>1, <2>3 DEF B
<1>7. TypeOK'
  BY Zenon, <1>1, <1>2, <1>4, <1>5, <1>6 DEF TypeOK
<1>8. StoreOk(deliver')
  <2>1. StoreOk(deliver) /\ deliver \in MultiStore
    BY Zenon, <1>2 DEF Inv, TypeOK
  <2> QED BY Zenon, <1>4, <2>1, StoreStep
<1>9. Ahead'
  <2>1. CASE deliver' = deliver
    BY Zenon, <1>1, <2>1 DEF Inv, Ahead
  <2>2. CASE \E r \in Result : Effect(deliver, deliver', r)
    <3>1. PICK r \in Result : deliver'.results = Append(deliver.results, r)
      BY Zenon, <2>2 DEF Effect
    <3>2. deliver.results \in Seq(Result) /\ committed.results \in Seq(Result)
      BY Zenon, <1>2, StoreFields DEF TypeOK
    <3>3. Extended(deliver.results, r, deliver'.results, Len(deliver.results) + 1)
      BY Zenon, <3>1, <3>2, AppendFacts
    <3>4. Ahead /\ committed' = committed
      BY Zenon, <1>1 DEF Inv
    <3> QED BY Zenon, <3>3, <3>4 DEF Ahead, Extended
  <2> QED BY Zenon, <1>4, <2>1, <2>2
<1>10. StoreOk(committed') /\ AdmittedOk'
  BY Zenon, <1>1 DEF Inv, AdmittedOk
<1> QED BY Zenon, <1>7, <1>8, <1>9, <1>10 DEF Inv

\* BeginBlock and EndBlock touch neither results nor accounts.
LEMMA BeginBlockInv == ASSUME Inv, BeginBlock PROVE Inv'
<1>1. /\ UNCHANGED <<committed, admitted, decided>>
      /\ keeper' = keeper \/ keeper' = NewKeeper
      /\ deliver' = committed \/ deliver' = [committed EXCEPT !.hashes = @ \cup {committed.height}]
  BY Zenon DEF BeginBlock
<1>2. TypeOK
  BY Zenon DEF Inv
<1>3. /\ deliver' \in MultiStore /\ deliver'.results = committed.results /\ deliver'.accs = committed.accs
      /\ deliver'.collector = committed.collector
  <2>1. committed \in MultiStore
    BY Zenon, <1>2 DEF TypeOK
  <2> QED BY Zenon, <1>1, <2>1 DEF MultiStore
<1>4. keeper' \in [TxCount : Nat, LogSize : Nat, Bloom : SUBSET Txs]
  <2>1. NewKeeper \in [TxCount : Nat, LogSize : Nat, Bloom : SUBSET Txs]
    BY DEF NewKeeper
  <2> QED BY Zenon, <1>1, <1>2, <2>1 DEF TypeOK
<1>5. TypeOK'
  BY Zenon, <1>1, <1>2, <1>3, <1>4 DEF TypeOK
<1>6. StoreOk(deliver')
  BY Zenon, <1>3, SameStore DEF Inv
<1>7. Ahead'
  BY Zenon, <1>1, <1>3 DEF Ahead
<1>8. StoreOk(committed') /\ AdmittedOk'
  BY Zenon, <1>1 DEF Inv, AdmittedOk
<1> QED BY Zenon, <1>5, <1>6, <1>7, <1>8 DEF Inv

\* EndBlock writes the height, the bloom and the block.
LEMMA EndBlockInv == ASSUME Inv, EndBlock PROVE Inv'
<1>1. /\ UNCHANGED <<committed, admitted, decided, keeper>>
      /\ deliver' = [deliver EXCEPT !.height = committed.height + 1, !.blooms = Append(@, keeper.Bloom),
                                    !.blocks = Append(@, decided)]
  BY Zenon DEF EndBlock
<1>2. TypeOK
  BY Zenon DEF Inv
<1>3. /\ deliver' \in MultiStore /\ deliver'.results = deliver.results /\ deliver'.accs = deliver.accs
      /\ deliver'.collector = deliver.collector
  <2>1. deliver \in MultiStore
    BY Zenon, <1>2 DEF TypeOK
  <2>2. committed.height + 1 \in Nat
    BY <1>2, StoreFields DEF TypeOK
  <2> DEFINE B == [tx : Txs, outcome : Outcome]
             blooms == Append(deliver.blooms, keeper.Bloom)
             blocks == Append(deliver.blocks, decided)
  <2>3. /\ deliver.blooms \in Seq(SUBSET Txs) /\ keeper.Bloom \in SUBSET Txs
        /\ deliver.blocks \in Seq(Seq(B)) /\ decided \in Seq(B)
    BY Zenon, <1>2, <2>1 DEF TypeOK, MultiStore
  <2>4. blooms \in Seq(SUBSET Txs) /\ blocks \in Seq(Seq(B))
    <3> HIDE DEF B
    <3> QED BY <2>3
  <2>5. deliver' = [deliver EXCEPT !.height = committed.height + 1, !.blooms = blooms, !.blocks = blocks]
    BY Zenon, <1>1
  <2> HIDE DEF blooms, blocks
  <2> QED BY Zenon, <2>1, <2>2, <2>4, <2>5 DEF MultiStore
<1>4. TypeOK'
  BY Zenon, <1>1, <1>2, <1>3 DEF TypeOK
<1>5. StoreOk(deliver')
  BY Zenon, <1>3, SameStore DEF Inv
<1>6. Ahead'
  BY Zenon, <1>1, <1>3 DEF Inv, Ahead
<1>7. StoreOk(committed') /\ AdmittedOk'
  BY Zenon, <1>1 DEF Inv, AdmittedOk
<1> QED BY Zenon, <1>4, <1>5, <1>6, <1>7 DEF Inv

\* CommitBlock takes over the store of the block, a crash throws it away.
LEMMA CommitBlockInv == ASSUME Inv, CommitBlock PROVE Inv'
<1>1. committed' = deliver /\ deliver' = deliver /\ keeper' = keeper /\ admitted' = admitted /\ decided' = <<>>
  BY Zenon DEF CommitBlock
<1>2. decided' \in Seq([tx : Txs, outcome : Outcome])
  BY <1>1
<1>3. TypeOK'
  BY Zenon, <1>1, <1>2 DEF Inv, TypeOK
<1>4. Ahead'
  BY Zenon, <1>1 DEF Ahead
<1> QED BY Zenon, <1>1, <1>3, <1>4 DEF Inv, AdmittedOk

\* A crash goes back to the committed store.
LEMMA CrashInv == ASSUME Inv, Crash PROVE Inv'
<1>1. committed' = committed /\ deliver' = committed /\ keeper' = NewKeeper /\ admitted' = admitted /\ decided' = decided
  BY Zenon DEF Crash
<1>2. NewKeeper \in [TxCount : Nat, LogSize : Nat, Bloom : SUBSET Txs]
  BY DEF NewKeeper
<1>3. TypeOK'
  BY Zenon, <1>1, <1>2 DEF Inv, TypeOK
<1>4. Ahead'
  BY Zenon, <1>1 DEF Ahead
<1> QED BY Zenon, <1>1, <1>3, <1>4 DEF Inv, AdmittedOk

\* The goroutines, and a step that changes nothing.
LEMMA QuietInv ==
  ASSUME Inv, UNCHANGED <<committed, deliver, decided, keeper, admitted>>
  PROVE  Inv'
  BY Zenon DEF Inv, TypeOK, Ahead, AdmittedOk

\* Every step.
LEMMA NextInv == Inv /\ [Next]_vars => Inv'
<1> SUFFICES ASSUME Inv, [Next]_vars PROVE Inv'
  OBVIOUS
<1>1. CASE \E t \in Txs : CheckTx(t)
  BY Zenon, <1>1, CheckTxInv
<1>2. CASE \E t \in Txs : \E o \in AllOutcomes(t) : DeliverTx(t, o)
  BY Zenon, <1>2, DeliverTxInv
<1>3. CASE BeginBlock
  BY Zenon, <1>3, BeginBlockInv
<1>4. CASE EndBlock
  BY Zenon, <1>4, EndBlockInv
<1>5. CASE CommitBlock
  BY Zenon, <1>5, CommitBlockInv
<1>6. CASE Crash
  BY Zenon, <1>6, CrashInv
<1>7. CASE WatcherStep
  BY Zenon, <1>7, QuietInv DEF WatcherStep, blockVars
<1>8. CASE IndexerStep
  BY Zenon, <1>8, QuietInv DEF IndexerStep, blockVars
<1>9. CASE UNCHANGED vars
  BY Zenon, <1>9, QuietInv DEF vars, blockVars
<1> QED BY Zenon, <1>1, <1>2, <1>3, <1>4, <1>5, <1>6, <1>7, <1>8, <1>9 DEF Next

----------------------------------------------------------------------------
\* The numbers of transactions and logs in a block.

\* One more result: the places of its height have it if it is of an Ethereum transaction, those
\* of other heights have not.
Placed(done, r, all, n) ==
  /\ \A h : IsFiniteSet(Places(done, h)) /\ Places(done, h) \subseteq DOMAIN done
  /\ \A h : h = r.height /\ r.tx.kind = "eth" => Places(all, h) = Places(done, h) \cup {n}
  /\ \A h : h # r.height \/ r.tx.kind # "eth" => Places(all, h) = Places(done, h)
  /\ \A i \in DOMAIN done : Before(all, i) = Before(done, i)
  /\ r.tx.kind = "eth" => Before(all, n) = Places(done, r.height)

\* Where the results of each height are after one more.
LEMMA PlacesStep ==
  ASSUME NEW done, NEW r, NEW all, NEW n, Extended(done, r, all, n)
  PROVE  Placed(done, r, all, n)
<1>1. /\ IsFiniteSet(DOMAIN done) /\ n \in Int /\ n \notin DOMAIN done
      /\ DOMAIN all = DOMAIN done \cup {n} /\ all[n] = r
      /\ \A i \in DOMAIN done : all[i] = done[i] /\ i \in Int /\ i < n
  BY Zenon DEF Extended
<1>2. \A h : Places(done, h) \subseteq DOMAIN done
  BY Zenon DEF Places
<1>3. \A h : IsFiniteSet(Places(done, h))
  BY <1>1, <1>2, FS_Subset
<1>4. \A h : h = r.height /\ r.tx.kind = "eth" => Places(all, h) = Places(done, h) \cup {n}
  BY Zenon, <1>1 DEF Places
<1>5. \A h : h # r.height \/ r.tx.kind # "eth" => Places(all, h) = Places(done, h)
  BY Zenon, <1>1 DEF Places
<1>6. ASSUME NEW i \in DOMAIN done
      PROVE  Before(all, i) = Before(done, i)
  <2>1. all[i] = done[i] /\ ~(n < i)
    BY <1>1
  <2>2. \A j \in Places(all, done[i].height) : j \in Places(done, done[i].height) \/ j = n
    BY Zenon, <1>4, <1>5
  <2>3. Places(done, done[i].height) \subseteq Places(all, done[i].height)
    BY Zenon, <1>4, <1>5
  <2> QED BY Zenon, <2>1, <2>2, <2>3 DEF Before
<1>7. ASSUME r.tx.kind = "eth" PROVE Before(all, n) = Places(done, r.height)
  <2>1. Places(all, r.height) = Places(done, r.height) \cup {n} /\ all[n].height = r.height /\ ~(n < n)
    BY <1>1, <1>4, <1>7
  <2>2. \A j \in Places(done, r.height) : j < n
    BY Zenon, <1>1, <1>2
  <2>3. Before(all, n) = {j \in Places(done, r.height) \cup {n} : j < n}
    BY Zenon, <2>1 DEF Before
  <2> QED BY Zenon, <2>1, <2>2, <2>3
<1> QED BY Zenon, <1>2, <1>3, <1>4, <1>5, <1>6, <1>7 DEF Placed

\* The logs of places that were there before are the same.
LEMMA SameLogs ==
  ASSUME NEW done, NEW r, NEW all, NEW n, Extended(done, r, all, n)
  PROVE  \A S \in SUBSET DOMAIN done : SumOf(LogCounts(all), S) = SumOf(LogCounts(done), S)
<1> TAKE S \in SUBSET DOMAIN done
<1>1. /\ IsFiniteSet(DOMAIN done) /\ DOMAIN done \subseteq DOMAIN all
      /\ \A i \in DOMAIN done : all[i] = done[i]
  BY Zenon DEF Extended
<1>2. \A i \in S : LogCounts(all)[i] = LogCounts(done)[i]
  BY Zenon, <1>1 DEF LogCounts
<1>3. IsFiniteSet(S)
  BY <1>1, FS_Subset
<1> QED BY Zenon, <1>2, <1>3, SumEqual

LoudKept(done, all) == \A h : Places(all, h) = Places(done, h) => Loud(all, h) = Loud(done, h)

\* So are the transactions with logs, where the new one is not of the height.
LEMMA SameLoud ==
  ASSUME NEW done, NEW r, NEW all, NEW n, Extended(done, r, all, n)
  PROVE  LoudKept(done, all)
<1> SUFFICES ASSUME NEW h, Places(all, h) = Places(done, h) PROVE Loud(all, h) = Loud(done, h)
  BY Zenon DEF LoudKept
<1>1. \A i \in Places(done, h) : all[i] = done[i]
  BY Zenon DEF Extended, Places
<1> QED BY Zenon, <1>1 DEF Loud

\* Counted adds what the result of an Ethereum transaction says (handleMsgEthereumTx).
Counting(k, r, new) ==
  /\ new.TxCount = k.TxCount + 1
  /\ new.LogSize = k.LogSize + r.logs
  /\ r.logs > 0 => new.Bloom = k.Bloom \cup {r.tx}
  /\ ~(r.logs > 0) => new.Bloom = k.Bloom

\* Then the counters are those of the block so far.
LEMMA CountsStep ==
  ASSUME NEW done, NEW r \in Result, NEW all, NEW n, Extended(done, r, all, n), r.tx.kind = "eth",
         NEW k, NEW new, Counts(k, done, r.height), Counting(k, r, new)
  PROVE  Counts(new, all, r.height)
<1> DEFINE P == Places(done, r.height)
           Q == Places(all, r.height)
<1>1. IsFiniteSet(P) /\ P \subseteq DOMAIN done /\ Q = P \cup {n}
  <2>1. Placed(done, r, all, n)
    BY Zenon, PlacesStep
  <2> QED BY Zenon, <2>1 DEF Placed
<1>2. /\ n \notin P /\ all[n] = r
      /\ \A i \in P : all[i] = done[i] /\ done[i] \in Result
      /\ n \in DOMAIN all /\ P \subseteq DOMAIN all
  BY Zenon, <1>1 DEF Extended
<1>3. new.TxCount = Cardinality(Q)
  <2>1. Cardinality(P \cup {n}) = Cardinality(P) + 1
    <3> HIDE DEF P
    <3> QED BY Zenon, <1>1, <1>2, FS_AddElement
  <2> QED BY Zenon, <1>1, <2>1 DEF Counts, Counting
<1>4. new.LogSize = SumOf(LogCounts(all), Q)
  <2> DEFINE f == LogCounts(done)
             g == LogCounts(all)
  <2>1. r.logs \in Nat /\ \A i \in P : done[i].logs \in Nat
    BY Zenon, <1>2 DEF Result
  <2>2. g[n] = r.logs /\ \A x \in P : f[x] = done[x].logs /\ g[x] = f[x]
    BY Zenon, <1>1, <1>2 DEF LogCounts
  <2> HIDE DEF f, g, P, Q
  <2>3. g[n] \in Int /\ \A x \in P : f[x] \in Int /\ g[x] = f[x]
    BY <2>1, <2>2
  <2>4. OneMore(P, n, f, g)
    BY Zenon, <1>1, <1>2, <2>3, SumExtended
  <2>5. SumOf(g, Q) = SumOf(f, P) + r.logs
    BY Zenon, <1>1, <2>2, <2>4 DEF OneMore
  <2>6. k.LogSize = SumOf(f, P)
    BY Zenon DEF Counts, f, P
  <2> QED BY Zenon, <2>5, <2>6 DEF Counting, g
<1>5. new.Bloom = Loud(all, r.height)
  <2> DEFINE old == {j \in P : done[j].logs > 0}
             now == {j \in Q : all[j].logs > 0}
  <2>1. k.Bloom = {done[i].tx : i \in old}
    BY Zenon DEF Counts, Loud
  <2>2. Loud(all, r.height) = {all[i].tx : i \in now}
    BY Zenon DEF Loud
  <2>3. \A i \in old : all[i] = done[i]
    BY Zenon, <1>2
  <2>4. CASE r.logs > 0
    <3>1. new.Bloom = k.Bloom \cup {r.tx}
      BY Zenon, <2>4 DEF Counting
    <3>2. now = old \cup {n}
      <4> HIDE DEF P, Q
      <4> QED BY Zenon, <1>1, <1>2, <2>4
    <3> HIDE DEF old, now
    <3>3. {all[i].tx : i \in old \cup {n}} = {all[i].tx : i \in old} \cup {r.tx}
      BY Zenon, <1>2
    <3>4. {all[i].tx : i \in old} = {done[i].tx : i \in old}
      BY Zenon, <2>3
    <3> QED BY Zenon, <2>1, <2>2, <3>1, <3>2, <3>3, <3>4
  <2>5. CASE ~(r.logs > 0)
    <3>1. new.Bloom = k.Bloom
      BY Zenon, <2>5 DEF Counting
    <3>2. now = old
      <4> HIDE DEF P, Q
      <4> QED BY Zenon, <1>1, <1>2, <2>5
    <3> HIDE DEF old, now
    <3> QED BY Zenon, <2>1, <2>2, <2>3, <3>1, <3>2
  <2> QED BY Zenon, <2>4, <2>5
<1> QED BY Zenon, <1>3, <1>4, <1>5 DEF Counts

\* A result that is not of an Ethereum transaction leaves the counters exact.
LEMMA UncountedStep ==
  ASSUME NEW done, NEW r, NEW all, NEW n, Extended(done, r, all, n), r.tx.kind # "eth",
         NEW k, NEW h, Counts(k, done, h)
  PROVE  Counts(k, all, h)
<1>1. Places(all, h) = Places(done, h) /\ Places(done, h) \subseteq DOMAIN done
  <2>1. Placed(done, r, all, n)
    BY Zenon, PlacesStep
  <2> QED BY Zenon, <2>1 DEF Placed
<1>2. SumOf(LogCounts(all), Places(done, h)) = SumOf(LogCounts(done), Places(done, h))
  <2>1. \A S \in SUBSET DOMAIN done : SumOf(LogCounts(all), S) = SumOf(LogCounts(done), S)
    BY Zenon, SameLogs
  <2> QED BY Zenon, <1>1, <2>1
<1>3. Loud(all, h) = Loud(done, h)
  <2>1. LoudKept(done, all)
    BY Zenon, SameLoud
  <2> QED BY Zenon, <1>1, <2>1 DEF LoudKept
<1> QED BY Zenon, <1>1, <1>2, <1>3 DEF Counts

\* A result with the counters of the block so far leaves the numbers of a store exact.
LEMMA LogsStep ==
  ASSUME NEW ms \in MultiStore, NEW new, NEW r \in Result, new.results = Append(ms.results, r), new.blooms = ms.blooms,
         LogsOk(ms), r.height \notin DOMAIN ms.blooms,
         Regular(r.height) /\ r.tx.kind = "eth" =>
           /\ r.index = Cardinality(Places(ms.results, r.height))
           /\ r.firstLog = SumOf(LogCounts(ms.results), Places(ms.results, r.height))
  PROVE  LogsOk(new)
<1> DEFINE done == ms.results
           all == new.results
           n == Len(done) + 1
<1>1. Extended(done, r, all, n)
  <2>1. done \in Seq(Result)
    BY Zenon, StoreFields
  <2> QED BY Zenon, <2>1, AppendFacts
<1> HIDE DEF n
<1>2. Placed(done, r, all, n)
  BY Zenon, <1>1, PlacesStep
<1>3. all[n] = r /\ \A i \in DOMAIN done : all[i] = done[i]
  BY Zenon, <1>1 DEF Extended
<1>4. \A S \in SUBSET DOMAIN done : SumOf(LogCounts(all), S) = SumOf(LogCounts(done), S)
  <2> HIDE DEF done, all
  <2> QED BY Zenon, <1>1, SameLogs
<1>5. LoudKept(done, all)
  <2> HIDE DEF done, all
  <2> QED BY Zenon, <1>1, SameLoud
<1>6. ASSUME NEW h \in Nat, Regular(h), NEW i \in Places(all, h)
      PROVE  /\ all[i].index = Cardinality(Before(all, i))
             /\ all[i].firstLog = SumOf(LogCounts(all), Before(all, i))
  <2>1. CASE i \in Places(done, h)
    <3>1. i \in DOMAIN done /\ all[i] = done[i] /\ Before(all, i) = Before(done, i)
      BY Zenon, <1>2, <1>3, <2>1 DEF Placed
    <3>2. /\ done[i].index = Cardinality(Before(done, i))
          /\ done[i].firstLog = SumOf(LogCounts(done), Before(done, i))
      BY Zenon, <1>6, <2>1 DEF LogsOk
    <3>3. Before(done, i) \subseteq DOMAIN done
      BY Zenon, <1>2 DEF Placed, Before
    <3> HIDE DEF done, all
    <3>4. SumOf(LogCounts(all), Before(done, i)) = SumOf(LogCounts(done), Before(done, i))
      BY Zenon, <1>4, <3>3
    <3> QED BY Zenon, <3>1, <3>2, <3>4
  <2>2. CASE i \notin Places(done, h)
    <3>1. h = r.height /\ r.tx.kind = "eth" /\ i = n
      <4>1. Places(all, h) # Places(done, h)
        BY Zenon, <1>6, <2>2
      <4>2. h = r.height /\ r.tx.kind = "eth"
        BY Zenon, <1>2, <4>1 DEF Placed
      <4>3. Places(all, h) = Places(done, h) \cup {n}
        BY Zenon, <1>2, <4>2 DEF Placed
      <4> QED BY Zenon, <1>6, <2>2, <4>2, <4>3
    <3>2. all[i] = r /\ Before(all, i) = Places(done, h) /\ Places(done, h) \subseteq DOMAIN done
      BY Zenon, <1>2, <1>3, <3>1 DEF Placed
    <3>3. r.index = Cardinality(Places(done, h)) /\ r.firstLog = SumOf(LogCounts(done), Places(done, h))
      BY Zenon, <1>6, <3>1
    <3> HIDE DEF done, all
    <3>4. SumOf(LogCounts(all), Places(done, h)) = SumOf(LogCounts(done), Places(done, h))
      BY Zenon, <1>4, <3>2
    <3> QED BY Zenon, <3>2, <3>3, <3>4
  <2> QED BY Zenon, <2>1, <2>2
<1>7. ASSUME NEW h \in Nat, Regular(h), h \in DOMAIN new.blooms
      PROVE  new.blooms[h] = Loud(all, h)
  <2>1. h # r.height
    BY Zenon, <1>7
  <2>2. Places(all, h) = Places(done, h)
    BY Zenon, <1>2, <2>1 DEF Placed
  <2>3. ms.blooms[h] = Loud(done, h)
    BY Zenon, <1>7 DEF LogsOk
  <2> HIDE DEF done, all
  <2>4. Loud(all, h) = Loud(done, h)
    BY Zenon, <1>5, <2>2 DEF LoudKept
  <2> QED BY Zenon, <2>3, <2>4
<1> QED BY Zenon, <1>6, <1>7 DEF LogsOk

\* Same results and blooms, same facts.
LEMMA SameBlooms ==
  ASSUME NEW ms, NEW new, new.results = ms.results, new.blooms = ms.blooms, LogsOk(ms)
  PROVE  LogsOk(new)
  BY Zenon DEF LogsOk

\* Before a block executes nothing is counted.
LEMMA NothingCounted ==
  ASSUME NEW done \in Seq(Result), NEW n \in Nat, Below(done, n)
  PROVE  Counts(NewKeeper, done, n + 1)
<1>1. \A i \in DOMAIN done : done[i] \in Result /\ done[i].height <= n
  BY DEF Below
<1>2. \A i \in DOMAIN done : done[i].height \in Nat
  BY Zenon, <1>1 DEF Result
<1>3. \A i \in DOMAIN done : done[i].height # n + 1
  BY <1>1, <1>2
<1>4. Places(done, n + 1) = {}
  BY Zenon, <1>3 DEF Places
<1>5. Loud(done, n + 1) = {}
  BY Zenon, <1>4 DEF Loud
<1>6. Cardinality({}) = 0
  BY FS_EmptySet
<1> QED BY Zenon, <1>4, <1>5, <1>6, SumEmpty DEF Counts, NewKeeper

\* The watcher's map stays made.
Keeps(w, new) == HasFields(new) /\ new.made = w.made

\* Any of the watcher's writes to its fields (SaveEthereumTx, SaveTransactionReceipt, SaveContractCode).
LEMMA SavingKeeps ==
  ASSUME NEW w, HasFields(w), NEW a, NEW b, NEW c, NEW d
  PROVE  /\ Keeps(w, [w EXCEPT !.batch = a])
         /\ Keeps(w, [w EXCEPT !.batch = a, !.blockTxs = b])
         /\ Keeps(w, [w EXCEPT !.cumulativeGas = c, !.gasUsed = d, !.batch = a])
<1>1. Keeps(w, [w EXCEPT !.batch = a])
  BY Zenon DEF Keeps, HasFields
<1>2. Keeps(w, [w EXCEPT !.batch = a, !.blockTxs = b])
  BY Zenon DEF Keeps, HasFields
<1>3. Keeps(w, [w EXCEPT !.cumulativeGas = c, !.gasUsed = d, !.batch = a])
  BY Zenon DEF Keeps, HasFields
<1> QED BY Zenon, <1>1, <1>2, <1>3

\* So does everything DeliverTx saves (Watched).
LEMMA WatchedKeeps ==
  ASSUME NEW t, NEW o, HasFields(watcher)
  PROVE  Keeps(watcher, Watched(o, t))
<1> DEFINE saved == SaveEthereumTx(watcher, t, keeper.TxCount)
           status == IF o.kind = "executed" THEN 1 ELSE 0
           created == o.kind = "executed" /\ t.to = Nobody
           receipt == SaveTransactionReceipt(saved, status, t, keeper.TxCount, o.logs, o.used, created)
           code == SaveContractCode(receipt, t)
<1>1. Keeps(watcher, saved)
  BY Zenon, SavingKeeps DEF SaveEthereumTx
<1>2. Watched(o, t) \in {saved, receipt, code}
  BY Zenon DEF Watched
<1> HIDE DEF saved, status, created
<1>3. Keeps(saved, receipt)
  <2>1. HasFields(saved)
    BY Zenon, <1>1 DEF Keeps
  <2> QED BY Zenon, <2>1, SavingKeeps DEF SaveTransactionReceipt
<1> HIDE DEF receipt
<1>4. Keeps(receipt, code)
  <2>1. HasFields(receipt)
    BY Zenon, <1>3 DEF Keeps
  <2> QED BY Zenon, <2>1, SavingKeeps DEF SaveContractCode
<1> HIDE DEF code
<1> QED BY Zenon, <1>1, <1>2, <1>3, <1>4 DEF Keeps

\* Initially.
LEMMA InitLogs == Init => LogInv
<1> SUFFICES ASSUME Init PROVE LogInv
  OBVIOUS
<1>1. committed = Genesis /\ deliver = Genesis /\ keeper = NewKeeper /\ phase = "idle"
  BY Zenon DEF Init
<1>2. Genesis.results = <<>> /\ Genesis.blooms = <<>> /\ Genesis.height = 0
  BY Zenon DEF Genesis
<1>3. DOMAIN <<>> = {} /\ Len(<<>>) = 0
  OBVIOUS
<1>4. \A h : Places(<<>>, h) = {}
  BY Zenon, <1>3 DEF Places
<1>5. LogsOk(Genesis)
  BY Zenon, <1>2, <1>3, <1>4 DEF LogsOk
<1>6. phase # "block" /\ phase # "ended"
  BY <1>1
<1>7. HeightsOk
  BY Zenon, <1>1, <1>2, <1>3, <1>6 DEF HeightsOk, Below
<1>8. CountersOk
  BY Zenon, <1>1, <1>6 DEF CountersOk
<1> QED BY Zenon, <1>1, <1>5, <1>7, <1>8 DEF LogInv

\* What LogInv is about stays: CheckTx, the goroutines, and a step that changes nothing.
LEMMA QuietLogs ==
  ASSUME LogInv, UNCHANGED <<conf, phase, committed, deliver, keeper, watcher>>
  PROVE  LogInv'
  BY Zenon DEF LogInv, LogsOk, Regular, HeightsOk, CountersOk

\* Where the map is made no receipt panics, and the keeper counts what the result says.
LEMMA CountedFacts ==
  ASSUME TypeOK, CountersOk, phase = "block", Regular(committed.height + 1), NEW t \in Txs, NEW o \in Outcome, NEW r,
         Numbered(t, o, r), t.kind = "eth"
  PROVE  Counting(keeper, r, Counted(o, t))
<1>1. ResultKind(o) = o.kind
  <2>1. conf.watch => watcher.made
    <3>1. committed.height \in Nat
      BY Zenon, StoreFields DEF TypeOK
    <3>2. conf.watch => committed.height > 0
      BY <3>1 DEF Regular
    <3> QED BY Zenon, <3>2 DEF CountersOk
  <2> QED BY Zenon, <2>1 DEF ResultKind, ReceiptPanics
<1>2. r.tx = t /\ r.logs = (IF o.kind = "executed" THEN o.logs ELSE 0)
  BY Zenon, <1>1 DEF Numbered
<1>3. keeper \in [TxCount : Nat, LogSize : Nat, Bloom : SUBSET Txs] /\ o.logs \in Nat
  BY Zenon DEF TypeOK, Outcome
<1>4. /\ Counted(o, t).TxCount = keeper.TxCount + 1
      /\ Counted(o, t).LogSize = (IF o.kind = "executed" THEN keeper.LogSize + o.logs ELSE keeper.LogSize)
      /\ Counted(o, t).Bloom = (IF o.kind = "executed" /\ o.logs > 0 THEN keeper.Bloom \cup {t} ELSE keeper.Bloom)
  BY Zenon, <1>3 DEF Counted
<1> DEFINE new == Counted(o, t)
<1> HIDE DEF new
<1>5. CASE o.kind = "executed"
  <2>1. r.logs = o.logs /\ new.LogSize = keeper.LogSize + o.logs
    BY Zenon, <1>2, <1>4, <1>5 DEF new
  <2> QED BY Zenon, <1>2, <1>4, <1>5, <2>1 DEF Counting, new
<1>6. CASE o.kind # "executed"
  <2>1. r.logs = 0 /\ new.LogSize = keeper.LogSize /\ new.Bloom = keeper.Bloom
    BY Zenon, <1>2, <1>4, <1>6 DEF new
  <2>2. keeper.LogSize = keeper.LogSize + 0 /\ ~(0 > 0)
    BY <1>3
  <2> QED BY Zenon, <1>4, <2>1, <2>2 DEF Counting, new
<1> QED BY Zenon, <1>5, <1>6

\* A transaction that runs leaves the numbers of the store exact.
LEMMA RunLogs ==
  ASSUME Inv, LogInv, phase = "block", NEW t \in Txs, NEW o, NEW r \in Result, Run(t, o, r)
  PROVE  /\ LogsOk(deliver')
         /\ Below(deliver'.results, committed.height + 1)
         /\ Len(deliver'.blooms) = committed.height
         /\ Extended(deliver.results, r, deliver'.results, Len(deliver.results) + 1)
<1> DEFINE cur == committed.height + 1
<1>1. deliver \in MultiStore /\ committed \in MultiStore
  BY Zenon DEF Inv, TypeOK
<1>2. /\ committed.height \in Nat /\ deliver.results \in Seq(Result) /\ deliver.blooms \in Seq(SUBSET Txs)
      /\ Len(deliver.blooms) = committed.height
  BY Zenon, <1>1, StoreFields DEF LogInv, HeightsOk
<1>3. /\ deliver'.results = Append(deliver.results, r) /\ deliver'.blooms = deliver.blooms
      /\ r.tx = t /\ r.height = cur
  BY Zenon DEF Run, Effect, Numbered
<1>4. cur \notin DOMAIN deliver.blooms
  BY <1>2
<1>5. Regular(cur) /\ t.kind = "eth" =>
        /\ r.index = Cardinality(Places(deliver.results, cur))
        /\ r.firstLog = SumOf(LogCounts(deliver.results), Places(deliver.results, cur))
  BY Zenon DEF LogInv, CountersOk, Counts, Run, Numbered
<1>6. LogsOk(deliver) /\ Below(deliver.results, cur)
  BY Zenon DEF LogInv, HeightsOk
<1>7. LogsOk(deliver')
  <2> HIDE DEF cur
  <2> QED BY Zenon, <1>1, <1>3, <1>4, <1>5, <1>6, LogsStep
<1>8. Extended(deliver.results, r, deliver'.results, Len(deliver.results) + 1)
  BY Zenon, <1>2, <1>3, AppendFacts
<1>9. Below(deliver'.results, cur)
  <2>1. cur <= cur
    BY <1>2
  <2> HIDE DEF cur
  <2> QED BY Zenon, <1>3, <1>6, <1>8, <2>1 DEF Extended, Below
<1> QED BY Zenon, <1>2, <1>3, <1>7, <1>8, <1>9

\* Every way through DeliverTx.
LEMMA DeliverTxLogs ==
  ASSUME Inv, LogInv, NEW t \in Txs, NEW o \in AllOutcomes(t), DeliverTx(t, o) PROVE LogInv'
<1> DEFINE cur == committed.height + 1
           done == deliver.results
           n == Len(deliver.results) + 1
<1>1. phase = "block" /\ Deliver(t, o) /\ UNCHANGED <<conf, phase, committed>>
  BY Zenon DEF DeliverTx
<1>2. TypeOK /\ CountersOk /\ LogsOk(committed) /\ HeightsOk
  BY Zenon DEF Inv, LogInv
<1>3. phase # "idle" /\ phase # "ended"
  BY <1>1
<1>4. ASSUME NEW r \in Result, Run(t, o, r),
             Regular(cur) => Counts(keeper', deliver'.results, cur),
             conf.watch /\ committed.height > 0 => HasFields(watcher') /\ watcher'.made
      PROVE  LogInv'
  <2>1. LogsOk(deliver') /\ Below(deliver'.results, cur) /\ Len(deliver'.blooms) = committed.height
    BY Zenon, <1>1, <1>4, RunLogs
  <2>2. LogsOk(deliver)' /\ LogsOk(committed)'
    BY Zenon, <1>1, <1>2, <2>1 DEF LogsOk, Regular
  <2>3. HeightsOk'
    BY Zenon, <1>1, <1>2, <1>3, <2>1 DEF HeightsOk
  <2>4. CountersOk'
    BY Zenon, <1>1, <1>3, <1>4 DEF CountersOk, Regular
  <2> QED BY Zenon, <2>2, <2>3, <2>4 DEF LogInv
<1>5. CASE /\ t.kind = "eth" /\ AnteAccepts("deliver", t, deliver.accs, 0, conf)
           /\ o \in Outcomes(t, deliver.accs[t.from].coins - Fee(t)) /\ handleMsgEthereumTx(t, o)
  <2>1. PICK r \in Result : Run(t, o, r)
    BY Zenon, <1>2, <1>5, EthereumTxEffect
  <2>2. keeper' = Counted(o, t) /\ watcher' = (IF conf.watch THEN Watched(o, t) ELSE watcher)
    BY Zenon, <1>5 DEF handleMsgEthereumTx
  <2>3. o \in Outcome
    <3>1. Fee(t) \in Int
      BY TxFields DEF Fee
    <3>2. deliver.accs[t.from].coins \in Nat
      BY Zenon, <1>2, TxFields, StoreFields DEF TypeOK
    <3>3. deliver.accs[t.from].coins - Fee(t) \in Int
      BY <3>1, <3>2
    <3> QED BY Zenon, <1>5, <3>3, OutcomeFacts
  <2>4. Extended(done, r, deliver'.results, n)
    BY Zenon, <1>1, <2>1, RunLogs
  <2>5. r.height = cur /\ r.tx = t /\ Numbered(t, o, r)
    BY Zenon, <2>1 DEF Run, Numbered
  <2>6. ASSUME Regular(cur) PROVE Counts(keeper', deliver'.results, cur)
    <3>1. Counts(keeper, done, cur)
      BY Zenon, <1>1, <1>2, <2>6 DEF CountersOk
    <3>2. Counting(keeper, r, keeper')
      BY Zenon, <1>1, <1>2, <1>5, <2>2, <2>3, <2>5, <2>6, CountedFacts
    <3>3. r.tx.kind = "eth" /\ Counts(keeper, done, r.height)
      BY Zenon, <1>5, <2>5, <3>1
    <3> HIDE DEF done, n
    <3>4. Counts(keeper', deliver'.results, r.height)
      BY Zenon, <2>4, <3>2, <3>3, CountsStep
    <3> QED BY Zenon, <2>5, <3>4
  <2>7. conf.watch /\ committed.height > 0 => HasFields(watcher') /\ watcher'.made
    BY Zenon, <1>1, <1>2, <2>2, WatchedKeeps DEF CountersOk, Keeps
  <2> QED BY Zenon, <1>4, <2>1, <2>6, <2>7
<1>6. CASE t.kind = "ethermint" /\ StdAccepts(t, deliver.accs) /\ handleMsgEthermint(t)
  <2>1. PICK r \in Result : Run(t, o, r)
    BY Zenon, <1>2, <1>6, EthermintEffect
  <2>2. keeper' = keeper /\ watcher' = watcher
    BY Zenon, <1>6 DEF handleMsgEthermint
  <2>3. Extended(done, r, deliver'.results, n)
    BY Zenon, <1>1, <2>1, RunLogs
  <2>4. r.tx.kind # "eth"
    <3>1. r.tx = t
      BY Zenon, <2>1 DEF Run, Numbered
    <3> QED BY <1>6, <3>1
  <2>5. ASSUME Regular(cur) PROVE Counts(keeper', deliver'.results, cur)
    <3>1. Counts(keeper, done, cur)
      BY Zenon, <1>1, <1>2, <2>5 DEF CountersOk
    <3> HIDE DEF done, n, cur
    <3>2. Counts(keeper, deliver'.results, cur)
      BY Zenon, <2>3, <2>4, <3>1, UncountedStep
    <3> QED BY Zenon, <2>2, <3>2
  <2>6. conf.watch /\ committed.height > 0 => HasFields(watcher') /\ watcher'.made
    BY Zenon, <1>1, <1>2, <2>2 DEF CountersOk
  <2> QED BY Zenon, <1>4, <2>1, <2>5, <2>6
<1>7. CASE UNCHANGED <<deliver, keeper, watcher>>
  BY Zenon, <1>1, <1>7, QuietLogs
<1> QED BY Zenon, <1>1, <1>5, <1>6, <1>7 DEF Deliver

\* BeginBlock starts from the committed store with nothing counted; the first block of a chain
\* finds the counters at zero.
LEMMA BeginBlockLogs == ASSUME Inv, LogInv, BeginBlock PROVE LogInv'
<1> DEFINE cur == committed.height + 1
<1>1. phase = "idle" /\ phase' = "block" /\ UNCHANGED <<conf, committed>>
  BY Zenon DEF BeginBlock
<1>2. TypeOK /\ CountersOk /\ LogsOk(committed) /\ HeightsOk
  BY Zenon DEF Inv, LogInv
<1>3. committed \in MultiStore /\ committed.height \in Nat /\ committed.results \in Seq(Result)
  BY Zenon, <1>2, StoreFields DEF TypeOK
<1>4. deliver'.results = committed.results /\ deliver'.blooms = committed.blooms
  <2>1. deliver' = committed \/ deliver' = [committed EXCEPT !.hashes = @ \cup {committed.height}]
    BY Zenon DEF BeginBlock
  <2> QED BY Zenon, <1>3, <2>1 DEF MultiStore
<1>5. LogsOk(deliver')
  BY Zenon, <1>2, <1>4, SameBlooms
<1>6. LogsOk(deliver)' /\ LogsOk(committed)'
  BY Zenon, <1>1, <1>2, <1>5 DEF LogsOk, Regular
<1>7. LastBlockHashKnown(cur) <=> committed.height > 0
  BY <1>3 DEF LastBlockHashKnown
<1>8. keeper' = NewKeeper
  <2>1. CASE committed.height > 0
    BY Zenon, <1>7, <2>1 DEF BeginBlock
  <2>2. CASE ~(committed.height > 0)
    <3>1. committed.height = 0
      BY <1>3, <2>2
    <3> QED BY Zenon, <1>1, <1>2, <1>7, <2>2, <3>1 DEF BeginBlock, CountersOk
  <2> QED BY Zenon, <2>1, <2>2
<1>9. Counts(keeper', deliver'.results, cur)
  <2>1. Below(committed.results, committed.height)
    BY Zenon, <1>2 DEF HeightsOk
  <2>2. Counts(NewKeeper, committed.results, cur)
    BY Zenon, <1>3, <2>1, NothingCounted
  <2> QED BY Zenon, <1>4, <1>8, <2>2
<1>10. conf.watch /\ committed.height > 0 => HasFields(watcher') /\ watcher'.made
  <2>1. conf.watch /\ committed.height > 0 => watcher' = NewHeight(cur)
    BY Zenon, <1>7 DEF BeginBlock
  <2>2. HasFields(NewHeight(cur)) /\ NewHeight(cur).made
    BY DEF HasFields, NewHeight, NewWatcher
  <2> QED BY Zenon, <2>1, <2>2
<1>11. phase' # "idle" /\ phase' # "ended"
  BY <1>1
<1>12. HeightsOk'
  <2>1. Below(committed.results, cur)
    <3>1. \A i \in DOMAIN committed.results : committed.results[i].height <= committed.height
      BY Zenon, <1>2 DEF HeightsOk, Below
    <3>2. \A i \in DOMAIN committed.results : committed.results[i] \in Result
      BY <1>3
    <3>3. \A i \in DOMAIN committed.results : committed.results[i].height \in Nat
      BY Zenon, <3>2 DEF Result
    <3>4. \A i \in DOMAIN committed.results : committed.results[i].height <= cur
      BY <1>3, <3>1, <3>3
    <3> QED BY Zenon, <3>4 DEF Below
  <2> QED BY Zenon, <1>1, <1>2, <1>4, <1>11, <2>1 DEF HeightsOk
<1>13. CountersOk'
  BY Zenon, <1>1, <1>9, <1>10, <1>11 DEF CountersOk
<1> QED BY Zenon, <1>6, <1>12, <1>13 DEF LogInv

\* EndBlock writes the keeper's bloom as that of the block.
LEMMA EndBlockLogs == ASSUME Inv, LogInv, EndBlock PROVE LogInv'
<1> DEFINE cur == committed.height + 1
           bloom == keeper.Bloom
<1>1. phase = "block" /\ phase' = "ended" /\ UNCHANGED <<conf, committed>>
  BY Zenon DEF EndBlock
<1>2. TypeOK /\ CountersOk /\ LogsOk(committed) /\ LogsOk(deliver) /\ HeightsOk
  BY Zenon DEF Inv, LogInv
<1>3. /\ deliver \in MultiStore /\ committed.height \in Nat /\ deliver.blooms \in Seq(SUBSET Txs)
      /\ Len(deliver.blooms) = committed.height
  BY Zenon, <1>1, <1>2, StoreFields DEF TypeOK, HeightsOk
<1>4. /\ deliver'.results = deliver.results /\ deliver'.blooms = Append(deliver.blooms, bloom)
      /\ deliver'.height = cur
  <2>1. deliver' = [deliver EXCEPT !.height = cur, !.blooms = Append(@, bloom), !.blocks = Append(@, decided)]
    BY Zenon DEF EndBlock
  <2> HIDE DEF cur, bloom
  <2> QED BY Zenon, <1>3, <2>1 DEF MultiStore
<1>5. bloom \in SUBSET Txs
  BY Zenon, <1>2 DEF TypeOK
<1> HIDE DEF bloom
<1>6. /\ Len(deliver'.blooms) = cur
      /\ \A h \in DOMAIN deliver'.blooms : \/ h = cur /\ deliver'.blooms[h] = bloom
                                           \/ h \in DOMAIN deliver.blooms /\ deliver'.blooms[h] = deliver.blooms[h]
  BY <1>3, <1>4, <1>5
<1>7. Regular(cur) => bloom = Loud(deliver.results, cur)
  BY Zenon, <1>1, <1>2 DEF CountersOk, Counts, bloom
<1>8. ASSUME NEW h \in Nat, Regular(h), h \in DOMAIN deliver'.blooms
      PROVE  deliver'.blooms[h] = Loud(deliver.results, h)
  <2> HIDE DEF cur
  <2> QED BY Zenon, <1>2, <1>6, <1>7, <1>8 DEF LogsOk
<1>9. LogsOk(deliver')
  BY Zenon, <1>2, <1>4, <1>8 DEF LogsOk
<1>10. LogsOk(deliver)' /\ LogsOk(committed)'
  BY Zenon, <1>1, <1>2, <1>9 DEF LogsOk, Regular
<1>11. phase' # "idle" /\ phase' # "block"
  BY <1>1
<1>12. HeightsOk'
  BY Zenon, <1>1, <1>2, <1>4, <1>6, <1>11 DEF HeightsOk
<1>13. CountersOk'
  BY Zenon, <1>11 DEF CountersOk
<1> QED BY Zenon, <1>10, <1>12, <1>13 DEF LogInv

\* CommitBlock takes over the store of the block.
LEMMA CommitBlockLogs == ASSUME Inv, LogInv, CommitBlock PROVE LogInv'
<1>1. phase = "ended" /\ phase' = "idle" /\ committed' = deliver /\ deliver' = deliver /\ conf' = conf
  BY Zenon DEF CommitBlock
<1>2. /\ deliver.height = committed.height + 1 /\ Len(deliver.blooms) = committed.height + 1
      /\ Below(deliver.results, committed.height + 1) /\ LogsOk(deliver) /\ committed.height \in Nat
      /\ deliver \in MultiStore
  BY Zenon, <1>1, StoreFields DEF Inv, TypeOK, LogInv, HeightsOk
<1>3. LogsOk(deliver)' /\ LogsOk(committed)'
  BY Zenon, <1>1, <1>2 DEF LogsOk, Regular
<1>4. phase' # "block" /\ phase' # "ended" /\ deliver.height # 0
  BY <1>1, <1>2
<1>5. Below(deliver.results, deliver.height + 1)
  <2>1. \A i \in DOMAIN deliver.results : deliver.results[i].height <= deliver.height
    BY Zenon, <1>2 DEF Below
  <2>2. \A i \in DOMAIN deliver.results : deliver.results[i] \in Result
    BY <1>2, StoreFields
  <2>3. \A i \in DOMAIN deliver.results : deliver.results[i].height \in Nat
    BY Zenon, <2>2 DEF Result
  <2>4. \A i \in DOMAIN deliver.results : deliver.results[i].height <= deliver.height + 1
    BY <1>2, <2>1, <2>3
  <2> QED BY Zenon, <2>4 DEF Below
<1>6. HeightsOk'
  BY Zenon, <1>1, <1>2, <1>4, <1>5 DEF HeightsOk
<1>7. CountersOk'
  BY Zenon, <1>1, <1>4 DEF CountersOk
<1> QED BY Zenon, <1>3, <1>6, <1>7 DEF LogInv

\* A crash goes back to the committed store and to counters at zero.
LEMMA CrashLogs == ASSUME Inv, LogInv, Crash PROVE LogInv'
<1>1. phase' = "idle" /\ deliver' = committed /\ committed' = committed /\ conf' = conf /\ keeper' = NewKeeper
  BY Zenon DEF Crash
<1>2. /\ Len(committed.blooms) = committed.height /\ Below(committed.results, committed.height)
      /\ LogsOk(committed) /\ committed.height \in Nat /\ committed \in MultiStore
  BY Zenon, StoreFields DEF Inv, TypeOK, LogInv, HeightsOk
<1>3. LogsOk(deliver)' /\ LogsOk(committed)'
  BY Zenon, <1>1, <1>2 DEF LogsOk, Regular
<1>4. phase' # "block" /\ phase' # "ended"
  BY <1>1
<1>5. Below(committed.results, committed.height + 1)
  <2>1. \A i \in DOMAIN committed.results : committed.results[i].height <= committed.height
    BY Zenon, <1>2 DEF Below
  <2>2. \A i \in DOMAIN committed.results : committed.results[i] \in Result
    BY <1>2, StoreFields
  <2>3. \A i \in DOMAIN committed.results : committed.results[i].height \in Nat
    BY Zenon, <2>2 DEF Result
  <2>4. \A i \in DOMAIN committed.results : committed.results[i].height <= committed.height + 1
    BY <1>2, <2>1, <2>3
  <2> QED BY Zenon, <2>4 DEF Below
<1>6. HeightsOk'
  BY Zenon, <1>1, <1>2, <1>4, <1>5 DEF HeightsOk
<1>7. CountersOk'
  BY Zenon, <1>1, <1>4 DEF CountersOk
<1> QED BY Zenon, <1>3, <1>6, <1>7 DEF LogInv

\* Every step.
LEMMA NextLogs == Inv /\ LogInv /\ [Next]_vars => LogInv'
<1> SUFFICES ASSUME Inv, LogInv, [Next]_vars PROVE LogInv'
  OBVIOUS
<1>1. CASE \E t \in Txs : CheckTx(t)
  BY Zenon, <1>1, QuietLogs DEF CheckTx, blockVars, watchVars
<1>2. CASE \E t \in Txs : \E o \in AllOutcomes(t) : DeliverTx(t, o)
  BY Zenon, <1>2, DeliverTxLogs
<1>3. CASE BeginBlock
  BY Zenon, <1>3, BeginBlockLogs
<1>4. CASE EndBlock
  BY Zenon, <1>4, EndBlockLogs
<1>5. CASE CommitBlock
  BY Zenon, <1>5, CommitBlockLogs
<1>6. CASE Crash
  BY Zenon, <1>6, CrashLogs
<1>7. CASE WatcherStep
  BY Zenon, <1>7, QuietLogs DEF WatcherStep, WriteNext, blockVars
<1>8. CASE IndexerStep
  BY Zenon, <1>8, QuietLogs DEF IndexerStep, blockVars, watchVars
<1>9. CASE UNCHANGED vars
  BY Zenon, <1>9, QuietLogs DEF vars, blockVars, watchVars
<1> QED BY Zenon, <1>1, <1>2, <1>3, <1>4, <1>5, <1>6, <1>7, <1>8, <1>9 DEF Next

\* The invariant holds of every behaviour.
THEOREM TransactionInvariant == Spec => []Inv
  BY InitInv, NextInv, PTL DEF Spec

\* Nonces are used once and in order, for any transactions, blocks, mempool and crashes
\* (NonceVerificationDecorator, IncrementSenderSequenceDecorator).
THEOREM NonceUsedOnceCorrect == Spec => []NonceUsedOnce
<1>1. Inv => NonceUsedOnce
  BY Zenon DEF Inv, StoreOk, NoncesOk, NonceUsedOnce, From
<1> QED BY <1>1, TransactionInvariant, PTL

\* Everybody has paid for the gas they used, neither more nor less, and no balance is below zero
\* (EthGasConsumeDecorator, GasRefund, TransitionDb).
THEOREM PaidForGasUsedCorrect == Spec => []PaidForGasUsed
<1>1. ASSUME Inv PROVE PaidForGasUsed
  <2>1. deliver \in MultiStore /\ CollectorOk(deliver) /\ CoinsOk(deliver)
    BY Zenon, <1>1 DEF Inv, TypeOK, StoreOk
  <2>2. \A s \in Senders : deliver.accs[s].coins >= 0
    BY <2>1, StoreFields
  <2> QED BY Zenon, <2>1, <2>2 DEF PaidForGasUsed, CollectorOk, CoinsOk, Payments, Sendings, From, To
<1> QED BY <1>1, TransactionInvariant, PTL

\* What CheckTx let in does not run out of gas before the EVM starts
\* (EthGasConsumeDecorator, IntrinsicGas, TransitionDb).
THEOREM AdmittedReachesEvmCorrect == Spec => []AdmittedReachesEvm
<1>1. ASSUME Inv PROVE AdmittedReachesEvm
  <2> SUFFICES ASSUME NEW i \in DOMAIN deliver.results, deliver.results[i].kind = "outOfGas",
                      deliver.results[i].tx \in admitted
               PROVE  FALSE
    BY Zenon DEF AdmittedReachesEvm
  <2> DEFINE t == deliver.results[i].tx
             since == IntrinsicGas(t, TRUE)
             before == IntrinsicGas(t, FALSE)
  <2>1. t.gas < since /\ t.gas >= before /\ t \in Txs
    BY Zenon, <1>1 DEF Inv, TypeOK, StoreOk, ShortOnes, AdmittedOk
  <2>2. since \in Nat /\ before \in Nat /\ since <= before /\ t.gas \in Nat
    BY Zenon, <2>1, IntrinsicGasFalls, TxFields
  <2> HIDE DEF t, since, before
  <2> QED BY <2>1, <2>2
<1> QED BY <1>1, TransactionInvariant, PTL

\* The transactions and logs of every block are numbered without gap or repetition and its bloom
\* is that of the logs, whatever failed, panicked or was thrown away by a crash
\* (handleMsgEthereumTx, BeginBlock, EndBlock).
THEOREM BlockLogsCorrect == Spec => []BlockLogsExact
<1>1. ASSUME Inv, LogInv PROVE BlockLogsExact
  <2>1. LogsOk(deliver) /\ committed.height \in Nat
    BY Zenon, <1>1, StoreFields DEF Inv, TypeOK, LogInv
  <2>2. 1 .. committed.height + 1 \subseteq Nat
    BY <2>1
  <2>3. ASSUME NEW h \in 1 .. committed.height + 1, Regular(h)
        PROVE  /\ \A i \in Places(deliver.results, h) :
                    /\ deliver.results[i].index = Cardinality(Before(deliver.results, i))
                    /\ deliver.results[i].firstLog = SumOf(LogCounts(deliver.results), Before(deliver.results, i))
               /\ h \in DOMAIN deliver.blooms => deliver.blooms[h] = Loud(deliver.results, h)
    BY Zenon, <2>1, <2>2, <2>3 DEF LogsOk
  <2> QED BY Zenon, <2>3 DEF BlockLogsExact, Places, Before, LogCounts, Loud
<1>2. Spec => []LogInv
  BY InitLogs, NextLogs, TransactionInvariant, PTL DEF Spec
<1> QED BY <1>1, <1>2, TransactionInvariant, PTL

\* The result of a committed transaction neither changes nor vanishes, whatever block is thrown
\* away by a crash and executed again (CommitBlock, Crash).
ResultsKept ==
  \A i \in DOMAIN committed.results : i \in DOMAIN committed'.results /\ committed'.results[i] = committed.results[i]

\* The committed results only grow, whatever crashes in between (CommitBlock, Crash).
THEOREM CommittedResultsAreFinal == Spec => [][ResultsKept]_vars
<1>1. ASSUME Inv, [Next]_vars PROVE [ResultsKept]_vars
  <2>1. CASE committed' = committed
    BY Zenon, <2>1 DEF ResultsKept
  <2>2. CASE committed' = deliver
    BY Zenon, <1>1, <2>2 DEF Inv, Ahead, ResultsKept
  <2>3. committed' = committed \/ committed' = deliver
    BY Zenon, <1>1 DEF Next, CheckTx, DeliverTx, BeginBlock, EndBlock, CommitBlock, Crash, WatcherStep, IndexerStep, vars
  <2> QED BY Zenon, <2>1, <2>2, <2>3
<1> QED BY <1>1, TransactionInvariant, PTL DEF Spec
=============================================================================
