------------------------------- MODULE Token -------------------------------
(***************************************************************************)
(* The token module: tokens are issued, minted, burned and sent, change    *)
(* their owner by an offer that the new owner confirms within a window,    *)
(* and coins are locked in the module account.  A message that fails has   *)
(* no effect, so a handler is an action whose guard is its success; this   *)
(* holds also for the confirmation that comes too late, whose deletion of  *)
(* the offer is rolled back with the message.                              *)
(*                                                                         *)
(* Coins are of one denomination per message.  The symbol of a new token   *)
(* is any one that is not taken (the suffix comes from the hash of the     *)
(* transaction).  Names, descriptions and fee records are left out.        *)
(***************************************************************************)
EXTENDS Integers, Sequences, FiniteSets, Sums

CONSTANTS
  Accounts,            \* that sign messages
  BlackHole,           \* BlackHoleAddress, whose key nobody has
  Contracts,           \* accounts with code
  TokenAcc, FeeAcc,    \* the module accounts, which the bank keeper blacklists
  Native, Symbols,     \* the native token, and the symbols of the tokens to be issued
  Upperbound,          \* TotalSupplyUpperbound
  Fee,                 \* FeeIssue, FeeMint, FeeBurn, FeeModify and FeeChown
  Amounts,             \* amounts in messages, which may be zero or negative
  MultiSendLimit,
  Windows,             \* values of OwnershipConfirmWindow
  InitialBalance,      \* native coins of every account at genesis
  MaxTime              \* bound of the instance

VARIABLES
  token,        \* by symbol: the token records
  userTokens,   \* the keys of GetUserTokenKey
  confirm,      \* by symbol: ConfirmOwnership
  offeredBy,    \* history: the owner that made the offer
  locked,       \* by account and kind: the locked coins
  supply, balance,     \* of the supply and bank keepers
  window, sendEnabled, \* parameters
  now

tokenVars == <<token, userTokens, confirm, offeredBy>>
coinVars == <<locked, supply, balance>>
envVars == <<window, sendEnabled, now>>
vars == <<tokenVars, coinVars, envVars>>

Denoms == Symbols \cup {Native}
Users == Accounts \cup Contracts
Holders == Users \cup {BlackHole, TokenAcc, FeeAcc}
LockTypes == {"quantity", "fee"}

NoToken == [exists |-> FALSE, owner |-> BlackHole, mintable |-> FALSE]
NoOffer == [found |-> FALSE, address |-> BlackHole, expire |-> 0]

ASSUME TokenAssumption ==
  /\ IsFiniteSet(Users) /\ Contracts \cap Accounts = {}
  /\ BlackHole \notin Users /\ TokenAcc \notin Users \cup {BlackHole}
  /\ FeeAcc \notin Users \cup {BlackHole, TokenAcc}
  /\ Native \notin Symbols
  /\ {Upperbound, Fee, InitialBalance, MaxTime, MultiSendLimit} \subseteq Nat
  /\ Amounts \subseteq Int /\ Windows \subseteq Nat

----------------------------------------------------------------------------
(* The bank and supply keepers, on a table of balances *)

Add(b, a, d, n) == [b EXCEPT ![a][d] = @ + n]
CanPay(b, a, d, n) == b[a][d] >= n
Move(b, from, to, d, n) == Add(Add(b, from, d, -n), to, d, n)

\* The fee of a message, from the account to the fee collector.
Charged(b, a) == Move(b, a, FeeAcc, Native, Fee)

\* Deduction of the fee, after the handler has left the balances b.
PayFee(b, a) == CanPay(b, a, Native, Fee) /\ balance' = Charged(b, a)

----------------------------------------------------------------------------
(* keeper.go: tokens and their owners *)

\* NewToken: the record and the key under its owner.
NewToken(s, t) ==
  /\ token' = [token EXCEPT ![s] = t]
  /\ userTokens' = userTokens \cup {<<t.owner, s>>}

\* Mutant of ChangeOwner: the key under the old owner stays.
ChangeOwnerKeepingKey(s, a) == NewToken(s, [token[s] EXCEPT !.owner = a])

\* DeleteUserToken of the old owner, then NewToken.
ChangeOwner(s, a) ==
  /\ token' = [token EXCEPT ![s].owner = a]
  /\ userTokens' = (userTokens \ {<<token[s].owner, s>>}) \cup {<<a, s>>}

\* The owner of a token that does not exist is empty, and no message has an empty address.
Owns(a, s) == token[s].exists /\ token[s].owner = a

----------------------------------------------------------------------------
(* types/msgs.go: ValidateBasic, which BaseApp calls before the handler.  A message that    *)
(* lacks an address or a symbol, which it refuses too, is not among the messages here.      *)

ValidateIssue(n) == n <= Upperbound /\ n > 0
ValidateBurn(n) == n >= 0
ValidateMint(n) == n <= Upperbound /\ n >= 0

\* MsgMultiSend, and MsgSend for one transfer.
ValidateMultiSend(transfers) ==
  /\ Len(transfers) <= MultiSendLimit
  /\ \A i \in DOMAIN transfers : transfers[i].amount > 0

\* MsgTokenModify: of the name and the description, those that are edited must be well formed.
ValidateModify(edited, malformed) == edited \cap malformed = {}

----------------------------------------------------------------------------
(* handler.go *)

\* addTokenSuffix: the name with a suffix from the hash of the transaction is new.
addTokenSuffix(s) == ~token[s].exists

handleMsgTokenIssue(a, s, n, mintable) ==
  /\ ValidateIssue(n)
  /\ addTokenSuffix(s)
  /\ supply' = [supply EXCEPT ![s] = @ + n]
  /\ NewToken(s, [exists |-> TRUE, owner |-> a, mintable |-> mintable])
  /\ PayFee(Add(balance, a, s, n), a)
  /\ UNCHANGED <<confirm, offeredBy, locked, envVars>>

handleMsgTokenBurn(a, s, n) ==
  /\ ValidateBurn(n)
  /\ Owns(a, s)
  /\ CanPay(balance, a, s, n)
  /\ supply' = [supply EXCEPT ![s] = @ - n]
  /\ PayFee(Add(balance, a, s, -n), a)
  /\ UNCHANGED <<tokenVars, locked, envVars>>

handleMsgTokenMint(a, s, n) ==
  /\ ValidateMint(n)
  /\ Owns(a, s)
  /\ token[s].mintable
  /\ supply[s] + n <= Upperbound
  /\ supply' = [supply EXCEPT ![s] = @ + n]
  /\ PayFee(Add(balance, a, s, n), a)
  /\ UNCHANGED <<tokenVars, locked, envVars>>

\* Mutant of Receives: module accounts are not refused.
ReceivesAnywhere(to) == to \notin Contracts

\* SendCoinsFromAccountToAccount refuses module accounts and contracts.
Receives(to) == to \notin {TokenAcc, FeeAcc} /\ to \notin Contracts

\* The loop of handleMsgMultiSend: each transfer is made on the balances left by the one
\* before; the first that fails makes the message fail.
MultiSent(from, transfers) ==
  LET after[i \in 0..Len(transfers)] ==
        IF i = 0 THEN [ok |-> TRUE, bal |-> balance]
        ELSE LET t == transfers[i]
                 b == after[i - 1].bal
             IN  [ok  |-> after[i - 1].ok /\ Receives(t.to) /\ CanPay(b, from, t.denom, t.amount),
                  bal |-> Move(b, from, t.to, t.denom, t.amount)]
  IN  after[Len(transfers)]

\* handleMsgMultiSend, and handleMsgSend with one transfer.
handleMsgMultiSend(from, transfers) ==
  /\ ValidateMultiSend(transfers)
  /\ sendEnabled
  /\ MultiSent(from, transfers).ok
  /\ balance' = MultiSent(from, transfers).bal
  /\ UNCHANGED <<tokenVars, supply, locked, envVars>>

\* An offer that may still be confirmed.
Pending(s) == confirm[s].found /\ ~(now > confirm[s].expire)

\* Mutant of MayOffer: a pending offer is overlooked.
MayOfferAlways(a, s) == Owns(a, s)

MayOffer(a, s) == Owns(a, s) /\ ~Pending(s)

\* handleMsgTransferOwnership.  An old offer that has expired is not deleted when the
\* token goes to the black hole.
handleMsgTransferOwnership(a, to, s) ==
  /\ MayOffer(a, s)
  /\ \/ to = BlackHole /\ ChangeOwner(s, to) /\ UNCHANGED <<confirm, offeredBy>>
     \/ /\ to # BlackHole
        /\ confirm' = [confirm EXCEPT ![s] = [found |-> TRUE, address |-> to, expire |-> now + window]]
        /\ offeredBy' = [offeredBy EXCEPT ![s] = a]
        /\ UNCHANGED <<token, userTokens>>
  /\ PayFee(balance, a)
  /\ UNCHANGED <<supply, locked, envVars>>

\* Mutant of MayConfirm: the time is not checked.
MayConfirmLate(a, s) == confirm[s].found /\ confirm[s].address = a

MayConfirm(a, s) == Pending(s) /\ confirm[s].address = a

handleMsgConfirmOwnership(a, s) ==
  /\ MayConfirm(a, s)
  /\ ChangeOwner(s, a)
  /\ confirm' = [confirm EXCEPT ![s] = NoOffer]
  /\ UNCHANGED <<offeredBy, coinVars, envVars>>

\* Only the whole name and the description change.
handleMsgTokenModify(a, s, edited, malformed) ==
  /\ ValidateModify(edited, malformed)
  /\ edited # {}
  /\ Owns(a, s)
  /\ PayFee(balance, a)
  /\ UNCHANGED <<tokenVars, supply, locked, envVars>>

----------------------------------------------------------------------------
(* keeper.go: coins locked for another module *)

\* updateLockedCoins; unlocking more than is locked fails.
UpdateLocked(l, a, kind, d, n) == [l EXCEPT ![a][kind][d] = @ + n]

LockCoins(a, kind, d, n) ==
  /\ CanPay(balance, a, d, n)
  /\ balance' = Move(balance, a, TokenAcc, d, n)
  /\ locked' = UpdateLocked(locked, a, kind, d, n)
  /\ UNCHANGED <<tokenVars, supply, envVars>>

UnlockCoins(a, kind, d, n) ==
  /\ locked[a][kind][d] >= n
  /\ CanPay(balance, TokenAcc, d, n)
  /\ balance' = Move(balance, TokenAcc, a, d, n)
  /\ locked' = UpdateLocked(locked, a, kind, d, -n)
  /\ UNCHANGED <<tokenVars, supply, envVars>>

\* BalanceAccount for both sides of a settlement, in which a gives n of d for m of e.
BalanceAccount(a, d, n, b, e, m) ==
  LET l == UpdateLocked(locked, a, "quantity", d, -n)
  IN  /\ locked[a]["quantity"][d] >= n /\ l[b]["quantity"][e] >= m
      /\ CanPay(balance, TokenAcc, e, m)
      /\ locked' = UpdateLocked(l, b, "quantity", e, -m)
      /\ balance' = Move(Move(balance, TokenAcc, a, e, m), TokenAcc, b, d, n)
      /\ UNCHANGED <<tokenVars, supply, envVars>>

----------------------------------------------------------------------------
(* genesis.go *)

GetTokensInfo == {s \in Denoms : token[s].exists}

NoCoins == [d \in Denoms |-> 0]
LockedOf(kind) ==
  {[acc |-> a, coins |-> locked[a][kind]] : a \in {b \in Accounts : locked[b][kind] # NoCoins}}

GetAllLockedCoins == LockedOf("quantity")
IterateLockedFees == LockedOf("fee")

\* updateLockedCoins for every line of the genesis.
Relocked(locks, a) ==
  LET lines == {l \in locks : l.acc = a}
  IN  [d \in Denoms |-> SumOf([l \in lines |-> l.coins[d]], lines)]

\* ExportGenesis, then initGenesis of a new chain: the keys of the owners are built anew,
\* and offers are not part of a genesis.
ExportAndInit ==
  /\ userTokens' = {<<token[s].owner, s>> : s \in GetTokensInfo}
  /\ confirm' = [s \in Denoms |-> NoOffer]
  /\ locked' = [a \in Accounts |-> [k \in LockTypes |->
       Relocked(IF k = "quantity" THEN GetAllLockedCoins ELSE IterateLockedFees, a)]]
  /\ UNCHANGED <<token, offeredBy, supply, balance, envVars>>

\* A later block, and a change of the parameters.
Tick == now < MaxTime /\ now' = now + 1 /\ UNCHANGED <<tokenVars, coinVars, window, sendEnabled>>
ChangeParams(w, enabled) ==
  window' = w /\ sendEnabled' = enabled /\ UNCHANGED <<tokenVars, coinVars, now>>

\* initGenesis with the native token, owned by one of the accounts.
Init ==
  /\ \E a \in Accounts :
       /\ token = [s \in Denoms |-> IF s = Native THEN [exists |-> TRUE, owner |-> a, mintable |-> TRUE] ELSE NoToken]
       /\ userTokens = {<<a, Native>>}
  /\ confirm = [s \in Denoms |-> NoOffer]
  /\ offeredBy = [s \in Denoms |-> BlackHole]
  /\ locked = [a \in Accounts |-> [k \in LockTypes |-> [d \in Denoms |-> 0]]]
  /\ balance = [a \in Holders |-> [d \in Denoms |-> IF a \in Accounts /\ d = Native THEN InitialBalance ELSE 0]]
  /\ supply = [d \in Denoms |-> IF d = Native THEN InitialBalance * Cardinality(Accounts) ELSE 0]
  /\ window \in Windows /\ sendEnabled = TRUE
  /\ now = 0

Transfers == [to : Holders, denom : Denoms, amount : Amounts]

\* The messages and calls by what they are about.
SupplyMessages ==
  \/ \E a \in Accounts, s \in Symbols, n \in Amounts, m \in BOOLEAN : handleMsgTokenIssue(a, s, n, m)
  \/ \E a \in Accounts, s \in Denoms, n \in Amounts :
       handleMsgTokenBurn(a, s, n) \/ handleMsgTokenMint(a, s, n)
  \/ \E a \in Accounts, s \in Denoms, edited, malformed \in SUBSET {"wholeName", "description"} :
       handleMsgTokenModify(a, s, edited, malformed)

SendMessages ==
  \/ \E a \in Accounts, t \in Transfers : handleMsgMultiSend(a, <<t>>)
  \/ \E a \in Accounts, t, u \in Transfers : handleMsgMultiSend(a, <<t, u>>)

OwnerMessages ==
  \/ \E a \in Accounts, to \in Users \cup {BlackHole}, s \in Denoms : handleMsgTransferOwnership(a, to, s)
  \/ \E a \in Accounts, s \in Denoms : handleMsgConfirmOwnership(a, s)

LockCalls ==
  \/ \E a \in Accounts, k \in LockTypes, d \in Denoms, n \in Amounts :
       n > 0 /\ (LockCoins(a, k, d, n) \/ UnlockCoins(a, k, d, n))
  \/ \E a, b \in Accounts, d, e \in Denoms, n, m \in Amounts :
       n > 0 /\ m > 0 /\ BalanceAccount(a, d, n, b, e, m)

ChainSteps ==
  ExportAndInit \/ Tick \/ \E w \in Windows, enabled \in BOOLEAN : ChangeParams(w, enabled)

Next == SupplyMessages \/ SendMessages \/ OwnerMessages \/ LockCalls \/ ChainSteps

Spec == Init /\ [][Next]_vars
----------------------------------------------------------------------------
(* Properties *)

\* The keys under the owners (GetUserTokensInfo) are exactly the Owner fields of the token
\* records, through issues, offers, confirmations, renunciations and a new genesis.
OwnerIndexExact == userTokens = {<<token[s].owner, s>> : s \in GetTokensInfo}

\* Coins are neither made nor lost: the supply of a token is what all accounts have of it, no
\* account is overdrawn, not even by the last of several payments in one message, and the
\* module account holds exactly what the lock store says, by whichever messages coins might
\* get there (ValidateBasic, SendCoinsFromAccountToAccount, LockCoins, BalanceAccount).
CoinsExact ==
  \A d \in Denoms :
    /\ supply[d] = SumOf([a \in Holders |-> balance[a][d]], Holders)
    /\ \A a \in Holders : balance[a][d] >= 0
    /\ balance[TokenAcc][d] =
         SumOf([a \in Accounts |-> locked[a]["quantity"][d] + locked[a]["fee"][d]], Accounts)

\* A token changes hands only when the owner of that moment has offered it to the new one
\* within the window, or gives it up (handleMsgTransferOwnership, handleMsgConfirmOwnership).
OwnershipByConsent ==
  [][\A s \in Denoms : token[s].exists /\ token'[s].owner # token[s].owner =>
       \/ token'[s].owner = BlackHole
       \/ /\ Pending(s) /\ token'[s].owner = confirm[s].address
          /\ offeredBy[s] = token[s].owner]_vars

\* A token that was given to the black hole stays there, although an old offer may still be
\* in the store and the window may have been changed since.
Renounced ==
  [][\A s \in Denoms : token[s].exists /\ token[s].owner = BlackHole => token'[s].owner = BlackHole]_vars
=============================================================================
