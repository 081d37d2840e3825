----------------------------- MODULE Governance -----------------------------
(***************************************************************************)
(* Proposals that change parameters, the whitelist of contract deployers   *)
(* and the list of blocked contracts: the checks of the params and evm     *)
(* modules when a proposal is submitted, and their handlers when it has    *)
(* passed.  A parameter change may name a later height; it waits in a      *)
(* queue of the gov module until then.                                     *)
(*                                                                         *)
(* The gov module is not part of the repository.  It is modelled from what *)
(* its callers need: it decides which proposals pass at the end of a       *)
(* block, runs handlers on a copy of the store that it keeps unless the    *)
(* handler fails, and runs the handlers of the proposals that wait for the *)
(* height, in whatever order.                                              *)
(***************************************************************************)
EXTENDS Integers, Sequences, SequencesExt, FiniteSets

CONSTANTS Addresses,             \* of deployers and contracts
          Proposers, IsValidator,  \* accounts, and those that are validators
          Coins,                 \* of every proposer
          Contents,              \* what is proposed in the instance
          Deposits,
          InitialParams,         \* sets of parameters a genesis file may give
          MaxInt64,              \* the width of heights
          maxAddressListLength,
          MaxHeight, MaxProposals

\* Values are numbers: 0 and 1 are the Booleans, a negative value is the encoding of no value.
\* These keys stand for all: a switch, a number, coins, and a number that must not be zero.
EvmSwitches == {"EnableCreate", "EnableCall", "EnableContractDeploymentWhitelist", "EnableContractBlockedList"}
Keys == EvmSwitches \cup {"MaxGasLimitPerTx", "MinDeposit", "MaxBlockHeight"}

ASSUME GovernanceAssumption ==
  /\ {MaxInt64, maxAddressListLength, MaxHeight, MaxProposals} \subseteq Nat
  /\ IsValidator \subseteq Proposers /\ Coins \in [Proposers -> Nat] /\ Deposits \subseteq Nat
  /\ InitialParams \subseteq [Keys -> Nat] /\ \A ps \in InitialParams : ps["MaxBlockHeight"] > 0

VARIABLES height, phase,      \* of the chain; "txs" or "gov", the end of a block
          params, lists,      \* the parameters; members of "whitelist" and "blocked"
          proposals,          \* by identifier: content, status, and the height at which it passed
          waiting,            \* the queue: pairs of a height and an identifier
          done,               \* waiting proposals that this block has run
          effects             \* history: identifiers and heights of the changes made

vars == <<height, phase, params, lists, proposals, waiting, done, effects>>

Init ==
  /\ height = 1 /\ phase = "txs"
  /\ params \in InitialParams
  /\ lists = [whitelist |-> {}, blocked |-> {}]
  /\ proposals = <<>> /\ waiting = {} /\ done = {} /\ effects = <<>>

----------------------------------------------------------------------------
\* Parameters.

validateBool(value) == value \in {0, 1}
validateUint64(value) == value >= 0
ValidateSysCoins(value) == value >= 0
ValidateUint64Positive(value) == value > 0

\* The key tables of the two subspaces and the validators of their values.
EvmParamSetPairs(key, value) ==
  \/ key \in EvmSwitches /\ validateBool(value)
  \/ key = "MaxGasLimitPerTx" /\ validateUint64(value)

ParamsParamSetPairs(key, value) ==
  \/ key = "MinDeposit" /\ ValidateSysCoins(value)
  \/ key = "MaxBlockHeight" /\ ValidateUint64Positive(value)

Updates(c) ==
  \/ c.subspace = "evm" /\ EvmParamSetPairs(c.key, c.value)
  \/ c.subspace = "params" /\ ParamsParamSetPairs(c.key, c.value)

\* Stops at the first change that fails.
changeParams(ps, changes) ==
  LET Change(st, c) == IF st.ok /\ Updates(c) THEN [st EXCEPT !.params[c.key] = c.value] ELSE [st EXCEPT !.ok = FALSE]
  IN  FoldLeft(Change, [ok |-> TRUE, params |-> ps], changes)

----------------------------------------------------------------------------
\* Submission.

isAddrDuplicated(addrs) == \E i, j \in DOMAIN addrs : i # j /\ addrs[i] = addrs[j]

\* The ValidateBasic of each content.  Titles and descriptions are left out.
ParameterChangeValid(c) == Len(c.changes) = 1
DeploymentWhitelistValid(c) == c.addrs # <<>> /\ Len(c.addrs) <= maxAddressListLength /\ ~isAddrDuplicated(c.addrs)
BlockedListValid(c) == c.addrs # <<>> /\ Len(c.addrs) <= maxAddressListLength /\ ~isAddrDuplicated(c.addrs)

ValidateBasic(c) ==
  \/ c.type = "params" /\ ParameterChangeValid(c)
  \/ c.type = "whitelist" /\ DeploymentWhitelistValid(c)
  \/ c.type = "blocked" /\ BlockedListValid(c)

\* Heights are unsigned integers: a difference below zero and a sum above the width wrap.
Wrap(n) == n % (2 * MaxInt64 + 2)

HeightAccepted(h) ==
  LET maxHeight == IF params["MaxBlockHeight"] = 0 THEN Wrap(MaxInt64 - h) ELSE params["MaxBlockHeight"]
  IN  h >= height /\ h <= Wrap(height + maxHeight)

\* Mutant: the change is not tried.
CheckMsgSubmitProposalUntried(p, deposit, c) ==
  c.type = "params" => p \in IsValidator /\ 10 * deposit >= params["MinDeposit"] /\ Coins[p] >= deposit /\ HeightAccepted(c.height)

\* The evm module accepts every content; the params module tries the change on a copy.
CheckMsgSubmitProposal(p, deposit, c) ==
  c.type = "params" =>
    /\ p \in IsValidator
    /\ 10 * deposit >= params["MinDeposit"]
    /\ Coins[p] >= deposit
    /\ HeightAccepted(c.height)
    /\ changeParams(params, c.changes).ok

SubmitProposal(p, deposit, c) ==
  /\ phase = "txs" /\ Len(proposals) < MaxProposals
  /\ ValidateBasic(c) /\ CheckMsgSubmitProposal(p, deposit, c)
  /\ proposals' = Append(proposals, [content |-> c, status |-> "voting", passed |-> 0])
  /\ UNCHANGED <<height, phase, params, lists, waiting, done, effects>>

----------------------------------------------------------------------------
\* Handlers: what one leaves in the store, or its error.

Store == [ok |-> TRUE, params |-> params, lists |-> lists, waiting |-> waiting]

\* Mutant: a proposal for the current height waits.
handleParameterChangeProposalLate(id, c) ==
  LET changed == changeParams(params, c.changes) IN
  IF c.height >= height THEN [Store EXCEPT !.waiting = @ \cup {<<c.height, id>>}]
  ELSE [Store EXCEPT !.ok = changed.ok, !.params = changed.params, !.waiting = @ \ {<<c.height, id>>}]

handleParameterChangeProposal(id, c) ==
  LET changed == changeParams(params, c.changes) IN
  IF c.height > height THEN [Store EXCEPT !.waiting = @ \cup {<<c.height, id>>}]
  ELSE [Store EXCEPT !.ok = changed.ok, !.params = changed.params, !.waiting = @ \ {<<c.height, id>>}]

SetContractDeploymentWhitelist(addrs) == [Store EXCEPT !.lists.whitelist = @ \cup Range(addrs)]
DeleteContractDeploymentWhitelist(addrs) == [Store EXCEPT !.lists.whitelist = @ \ Range(addrs)]
SetContractBlockedList(addrs) == [Store EXCEPT !.lists.blocked = @ \cup Range(addrs)]
DeleteContractBlockedList(addrs) == [Store EXCEPT !.lists.blocked = @ \ Range(addrs)]

handleManageContractDeploymentWhitelistProposal(c) ==
  IF c.added THEN SetContractDeploymentWhitelist(c.addrs) ELSE DeleteContractDeploymentWhitelist(c.addrs)

handleManageContractBlockedlListProposal(c) ==
  IF c.added THEN SetContractBlockedList(c.addrs) ELSE DeleteContractBlockedList(c.addrs)

Handler(id) ==
  LET c == proposals[id].content IN
  CASE c.type = "params" -> handleParameterChangeProposal(id, c)
    [] c.type = "whitelist" -> handleManageContractDeploymentWhitelistProposal(c)
    [] c.type = "blocked" -> handleManageContractBlockedlListProposal(c)

\* The gov module keeps what a handler did unless it failed.
Run(id) ==
  LET store == Handler(id)
      waits == proposals[id].content.type = "params" /\ <<proposals[id].content.height, id>> \in store.waiting
      now == IF proposals[id].status = "voting" THEN height ELSE proposals[id].passed
  IN
  /\ proposals' = [proposals EXCEPT ![id].status = IF store.ok THEN "passed" ELSE "failed", ![id].passed = now]
  /\ IF store.ok
     THEN /\ params' = store.params /\ lists' = store.lists /\ waiting' = store.waiting
          /\ effects' = IF waits THEN effects ELSE Append(effects, [id |-> id, height |-> height])
     ELSE UNCHANGED <<params, lists, waiting, effects>>

----------------------------------------------------------------------------
\* The end of a block.

EndTxs ==
  /\ phase = "txs" /\ phase' = "gov" /\ done' = {}
  /\ UNCHANGED <<height, params, lists, proposals, waiting, effects>>

\* The voting on a proposal ends, for it or against it.
Passes(id) ==
  /\ phase = "gov" /\ proposals[id].status = "voting"
  /\ Run(id)
  /\ UNCHANGED <<height, phase, done>>

Rejected(id) ==
  /\ phase = "gov" /\ proposals[id].status = "voting"
  /\ proposals' = [proposals EXCEPT ![id].status = "rejected"]
  /\ UNCHANGED <<height, phase, params, lists, waiting, done, effects>>

RunWaiting(id) ==
  /\ phase = "gov" /\ <<height, id>> \in waiting /\ id \notin done
  /\ done' = done \cup {id}
  /\ Run(id)
  /\ UNCHANGED <<height, phase>>

EndBlock ==
  /\ phase = "gov" /\ height < MaxHeight
  /\ \A w \in waiting : w[1] = height => w[2] \in done
  /\ height' = height + 1 /\ phase' = "txs"
  /\ UNCHANGED <<params, lists, proposals, waiting, done, effects>>

Next ==
  \/ \E p \in Proposers, deposit \in Deposits, c \in Contents : SubmitProposal(p, deposit, c)
  \/ EndTxs \/ EndBlock
  \/ \E id \in DOMAIN proposals : Passes(id) \/ Rejected(id) \/ RunWaiting(id)

Spec == Init /\ [][Next]_vars

----------------------------------------------------------------------------
\* Properties.

\* When a proposal that has passed is due: at once, or at the height it names if that is later.
Due(id) ==
  LET p == proposals[id] IN
  IF p.content.type = "params" /\ p.content.height > p.passed THEN p.content.height ELSE p.passed

Passed == {id \in DOMAIN proposals : proposals[id].status = "passed"}

\* The members of a list, by the last change that names an address.
Member(a, type) ==
  LET named == {i \in DOMAIN effects : LET c == proposals[effects[i].id].content IN c.type = type /\ a \in Range(c.addrs)}
  IN  named # {} /\ proposals[effects[CHOOSE i \in named : \A j \in named : j <= i].id].content.added

\* Between blocks every proposal that has passed has been carried out exactly once, in the block
\* in which it was due, or is in the queue under a later height and has changed nothing; the
\* lists have the members that the proposals carried out so far give them
\* (handleParameterChangeProposal, the waiting queue, the handlers of the evm module).
CarriedOutOnce ==
  phase = "txs" =>
    /\ \A id \in Passed :
         LET carried == {i \in DOMAIN effects : effects[i].id = id} IN
         IF Due(id) < height THEN Cardinality(carried) = 1 /\ \A i \in carried : effects[i].height = Due(id)
                             ELSE carried = {}
    /\ waiting = {<<Due(id), id>> : id \in {x \in Passed : Due(x) >= height}}
    /\ \A type \in {"whitelist", "blocked"} : lists[type] = {a \in Addresses : Member(a, type)}

\* A proposal that was accepted does not fail when it is carried out, however much later and
\* after whatever other changes: CheckMsgSubmitProposal has tried it.
AcceptedNeverFails == \A id \in DOMAIN proposals : proposals[id].status # "failed"
=============================================================================
