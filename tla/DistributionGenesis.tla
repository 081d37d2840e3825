------------------------- MODULE DistributionGenesis -------------------------
(***************************************************************************)
(* Export of the distribution module and the start of a new chain from it  *)
(* (distribution/genesis.go, app/export.go).  The accounts, the validators *)
(* and the parameters travel with the modules that own them, which come    *)
(* before (auth) or do not call the hooks again (an exported staking).     *)
(***************************************************************************)
EXTENDS Distribution

\* prepForZeroHeightGenesis withdraws the commission of every validator, after the
\* invariants were asserted.
Withdrawn(zeroHeight) == {v \in Validators : zeroHeight /\ stk[v].exists}

Left(v, withdrawn) == IF v \in withdrawn THEN Remainder(v) ELSE Accumulated(v)

\* ExportGenesis, with the iterators of store.go.
ExportGenesis(withdrawn) ==
  [feePool      |-> communityPool,
   commissions  |-> {[validator |-> v, coins |-> Left(v, withdrawn)] :
                       v \in {w \in Validators : commission[w].found}},
   withdrawInfos |-> {[delegator |-> v, to |-> withdrawAddr[v]] :
                        v \in {w \in Validators : withdrawAddr[w] # w}},
   enabled      |-> withdrawAddrEnabled]

Holdings(data) == data.feePool + SumOf([c \in data.commissions |-> c.coins], data.commissions)

\* InitGenesis: the module account keeps the coins the auth module gave it, unless it has none.
InitGenesis(data, coins) ==
  /\ communityPool' = data.feePool
  /\ commission' = [v \in Validators |->
       IF \E c \in data.commissions : c.validator = v
         THEN Record((CHOOSE c \in data.commissions : c.validator = v).coins) ELSE NoRecord]
  /\ withdrawAddr' = [v \in Validators |->
       IF \E i \in data.withdrawInfos : i.delegator = v
         THEN (CHOOSE i \in data.withdrawInfos : i.delegator = v).to ELSE v]
  /\ withdrawAddrEnabled' = data.enabled
  /\ moduleAcc' = IF coins = 0 THEN Holdings(data) ELSE coins

\* The chain stops after a block, is exported, and starts again.
Restart(zeroHeight) ==
  LET withdrawn == Withdrawn(zeroHeight)
  IN  /\ broken = ""
      /\ zeroHeight => DistributionInvariants
      /\ InitGenesis(ExportGenesis(withdrawn), moduleAcc - SumOf(WholeCoins, withdrawn))
      /\ received' = [a \in Addresses |-> received[a] + PaidOut(withdrawn, a)]
      /\ UNCHANGED <<stk, feeCollector, broken>>

ChainNext == Next \/ \E zeroHeight \in BOOLEAN : Restart(zeroHeight)

ChainSpec == Init /\ [][ChainNext]_distrVars
==============================================================================
