-------------------------- MODULE StakingHandler --------------------------
(***************************************************************************)
(* The message handlers of staking/handler.go and staking/handler_shares.go *)
(* with the keeper functions they call.  Every handler runs in a           *)
(* transaction: an error undoes all of its writes, so a handler is an      *)
(* action that is enabled exactly when the code returns no error.          *)
(* MsgEditValidator only replaces the description, which is not modelled.  *)
(***************************************************************************)
EXTENDS StakingKeeper

\* ValidateBasic of the messages.
ValidateCreateValidator(msd) == msd >= MinMsd
ValidateDeposit(quantity) == quantity > 0
ValidateAddShares(vs) == vs # {}
ValidateBindProxy(d, p) == d # p

\* The new validator is unbonded and holds the shares of its msd, which moves to the bonded pool.
handleMsgCreateValidator(v, msd) ==
  /\ ValidateCreateValidator(msd)
  /\ ~Exists(val, v)
  /\ AccountToBonded(v, msd)
  /\ val' = [val EXCEPT ![v] = [status |-> "unbonded", jailed |-> FALSE, shares |-> MsdShares,
                                msd |-> msd, unbondingTime |-> 0]]
  /\ powerIndex' = Reindex(powerIndex, val, val', {v})
  /\ UNCHANGED <<lastPower, lastTotalPower, abandoned, validatorQueue, delVars,
                 undelegation, undelegateQueue>>

\* The shares of the delegators, without those of the msd.
RemainShares(v) == val[v].shares - MsdShares

\* The msd starts to unbond, the validator is jailed and loses the shares of its
\* msd.  A bonded one is put on the list to kick out, an unbonded one without
\* other shares is removed (RemoveValidator).
WithdrawMinSelfDelegation(v) ==
  LET remain == RemainShares(v)
      gone == val[v].status = "unbonded" /\ remain = 0
  IN  /\ val[v].msd # 0
      /\ remain >= 0
      /\ BondedToNotBonded(val[v].msd)
      /\ AddUndelegation(v, val[v].msd)
      /\ abandoned' = IF val[v].status = "bonded" THEN Append(abandoned, v) ELSE abandoned
      /\ powerIndex' = powerIndex \ {PowerKey(val, v)}
      /\ val' = [val EXCEPT ![v] =
                   IF gone THEN NoValidator
                   ELSE [@ EXCEPT !.msd = 0, !.jailed = TRUE, !.shares = remain]]
      /\ UNCHANGED <<lastPower, lastTotalPower, validatorQueue, delVars, balance>>

handleMsgDestroyValidator(v) == Exists(val, v) /\ WithdrawMinSelfDelegation(v)

\* What a proxy or a plain delegator votes with.
VotingTokens(r) == r.tokens + (IF r.isProxy THEN r.total ELSE 0)

\* The votes of d, or of the proxy it is bound to, grow with its tokens.
Delegate(d, quantity) ==
  LET old == IF del[d].found THEN del[d] ELSE NewDelegator
      s == [Stored EXCEPT !.del[d] = [old EXCEPT !.tokens = old.tokens + quantity]]
  IN  /\ quantity >= MinDelegation
      /\ AccountToBonded(d, quantity)
      /\ IF old.proxy # NoProxy
           THEN /\ UpdateProxyOk(s, d, quantity)
                /\ Save(UpdateProxy(s, d, quantity))
           ELSE /\ UpdateSharesOk(s, d)
                /\ Save(UpdateShares(s, d, VotingTokens(s.del[d])))
      /\ UNCHANGED <<lastPower, lastTotalPower, abandoned, validatorQueue, proxyBindings,
                     undelegation, undelegateQueue>>

handleMsgDeposit(d, quantity) == ValidateDeposit(quantity) /\ Delegate(d, quantity)

\* The last token takes the votes, the binding and the record of the delegator
\* with it; a proxy has to unregister first.
Withdraw(d, quantity) ==
  LET left == del[d].tokens - quantity
      p == del[d].proxy
      s == UpdateProxy(Stored, d, -quantity)
      part == [s EXCEPT !.del[d].tokens = left]
  IN  /\ del[d].found
      /\ quantity >= MinDelegation
      /\ left >= 0
      /\ ~(del[d].isProxy /\ left = 0)
      /\ BondedToNotBonded(quantity)
      /\ UpdateProxyOk(Stored, d, -quantity)
      /\ \/ /\ left = 0
            /\ Save([WithdrawLastShares(s, d) EXCEPT !.del[d] = NoDelegator])
            /\ proxyBindings' = proxyBindings \ {<<p, d>>}
         \/ /\ left # 0
            /\ p # NoProxy
            /\ Save(part)
            /\ UNCHANGED proxyBindings
         \/ /\ left # 0
            /\ p = NoProxy
            /\ UpdateSharesOk(part, d)
            /\ Save(UpdateShares(part, d, VotingTokens(part.del[d])))
            /\ UNCHANGED proxyBindings
      /\ AddUndelegation(d, quantity)
      /\ UNCHANGED <<lastPower, lastTotalPower, abandoned, validatorQueue, balance>>

handleMsgWithdraw(d, quantity) == Withdraw(d, quantity)

\* handleMsgAddShares: the last vote is taken back, then every validator of the new
\* one must exist and must not have been destroyed.
handleMsgAddShares(d, vs) ==
  LET s == WithdrawLastShares(Stored, d)
  IN  /\ ValidateAddShares(vs) /\ Cardinality(vs) <= MaxValsToAddShares
      /\ del[d].found /\ del[d].tokens # 0
      /\ del[d].proxy = NoProxy
      /\ \A v \in vs : Exists(s.val, v) /\ s.val[v].msd # 0
      /\ Save(AddShares(s, d, vs, del[d].tokens + del[d].total))
      /\ UNCHANGED <<lastPower, lastTotalPower, abandoned, validatorQueue, proxyBindings, coinVars>>

----------------------------------------------------------------------------
(* Proxies *)

\* Mutant: leaving a proxy does not lower its total.
UnbindOnly(s, d) == [s EXCEPT !.del[d].proxy = NoProxy]

\* unbindProxy: the tables after d left its proxy.
UnbindOk(s, d) == /\ s.del[d].found
                  /\ s.del[d].proxy # NoProxy
                  /\ s.del[s.del[d].proxy].found
                  /\ UpdateProxyOk(s, d, -s.del[d].tokens)

Unbind(s, d) == [UpdateProxy(s, d, -s.del[d].tokens) EXCEPT !.del[d].proxy = NoProxy]

handleMsgUnbindProxy(d) ==
  /\ UnbindOk(Stored, d)
  /\ Save(Unbind(Stored, d))
  /\ proxyBindings' = proxyBindings \ {<<del[d].proxy, d>>}
  /\ UNCHANGED <<lastPower, lastTotalPower, abandoned, validatorQueue, coinVars>>

\* handleMsgBindProxy: binding to the proxy one already has refreshes its shares;
\* binding to another one leaves the first.
handleMsgBindProxy(d, p) ==
  LET old == del[d].proxy
      s0 == IF old = NoProxy THEN Stored ELSE Unbind(Stored, d)
      total == del[p].total + del[d].tokens
      s == [s0 EXCEPT !.del = [@ EXCEPT ![d].proxy = p, ![d].isProxy = FALSE, ![p].total = total]]
  IN  /\ ValidateBindProxy(d, p)
      /\ del[d].found /\ del[d].tokens # 0
      /\ del[d].shares = 0
      /\ del[p].found /\ del[p].tokens # 0
      /\ del[p].isProxy
      /\ ~del[d].isProxy
      /\ \/ /\ old = p
            /\ UpdateSharesOk(Stored, p)
            /\ Save(UpdateShares(Stored, p, del[p].total + del[p].tokens))
            /\ UNCHANGED proxyBindings
         \/ /\ old # p
            /\ old # NoProxy => UnbindOk(Stored, d)
            /\ UpdateSharesOk(s, p)
            /\ Save(UpdateShares(s, p, total + del[p].tokens))
            /\ proxyBindings' = (proxyBindings \ {<<old, d>>}) \cup {<<p, d>>}
      /\ UNCHANGED <<lastPower, lastTotalPower, abandoned, validatorQueue, coinVars>>

\* handleRegProxy / regProxy.
regProxy(d) ==
  LET s == [Stored EXCEPT !.del[d].isProxy = TRUE]
  IN  /\ del[d].found
      /\ ~del[d].isProxy
      /\ del[d].proxy = NoProxy
      /\ UpdateSharesOk(s, d)
      /\ Save(UpdateShares(s, d, del[d].tokens))
      /\ UNCHANGED <<lastPower, lastTotalPower, abandoned, validatorQueue, proxyBindings, coinVars>>

\* Mutant: the binding keys go, the ProxyAddress fields stay.
ClearKeysOnly(p) == del

\* ClearProxy unbinds every delegator that has a binding key of the proxy.
ClearProxy(p) ==
  [e \in Delegators |-> IF <<p, e>> \in proxyBindings /\ del[e].found
                         THEN [del[e] EXCEPT !.proxy = NoProxy] ELSE del[e]]

\* handleRegProxy / unregProxy.
unregProxy(d) ==
  LET s == [Stored EXCEPT !.del = [ClearProxy(d) EXCEPT ![d].isProxy = FALSE, ![d].total = 0]]
  IN  /\ del[d].found
      /\ del[d].isProxy
      /\ UpdateSharesOk(s, d)
      /\ Save(UpdateShares(s, d, del[d].tokens))
      /\ proxyBindings' = {b \in proxyBindings : b[1] # d}
      /\ UNCHANGED <<lastPower, lastTotalPower, abandoned, validatorQueue, coinVars>>

============================================================================
