------------------------------ MODULE Web3Flow ------------------------------
(***************************************************************************)
(* The transactions of the web application, apps/web/src/hooks/            *)
(* useWeb3Flow.ts, for one visitor: connection, approvals, actions sent by *)
(* the wallet and actions a gateway relays for it, and the one line of     *)
(* text the screen shows of them.                                          *)
(*                                                                         *)
(* A click starts a try.  What a callback closes over is what the screen   *)
(* held at the click, so a try carries it.  Tries overlap: each stretch    *)
(* between two awaits is one action.  All prices are the same, and         *)
(* approvals are of one contract.  Checks of what the visitor typed or of  *)
(* the roles of the account refuse a click and change nothing else: left   *)
(* out.                                                                    *)
(***************************************************************************)
EXTENDS Integers, FiniteSets, TLC

CONSTANTS
  Tries,     \* bound on the clicks
  Offered,   \* the operations the visitor uses
  Funds,     \* the settlement tokens of the account
  Target,    \* what an approval is made for (approvalTarget)
  Price,     \* what the chain takes for an operation that pays
  Estimate   \* the application's own reckoning of a price that has a bond

VARIABLES
  session,   \* the connection of the wallet
  gasless,   \* whether relays are offered, and the mode chosen
  tx,        \* the line shown: status, the try it is of, what it promises
  cache,     \* balance, allowance and the bonds previewed, as last read
  chain,     \* balance, allowance, permit nonce and forwarder nonce
  tries

vars == <<session, gasless, tx, cache, chain, tries>>

-----------------------------------------------------------------------------
\* The operations: whether they pay, which route they take.
\*   wallet      runTx, the wallet sends
\*   usual       runSponsoredTx, relayed in gasless mode or by an email wallet
\*   permit      relayed with a permit when relays are offered, else runTx
\*   permitUsual the same, else as usual

approve == [name |-> "approve", pays |-> FALSE, route |-> "wallet"]
revoke == [name |-> "revoke", pays |-> FALSE, route |-> "wallet"]
mintTestTokens == [name |-> "mint", pays |-> FALSE, route |-> "wallet"]
\* A price with a bond is the one previewed by the chain, or the estimate
\* while the preview is not read.
createMarket == [name |-> "createMarket", pays |-> TRUE, route |-> "permit"]
createChallenge ==
  [name |-> "createChallenge", pays |-> TRUE, route |-> "permitUsual"]
createBounty == [name |-> "createBounty", pays |-> TRUE, route |-> "permit"]
acceptChallenge ==
  [name |-> "acceptChallenge", pays |-> TRUE, route |-> "permitUsual"]
placeBet == [name |-> "placeBet", pays |-> TRUE, route |-> "permit"]
claim == [name |-> "claim", pays |-> FALSE, route |-> "usual"]
bountyEntry == [name |-> "submitBounty", pays |-> FALSE, route |-> "usual"]
challengeStep == [name |-> "challengeStep", pays |-> FALSE, route |-> "usual"]
verdict == [name |-> "verdict", pays |-> FALSE, route |-> "wallet"]
bountyVerdict == [name |-> "bountyVerdict", pays |-> FALSE, route |-> "wallet"]
resolveMarket == [name |-> "resolveMarket", pays |-> FALSE, route |-> "wallet"]
switchNetwork == [name |-> "switch", pays |-> FALSE, route |-> "switch"]

Operations ==
  {approve, revoke, mintTestTokens, createMarket, createChallenge,
   createBounty, acceptChallenge, placeBet, claim, bountyEntry, challengeStep,
   verdict, bountyVerdict, resolveMarket, switchNetwork}

ASSUME WebAssumption ==
  /\ IsFiniteSet(Tries) /\ "wallet" \notin Tries
  /\ Offered \subseteq Operations
  /\ Funds \in Nat /\ Target \in Nat \ {0}
  /\ Price \in Nat \ {0} /\ Estimate \in Nat

HasBond == {"createMarket", "createChallenge", "createBounty", "acceptChallenge"}

\* mergeOnchainBondEstimate
Cost(op) ==
  IF op.name \in HasBond /\ ~cache.previewed THEN Estimate ELSE Price

\* What is read of the account when it connects and after a transaction.
OnChainReads ==
  [cache EXCEPT !.balance = chain.balance, !.allowance = chain.allowance]

\* What the screen finds missing, from what it last read.
hasEnoughBalance(op) == cache.balance >= Cost(op)
needsApproval(op) == cache.allowance < Cost(op)

walletKind == IF session.pc = "on" THEN session.kind ELSE "unknown"

PrefersRelay == gasless.mode = "gasless" \/ walletKind = "embedded"

WithPermit(op) ==
  op.route \in {"permit", "permitUsual"} /\ gasless.available /\ PrefersRelay

Sponsored(op) ==
  WithPermit(op) \/ (op.route \in {"usual", "permitUsual"} /\ PrefersRelay)

-----------------------------------------------------------------------------
NewTry == [pc |-> "new"]

\* A click: what it asked for, the screen it saw, and what became of the two
\* transactions it may send.
Started(op, pc) ==
  [pc |-> pc, op |-> op, sponsored |-> Sponsored(op),
   permit |-> WithPermit(op), cost |-> Cost(op), far |-> ~session.onTarget,
   kind |-> walletKind, signedNonce |-> 0, signedPermit |-> 0,
   direct |-> "none", relay |-> "none"]

At(t, pc) == [tries EXCEPT ![t].pc = pc]

Shows(status, t, says) == tx' = [status |-> status, by |-> t, says |-> says]

NothingShown == [status |-> "idle", by |-> "nobody", says |-> ""]

Init ==
  /\ session = [pc |-> "off", kind |-> "unknown", onTarget |-> FALSE,
                gas |-> TRUE]
  /\ gasless = [available |-> FALSE, mode |-> "wallet", asked |-> TRUE]
  /\ tx = NothingShown
  /\ chain = [balance |-> Funds, allowance |-> 0, permits |-> 0, nonce |-> 0]
  /\ cache = [balance |-> 0, allowance |-> 0, previewed |-> FALSE]
  /\ tries = [t \in Tries |-> NewTry]

-----------------------------------------------------------------------------
\* Connection.  A wallet that answers after the wait is up still connects.

connectUsing(kind) ==
  /\ session.pc = "off"
  /\ session' = [session EXCEPT !.pc = "asking", !.kind = kind]
  /\ Shows("pending", "wallet", "")
  /\ UNCHANGED <<gasless, cache, chain, tries>>

\* A wallet of the browser may be on another network, the email wallet is
\* opened on the right one.  It may hold no native coin to pay gas with.
Connected ==
  /\ session.pc \in {"asking", "late"}
  /\ \E onTarget, gas \in BOOLEAN :
       /\ session.kind = "embedded" => onTarget
       /\ session' = [session EXCEPT !.pc = "on", !.onTarget = onTarget,
                                     !.gas = gas]
  /\ cache' = OnChainReads
  /\ IF session.pc = "asking" THEN Shows("confirmed", "wallet", "")
     ELSE UNCHANGED tx
  /\ UNCHANGED <<gasless, chain, tries>>

\* Refused, or connectionWithTimeout gave up.
ConnectionFails ==
  /\ session.pc = "asking"
  /\ \E pc \in {"off", "late"} : session' = [session EXCEPT !.pc = pc]
  /\ Shows("failed", "wallet", "")
  /\ UNCHANGED <<gasless, cache, chain, tries>>

\* previewBond answers, for the account and what the forms hold.
BondPreviewed ==
  /\ session.pc = "on" /\ ~cache.previewed
  /\ cache' = [cache EXCEPT !.previewed = TRUE]
  /\ UNCHANGED <<session, gasless, tx, chain, tries>>

\* Another category, reward or funding model is another question.
FormEdited ==
  /\ cache.previewed
  /\ cache' = [cache EXCEPT !.previewed = FALSE]
  /\ UNCHANGED <<session, gasless, tx, chain, tries>>

-----------------------------------------------------------------------------
\* Relays: offered when the gateway's configuration is the one expected.

isRelayConfigCompatible(answer) == answer = "compatible"

ConfigAnswers ==
  /\ gasless.asked
  /\ \E answer \in {"compatible", "other", "error"} :
       gasless' =
         IF isRelayConfigCompatible(answer)
           THEN [gasless EXCEPT !.asked = FALSE, !.available = TRUE]
           ELSE [available |-> FALSE, mode |-> "wallet", asked |-> FALSE]
  /\ UNCHANGED <<session, tx, cache, chain, tries>>

selectChallengeExecutionMode(mode) ==
  /\ gasless.mode # mode
  /\ IF mode = "gasless" /\ ~gasless.available
       THEN Shows("failed", "wallet", "unsigned") /\ UNCHANGED gasless
       ELSE gasless' = [gasless EXCEPT !.mode = mode] /\ UNCHANGED tx
  /\ UNCHANGED <<session, cache, chain, tries>>

BackToWallet(kind) ==
  gasless' = IF kind = "embedded" THEN gasless
             ELSE [gasless EXCEPT !.mode = "wallet"]

-----------------------------------------------------------------------------
\* A click.

guardedTx(op) ==
  op.pays => hasEnoughBalance(op) /\ (~needsApproval(op) \/ gasless.available)

Refused(t, op) ==
  /\ tries[t] = NewTry
  /\ ~guardedTx(op)
  /\ Shows("failed", t, "unsigned")
  /\ tries' = [tries EXCEPT ![t] = Started(op, "done")]
  /\ UNCHANGED <<session, gasless, cache, chain>>

\* signSettlementPermit comes first.  Without an account the balance read is
\* zero, so there is one.
AsksPermit(t, op) ==
  /\ tries[t] = NewTry
  /\ guardedTx(op)
  /\ WithPermit(op)
  /\ tries' = [tries EXCEPT ![t] = Started(op, "permit")]
  /\ UNCHANGED <<session, gasless, tx, cache, chain>>

\* runSponsoredTx with no relay on offer.
NotSponsored(t, op) ==
  /\ tries[t] = NewTry
  /\ guardedTx(op)
  /\ Sponsored(op) /\ ~gasless.available
  /\ Shows("failed", t, "unsigned")
  /\ BackToWallet(walletKind)
  /\ tries' = [tries EXCEPT ![t] = Started(op, "done")]
  /\ UNCHANGED <<session, cache, chain>>

\* runTx stops before the wallet is asked: no account, or no coin for gas.
CannotSend(t, op) ==
  /\ tries[t] = NewTry
  /\ guardedTx(op)
  /\ op.route # "switch"
  /\ ~WithPermit(op) /\ ~(Sponsored(op) /\ ~gasless.available)
  /\ session.pc # "on" \/ (~Sponsored(op) /\ ~session.gas)
  /\ Shows("failed", t, "unsigned")
  /\ tries' = [tries EXCEPT ![t] = Started(op, "done")]
  /\ UNCHANGED <<session, gasless, cache, chain>>

\* On the wrong network the wallet is asked to change it first.
Sends(t, op) ==
  /\ tries[t] = NewTry
  /\ guardedTx(op)
  /\ session.pc = "on"
  /\ \/ op.route = "switch"
     \/ /\ ~WithPermit(op)
        /\ IF Sponsored(op) THEN gasless.available ELSE session.gas
  /\ Shows("pending", t, "")
  /\ tries' = [tries EXCEPT ![t] = Started(op,
       IF ~session.onTarget \/ op.route = "switch" THEN "switch"
       ELSE IF Sponsored(op) THEN "prepare" ELSE "wallet")]
  /\ UNCHANGED <<session, gasless, cache, chain>>

\* switchToTargetChain, with its fallbacks, as the wallet decides.
Switched(t) ==
  /\ tries[t].pc = "switch"
  /\ session' = [session EXCEPT !.onTarget = TRUE]
  /\ IF tries[t].op.route = "switch"
       THEN Shows("confirmed", t, "") /\ tries' = At(t, "done")
       ELSE /\ Shows("pending", t, "")
            /\ tries' = At(t, IF tries[t].sponsored THEN "prepare" ELSE "wallet")
  /\ UNCHANGED <<gasless, cache, chain>>

NotSwitched(t) ==
  /\ tries[t].pc = "switch"
  /\ Shows("failed", t, "")
  /\ tries' = At(t, "done")
  /\ UNCHANGED <<session, gasless, cache, chain>>

-----------------------------------------------------------------------------
\* runTx: the wallet is asked, the transaction is mined, what it changed is
\* read again.

WalletSends(t) ==
  /\ tries[t].pc = "wallet"
  /\ Shows("pending", t, "")
  /\ tries' = [tries EXCEPT ![t].pc = "mining", ![t].direct = "sent"]
  /\ UNCHANGED <<session, gasless, cache, chain>>

\* readableTransactionError goes by the words of an error and not by where it
\* comes from: "rejected", "network", "allowance" or "insufficient funds" in it
\* make the line say that no funds were moved, other words do not.
Readings == {"", "unmoved"}

\* A wallet that refuses, or that fails before it sends, has sent nothing.
WalletRefuses(t) ==
  /\ tries[t].pc = "wallet"
  /\ \E says \in Readings : Shows("failed", t, says)
  /\ tries' = At(t, "done")
  /\ UNCHANGED <<session, gasless, cache, chain>>

\* Whether it was sent or not, the wallet's answer does not come.
WalletAnswerLost(t) ==
  /\ tries[t].pc = "wallet"
  /\ \E says \in Readings : Shows("failed", t, says)
  /\ \E direct \in {"none", "sent"} :
       tries' = [tries EXCEPT ![t].pc = "lost", ![t].direct = direct]
  /\ UNCHANGED <<session, gasless, cache, chain>>

\* The status of the receipt is not looked at.
ReceiptComes(t) ==
  /\ tries[t].pc = "mining"
  /\ tries[t].direct \in {"mined", "reverted"}
  /\ Shows("confirmed", t, "")
  /\ tries' = At(t, "refetch")
  /\ UNCHANGED <<session, gasless, cache, chain>>

\* The wait for the receipt throws, on a transaction that was sent.
ReceiptFails(t) ==
  /\ tries[t].pc = "mining"
  /\ \E says \in Readings : Shows("failed", t, says)
  /\ tries' = At(t, "lost")
  /\ UNCHANGED <<session, gasless, cache, chain>>

Refetched(t) ==
  /\ tries[t].pc = "refetch"
  /\ cache' = OnChainReads
  /\ tries' = At(t, "done")
  /\ UNCHANGED <<session, gasless, tx, chain>>

-----------------------------------------------------------------------------
\* runSponsoredTx.

\* The permit is of the nonce the token has now.
PermitSigned(t) ==
  /\ tries[t].pc = "permit"
  /\ tries' = [tries EXCEPT ![t].signedPermit = chain.permits,
                 ![t].pc = IF tries[t].far THEN "switch" ELSE "prepare"]
  /\ Shows("pending", t, "")
  /\ UNCHANGED <<session, gasless, cache, chain>>

\* The callback throws and nobody catches: the line stays as it was.
PermitRefused(t) ==
  /\ tries[t].pc = "permit"
  /\ tries' = At(t, "done")
  /\ UNCHANGED <<session, gasless, tx, cache, chain>>

\* prepareRelay: a request on the nonce the forwarder has now.
Prepared(t) ==
  /\ tries[t].pc = "prepare"
  /\ tries' = [tries EXCEPT ![t].pc = "sign", ![t].signedNonce = chain.nonce]
  /\ UNCHANGED <<session, gasless, tx, cache, chain>>

RequestSigned(t) ==
  /\ tries[t].pc = "sign"
  /\ Shows("pending", t, "")
  /\ tries' = At(t, "submit")
  /\ UNCHANGED <<session, gasless, cache, chain>>

\* Mutant: a relay that was not sent is sent by the wallet at once.
FallsBack(t, pc) ==
  /\ Shows("pending", t, "")
  /\ tries' = At(t, "wallet")
  /\ UNCHANGED <<session, gasless, cache, chain>>

\* The end of a relay that threw, done or lost: whatever was thrown, the line
\* says that no tokens were moved, and the next click goes by the wallet.
NotExecuted(t, pc) ==
  /\ Shows("failed", t, "unmoved")
  /\ BackToWallet(tries[t].kind)
  /\ tries' = At(t, pc)
  /\ UNCHANGED <<session, cache, chain>>

RequestRefused(t) ==
  /\ tries[t].pc = "sign"
  /\ NotExecuted(t, "done")

\* A bad request, or no answer: nothing was sent before submitRelay.
PrepareFails(t) ==
  /\ tries[t].pc = "prepare"
  /\ NotExecuted(t, "done")

\* A request executes once, in the order of the forwarder's nonces, with the
\* permit of the token's next nonce, of the cost shown at the click, and the
\* tokens it takes.
CanExecute(t) ==
  /\ tries[t].signedNonce = chain.nonce
  /\ tries[t].permit => /\ tries[t].signedPermit = chain.permits
                        /\ tries[t].op.pays => tries[t].cost >= Price
  /\ tries[t].op.pays => chain.balance >= Price
  /\ tries[t].op.pays /\ ~tries[t].permit => chain.allowance >= Price

\* submitRelay checks the nonce and simulates the call.
Submitted(t) ==
  /\ tries[t].pc = "submit"
  /\ CanExecute(t)
  /\ tries' = [tries EXCEPT ![t].pc = "wait", ![t].relay = "sent"]
  /\ UNCHANGED <<session, gasless, tx, cache, chain>>

\* The gateway sends and its answer does not come.
SubmitAnswerLost(t) ==
  /\ tries[t].pc = "submit"
  /\ CanExecute(t)
  /\ Shows("failed", t, "unmoved")
  /\ BackToWallet(tries[t].kind)
  /\ tries' = [tries EXCEPT ![t].pc = "lost", ![t].relay = "sent"]
  /\ UNCHANGED <<session, cache, chain>>

SubmitFails(t) ==
  /\ tries[t].pc = "submit"
  /\ NotExecuted(t, "done")

\* Mutant: any answer but "pending" is taken for success.
RelayEnded(t) == tries[t].relay \in {"executed", "failed"}

RelayConfirmed(t) == tries[t].relay = "executed"

\* waitForRelay has its answer.
RelayAnswers(t) ==
  /\ tries[t].pc = "wait"
  /\ RelayConfirmed(t)
  /\ Shows("confirmed", t, "")
  /\ tries' = At(t, "refetch")
  /\ UNCHANGED <<session, gasless, cache, chain>>

\* It could not be executed.
RelayFails(t) ==
  /\ tries[t].pc = "wait"
  /\ tries[t].relay = "failed"
  /\ NotExecuted(t, "done")

\* One question to the gateway fails, and no other is asked.
RelayAnswerLost(t) ==
  /\ tries[t].pc = "wait"
  /\ NotExecuted(t, "lost")

\* waitForRelay gives up on a relay still pending: the mode stays.
RelayStillPending(t) ==
  /\ tries[t].pc = "wait"
  /\ tries[t].relay = "sent"
  /\ Shows("failed", t, "relayPending")
  /\ tries' = At(t, "done")
  /\ UNCHANGED <<session, gasless, cache, chain>>

-----------------------------------------------------------------------------
\* The chain, in its own time.

\* What an operation does to the tokens of the account.
Spent(c, t) ==
  LET op == tries[t].op
      granted == IF tries[t].permit /\ tries[t].sponsored
                   THEN [c EXCEPT !.allowance = tries[t].cost,
                                   !.permits = @ + 1] ELSE c
  IN  CASE op.pays -> [granted EXCEPT !.balance = @ - Price,
                                      !.allowance = @ - Price]
        [] op.name = "approve" -> [c EXCEPT !.allowance = Target]
        [] op.name = "revoke" -> [c EXCEPT !.allowance = 0]
        [] op.name = "mint" -> [c EXCEPT !.balance = @ + Price]
        [] OTHER -> c

DirectMined(t) ==
  LET pays == tries[t].op.pays
      works == pays => chain.balance >= Price /\ chain.allowance >= Price
  IN  /\ tries[t] # NewTry /\ tries[t].direct = "sent"
      /\ chain' = IF works THEN Spent(chain, t) ELSE chain
      /\ tries' = [tries EXCEPT ![t].direct =
                     IF works THEN "mined" ELSE "reverted"]
      /\ UNCHANGED <<session, gasless, tx, cache>>

RelayRuns(t) ==
  /\ tries[t] # NewTry /\ tries[t].relay = "sent"
  /\ chain' = IF CanExecute(t) THEN Spent([chain EXCEPT !.nonce = @ + 1], t)
              ELSE chain
  /\ tries' = [tries EXCEPT ![t].relay =
                 IF CanExecute(t) THEN "executed" ELSE "failed"]
  /\ UNCHANGED <<session, gasless, tx, cache>>

-----------------------------------------------------------------------------
Next ==
  \/ \E kind \in {"external", "embedded"} : connectUsing(kind)
  \/ Connected
  \/ ConnectionFails
  \/ BondPreviewed \/ FormEdited
  \/ ConfigAnswers
  \/ \E mode \in {"wallet", "gasless"} : selectChallengeExecutionMode(mode)
  \/ \E t \in Tries, op \in Offered :
       \/ Refused(t, op)
       \/ AsksPermit(t, op)
       \/ NotSponsored(t, op)
       \/ CannotSend(t, op)
       \/ Sends(t, op)
  \/ \E t \in Tries :
       \/ Switched(t) \/ NotSwitched(t)
       \/ WalletSends(t) \/ WalletRefuses(t) \/ WalletAnswerLost(t)
       \/ ReceiptComes(t) \/ ReceiptFails(t) \/ Refetched(t)
       \/ PermitSigned(t) \/ PermitRefused(t)
       \/ Prepared(t) \/ PrepareFails(t)
       \/ RequestSigned(t) \/ RequestRefused(t)
       \/ Submitted(t) \/ SubmitAnswerLost(t) \/ SubmitFails(t)
       \/ RelayAnswers(t) \/ RelayFails(t)
       \/ RelayAnswerLost(t) \/ RelayStillPending(t)
       \/ DirectMined(t) \/ RelayRuns(t)

Spec == Init /\ [][Next]_vars

-----------------------------------------------------------------------------
\* Properties.

\* How often what a click asked for was done.
Executions(t) ==
  IF tries[t] = NewTry THEN 0
  ELSE (IF tries[t].direct = "mined" THEN 1 ELSE 0)
       + (IF tries[t].relay = "executed" THEN 1 ELSE 0)

\* One click is done once at most, whichever way it goes and whatever answers
\* are lost on it: a bet whose relay failed is not placed by the wallet as well
\* (useWeb3Flow.ts:579-705).
OneExecutionPerClick == \A t \in Tries : Executions(t) <= 1

\* What the line promises of the last click is so.  Where it says that nothing
\* was signed or moved, nothing was sent that could still move something, but
\* for a click that ended without the answer of the wallet, the node or the
\* gateway: App.tsx:2534 promises no more than "si la wallet rechazo o la
\* transaccion fallo antes de enviarse".  A relay shown as confirmed was
\* executed (useWeb3Flow.ts:607-621, 638-704, transactionErrors.ts:20-43).
PromisesHold ==
  tx.by \in Tries =>
    /\ tx.says \in {"unsigned", "unmoved"} /\ tries[tx.by].pc # "lost" =>
         Executions(tx.by) = 0 /\ "sent" \notin {tries[tx.by].direct,
                                                 tries[tx.by].relay}
    /\ tx.status = "confirmed" /\ tries[tx.by].sponsored
         /\ tries[tx.by].op.route # "switch" => Executions(tx.by) = 1
=============================================================================
