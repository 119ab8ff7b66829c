--------------------------- MODULE Clients_proofs ---------------------------
(***************************************************************************)
(* What the two programs that follow the contracts from outside guarantee: *)
(* the transactions of the web application, for any number of clicks and   *)
(* any operations, prices and funds, and the indexer, for any chain, any   *)
(* number of polls and of restarts.                                        *)
(*                                                                         *)
(* That a click is done once is not inductive: it holds because a try      *)
(* keeps to its route (OneRoute), wallet or relay, and that what the line  *)
(* promises stays true because nothing is sent for a try that is done      *)
(* (LineIsTrue).                                                           *)
(*                                                                         *)
(* Nor is anything the indexer promises: its memory comes from the file,   *)
(* the file from a poll that was writing, and what a poll pushes from what *)
(* it had fetched.  IndexerInv says of all of them together that they are  *)
(* of confirmed blocks (AllOK) and, while the chain keeps these, that they *)
(* agree with it and leave nothing out (AllSound).                         *)
(***************************************************************************)
EXTENDS Web3Flow, Indexer, Totals_proofs, SequenceTheorems, TLAPS


Kinds == {"unknown", "external", "embedded"}

Try ==
  [pc : {"permit", "switch", "prepare", "sign", "submit", "wait",
         "wallet", "mining", "refetch", "done", "lost"},
   op : Offered, sponsored : BOOLEAN, permit : BOOLEAN, cost : Nat,
   far : BOOLEAN, kind : Kinds, signedNonce : Nat, signedPermit : Nat,
   direct : {"none", "sent", "mined", "reverted"},
   relay : {"none", "sent", "executed", "failed"}]

WebTypeOK ==
  /\ session \in [pc : {"off", "asking", "late", "on"}, kind : Kinds,
                  onTarget : BOOLEAN, gas : BOOLEAN]
  /\ gasless \in [available : BOOLEAN, mode : {"wallet", "gasless"},
                  asked : BOOLEAN]
  /\ cache \in [balance : Nat, allowance : Nat, previewed : BOOLEAN]
  /\ chain \in [balance : Nat, allowance : Nat, permits : Nat, nonce : Nat]
  /\ tries \in [Tries -> Try \cup {NewTry}]

\* Nothing of the try was sent.
Unsent(k) == k.direct = "none" /\ k.relay = "none"

\* Nothing of it was executed or still can be.
Unmoved(k) == k.direct = "none" /\ k.relay \in {"none", "failed"}

\* A try goes by the wallet or by the relay, from its click to its end.
OnRoute(k) ==
  /\ k.pc \in {"wallet", "mining"} => ~k.sponsored
  /\ k.pc \in {"permit", "prepare", "sign", "submit", "wait"} => k.sponsored
  /\ k.pc \in {"permit", "switch", "prepare", "sign", "submit", "wallet"} =>
       Unsent(k)
  /\ k.direct # "none" => ~k.sponsored
  /\ k.relay # "none" => k.sponsored

OneRoute == \A t \in Tries : tries[t] # NewTry => OnRoute(tries[t])

\* What the line says of the try it is about.
LineIsTrue ==
  tx.by \in Tries =>
    LET k == tries[tx.by]
    IN  /\ tx.says \in {"unsigned", "unmoved"} =>
             k # NewTry /\ (k.pc = "lost" \/ (k.pc = "done" /\ Unmoved(k)))
        /\ tx.status = "confirmed" =>
             /\ k # NewTry
             /\ k.sponsored /\ k.op.route # "switch" => k.relay = "executed"

WebInv == WebTypeOK /\ OneRoute /\ LineIsTrue

LEMMA TryIsNotNew == ASSUME NEW k \in Try PROVE k # NewTry
  BY DEF Try, NewTry

LEMMA WebInit == ASSUME WebAssumption, Init PROVE WebInv
  BY DEF WebAssumption, Init, WebInv, WebTypeOK, OneRoute, LineIsTrue, NewTry,
         NothingShown, Kinds

\* A click gives a try that is typed, unsent and on its route.
LEMMA ClickStarts ==
  ASSUME WebAssumption, WebInv, NEW t \in Tries, NEW op \in Offered,
         NEW pc \in {"done", "permit", "switch", "prepare", "wallet"},
         pc \in {"permit", "prepare"} => Sponsored(op),
         pc = "wallet" => ~Sponsored(op),
         tries' = [tries EXCEPT ![t] = Started(op, pc)]
  PROVE  tries' \in [Tries -> Try \cup {NewTry}] /\ OneRoute' /\ tries'[t] \in Try
         /\ tries'[t].pc = pc /\ Unsent(tries'[t])
<1>1. Started(op, pc) \in Try
  BY DEF WebAssumption, WebInv, WebTypeOK, Started, Try, Sponsored, WithPermit,
         Cost, walletKind, Kinds, PrefersRelay
<1>2. tries' \in [Tries -> Try \cup {NewTry}]
  BY <1>1 DEF WebInv, WebTypeOK
<1>3. /\ tries'[t] = Started(op, pc)
      /\ \A u \in Tries \ {t} : tries'[u] = tries[u]
  BY DEF WebInv, WebTypeOK
<1>4. OneRoute'
  BY <1>3 DEF WebInv, OneRoute, OnRoute, Started, Unsent
<1> QED BY <1>1, <1>2, <1>3, <1>4 DEF Started, Unsent

-----------------------------------------------------------------------------
\* Steps that start no try and move none.

LEMMA StepOfTheScreen ==
  ASSUME WebAssumption, WebInv,
         \/ \E kind \in {"external", "embedded"} : connectUsing(kind)
         \/ Connected \/ ConnectionFails
         \/ BondPreviewed \/ FormEdited \/ ConfigAnswers
         \/ \E mode \in {"wallet", "gasless"} : selectChallengeExecutionMode(mode)
         \/ UNCHANGED vars
  PROVE  WebInv'
<1> DEFINE Kept == WebTypeOK' /\ tries' = tries /\ (tx' = tx \/ tx'.by = "wallet")
<1>1. SUFFICES Kept
  <2>1. ASSUME Kept PROVE OneRoute'
    BY <2>1 DEF WebInv, OneRoute
  <2>2. ASSUME Kept PROVE LineIsTrue'
    BY <2>2 DEF WebInv, LineIsTrue, WebAssumption, Unsent
  <2> QED BY <2>1, <2>2 DEF WebInv
<1> USE DEF WebInv, WebTypeOK, Shows
<1>a. ASSUME NEW kind \in {"external", "embedded"}, connectUsing(kind) PROVE Kept
  BY <1>a DEF connectUsing, Kinds
<1>b. CASE Connected
  <2>1. PICK near, coin \in BOOLEAN :
          session' = [session EXCEPT !.pc = "on", !.onTarget = near, !.gas = coin]
    BY <1>b DEF Connected
  <2>2. tx' = tx \/ tx' = [status |-> "confirmed", by |-> "wallet", says |-> ""]
    BY <1>b DEF Connected
  <2>3. /\ cache' = OnChainReads
        /\ UNCHANGED <<gasless, chain, tries>>
    BY <1>b DEF Connected
  <2>4. cache' \in [balance : Nat, allowance : Nat, previewed : BOOLEAN]
    BY <2>3 DEF OnChainReads
  <2>5. session' \in [pc : {"off", "asking", "late", "on"}, kind : Kinds,
                      onTarget : BOOLEAN, gas : BOOLEAN]
    BY <2>1
  <2>6. tx' = tx \/ tx'.by = "wallet"
    <3>1. ASSUME tx' = [status |-> "confirmed", by |-> "wallet", says |-> ""]
          PROVE  tx'.by = "wallet"
      BY <3>1
    <3> QED BY <2>2, <3>1
  <2> QED BY <2>3, <2>4, <2>5, <2>6
<1>c. CASE ConnectionFails
  BY <1>c DEF ConnectionFails
<1>d. CASE BondPreviewed \/ FormEdited
  BY <1>d DEF BondPreviewed, FormEdited
<1>e. CASE ConfigAnswers
  <2>1. PICK answer \in {"compatible", "other", "error"} :
          gasless' = IF isRelayConfigCompatible(answer)
                       THEN [gasless EXCEPT !.asked = FALSE, !.available = TRUE]
                       ELSE [available |-> FALSE, mode |-> "wallet", asked |-> FALSE]
    BY <1>e DEF ConfigAnswers
  <2>2. UNCHANGED <<session, tx, cache, chain, tries>>
    BY <1>e DEF ConfigAnswers
  <2> QED BY <2>1, <2>2
<1>f. ASSUME NEW mode \in {"wallet", "gasless"}, selectChallengeExecutionMode(mode)
      PROVE  Kept
  BY <1>f DEF selectChallengeExecutionMode
<1>g. CASE UNCHANGED vars
  BY <1>g DEF vars
<1> QED BY <1>a, <1>b, <1>c, <1>d, <1>e, <1>f, <1>g

-----------------------------------------------------------------------------
\* Steps of a try.

\* A step that says nothing, or one that says something true of the try.
LEMMA LineKept ==
  ASSUME WebAssumption, WebInv, NEW t \in Tries,
         \A u \in Tries \ {t} : tries'[u] = tries[u],
         tx' # tx =>
           /\ tx'.by = t
           /\ tx'.says \in {"unsigned", "unmoved"} =>
                /\ tries'[t] # NewTry
                /\ \/ tries'[t].pc = "lost"
                   \/ tries'[t].pc = "done" /\ Unmoved(tries'[t])
           /\ tx'.status = "confirmed" =>
                /\ tries'[t] # NewTry
                /\ tries'[t].sponsored /\ tries'[t].op.route # "switch" =>
                     tries'[t].relay = "executed",
         \* What was so of the try before is so after.
         tx' = tx =>
           /\ tries[t] # NewTry => tries'[t] # NewTry
           /\ tries[t] # NewTry /\ tries[t].pc = "done" /\ Unmoved(tries[t]) =>
                tries'[t].pc = "done" /\ Unmoved(tries'[t])
           /\ tries[t] # NewTry /\ tries[t].pc = "lost" => tries'[t].pc = "lost"
           /\ tries[t] # NewTry =>
                /\ tries'[t].sponsored = tries[t].sponsored
                /\ tries'[t].op = tries[t].op
                /\ tries[t].relay = "executed" => tries'[t].relay = "executed"
  PROVE  LineIsTrue'
  BY DEF WebInv, LineIsTrue, Unmoved

LEMMA ClickKeeps ==
  ASSUME WebAssumption, WebInv, NEW t \in Tries, NEW op \in Offered,
         \/ Refused(t, op) \/ AsksPermit(t, op) \/ NotSponsored(t, op)
         \/ CannotSend(t, op) \/ Sends(t, op)
  PROVE  WebInv'
<1>1. \A u \in Tries \ {t} : tries'[u] = tries[u]
  BY DEF WebInv, WebTypeOK, Refused, AsksPermit, NotSponsored, CannotSend, Sends
<1>2. /\ tries[t] = NewTry
      /\ \E pc \in {"done", "permit", "switch", "prepare", "wallet"} :
           /\ pc \in {"permit", "prepare"} => Sponsored(op)
           /\ pc = "wallet" => ~Sponsored(op)
           /\ tries' = [tries EXCEPT ![t] = Started(op, pc)]
           /\ \/ tx' = tx
              \/ pc = "done" /\ tx' = [status |-> "failed", by |-> t, says |-> "unsigned"]
              \/ tx' = [status |-> "pending", by |-> t, says |-> ""]
  <2>1. CASE Refused(t, op)
    BY <2>1 DEF Refused, Shows
  <2>2. CASE AsksPermit(t, op)
    BY <2>2 DEF AsksPermit, Sponsored
  <2>3. CASE NotSponsored(t, op)
    BY <2>3 DEF NotSponsored, Shows
  <2>4. CASE CannotSend(t, op)
    BY <2>4 DEF CannotSend, Shows
  <2>5. CASE Sends(t, op)
    <3>1. CASE ~session.onTarget \/ op.route = "switch"
      BY <3>1, <2>5 DEF Sends, Shows
    <3>2. CASE ~(~session.onTarget \/ op.route = "switch") /\ Sponsored(op)
      BY <3>2, <2>5 DEF Sends, Shows
    <3>3. CASE ~(~session.onTarget \/ op.route = "switch") /\ ~Sponsored(op)
      BY <3>3, <2>5 DEF Sends, Shows
    <3> QED BY <3>1, <3>2, <3>3
  <2> QED BY <2>1, <2>2, <2>3, <2>4, <2>5
<1>3. PICK pc \in {"done", "permit", "switch", "prepare", "wallet"} :
        /\ pc \in {"permit", "prepare"} => Sponsored(op)
        /\ pc = "wallet" => ~Sponsored(op)
        /\ tries' = [tries EXCEPT ![t] = Started(op, pc)]
        /\ \/ tx' = tx
           \/ pc = "done" /\ tx' = [status |-> "failed", by |-> t, says |-> "unsigned"]
           \/ tx' = [status |-> "pending", by |-> t, says |-> ""]
  BY <1>2
<1>4. /\ tries' \in [Tries -> Try \cup {NewTry}] /\ OneRoute' /\ tries'[t] \in Try
      /\ tries'[t].pc = pc /\ Unsent(tries'[t])
  BY <1>3, ClickStarts
<1>5. tries'[t] # NewTry
  BY <1>4, TryIsNotNew
<1>6. LineIsTrue'
  <2>1. CASE tx' = tx
    BY <2>1, <1>1, <1>2, LineKept
  <2>2. CASE pc = "done" /\ tx' = [status |-> "failed", by |-> t, says |-> "unsigned"]
    BY <2>2, <1>1, <1>4, <1>5 DEF LineIsTrue, WebInv, Unsent, Unmoved
  <2>3. CASE tx' = [status |-> "pending", by |-> t, says |-> ""]
    BY <2>3, <1>1 DEF LineIsTrue, WebInv
  <2> QED BY <1>3, <2>1, <2>2, <2>3
<1>7. WebTypeOK'
  BY <1>4 DEF WebInv, WebTypeOK, Refused, AsksPermit, NotSponsored, CannotSend,
              Sends, BackToWallet
<1> QED BY <1>4, <1>6, <1>7 DEF WebInv

\* A step of a try that keeps to its route and says something true, if
\* anything.
StaysTrue(k, j) ==
  /\ j \in Try
  /\ k.pc = "done" => ~Unmoved(k)
  /\ k.pc = "lost" => j.pc = "lost"
  /\ j.op = k.op /\ j.sponsored = k.sponsored
  /\ OnRoute(j)
  /\ k.relay = "executed" => j.relay = "executed"

Says(t, j) ==
  /\ tx'.by = t
  /\ tx'.says \in {"unsigned", "unmoved"} =>
       j.pc = "lost" \/ (j.pc = "done" /\ Unmoved(j))
  /\ tx'.status = "confirmed" /\ j.sponsored /\ j.op.route # "switch" =>
       j.relay = "executed"

Moves(t) ==
  /\ tries' = [tries EXCEPT ![t] = tries'[t]]
  /\ StaysTrue(tries[t], tries'[t])
  /\ tx' = tx \/ Says(t, tries'[t])

LEMMA MovesKeep ==
  ASSUME WebInv, NEW t \in Tries, tries[t] \in Try, Moves(t)
  PROVE  /\ tries' \in [Tries -> Try \cup {NewTry}]
         /\ OneRoute' /\ LineIsTrue'
<1>1. /\ tries' \in [Tries -> Try \cup {NewTry}]
      /\ \A u \in Tries \ {t} : tries'[u] = tries[u]
  BY DEF Moves, StaysTrue, WebInv, WebTypeOK
<1>2. OneRoute'
  BY <1>1 DEF Moves, StaysTrue, WebInv, OneRoute
<1>3. tries'[t] # NewTry /\ tries[t] # NewTry
  BY TryIsNotNew DEF Moves, StaysTrue
<1>4. LineIsTrue'
  <2>1. CASE tx' = tx /\ tx.by # t
    BY <1>1, <2>1 DEF WebInv, LineIsTrue
  <2>2. CASE tx' = tx /\ tx.by = t
    BY <1>3, <2>2 DEF Moves, StaysTrue, WebInv, LineIsTrue
  <2>3. CASE Says(t, tries'[t])
    BY <1>3, <2>3 DEF Says, LineIsTrue
  <2> QED BY <2>1, <2>2, <2>3 DEF Moves
<1> QED BY <1>1, <1>2, <1>4

TryStep(t) ==
  \/ Switched(t) \/ NotSwitched(t)
  \/ WalletSends(t) \/ WalletRefuses(t) \/ WalletAnswerLost(t)
  \/ ReceiptComes(t) \/ ReceiptFails(t) \/ Refetched(t)
  \/ PermitSigned(t) \/ PermitRefused(t)
  \/ Prepared(t) \/ PrepareFails(t)
  \/ RequestSigned(t) \/ RequestRefused(t)
  \/ Submitted(t) \/ SubmitAnswerLost(t) \/ SubmitFails(t)
  \/ RelayAnswers(t) \/ RelayFails(t) \/ RelayAnswerLost(t)
  \/ RelayStillPending(t)

LEMMA TryKeeps ==
  ASSUME WebAssumption, WebInv, NEW t \in Tries, TryStep(t)
  PROVE  WebInv'
<1>1. tries[t] \in Try
  <2>1. tries[t].pc # "new"
    BY DEF TryStep, Switched, NotSwitched, WalletSends, WalletRefuses,
       WalletAnswerLost, ReceiptComes, ReceiptFails, Refetched, PermitSigned,
       PermitRefused, Prepared, PrepareFails, RequestSigned, RequestRefused,
       Submitted, SubmitAnswerLost, SubmitFails, RelayAnswers, RelayFails,
       RelayAnswerLost, RelayStillPending, NotExecuted
  <2> QED BY <2>1 DEF WebInv, WebTypeOK, NewTry
<1>2. tries \in [Tries -> Try \cup {NewTry}] /\ OnRoute(tries[t])
  BY <1>1, TryIsNotNew DEF WebInv, WebTypeOK, OneRoute
<1>4. chain.permits \in Nat /\ chain.nonce \in Nat
  BY DEF WebInv, WebTypeOK
<1>5. Moves(t)
  <2> USE <1>1, <1>2, <1>4 DEF Moves, StaysTrue, OnRoute, Says, Shows, At, Unsent, Unmoved
  <2>a. CASE Switched(t)
    <3>1. PICK says \in {"pending", "confirmed"}, pc \in {"done", "prepare", "wallet"} :
            /\ tx' = [status |-> says, by |-> t, says |-> ""]
            /\ tries' = [tries EXCEPT ![t].pc = pc]
            /\ says = "confirmed" => tries[t].op.route = "switch"
            /\ pc = "prepare" => tries[t].sponsored
            /\ pc = "wallet" => ~tries[t].sponsored
      <4>1. CASE tries[t].op.route = "switch"
        BY <2>a, <4>1 DEF Switched
      <4>2. CASE tries[t].op.route # "switch" /\ tries[t].sponsored
        BY <2>a, <4>2 DEF Switched
      <4>3. CASE tries[t].op.route # "switch" /\ ~tries[t].sponsored
        BY <2>a, <4>3 DEF Switched
      <4> QED BY <4>1, <4>2, <4>3
    <3>2. tries[t].pc = "switch"
      BY <2>a DEF Switched
    <3> QED BY <3>1, <3>2 DEF Try
  <2>b. CASE NotSwitched(t)
    BY <2>b DEF Try, NotSwitched
  <2>c. CASE WalletSends(t)
    BY <2>c DEF Try, WalletSends
  <2>d. CASE WalletRefuses(t)
    BY <2>d DEF Try, WalletRefuses
  <2>e. CASE WalletAnswerLost(t)
    <3>1. PICK direct \in {"none", "sent"} :
            tries' = [tries EXCEPT ![t].pc = "lost", ![t].direct = direct]
      BY <2>e DEF WalletAnswerLost
    <3>2. PICK says \in Readings :
            tx' = [status |-> "failed", by |-> t, says |-> says]
      BY <2>e DEF WalletAnswerLost, Shows
    <3>3. tries[t].pc = "wallet"
      BY <2>e DEF WalletAnswerLost
    <3> QED BY <3>1, <3>2, <3>3 DEF Try
  <2>f. CASE ReceiptComes(t)
    BY <2>f DEF Try, ReceiptComes
  <2>g. CASE ReceiptFails(t)
    BY <2>g DEF Try, ReceiptFails
  <2>h. CASE Refetched(t)
    BY <2>h DEF Try, Refetched
  <2>i. CASE PermitSigned(t)
    BY <2>i DEF Try, PermitSigned
  <2>j. CASE PermitRefused(t)
    BY <2>j DEF Try, PermitRefused
  <2>k. CASE Prepared(t)
    BY <2>k DEF Try, Prepared
  <2>l. CASE PrepareFails(t)
    BY <2>l DEF Try, PrepareFails, NotExecuted
  <2>m. CASE RequestSigned(t)
    BY <2>m DEF Try, RequestSigned
  <2>n. CASE RequestRefused(t)
    BY <2>n DEF Try, RequestRefused, NotExecuted
  <2>o. CASE Submitted(t)
    BY <2>o DEF Try, Submitted
  <2>p. CASE SubmitAnswerLost(t)
    BY <2>p DEF Try, SubmitAnswerLost
  <2>q. CASE SubmitFails(t)
    BY <2>q DEF Try, SubmitFails, NotExecuted
  <2>r. CASE RelayAnswers(t)
    BY <2>r DEF Try, RelayAnswers, RelayConfirmed
  <2>s. CASE RelayFails(t)
    BY <2>s DEF Try, RelayFails, NotExecuted
  <2>t. CASE RelayAnswerLost(t)
    BY <2>t DEF Try, RelayAnswerLost, NotExecuted
  <2>u. CASE RelayStillPending(t)
    BY <2>u DEF Try, RelayStillPending
  <2> QED BY <2>a, <2>b, <2>c, <2>d, <2>e, <2>f, <2>g, <2>h, <2>i, <2>j, <2>k, <2>l, <2>m, <2>n, <2>o, <2>p, <2>q, <2>r, <2>s, <2>t,
             <2>u DEF TryStep
<1>3. /\ session' \in [pc : {"off", "asking", "late", "on"}, kind : Kinds,
                       onTarget : BOOLEAN, gas : BOOLEAN]
      /\ gasless' \in [available : BOOLEAN, mode : {"wallet", "gasless"},
                       asked : BOOLEAN]
      /\ cache' \in [balance : Nat, allowance : Nat, previewed : BOOLEAN]
      /\ chain' = chain
  BY DEF WebInv, WebTypeOK, TryStep, Switched, NotSwitched, WalletSends, WalletRefuses,
       WalletAnswerLost, ReceiptComes, ReceiptFails, Refetched, PermitSigned,
       PermitRefused, Prepared, PrepareFails, RequestSigned, RequestRefused,
       Submitted, SubmitAnswerLost, SubmitFails, RelayAnswers, RelayFails,
       RelayAnswerLost, RelayStillPending, NotExecuted, BackToWallet, OnChainReads
<1> QED BY <1>1, <1>3, <1>5, MovesKeep DEF WebInv, WebTypeOK

-----------------------------------------------------------------------------
\* Steps of the chain.

\* What an operation that can be done leaves in the account is no debt.
LEMMA SpentType ==
  ASSUME WebAssumption, WebInv, NEW t \in Tries, tries[t] \in Try,
         NEW c \in [balance : Nat, allowance : Nat, permits : Nat, nonce : Nat],
         tries[t].op.pays =>
           /\ c.balance >= Price
           /\ IF tries[t].permit /\ tries[t].sponsored
                THEN tries[t].cost >= Price ELSE c.allowance >= Price
  PROVE  Spent(c, t) \in
           [balance : Nat, allowance : Nat, permits : Nat, nonce : Nat]
<1>0. /\ tries[t].op.pays \in BOOLEAN
      /\ tries[t].op.pays => tries[t].op.name \notin {"approve", "revoke", "mint"}
  <2>1. \A op \in Operations :
          /\ op.pays \in BOOLEAN
          /\ op.pays => op.name \notin {"approve", "revoke", "mint"}
    <3>1. \A op \in {createMarket, createChallenge, createBounty,
                     acceptChallenge, placeBet} :
            op.pays = TRUE /\ op.name \notin {"approve", "revoke", "mint"}
      BY DEF createMarket, createChallenge, createBounty, acceptChallenge, placeBet
    <3>2. \A op \in {approve, revoke, mintTestTokens, claim, bountyEntry} :
            op.pays = FALSE
      BY DEF approve, revoke, mintTestTokens, claim, bountyEntry
    <3>3. \A op \in {challengeStep, verdict, bountyVerdict, resolveMarket,
                     switchNetwork} : op.pays = FALSE
      BY DEF challengeStep, verdict, bountyVerdict, resolveMarket, switchNetwork
    <3> QED BY <3>1, <3>2, <3>3 DEF Operations
  <2>2. tries[t].op \in Operations
    BY DEF Try, WebAssumption
  <2> QED BY <2>1, <2>2
<1>4. tries[t].cost \in Nat /\ Price \in Nat /\ Target \in Nat
  BY DEF Try, WebAssumption
<1> USE <1>0, <1>4
<1>1. CASE tries[t].op.pays /\ tries[t].permit /\ tries[t].sponsored
  <2>1. Spent(c, t) = [c EXCEPT !.allowance = tries[t].cost - Price,
                                !.permits = c.permits + 1,
                                !.balance = c.balance - Price]
    BY <1>1 DEF Spent
  <2>2. tries[t].cost - Price \in Nat /\ c.balance - Price \in Nat
    BY <1>1
  <2>3. \A a, b, p \in Nat :
          [c EXCEPT !.allowance = a, !.permits = p, !.balance = b] \in
            [balance : Nat, allowance : Nat, permits : Nat, nonce : Nat]
    OBVIOUS
  <2>4. c.permits + 1 \in Nat
    OBVIOUS
  <2> QED BY <2>1, <2>2, <2>3, <2>4
<1>2. CASE tries[t].op.pays /\ ~(tries[t].permit /\ tries[t].sponsored)
  <2>1. Spent(c, t) = [c EXCEPT !.allowance = c.allowance - Price,
                                !.balance = c.balance - Price]
    BY <1>2 DEF Spent
  <2>2. c.allowance - Price \in Nat /\ c.balance - Price \in Nat
    BY <1>2
  <2>3. \A a, b \in Nat : [c EXCEPT !.allowance = a, !.balance = b] \in
          [balance : Nat, allowance : Nat, permits : Nat, nonce : Nat]
    OBVIOUS
  <2> QED BY <2>1, <2>2, <2>3
<1>3. CASE ~tries[t].op.pays
  BY <1>3 DEF Spent
<1> QED BY <1>1, <1>2, <1>3

LEMMA DirectKeeps ==
  ASSUME WebAssumption, WebInv, NEW t \in Tries, DirectMined(t)
  PROVE  WebInv'
<1>1. tries[t] \in Try /\ OnRoute(tries[t])
  BY DEF WebInv, WebTypeOK, OneRoute, DirectMined
<1>2. PICK direct \in {"mined", "reverted"} :
        tries' = [tries EXCEPT ![t].direct = direct]
  BY DEF DirectMined
<1>3. tries[t].direct = "sent" /\ ~tries[t].sponsored /\ tx' = tx
  BY <1>1 DEF DirectMined, OnRoute
<1>4. chain' \in [balance : Nat, allowance : Nat, permits : Nat, nonce : Nat]
  <2>1. chain \in [balance : Nat, allowance : Nat, permits : Nat, nonce : Nat]
    BY DEF WebInv, WebTypeOK
  <2> QED BY <1>1, <1>3, <2>1, SpentType DEF DirectMined
<1>5. Moves(t)
  <2>1. tries \in [Tries -> Try \cup {NewTry}]
    BY DEF WebInv, WebTypeOK
  <2> QED BY <1>1, <1>2, <1>3, <2>1 DEF Moves, StaysTrue, OnRoute, Unsent, Unmoved, Try
<1> QED BY <1>1, <1>4, <1>5, MovesKeep DEF WebInv, WebTypeOK, DirectMined

LEMMA RelayKeeps ==
  ASSUME WebAssumption, WebInv, NEW t \in Tries, RelayRuns(t)
  PROVE  WebInv'
<1>1. tries[t] \in Try /\ OnRoute(tries[t])
  BY DEF WebInv, WebTypeOK, OneRoute, RelayRuns
<1>2. PICK relay \in {"executed", "failed"} :
        tries' = [tries EXCEPT ![t].relay = relay]
  BY DEF RelayRuns
<1>3. tries[t].relay = "sent" /\ tries[t].sponsored /\ tx' = tx
  BY <1>1 DEF RelayRuns, OnRoute
<1>4. chain' \in [balance : Nat, allowance : Nat, permits : Nat, nonce : Nat]
  <2>1. /\ chain \in [balance : Nat, allowance : Nat, permits : Nat, nonce : Nat]
        /\ [chain EXCEPT !.nonce = @ + 1] \in
             [balance : Nat, allowance : Nat, permits : Nat, nonce : Nat]
    BY DEF WebInv, WebTypeOK
  <2> QED BY <1>1, <1>3, <2>1, SpentType DEF RelayRuns, CanExecute
<1>5. Moves(t)
  <2>1. tries \in [Tries -> Try \cup {NewTry}]
    BY DEF WebInv, WebTypeOK
  <2> QED BY <1>1, <1>2, <1>3, <2>1 DEF Moves, StaysTrue, OnRoute, Unsent, Unmoved, Try
<1> QED BY <1>1, <1>4, <1>5, MovesKeep DEF WebInv, WebTypeOK, RelayRuns

-----------------------------------------------------------------------------
LEMMA WebStep == ASSUME WebAssumption, WebInv, [Next]_vars PROVE WebInv'
<1>1. ASSUME NEW t \in Tries, NEW op \in Offered,
             \/ Refused(t, op) \/ AsksPermit(t, op) \/ NotSponsored(t, op)
             \/ CannotSend(t, op) \/ Sends(t, op)
      PROVE  WebInv'
  BY <1>1, ClickKeeps
<1>2. ASSUME NEW t \in Tries, TryStep(t) \/ DirectMined(t) \/ RelayRuns(t)
      PROVE  WebInv'
  BY <1>2, TryKeeps, DirectKeeps, RelayKeeps
<1>3. CASE \/ \E kind \in {"external", "embedded"} : connectUsing(kind)
           \/ Connected \/ ConnectionFails
           \/ BondPreviewed \/ FormEdited \/ ConfigAnswers
           \/ \E mode \in {"wallet", "gasless"} :
                selectChallengeExecutionMode(mode)
           \/ UNCHANGED vars
  BY <1>3, StepOfTheScreen
<1> QED BY <1>1, <1>2, <1>3 DEF Next, TryStep

LEMMA WebInvariant == Spec => []WebInv
<1>1. Init => WebInv
  BY WebAssumption, WebInit
<1>2. WebInv /\ [Next]_vars => WebInv'
  BY WebAssumption, WebStep
<1> QED BY <1>1, <1>2, PTL DEF Spec

\* The screen, the account and the tries keep their types: above all, no
\* operation that is executed leaves a balance or an allowance below zero.
THEOREM TypeCorrect == Spec => []WebTypeOK
<1>1. WebInv => WebTypeOK
  BY DEF WebInv
<1> QED BY <1>1, WebInvariant, PTL

\* Whatever the operations, the answers lost and the order of the chain, a
\* click is executed once at most: a try whose relay may have been sent never
\* goes to the wallet (useWeb3Flow.ts, runTx and runSponsoredTx).
THEOREM ClickedOnce == Spec => []OneExecutionPerClick
<1>1. WebInv => OneExecutionPerClick
  BY DEF WebInv, OneRoute, OnRoute, OneExecutionPerClick, Executions
<1> QED BY <1>1, WebInvariant, PTL

\* What the line promises of a click is so and stays so for as long as the
\* line is shown, but for a click that ended without the answer of the wallet,
\* the node or the gateway: of that it may say that nothing was moved, going by
\* the words of the error (useWeb3Flow.ts, transactionErrors.ts).
THEOREM LineKeepsItsWord == Spec => []PromisesHold
<1>1. WebInv => PromisesHold
  <2> SUFFICES ASSUME WebInv, tx.by \in Tries PROVE PromisesHold
    BY DEF PromisesHold
  <2>1. tries[tx.by] # NewTry => OnRoute(tries[tx.by])
    BY DEF WebInv, OneRoute
  <2> QED BY <2>1 DEF WebInv, LineIsTrue, OnRoute, Unmoved, PromisesHold, Executions
<1> QED BY <1>1, WebInvariant, PTL

-----------------------------------------------------------------------------
\* The indexer.

\* The elements picked from the first n of a sequence.

Taken(t, e, S) == IF e \in S THEN Append(t, e) ELSE t

Picking(s, S, n) ==
  CHOOSE f : f = [k \in 0 .. n |-> IF k = 0 THEN << >>
                                   ELSE Taken(f[k - 1], s[k], S)]

LEMMA PickingExists ==
  ASSUME NEW s, NEW S, NEW n \in Nat
  PROVE  Picking(s, S, n) =
           [k \in 0 .. n |->
              IF k = 0 THEN << >>
              ELSE Taken(Picking(s, S, n)[k - 1], s[k], S)]
<1> DEFINE Fits(f, k) ==
      f = [m \in 0 .. k |-> IF m = 0 THEN << >>
                            ELSE Taken(f[m - 1], s[m], S)]
           T == {k \in Nat : \E f : Fits(f, k)}
<1>1. 0 \in T
  <2>1. Fits([m \in 0 .. 0 |-> << >>], 0)
    OBVIOUS
  <2> QED BY <2>1
<1>2. ASSUME NEW k \in Nat, k \in T PROVE k + 1 \in T
  <2>1. PICK f : Fits(f, k)
    BY <1>2
  <2> DEFINE g == [m \in 0 .. k + 1 |->
                     IF m = k + 1 THEN Taken(f[k], s[k + 1], S) ELSE f[m]]
  <2>2. ASSUME NEW m \in 0 .. k + 1
        PROVE  g[m] = IF m = 0 THEN << >> ELSE Taken(g[m - 1], s[m], S)
    <3>1. CASE m = 0
      BY <2>1, <3>1
    <3>2. CASE m \in 1 .. k
      BY <2>1, <3>2
    <3>3. CASE m = k + 1
      BY <2>1, <3>3
    <3> QED BY <3>1, <3>2, <3>3
  <2>3. Fits(g, k + 1)
    BY <2>2
  <2>4. \E h : Fits(h, k + 1)
    <3> HIDE DEF Fits, g
    <3> QED BY <2>3
  <2> QED BY <2>4
<1>3. n \in T
  <2> HIDE DEF T
  <2> QED BY <1>1, <1>2, SetInduction
<1>4. \E f : Fits(f, n)
  BY <1>3
<1> QED BY <1>4 DEF Picking

\* What is picked: the elements that are in the set, in their order.
LEMMA PickedIs ==
  ASSUME NEW D, NEW s \in Seq(D), NEW S
  PROVE  /\ Picked(s, S) \in Seq(D)
         /\ Events(Picked(s, S)) = Events(s) \cap S
<1> DEFINE l == Len(s)
           f == Picking(s, S, l)
           First(n) == {s[i] : i \in 1 .. n} \cap S
           T == {n \in Nat : n <= l =>
                   f[n] \in Seq(D) /\ Events(f[n]) = First(n)}
<1>1. Picked(s, S) = f[l] /\ l \in Nat
  BY DEF Picked, Picking, Taken
<1>2. 0 \in T
  <2>1. f[0] = << >>
    <3> HIDE DEF l
    <3> QED BY <1>1, PickingExists
  <2>2. << >> \in Seq(D) /\ Events(<< >>) = {} /\ First(0) = {}
    BY DEF Events
  <2> HIDE DEF f, First
  <2> QED BY <2>1, <2>2
<1>3. ASSUME NEW n \in Nat, n \in T PROVE n + 1 \in T
  <2>1. SUFFICES ASSUME n + 1 <= l
                 PROVE  f[n + 1] \in Seq(D) /\ Events(f[n + 1]) = First(n + 1)
    OBVIOUS
  <2>2. f[n] \in Seq(D) /\ Events(f[n]) = First(n)
    BY <1>1, <1>3, <2>1
  <2>3. f[n + 1] = IF s[n + 1] \in S THEN Append(f[n], s[n + 1]) ELSE f[n]
    <3>1. n + 1 \in 0 .. l /\ n + 1 # 0 /\ (n + 1) - 1 = n
      BY <1>1, <2>1
    <3>2. f = [k \in 0 .. l |-> IF k = 0 THEN << >>
                               ELSE Taken(f[k - 1], s[k], S)]
      <4> HIDE DEF l
      <4> QED BY <1>1, PickingExists
    <3> HIDE DEF f, l
    <3> QED BY <3>1, <3>2 DEF Taken
  <2>4. s[n + 1] \in D /\ First(n + 1) = First(n) \cup ({s[n + 1]} \cap S)
    <3>1. n + 1 \in 1 .. l /\ 1 .. n + 1 = (1 .. n) \cup {n + 1}
      BY <1>1, <2>1
    <3> QED BY <3>1
  <2>5. CASE s[n + 1] \in S
    <3> DEFINE a == f[n]
               b == f[n + 1]
    <3> HIDE DEF f
    <3>1. b = Append(a, s[n + 1]) /\ a \in Seq(D)
      BY <2>2, <2>3, <2>5
    <3> HIDE DEF a, b
    <3>2. /\ b \in Seq(D) /\ Len(b) = Len(a) + 1 /\ Len(a) \in Nat
          /\ \A i \in 1 .. Len(a) : b[i] = a[i]
          /\ b[Len(a) + 1] = s[n + 1]
      BY <3>1, <2>4
    <3>3. DOMAIN b = DOMAIN a \cup {Len(a) + 1} /\ DOMAIN a = 1 .. Len(a)
      BY <3>1, <3>2
    <3>4. Events(b) = Events(a) \cup {s[n + 1]}
      BY <3>2, <3>3 DEF Events
    <3>5. Events(b) = First(n + 1)
      BY <3>4, <2>2, <2>4, <2>5 DEF a
    <3> QED BY <3>2, <3>5 DEF b
  <2>6. CASE s[n + 1] \notin S
    <3> HIDE DEF f
    <3>1. f[n + 1] = f[n] /\ First(n + 1) = First(n)
      BY <2>3, <2>4, <2>6
    <3> QED BY <3>1, <2>2
  <2> QED BY <2>5, <2>6
<1>4. Nat \subseteq T
  <2> HIDE DEF T
  <2> QED BY <1>2, <1>3, SetInduction
<1>5. f[l] \in Seq(D) /\ Events(f[l]) = First(l)
  <2> HIDE DEF f, First
  <2> QED BY <1>1, <1>4
<1>6. First(l) = Events(s) \cap S
  BY DEF Events
<1> QED BY <1>1, <1>5, <1>6

\* Picked from an ascending sequence, they ascend.
Rising(s) == \A i, k \in DOMAIN s : i < k => s[i] < s[k]

LEMMA PickedRises ==
  ASSUME NEW N \in Nat, NEW S, NEW s \in Seq(1 .. N), Len(s) = N,
         \A i \in 1 .. N : s[i] = i
  PROVE  /\ Picked(s, S) \in Seq(1 .. N)
         /\ Rising(Picked(s, S))
         /\ Events(Picked(s, S)) = (1 .. N) \cap S
<1> DEFINE f == Picking(s, S, N)
           T == {n \in Nat : n <= N =>
                   f[n] \in Seq(1 .. n) /\ Rising(f[n])}
<1>1. s \in Seq(1 .. N) /\ Len(s) = N /\ Events(s) = 1 .. N
  BY DEF Events
<1>2. Picked(s, S) = f[N]
  BY <1>1 DEF Picked, Picking, Taken
<1>3. 0 \in T
  <2>1. f[0] = << >>
    <3> QED BY PickingExists
  <2>2. << >> \in Seq(1 .. 0) /\ Rising(<< >>)
    BY DEF Rising
  <2> HIDE DEF f
  <2> QED BY <2>1, <2>2
<1>4. ASSUME NEW n \in Nat, n \in T PROVE n + 1 \in T
  <2>1. SUFFICES ASSUME n + 1 <= N
                 PROVE  f[n + 1] \in Seq(1 .. n + 1) /\ Rising(f[n + 1])
    OBVIOUS
  <2>2. f[n] \in Seq(1 .. n) /\ Rising(f[n])
    BY <1>4, <2>1
  <2>3. f[n + 1] = IF n + 1 \in S THEN Append(f[n], n + 1) ELSE f[n]
    <3>1. n + 1 \in 0 .. N /\ n + 1 # 0 /\ (n + 1) - 1 = n
      BY <2>1
    <3>2. s[n + 1] = n + 1
      BY <2>1
    <3>3. f = [k \in 0 .. N |-> IF k = 0 THEN << >>
                               ELSE Taken(f[k - 1], s[k], S)]
      <4> QED BY PickingExists
    <3> HIDE DEF f
    <3> QED BY <3>1, <3>2, <3>3 DEF Taken
  <2> DEFINE a == f[n]
             b == f[n + 1]
  <2> HIDE DEF f
  <2>4. a \in Seq(1 .. n) /\ Rising(a) /\ b \in {a, Append(a, n + 1)}
    BY <2>2, <2>3
  <2>5. b \in Seq(1 .. n + 1) /\ Rising(b)
    <3> HIDE DEF a, b
    <3>1. a \in Seq(1 .. n + 1)
      BY <2>4
    <3>2. CASE b = a
      BY <2>4, <3>1, <3>2
    <3>3. CASE b = Append(a, n + 1)
      <4>1. /\ b \in Seq(1 .. n + 1) /\ Len(b) = Len(a) + 1 /\ Len(a) \in Nat
            /\ \A i \in 1 .. Len(a) : b[i] = a[i] /\ a[i] \in 1 .. n
            /\ b[Len(a) + 1] = n + 1
            /\ DOMAIN a = 1 .. Len(a) /\ DOMAIN b = 1 .. Len(a) + 1
        BY <2>4, <3>1, <3>3
      <4>2. ASSUME NEW i \in DOMAIN b, NEW k \in DOMAIN b, i < k
            PROVE  b[i] < b[k]
        <5>1. i \in 1 .. Len(a)
          BY <4>1, <4>2
        <5>2. CASE k = Len(a) + 1
          BY <4>1, <5>1, <5>2
        <5>3. CASE k \in 1 .. Len(a)
          BY <2>4, <4>1, <4>2, <5>1, <5>3 DEF Rising
        <5> QED BY <4>1, <5>2, <5>3
      <4> QED BY <4>1, <4>2 DEF Rising
    <3> QED BY <2>4, <3>2, <3>3
  <2> QED BY <2>5
<1>5. Nat \subseteq T
  <2> HIDE DEF T
  <2> QED BY <1>3, <1>4, SetInduction
<1>6. f[N] \in Seq(1 .. N) /\ Rising(f[N])
  BY <1>5
<1>7. Events(Picked(s, S)) = (1 .. N) \cap S
  <2> QED BY <1>1, PickedIs
<1> QED BY <1>2, <1>6, <1>7

-----------------------------------------------------------------------------
\* The read model after the first events of a journal.

Replaying(s, n) ==
  CHOOSE f : f = [k \in 0 .. n |->
                    IF k = 0 THEN R!createInitialProjectionState
                    ELSE R!projectEvent(f[k - 1], s[k])]

LEMMA ReplayingExists ==
  ASSUME NEW s, NEW n \in Nat
  PROVE  Replaying(s, n) =
           [k \in 0 .. n |->
              IF k = 0 THEN R!createInitialProjectionState
              ELSE R!projectEvent(Replaying(s, n)[k - 1], s[k])]
<1> DEFINE Fits(f, k) ==
      f = [m \in 0 .. k |-> IF m = 0 THEN R!createInitialProjectionState
                            ELSE R!projectEvent(f[m - 1], s[m])]
           T == {k \in Nat : \E f : Fits(f, k)}
<1>1. 0 \in T
  <2>1. Fits([m \in 0 .. 0 |-> R!createInitialProjectionState], 0)
    OBVIOUS
  <2> QED BY <2>1
<1>2. ASSUME NEW k \in Nat, k \in T PROVE k + 1 \in T
  <2>1. PICK f : Fits(f, k)
    BY <1>2
  <2> DEFINE g == [m \in 0 .. k + 1 |->
                     IF m = k + 1 THEN R!projectEvent(f[k], s[k + 1])
                     ELSE f[m]]
  <2>2. ASSUME NEW m \in 0 .. k + 1
        PROVE  g[m] = IF m = 0 THEN R!createInitialProjectionState
                      ELSE R!projectEvent(g[m - 1], s[m])
    <3>1. CASE m = 0
      BY <2>1, <3>1
    <3>2. CASE m \in 1 .. k
      BY <2>1, <3>2
    <3>3. CASE m = k + 1
      BY <2>1, <3>3
    <3> QED BY <3>1, <3>2, <3>3
  <2>3. Fits(g, k + 1)
    BY <2>2
  <2>4. \E h : Fits(h, k + 1)
    <3> HIDE DEF Fits, g
    <3> QED BY <2>3
  <2> QED BY <2>4
<1>3. n \in T
  <2> HIDE DEF T
  <2> QED BY <1>1, <1>2, SetInduction
<1>4. \E f : Fits(f, n)
  BY <1>3
<1> QED BY <1>4 DEF Replaying

LEMMA ReplayingStep ==
  ASSUME NEW s, NEW n \in Nat
  PROVE  /\ Replaying(s, n)[0] = R!createInitialProjectionState
         /\ \A k \in 0 .. n - 1 :
              Replaying(s, n)[k + 1] =
                R!projectEvent(Replaying(s, n)[k], s[k + 1])
<1>1. 0 \in 0 .. n /\ \A k \in 0 .. n - 1 :
        k + 1 \in 0 .. n /\ k + 1 # 0 /\ (k + 1) - 1 = k
  OBVIOUS
<1> QED BY <1>1, ReplayingExists

LEMMA ReplayIs ==
  ASSUME NEW s
  PROVE  R!Replay(s) = Replaying(s, Len(s))[Len(s)]
BY DEF R!Replay, Replaying

\* An empty journal is the empty read model; one more event is projected on
\* what the events before it made.
LEMMA ReplayEmpty == R!Replay(<< >>) = R!createInitialProjectionState
<1>1. Len(<< >>) = 0
  OBVIOUS
<1> QED BY <1>1, ReplayIs, ReplayingStep

LEMMA ReplayAppend ==
  ASSUME NEW D, NEW s \in Seq(D), NEW e \in D
  PROVE  R!Replay(Append(s, e)) = R!projectEvent(R!Replay(s), e)
<1> DEFINE l == Len(s)
           t == Append(s, e)
           f == Replaying(s, l)
           g == Replaying(t, l + 1)
           T == {n \in Nat : n <= l => f[n] = g[n]}
<1>1. /\ l \in Nat /\ t \in Seq(D) /\ Len(t) = l + 1 /\ t[l + 1] = e
      /\ \A i \in 1 .. l : t[i] = s[i]
  OBVIOUS
<1> HIDE DEF l, t
<1>2. /\ f[0] = g[0]
      /\ \A k \in 0 .. l - 1 : f[k + 1] = R!projectEvent(f[k], s[k + 1])
      /\ \A k \in 0 .. l : g[k + 1] = R!projectEvent(g[k], t[k + 1])
  <2>1. l + 1 \in Nat /\ (l + 1) - 1 = l
    BY <1>1
  <2> QED BY <1>1, <2>1, ReplayingStep
<1> HIDE DEF f, g
<1>3. 0 \in T
  BY <1>2
<1>4. ASSUME NEW n \in Nat, n \in T PROVE n + 1 \in T
  <2>1. SUFFICES ASSUME n + 1 <= l PROVE f[n + 1] = g[n + 1]
    OBVIOUS
  <2>2. f[n] = g[n] /\ s[n + 1] = t[n + 1]
    BY <1>1, <1>4, <2>1
  <2>3. n \in 0 .. l - 1 /\ n \in 0 .. l
    BY <1>1, <2>1
  <2> QED BY <1>2, <2>2, <2>3
<1>5. Nat \subseteq T
  <2> HIDE DEF T
  <2> QED BY <1>3, <1>4, SetInduction
<1>6. f[l] = g[l]
  BY <1>1, <1>5
<1>7. g[l + 1] = R!projectEvent(f[l], e)
  <2>1. l \in 0 .. l
    BY <1>1
  <2> QED BY <1>1, <1>2, <1>6, <2>1
<1>8. R!Replay(s) = f[l] /\ R!Replay(t) = g[l + 1]
  BY <1>1, ReplayIs DEF f, g, l
<1> QED BY <1>7, <1>8 DEF t

-----------------------------------------------------------------------------
\* The events of a journal and the read models they make.

CreatedEvent ==
  [type : {"MarketCreated"}, id : Numbers, fork : Nat, marketId : Markets,
   creator : {User}, state : {"Open", "Locked"}]

DetailedEvent ==
  [type : {"MarketCreated"}, id : Numbers, fork : Nat, marketId : Markets,
   creator : {User}, state : {"Open", "Locked"}, lockTime : {TRUE}]

BetEvent ==
  [type : {"BetPlaced"}, id : Numbers, fork : Nat, marketId : Markets,
   user : {User}, outcome : {0}, amount : {1}, logIndex : {0}]

LockedEvent ==
  [type : {"MarketLocked"}, id : Numbers, fork : Nat, marketId : Markets]

Event == CreatedEvent \cup DetailedEvent \cup BetEvent \cup LockedEvent

Ids(journal) == {e.id : e \in Events(journal)}

MarketOK(market) ==
  /\ {"creator", "totalPool", "poolByOutcome"} \subseteq DOMAIN market
  /\ market.totalPool \in Nat

ModelOK(v) ==
  /\ {"markets", "bets", "processedEventIds"} \subseteq DOMAIN v
  /\ DOMAIN v.markets \subseteq Markets
  /\ v.processedEventIds \subseteq Numbers
  /\ \A m \in DOMAIN v.markets : MarketOK(v.markets[m])

\* Two entries of a market, two read models, that journals cannot tell apart.
SameFacts(a, b) ==
  /\ a.creator = b.creator
  /\ a.totalPool = b.totalPool
  /\ a.poolByOutcome = b.poolByOutcome

Same(v, w) ==
  /\ v.processedEventIds = w.processedEventIds
  /\ v.bets = w.bets
  /\ DOMAIN v.markets = DOMAIN w.markets
  /\ \A m \in DOMAIN v.markets : SameFacts(v.markets[m], w.markets[m])

\* What a new event makes of a read model, and of the entry of its market.
BetKey(e) == <<e.marketId, e.user, e.logIndex>>
BetOf(e) == [user |-> e.user, outcome |-> e.outcome, amount |-> e.amount]
PoolsWith(pools, e) ==
  R!Put(pools, e.outcome,
        e.amount + (IF e.outcome \in DOMAIN pools THEN pools[e.outcome] ELSE 0))

EntryTold(v, e, market) ==
  LET m == e.marketId
  IN  /\ e.type = "MarketCreated" =>
           /\ market.creator = e.creator
           /\ market.totalPool = 0
           /\ market.poolByOutcome = << >>
      /\ e.type = "BetPlaced" =>
           /\ market.creator = v.markets[m].creator
           /\ market.totalPool = v.markets[m].totalPool + e.amount
           /\ market.poolByOutcome = PoolsWith(v.markets[m].poolByOutcome, e)
      /\ e.type = "MarketLocked" => SameFacts(market, v.markets[m])

Told(v, e, w) ==
  /\ w.processedEventIds = v.processedEventIds \cup {e.id}
  /\ w.bets = IF e.type = "BetPlaced" THEN R!Put(v.bets, BetKey(e), BetOf(e))
              ELSE v.bets
  /\ DOMAIN w.markets =
       DOMAIN v.markets \cup
         (IF e.type = "MarketCreated" THEN {e.marketId} ELSE {})
  /\ \A m \in DOMAIN w.markets :
       IF m = e.marketId THEN EntryTold(v, e, w.markets[m])
       ELSE w.markets[m] = v.markets[m]

LEMMA EventFields ==
  ASSUME NEW e \in Event
  PROVE  /\ e.type \in {"MarketCreated", "BetPlaced", "MarketLocked"}
         /\ e.id \in Numbers /\ e.marketId \in Markets /\ e.fork \in Nat
         /\ e.type = "BetPlaced" =>
              e.user = User /\ e.outcome = 0 /\ e.amount = 1 /\ e.logIndex = 0
         /\ e.type = "MarketCreated" => e.creator = User
BY DEF Event, CreatedEvent, DetailedEvent, BetEvent, LockedEvent

\* The fields of one entry are set.
Updated(v, m, fields, w) ==
  /\ DOMAIN w = DOMAIN v
  /\ w.processedEventIds = v.processedEventIds
  /\ w.bets = v.bets
  /\ DOMAIN w.markets = DOMAIN v.markets
  /\ \A k \in DOMAIN v.markets \ {m} : w.markets[k] = v.markets[k]
  /\ w.markets[m] = R!Merged(v.markets[m], fields)

LEMMA UpdateIs ==
  ASSUME NEW v, ModelOK(v), NEW m, m \in DOMAIN v.markets, NEW fields
  PROVE  Updated(v, m, fields, R!Update(v, "markets", m, fields))
<1> DEFINE w == R!Update(v, "markets", m, fields)
<1> DEFINE entry == R!Merged(v.markets[m], fields)
<1>1. w = [v EXCEPT !["markets"] = R!Put(v["markets"], m, entry)]
  BY DEF R!Update
<1> HIDE DEF entry
<1>2. PICK map : map = R!Put(v.markets, m, entry)
  OBVIOUS
<1>3. w = [v EXCEPT !.markets = map]
  BY <1>1, <1>2
<1>4. /\ DOMAIN w = DOMAIN v /\ w.processedEventIds = v.processedEventIds
      /\ w.bets = v.bets /\ w.markets = map
  BY <1>3 DEF ModelOK
<1>5. /\ DOMAIN map = DOMAIN v.markets /\ map[m] = entry
      /\ \A k \in DOMAIN v.markets \ {m} : map[k] = v.markets[k]
  BY <1>2 DEF R!Put
<1> QED BY <1>4, <1>5 DEF Updated, entry

LEMMA UpdateNothing ==
  ASSUME NEW v, NEW m, m \notin DOMAIN v.markets, NEW fields
  PROVE  R!Update(v, "markets", m, fields) = v
BY DEF R!Update

\* An entry told anything but the facts keeps them.
LEMMA MergedKeeps ==
  ASSUME NEW market, MarketOK(market), NEW fields, NEW entry,
         entry = R!Merged(market, fields),
         "creator" \notin DOMAIN fields, "totalPool" \notin DOMAIN fields,
         "poolByOutcome" \notin DOMAIN fields
  PROVE  MarketOK(entry) /\ SameFacts(entry, market)
BY DEF R!Merged, MarketOK, SameFacts

\* What the effects of the three events are.
LEMMA MarketEffects ==
  ASSUME NEW u, NEW e
  PROVE  /\ e.type = "MarketCreated" =>
              R!Effect(u, e) =
                [u EXCEPT !.markets =
                   R!Put(@, e.marketId, R!MarketProjection(e))]
         /\ e.type = "MarketLocked" =>
              R!Effect(u, e) =
                R!Update(u, "markets", e.marketId, [state |-> "Locked"])
<1>1. e.type \in R!MarketEvents => R!Effect(u, e) = R!MarketEffect(u, e)
  BY DEF R!Effect, R!MarketEvents, R!BountyEvents, R!Opening,
         R!ChallengeEvents, R!BondEvents
<1>2. {"MarketCreated", "MarketLocked"} \subseteq R!MarketEvents
  BY DEF R!MarketEvents
<1>3. CASE e.type = "MarketCreated"
  <2>1. R!MarketEffect(u, e) =
          [u EXCEPT !.markets = R!Put(@, e.marketId, R!MarketProjection(e))]
    BY <1>3 DEF R!MarketEffect
  <2> QED BY <1>1, <1>2, <1>3, <2>1
<1>4. CASE e.type = "MarketLocked"
  <2>1. R!MarketEffect(u, e) =
          R!Update(u, "markets", e.marketId, [state |-> "Locked"])
    BY <1>4 DEF R!MarketEffect
  <2> QED BY <1>1, <1>2, <1>4, <2>1
<1> QED BY <1>3, <1>4

LEMMA BetEffect ==
  ASSUME NEW u, NEW e, e.type = "BetPlaced", NEW x,
         x = [u EXCEPT !.bets = R!Put(@, BetKey(e), BetOf(e))]
  PROVE  R!Effect(u, e) =
           IF e.marketId \in DOMAIN u.markets
             THEN R!Update(x, "markets", e.marketId,
                           R!Staked(u.markets[e.marketId], e))
             ELSE x
<1>1. R!Effect(u, e) = R!MarketEffect(u, e)
  BY DEF R!Effect, R!MarketEvents, R!BountyEvents, R!Opening,
         R!ChallengeEvents, R!BondEvents
<1>2. R!MarketEffect(u, e) =
        IF e.marketId \in DOMAIN u.markets
          THEN R!Update(x, "markets", e.marketId,
                        R!Staked(u.markets[e.marketId], e))
          ELSE x
  BY DEF R!MarketEffect, BetKey, BetOf
<1> QED BY <1>1, <1>2

LEMMA CreatedTold ==
  ASSUME NEW v, ModelOK(v), NEW e \in Event, e.type = "MarketCreated", NEW w,
         w = R!Effect([v EXCEPT !.processedEventIds = @ \cup {e.id}], e)
  PROVE  ModelOK(w) /\ Told(v, e, w)
<1> DEFINE m == e.marketId
<1>1. m \in Markets /\ e.id \in Numbers
  BY EventFields
<1>2. PICK u : u = [v EXCEPT !.processedEventIds = @ \cup {e.id}]
  OBVIOUS
<1>3. /\ u.markets = v.markets /\ u.bets = v.bets /\ DOMAIN u = DOMAIN v
      /\ u.processedEventIds = v.processedEventIds \cup {e.id}
  BY <1>2 DEF ModelOK
<1>4. w = [u EXCEPT !.markets = R!Put(u.markets, m, R!MarketProjection(e))]
  BY <1>2, MarketEffects
<1>5. PICK map : map = R!Put(v.markets, m, R!MarketProjection(e))
  OBVIOUS
<1>6. /\ w.markets = map /\ w.bets = v.bets /\ DOMAIN w = DOMAIN v
      /\ w.processedEventIds = v.processedEventIds \cup {e.id}
  BY <1>3, <1>4, <1>5 DEF ModelOK
<1>7. /\ DOMAIN map = DOMAIN v.markets \cup {m}
      /\ map[m] = R!MarketProjection(e)
      /\ \A k \in DOMAIN map : k # m => map[k] = v.markets[k]
  BY <1>5 DEF R!Put
<1>8. MarketOK(map[m]) /\ EntryTold(v, e, map[m])
  BY <1>7 DEF R!MarketProjection, MarketOK, EntryTold
<1>9. ModelOK(w)
  BY <1>1, <1>6, <1>7, <1>8 DEF ModelOK
<1>10. Told(v, e, w)
  BY <1>6, <1>7, <1>8 DEF Told
<1> QED BY <1>9, <1>10

LEMMA BetTold ==
  ASSUME NEW v, ModelOK(v), NEW e \in Event, e.type = "BetPlaced", NEW w,
         w = R!Effect([v EXCEPT !.processedEventIds = @ \cup {e.id}], e)
  PROVE  ModelOK(w) /\ Told(v, e, w)
<1> DEFINE m == e.marketId
<1>1. m \in Markets /\ e.id \in Numbers /\ e.amount = 1
  BY EventFields
<1>2. PICK u : u = [v EXCEPT !.processedEventIds = @ \cup {e.id}]
  OBVIOUS
<1>3. /\ u.markets = v.markets /\ u.bets = v.bets /\ DOMAIN u = DOMAIN v
      /\ u.processedEventIds = v.processedEventIds \cup {e.id}
  BY <1>2 DEF ModelOK
<1>4. PICK x : x = [u EXCEPT !.bets = R!Put(u.bets, BetKey(e), BetOf(e))]
  OBVIOUS
<1>5. /\ x.markets = v.markets /\ DOMAIN x = DOMAIN v
      /\ x.processedEventIds = v.processedEventIds \cup {e.id}
      /\ x.bets = R!Put(v.bets, BetKey(e), BetOf(e))
  BY <1>3, <1>4 DEF ModelOK
<1>6. ModelOK(x)
  BY <1>1, <1>5 DEF ModelOK
<1>7. w = IF m \in DOMAIN u.markets
            THEN R!Update(x, "markets", m, R!Staked(u.markets[m], e)) ELSE x
  BY <1>2, <1>4, BetEffect
<1>8. CASE m \notin DOMAIN v.markets
  <2>1. w = x
    BY <1>3, <1>7, <1>8
  <2>2. Told(v, e, w)
    BY <1>5, <1>8, <2>1 DEF Told
  <2> QED BY <1>6, <2>1, <2>2
<1>9. CASE m \in DOMAIN v.markets
  <2>1. PICK fields : fields = R!Staked(v.markets[m], e)
    OBVIOUS
  <2>2. w = R!Update(x, "markets", m, fields)
    BY <1>3, <1>7, <1>9, <2>1
  <2>3. /\ DOMAIN w = DOMAIN v
        /\ w.processedEventIds = v.processedEventIds \cup {e.id}
        /\ w.bets = R!Put(v.bets, BetKey(e), BetOf(e))
        /\ DOMAIN w.markets = DOMAIN v.markets
        /\ \A k \in DOMAIN v.markets \ {m} : w.markets[k] = v.markets[k]
        /\ w.markets[m] = R!Merged(v.markets[m], fields)
    <3>1. ModelOK(x) /\ m \in DOMAIN x.markets
      BY <1>5, <1>6, <1>9
    <3>2. Updated(x, m, fields, w)
      BY <2>2, <3>1, UpdateIs
    <3> QED BY <1>5, <3>2 DEF Updated
  <2>4. MarketOK(v.markets[m])
    BY <1>9 DEF ModelOK
  <2>5. /\ DOMAIN fields = {"totalPool", "poolByOutcome"}
        /\ fields.totalPool = v.markets[m].totalPool + e.amount
        /\ fields.poolByOutcome = PoolsWith(v.markets[m].poolByOutcome, e)
    BY <2>1 DEF R!Staked, PoolsWith
  <2>6. /\ {"creator", "totalPool", "poolByOutcome"} \subseteq
             DOMAIN w.markets[m]
        /\ w.markets[m].creator = v.markets[m].creator
        /\ w.markets[m].totalPool = fields.totalPool
        /\ w.markets[m].poolByOutcome = fields.poolByOutcome
    BY <2>3, <2>4, <2>5 DEF R!Merged, MarketOK
  <2>7. MarketOK(w.markets[m])
    BY <1>1, <2>4, <2>5, <2>6 DEF MarketOK
  <2>8. EntryTold(v, e, w.markets[m])
    BY <2>5, <2>6 DEF EntryTold
  <2>9. ModelOK(w)
    BY <1>1, <2>3, <2>7 DEF ModelOK
  <2>10. Told(v, e, w)
    BY <1>9, <2>3, <2>8 DEF Told
  <2> QED BY <2>9, <2>10
<1> QED BY <1>8, <1>9

LEMMA LockedTold ==
  ASSUME NEW v, ModelOK(v), NEW e \in Event, e.type = "MarketLocked", NEW w,
         w = R!Effect([v EXCEPT !.processedEventIds = @ \cup {e.id}], e)
  PROVE  ModelOK(w) /\ Told(v, e, w)
<1> DEFINE m == e.marketId
<1>1. m \in Markets /\ e.id \in Numbers
  BY EventFields
<1>2. PICK u : u = [v EXCEPT !.processedEventIds = @ \cup {e.id}]
  OBVIOUS
<1>3. /\ u.markets = v.markets /\ u.bets = v.bets /\ DOMAIN u = DOMAIN v
      /\ u.processedEventIds = v.processedEventIds \cup {e.id}
  BY <1>2 DEF ModelOK
<1>4. ModelOK(u)
  BY <1>1, <1>3 DEF ModelOK
<1>5. PICK fields : fields = [state |-> "Locked"]
  OBVIOUS
<1>6. w = R!Update(u, "markets", m, fields)
  BY <1>2, <1>5, MarketEffects
<1>7. CASE m \notin DOMAIN v.markets
  <2>1. w = u
    BY <1>3, <1>6, <1>7, UpdateNothing
  <2>2. Told(v, e, w)
    BY <1>3, <1>7, <2>1 DEF Told
  <2> QED BY <1>4, <2>1, <2>2
<1>8. CASE m \in DOMAIN v.markets
  <2>1. /\ DOMAIN w = DOMAIN v
        /\ w.processedEventIds = v.processedEventIds \cup {e.id}
        /\ w.bets = v.bets
        /\ DOMAIN w.markets = DOMAIN v.markets
        /\ \A k \in DOMAIN v.markets \ {m} : w.markets[k] = v.markets[k]
        /\ w.markets[m] = R!Merged(v.markets[m], fields)
    <3>1. ModelOK(u) /\ m \in DOMAIN u.markets
      BY <1>3, <1>4, <1>8
    <3>2. Updated(u, m, fields, w)
      BY <1>6, <3>1, UpdateIs
    <3> QED BY <1>3, <3>2 DEF Updated
  <2>2. MarketOK(v.markets[m])
    BY <1>8 DEF ModelOK
  <2>3. MarketOK(w.markets[m]) /\ SameFacts(w.markets[m], v.markets[m])
    <3>1. DOMAIN fields = {"state"}
      BY <1>5
    <3> QED BY <2>1, <2>2, <3>1, MergedKeeps
  <2>4. EntryTold(v, e, w.markets[m])
    BY <2>3 DEF EntryTold
  <2>5. ModelOK(w)
    BY <1>1, <2>1, <2>3 DEF ModelOK
  <2>6. Told(v, e, w)
    BY <1>8, <2>1, <2>4 DEF Told
  <2> QED BY <2>5, <2>6
<1> QED BY <1>7, <1>8

\* An event that is new is told once, one that is known changes nothing.
LEMMA ProjectedIs ==
  ASSUME NEW v, ModelOK(v), NEW e \in Event, NEW w, w = R!projectEvent(v, e)
  PROVE  /\ ModelOK(w)
         /\ e.id \in v.processedEventIds => w = v
         /\ e.id \notin v.processedEventIds => Told(v, e, w)
<1>1. CASE e.id \in v.processedEventIds
  BY <1>1 DEF R!projectEvent
<1>2. CASE e.id \notin v.processedEventIds
  <2>1. w = R!Effect([v EXCEPT !.processedEventIds = @ \cup {e.id}], e)
    BY <1>2 DEF R!projectEvent
  <2> QED BY <1>2, <2>1, EventFields, CreatedTold, BetTold, LockedTold
<1> QED BY <1>1, <1>2

\* Read models that are the same stay the same.
LEMMA ProjectedSame ==
  ASSUME NEW v, NEW w, ModelOK(v), ModelOK(w), Same(v, w), NEW e \in Event
  PROVE  Same(R!projectEvent(v, e), R!projectEvent(w, e))
<1>1. PICK x, y : x = R!projectEvent(v, e) /\ y = R!projectEvent(w, e)
  OBVIOUS
<1>2. CASE e.id \in v.processedEventIds
  <2>1. x = v /\ y = w
    BY <1>1, <1>2, ProjectedIs DEF Same
  <2> QED BY <1>1, <2>1
<1>3. CASE e.id \notin v.processedEventIds
  <2>1. Told(v, e, x) /\ Told(w, e, y)
    BY <1>1, <1>3, ProjectedIs DEF Same
  <2>2. /\ x.processedEventIds = y.processedEventIds /\ x.bets = y.bets
        /\ DOMAIN x.markets = DOMAIN y.markets
    BY <2>1 DEF Told, Same
  <2>3. ASSUME NEW m \in DOMAIN x.markets
        PROVE  SameFacts(x.markets[m], y.markets[m])
    <3>1. CASE m # e.marketId
      <4>1. /\ x.markets[m] = v.markets[m] /\ y.markets[m] = w.markets[m]
            /\ m \in DOMAIN v.markets
        BY <2>1, <2>2, <2>3, <3>1 DEF Told
      <4> QED BY <4>1 DEF Same
    <3>2. CASE m = e.marketId
      <4>1. EntryTold(v, e, x.markets[m]) /\ EntryTold(w, e, y.markets[m])
        BY <2>1, <2>2, <2>3, <3>2 DEF Told
      <4>2. CASE e.type = "MarketCreated"
        BY <4>1, <4>2 DEF EntryTold, SameFacts
      <4>3. CASE e.type # "MarketCreated"
        <5>1. m \in DOMAIN v.markets
          BY <2>1, <2>3, <4>3 DEF Told
        <5>2. SameFacts(v.markets[m], w.markets[m])
          BY <5>1 DEF Same
        <5> QED BY <3>2, <4>1, <4>3, <5>2, EventFields DEF EntryTold, SameFacts
      <4> QED BY <4>2, <4>3
    <3> QED BY <3>1, <3>2
  <2> QED BY <1>1, <2>2, <2>3 DEF Same
<1> QED BY <1>2, <1>3

\* So do they when one of them is told the details of a market.
LEMMA DetailsSame ==
  ASSUME NEW v, ModelOK(v), NEW m, NEW state, NEW w,
         w = R!Update(v, "markets", m, Details(state))
  PROVE  ModelOK(w) /\ Same(w, v)
<1>1. CASE m \notin DOMAIN v.markets
  <2>1. w = v
    BY <1>1, UpdateNothing
  <2> QED BY <2>1 DEF Same, SameFacts
<1>2. CASE m \in DOMAIN v.markets
  <2>1. PICK fields : fields = Details(state)
    OBVIOUS
  <2>2. DOMAIN fields = {"lockTime", "state"}
    BY <2>1 DEF Details
  <2>3. /\ DOMAIN w = DOMAIN v
        /\ w.processedEventIds = v.processedEventIds
        /\ w.bets = v.bets
        /\ DOMAIN w.markets = DOMAIN v.markets
        /\ \A k \in DOMAIN v.markets \ {m} : w.markets[k] = v.markets[k]
        /\ w.markets[m] = R!Merged(v.markets[m], fields)
    BY <1>2, <2>1, UpdateIs DEF Updated
  <2>4. MarketOK(w.markets[m]) /\ SameFacts(w.markets[m], v.markets[m])
    <3>1. MarketOK(v.markets[m])
      BY <1>2 DEF ModelOK
    <3> QED BY <2>2, <2>3, <3>1, MergedKeeps
  <2>5. ModelOK(w)
    BY <2>3, <2>4 DEF ModelOK
  <2>6. \A k \in DOMAIN w.markets : SameFacts(w.markets[k], v.markets[k])
    BY <2>3, <2>4 DEF SameFacts
  <2> QED BY <2>3, <2>5, <2>6 DEF Same
<1> QED BY <1>1, <1>2

\* A journal that is replayed makes a read model of the events it holds.
LEMMA ReplayTyped ==
  ASSUME NEW j \in Seq(Event)
  PROVE  ModelOK(R!Replay(j)) /\ R!Replay(j).processedEventIds = Ids(j)
<1> DEFINE l == Len(j)
           f == Replaying(j, l)
           First(n) == {j[i].id : i \in 1 .. n}
           T == {n \in Nat : n <= l =>
                   ModelOK(f[n]) /\ f[n].processedEventIds = First(n)}
<1>1. l \in Nat /\ (\A i \in 1 .. l : j[i] \in Event) /\ DOMAIN j = 1 .. l
  OBVIOUS
<1> HIDE DEF l
<1>2. /\ f[0] = R!createInitialProjectionState
      /\ \A k \in 0 .. l - 1 : f[k + 1] = R!projectEvent(f[k], j[k + 1])
  BY <1>1, ReplayingStep
<1> HIDE DEF f
<1>3. 0 \in T
  <2>1. /\ ModelOK(R!createInitialProjectionState)
        /\ R!createInitialProjectionState.processedEventIds = {}
    BY DEF R!createInitialProjectionState, ModelOK
  <2> QED BY <1>2, <2>1
<1>4. ASSUME NEW n \in Nat, n \in T PROVE n + 1 \in T
  <2>1. SUFFICES ASSUME n + 1 <= l
                 PROVE  /\ ModelOK(f[n + 1])
                        /\ f[n + 1].processedEventIds = First(n + 1)
    OBVIOUS
  <2>2. ModelOK(f[n]) /\ f[n].processedEventIds = First(n)
    BY <1>1, <1>4, <2>1
  <2>3. f[n + 1] = R!projectEvent(f[n], j[n + 1]) /\ j[n + 1] \in Event
    BY <1>1, <1>2, <2>1
  <2>4. First(n + 1) = First(n) \cup {j[n + 1].id}
    <3>1. 1 .. n + 1 = (1 .. n) \cup {n + 1}
      OBVIOUS
    <3> QED BY <3>1
  <2> HIDE DEF First
  <2>5. CASE j[n + 1].id \in f[n].processedEventIds
    <3>1. f[n + 1] = f[n]
      BY <2>2, <2>3, <2>5, ProjectedIs
    <3> QED BY <2>2, <2>4, <2>5, <3>1
  <2>6. CASE j[n + 1].id \notin f[n].processedEventIds
    <3>1. ModelOK(f[n + 1]) /\ Told(f[n], j[n + 1], f[n + 1])
      BY <2>2, <2>3, <2>6, ProjectedIs
    <3> QED BY <2>2, <2>4, <3>1 DEF Told
  <2> QED BY <2>5, <2>6
<1>5. Nat \subseteq T
  <2> HIDE DEF T
  <2> QED BY <1>3, <1>4, SetInduction
<1>6. ModelOK(f[l]) /\ f[l].processedEventIds = First(l)
  BY <1>1, <1>5
<1>7. First(l) = Ids(j)
  BY <1>1 DEF Ids, Events
<1>8. R!Replay(j) = f[l]
  BY ReplayIs DEF f, l
<1> QED BY <1>6, <1>7, <1>8

-----------------------------------------------------------------------------
\* The inductive invariant.

Block == [fork : Nat, log : Logs \cup {NoLog}]

\* The confirmed blocks of a chain.
Settled(c) == {n \in 1 .. Len(c) : n + Confirmations <= Len(c)}

\* Each log is one the contract can emit after those before it.
WellFormed(c) == \A n \in 1 .. Len(c) : CanFollow(SubSeq(c, 1, n - 1), c[n].log)

ChainOK(c) == c \in Seq(Block) /\ Len(c) <= MaxBlocks /\ WellFormed(c)

\* What is stored, in memory, on disk or on its way there: the journal holds
\* events of confirmed blocks, whatever became of these blocks since.
Stored(c, s) ==
  /\ {"journal", "checkpoints", "cursor"} \subseteq DOMAIN s
  /\ s.journal \in Seq(Event)
  /\ Ids(s.journal) \subseteq Settled(c)
  /\ DOMAIN s.checkpoints \subseteq Settled(c)
  /\ s.cursor \in Settled(c) \cup {0}

ModelsOK(models) ==
  /\ models \in Seq({models[i] : i \in DOMAIN models})
  /\ models # << >>
  /\ \A i \in 1 .. Len(models) : ModelOK(models[i])

\* The state of the process: its read models, and what a replay would make of
\* the current one.
StateOK(c, d) ==
  /\ "models" \in DOMAIN d
  /\ ModelsOK(d.models)
  /\ Stored(c, d)
  /\ Same(Current(d), R!Replay(d.journal))

FoundLog ==
  [number : Numbers, fork : Nat, type : LogTypes, marketId : Markets]

LogsOK(c, to, logs) ==
  /\ to \in Settled(c)
  /\ logs \in Seq(FoundLog)
  /\ \A i \in 1 .. Len(logs) :
       logs[i].number \in Settled(c) /\ logs[i].number <= to
  /\ \A i, k \in 1 .. Len(logs) : i < k => logs[i].number < logs[k].number

PollOK(c, d, poll) ==
  /\ poll.pc \in {"idle", "hydrate", "details", "fetched", "decode", "save",
                  "write"}
  /\ poll.pc \in {"hydrate", "details"} => poll.model \in 1 .. Len(d.models)
  /\ poll.pc \in {"fetched", "decode"} => LogsOK(c, poll.to, poll.logs)
  /\ poll.pc = "decode" => poll.logs # << >>
  /\ poll.pc = "write" => Stored(c, poll.saved)

\* While the chain kept what it confirmed, what is stored is what it says:
\* the journal and the checkpoints agree with it, ...
AgreesWith(c, s) ==
  /\ \A e \in Events(s.journal) :
       c[e.id] = [fork |-> e.fork,
                  log |-> [type |-> e.type, marketId |-> e.marketId]]
  /\ \A n \in DOMAIN s.checkpoints : s.checkpoints[n] = c[n].fork

\* ... every log up to the cursor is in the journal, ...
Complete(c, s) ==
  \A n \in 1 .. s.cursor : c[n].log = NoLog \/ n \in Ids(s.journal)

\* ... and the pools are the bets, of markets whose creation was seen.
BetsAmong(c, m, ids) ==
  {n \in ids : c[n].log = [type |-> "BetPlaced", marketId |-> m]}

Counted(c, v) ==
  /\ \A m \in DOMAIN v.markets :
       v.markets[m].totalPool =
         Cardinality(BetsAmong(c, m, v.processedEventIds))
  /\ \A n \in v.processedEventIds :
       c[n].log # NoLog /\ c[n].log.marketId \in DOMAIN v.markets
  /\ \A m \in DOMAIN v.markets :
       \E n \in v.processedEventIds :
         c[n].log = [type |-> "MarketCreated", marketId |-> m]

Sound(c, s) ==
  AgreesWith(c, s) /\ Complete(c, s) /\ Counted(c, R!Replay(s.journal))

\* What a poll has fetched agrees with the chain too, and with the journal it
\* leaves out no log up to the block it will set the cursor to.
FoundIn(c, log) ==
  c[log.number] = [fork |-> log.fork,
                   log |-> [type |-> log.type, marketId |-> log.marketId]]

LeftOut(c, n, j, logs) ==
  /\ c[n].log # NoLog
  /\ n \notin Ids(j)
  /\ \A i \in 1 .. Len(logs) : logs[i].number # n

LogsSound(c, j, to, logs) ==
  /\ \A i \in 1 .. Len(logs) : FoundIn(c, logs[i])
  /\ \A n \in 1 .. to : ~LeftOut(c, n, j, logs)

PollSound(c, j, poll) ==
  /\ poll.pc \in {"fetched", "decode"} => LogsSound(c, j, poll.to, poll.logs)
  /\ poll.pc = "write" => Sound(c, poll.saved)

AllOK(c, d, f, ps) ==
  /\ StateOK(c, d)
  /\ f # Torn => Stored(c, f)
  /\ \A p \in Polls : PollOK(c, d, ps[p])

AllSound(c, d, f, ps) ==
  /\ Sound(c, d)
  /\ f # Torn => Sound(c, f)
  /\ \A p \in Polls : PollSound(c, d.journal, ps[p])

IndexerInv ==
  /\ ChainOK(blocks)
  /\ reorgs \in Nat /\ deep \in BOOLEAN /\ started \in BOOLEAN
  /\ DOMAIN polls = Polls
  /\ AllOK(blocks, db, file, polls)
  /\ ~deep => AllSound(blocks, db, file, polls)

-----------------------------------------------------------------------------
\* The chain.

LEMMA NoLogIsNone ==
  ASSUME NEW log \in Logs
  PROVE  log # NoLog /\ log = [type |-> log.type, marketId |-> log.marketId]
         /\ log.type \in LogTypes /\ log.marketId \in Markets
<1>1. DOMAIN log = {"type", "marketId"} /\ DOMAIN NoLog = {"type"}
  BY DEF Logs, NoLog
<1> QED BY <1>1 DEF Logs, NoLog

LEMMA SamePrefix ==
  ASSUME NEW c \in Seq(Block), NEW d \in Seq(Block), NEW k \in Nat,
         k <= Len(c), k <= Len(d), \A i \in 1 .. k : c[i] = d[i]
  PROVE  SubSeq(c, 1, k) = SubSeq(d, 1, k)
OBVIOUS

IsJoined(D, a, b, c) ==
  /\ c \in Seq(D) /\ Len(c) = Len(a) + Len(b)
  /\ \A k \in 1 .. Len(a) : c[k] = a[k]
  /\ \A k \in 1 .. Len(b) : c[Len(a) + k] = b[k]

LEMMA Joined ==
  ASSUME NEW D, NEW a, a \in Seq(D), NEW b, b \in Seq(D)
  PROVE  IsJoined(D, a, b, a \o b)
BY DEF IsJoined

\* A market is created once, and before what happens to it.
LEMMA CreatedOnce ==
  ASSUME NEW c, ChainOK(c), NEW n \in 1 .. Len(c), NEW k \in 1 .. Len(c),
         NEW m, c[n].log = [type |-> "MarketCreated", marketId |-> m],
         c[k].log = [type |-> "MarketCreated", marketId |-> m]
  PROVE  n = k
<1>1. ASSUME NEW i \in 1 .. Len(c), NEW j \in 1 .. Len(c), i < j,
             c[i].log = [type |-> "MarketCreated", marketId |-> m],
             c[j].log = [type |-> "MarketCreated", marketId |-> m]
      PROVE  FALSE
  <2>1. CanFollow(SubSeq(c, 1, j - 1), c[j].log)
    BY DEF ChainOK, WellFormed
  <2>2. c[j].log # NoLog
    <3>1. DOMAIN c[j].log = {"type", "marketId"} /\ DOMAIN NoLog = {"type"}
      BY <1>1 DEF NoLog
    <3> QED BY <3>1
  <2>3. ~Occurs(SubSeq(c, 1, j - 1), "MarketCreated", m)
    BY <1>1, <2>1, <2>2 DEF CanFollow
  <2>4. /\ i \in DOMAIN SubSeq(c, 1, j - 1)
        /\ SubSeq(c, 1, j - 1)[i] = c[i]
    BY <1>1 DEF ChainOK
  <2> QED BY <1>1, <2>3, <2>4 DEF Occurs
<1>2. n \in Int /\ k \in Int
  OBVIOUS
<1> QED BY <1>1, <1>2

LEMMA CreatedBefore ==
  ASSUME IndexerAssumption, NEW c, ChainOK(c), NEW n \in 1 .. Len(c),
         c[n].log # NoLog, c[n].log.type # "MarketCreated"
  PROVE  \E k \in 1 .. n - 1 :
           c[k].log = [type |-> "MarketCreated", marketId |-> c[n].log.marketId]
<1>1. CanFollow(SubSeq(c, 1, n - 1), c[n].log)
  BY DEF ChainOK, WellFormed
<1>2. c[n].log \in Logs
  <2>1. c[n] \in Block
    BY DEF ChainOK
  <2> QED BY <2>1 DEF Block
<1>3. c[n].log.type \in {"BetPlaced", "MarketLocked"}
  BY <1>2, NoLogIsNone DEF IndexerAssumption
<1>4. Occurs(SubSeq(c, 1, n - 1), "MarketCreated", c[n].log.marketId)
  BY <1>1, <1>3 DEF CanFollow
<1>5. /\ DOMAIN SubSeq(c, 1, n - 1) = 1 .. n - 1
      /\ \A k \in 1 .. n - 1 : SubSeq(c, 1, n - 1)[k] = c[k]
  BY DEF ChainOK
<1> QED BY <1>4, <1>5 DEF Occurs

\* What a new block, or a reorganization, does to the confirmed ones.
Keeps(c, d) ==
  /\ Settled(c) \subseteq Settled(d)
  /\ \A n \in Settled(c) : d[n] = c[n]

LEMMA MineChain ==
  ASSUME IndexerAssumption, ChainOK(blocks), reorgs \in Nat, Mine
  PROVE  ChainOK(blocks') /\ Keeps(blocks, blocks')
<1>1. PICK log \in Logs \cup {NoLog} :
        /\ CanFollow(blocks, log)
        /\ blocks' = Append(blocks, [fork |-> reorgs, log |-> log])
  BY DEF Mine, Grown
<1> DEFINE b == [fork |-> reorgs, log |-> log]
<1>2. b \in Block
  BY DEF Block
<1>3. blocks \in Seq(Block) /\ Len(blocks) \in Nat /\ Len(blocks) < MaxBlocks
  BY DEF ChainOK, Mine
<1>4. /\ blocks' \in Seq(Block) /\ Len(blocks') = Len(blocks) + 1
      /\ \A n \in 1 .. Len(blocks) : blocks'[n] = blocks[n]
      /\ blocks'[Len(blocks) + 1].log = log
  BY <1>1, <1>2, <1>3
<1>5. Keeps(blocks, blocks')
  <2>1. Confirmations \in Nat
    BY DEF IndexerAssumption
  <2> QED BY <1>3, <1>4, <2>1 DEF Keeps, Settled
<1>6. ASSUME NEW n \in 1 .. Len(blocks')
      PROVE  CanFollow(SubSeq(blocks', 1, n - 1), blocks'[n].log)
  <2>1. SubSeq(blocks', 1, n - 1) = SubSeq(blocks, 1, n - 1)
    BY <1>3, <1>4, SamePrefix
  <2>2. CASE n \in 1 .. Len(blocks)
    BY <1>4, <2>1, <2>2 DEF ChainOK, WellFormed
  <2>3. CASE n = Len(blocks) + 1
    <3>1. SubSeq(blocks, 1, n - 1) = blocks
      BY <1>3, <2>3
    <3> QED BY <1>1, <1>4, <2>1, <2>3, <3>1
  <2> QED BY <1>3, <1>4, <2>2, <2>3
<1>7. Len(blocks') <= MaxBlocks
  <2>1. MaxBlocks \in Nat
    BY DEF IndexerAssumption
  <2> QED BY <1>3, <1>4, <2>1
<1> QED BY <1>4, <1>5, <1>6, <1>7 DEF ChainOK, WellFormed

LEMMA ReorgChain ==
  ASSUME IndexerAssumption, ChainOK(blocks), reorgs \in Nat, deep \in BOOLEAN,
         Reorg
  PROVE  /\ ChainOK(blocks') /\ Settled(blocks) \subseteq Settled(blocks')
         /\ ~deep' => ~deep /\ Keeps(blocks, blocks')
<1>1. PICK d \in 1 .. ReorgDepth,
           logs \in [1 .. ReorgDepth -> Logs \cup {NoLog}] :
        LET kept == SubSeq(blocks, 1, Len(blocks) - d)
            new == [i \in 1 .. d |-> [fork |-> reorgs + 1, log |-> logs[i]]]
        IN  /\ d <= Len(blocks)
            /\ \A i \in 1 .. d :
                 CanFollow(kept \o SubSeq(new, 1, i - 1), logs[i])
            /\ blocks' = kept \o new
            /\ deep' = (deep \/ d > Confirmations)
  BY DEF Reorg
<1> DEFINE l == Len(blocks) - d
           kept == SubSeq(blocks, 1, l)
           new == [i \in 1 .. d |-> [fork |-> reorgs + 1, log |-> logs[i]]]
<1>2. /\ d <= Len(blocks)
      /\ \A i \in 1 .. d : CanFollow(kept \o SubSeq(new, 1, i - 1), logs[i])
      /\ blocks' = kept \o new
      /\ deep' = (deep \/ d > Confirmations)
  BY <1>1
<1>3. /\ blocks \in Seq(Block) /\ Len(blocks) \in Nat /\ d \in Nat /\ l \in Nat
      /\ l <= Len(blocks) /\ Confirmations \in Nat /\ MaxBlocks \in Nat
      /\ Len(blocks) <= MaxBlocks /\ ReorgDepth \in Nat
  BY <1>2 DEF ChainOK, IndexerAssumption
<1>4. /\ kept \in Seq(Block) /\ Len(kept) = l
      /\ \A n \in 1 .. l : kept[n] = blocks[n]
  BY <1>3
<1>5. \A i \in 1 .. d : new[i] \in Block /\ new[i].log = logs[i]
  <2>1. \A i \in 1 .. d : i \in 1 .. ReorgDepth
    BY <1>3
  <2> QED BY <2>1 DEF Block
<1>6. new \in Seq(Block) /\ Len(new) = d
  BY <1>3, <1>5
<1> HIDE DEF kept, new
<1>7. /\ blocks' \in Seq(Block) /\ Len(blocks') = l + d
      /\ \A n \in 1 .. l : blocks'[n] = blocks[n]
      /\ \A i \in 1 .. d : blocks'[l + i] = new[i]
  <2>1. IsJoined(Block, kept, new, blocks')
    BY <1>2, <1>4, <1>6, Joined
  <2> QED BY <1>4, <1>6, <2>1 DEF IsJoined
<1>8. Len(blocks') = Len(blocks)
  BY <1>3, <1>7
<1>9. Settled(blocks') = Settled(blocks)
  BY <1>8 DEF Settled
<1>10. ~deep' => ~deep /\ d <= Confirmations
  <2>1. deep => deep'
    BY <1>2, Zenon
  <2>2. d > Confirmations => deep'
    BY <1>2, Zenon
  <2>3. ~(d > Confirmations) => d <= Confirmations
    BY <1>3
  <2> QED BY <2>1, <2>2, <2>3
<1>11. d <= Confirmations => Keeps(blocks, blocks')
  BY <1>3, <1>7, <1>9 DEF Keeps, Settled
<1>12. ASSUME NEW n \in 1 .. Len(blocks')
       PROVE  CanFollow(SubSeq(blocks', 1, n - 1), blocks'[n].log)
  <2>1. CASE n \in 1 .. l
    <3>1. SubSeq(blocks', 1, n - 1) = SubSeq(blocks, 1, n - 1)
      BY <1>3, <1>7, <1>8, <2>1, SamePrefix
    <3>2. n \in 1 .. Len(blocks) /\ blocks'[n] = blocks[n]
      BY <1>3, <1>7, <2>1
    <3>3. CanFollow(SubSeq(blocks, 1, n - 1), blocks[n].log)
      BY <3>2 DEF ChainOK, WellFormed
    <3> QED BY <3>1, <3>2, <3>3
  <2>2. CASE n \in l + 1 .. l + d
    <3> DEFINE i == n - l
               tail == SubSeq(new, 1, i - 1)
    <3>1. i \in 1 .. d /\ n = l + i
      BY <1>3, <2>2
    <3> HIDE DEF i
    <3>2. /\ tail \in Seq(Block) /\ Len(tail) = i - 1
          /\ \A k \in 1 .. i - 1 : tail[k] = new[k]
      BY <1>6, <3>1
    <3> HIDE DEF tail
    <3>3. SubSeq(blocks', 1, n - 1) = kept \o tail
      <4> DEFINE a == SubSeq(blocks', 1, n - 1)
                 b == kept \o tail
      <4>1. /\ a \in Seq(Block) /\ Len(a) = n - 1
            /\ \A k \in 1 .. n - 1 : a[k] = blocks'[k]
        BY <1>3, <1>7, <3>1
      <4>2. /\ b \in Seq(Block) /\ Len(b) = n - 1
            /\ \A k \in 1 .. l : b[k] = kept[k]
            /\ \A k \in 1 .. i - 1 : b[l + k] = tail[k]
        <5>1. l + (i - 1) = n - 1
          BY <1>3, <3>1
        <5>2. IsJoined(Block, kept, tail, b)
          BY <1>4, <3>2, Joined
        <5> QED BY <1>4, <3>2, <5>1, <5>2 DEF IsJoined
      <4> HIDE DEF a, b
      <4>3. ASSUME NEW k \in 1 .. n - 1 PROVE a[k] = b[k]
        <5>1. CASE k \in 1 .. l
          BY <1>4, <1>7, <4>1, <4>2, <5>1
        <5>2. CASE k > l
          <6>1. k - l \in 1 .. i - 1 /\ k - l \in 1 .. d /\ l + (k - l) = k
            BY <1>3, <3>1, <4>3, <5>2
          <6> QED BY <1>7, <3>2, <4>1, <4>2, <6>1
        <5> QED BY <1>3, <5>1, <5>2
      <4>4. a = b
        BY <1>3, <4>1, <4>2, <4>3
      <4> QED BY <4>4 DEF a, b
    <3>4. blocks'[n].log = logs[i]
      BY <1>5, <1>7, <3>1
    <3> QED BY <1>2, <3>1, <3>3, <3>4 DEF tail
  <2> QED BY <1>3, <1>7, <2>1, <2>2
<1> QED BY <1>3, <1>7, <1>8, <1>9, <1>10, <1>11, <1>12 DEF ChainOK, WellFormed

\* What is stored stays right while the chain keeps what it confirmed.
LEMMA StoredKept ==
  ASSUME NEW c, NEW d, Settled(c) \subseteq Settled(d), NEW s, Stored(c, s)
  PROVE  Stored(d, s)
BY DEF Stored

LEMMA SoundKept ==
  ASSUME IndexerAssumption, NEW c, NEW d, Keeps(c, d), Len(c) \in Nat, NEW s,
         Stored(c, s), Sound(c, s)
  PROVE  Sound(d, s)
<1>1. \A e \in Events(s.journal) : e.id \in Settled(c)
  BY DEF Stored, Ids
<1>2. AgreesWith(d, s)
  BY <1>1 DEF Sound, AgreesWith, Stored, Keeps
<1>3. Complete(d, s)
  <2>1. 1 .. s.cursor \subseteq Settled(c)
    BY DEF Stored, Settled, IndexerAssumption
  <2> QED BY <2>1 DEF Sound, Complete, Keeps
<1>4. Counted(d, R!Replay(s.journal))
  <2> DEFINE v == R!Replay(s.journal)
  <2>1. v.processedEventIds \subseteq Settled(c)
    BY ReplayTyped DEF Stored
  <2> HIDE DEF v
  <2>2. \A n \in v.processedEventIds : d[n] = c[n]
    BY <2>1 DEF Keeps
  <2>3. \A m : BetsAmong(d, m, v.processedEventIds) =
                 BetsAmong(c, m, v.processedEventIds)
    BY <2>2 DEF BetsAmong
  <2>4. Counted(c, v)
    BY DEF Sound, v
  <2>5. Counted(d, v)
    BY <2>2, <2>3, <2>4 DEF Counted
  <2> QED BY <2>5 DEF v
<1> QED BY <1>2, <1>3, <1>4 DEF Sound

LEMMA PollKept ==
  ASSUME NEW c, NEW d, Settled(c) \subseteq Settled(d), NEW b, NEW poll,
         PollOK(c, b, poll)
  PROVE  PollOK(d, b, poll)
BY StoredKept DEF PollOK, LogsOK

LEMMA PollSoundKept ==
  ASSUME IndexerAssumption, NEW c, NEW d, Keeps(c, d), Len(c) \in Nat, NEW b,
         NEW poll, PollOK(c, b, poll), NEW j, PollSound(c, j, poll)
  PROVE  PollSound(d, j, poll)
<1>1. ASSUME poll.pc \in {"fetched", "decode"}
      PROVE  LogsSound(d, j, poll.to, poll.logs)
  <2>1. /\ poll.to \in Settled(c)
        /\ \A i \in 1 .. Len(poll.logs) : poll.logs[i].number \in Settled(c)
    BY <1>1 DEF PollOK, LogsOK
  <2>2. 1 .. poll.to \subseteq Settled(c)
    BY <2>1 DEF Settled, IndexerAssumption
  <2>3. /\ \A i \in 1 .. Len(poll.logs) : FoundIn(c, poll.logs[i])
        /\ \A n \in 1 .. poll.to : ~LeftOut(c, n, j, poll.logs)
    BY <1>1 DEF PollSound, LogsSound
  <2>4. \A i \in 1 .. Len(poll.logs) : FoundIn(d, poll.logs[i])
    BY <2>1, <2>3 DEF FoundIn, Keeps
  <2>5. \A n \in 1 .. poll.to : ~LeftOut(d, n, j, poll.logs)
    BY <2>2, <2>3 DEF LeftOut, Keeps
  <2> QED BY <2>4, <2>5 DEF LogsSound
<1>2. poll.pc = "write" => Sound(d, poll.saved)
  BY SoundKept DEF PollOK, PollSound
<1> QED BY <1>1, <1>2 DEF PollSound

-----------------------------------------------------------------------------
\* The state: read models, and the steps of the loop over the logs.

LEMMA ModelsOne ==
  ASSUME NEW v, ModelOK(v)
  PROVE  ModelsOK(<<v>>)
BY DEF ModelsOK

LEMMA ModelsAdded ==
  ASSUME NEW models, ModelsOK(models), NEW v, ModelOK(v), NEW new,
         new = Append(models, v)
  PROVE  /\ ModelsOK(new) /\ new[Len(new)] = v
         /\ Len(new) = Len(models) + 1 /\ Len(models) \in Nat
<1> DEFINE S == {models[i] : i \in DOMAIN models} \cup {v}
<1>1. models \in Seq(S) /\ v \in S
  BY DEF ModelsOK
<1> HIDE DEF S
<1>2. /\ new \in Seq(S) /\ Len(new) = Len(models) + 1 /\ Len(models) \in Nat
      /\ \A i \in 1 .. Len(models) : new[i] = models[i]
      /\ new[Len(models) + 1] = v
  BY <1>1
<1>3. \A i \in 1 .. Len(new) : ModelOK(new[i])
  BY <1>2 DEF ModelsOK
<1>4. new \in Seq({new[i] : i \in DOMAIN new}) /\ new # << >>
  BY <1>2
<1> QED BY <1>2, <1>3, <1>4 DEF ModelsOK

LEMMA IsSequence ==
  ASSUME NEW S, NEW n, n \in Nat, NEW f, f \in [1 .. n -> S]
  PROVE  f \in Seq(S)
OBVIOUS

LEMMA LengthIs ==
  ASSUME NEW S, NEW f, f \in Seq(S), NEW n, n \in Nat, DOMAIN f = 1 .. n
  PROVE  Len(f) = n
OBVIOUS

LEMMA ModelsSet ==
  ASSUME NEW models, ModelsOK(models), NEW v, ModelOK(v),
         NEW i \in 1 .. Len(models), NEW new, new = [models EXCEPT ![i] = v]
  PROVE  /\ ModelsOK(new) /\ Len(new) = Len(models) /\ Len(models) \in Nat
         /\ new[i] = v /\ \A k \in 1 .. Len(models) \ {i} : new[k] = models[k]
<1>1. /\ Len(models) \in Nat /\ DOMAIN models = 1 .. Len(models)
  BY DEF ModelsOK
<1>2. /\ DOMAIN new = 1 .. Len(models) /\ new[i] = v
      /\ \A k \in 1 .. Len(models) \ {i} : new[k] = models[k]
  BY <1>1
<1>3. new \in Seq({new[k] : k \in DOMAIN new}) /\ Len(new) = Len(models)
  <2>1. new = [k \in 1 .. Len(models) |-> new[k]]
    BY <1>1
  <2> DEFINE S == {new[k] : k \in DOMAIN new}
  <2>2. \A k \in 1 .. Len(models) : new[k] \in S
    BY <1>2
  <2> HIDE DEF S
  <2>3. new \in Seq(S) /\ Len(new) = Len(models)
    <3>1. new \in [1 .. Len(models) -> S]
      BY <2>1, <2>2, Zenon
    <3>2. new \in Seq(S)
      BY <1>1, <3>1, IsSequence, Zenon
    <3> QED BY <1>1, <1>2, <3>2, LengthIs, Zenon
  <2> QED BY <2>3 DEF S
<1>4. \A k \in 1 .. Len(new) : ModelOK(new[k])
  BY <1>2, <1>3 DEF ModelsOK
<1>5. new # << >>
  BY <1>1, <1>3
<1> QED BY <1>1, <1>2, <1>3, <1>4, <1>5 DEF ModelsOK

LEMMA CurrentIs ==
  ASSUME NEW d, ModelsOK(d.models)
  PROVE  /\ Len(d.models) \in Nat /\ Len(d.models) \in 1 .. Len(d.models)
         /\ Current(d) = d.models[Len(d.models)] /\ ModelOK(Current(d))
<1>1. Len(d.models) \in Nat /\ Len(d.models) # 0
  BY DEF ModelsOK
<1> QED BY <1>1 DEF ModelsOK, Current

LEMMA SameItself == ASSUME NEW v PROVE Same(v, v)
BY DEF Same, SameFacts

LEMMA SameBoth ==
  ASSUME NEW u, NEW v, NEW w, Same(u, v), Same(v, w)
  PROVE  Same(u, w)
BY DEF Same, SameFacts

\* Only the parts of the state that are stored matter to what is stored.
SameStored(s, t) ==
  /\ {"journal", "checkpoints", "cursor"} \subseteq DOMAIN t
  /\ t.journal = s.journal /\ t.checkpoints = s.checkpoints
  /\ t.cursor = s.cursor

LEMMA StoredSame ==
  ASSUME NEW c, NEW s, NEW t, SameStored(s, t)
  PROVE  /\ Stored(c, s) => Stored(c, t)
         /\ Sound(c, s) => Sound(c, t)
BY DEF SameStored, Stored, Sound, AgreesWith, Complete

\* What a process loads from a file that is right is right.
LEMMA LoadedOK ==
  ASSUME NEW c, file # Torn => Stored(c, file), NEW d, d = Loaded
  PROVE  /\ StateOK(c, d)
         /\ (file # Torn => Sound(c, file)) => Sound(c, d)
<1>1. CASE file = Torn
  <2> DEFINE v == R!createInitialProjectionState
  <2>1. /\ DOMAIN d = {"models", "journal", "checkpoints", "cursor"}
        /\ d.models = <<v>> /\ d.journal = << >> /\ d.checkpoints = << >>
        /\ d.cursor = 0
    BY <1>1 DEF Loaded, Fresh
  <2>2. R!Replay(d.journal) = v
    BY <2>1, ReplayEmpty
  <2>3. << >> \in Seq(Event) /\ Ids(<< >>) = {} /\ Events(<< >>) = {}
    BY DEF Ids, Events
  <2>4. /\ v.processedEventIds = {} /\ DOMAIN v.markets = {}
    BY DEF R!createInitialProjectionState
  <2>5. ModelOK(v)
    BY <2>2, <2>1, <2>3, ReplayTyped
  <2>6. Stored(c, d)
    BY <2>1, <2>3 DEF Stored
  <2> HIDE DEF v
  <2>7. Current(d) = v
    BY <2>1 DEF Current
  <2>8. StateOK(c, d)
    BY <2>1, <2>2, <2>5, <2>6, <2>7, ModelsOne, SameItself DEF StateOK
  <2>9. Sound(c, d)
    <3>1. Counted(c, v)
      BY <2>4 DEF Counted
    <3>2. AgreesWith(c, d)
      BY <2>1, <2>3 DEF AgreesWith
    <3>3. Complete(c, d)
      BY <2>1 DEF Complete
    <3> QED BY <2>2, <3>1, <3>2, <3>3 DEF Sound
  <2> QED BY <2>8, <2>9
<1>2. CASE file # Torn
  <2> DEFINE v == R!Replay(file.journal)
  <2>1. /\ DOMAIN d = {"models", "journal", "checkpoints", "cursor"}
        /\ d.models = <<v>> /\ d.journal = file.journal
        /\ d.checkpoints = file.checkpoints /\ d.cursor = file.cursor
    BY <1>2 DEF Loaded
  <2>2. ModelOK(v)
    BY <1>2, ReplayTyped DEF Stored
  <2> HIDE DEF v
  <2>3. Current(d) = v
    BY <2>1 DEF Current
  <2>4. SameStored(file, d)
    BY <2>1 DEF SameStored
  <2>5. StateOK(c, d)
    BY <1>2, <2>1, <2>2, <2>3, <2>4, StoredSame, ModelsOne, SameItself
       DEF StateOK, v
  <2> QED BY <1>2, <2>4, <2>5, StoredSame
<1> QED BY <1>1, <1>2

LEMMA CutIs ==
  ASSUME NEW j \in Seq(Event), NEW number
  PROVE  /\ Cut(j, number) \in Seq(Event)
         /\ Events(Cut(j, number)) = {e \in Events(j) : e.id < number}
BY PickedIs DEF Cut

LEMMA RolledBackOK ==
  ASSUME IndexerAssumption, NEW c, NEW d, StateOK(c, d),
         NEW number \in Settled(c), NEW b, b = RolledBack(d, number)
  PROVE  StateOK(c, b) /\ Len(d.models) <= Len(b.models)
<1> DEFINE j == Cut(d.journal, number)
           v == R!Replay(j)
<1>1. /\ DOMAIN b = {"models", "journal", "checkpoints", "cursor"}
      /\ b.models = Append(d.models, v) /\ b.journal = j
      /\ DOMAIN b.checkpoints = {x \in DOMAIN d.checkpoints : x < number}
      /\ b.cursor = number - 1
  BY DEF RolledBack
<1>2. j \in Seq(Event) /\ Events(j) \subseteq Events(d.journal)
  BY CutIs DEF StateOK, Stored
<1>3. ModelOK(v)
  BY <1>2, ReplayTyped
<1> HIDE DEF v
<1>4. /\ ModelsOK(b.models) /\ b.models[Len(b.models)] = v
      /\ Len(d.models) <= Len(b.models)
  <2>1. ModelsOK(d.models)
    BY DEF StateOK
  <2>2. /\ ModelsOK(b.models) /\ b.models[Len(b.models)] = v
        /\ Len(b.models) = Len(d.models) + 1 /\ Len(d.models) \in Nat
    BY <1>1, <1>3, <2>1, ModelsAdded
  <2> QED BY <2>2
<1>5. number - 1 \in Settled(c) \cup {0}
  BY DEF Settled, IndexerAssumption
<1>6. Stored(c, b)
  <2>1. Ids(j) \subseteq Ids(d.journal)
    BY <1>2 DEF Ids
  <2>2. Ids(d.journal) \subseteq Settled(c) /\ DOMAIN d.checkpoints \subseteq Settled(c)
    BY DEF StateOK, Stored
  <2> HIDE DEF j
  <2> QED BY <1>1, <1>2, <1>5, <2>1, <2>2 DEF Stored
<1>7. Same(Current(b), R!Replay(b.journal))
  BY <1>1, <1>4, SameItself DEF Current, v
<1> QED BY <1>1, <1>4, <1>6, <1>7 DEF StateOK

\* A block is observed: the state stays right, and while the chain keeps what
\* it confirmed nothing is rolled back.
LEMMA ObservedOK ==
  ASSUME IndexerAssumption, NEW c, NEW d, StateOK(c, d), NEW log \in FoundLog,
         log.number \in Settled(c), NEW b, b = Observed(d, log)
  PROVE  StateOK(c, b) /\ Len(d.models) <= Len(b.models)
<1>1. PICK base : base = IF shouldReorg(d, log.number, log.fork)
                           THEN RolledBack(d, log.number) ELSE d
  OBVIOUS
<1>2. StateOK(c, base) /\ Len(d.models) <= Len(base.models)
  <2>1. CASE shouldReorg(d, log.number, log.fork)
    BY <1>1, <2>1, RolledBackOK
  <2>2. CASE ~shouldReorg(d, log.number, log.fork)
    <3>1. base = d /\ Len(d.models) \in Nat
      BY <1>1, <2>2, CurrentIs DEF StateOK
    <3> QED BY <3>1
  <2> QED BY <2>1, <2>2
<1>3. PICK points : points = R!Put(base.checkpoints, log.number, log.fork)
  OBVIOUS
<1>4. b = [base EXCEPT !.checkpoints = points]
  BY <1>1, <1>3 DEF Observed
<1>5. DOMAIN points = DOMAIN base.checkpoints \cup {log.number}
  BY <1>3 DEF R!Put
<1>6. /\ DOMAIN b = DOMAIN base /\ b.models = base.models
      /\ b.journal = base.journal /\ b.cursor = base.cursor
      /\ b.checkpoints = points
  BY <1>2, <1>4 DEF StateOK, Stored
<1>7. Stored(c, b)
  BY <1>2, <1>5, <1>6 DEF StateOK, Stored
<1>8. StateOK(c, b)
  BY <1>2, <1>6, <1>7 DEF StateOK, Current
<1> QED BY <1>2, <1>6, <1>8

LEMMA ObservedSound ==
  ASSUME NEW c, NEW d, Stored(c, d), Sound(c, d), NEW log, FoundIn(c, log),
         NEW b, b = Observed(d, log)
  PROVE  Sound(c, b) /\ b.journal = d.journal
<1>1. log.fork = c[log.number].fork
  BY DEF FoundIn
<1>2. ~shouldReorg(d, log.number, log.fork)
  BY <1>1 DEF shouldReorg, Sound, AgreesWith
<1>3. PICK points : points = R!Put(d.checkpoints, log.number, log.fork)
  OBVIOUS
<1>4. b = [d EXCEPT !.checkpoints = points]
  BY <1>2, <1>3 DEF Observed
<1>5. /\ b.journal = d.journal /\ b.cursor = d.cursor
      /\ b.checkpoints = points
  BY <1>4 DEF Stored
<1>6. \A n \in DOMAIN points : points[n] = c[n].fork
  BY <1>1, <1>3 DEF R!Put, Sound, AgreesWith
<1> QED BY <1>5, <1>6 DEF Sound, AgreesWith, Complete

\* One event more, which the read models before and after it tell the same.
LEMMA AppendIs ==
  ASSUME NEW j, j \in Seq(Event), NEW e, e \in Event
  PROVE  /\ Append(j, e) \in Seq(Event)
         /\ Events(Append(j, e)) = Events(j) \cup {e}
         /\ Ids(Append(j, e)) = Ids(j) \cup {e.id}
<1>1. PICK k : k = Append(j, e)
  OBVIOUS
<1>2. /\ k \in Seq(Event) /\ Len(k) = Len(j) + 1 /\ Len(j) \in Nat
      /\ \A i \in 1 .. Len(j) : k[i] = j[i]
      /\ k[Len(j) + 1] = e
  BY <1>1
<1>3. DOMAIN k = DOMAIN j \cup {Len(j) + 1} /\ DOMAIN j = 1 .. Len(j)
  BY <1>2
<1>4. Events(k) = Events(j) \cup {e}
  BY <1>2, <1>3 DEF Events
<1>5. Ids(k) = Ids(j) \cup {e.id}
  BY <1>4 DEF Ids
<1> QED BY <1>1, <1>2, <1>4, <1>5

LEMMA PushedIs ==
  ASSUME NEW d, "models" \in DOMAIN d, ModelsOK(d.models),
         {"journal", "checkpoints", "cursor"} \subseteq DOMAIN d, NEW e,
         ModelOK(R!projectEvent(Current(d), e)), NEW b, b = Pushed(d, e)
  PROVE  /\ DOMAIN b = DOMAIN d /\ ModelsOK(b.models)
         /\ Len(b.models) = Len(d.models)
         /\ Current(b) = R!projectEvent(Current(d), e)
         /\ b.journal = Append(d.journal, e)
         /\ b.checkpoints = d.checkpoints /\ b.cursor = d.cursor
<1> DEFINE v == R!projectEvent(Current(d), e)
           l == Len(d.models)
<1>1. PICK x : x = [d EXCEPT !.journal = Append(@, e)]
  OBVIOUS
<1>2. /\ DOMAIN x = DOMAIN d /\ x.models = d.models
      /\ x.journal = Append(d.journal, e)
      /\ x.checkpoints = d.checkpoints /\ x.cursor = d.cursor
  BY <1>1
<1>3. b = [x EXCEPT !.models[Len(x.models)] = v]
  BY <1>1 DEF Pushed, WithCurrent
<1> HIDE DEF v
<1>4. PICK models : models = [d.models EXCEPT ![l] = v]
  OBVIOUS
<1>5. /\ DOMAIN b = DOMAIN d /\ b.models = models
      /\ b.journal = Append(d.journal, e)
      /\ b.checkpoints = d.checkpoints /\ b.cursor = d.cursor
  BY <1>2, <1>3, <1>4
<1>6. l \in 1 .. l
  BY CurrentIs
<1>7. ModelsOK(models) /\ Len(models) = l /\ models[l] = v
  BY <1>4, <1>6, ModelsSet DEF v
<1>8. Current(b) = v
  BY <1>5, <1>7 DEF Current
<1> QED BY <1>5, <1>7, <1>8 DEF v

LEMMA PushedOK ==
  ASSUME NEW c, NEW d, StateOK(c, d), NEW e \in Event, e.id \in Settled(c),
         NEW b, b = Pushed(d, e)
  PROVE  StateOK(c, b) /\ Len(d.models) <= Len(b.models)
<1>1. /\ "models" \in DOMAIN d /\ ModelsOK(d.models) /\ Stored(c, d)
      /\ {"journal", "checkpoints", "cursor"} \subseteq DOMAIN d
      /\ d.journal \in Seq(Event) /\ Same(Current(d), R!Replay(d.journal))
  BY DEF StateOK, Stored
<1>2. ModelOK(Current(d)) /\ Len(d.models) \in Nat
  BY <1>1, CurrentIs
<1>3. ModelOK(R!projectEvent(Current(d), e))
  BY <1>2, ProjectedIs
<1>4. /\ DOMAIN b = DOMAIN d /\ ModelsOK(b.models)
      /\ Len(b.models) = Len(d.models)
      /\ Current(b) = R!projectEvent(Current(d), e)
      /\ b.journal = Append(d.journal, e)
      /\ b.checkpoints = d.checkpoints /\ b.cursor = d.cursor
  BY <1>1, <1>3, PushedIs
<1>5. /\ b.journal \in Seq(Event)
      /\ Ids(b.journal) = Ids(d.journal) \cup {e.id}
  BY <1>1, <1>4, AppendIs
<1>6. Stored(c, b)
  BY <1>1, <1>4, <1>5 DEF Stored
<1>7. R!Replay(b.journal) = R!projectEvent(R!Replay(d.journal), e)
  BY <1>1, <1>4, ReplayAppend
<1>8. Same(Current(b), R!Replay(b.journal))
  <2>1. ModelOK(R!Replay(d.journal))
    BY <1>1, ReplayTyped
  <2> QED BY <1>1, <1>2, <1>4, <1>7, <2>1, ProjectedSame
<1> QED BY <1>1, <1>2, <1>4, <1>6, <1>8 DEF StateOK

\* The pools stay the bets when the events of all the logs before this one are
\* in the journal.
Follows(c, e, ids) ==
  /\ c[e.id].log = [type |-> e.type, marketId |-> e.marketId]
  /\ \A n \in 1 .. e.id - 1 : c[n].log = NoLog \/ n \in ids

LEMMA CountedPushed ==
  ASSUME IndexerAssumption, NEW c, ChainOK(c), NEW v, ModelOK(v),
         Counted(c, v), v.processedEventIds \subseteq Settled(c),
         NEW e \in Event, e.id \in Settled(c),
         Follows(c, e, v.processedEventIds),
         NEW w, w = R!projectEvent(v, e)
  PROVE  Counted(c, w)
<1> DEFINE m == e.marketId
           n == e.id
           ids == v.processedEventIds
           Created(k) == [type |-> "MarketCreated", marketId |-> k]
           Bet(k) == [type |-> "BetPlaced", marketId |-> k]
<1>1. CASE n \in ids
  <2>1. w = v
    BY <1>1, ProjectedIs
  <2> QED BY <2>1
<1>2. CASE n \notin ids
  <2>1. Told(v, e, w)
    BY <1>2, ProjectedIs
  <2>2. /\ n \in 1 .. Len(c) /\ ids \subseteq 1 .. Len(c) /\ Len(c) \in Nat
        /\ c[n].log = [type |-> e.type, marketId |-> m]
        /\ c[n].log.type = e.type /\ c[n].log.marketId = m
        /\ \A k \in 1 .. n - 1 : c[k].log = NoLog \/ k \in ids
    BY DEF Settled, ChainOK, Follows
  <2>3. c[n].log # NoLog
    <3>1. DOMAIN c[n].log = {"type", "marketId"} /\ DOMAIN NoLog = {"type"}
      BY <2>2 DEF NoLog
    <3> QED BY <3>1
  <2>4. IsFiniteSet(ids)
    <3>1. IsFiniteSet(1 .. Len(c))
      BY <2>2, FS_Interval
    <3> QED BY <2>2, <3>1, FS_Subset
  <2>5. w.processedEventIds = ids \cup {n}
    BY <2>1 DEF Told
  <2>6. /\ \A x \in DOMAIN v.markets :
             v.markets[x].totalPool = Cardinality(BetsAmong(c, x, ids))
        /\ \A k \in ids : c[k].log # NoLog /\ c[k].log.marketId \in DOMAIN v.markets
        /\ \A x \in DOMAIN v.markets : \E k \in ids : c[k].log = Created(x)
    BY DEF Counted
  <2>7. CASE e.type = "MarketCreated"
    <3>1. DOMAIN w.markets = DOMAIN v.markets \cup {m}
      BY <2>1, <2>7 DEF Told
    <3>2. c[n].log = Created(m)
      BY <2>2, <2>7
    <3>3. m \notin DOMAIN v.markets
      <4>1. SUFFICES ASSUME m \in DOMAIN v.markets PROVE FALSE
        OBVIOUS
      <4>2. PICK k \in ids : c[k].log = Created(m)
        BY <2>6, <4>1
      <4>3. k = n
        BY <2>2, <3>2, <4>2, CreatedOnce
      <4> QED BY <1>2, <4>2, <4>3
    <3>4. \A x : BetsAmong(c, x, ids \cup {n}) = BetsAmong(c, x, ids)
      <4>1. \A x : c[n].log # Bet(x)
        BY <3>2
      <4> QED BY <4>1 DEF BetsAmong
    <3>5. BetsAmong(c, m, ids) = {}
      BY <2>6, <3>3 DEF BetsAmong
    <3>6. ASSUME NEW x \in DOMAIN w.markets
          PROVE  /\ w.markets[x].totalPool =
                      Cardinality(BetsAmong(c, x, w.processedEventIds))
                 /\ \E k \in w.processedEventIds : c[k].log = Created(x)
      <4>1. CASE x = m
        <5>1. EntryTold(v, e, w.markets[x])
          BY <2>1, <4>1 DEF Told
        <5>2. w.markets[x].totalPool = 0
          BY <2>7, <5>1 DEF EntryTold
        <5> QED BY <2>5, <3>2, <3>4, <3>5, <4>1, <5>2, FS_EmptySet
      <4>2. CASE x # m
        <5>1. x \in DOMAIN v.markets /\ w.markets[x] = v.markets[x]
          BY <2>1, <3>1, <3>6, <4>2 DEF Told
        <5>2. \E k \in w.processedEventIds : c[k].log = Created(x)
          BY <2>5, <2>6, <5>1
        <5>3. BetsAmong(c, x, w.processedEventIds) = BetsAmong(c, x, ids)
          BY <2>5, <3>4, Zenon
        <5>4. v.markets[x].totalPool = Cardinality(BetsAmong(c, x, ids))
          BY <2>6, <5>1, Zenon
        <5>5. w.markets[x].totalPool =
                Cardinality(BetsAmong(c, x, w.processedEventIds))
          BY <5>1, <5>3, <5>4, Zenon
        <5> QED BY <5>2, <5>5, Zenon
      <4> QED BY <4>1, <4>2
    <3>7. ASSUME NEW k \in w.processedEventIds
          PROVE  c[k].log # NoLog /\ c[k].log.marketId \in DOMAIN w.markets
      BY <2>2, <2>3, <2>5, <2>6, <3>1
    <3> QED BY <3>6, <3>7 DEF Counted
  <2>8. CASE e.type # "MarketCreated"
    <3>1. DOMAIN w.markets = DOMAIN v.markets
      BY <2>1, <2>8 DEF Told
    <3>2. m \in DOMAIN v.markets
      <4>1. PICK k \in 1 .. n - 1 : c[k].log = Created(m)
        <5>1. c[n].log.type # "MarketCreated"
          BY <2>2, <2>8
        <5>2. \E k \in 1 .. n - 1 : c[k].log = Created(c[n].log.marketId)
          BY <2>2, <2>3, <5>1, CreatedBefore
        <5> QED BY <2>2, <5>2
      <4>2. c[k].log # NoLog /\ c[k].log.marketId = m
        <5>1. DOMAIN c[k].log = {"type", "marketId"} /\ DOMAIN NoLog = {"type"}
          BY <4>1 DEF NoLog
        <5> QED BY <4>1, <5>1
      <4>3. k \in ids
        BY <2>2, <4>1, <4>2
      <4> QED BY <2>6, <4>2, <4>3
    <3>3. MarketOK(v.markets[m]) /\ EntryTold(v, e, w.markets[m])
      BY <2>1, <3>1, <3>2 DEF Told, ModelOK
    <3>4. ASSUME NEW x \in DOMAIN w.markets
          PROVE  /\ w.markets[x].totalPool =
                      Cardinality(BetsAmong(c, x, w.processedEventIds))
                 /\ \E k \in w.processedEventIds : c[k].log = Created(x)
      <4>1. \E k \in w.processedEventIds : c[k].log = Created(x)
        BY <2>5, <2>6, <3>1
      <4>2. CASE c[n].log = Bet(x)
        <5>1. x = m /\ e.type = "BetPlaced"
          BY <2>2, <4>2
        <5>2. w.markets[x].totalPool = v.markets[x].totalPool + 1
          BY <3>3, <5>1, EventFields DEF EntryTold
        <5>3. /\ BetsAmong(c, x, ids \cup {n}) = BetsAmong(c, x, ids) \cup {n}
              /\ n \notin BetsAmong(c, x, ids)
              /\ BetsAmong(c, x, ids) \subseteq ids
          BY <1>2, <4>2 DEF BetsAmong
        <5>4. IsFiniteSet(BetsAmong(c, x, ids))
          BY <2>4, <5>3, FS_Subset
        <5>5. Cardinality(BetsAmong(c, x, ids) \cup {n}) =
                Cardinality(BetsAmong(c, x, ids)) + 1
          BY <5>3, <5>4, FS_AddElement
        <5> QED BY <2>5, <2>6, <3>1, <4>1, <5>2, <5>3, <5>5
      <4>3. CASE c[n].log # Bet(x)
        <5>1. BetsAmong(c, x, ids \cup {n}) = BetsAmong(c, x, ids)
          BY <4>3 DEF BetsAmong
        <5>2. w.markets[x].totalPool = v.markets[x].totalPool
          <6>1. CASE x = m
            <7>1. e.type = "MarketLocked"
              BY <2>2, <2>8, <4>3, <6>1, EventFields
            <7> QED BY <3>3, <6>1, <7>1 DEF EntryTold, SameFacts
          <6>2. CASE x # m
            BY <2>1, <3>4, <6>2 DEF Told
          <6> QED BY <6>1, <6>2
        <5> QED BY <2>5, <2>6, <3>1, <4>1, <5>1, <5>2
      <4> QED BY <4>2, <4>3
    <3>5. ASSUME NEW k \in w.processedEventIds
          PROVE  c[k].log # NoLog /\ c[k].log.marketId \in DOMAIN w.markets
      BY <2>2, <2>3, <2>5, <2>6, <3>1, <3>2
    <3> QED BY <3>4, <3>5 DEF Counted
  <2> QED BY <2>7, <2>8
<1> QED BY <1>1, <1>2

SoundWith(c, d, id, b) ==
  Sound(c, b) /\ Ids(b.journal) = Ids(d.journal) \cup {id}

LEMMA PushedSound ==
  ASSUME IndexerAssumption, NEW c, ChainOK(c), NEW d, StateOK(c, d),
         Sound(c, d), NEW e, e \in Event, e.id \in Settled(c),
         c[e.id].fork = e.fork, c[e.id].log # NoLog,
         Follows(c, e, Ids(d.journal)), NEW b, b = Pushed(d, e)
  PROVE  SoundWith(c, d, e.id, b)
<1>1. /\ "models" \in DOMAIN d /\ ModelsOK(d.models) /\ Stored(c, d)
      /\ {"journal", "checkpoints", "cursor"} \subseteq DOMAIN d
      /\ d.journal \in Seq(Event) /\ Ids(d.journal) \subseteq Settled(c)
  BY DEF StateOK, Stored
<1>2. ModelOK(R!projectEvent(Current(d), e))
  BY <1>1, CurrentIs, ProjectedIs
<1>3. /\ b.journal = Append(d.journal, e)
      /\ b.checkpoints = d.checkpoints /\ b.cursor = d.cursor
  BY <1>1, <1>2, PushedIs
<1>4. /\ Events(b.journal) = Events(d.journal) \cup {e}
      /\ Ids(b.journal) = Ids(d.journal) \cup {e.id}
  BY <1>1, <1>3, AppendIs
<1>5. AgreesWith(c, b)
  <2>1. c[e.id] = [fork |-> e.fork,
                   log |-> [type |-> e.type, marketId |-> e.marketId]]
    <3>1. c[e.id] \in Block
      BY DEF ChainOK, Settled
    <3> QED BY <3>1 DEF Follows, Block
  <2> QED BY <1>3, <1>4, <2>1 DEF Sound, AgreesWith
<1>6. Complete(c, b)
  BY <1>3, <1>4 DEF Sound, Complete
<1>7. Counted(c, R!Replay(b.journal))
  <2> DEFINE v == R!Replay(d.journal)
  <2>1. ModelOK(v) /\ v.processedEventIds = Ids(d.journal)
    BY <1>1, ReplayTyped
  <2>2. R!Replay(b.journal) = R!projectEvent(v, e)
    BY <1>1, <1>3, ReplayAppend
  <2>3. Counted(c, v)
    BY DEF Sound
  <2> HIDE DEF v
  <2>4. v.processedEventIds \subseteq Settled(c)
        /\ Follows(c, e, v.processedEventIds)
    BY <1>1, <2>1
  <2> QED BY <2>1, <2>2, <2>3, <2>4, CountedPushed
<1> QED BY <1>4, <1>5, <1>6, <1>7 DEF Sound, SoundWith

\* The cursor is set, at the end of the loop.
LEMMA CursorOK ==
  ASSUME NEW c, NEW d, StateOK(c, d), NEW to, to \in Settled(c), NEW b,
         b = [d EXCEPT !.cursor = to]
  PROVE  /\ StateOK(c, b) /\ b.models = d.models /\ b.journal = d.journal
         /\ Sound(c, d) /\ (\A n \in 1 .. to : c[n].log = NoLog \/
                                              n \in Ids(d.journal))
              => Sound(c, b)
<1>1. /\ DOMAIN b = DOMAIN d /\ b.models = d.models /\ b.journal = d.journal
      /\ b.checkpoints = d.checkpoints /\ b.cursor = to
  BY DEF StateOK, Stored
<1>2. Stored(c, b)
  BY <1>1 DEF StateOK, Stored
<1>3. StateOK(c, b)
  BY <1>1, <1>2 DEF StateOK, Current
<1>4. ASSUME Sound(c, d),
             \A n \in 1 .. to : c[n].log = NoLog \/ n \in Ids(d.journal)
      PROVE  Sound(c, b)
  BY <1>1, <1>4 DEF Sound, AgreesWith, Complete
<1> QED BY <1>1, <1>3, <1>4

\* The details of a market are applied to one of the read models.
DetailsKept(c, d, b) ==
  /\ StateOK(c, b) /\ Len(b.models) = Len(d.models)
  /\ b.journal = d.journal /\ (Sound(c, d) => Sound(c, b))

LEMMA DetailsOK ==
  ASSUME NEW c, NEW d, StateOK(c, d), NEW i, i \in 1 .. Len(d.models), NEW m,
         NEW state, NEW b,
         b = [d EXCEPT !.models[i] = R!Update(@, "markets", m, Details(state))]
  PROVE  DetailsKept(c, d, b)
<1>1. /\ "models" \in DOMAIN d /\ ModelsOK(d.models) /\ Stored(c, d)
      /\ {"journal", "checkpoints", "cursor"} \subseteq DOMAIN d
      /\ Same(Current(d), R!Replay(d.journal))
  BY DEF StateOK, Stored
<1>2. PICK v : v = R!Update(d.models[i], "markets", m, Details(state))
  OBVIOUS
<1>3. ModelOK(v) /\ Same(v, d.models[i])
  <2>1. ModelOK(d.models[i])
    BY <1>1 DEF ModelsOK
  <2> QED BY <1>2, <2>1, DetailsSame
<1>4. PICK models : models = [d.models EXCEPT ![i] = v]
  OBVIOUS
<1>5. /\ ModelsOK(models) /\ Len(models) = Len(d.models)
      /\ models[i] = v
      /\ \A k \in 1 .. Len(d.models) \ {i} : models[k] = d.models[k]
  BY <1>1, <1>3, <1>4, ModelsSet
<1>6. b = [d EXCEPT !.models = models]
  BY <1>2, <1>4
<1>7. /\ DOMAIN b = DOMAIN d /\ b.models = models /\ b.journal = d.journal
      /\ b.checkpoints = d.checkpoints /\ b.cursor = d.cursor
  BY <1>1, <1>6
<1>8. SameStored(d, b)
  BY <1>1, <1>7 DEF SameStored
<1>9. Same(Current(b), Current(d))
  <2>1. /\ Len(d.models) \in 1 .. Len(d.models)
        /\ Current(b) = models[Len(d.models)]
        /\ Current(d) = d.models[Len(d.models)]
    BY <1>1, <1>5, <1>7, CurrentIs DEF Current
  <2>2. CASE i = Len(d.models)
    BY <1>3, <1>5, <2>1, <2>2
  <2>3. CASE i # Len(d.models)
    BY <1>5, <2>1, <2>3, SameItself
  <2> QED BY <2>2, <2>3
<1>10. Same(Current(b), R!Replay(b.journal))
  BY <1>1, <1>7, <1>9, SameBoth
<1>11. StateOK(c, b)
  BY <1>1, <1>5, <1>7, <1>8, <1>10, StoredSame DEF StateOK
<1> QED BY <1>5, <1>7, <1>8, <1>11, StoredSame DEF DetailsKept

-----------------------------------------------------------------------------
\* What the node answers, and what is decoded of it.

LEMMA DetailsAreStates ==
  ASSUME NEW log, NEW details \in DetailsOf(log)
  PROVE  details \in {"none", "Open", "Locked"}
<1>1. decodeMarketState(1) = "Open" /\ decodeMarketState(2) = "Locked"
  BY DEF decodeMarketState
<1> HIDE DEF decodeMarketState
<1>2. readMarketDetails(log.marketId) \in {"Open", "Locked"}
  BY <1>1 DEF readMarketDetails
<1>3. details \in {"none", readMarketDetails(log.marketId)}
  BY DEF DetailsOf
<1> QED BY <1>2, <1>3

LEMMA DecodedIs ==
  ASSUME IndexerAssumption, NEW log \in FoundLog, NEW details,
         details \in {"none", "Open", "Locked"},
         NEW e, e = Decoded(log, details)
  PROVE  /\ e \in Event /\ e.type = log.type /\ e.id = log.number
         /\ e.fork = log.fork /\ e.marketId = log.marketId
<1>1. /\ log.number \in Numbers /\ log.fork \in Nat /\ log.marketId \in Markets
      /\ log.type \in {"MarketCreated", "BetPlaced", "MarketLocked"}
  BY DEF FoundLog, IndexerAssumption
<1>2. PICK base : base = [type |-> log.type, id |-> log.number,
                          fork |-> log.fork, marketId |-> log.marketId]
  OBVIOUS
<1>3. /\ DOMAIN base = {"type", "id", "fork", "marketId"}
      /\ base.type = log.type /\ base.id = log.number
      /\ base.fork = log.fork /\ base.marketId = log.marketId
  BY <1>2
<1>4. CASE log.type = "MarketCreated" /\ details = "none"
  <2>1. e = R!Merged(base, [creator |-> User, state |-> "Open"])
    BY <1>2, <1>4 DEF Decoded
  <2>2. e = [type |-> "MarketCreated", id |-> log.number, fork |-> log.fork,
             marketId |-> log.marketId, creator |-> User, state |-> "Open"]
    BY <1>3, <1>4, <2>1 DEF R!Merged
  <2>3. e \in CreatedEvent
    BY <1>1, <2>2 DEF CreatedEvent
  <2> QED BY <1>4, <2>2, <2>3 DEF Event
<1>5. CASE log.type = "MarketCreated" /\ details # "none"
  <2>1. e = R!Merged(base, [creator |-> User, state |-> details,
                            lockTime |-> TRUE])
    BY <1>2, <1>5 DEF Decoded
  <2>2. e = [type |-> "MarketCreated", id |-> log.number, fork |-> log.fork,
             marketId |-> log.marketId, creator |-> User, state |-> details,
             lockTime |-> TRUE]
    BY <1>3, <1>5, <2>1 DEF R!Merged
  <2>3. e \in DetailedEvent
    BY <1>1, <1>5, <2>2 DEF DetailedEvent
  <2> QED BY <1>5, <2>2, <2>3 DEF Event
<1>6. CASE log.type = "BetPlaced"
  <2>1. e = R!Merged(base, [user |-> User, outcome |-> 0, amount |-> 1,
                            logIndex |-> 0])
    BY <1>2, <1>6 DEF Decoded
  <2>2. e = [type |-> "BetPlaced", id |-> log.number, fork |-> log.fork,
             marketId |-> log.marketId, user |-> User, outcome |-> 0,
             amount |-> 1, logIndex |-> 0]
    BY <1>3, <1>6, <2>1 DEF R!Merged
  <2>3. e \in BetEvent
    BY <1>1, <2>2 DEF BetEvent
  <2> QED BY <1>6, <2>2, <2>3 DEF Event
<1>7. CASE log.type = "MarketLocked"
  <2>1. e = R!Merged(base, << >>)
    BY <1>2, <1>7 DEF Decoded
  <2>2. e = [type |-> "MarketLocked", id |-> log.number, fork |-> log.fork,
             marketId |-> log.marketId]
    BY <1>3, <1>7, <2>1 DEF R!Merged
  <2>3. e \in LockedEvent
    BY <1>1, <2>2 DEF LockedEvent
  <2> QED BY <1>7, <2>2, <2>3 DEF Event
<1> QED BY <1>1, <1>4, <1>5, <1>6, <1>7

\* The logs of a range of confirmed blocks: all of them, in their order.
AllLogs(from, to, logs) ==
  /\ LogsOK(blocks, to, logs)
  /\ \A i \in 1 .. Len(logs) : FoundIn(blocks, logs[i])
  /\ \A n \in from .. to :
       \/ blocks[n].log = NoLog
       \/ \E i \in 1 .. Len(logs) : logs[i].number = n

LEMMA LogsOfIs ==
  ASSUME IndexerAssumption, ChainOK(blocks), NEW from, from \in Nat \ {0},
         NEW to, to \in Settled(blocks), NEW logs, logs = LogsOf(from, to)
  PROVE  AllLogs(from, to, logs)
<1> DEFINE all == [i \in 1 .. to |-> i]
           S == {n \in from .. to : blocks[n].log # NoLog}
<1>1. PICK numbers : numbers = Picked(all, S)
  OBVIOUS
<1>2. /\ to \in Nat /\ to <= Len(blocks) /\ to + Confirmations <= Len(blocks)
      /\ Len(blocks) \in Nat /\ Len(blocks) <= MaxBlocks /\ MaxBlocks \in Nat
      /\ Confirmations \in Nat
  BY DEF Settled, ChainOK, IndexerAssumption
<1>3. all \in Seq(1 .. to) /\ Len(all) = to /\ \A i \in 1 .. to : all[i] = i
  BY <1>2
<1> HIDE DEF all
<1>4. numbers \in Seq(1 .. to) /\ Rising(numbers) /\ Events(numbers) = (1 .. to) \cap S
  BY <1>1, <1>2, <1>3, PickedRises
<1>5. /\ DOMAIN numbers = 1 .. Len(numbers) /\ Len(numbers) \in Nat
      /\ \A i \in 1 .. Len(numbers) : numbers[i] \in 1 .. to /\ numbers[i] \in S
  BY <1>4 DEF Events
<1>6. logs = [i \in 1 .. Len(numbers) |->
                [number |-> numbers[i], fork |-> blocks[numbers[i]].fork,
                 type |-> blocks[numbers[i]].log.type,
                 marketId |-> blocks[numbers[i]].log.marketId]]
  BY <1>1, <1>5 DEF LogsOf, all
<1>7. ASSUME NEW i \in 1 .. Len(numbers)
      PROVE  /\ logs[i] \in FoundLog /\ logs[i].number = numbers[i]
             /\ logs[i].number \in Settled(blocks) /\ logs[i].number <= to
             /\ FoundIn(blocks, logs[i])
  <2> DEFINE n == numbers[i]
  <2>1. n \in 1 .. to /\ n <= to /\ blocks[n].log # NoLog
    BY <1>5
  <2> HIDE DEF n
  <2>2. n \in Numbers /\ n \in Settled(blocks) /\ n \in 1 .. Len(blocks)
    BY <1>2, <2>1 DEF Numbers, Settled
  <2>3. blocks[n] \in Block
    BY <2>2 DEF ChainOK
  <2>4. blocks[n] = [fork |-> blocks[n].fork, log |-> blocks[n].log]
        /\ blocks[n].fork \in Nat /\ blocks[n].log \in Logs
    BY <2>1, <2>3 DEF Block
  <2>5. /\ blocks[n].log = [type |-> blocks[n].log.type,
                            marketId |-> blocks[n].log.marketId]
        /\ blocks[n].log.type \in LogTypes /\ blocks[n].log.marketId \in Markets
    BY <2>4, NoLogIsNone
  <2>6. logs[i] = [number |-> n, fork |-> blocks[n].fork,
                   type |-> blocks[n].log.type,
                   marketId |-> blocks[n].log.marketId]
    BY <1>6 DEF n
  <2>7. logs[i] \in FoundLog
    BY <2>2, <2>4, <2>5, <2>6 DEF FoundLog
  <2>8. FoundIn(blocks, logs[i])
    BY <2>4, <2>5, <2>6 DEF FoundIn
  <2> QED BY <2>1, <2>2, <2>6, <2>7, <2>8 DEF n
<1>8. logs \in Seq(FoundLog) /\ Len(logs) = Len(numbers)
  <2>1. logs \in [1 .. Len(numbers) -> FoundLog]
    BY <1>6, <1>7
  <2>2. logs \in Seq(FoundLog)
    BY <1>5, <2>1, IsSequence, Zenon
  <2>3. DOMAIN logs = 1 .. Len(numbers)
    BY <2>1
  <2> QED BY <1>5, <2>2, <2>3, LengthIs, Zenon
<1>9. \A i, k \in 1 .. Len(logs) : i < k => logs[i].number < logs[k].number
  BY <1>4, <1>5, <1>7, <1>8 DEF Rising
<1>10. LogsOK(blocks, to, logs)
  BY <1>7, <1>8, <1>9 DEF LogsOK
<1>11. ASSUME NEW n \in from .. to, blocks[n].log # NoLog
       PROVE  \E i \in 1 .. Len(logs) : logs[i].number = n
  <2>1. n \in Events(numbers)
    BY <1>2, <1>4, <1>11
  <2>2. PICK i \in 1 .. Len(numbers) : numbers[i] = n
    BY <1>5, <2>1 DEF Events
  <2> QED BY <1>7, <1>8, <2>2
<1> QED BY <1>7, <1>8, <1>10, <1>11 DEF AllLogs

-----------------------------------------------------------------------------
\* The steps.

\* A step of one poll that keeps everything right.
GoodStep(p) ==
  /\ UNCHANGED world /\ started' \in BOOLEAN
  /\ DOMAIN polls' = Polls /\ \A q \in Polls \ {p} : polls'[q] = polls[q]
  /\ StateOK(blocks, db') /\ Len(db.models) <= Len(db'.models)
  /\ file' # Torn => Stored(blocks, file')
  /\ PollOK(blocks, db', polls'[p])
  /\ ~deep =>
       /\ Sound(blocks, db') /\ Ids(db.journal) \subseteq Ids(db'.journal)
       /\ file' # Torn => Sound(blocks, file')
       /\ PollSound(blocks, db'.journal, polls'[p])

LEMMA OtherPoll ==
  ASSUME NEW c, NEW d, NEW b, StateOK(c, d), StateOK(c, b),
         Len(d.models) <= Len(b.models), NEW poll, PollOK(c, d, poll)
  PROVE  PollOK(c, b, poll)
<1>1. Len(d.models) \in Nat /\ Len(b.models) \in Nat
  BY CurrentIs DEF StateOK
<1> QED BY <1>1 DEF PollOK

LEMMA OtherPollSound ==
  ASSUME NEW c, NEW j, NEW k, Ids(j) \subseteq Ids(k), NEW poll,
         PollSound(c, j, poll)
  PROVE  PollSound(c, k, poll)
BY DEF PollSound, LogsSound, LeftOut

LEMMA GoodStepKeeps ==
  ASSUME IndexerInv, NEW p \in Polls, GoodStep(p)
  PROVE  IndexerInv'
<1>1. blocks' = blocks /\ reorgs' = reorgs /\ deep' = deep
  BY DEF GoodStep, world
<1>2. \A q \in Polls : PollOK(blocks, db', polls'[q])
  BY OtherPoll DEF IndexerInv, AllOK, GoodStep
<1>3. ASSUME ~deep
      PROVE  \A q \in Polls : PollSound(blocks, db'.journal, polls'[q])
  BY <1>3, OtherPollSound DEF IndexerInv, AllSound, GoodStep
<1> QED BY <1>1, <1>2, <1>3 DEF GoodStep, IndexerInv, AllOK, AllSound

LEMMA RestartKeeps ==
  ASSUME IndexerAssumption, IndexerInv, Restart
  PROVE  IndexerInv'
<1>1. /\ blocks' = blocks /\ reorgs' = reorgs /\ deep' = deep /\ file' = file
      /\ started' = FALSE /\ db' = Loaded
      /\ polls' = [p \in Polls |-> IdlePoll]
  BY DEF Restart, world
<1>2. /\ StateOK(blocks, db')
      /\ (file # Torn => Sound(blocks, file)) => Sound(blocks, db')
  BY <1>1, LoadedOK DEF IndexerInv, AllOK
<1>3. \A p \in Polls : polls'[p].pc = "idle"
  BY <1>1 DEF IdlePoll
<1>4. \A p \in Polls : /\ PollOK(blocks, db', polls'[p])
                       /\ PollSound(blocks, db'.journal, polls'[p])
  BY <1>3 DEF PollOK, PollSound
<1> QED BY <1>1, <1>2, <1>4 DEF IndexerInv, AllOK, AllSound

LEMMA PollIs ==
  ASSUME NEW p \in Polls, DOMAIN polls = Polls, NEW new,
         polls' = [polls EXCEPT ![p] = new]
  PROVE  /\ DOMAIN polls' = Polls /\ polls'[p] = new
         /\ \A q \in Polls \ {p} : polls'[q] = polls[q]
OBVIOUS

\* What the invariant says of the state and of one poll.
LEMMA Now ==
  ASSUME IndexerInv, NEW p \in Polls
  PROVE  /\ ChainOK(blocks) /\ started \in BOOLEAN /\ DOMAIN polls = Polls
         /\ StateOK(blocks, db) /\ Stored(blocks, db)
         /\ ModelsOK(db.models) /\ Len(db.models) \in Nat
         /\ file # Torn => Stored(blocks, file)
         /\ PollOK(blocks, db, polls[p])
         /\ ~deep => /\ Sound(blocks, db)
                     /\ file # Torn => Sound(blocks, file)
                     /\ PollSound(blocks, db.journal, polls[p])
<1>1. StateOK(blocks, db)
  BY DEF IndexerInv, AllOK
<1>2. Stored(blocks, db) /\ ModelsOK(db.models) /\ Len(db.models) \in Nat
  BY <1>1, CurrentIs DEF StateOK
<1> QED BY <1>1, <1>2 DEF IndexerInv, AllOK, AllSound

\* A step that changes nothing but one poll.
LEMMA PollOnly ==
  ASSUME IndexerInv, NEW p \in Polls, UNCHANGED <<world, db, file>>,
         started' \in BOOLEAN, NEW new, polls' = [polls EXCEPT ![p] = new],
         PollOK(blocks, db, new), ~deep => PollSound(blocks, db.journal, new)
  PROVE  IndexerInv'
<1>1. GoodStep(p)
  <2>1. Len(db.models) <= Len(db.models)
    BY Now
  <2> QED BY <2>1, Now, PollIs DEF GoodStep, world
<1> QED BY <1>1, GoodStepKeeps

LEMMA QuietPoll ==
  ASSUME NEW poll, poll.pc \in {"idle", "save"}, NEW c, NEW d, NEW j
  PROVE  PollOK(c, d, poll) /\ PollSound(c, j, poll)
BY DEF PollOK, PollSound

LEMMA ThrownKeeps ==
  ASSUME IndexerAssumption, IndexerInv, NEW p \in Polls, Thrown(p)
  PROVE  IndexerInv'
<1>1. CASE started
  <2>1. /\ UNCHANGED <<world, db, file>> /\ started' = started
        /\ polls' = [polls EXCEPT ![p] = IdlePoll]
    BY <1>1 DEF Thrown
  <2>2. started' \in BOOLEAN
    BY <2>1 DEF IndexerInv
  <2>3. PollOK(blocks, db, IdlePoll)
        /\ PollSound(blocks, db.journal, IdlePoll)
    BY DEF IdlePoll, PollOK, PollSound
  <2> QED BY <2>1, <2>2, <2>3, PollOnly
<1>2. CASE ~started
  BY <1>2, RestartKeeps DEF Thrown
<1> QED BY <1>1, <1>2

LEMMA TickKeeps ==
  ASSUME IndexerInv, NEW p \in Polls, Tick(p)
  PROVE  IndexerInv'
<1>1. PICK new : new = [pc |-> "hydrate", model |-> Len(db.models),
                        hydrated |-> 0, left |-> Unhydrated(Current(db))]
  OBVIOUS
<1>2. /\ UNCHANGED <<world, db, file>> /\ started' \in BOOLEAN
      /\ polls' = [polls EXCEPT ![p] = new]
  BY <1>1, Now DEF Tick
<1>3. new.pc = "hydrate" /\ new.model \in 1 .. Len(db.models)
  BY <1>1, Now, CurrentIs
<1>4. PollOK(blocks, db, new) /\ PollSound(blocks, db.journal, new)
  BY <1>3 DEF PollOK, PollSound
<1> QED BY <1>2, <1>4, PollOnly

LEMMA DetailsReadKeeps ==
  ASSUME IndexerInv, NEW p \in Polls, DetailsRead(p)
  PROVE  IndexerInv'
<1>1. PICK m \in polls[p].left, answered \in BOOLEAN :
        polls' = [polls EXCEPT ![p] =
          [pc |-> "details", model |-> polls[p].model,
           hydrated |-> polls[p].hydrated, left |-> polls[p].left \ {m},
           market |-> m,
           details |-> IF answered THEN readMarketDetails(m) ELSE "none"]]
  BY DEF DetailsRead
<1>2. PICK new : new =
        [pc |-> "details", model |-> polls[p].model,
         hydrated |-> polls[p].hydrated, left |-> polls[p].left \ {m},
         market |-> m,
         details |-> IF answered THEN readMarketDetails(m) ELSE "none"]
  OBVIOUS
<1>3. /\ UNCHANGED <<world, db, file>> /\ started' \in BOOLEAN
      /\ polls' = [polls EXCEPT ![p] = new]
  BY <1>1, <1>2, Now DEF DetailsRead
<1>4. new.pc = "details" /\ new.model \in 1 .. Len(db.models)
  <2>1. polls[p].pc = "hydrate" /\ PollOK(blocks, db, polls[p])
    BY Now DEF DetailsRead
  <2> QED BY <1>2, <2>1 DEF PollOK
<1>5. PollOK(blocks, db, new) /\ PollSound(blocks, db.journal, new)
  BY <1>4 DEF PollOK, PollSound
<1> QED BY <1>3, <1>5, PollOnly

LEMMA HydratedKeeps ==
  ASSUME IndexerInv, NEW p \in Polls, Hydrated(p)
  PROVE  IndexerInv'
<1> DEFINE poll == polls[p]
<1>1. PICK new : new =
        [pc |-> "hydrate", model |-> poll.model, left |-> poll.left,
         hydrated |-> poll.hydrated + (IF poll.details = "none" THEN 0 ELSE 1)]
  OBVIOUS
<1>2. /\ poll.pc = "details"
      /\ db' = IF poll.details = "none" THEN db
               ELSE [db EXCEPT !.models[poll.model] =
                       R!Update(@, "markets", poll.market,
                                Details(poll.details))]
      /\ polls' = [polls EXCEPT ![p] = new]
      /\ UNCHANGED <<world, file, started>>
  BY <1>1 DEF Hydrated
<1>3. poll.model \in 1 .. Len(db.models) /\ PollOK(blocks, db, poll)
  BY <1>2, Now DEF PollOK
<1>4. new.pc = "hydrate" /\ new.model = poll.model
  BY <1>1
<1>5. /\ StateOK(blocks, db') /\ Len(db'.models) = Len(db.models)
      /\ db'.journal = db.journal
      /\ Sound(blocks, db) => Sound(blocks, db')
  <2>1. CASE poll.details = "none"
    BY <1>2, <2>1, Now
  <2>2. CASE poll.details # "none"
    <3>1. db' = [db EXCEPT !.models[poll.model] =
                   R!Update(@, "markets", poll.market, Details(poll.details))]
      BY <1>2, <2>2
    <3>2. StateOK(blocks, db) /\ poll.model \in 1 .. Len(db.models)
      BY <1>3, Now
    <3> HIDE DEF poll
    <3>3. DetailsKept(blocks, db, db')
      BY <3>1, <3>2, DetailsOK, Zenon
    <3> QED BY <3>3 DEF DetailsKept
  <2> QED BY <2>1, <2>2
<1>6. PollOK(blocks, db', new) /\ PollSound(blocks, db'.journal, new)
  BY <1>3, <1>4, <1>5 DEF PollOK, PollSound
<1>7. GoodStep(p)
  <2>1. Len(db.models) <= Len(db'.models)
    BY <1>5, Now
  <2> QED BY <1>2, <1>5, <1>6, <2>1, Now, PollIs DEF GoodStep, world
<1> QED BY <1>7, GoodStepKeeps

\* A step of the loop over the logs, up to the next log or to the save.
LEMMA OnwardsKeeps ==
  ASSUME IndexerAssumption, IndexerInv, NEW p \in Polls, NEW d, NEW logs,
         StateOK(blocks, d), Len(db.models) <= Len(d.models),
         LogsOK(blocks, polls[p].to, logs),
         ~deep => /\ Sound(blocks, d) /\ Ids(db.journal) \subseteq Ids(d.journal)
                  /\ LogsSound(blocks, d.journal, polls[p].to, logs),
         Onwards(p, d, logs), UNCHANGED <<world, file, started>>
  PROVE  IndexerInv'
<1> DEFINE to == polls[p].to
<1>1. CASE logs = << >>
  <2>1. PICK new : new = [pc |-> "save"]
    OBVIOUS
  <2>2. /\ db' = [d EXCEPT !.cursor = to]
        /\ polls' = [polls EXCEPT ![p] = new]
    BY <1>1, <2>1 DEF Onwards, SaveStarts
  <2>3. PollOK(blocks, db', new) /\ PollSound(blocks, db'.journal, new)
    BY <2>1, QuietPoll
  <2>4. /\ StateOK(blocks, db') /\ db'.models = d.models
        /\ db'.journal = d.journal
        /\ Sound(blocks, d) /\ (\A n \in 1 .. to : blocks[n].log = NoLog \/
                                                  n \in Ids(d.journal))
             => Sound(blocks, db')
    BY <2>2, CursorOK DEF LogsOK
  <2>5. ASSUME ~deep
        PROVE  \A n \in 1 .. to : blocks[n].log = NoLog \/ n \in Ids(d.journal)
    <3>1. Len(logs) = 0
      BY <1>1
    <3> QED BY <2>5, <3>1 DEF LogsSound, LeftOut
  <2>6. GoodStep(p)
    BY <2>2, <2>3, <2>4, <2>5, Now, PollIs DEF GoodStep, world
  <2> QED BY <2>6, GoodStepKeeps
<1>2. CASE logs # << >>
  <2>1. PICK new : new = [pc |-> "decode", to |-> to, logs |-> logs]
    OBVIOUS
  <2>2. PICK log : log = Head(logs)
    OBVIOUS
  <2>3. db' = Observed(d, log) /\ polls' = [polls EXCEPT ![p] = new]
    BY <1>2, <2>1, <2>2 DEF Onwards
  <2>4. log \in FoundLog /\ log.number \in Settled(blocks) /\ log = logs[1]
        /\ 1 \in 1 .. Len(logs)
    BY <1>2, <2>2 DEF LogsOK
  <2>5. StateOK(blocks, db') /\ Len(d.models) <= Len(db'.models)
    BY <2>3, <2>4, ObservedOK
  <2>6. Len(db.models) <= Len(db'.models)
    <3>1. Len(d.models) \in Nat /\ Len(db'.models) \in Nat
      BY <2>5, CurrentIs DEF StateOK
    <3> QED BY <2>5, <3>1, Now
  <2>7. PollOK(blocks, db', new)
    BY <1>2, <2>1 DEF PollOK
  <2>8. ASSUME ~deep
        PROVE  /\ Sound(blocks, db') /\ db'.journal = d.journal
               /\ PollSound(blocks, db'.journal, new)
    <3>1. FoundIn(blocks, log)
      BY <2>4, <2>8 DEF LogsSound
    <3>2. Sound(blocks, db') /\ db'.journal = d.journal
      BY <2>3, <2>8, <3>1, ObservedSound DEF StateOK
    <3> QED BY <2>1, <2>8, <3>2 DEF PollSound
  <2>9. GoodStep(p)
    BY <2>3, <2>5, <2>6, <2>7, <2>8, Now, PollIs DEF GoodStep, world
  <2> QED BY <2>9, GoodStepKeeps
<1> QED BY <1>1, <1>2

LEMMA LoopStartsKeeps ==
  ASSUME IndexerAssumption, IndexerInv, NEW p \in Polls, LoopStarts(p)
  PROVE  IndexerInv'
<1> DEFINE logs == polls[p].logs
<1>1. /\ polls[p].pc = "fetched" /\ Onwards(p, db, logs)
      /\ UNCHANGED <<world, file, started>>
  BY DEF LoopStarts
<1>2. StateOK(blocks, db) /\ Len(db.models) <= Len(db.models)
  BY Now
<1>3. LogsOK(blocks, polls[p].to, logs)
  BY <1>1, Now DEF PollOK
<1>4. ~deep => /\ Sound(blocks, db)
               /\ LogsSound(blocks, db.journal, polls[p].to, logs)
  BY <1>1, Now DEF PollSound
<1> HIDE DEF logs
<1> QED BY <1>1, <1>2, <1>3, <1>4, OnwardsKeeps

\* The first of the logs left is decoded: those after it stay in order, and it
\* is no longer missing in the journal.
LEMMA TailIs ==
  ASSUME NEW S, NEW s, s \in Seq(S), s # << >>, NEW t, t = Tail(s)
  PROVE  /\ t \in Seq(S) /\ Len(s) \in Nat \ {0} /\ Len(t) = Len(s) - 1
         /\ \A i \in 1 .. Len(t) : t[i] = s[i + 1]
OBVIOUS

LEMMA LogsLeft ==
  ASSUME NEW c, NEW to, NEW logs, LogsOK(c, to, logs), logs # << >>,
         NEW j, NEW k, NEW t, t = Tail(logs)
  PROVE  /\ LogsOK(c, to, t)
         /\ LogsSound(c, j, to, logs) /\ Ids(k) = Ids(j) \cup {logs[1].number}
              => LogsSound(c, k, to, t)
<1>1. /\ t \in Seq(FoundLog) /\ Len(logs) \in Nat \ {0}
      /\ Len(t) = Len(logs) - 1
      /\ \A i \in 1 .. Len(t) : t[i] = logs[i + 1]
  BY TailIs DEF LogsOK
<1>2. \A i \in 1 .. Len(t) : i \in Int /\ i + 1 \in 1 .. Len(logs)
  BY <1>1
<1>3. LogsOK(c, to, t)
  <2>1. \A i \in 1 .. Len(t) :
          t[i].number \in Settled(c) /\ t[i].number <= to
    BY <1>1, <1>2 DEF LogsOK
  <2>2. ASSUME NEW i \in 1 .. Len(t), NEW l \in 1 .. Len(t), i < l
        PROVE  t[i].number < t[l].number
    <3>1. i + 1 < l + 1
      BY <2>2
    <3> QED BY <1>1, <1>2, <3>1 DEF LogsOK
  <2> QED BY <1>1, <2>1, <2>2 DEF LogsOK
<1>4. ASSUME LogsSound(c, j, to, logs), Ids(k) = Ids(j) \cup {logs[1].number}
      PROVE  LogsSound(c, k, to, t)
  <2>1. \A i \in 1 .. Len(t) : FoundIn(c, t[i])
    BY <1>1, <1>2, <1>4 DEF LogsSound
  <2>2. ASSUME NEW n \in 1 .. to, LeftOut(c, n, k, t)
        PROVE  FALSE
    <3>1. PICK i \in 1 .. Len(logs) : logs[i].number = n
      BY <1>4, <2>2 DEF LogsSound, LeftOut
    <3>2. i # 1
      BY <1>4, <2>2, <3>1 DEF LeftOut
    <3>3. i - 1 \in 1 .. Len(t) /\ (i - 1) + 1 = i
      BY <1>1, <3>2
    <3>4. t[i - 1] = logs[i]
      BY <1>1, <3>3
    <3> QED BY <2>2, <3>1, <3>3, <3>4 DEF LeftOut
  <2> QED BY <2>1, <2>2 DEF LogsSound
<1> QED BY <1>3, <1>4

LEMMA LogDecodedKeeps ==
  ASSUME IndexerAssumption, IndexerInv, NEW p \in Polls, LogDecoded(p)
  PROVE  IndexerInv'
<1>1. PICK logs, to : logs = polls[p].logs /\ to = polls[p].to
  OBVIOUS
<1>2. PICK log : log = Head(logs)
  OBVIOUS
<1>3. PICK details \in DetailsOf(log) :
        Onwards(p, Pushed(db, Decoded(log, details)), Tail(logs))
  BY <1>1, <1>2 DEF LogDecoded
<1>4. PICK e : e = Decoded(log, details)
  OBVIOUS
<1>5. PICK d, t : d = Pushed(db, e) /\ t = Tail(logs)
  OBVIOUS
<1>6. /\ polls[p].pc = "decode" /\ Onwards(p, d, t)
      /\ UNCHANGED <<world, file, started>>
  BY <1>3, <1>4, <1>5 DEF LogDecoded
<1>7. LogsOK(blocks, to, logs) /\ logs # << >>
  BY <1>1, <1>6, Now DEF PollOK
<1>8. /\ log \in FoundLog /\ log.number \in Settled(blocks) /\ log = logs[1]
      /\ 1 \in 1 .. Len(logs)
  BY <1>2, <1>7 DEF LogsOK
<1>9. /\ e \in Event /\ e.type = log.type /\ e.id = log.number
      /\ e.fork = log.fork /\ e.marketId = log.marketId
  <2>1. details \in {"none", "Open", "Locked"}
    BY DetailsAreStates
  <2> QED BY <1>4, <1>8, <2>1, DecodedIs
<1>10. StateOK(blocks, db) /\ ChainOK(blocks)
  BY Now
<1>11. StateOK(blocks, d) /\ Len(db.models) <= Len(d.models)
  BY <1>5, <1>8, <1>9, <1>10, PushedOK
<1>12. LogsOK(blocks, to, t)
  BY <1>5, <1>7, LogsLeft
<1>13. ASSUME ~deep
       PROVE  /\ Sound(blocks, d) /\ Ids(db.journal) \subseteq Ids(d.journal)
              /\ LogsSound(blocks, d.journal, to, t)
  <2>1. Sound(blocks, db) /\ LogsSound(blocks, db.journal, to, logs)
    BY <1>1, <1>6, <1>13, Now DEF PollSound
  <2>2. /\ blocks[e.id].fork = e.fork
        /\ blocks[e.id].log = [type |-> e.type, marketId |-> e.marketId]
    <3>1. FoundIn(blocks, log)
      BY <1>8, <2>1 DEF LogsSound
    <3> QED BY <1>9, <3>1 DEF FoundIn
  <2>3. blocks[e.id].log # NoLog
    <3>1. DOMAIN blocks[e.id].log = {"type", "marketId"} /\ DOMAIN NoLog = {"type"}
      BY <2>2 DEF NoLog
    <3> QED BY <3>1
  <2>4. ASSUME NEW n \in 1 .. e.id - 1
        PROVE  blocks[n].log = NoLog \/ n \in Ids(db.journal)
    <3>1. e.id \in Int /\ e.id <= to /\ to \in Int
      <4>1. log.number \in Settled(blocks) /\ to \in Settled(blocks)
            /\ log.number <= to
        BY <1>7, <1>8 DEF LogsOK
      <4>2. e.id = log.number
        BY <1>9
      <4> QED BY <4>1, <4>2 DEF Settled
    <3>2. \A i \in 1 .. Len(logs) : logs[i].number # n
      <4>1. \A i \in 1 .. Len(logs) : i = 1 \/ 1 < i
        OBVIOUS
      <4>2. \A i \in 1 .. Len(logs) : logs[i].number = e.id \/ e.id < logs[i].number
        BY <1>7, <1>8, <1>9, <4>1 DEF LogsOK
      <4>3. \A i \in 1 .. Len(logs) : logs[i].number \in Int
        BY <1>7 DEF LogsOK, Settled
      <4> QED BY <3>1, <4>2, <4>3
    <3> QED BY <2>1, <3>1, <3>2 DEF LogsSound, LeftOut
  <2>5. Follows(blocks, e, Ids(db.journal))
    BY <2>2, <2>4 DEF Follows
  <2>6. Sound(blocks, d) /\ Ids(d.journal) = Ids(db.journal) \cup {e.id}
    <3>1. e \in Event /\ e.id \in Settled(blocks) /\ d = Pushed(db, e)
      BY <1>5, <1>8, <1>9
    <3>2. SoundWith(blocks, db, e.id, d)
      BY <1>10, <2>1, <2>2, <2>3, <2>5, <3>1, PushedSound, Zenon
    <3> QED BY <3>2 DEF SoundWith
  <2>7. LogsSound(blocks, d.journal, to, t)
    BY <1>5, <1>7, <1>8, <1>9, <2>1, <2>6, LogsLeft
  <2> QED BY <2>6, <2>7
<1> QED BY <1>1, <1>6, <1>11, <1>12, <1>13, OnwardsKeeps

LEMMA NothingNewKeeps ==
  ASSUME IndexerInv, NEW p \in Polls, NothingNew(p)
  PROVE  IndexerInv'
<1>1. PICK new \in {IdlePoll, [pc |-> "save"]} :
        polls' = [polls EXCEPT ![p] = new]
  BY DEF NothingNew, SaveStarts, Returned
<1>2. UNCHANGED <<world, db, file>> /\ started' \in BOOLEAN
  BY Now DEF NothingNew, SaveStarts, Returned
<1>3. new.pc \in {"idle", "save"}
  BY <1>1 DEF IdlePoll
<1>4. PollOK(blocks, db, new) /\ PollSound(blocks, db.journal, new)
  BY <1>3, QuietPoll
<1> QED BY <1>1, <1>2, <1>4, PollOnly

LEMMA LogsReadKeeps ==
  ASSUME IndexerAssumption, IndexerInv, NEW p \in Polls, LogsRead(p)
  PROVE  IndexerInv'
<1>1. PICK to : to = Confirmed(Len(blocks))
  OBVIOUS
<1>2. PICK logs : logs = LogsOf(db.cursor + 1, to)
  OBVIOUS
<1>3. PICK new : new = [pc |-> "fetched", to |-> to, logs |-> logs]
  OBVIOUS
<1>4. /\ to > db.cursor /\ UNCHANGED <<world, db, file>>
      /\ started' \in BOOLEAN /\ polls' = [polls EXCEPT ![p] = new]
  BY <1>1, <1>2, <1>3, Now DEF LogsRead, Fetched
<1>5. db.cursor \in Nat
  BY Now DEF Stored, Settled
<1>6. to \in Settled(blocks)
  <2>1. Len(blocks) \in Nat /\ Confirmations \in Nat
    BY Now DEF ChainOK, IndexerAssumption
  <2> QED BY <1>1, <1>4, <1>5, <2>1 DEF Confirmed, Settled
<1>7. AllLogs(db.cursor + 1, to, logs)
  <2>1. db.cursor + 1 \in Nat \ {0} /\ ChainOK(blocks)
    BY <1>5, Now
  <2> QED BY <1>2, <1>6, <2>1, LogsOfIs, Zenon
<1>8. PollOK(blocks, db, new)
  BY <1>3, <1>7 DEF AllLogs, PollOK
<1>9. ASSUME ~deep
      PROVE  PollSound(blocks, db.journal, new)
  <2>1. ASSUME NEW n \in 1 .. to, LeftOut(blocks, n, db.journal, logs)
        PROVE  FALSE
    <3>1. Complete(blocks, db)
      BY <1>9, Now DEF Sound
    <3>2. n \in 1 .. db.cursor \/ n \in db.cursor + 1 .. to
      BY <1>5, <1>6 DEF Settled
    <3> QED BY <1>7, <2>1, <3>1, <3>2 DEF AllLogs, LeftOut, Complete
  <2>2. LogsSound(blocks, db.journal, to, logs)
    BY <1>7, <2>1 DEF AllLogs, LogsSound
  <2> QED BY <1>3, <2>2 DEF PollSound
<1> QED BY <1>4, <1>8, <1>9, PollOnly

LEMMA WriteStartsKeeps ==
  ASSUME IndexerInv, NEW p \in Polls, WriteStarts(p)
  PROVE  IndexerInv'
<1>1. PICK saved : saved = Serialized(db)
  OBVIOUS
<1>2. PICK new : new = [pc |-> "write", saved |-> saved]
  OBVIOUS
<1>3. /\ file' = Torn /\ polls' = [polls EXCEPT ![p] = new]
      /\ UNCHANGED <<world, db, started>>
  BY <1>1, <1>2 DEF WriteStarts
<1>4. SameStored(db, saved)
  BY <1>1 DEF Serialized, SameStored
<1>5. Stored(blocks, saved) /\ (~deep => Sound(blocks, saved))
  BY <1>4, Now, StoredSame
<1>6. PollOK(blocks, db, new) /\ (~deep => PollSound(blocks, db.journal, new))
  BY <1>2, <1>5 DEF PollOK, PollSound
<1>7. GoodStep(p)
  <2>1. Len(db.models) <= Len(db.models)
    BY Now
  <2> QED BY <1>3, <1>6, <2>1, Now, PollIs DEF GoodStep, world
<1> QED BY <1>7, GoodStepKeeps

LEMMA SaveEndsKeeps ==
  ASSUME IndexerInv, NEW p \in Polls, SaveEnds(p)
  PROVE  IndexerInv'
<1>1. /\ polls[p].pc = "write" /\ UNCHANGED <<world, db>>
      /\ file' = polls[p].saved \/ file' = Torn
      /\ started' \in BOOLEAN /\ polls' = [polls EXCEPT ![p] = IdlePoll]
  BY DEF SaveEnds, Returned
<1>2. /\ Stored(blocks, polls[p].saved)
      /\ ~deep => Sound(blocks, polls[p].saved)
  BY <1>1, Now DEF PollOK, PollSound
<1>3. PollOK(blocks, db, IdlePoll) /\ PollSound(blocks, db.journal, IdlePoll)
  BY QuietPoll DEF IdlePoll
<1>4. GoodStep(p)
  <2>1. Len(db.models) <= Len(db.models)
    BY Now
  <2> QED BY <1>1, <1>2, <1>3, <2>1, Now, PollIs DEF GoodStep, world
<1> QED BY <1>4, GoodStepKeeps

\* The chain grows, or reorganizes.
LEMMA ChainKeeps ==
  ASSUME IndexerAssumption, IndexerInv,
         UNCHANGED <<db, file, polls, started>>, ChainOK(blocks'),
         reorgs' \in Nat, deep' \in BOOLEAN,
         Settled(blocks) \subseteq Settled(blocks'),
         ~deep' => ~deep /\ Keeps(blocks, blocks')
  PROVE  IndexerInv'
<1>1. StateOK(blocks, db) /\ (file # Torn => Stored(blocks, file))
      /\ Stored(blocks, db) /\ \A p \in Polls : PollOK(blocks, db, polls[p])
  BY DEF IndexerInv, AllOK, StateOK
<1>2. AllOK(blocks', db, file, polls)
  <2>1. Stored(blocks', db) /\ (file # Torn => Stored(blocks', file))
    BY <1>1, StoredKept
  <2>2. StateOK(blocks', db)
    BY <1>1, <2>1 DEF StateOK
  <2>3. \A p \in Polls : PollOK(blocks', db, polls[p])
    BY <1>1, PollKept
  <2> QED BY <2>1, <2>2, <2>3 DEF AllOK
<1>3. ASSUME ~deep'
      PROVE  AllSound(blocks', db, file, polls)
  <2>1. /\ Keeps(blocks, blocks') /\ Len(blocks) \in Nat
        /\ Sound(blocks, db) /\ (file # Torn => Sound(blocks, file))
        /\ \A p \in Polls : PollSound(blocks, db.journal, polls[p])
    BY <1>3 DEF IndexerInv, AllSound, ChainOK
  <2>2. Sound(blocks', db) /\ (file # Torn => Sound(blocks', file))
    BY <1>1, <2>1, SoundKept
  <2>3. \A p \in Polls : PollSound(blocks', db.journal, polls[p])
    BY <1>1, <2>1, PollSoundKept
  <2> QED BY <2>2, <2>3 DEF AllSound
<1>4. started' \in BOOLEAN /\ DOMAIN polls' = Polls
  BY DEF IndexerInv
<1> QED BY <1>2, <1>3, <1>4 DEF IndexerInv

LEMMA MineKeeps ==
  ASSUME IndexerAssumption, IndexerInv, Mine
  PROVE  IndexerInv'
<1>1. ChainOK(blocks') /\ Keeps(blocks, blocks')
  BY MineChain DEF IndexerInv
<1>2. /\ UNCHANGED <<db, file, polls, started>>
      /\ reorgs' \in Nat /\ deep' \in BOOLEAN /\ deep' = deep
  BY DEF Mine, IndexerInv
<1>3. Settled(blocks) \subseteq Settled(blocks')
  BY <1>1 DEF Keeps
<1> QED BY <1>1, <1>2, <1>3, ChainKeeps

LEMMA ReorgKeeps ==
  ASSUME IndexerAssumption, IndexerInv, Reorg
  PROVE  IndexerInv'
<1>1. reorgs \in Nat /\ deep \in BOOLEAN /\ ChainOK(blocks)
  BY DEF IndexerInv
<1>2. /\ ChainOK(blocks') /\ Settled(blocks) \subseteq Settled(blocks')
      /\ ~deep' => ~deep /\ Keeps(blocks, blocks')
  BY <1>1, ReorgChain
<1>3. /\ UNCHANGED <<db, file, polls, started>>
      /\ reorgs' \in Nat /\ deep' \in BOOLEAN
  BY <1>1 DEF Reorg
<1> QED BY <1>2, <1>3, ChainKeeps

LEMMA IndexerStart == ASSUME IndexerInit PROVE IndexerInv
<1>1. /\ blocks = << >> /\ reorgs = 0 /\ deep = FALSE /\ db = Fresh
      /\ file = Torn /\ polls = [p \in Polls |-> IdlePoll] /\ started = FALSE
  BY DEF IndexerInit
<1>2. ChainOK(blocks)
  BY <1>1, IndexerAssumption DEF IndexerAssumption, ChainOK, WellFormed
<1>3. StateOK(blocks, db) /\ Sound(blocks, db)
  <2>1. db = Loaded
    BY <1>1 DEF Loaded
  <2> QED BY <1>1, <2>1, LoadedOK
<1>4. \A p \in Polls : /\ PollOK(blocks, db, polls[p])
                       /\ PollSound(blocks, db.journal, polls[p])
  <2>1. \A p \in Polls : polls[p].pc = "idle"
    BY <1>1 DEF IdlePoll
  <2> QED BY <2>1, QuietPoll
<1> QED BY <1>1, <1>2, <1>3, <1>4 DEF IndexerInv, AllOK, AllSound

LEMMA IndexerStep ==
  ASSUME IndexerAssumption, IndexerInv, [IndexerNext]_indexerVars
  PROVE  IndexerInv'
<1>1. CASE Mine
  BY <1>1, MineKeeps
<1>2. CASE Reorg
  BY <1>2, ReorgKeeps
<1>3. CASE Crash
  BY <1>3, RestartKeeps DEF Crash
<1>4. ASSUME NEW p \in Polls,
             \/ Tick(p) \/ DetailsRead(p) \/ Hydrated(p) \/ NothingNew(p)
             \/ LogsRead(p) \/ RpcFails(p) \/ LoopStarts(p) \/ LogDecoded(p)
             \/ WriteStarts(p) \/ SaveEnds(p) \/ SaveFails(p)
      PROVE  IndexerInv'
  <2>1. CASE Tick(p)
    BY <2>1, TickKeeps
  <2>2. CASE DetailsRead(p)
    BY <2>2, DetailsReadKeeps
  <2>3. CASE Hydrated(p)
    BY <2>3, HydratedKeeps
  <2>4. CASE NothingNew(p)
    BY <2>4, NothingNewKeeps
  <2>5. CASE LogsRead(p)
    BY <2>5, LogsReadKeeps
  <2>6. CASE RpcFails(p)
    BY <2>6, ThrownKeeps DEF RpcFails
  <2>7. CASE LoopStarts(p)
    BY <2>7, LoopStartsKeeps
  <2>8. CASE LogDecoded(p)
    BY <2>8, LogDecodedKeeps
  <2>9. CASE WriteStarts(p)
    BY <2>9, WriteStartsKeeps
  <2>10. CASE SaveEnds(p)
    BY <2>10, SaveEndsKeeps
  <2>11. CASE SaveFails(p)
    BY <2>11, ThrownKeeps DEF SaveFails
  <2> QED BY <1>4, <2>1, <2>2, <2>3, <2>4, <2>5, <2>6, <2>7, <2>8, <2>9,
             <2>10, <2>11
<1>5. CASE UNCHANGED indexerVars
  BY <1>5 DEF indexerVars, IndexerInv
<1> QED BY <1>1, <1>2, <1>3, <1>4, <1>5 DEF IndexerNext

\* The invariant of the indexer: what is in memory, on disk, on its way there
\* or fetched is of confirmed blocks; a replay makes the read model; and while
\* the chain kept what it confirmed, nothing up to the cursor is left out and
\* the pools are the bets (listener.ts:78-173, store.ts:50-79, cli.ts:46-82).
THEOREM IndexerInvariant == IndexerSpec => []IndexerInv
<1>1. IndexerInit => IndexerInv
  BY IndexerStart
<1>2. IndexerInv /\ [IndexerNext]_indexerVars => IndexerInv'
  BY IndexerStep, IndexerAssumption
<1> QED BY <1>1, <1>2, PTL DEF IndexerSpec

\* Type correctness: the cursor, the checkpoints and the journal are of confirmed
\* blocks, the read models of the markets (listener.ts:102, 166-170).
THEOREM IndexerTypes == IndexerSpec => []TypeOK
<1>1. IndexerInv => TypeOK
  <2> SUFFICES ASSUME IndexerInv PROVE TypeOK
    OBVIOUS
  <2>1. /\ ChainOK(blocks) /\ Stored(blocks, db) /\ ModelsOK(db.models)
        /\ started \in BOOLEAN /\ \A p \in Polls : PollOK(blocks, db, polls[p])
    BY DEF IndexerInv, AllOK, StateOK
  <2>2. Settled(blocks) = ConfirmedBlocks
    <3>1. DOMAIN blocks = 1 .. Len(blocks)
      BY <2>1 DEF ChainOK
    <3> QED BY <3>1 DEF Settled, ConfirmedBlocks
  <2>3. /\ db.cursor \in ConfirmedBlocks \cup {0}
        /\ DOMAIN db.checkpoints \subseteq ConfirmedBlocks
        /\ {e.id : e \in Events(db.journal)} \subseteq ConfirmedBlocks
    BY <2>1, <2>2 DEF Stored, Ids
  <2>4. ASSUME NEW i \in DOMAIN db.models
        PROVE  /\ DOMAIN db.models[i].markets \subseteq Markets
               /\ db.models[i].processedEventIds \subseteq Numbers
    BY <2>1 DEF ModelsOK, ModelOK
  <2>5. \A p \in Polls :
          polls[p].pc \in {"idle", "hydrate", "details", "fetched", "decode",
                           "save", "write"}
    BY <2>1 DEF PollOK
  <2> QED BY <2>1, <2>3, <2>4, <2>5 DEF TypeOK
<1> QED BY <1>1, IndexerInvariant, PTL

\* Whenever the process stops, what it stored replays to the read model it had:
\* the same events, markets, pools and bets, after any polls that overlapped or
\* rolled back (store.ts:74-79 against listener.ts:140-163).
THEOREM ReplayIsTheSame == IndexerSpec => []ReplayGivesTheSame
<1>1. IndexerInv => ReplayGivesTheSame
  <2> SUFFICES ASSUME IndexerInv PROVE ReplayGivesTheSame
    OBVIOUS
  <2>1. PICK v, w : v = Current(db) /\ w = R!Replay(db.journal)
    OBVIOUS
  <2>2. Same(v, w)
    BY <2>1 DEF IndexerInv, AllOK, StateOK
  <2>3. Facts(v) = Facts(w)
    BY <2>2 DEF Same, SameFacts, Facts
  <2> QED BY <2>1, <2>2, <2>3 DEF ReplayGivesTheSame, Same
<1> QED BY <1>1, IndexerInvariant, PTL

\* As long as the chain keeps what it confirmed, the event of every log up to
\* the cursor is in the journal, whichever poll moved the cursor and whatever
\* file the process started from (listener.ts:115-170).
THEOREM NoneSkipped == IndexerSpec => []NothingSkipped
<1>1. IndexerInv => NothingSkipped
  <2> SUFFICES ASSUME IndexerInv, ~deep, NEW n \in 1 .. db.cursor,
                      blocks[n].log # NoLog
               PROVE  \E e \in Events(db.journal) :
                        /\ e.id = n /\ e.fork = blocks[n].fork
                        /\ e.type = blocks[n].log.type
    BY DEF NothingSkipped
  <2>1. AgreesWith(blocks, db) /\ Complete(blocks, db)
    BY DEF IndexerInv, AllSound, Sound
  <2>2. PICK e \in Events(db.journal) : e.id = n
    BY <2>1 DEF Complete, Ids
  <2>3. blocks[n] = [fork |-> e.fork,
                     log |-> [type |-> e.type, marketId |-> e.marketId]]
    BY <2>1, <2>2 DEF AgreesWith
  <2> QED BY <2>2, <2>3
<1> QED BY <1>1, IndexerInvariant, PTL

\* As long as the chain keeps what it confirmed, the pool shown is the number
\* of the bets indexed, though overlapping polls and restarts append the same
\* log to the journal again (listener.ts:160-163, projections.ts:244-251).
THEOREM BetsCountedOnce == IndexerSpec => []PoolsCountBetsOnce
<1>1. IndexerInv => PoolsCountBetsOnce
  <2> SUFFICES ASSUME IndexerInv, ~deep, NEW m \in DOMAIN Current(db).markets
               PROVE  Current(db).markets[m].totalPool =
                        Cardinality(BetsOn(m, Current(db).processedEventIds))
    BY DEF PoolsCountBetsOnce
  <2>1. PICK v, w : v = Current(db) /\ w = R!Replay(db.journal)
    OBVIOUS
  <2>2. Same(v, w)
    BY <2>1 DEF IndexerInv, AllOK, StateOK
  <2>3. Counted(blocks, w)
    BY <2>1 DEF IndexerInv, AllSound, Sound
  <2>4. /\ m \in DOMAIN w.markets
        /\ v.markets[m].totalPool = w.markets[m].totalPool
        /\ v.processedEventIds = w.processedEventIds
    BY <2>1, <2>2 DEF Same, SameFacts
  <2>5. w.markets[m].totalPool =
          Cardinality(BetsAmong(blocks, m, w.processedEventIds))
    BY <2>3, <2>4 DEF Counted
  <2>6. BetsOn(m, v.processedEventIds) =
          BetsAmong(blocks, m, v.processedEventIds)
    BY DEF BetsOn, BetsAmong
  <2> QED BY <2>1, <2>4, <2>5, <2>6
<1> QED BY <1>1, IndexerInvariant, PTL

=============================================================================
