---------------------------- MODULE MoneroGateway ----------------------------
(***************************************************************************)
(* Native XMR of the gateway: the ledger of deposits and withdrawals       *)
(* (cryptoLedger.ts) and its file, the handlers of moneroService.ts, the   *)
(* wallet behind moneroRpc.ts, and the timer of cli.ts that polls it.      *)
(*                                                                         *)
(* A handler runs alone between two awaits: each stretch is one action.    *)
(* One unit of XMR is what each transaction pays to a subaddress and what  *)
(* each withdrawal asks for.  The amounts and the status of a deposit are  *)
(* functions of its transfers, so they are not kept.  Requests refused for *)
(* their fields, deadline or nonce change nothing and are left out.        *)
(*                                                                         *)
(* isAddress accepts an address in lower case and with its checksum.  The  *)
(* ledger compares beneficiaries in lower case, and a signature is of the  *)
(* address however it is spelled; only the nonces are kept by spelling.    *)
(***************************************************************************)
EXTENDS Integers, Sequences, FiniteSets

CONSTANTS
  Creates,      \* bound on the calls of createDeposit; names their subaddress
  Submits,      \* bound on the calls of submitWithdrawal
  Syncs,        \* bound on the overlapping runs of syncDeposits
  Owners,       \* beneficiaries
  Spellings,    \* the spellings of their addresses
  ownerOf,      \* whose each of them is
  Keys,         \* idempotency keys
  Txs,          \* Monero transactions
  DepositRequests,     \* what the calls of createDeposit may ask for
  WithdrawalRequests,  \* and those of submitWithdrawal
  MaxCrashes,   \* bound on the number of restarts
  MaxFailures   \* bound on the number of writes of the file that fail

ASSUME MoneroAssumption ==
  /\ IsFiniteSet(Creates) /\ IsFiniteSet(Submits) /\ IsFiniteSet(Syncs)
  /\ IsFiniteSet(Txs)
  /\ DepositRequests \subseteq [Creates -> [key : Keys, owner : Owners]]
  /\ ownerOf \in [Spellings -> Owners]
  /\ WithdrawalRequests \subseteq
       [Submits -> [key : Keys, spelling : Spellings]]
  /\ MaxCrashes \in Nat /\ MaxFailures \in Nat

VARIABLES
  ledger,    \* deposits in the order they were made, withdrawals and the
             \* nonces of the spellings
  file,      \* the snapshot last written
  txOwner,   \* the deposit of each transaction seen (depositIdByTxHash)
  creates,
  submits,
  syncs,
  chain,     \* each transaction: the subaddresses it pays and how deep it is
  sent,      \* the withdrawal each call has made the wallet pay
  crashes,
  failures

calls == <<creates, submits, syncs>>
world == <<chain, sent, crashes>>
vars == <<ledger, file, txOwner, calls, world, failures>>

\* A transfer is deep when it is unlocked and has the minimum confirmations, and
\* shallow before, in the pool or in a block.
Depth == {"shallow", "deep"}

Deposit ==
  [id : Creates, key : Keys, owner : Owners,
   transfers : UNION {[T -> Depth] : T \in SUBSET Txs}]

Withdrawal ==
  [key : Keys, spelling : Spellings, status : {"pending", "submitted"}]

\* The shape of a snapshot.
IsLedger(l) ==
  /\ l.deposits \in Seq(Deposit)
  /\ DOMAIN l.withdrawals \subseteq Submits
  /\ l.withdrawals \in [DOMAIN l.withdrawals -> Withdrawal]
  /\ l.nonces \in [Spellings -> 0 .. Cardinality(Submits)]

Idle == [pc |-> "idle"]

Init ==
  /\ ledger = [deposits |-> << >>, withdrawals |-> << >>,
               nonces |-> [p \in Spellings |-> 0]]
  /\ file = ledger
  /\ txOwner = << >>
  /\ \E r \in DepositRequests :
       creates = [c \in Creates |->
                    [pc |-> "new", key |-> r[c].key, owner |-> r[c].owner]]
  /\ \E r \in WithdrawalRequests :
       submits = [s \in Submits |->
                    [pc |-> "new", nonce |-> 0, key |-> r[s].key,
                     spelling |-> r[s].spelling]]
  /\ syncs = [s \in Syncs |-> Idle]
  /\ chain = [t \in Txs |-> [to |-> {}, state |-> "none"]]
  /\ sent = << >>
  /\ crashes = 0
  /\ failures = 0

-----------------------------------------------------------------------------
\* The ledger and its file.

\* persist: the writer replaces the file in one rename, or throws and leaves
\* the old file under the new ledger.
Persist(l) ==
  /\ ledger' = l
  /\ \/ file' = l /\ UNCHANGED failures
     \/ failures < MaxFailures /\ failures' = failures + 1 /\ UNCHANGED file

Persisted == file' = ledger'

NoWrite == UNCHANGED <<ledger, file, failures>>

Deep(deposit) ==
  {t \in DOMAIN deposit.transfers : deposit.transfers[t] = "deep"}

\* confirmedAmountAtomic of the owner's deposits, one unit for each transfer.
Confirmed(o) ==
  Cardinality({p \in (DOMAIN ledger.deposits) \X Txs :
                 /\ ledger.deposits[p[1]].owner = o
                 /\ p[2] \in Deep(ledger.deposits[p[1]])})

\* Whose a withdrawal is, or the call that asks for it.
Beneficiary(record) == ownerOf[record.spelling]

\* The withdrawals of the owner, submitted or not.
Reserved(o) ==
  Cardinality({w \in DOMAIN ledger.withdrawals :
                 Beneficiary(ledger.withdrawals[w]) = o})

\* Mutant: only the withdrawals already submitted count.
AvailableSubmitted(o) ==
  Confirmed(o) -
    Cardinality({w \in DOMAIN ledger.withdrawals :
                   /\ Beneficiary(ledger.withdrawals[w]) = o
                   /\ ledger.withdrawals[w].status = "submitted"})

\* A late answer may take a confirmed transfer away again, so the difference
\* may be negative: the code has 0 then.
availableWithdrawalBalance(o) == Confirmed(o) - Reserved(o)

-----------------------------------------------------------------------------
\* createDeposit

HasDeposit(key) ==
  \E i \in DOMAIN ledger.deposits : ledger.deposits[i].key = key

\* depositForKey finds the deposit: it is the answer, whoever asks.
DepositKnown(c) ==
  /\ creates[c].pc = "new"
  /\ HasDeposit(creates[c].key)
  /\ creates' = [creates EXCEPT ![c].pc = "done"]
  /\ NoWrite
  /\ UNCHANGED <<txOwner, submits, syncs, world>>

AddressAsked(c) ==
  /\ creates[c].pc = "new"
  /\ ~HasDeposit(creates[c].key)
  /\ creates' = [creates EXCEPT ![c].pc = "asked"]
  /\ NoWrite
  /\ UNCHANGED <<txOwner, submits, syncs, world>>

\* Mutant: the key is not looked up again when the wallet answers.
AddressedAgain(c) ==
  LET k == creates[c]
  IN  /\ k.pc = "asked"
      /\ Persist([ledger EXCEPT !.deposits = Append(@,
           [id |-> c, key |-> k.key, owner |-> k.owner, transfers |-> << >>])])
      /\ creates' = [creates EXCEPT ![c].pc = "done"]
      /\ UNCHANGED <<txOwner, submits, syncs, world>>

\* The wallet has made a subaddress, new each time.  createDeposit of the
\* ledger gives up the subaddress when another call has stored the key.
Addressed(c) ==
  LET k == creates[c]
  IN  /\ k.pc = "asked"
      /\ IF HasDeposit(k.key) THEN NoWrite
           ELSE Persist([ledger EXCEPT !.deposits = Append(@,
                  [id |-> c, key |-> k.key, owner |-> k.owner,
                   transfers |-> << >>])])
      /\ creates' = [creates EXCEPT ![c].pc = "done"]
      /\ UNCHANGED <<txOwner, submits, syncs, world>>

\* createAddress throws.
NotAddressed(c) ==
  /\ creates[c].pc = "asked"
  /\ creates' = [creates EXCEPT ![c].pc = "done"]
  /\ NoWrite
  /\ UNCHANGED <<txOwner, submits, syncs, world>>

-----------------------------------------------------------------------------
\* syncDeposits, on the timer or by the operator's request.

\* One query for each deposit there is now; none is ever removed.
SyncStarts(s) ==
  /\ syncs[s] = Idle
  /\ ledger.deposits # << >>
  /\ syncs' = [syncs EXCEPT ![s] =
                 [pc |-> "asked", at |-> 1, upto |-> Len(ledger.deposits)]]
  /\ NoWrite
  /\ UNCHANGED <<txOwner, creates, submits, world>>

\* get_transfers for a subaddress.  A double spend comes too and syncDeposit
\* skips it, but only after it has looked at the owner.
Incoming(d) ==
  LET paying == {t \in Txs : d \in chain[t].to /\ chain[t].state # "none"}
  IN  [t \in paying |-> chain[t].state]

\* The wallet answers with what the chain is now; the answer may travel long.
WalletAnswers(s, i) ==
  /\ syncs[s].pc = "asked" /\ syncs[s].at = i
  /\ syncs' = [syncs EXCEPT ![s] =
                 [pc |-> "answered", at |-> i, upto |-> @.upto,
                  told |-> Incoming(ledger.deposits[i].id)]]
  /\ NoWrite
  /\ UNCHANGED <<txOwner, creates, submits, world>>

\* The call or the reading of its answer throws, and the rest of the deposits
\* are not asked about.
WalletFails(s) ==
  /\ syncs[s].pc = "asked"
  /\ syncs' = [syncs EXCEPT ![s] = Idle]
  /\ NoWrite
  /\ UNCHANGED <<txOwner, creates, submits, world>>

\* The transfers syncDeposit keeps.
Normalized(told) ==
  LET good == {t \in DOMAIN told : told[t] # "doubled"}
  IN  [t \in good |-> told[t]]

\* Mutant: one deposit too many.
OnwardPast(k) ==
  IF k.at > k.upto THEN Idle
    ELSE [pc |-> "asked", at |-> k.at + 1, upto |-> k.upto]

\* Where a run goes after one deposit.
Onward(k) ==
  IF k.at = k.upto THEN Idle
    ELSE [pc |-> "asked", at |-> k.at + 1, upto |-> k.upto]

\* Mutant: a transaction of this deposit throws too.
SyncedUnowned(s) ==
  LET k == syncs[s]
      d == ledger.deposits[k.at].id
      kept == Normalized(k.told)
      foreign == (DOMAIN k.told) \cap (DOMAIN txOwner) # {}
  IN  /\ k.pc = "answered"
      /\ IF foreign
           THEN /\ syncs' = [syncs EXCEPT ![s] = Idle]
                /\ NoWrite /\ UNCHANGED txOwner
           ELSE /\ Persist([ledger EXCEPT !.deposits[k.at].transfers = kept])
                /\ txOwner' = [t \in DOMAIN kept \cup DOMAIN txOwner |->
                                 IF t \in DOMAIN kept THEN d ELSE txOwner[t]]
                /\ syncs' = [syncs EXCEPT ![s] =
                               IF Persisted THEN Onward(k) ELSE Idle]
      /\ UNCHANGED <<creates, submits, world>>

\* syncDeposit: a transaction of another deposit throws before anything
\* changes; a failed write throws after the ledger has changed.
Synced(s) ==
  LET k == syncs[s]
      d == ledger.deposits[k.at].id
      kept == Normalized(k.told)
      foreign == \E t \in (DOMAIN k.told) \cap (DOMAIN txOwner) : txOwner[t] # d
  IN  /\ k.pc = "answered"
      /\ IF foreign
           THEN /\ syncs' = [syncs EXCEPT ![s] = Idle]
                /\ NoWrite /\ UNCHANGED txOwner
           ELSE /\ Persist([ledger EXCEPT !.deposits[k.at].transfers = kept])
                /\ txOwner' = [t \in DOMAIN kept \cup DOMAIN txOwner |->
                                 IF t \in DOMAIN kept THEN d ELSE txOwner[t]]
                /\ syncs' = [syncs EXCEPT ![s] =
                               IF Persisted THEN Onward(k) ELSE Idle]
      /\ UNCHANGED <<creates, submits, world>>

-----------------------------------------------------------------------------
\* submitWithdrawal

HasWithdrawal(key) ==
  \E w \in DOMAIN ledger.withdrawals : ledger.withdrawals[w].key = key

\* withdrawalForKey finds the withdrawal, pending or submitted: the answer.
WithdrawalKnown(s) ==
  /\ submits[s].pc = "new"
  /\ HasWithdrawal(submits[s].key)
  /\ submits' = [submits EXCEPT ![s].pc = "done"]
  /\ NoWrite
  /\ UNCHANGED <<txOwner, creates, syncs, world>>

\* The request carries the nonce of the spelling, and its signature is looked
\* at: the key is not signed, and the spelling is not either.
WithdrawalBegun(s) ==
  /\ submits[s].pc = "new"
  /\ ~HasWithdrawal(submits[s].key)
  /\ submits' = [submits EXCEPT ![s].pc = "verify",
                                ![s].nonce = ledger.nonces[submits[s].spelling]]
  /\ NoWrite
  /\ UNCHANGED <<txOwner, creates, syncs, world>>

Added(f, x, y) ==
  [z \in DOMAIN f \cup {x} |-> IF z \in DOMAIN f THEN f[z] ELSE y]

\* The ledger with the withdrawal of a call and the nonce consumed.
WithReservation(s) ==
  LET k == submits[s]
  IN  [ledger EXCEPT
         !.withdrawals = Added(@, s, [key |-> k.key, spelling |-> k.spelling,
                                      status |-> "pending"]),
         !.nonces[k.spelling] = k.nonce + 1]

\* Mutant: the transfer is asked for although the file was not written.
ReservesInMemory(s) ==
  /\ submits[s].pc = "verify"
  /\ submits[s].nonce = ledger.nonces[submits[s].spelling]
  /\ ~HasWithdrawal(submits[s].key)
  /\ availableWithdrawalBalance(Beneficiary(submits[s])) >= 1
  /\ Persist(WithReservation(s))
  /\ submits' = [submits EXCEPT ![s].pc = "transfer"]
  /\ UNCHANGED <<txOwner, creates, syncs, world>>

\* The signature is valid: reserveWithdrawal.  The same request under a known
\* key, whose nonce is still that of its spelling, gets the withdrawal there is,
\* pending or submitted, and goes on to the transfer.
Reserves(s) ==
  LET k == submits[s]
  IN  /\ k.pc = "verify"
      /\ k.nonce = ledger.nonces[k.spelling]
      /\ \/ /\ \E w \in DOMAIN ledger.withdrawals :
                 /\ ledger.withdrawals[w].key = k.key
                 /\ Beneficiary(ledger.withdrawals[w]) = Beneficiary(k)
            /\ submits' = [submits EXCEPT ![s].pc = "transfer"]
            /\ NoWrite
         \/ /\ ~HasWithdrawal(k.key)
            /\ availableWithdrawalBalance(Beneficiary(k)) >= 1
            /\ Persist(WithReservation(s))
            /\ submits' = [submits EXCEPT ![s].pc =
                             IF Persisted THEN "transfer" ELSE "done"]
      /\ UNCHANGED <<txOwner, creates, syncs, world>>

\* The signature is invalid, or reserveWithdrawal throws.
NotReserved(s) ==
  /\ submits[s].pc = "verify"
  /\ submits' = [submits EXCEPT ![s].pc = "done"]
  /\ NoWrite
  /\ UNCHANGED <<txOwner, creates, syncs, world>>

\* The withdrawal a call works on.
WithdrawalOf(s) ==
  CHOOSE w \in DOMAIN ledger.withdrawals :
    ledger.withdrawals[w].key = submits[s].key

\* The wallet pays; its answer is under way.
WalletPays(s) ==
  /\ submits[s].pc = "transfer"
  /\ sent' = Added(sent, s, WithdrawalOf(s))
  /\ submits' = [submits EXCEPT ![s].pc = "paid"]
  /\ NoWrite
  /\ UNCHANGED <<txOwner, creates, syncs, chain, crashes>>

\* transfer throws before or after the wallet has paid: the withdrawal stays
\* pending, for the operator's review.
WalletSilent(s) ==
  /\ submits[s].pc \in {"transfer", "paid"}
  /\ submits' = [submits EXCEPT ![s].pc = "done"]
  /\ NoWrite
  /\ UNCHANGED <<txOwner, creates, syncs, world>>

\* markWithdrawalSubmitted, which refuses a second time.
Marked(s) ==
  /\ submits[s].pc = "paid"
  /\ IF ledger.withdrawals[WithdrawalOf(s)].status = "submitted" THEN NoWrite
       ELSE Persist([ledger EXCEPT
              !.withdrawals[WithdrawalOf(s)].status = "submitted"])
  /\ submits' = [submits EXCEPT ![s].pc = "done"]
  /\ UNCHANGED <<txOwner, creates, syncs, world>>

-----------------------------------------------------------------------------
\* The chain and the restart.

\* Somebody pays one or two of the subaddresses that were given out.
Pay(t) ==
  /\ chain[t].state = "none"
  /\ \E to \in SUBSET {ledger.deposits[i].id : i \in DOMAIN ledger.deposits} :
       /\ to # {}
       /\ chain' = [chain EXCEPT ![t] = [to |-> to, state |-> "shallow"]]
  /\ UNCHANGED <<ledger, file, failures, txOwner, calls, sent, crashes>>

\* Blocks follow, or a double spend takes its place before it is deep.
Progress(t) ==
  /\ chain[t].state = "shallow"
  /\ \E to \in {"deep", "doubled"} : chain' = [chain EXCEPT ![t].state = to]
  /\ UNCHANGED <<ledger, file, failures, txOwner, calls, sent, crashes>>

\* Mutant: the owners are forgotten.
NoOwners(l) == << >>

\* The constructor of the ledger finds the owners again from the transfers.
OwnersOf(l) ==
  LET seen(t) == {i \in DOMAIN l.deposits : t \in DOMAIN l.deposits[i].transfers}
  IN  [t \in {t \in Txs : seen(t) # {}} |->
         l.deposits[CHOOSE i \in seen(t) : TRUE].id]

\* Calls under way are lost.
Stopped(started) ==
  [c \in DOMAIN started |->
     IF started[c].pc = "new" THEN started[c]
                              ELSE [started[c] EXCEPT !.pc = "done"]]

Crash ==
  /\ crashes < MaxCrashes
  /\ crashes' = crashes + 1
  /\ ledger' = file
  /\ txOwner' = OwnersOf(file)
  /\ creates' = Stopped(creates)
  /\ submits' = Stopped(submits)
  /\ syncs' = [s \in Syncs |-> Idle]
  /\ UNCHANGED <<file, failures, chain, sent>>

Next ==
  \/ \E c \in Creates :
       DepositKnown(c) \/ AddressAsked(c) \/ Addressed(c) \/ NotAddressed(c)
  \/ \E s \in Syncs :
       \/ SyncStarts(s) \/ WalletFails(s) \/ Synced(s)
       \/ \E i \in DOMAIN ledger.deposits : WalletAnswers(s, i)
  \/ \E s \in Submits :
       \/ WithdrawalKnown(s) \/ WithdrawalBegun(s) \/ Reserves(s)
       \/ NotReserved(s) \/ WalletPays(s) \/ WalletSilent(s) \/ Marked(s)
  \/ \E t \in Txs : Pay(t) \/ Progress(t)
  \/ Crash

\* The timer of cli.ts goes on for ever, the wallet answers about each deposit
\* again and again, and what has arrived is handled.
Fairness ==
  \A s \in Syncs :
    /\ WF_vars(SyncStarts(s))
    /\ \A i \in 1 .. Cardinality(Creates) : SF_vars(WalletAnswers(s, i))
    /\ WF_vars(Synced(s))

Spec == Init /\ [][Next]_vars /\ Fairness

-----------------------------------------------------------------------------
(***************************************************************************)
(* Properties                                                              *)
(***************************************************************************)

\* Every variable keeps its type.
TypeOK ==
  /\ IsLedger(ledger) /\ IsLedger(file)
  /\ DOMAIN txOwner \subseteq Txs
  /\ \A t \in DOMAIN txOwner : txOwner[t] \in Creates
  /\ \A c \in Creates : creates[c].pc \in {"new", "asked", "done"}
  /\ \A s \in Submits :
       /\ submits[s].pc \in {"new", "verify", "transfer", "paid", "done"}
       /\ submits[s].pc \in {"transfer", "paid"} => HasWithdrawal(submits[s].key)
  /\ \A s \in Syncs :
       syncs[s] # Idle => syncs[s].at <= syncs[s].upto
                          /\ syncs[s].upto <= Len(ledger.deposits)
  /\ \A t \in Txs : chain[t].to \subseteq Creates
  /\ DOMAIN sent \subseteq Submits
  /\ crashes \in 0 .. MaxCrashes /\ failures \in 0 .. MaxFailures

\* A key has one deposit and a transaction is credited to one deposit, however
\* calls and answers overlap and whatever the restart forgets (createDeposit,
\* syncDeposit: "Monero transaction belongs to another deposit.").
NoDoubleCredit ==
  \A i, j \in DOMAIN ledger.deposits :
    i # j => /\ ledger.deposits[i].key # ledger.deposits[j].key
             /\ DOMAIN ledger.deposits[i].transfers \cap
                  DOMAIN ledger.deposits[j].transfers = {}

\* The calls for the owner all spell the address alike.
SpelledAlike(o) ==
  \A s, r \in Submits :
    Beneficiary(submits[s]) = o /\ Beneficiary(submits[r]) = o
      => submits[s].spelling = submits[r].spelling

\* The wallet pays once for a withdrawal, and once for a signed nonce; what it
\* has paid is in the file, so that no restart forgets it (submitWithdrawal
\* reserves before it transfers and never tries a transfer again).  All this
\* for an owner whose calls spell the address alike, and not otherwise: the
\* nonces are kept by the spelling (reserveWithdrawal), so that a second one
\* finds the nonce unspent, and pays for it again under another key; with the
\* same key, calls that overlap pay twice for one withdrawal.
PaidOnceAndOnDisk ==
  \A s \in DOMAIN sent : SpelledAlike(Beneficiary(submits[s])) =>
    /\ sent[s] \in DOMAIN file.withdrawals
    /\ \A r \in DOMAIN sent \ {s} :
         /\ sent[s] # sent[r]
         /\ Beneficiary(submits[s]) = Beneficiary(submits[r])
              => submits[s].nonce # submits[r].nonce

\* The wallet has paid the owner no more than the deep transfers to the owner's
\* subaddresses.
Covered(o) ==
  Cardinality({s \in DOMAIN sent : Beneficiary(submits[s]) = o}) <=
    Cardinality({p \in Txs \X Creates :
                   /\ chain[p[1]].state = "deep"
                   /\ p[2] \in chain[p[1]].to
                   /\ creates[p[2]].owner = o})

\* The wallet pays an owner no more than the deep transfers to the owner's
\* subaddresses, however late the answers it has counted are
\* (availableWithdrawalBalance), as long as the owner's calls spell the address
\* alike: see PaidOnceAndOnDisk for what happens when they do not.
WithdrawalsAreFunded == \A o \in Owners : SpelledAlike(o) => Covered(o)

OnDisk(c) == \E i \in DOMAIN file.deposits : file.deposits[i].id = c

Credited(c, t) ==
  \E i \in DOMAIN ledger.deposits :
    ledger.deposits[i].id = c /\ t \in Deep(ledger.deposits[i])

\* A deep payment to a deposit on disk is credited in the end and stays so,
\* across late answers, failed calls, failed writes and restarts, as long as
\* no transaction pays two deposits: such a transaction makes syncDeposit
\* throw, and every later deposit waits for ever (syncDeposits).
DeepPaymentsAreCredited ==
  [](\A t \in Txs : Cardinality(chain[t].to) <= 1) =>
    \A t \in Txs, c \in Creates :
      (chain[t].state = "deep" /\ c \in chain[t].to /\ OnDisk(c))
        ~> [](Credited(c, t))
=============================================================================
