------------------------- MODULE MoneroGateway_proofs -------------------------
(***************************************************************************)
(* What the native XMR of the gateway guarantees for any calls, polls,     *)
(* owners, keys and transactions, and any number of restarts and failed    *)
(* writes.                                                                 *)
(*                                                                         *)
(* A restart puts the file in the place of the ledger, so whatever is      *)
(* needed of the ledger is needed of the file as well (LedgerOK is asked   *)
(* of both).  It says what a ledger has to do with the calls and with the  *)
(* chain: its deposits are those of calls that are done (DepositsOK), its  *)
(* transfers were on the chain (TransfersOK), each of its withdrawals used *)
(* up a nonce of its spelling (WithdrawalsOK) and is covered by a deep     *)
(* transfer (FundedOK).  That a call pays for its own withdrawal (SubmitOK, *)
(* SentOK) is so for an owner whose calls spell the address alike.         *)
(***************************************************************************)
EXTENDS MoneroGateway, FiniteSetTheorems, FunctionTheorems, SequenceTheorems, TLAPS

Partial(A, B) == UNION {[T -> B] : T \in SUBSET A}

Snapshot == [deposits : Seq(Deposit), withdrawals : Partial(Submits, Withdrawal),
             nonces : [Spellings -> Nat]]

MoneroTypes ==
  /\ creates \in [Creates -> [pc : {"new", "asked", "done"},
                              key : Keys, owner : Owners]]
  /\ submits \in [Submits -> [pc : {"new", "verify", "transfer", "paid", "done"},
                              nonce : Nat, key : Keys, spelling : Spellings]]
  /\ chain \in [Txs -> [to : SUBSET Creates, state : Depth \cup {"none", "doubled"}]]
  /\ \A t \in Txs : chain[t].state = "none" => chain[t].to = {}
  /\ crashes \in 0 .. MaxCrashes /\ failures \in 0 .. MaxFailures

\* Each deposit of a ledger is the one its call asked for, and two deposits are
\* of different calls and keys.
DepositsOK(l, cs) ==
  /\ \A i \in DOMAIN l.deposits :
       /\ cs[l.deposits[i].id].pc = "done"
       /\ l.deposits[i].key = cs[l.deposits[i].id].key
       /\ l.deposits[i].owner = cs[l.deposits[i].id].owner
  /\ \A i, j \in DOMAIN l.deposits :
       i # j => /\ l.deposits[i].id # l.deposits[j].id
                /\ l.deposits[i].key # l.deposits[j].key

\* The transfers of a deposit are on the chain, to its subaddress, and are deep
\* there if they are deep here; none is of two deposits.
TransfersOK(l, ch) ==
  /\ \A i \in DOMAIN l.deposits : \A t \in DOMAIN l.deposits[i].transfers :
       /\ l.deposits[i].id \in ch[t].to
       /\ l.deposits[i].transfers[t] = "deep" => ch[t].state = "deep"
  /\ \A i, j \in DOMAIN l.deposits :
       i # j => DOMAIN l.deposits[i].transfers \cap
                  DOMAIN l.deposits[j].transfers = {}

ReservedOf(l, o) ==
  {w \in DOMAIN l.withdrawals : Beneficiary(l.withdrawals[w]) = o}

SpelledOf(l, p) == {w \in DOMAIN l.withdrawals : l.withdrawals[w].spelling = p}

\* Each withdrawal is the one its call asked for and has a nonce of its own
\* below the next one of its spelling, which is the number of its withdrawals.
WithdrawalsOK(l, ss) ==
  /\ \A w \in DOMAIN l.withdrawals :
       /\ ss[w].pc \in {"transfer", "paid", "done"}
       /\ l.withdrawals[w].key = ss[w].key
       /\ l.withdrawals[w].spelling = ss[w].spelling
       /\ ss[w].nonce < l.nonces[ss[w].spelling]
  /\ \A v, w \in DOMAIN l.withdrawals :
       v # w => /\ ss[v].key # ss[w].key
                /\ <<ss[v].spelling, ss[v].nonce>> # <<ss[w].spelling, ss[w].nonce>>
  /\ \A p \in Spellings : l.nonces[p] = Cardinality(SpelledOf(l, p))

\* The payments that are deep on the chain, to subaddresses of the owner.
DeepPayments(o, cs, ch) ==
  {p \in Txs \X Creates :
     /\ ch[p[1]].state = "deep"
     /\ p[2] \in ch[p[1]].to
     /\ cs[p[2]].owner = o}

FundedOK(l, cs, ch) ==
  \A o \in Owners :
    Cardinality(ReservedOf(l, o)) <= Cardinality(DeepPayments(o, cs, ch))

LedgerOK(l, cs, ss, ch) ==
  /\ l \in Snapshot
  /\ DepositsOK(l, cs)
  /\ TransfersOK(l, ch)
  /\ WithdrawalsOK(l, ss)
  /\ FundedOK(l, cs, ch)

\* The owners of transactions cover the transfers of the ledger.
OwnersOK ==
  /\ DOMAIN txOwner \subseteq Txs
  /\ \A t \in DOMAIN txOwner : txOwner[t] \in Creates
  /\ \A i \in DOMAIN ledger.deposits :
       \A t \in DOMAIN ledger.deposits[i].transfers :
         t \in DOMAIN txOwner /\ txOwner[t] = ledger.deposits[i].id

\* A run of syncDeposits is at a deposit there is, and what it was told of was
\* so on the chain.
SyncOK(k, l, ch) ==
  \/ k = Idle
  \/ /\ k.pc \in {"asked", "answered"}
     /\ k.upto \in 1 .. Len(l.deposits)
     /\ k.at \in 1 .. k.upto
     /\ k.pc = "answered" =>
          /\ k.told \in Partial(Txs, Depth \cup {"doubled"})
          /\ \A t \in DOMAIN k.told :
               /\ l.deposits[k.at].id \in ch[t].to
               /\ k.told[t] = "deep" => ch[t].state = "deep"

SyncsOK ==
  /\ DOMAIN syncs = Syncs
  /\ \A s \in Syncs : SyncOK(syncs[s], ledger, chain)

\* The calls for the owner of call s spell the address as it does.
AlikeTo(ss, s) ==
  \A r \in Submits : Beneficiary(ss[r]) = Beneficiary(ss[s])
                       => ss[r].spelling = ss[s].spelling

\* A call that is verified does not find a withdrawal of its key and spelling
\* under the nonce it holds; one that transfers works on a withdrawal of its key
\* and owner, and on its own, in memory and on disk, if its owner's calls spell
\* the address alike.
SubmitOK(s, ss, l, f) ==
  /\ ss[s].pc = "verify" =>
       /\ ss[s].nonce <= l.nonces[ss[s].spelling]
       /\ \A w \in DOMAIN l.withdrawals :
            ss[w].key = ss[s].key /\ ss[w].spelling = ss[s].spelling
              => ss[s].nonce < l.nonces[ss[s].spelling]
  /\ ss[s].pc \in {"transfer", "paid"} =>
       /\ \E w \in DOMAIN l.withdrawals :
            ss[w].key = ss[s].key /\ Beneficiary(ss[w]) = Beneficiary(ss[s])
       /\ AlikeTo(ss, s) =>
            s \in DOMAIN l.withdrawals /\ s \in DOMAIN f.withdrawals

SubmitsOK == \A s \in Submits : SubmitOK(s, submits, ledger, file)

\* What the wallet was made to pay is a withdrawal of the call's owner, and the
\* call's own if the owner's calls spell the address alike.
SentOK ==
  /\ DOMAIN sent \subseteq Submits
  /\ \A s \in DOMAIN sent :
       /\ sent[s] \in Submits
       /\ Beneficiary(submits[sent[s]]) = Beneficiary(submits[s])
       /\ AlikeTo(submits, s) =>
            /\ s \in DOMAIN ledger.withdrawals /\ s \in DOMAIN file.withdrawals
            /\ sent[s] = s

MoneroInv ==
  /\ MoneroTypes
  /\ LedgerOK(ledger, creates, submits, chain)
  /\ LedgerOK(file, creates, submits, chain)
  /\ OwnersOK /\ SyncsOK /\ SubmitsOK /\ SentOK

-----------------------------------------------------------------------------
\* Lemmas about the data.

LEMMA PartialFunction ==
  ASSUME NEW A, NEW B, NEW f
  PROVE  f \in Partial(A, B) <=> DOMAIN f \subseteq A /\ f \in [DOMAIN f -> B]
  BY DEF Partial

LEMMA NoTransfers ==
  /\ << >> \in Partial(Txs, Depth) /\ << >> \in Partial(Submits, Withdrawal)
  /\ DOMAIN << >> = {}
<1>1. << >> \in Seq(Depth) /\ << >> \in Seq(Withdrawal) /\ Len(<< >>) = 0
  BY EmptySeq
<1>2. << >> \in [{} -> Depth] /\ << >> \in [{} -> Withdrawal] /\ DOMAIN << >> = {}
  <2>1. 1 .. 0 = {}
    OBVIOUS
  <2> QED BY <1>1, <2>1, LenProperties
<1> QED BY <1>2, PartialFunction

LEMMA DepositIs ==
  ASSUME NEW d
  PROVE  d \in Deposit <=>
           d \in [id : Creates, key : Keys, owner : Owners,
                 transfers : Partial(Txs, Depth)]
  BY DEF Deposit, Partial

LEMMA SnapshotParts ==
  ASSUME NEW l \in Snapshot
  PROVE  /\ l.deposits \in Seq(Deposit)
         /\ DOMAIN l.deposits = 1 .. Len(l.deposits) /\ Len(l.deposits) \in Nat
         /\ \A i \in DOMAIN l.deposits :
              /\ l.deposits[i] \in Deposit
              /\ l.deposits[i].id \in Creates /\ l.deposits[i].key \in Keys
              /\ l.deposits[i].owner \in Owners
              /\ DOMAIN l.deposits[i].transfers \subseteq Txs
              /\ l.deposits[i].transfers
                   \in [DOMAIN l.deposits[i].transfers -> Depth]
         /\ DOMAIN l.withdrawals \subseteq Submits
         /\ l.withdrawals \in [DOMAIN l.withdrawals -> Withdrawal]
         /\ l.nonces \in [Spellings -> Nat]
<1>1. /\ l.deposits \in Seq(Deposit) /\ l.nonces \in [Spellings -> Nat]
      /\ l.withdrawals \in Partial(Submits, Withdrawal)
  BY DEF Snapshot
<1>2. DOMAIN l.deposits = 1 .. Len(l.deposits) /\ Len(l.deposits) \in Nat
  BY <1>1
<1>3. ASSUME NEW i \in DOMAIN l.deposits
      PROVE  l.deposits[i] \in Deposit
  BY <1>1, <1>2, ElementOfSeq
<1>4. ASSUME NEW i \in DOMAIN l.deposits
      PROVE  /\ l.deposits[i].id \in Creates /\ l.deposits[i].key \in Keys
             /\ l.deposits[i].owner \in Owners
             /\ l.deposits[i].transfers \in Partial(Txs, Depth)
  BY <1>3, DepositIs
<1> QED BY <1>1, <1>2, <1>3, <1>4, PartialFunction

-----------------------------------------------------------------------------
\* A ledger that does not change stays right: calls only end and the chain
\* only grows.

Later(cs, ss, ch, cs2, ss2, ch2) ==
  /\ \A c \in Creates :
       /\ cs2[c].key = cs[c].key /\ cs2[c].owner = cs[c].owner
       /\ cs[c].pc = "done" => cs2[c].pc = "done"
  /\ \A s \in Submits :
       /\ ss2[s].key = ss[s].key /\ ss2[s].spelling = ss[s].spelling
       /\ ss[s].pc \in {"transfer", "paid", "done"} =>
            /\ ss2[s].pc \in {"transfer", "paid", "done"}
            /\ ss2[s].nonce = ss[s].nonce
  /\ \A t \in Txs :
       /\ ch[t].to \subseteq ch2[t].to
       /\ ch[t].state = "deep" => ch2[t].state = "deep"

LEMMA DeepPaymentsFinite ==
  ASSUME MoneroAssumption, NEW o, NEW cs, NEW ch
  PROVE  IsFiniteSet(DeepPayments(o, cs, ch))
<1>1. IsFiniteSet(Txs \X Creates)
  BY FS_Product DEF MoneroAssumption
<1>2. DeepPayments(o, cs, ch) \in SUBSET (Txs \X Creates)
  BY DEF DeepPayments
<1> QED BY <1>1, <1>2, FS_Subset

LEMMA LedgerStays ==
  ASSUME MoneroAssumption,
         NEW l, NEW cs, NEW ss, NEW ch, NEW cs2, NEW ss2, NEW ch2,
         LedgerOK(l, cs, ss, ch), Later(cs, ss, ch, cs2, ss2, ch2)
  PROVE  LedgerOK(l, cs2, ss2, ch2)
<1>1. l \in Snapshot
  BY DEF LedgerOK
<1>2. DepositsOK(l, cs2)
  <2>1. \A i \in DOMAIN l.deposits : l.deposits[i].id \in Creates
    BY <1>1, SnapshotParts
  <2> QED BY <2>1 DEF LedgerOK, DepositsOK, Later
<1>3. TransfersOK(l, ch2)
  BY <1>1, SnapshotParts DEF LedgerOK, TransfersOK, Later
<1>4. WithdrawalsOK(l, ss2)
  BY <1>1, SnapshotParts DEF LedgerOK, WithdrawalsOK, Later
<1>5. ASSUME NEW o \in Owners
      PROVE  Cardinality(ReservedOf(l, o)) <= Cardinality(DeepPayments(o, cs2, ch2))
  <2>1. DeepPayments(o, cs, ch) \in SUBSET DeepPayments(o, cs2, ch2)
    BY DEF DeepPayments, Later
  <2>2. IsFiniteSet(DeepPayments(o, cs, ch)) /\ IsFiniteSet(DeepPayments(o, cs2, ch2))
    BY DeepPaymentsFinite
  <2>3. IsFiniteSet(ReservedOf(l, o))
    <3>1. ReservedOf(l, o) \in SUBSET Submits
      BY <1>1, SnapshotParts DEF ReservedOf
    <3> QED BY <3>1, FS_Subset DEF MoneroAssumption
  <2>4. Cardinality(ReservedOf(l, o)) <= Cardinality(DeepPayments(o, cs, ch))
    BY DEF LedgerOK, FundedOK
  <2> QED BY <2>1, <2>2, <2>3, <2>4, FS_Subset, FS_CardinalityType
<1>6. FundedOK(l, cs2, ch2)
  BY <1>5 DEF FundedOK
<1> QED BY <1>1, <1>2, <1>3, <1>4, <1>6 DEF LedgerOK

-----------------------------------------------------------------------------
\* The four ways a ledger changes.

DepositAt(c, cs) ==
  [id |-> c, key |-> cs[c].key, owner |-> cs[c].owner, transfers |-> << >>]

LEMMA DepositAdded ==
  ASSUME MoneroAssumption, MoneroTypes,
         NEW l, NEW cs, NEW ss, NEW ch, NEW c \in Creates, NEW cs2,
         LedgerOK(l, cs, ss, ch), LedgerOK(l, cs2, ss, ch),
         cs[c].key \in Keys, cs[c].owner \in Owners, cs[c].pc = "asked",
         cs2[c].pc = "done", cs2[c].key = cs[c].key, cs2[c].owner = cs[c].owner,
         \A i \in DOMAIN l.deposits : l.deposits[i].key # cs[c].key
  PROVE  LedgerOK([l EXCEPT !.deposits = Append(@, DepositAt(c, cs))], cs2, ss, ch)
<1> DEFINE d == DepositAt(c, cs)
           m == [l EXCEPT !.deposits = Append(@, d)]
           n == Len(l.deposits)
<1>1. l \in Snapshot
  BY DEF LedgerOK
<1>2. d \in Deposit
  <2>1. << >> \in Partial(Txs, Depth)
    BY NoTransfers
  <2> QED BY <2>1, DepositIs DEF DepositAt
<1>3. /\ m.deposits = Append(l.deposits, d)
      /\ m.withdrawals = l.withdrawals /\ m.nonces = l.nonces
      /\ m \in Snapshot
  <2>1. Append(l.deposits, d) \in Seq(Deposit)
    BY <1>1, <1>2, SnapshotParts
  <2>2. \A s \in Seq(Deposit) :
          /\ [l EXCEPT !.deposits = s].deposits = s
          /\ [l EXCEPT !.deposits = s].withdrawals = l.withdrawals
          /\ [l EXCEPT !.deposits = s].nonces = l.nonces
          /\ [l EXCEPT !.deposits = s] \in Snapshot
    BY <1>1 DEF Snapshot
  <2> QED BY <2>1, <2>2
<1>4. /\ DOMAIN l.deposits = 1 .. n /\ n \in Nat
      /\ DOMAIN m.deposits = 1 .. n + 1
      /\ \A i \in 1 .. n : m.deposits[i] = l.deposits[i]
      /\ m.deposits[n + 1] = d
  BY <1>1, <1>2, <1>3, SnapshotParts
<1>5. /\ d.id = c /\ d.key = cs[c].key /\ d.owner = cs[c].owner
      /\ DOMAIN d.transfers = {}
  BY DEF DepositAt
<1> HIDE DEF d, m, n
<1>6. DepositsOK(m, cs2)
  <2>1. \A i \in 1 .. n : l.deposits[i].id # c /\ l.deposits[i].key # cs[c].key
    BY <1>4 DEF LedgerOK, DepositsOK
  <2>2. \A i \in DOMAIN m.deposits :
          /\ cs2[m.deposits[i].id].pc = "done"
          /\ m.deposits[i].key = cs2[m.deposits[i].id].key
          /\ m.deposits[i].owner = cs2[m.deposits[i].id].owner
    BY <1>4, <1>5 DEF LedgerOK, DepositsOK
  <2>3. \A i, j \in 1 .. n + 1 :
          i # j => /\ m.deposits[i].id # m.deposits[j].id
                   /\ m.deposits[i].key # m.deposits[j].key
    <3>1. \A i, j \in 1 .. n :
            i # j => /\ l.deposits[i].id # l.deposits[j].id
                     /\ l.deposits[i].key # l.deposits[j].key
      BY <1>4 DEF LedgerOK, DepositsOK
    <3>2. \A i \in 1 .. n + 1 : i \in 1 .. n \/ i = n + 1
      BY <1>4
    <3> QED BY <1>4, <1>5, <2>1, <3>1, <3>2
  <2> QED BY <1>4, <2>2, <2>3 DEF DepositsOK
<1>7. TransfersOK(m, ch)
  <2>1. TransfersOK(l, ch)
    BY DEF LedgerOK
  <2>2. \A i \in 1 .. n + 1 : i \in 1 .. n \/ i = n + 1
    BY <1>4
  <2>3. \A i \in 1 .. n : DOMAIN m.deposits[i].transfers = DOMAIN l.deposits[i].transfers
    BY <1>4
  <2>4. \A i \in 1 .. n + 1 : \A t \in DOMAIN m.deposits[i].transfers :
          /\ m.deposits[i].id \in ch[t].to
          /\ m.deposits[i].transfers[t] = "deep" => ch[t].state = "deep"
    <3>1. ASSUME NEW i \in 1 .. n, NEW t \in DOMAIN m.deposits[i].transfers
          PROVE  /\ m.deposits[i].id \in ch[t].to
                 /\ m.deposits[i].transfers[t] = "deep" => ch[t].state = "deep"
      <4>1. m.deposits[i] = l.deposits[i] /\ i \in DOMAIN l.deposits
        BY <1>4
      <4> QED BY <2>1, <3>1, <4>1 DEF TransfersOK
    <3>2. DOMAIN m.deposits[n + 1].transfers = {}
      BY <1>4, <1>5
    <3> QED BY <2>2, <3>1, <3>2
  <2>5. \A i, j \in 1 .. n + 1 :
          i # j => DOMAIN m.deposits[i].transfers \cap DOMAIN m.deposits[j].transfers = {}
    BY <1>4, <1>5, <2>1, <2>2, <2>3 DEF TransfersOK
  <2> QED BY <1>4, <2>4, <2>5 DEF TransfersOK
<1>8. WithdrawalsOK(m, ss) /\ FundedOK(m, cs2, ch)
  BY <1>3 DEF LedgerOK, WithdrawalsOK, FundedOK, ReservedOf, SpelledOf
<1> QED BY <1>3, <1>6, <1>7, <1>8 DEF LedgerOK, m, d

\* These transfers may be put down for the deposit.
Fitting(l, k, kept, ch) ==
  /\ k \in DOMAIN l.deposits /\ kept \in Partial(Txs, Depth)
  /\ \A t \in DOMAIN kept :
       /\ l.deposits[k].id \in ch[t].to
       /\ kept[t] = "deep" => ch[t].state = "deep"
  /\ \A i \in DOMAIN l.deposits :
       i # k => DOMAIN kept \cap DOMAIN l.deposits[i].transfers = {}

Putting(l, k, kept) == [l EXCEPT !.deposits[k].transfers = kept]

LEMMA TransfersSet ==
  ASSUME NEW l, NEW cs, NEW ss, NEW ch, LedgerOK(l, cs, ss, ch),
         NEW k, NEW kept, Fitting(l, k, kept, ch)
  PROVE  /\ LedgerOK(Putting(l, k, kept), cs, ss, ch)
         /\ Putting(l, k, kept).deposits[k].transfers = kept
<1> DEFINE m == Putting(l, k, kept)
<1> USE DEF Fitting
<1>1. l \in Snapshot
  BY DEF LedgerOK
<1>2. /\ l.deposits[k] \in [id : Creates, key : Keys, owner : Owners,
                            transfers : Partial(Txs, Depth)]
      /\ [l.deposits[k] EXCEPT !.transfers = kept] \in Deposit
  <2>1. l.deposits[k] \in Deposit
    BY <1>1, SnapshotParts
  <2> QED BY <2>1, DepositIs
<1>3. /\ m.deposits = [l.deposits EXCEPT ![k] = [@ EXCEPT !.transfers = kept]]
      /\ m.withdrawals = l.withdrawals /\ m.nonces = l.nonces
  BY <1>1 DEF Snapshot, Putting
<1>4. /\ DOMAIN m.deposits = DOMAIN l.deposits
      /\ \A i \in DOMAIN l.deposits : i # k => m.deposits[i] = l.deposits[i]
      /\ m.deposits[k].id = l.deposits[k].id
      /\ m.deposits[k].key = l.deposits[k].key
      /\ m.deposits[k].owner = l.deposits[k].owner
      /\ m.deposits[k].transfers = kept
  BY <1>2, <1>3
<1>5. m \in Snapshot
  <2>1. m.deposits \in Seq(Deposit)
    BY <1>1, <1>2, <1>3, SnapshotParts, ExceptSeq
  <2> QED BY <1>1, <2>1 DEF Snapshot, Putting
<1> HIDE DEF m
<1>6. DepositsOK(m, cs)
  BY <1>4 DEF LedgerOK, DepositsOK
<1>7. TransfersOK(m, ch)
  BY <1>4 DEF LedgerOK, TransfersOK
<1>8. WithdrawalsOK(m, ss) /\ FundedOK(m, cs, ch)
  BY <1>3 DEF LedgerOK, WithdrawalsOK, FundedOK, ReservedOf, SpelledOf
<1> QED BY <1>4, <1>5, <1>6, <1>7, <1>8 DEF LedgerOK, m

Marking(l, w) == [l EXCEPT !.withdrawals[w].status = "submitted"]

LEMMA WithdrawalMarked ==
  ASSUME NEW l, NEW cs, NEW ss, NEW ch, LedgerOK(l, cs, ss, ch),
         NEW w \in DOMAIN l.withdrawals
  PROVE  /\ LedgerOK(Marking(l, w), cs, ss, ch)
         /\ Marking(l, w).deposits = l.deposits
         /\ Marking(l, w).nonces = l.nonces
         /\ DOMAIN Marking(l, w).withdrawals = DOMAIN l.withdrawals
<1> DEFINE m == Marking(l, w)
<1>1. l \in Snapshot
  BY DEF LedgerOK
<1>2. /\ l.withdrawals \in [DOMAIN l.withdrawals -> Withdrawal]
      /\ DOMAIN l.withdrawals \subseteq Submits
  BY <1>1, SnapshotParts
<1>3. /\ m.withdrawals = [l.withdrawals EXCEPT ![w] = [@ EXCEPT !.status = "submitted"]]
      /\ m.deposits = l.deposits /\ m.nonces = l.nonces
  BY <1>1 DEF Snapshot, Marking
<1>4. /\ DOMAIN m.withdrawals = DOMAIN l.withdrawals
      /\ m.withdrawals \in [DOMAIN l.withdrawals -> Withdrawal]
      /\ \A v \in DOMAIN l.withdrawals :
           /\ m.withdrawals[v].key = l.withdrawals[v].key
           /\ m.withdrawals[v].spelling = l.withdrawals[v].spelling
  BY <1>2, <1>3 DEF Withdrawal
<1>5. m \in Snapshot
  <2>1. m.withdrawals \in Partial(Submits, Withdrawal)
    BY <1>2, <1>4, PartialFunction
  <2> QED BY <1>1, <1>3, <2>1 DEF Snapshot, Marking
<1> HIDE DEF m
<1>6. \A o : ReservedOf(m, o) = ReservedOf(l, o) /\ SpelledOf(m, o) = SpelledOf(l, o)
  BY <1>4 DEF ReservedOf, SpelledOf, Beneficiary
<1>7. WithdrawalsOK(m, ss)
  BY <1>3, <1>4, <1>6 DEF LedgerOK, WithdrawalsOK
<1>8. DepositsOK(m, cs) /\ TransfersOK(m, ch) /\ FundedOK(m, cs, ch)
  BY <1>3, <1>6 DEF LedgerOK, DepositsOK, TransfersOK, FundedOK
<1> QED BY <1>3, <1>4, <1>5, <1>7, <1>8 DEF LedgerOK, m

\* What a confirmed transfer of the ledger is: a deep payment of the chain.
ConfirmedOf(l, o) ==
  {p \in (DOMAIN l.deposits) \X Txs :
     /\ l.deposits[p[1]].owner = o
     /\ p[2] \in Deep(l.deposits[p[1]])}

LEMMA ConfirmedIsDeep ==
  ASSUME MoneroAssumption, NEW l, NEW cs, NEW ss, NEW ch, NEW o,
         LedgerOK(l, cs, ss, ch)
  PROVE  /\ IsFiniteSet(ConfirmedOf(l, o))
         /\ Cardinality(ConfirmedOf(l, o)) <= Cardinality(DeepPayments(o, cs, ch))
<1> DEFINE f == [p \in ConfirmedOf(l, o) |-> <<p[2], l.deposits[p[1]].id>>]
<1>1. l \in Snapshot
  BY DEF LedgerOK
<1>2. ASSUME NEW p \in ConfirmedOf(l, o)
      PROVE  <<p[2], l.deposits[p[1]].id>> \in DeepPayments(o, cs, ch)
  <2>1. p[1] \in DOMAIN l.deposits /\ p[2] \in Txs
    BY DEF ConfirmedOf
  <2>2. p[2] \in DOMAIN l.deposits[p[1]].transfers
        /\ l.deposits[p[1]].transfers[p[2]] = "deep"
    BY DEF ConfirmedOf, Deep
  <2>3. l.deposits[p[1]].id \in ch[p[2]].to /\ ch[p[2]].state = "deep"
    BY <2>1, <2>2 DEF LedgerOK, TransfersOK
  <2>4. l.deposits[p[1]].id \in Creates
    BY <1>1, <2>1, SnapshotParts
  <2>5. cs[l.deposits[p[1]].id].owner = o
    BY <2>1 DEF LedgerOK, DepositsOK, ConfirmedOf
  <2> QED BY <2>1, <2>3, <2>4, <2>5 DEF DeepPayments
<1>3. f \in [ConfirmedOf(l, o) -> DeepPayments(o, cs, ch)]
  BY <1>2
<1>4. ASSUME NEW p \in ConfirmedOf(l, o), NEW q \in ConfirmedOf(l, o), f[p] = f[q]
      PROVE  p = q
  <2>1. p \in (DOMAIN l.deposits) \X Txs /\ q \in (DOMAIN l.deposits) \X Txs
    BY DEF ConfirmedOf
  <2>2. p[2] = q[2] /\ l.deposits[p[1]].id = l.deposits[q[1]].id
    BY <1>4
  <2>3. p[1] = q[1]
    BY <2>1, <2>2 DEF LedgerOK, DepositsOK
  <2> QED BY <2>1, <2>2, <2>3
<1>5. f \in Injection(ConfirmedOf(l, o), DeepPayments(o, cs, ch))
  BY <1>3, <1>4 DEF Injection, IsInjective
<1> QED BY <1>5, DeepPaymentsFinite, FS_Injection

Reserving(l, s, k) ==
  [l EXCEPT !.withdrawals = Added(@, s, [key |-> k.key, spelling |-> k.spelling,
                                         status |-> "pending"]),
            !.nonces[k.spelling] = k.nonce + 1]

\* What Reserves has looked at, and what it does to the call.
MayReserve(l, cs, ss, ch, s, ss2) ==
  /\ LedgerOK(l, cs, ss, ch)
  /\ ss[s].key \in Keys /\ ss[s].spelling \in Spellings
  /\ \A r \in Submits : ss[r].nonce \in Nat
  /\ ss[s].pc = "verify" /\ ss[s].nonce = l.nonces[ss[s].spelling]
  /\ \A w \in DOMAIN l.withdrawals : l.withdrawals[w].key # ss[s].key
  /\ Cardinality(ConfirmedOf(l, Beneficiary(ss[s])))
       - Cardinality(ReservedOf(l, Beneficiary(ss[s]))) >= 1
  /\ ss2[s].pc \in {"transfer", "done"} /\ ss2[s].key = ss[s].key
  /\ ss2[s].spelling = ss[s].spelling /\ ss2[s].nonce = ss[s].nonce
  /\ \A r \in Submits : r # s => ss2[r] = ss[r]

\* What the reservation has left alone, and what it has added.
HasReserved(m, l, s, k) ==
  /\ m.deposits = l.deposits
  /\ DOMAIN m.withdrawals = DOMAIN l.withdrawals \cup {s}
  /\ m.nonces = [l.nonces EXCEPT ![k.spelling] = k.nonce + 1]

LEMMA WithdrawalReserved ==
  ASSUME MoneroAssumption,
         NEW l, NEW cs, NEW ss, NEW ch, NEW s \in Submits, NEW ss2,
         MayReserve(l, cs, ss, ch, s, ss2)
  PROVE  /\ LedgerOK(Reserving(l, s, ss[s]), cs, ss2, ch)
         /\ HasReserved(Reserving(l, s, ss[s]), l, s, ss[s])
<1> DEFINE m == Reserving(l, s, ss[s])
           me == ss[s].spelling
           mo == Beneficiary(ss[s])
           W == DOMAIN l.withdrawals
           mine == [key |-> ss[s].key, spelling |-> ss[s].spelling, status |-> "pending"]
<1>0. /\ LedgerOK(l, cs, ss, ch)
      /\ ss[s].key \in Keys /\ ss[s].spelling \in Spellings
      /\ \A r \in Submits : ss[r].nonce \in Nat
      /\ ss[s].pc = "verify" /\ ss[s].nonce = l.nonces[ss[s].spelling]
      /\ \A w \in DOMAIN l.withdrawals : l.withdrawals[w].key # ss[s].key
      /\ Cardinality(ConfirmedOf(l, Beneficiary(ss[s])))
           - Cardinality(ReservedOf(l, Beneficiary(ss[s]))) >= 1
      /\ ss2[s].pc \in {"transfer", "done"} /\ ss2[s].key = ss[s].key
      /\ ss2[s].spelling = ss[s].spelling /\ ss2[s].nonce = ss[s].nonce
      /\ \A r \in Submits : r # s => ss2[r] = ss[r]
  BY DEF MayReserve
<1> USE <1>0
<1>1. l \in Snapshot
  BY DEF LedgerOK
<1>2. /\ l.withdrawals \in [W -> Withdrawal] /\ W \subseteq Submits
      /\ l.nonces \in [Spellings -> Nat]
  BY <1>1, SnapshotParts
<1>3. s \notin W
  BY DEF LedgerOK, WithdrawalsOK
<1>4. /\ m.withdrawals = Added(l.withdrawals, s, mine)
      /\ m.deposits = l.deposits
      /\ m.nonces = [l.nonces EXCEPT ![me] = ss[s].nonce + 1]
  BY <1>1 DEF Snapshot, Reserving
<1>5. /\ DOMAIN m.withdrawals = W \cup {s}
      /\ \A w \in W : m.withdrawals[w] = l.withdrawals[w]
      /\ m.withdrawals[s] = mine
      /\ m.withdrawals \in [W \cup {s} -> Withdrawal]
  <2>1. mine \in Withdrawal
    BY DEF Withdrawal
  <2> HIDE DEF mine, m
  <2> QED BY <1>2, <1>3, <1>4, <2>1 DEF Added
<1>6. m \in Snapshot
  <2>1. m.withdrawals \in Partial(Submits, Withdrawal)
    <3>1. W \cup {s} \in SUBSET Submits
      BY <1>2
    <3> HIDE DEF m, mine, W, me, mo
    <3> QED BY <1>5, <3>1 DEF Partial
  <2>2. m.nonces \in [Spellings -> Nat]
    BY <1>2, <1>4
  <2>3. m = [l EXCEPT !.withdrawals = m.withdrawals, !.nonces = m.nonces]
    BY <1>1, <1>4 DEF Snapshot, Reserving
  <2> HIDE DEF m
  <2> QED BY <1>1, <2>1, <2>2, <2>3 DEF Snapshot
<1>7. mine.key = ss[s].key /\ mine.spelling = me /\ Beneficiary(mine) = mo
  BY DEF Beneficiary
<1> HIDE DEF m, mine
<1>8. /\ \A o \in Owners : o # mo => ReservedOf(m, o) = ReservedOf(l, o)
      /\ ReservedOf(m, mo) = ReservedOf(l, mo) \cup {s}
      /\ s \notin ReservedOf(l, mo)
      /\ \A p \in Spellings : p # me => SpelledOf(m, p) = SpelledOf(l, p)
      /\ SpelledOf(m, me) = SpelledOf(l, me) \cup {s}
      /\ s \notin SpelledOf(l, me)
  <2> HIDE DEF mo, me
  <2> QED BY <1>3, <1>5, <1>7 DEF ReservedOf, SpelledOf
<1>9. /\ IsFiniteSet(ReservedOf(l, mo))
      /\ Cardinality(ReservedOf(l, mo)) \in Nat
      /\ Cardinality(ReservedOf(m, mo)) = Cardinality(ReservedOf(l, mo)) + 1
      /\ Cardinality(SpelledOf(m, me)) = Cardinality(SpelledOf(l, me)) + 1
  <2>1. ReservedOf(l, mo) \in SUBSET Submits /\ SpelledOf(l, me) \in SUBSET Submits
    BY <1>2 DEF ReservedOf, SpelledOf
  <2>2. IsFiniteSet(ReservedOf(l, mo)) /\ IsFiniteSet(SpelledOf(l, me))
    BY <2>1, FS_Subset DEF MoneroAssumption
  <2> HIDE DEF mo, me
  <2> QED BY <1>8, <2>2, FS_AddElement, FS_CardinalityType
<1>10. WithdrawalsOK(m, ss2)
  <2>1. ASSUME NEW w \in W \cup {s}
        PROVE  /\ ss2[w].pc \in {"transfer", "paid", "done"}
               /\ m.withdrawals[w].key = ss2[w].key
               /\ m.withdrawals[w].spelling = ss2[w].spelling
               /\ ss2[w].nonce < m.nonces[ss2[w].spelling]
    <3>1. CASE w = s
      BY <3>1, <1>2, <1>4, <1>5, <1>7
    <3>2. CASE w \in W
      <4>1. /\ ss[w].pc \in {"transfer", "paid", "done"}
            /\ l.withdrawals[w].key = ss[w].key
            /\ l.withdrawals[w].spelling = ss[w].spelling
            /\ ss[w].nonce < l.nonces[ss[w].spelling]
            /\ ss[w].spelling \in Spellings
        BY <1>2, <3>2 DEF LedgerOK, WithdrawalsOK, Withdrawal
      <4>2. w # s /\ ss2[w] = ss[w]
        BY <1>2, <1>3, <3>2
      <4>3. CASE ss[w].spelling = me
        <5>1. ss[w].nonce < ss[s].nonce /\ m.nonces[me] = ss[s].nonce + 1
          BY <4>1, <4>3, <1>2, <1>4
        <5>2. ss[w].nonce < m.nonces[me]
          <6>1. ss[w].nonce \in Nat /\ ss[s].nonce \in Nat
            BY <1>2, <3>2
          <6> QED BY <5>1, <6>1
        <5> QED BY <5>2, <4>1, <4>2, <4>3, <1>5, <3>2
      <4>4. CASE ss[w].spelling # me
        BY <4>1, <4>2, <4>4, <1>2, <1>4, <1>5, <3>2
      <4> QED BY <4>3, <4>4
    <3> QED BY <3>1, <3>2
  <2>2. ASSUME NEW v \in W
        PROVE  ss[v].key # ss[s].key
               /\ <<ss[v].spelling, ss[v].nonce>> # <<ss[s].spelling, ss[s].nonce>>
    BY DEF LedgerOK, WithdrawalsOK
  <2>3. \A v, w \in W :
          v # w => /\ ss[v].key # ss[w].key
                   /\ <<ss[v].spelling, ss[v].nonce>> # <<ss[w].spelling, ss[w].nonce>>
    BY DEF LedgerOK, WithdrawalsOK
  <2>4. ASSUME NEW v \in W \cup {s}, NEW w \in W \cup {s}, v # w
        PROVE  /\ ss2[v].key # ss2[w].key
               /\ <<ss2[v].spelling, ss2[v].nonce>> # <<ss2[w].spelling, ss2[w].nonce>>
    <3>1. /\ ss2[v].key = ss[v].key /\ ss2[v].spelling = ss[v].spelling
          /\ ss2[v].nonce = ss[v].nonce
          /\ ss2[w].key = ss[w].key /\ ss2[w].spelling = ss[w].spelling
          /\ ss2[w].nonce = ss[w].nonce
      BY <1>2
    <3> QED BY <3>1, <2>2, <2>3, <2>4
  <2>5. ASSUME NEW p \in Spellings
        PROVE  m.nonces[p] = Cardinality(SpelledOf(m, p))
    <3>1. l.nonces[p] = Cardinality(SpelledOf(l, p))
      BY DEF LedgerOK, WithdrawalsOK
    <3>2. CASE p = me
      BY <3>1, <3>2, <1>2, <1>4, <1>9
    <3>3. CASE p # me
      BY <3>1, <3>3, <1>2, <1>4, <1>8
    <3> QED BY <3>2, <3>3
  <2> QED BY <1>5, <2>1, <2>4, <2>5 DEF WithdrawalsOK
<1>11. FundedOK(m, cs, ch)
  <2> SUFFICES ASSUME NEW o \in Owners
               PROVE  Cardinality(ReservedOf(m, o))
                        <= Cardinality(DeepPayments(o, cs, ch))
    BY DEF FundedOK
  <2>1. CASE o # mo
    BY <2>1, <1>8 DEF LedgerOK, FundedOK
  <2>2. CASE o = mo
    <3>1. /\ IsFiniteSet(ConfirmedOf(l, mo))
          /\ Cardinality(ConfirmedOf(l, mo)) <= Cardinality(DeepPayments(mo, cs, ch))
      BY ConfirmedIsDeep
    <3>2. /\ Cardinality(ConfirmedOf(l, mo)) \in Nat
          /\ Cardinality(DeepPayments(mo, cs, ch)) \in Nat
      BY <3>1, DeepPaymentsFinite, FS_CardinalityType
    <3>3. Cardinality(ConfirmedOf(l, mo)) - Cardinality(ReservedOf(l, mo)) >= 1
      OBVIOUS
    <3> HIDE DEF mo
    <3> QED BY <2>2, <3>1, <3>2, <3>3, <1>9
  <2> QED BY <2>1, <2>2
<1>12. DepositsOK(m, cs) /\ TransfersOK(m, ch)
  BY <1>4 DEF LedgerOK, DepositsOK, TransfersOK
<1> QED BY <1>4, <1>5, <1>6, <1>10, <1>11, <1>12 DEF LedgerOK, m, HasReserved

-----------------------------------------------------------------------------
\* Steps of the calls and of the polls.

LEMMA PersistKeeps ==
  ASSUME NEW l, Persist(l),
         LedgerOK(l, creates', submits', chain'),
         LedgerOK(file, creates', submits', chain')
  PROVE  /\ LedgerOK(ledger', creates', submits', chain')
         /\ LedgerOK(file', creates', submits', chain')
  BY DEF Persist

LEMMA PersistTypes ==
  ASSUME NEW l, Persist(l), MoneroTypes, MoneroAssumption
  PROVE  failures' \in 0 .. MaxFailures
  BY DEF Persist, MoneroTypes, MoneroAssumption

\* A ledger's confirmed and reserved amounts, in the words of the model.
LEMMA AvailableIs ==
  ASSUME NEW o
  PROVE  availableWithdrawalBalance(o) =
           Cardinality(ConfirmedOf(ledger, o)) - Cardinality(ReservedOf(ledger, o))
  BY DEF availableWithdrawalBalance, Confirmed, Reserved, ConfirmedOf, ReservedOf

LEMMA MoneroInit == ASSUME MoneroAssumption, Init PROVE MoneroInv
<1> DEFINE empty == [deposits |-> << >>, withdrawals |-> << >>,
                     nonces |-> [p \in Spellings |-> 0]]
<1>1. ledger = empty /\ file = empty
  BY DEF Init
<1>2. empty \in Snapshot
  <2>1. << >> \in Seq(Deposit)
    OBVIOUS
  <2> QED BY <2>1, NoTransfers DEF Snapshot
<1>3. /\ DOMAIN empty.deposits = {} /\ DOMAIN empty.withdrawals = {}
      /\ \A p \in Spellings : empty.nonces[p] = 0
  BY NoTransfers
<1>4. MoneroTypes
  <2>1. PICK r \in DepositRequests :
          creates = [c \in Creates |->
                       [pc |-> "new", key |-> r[c].key, owner |-> r[c].owner]]
    BY DEF Init
  <2>2. PICK q \in WithdrawalRequests :
          submits = [s \in Submits |-> [pc |-> "new", nonce |-> 0,
                                        key |-> q[s].key, spelling |-> q[s].spelling]]
    BY DEF Init
  <2>3. /\ r \in [Creates -> [key : Keys, owner : Owners]]
        /\ q \in [Submits -> [key : Keys, spelling : Spellings]]
    BY DEF MoneroAssumption
  <2>4. creates \in [Creates -> [pc : {"new", "asked", "done"},
                                key : Keys, owner : Owners]]
    BY <2>1, <2>3
  <2>5. submits \in [Submits -> [pc : {"new", "verify", "transfer", "paid", "done"},
                                nonce : Nat, key : Keys, spelling : Spellings]]
    BY <2>2, <2>3
  <2> QED BY <2>4, <2>5 DEF MoneroTypes, Init, MoneroAssumption, Depth
<1>5. /\ \A o \in Owners : ReservedOf(empty, o) = {}
      /\ \A p \in Spellings : SpelledOf(empty, p) = {}
  BY <1>3 DEF ReservedOf, SpelledOf
<1> HIDE DEF empty
<1>6. LedgerOK(empty, creates, submits, chain)
  <2>1. FundedOK(empty, creates, chain)
    <3> SUFFICES ASSUME NEW o \in Owners
                 PROVE  Cardinality(ReservedOf(empty, o))
                          <= Cardinality(DeepPayments(o, creates, chain))
      BY DEF FundedOK
    <3>1. Cardinality(DeepPayments(o, creates, chain)) \in Nat
      BY DeepPaymentsFinite, FS_CardinalityType
    <3>2. Cardinality(ReservedOf(empty, o)) = 0
      BY <1>5, FS_EmptySet
    <3> QED BY <3>1, <3>2
  <2>2. WithdrawalsOK(empty, submits)
    BY <1>3, <1>5, FS_EmptySet DEF WithdrawalsOK
  <2> QED BY <1>2, <1>3, <2>1, <2>2 DEF LedgerOK, DepositsOK, TransfersOK
<1>7. OwnersOK
  BY <1>1, <1>3, NoTransfers DEF OwnersOK, Init
<1>8. SyncsOK /\ SubmitsOK
  <2>1. \A s \in Submits : submits[s].pc = "new"
    BY DEF Init
  <2> QED BY <2>1 DEF SyncsOK, SyncOK, SubmitsOK, SubmitOK, Init
<1>9. SentOK
  BY NoTransfers DEF SentOK, Init
<1> QED BY <1>1, <1>4, <1>6, <1>7, <1>8, <1>9 DEF MoneroInv

LEMMA SyncStays ==
  ASSUME NEW k, NEW l, NEW m, NEW ch, NEW ch2, SyncOK(k, l, ch),
         Len(l.deposits) \in Nat, Len(m.deposits) \in Nat,
         Len(l.deposits) <= Len(m.deposits),
         \A i \in 1 .. Len(l.deposits) : m.deposits[i].id = l.deposits[i].id,
         \A t \in Txs : /\ ch[t].to \subseteq ch2[t].to
                        /\ ch[t].state = "deep" => ch2[t].state = "deep"
  PROVE  SyncOK(k, m, ch2)
<1> SUFFICES ASSUME k # Idle PROVE SyncOK(k, m, ch2)
  BY DEF SyncOK
<1>1. /\ k.pc \in {"asked", "answered"}
      /\ k.upto \in 1 .. Len(l.deposits) /\ k.at \in 1 .. k.upto
  BY DEF SyncOK
<1>2. k.upto \in 1 .. Len(m.deposits)
      /\ m.deposits[k.at].id = l.deposits[k.at].id
  BY <1>1
<1>3. ASSUME k.pc = "answered"
      PROVE  /\ k.told \in Partial(Txs, Depth \cup {"doubled"})
             /\ \A t \in DOMAIN k.told :
                  /\ m.deposits[k.at].id \in ch2[t].to
                  /\ k.told[t] = "deep" => ch2[t].state = "deep"
  <2>1. /\ k.told \in Partial(Txs, Depth \cup {"doubled"})
        /\ \A t \in DOMAIN k.told :
             /\ l.deposits[k.at].id \in ch[t].to
             /\ k.told[t] = "deep" => ch[t].state = "deep"
    BY <1>3 DEF SyncOK
  <2>2. DOMAIN k.told \subseteq Txs
    BY <2>1, PartialFunction
  <2> QED BY <1>2, <2>1, <2>2
<1> QED BY <1>1, <1>2, <1>3 DEF SyncOK

\* What the calls ask for never changes.
SameRequests(ss, ss2) ==
  \A r \in Submits : ss2[r].key = ss[r].key /\ ss2[r].spelling = ss[r].spelling

LEMMA AlikeStays ==
  ASSUME NEW ss, NEW ss2, SameRequests(ss, ss2), NEW s \in Submits
  PROVE  AlikeTo(ss2, s) <=> AlikeTo(ss, s)
  BY DEF SameRequests, AlikeTo, Beneficiary

LEMMA SubmitStays ==
  ASSUME NEW s \in Submits, NEW ss, NEW ss2, NEW l, NEW m, NEW f, NEW g,
         SubmitOK(s, ss, l, f), ss2[s] = ss[s], SameRequests(ss, ss2),
         DOMAIN l.withdrawals \subseteq Submits,
         DOMAIN m.withdrawals = DOMAIN l.withdrawals, m.nonces = l.nonces,
         DOMAIN g.withdrawals = DOMAIN f.withdrawals
           \/ DOMAIN g.withdrawals = DOMAIN l.withdrawals
  PROVE  SubmitOK(s, ss2, m, g)
<1>1. AlikeTo(ss2, s) <=> AlikeTo(ss, s)
  BY AlikeStays
<1>2. \A w \in DOMAIN l.withdrawals :
        /\ ss2[w].key = ss[w].key /\ ss2[w].spelling = ss[w].spelling
        /\ Beneficiary(ss2[w]) = Beneficiary(ss[w])
  BY DEF SameRequests, Beneficiary
<1> QED BY <1>1, <1>2 DEF SubmitOK

LEMMA SentStays ==
  ASSUME MoneroInv, UNCHANGED sent, SameRequests(submits, submits'),
         DOMAIN ledger.withdrawals \subseteq DOMAIN ledger'.withdrawals,
         \/ DOMAIN file.withdrawals \subseteq DOMAIN file'.withdrawals
         \/ DOMAIN ledger.withdrawals \subseteq DOMAIN file'.withdrawals
  PROVE  SentOK'
<1>1. \A s \in Submits : AlikeTo(submits', s) <=> AlikeTo(submits, s)
  BY AlikeStays
<1>2. \A s \in Submits : Beneficiary(submits'[s]) = Beneficiary(submits[s])
  BY DEF SameRequests, Beneficiary
<1>3. SentOK
  BY DEF MoneroInv
<1> QED BY <1>1, <1>2, <1>3 DEF SentOK

\* A step that leaves the ledger, the file and the owners of transactions alone.
LEMMA LedgersKept ==
  ASSUME MoneroAssumption, MoneroInv,
         UNCHANGED <<ledger, file, txOwner, sent>>, MoneroTypes',
         Later(creates, submits, chain, creates', submits', chain'),
         SyncsOK', SubmitsOK'
  PROVE  MoneroInv'
<1>1. LedgerOK(ledger, creates', submits', chain')
      /\ LedgerOK(file, creates', submits', chain')
  BY LedgerStays DEF MoneroInv
<1>2. OwnersOK'
  BY DEF MoneroInv, OwnersOK
<1>3. SentOK'
  BY SentStays DEF Later, SameRequests
<1> QED BY <1>1, <1>2, <1>3 DEF MoneroInv

LEMMA SyncsKept ==
  ASSUME MoneroInv, UNCHANGED <<ledger, syncs>>,
         \A t \in Txs : /\ chain[t].to \subseteq chain'[t].to
                        /\ chain[t].state = "deep" => chain'[t].state = "deep"
  PROVE  SyncsOK'
<1>1. ledger \in Snapshot
  BY DEF MoneroInv, LedgerOK
<1>2. Len(ledger.deposits) \in Nat
  BY <1>1, SnapshotParts
<1>3. \A s \in Syncs : SyncOK(syncs[s], ledger, chain')
  BY <1>2, SyncStays DEF MoneroInv, SyncsOK
<1> QED BY <1>3 DEF MoneroInv, SyncsOK

LEMMA SubmitsKept ==
  ASSUME MoneroInv, UNCHANGED <<ledger, file, submits>>
  PROVE  SubmitsOK'
  BY DEF MoneroInv, SubmitsOK, SubmitOK

\* A call of createDeposit moves on and nothing else happens.
LEMMA CreateMoves ==
  ASSUME MoneroTypes, NEW c \in Creates, NEW p \in {"asked", "done"},
         creates[c].pc # "done", creates' = [creates EXCEPT ![c].pc = p]
  PROVE  /\ creates' \in [Creates -> [pc : {"new", "asked", "done"},
                                      key : Keys, owner : Owners]]
         /\ creates'[c].pc = p
         /\ creates'[c].key = creates[c].key /\ creates'[c].owner = creates[c].owner
         /\ Later(creates, submits, chain, creates', submits, chain)
<1>1. /\ creates \in [Creates -> [pc : {"new", "asked", "done"},
                                  key : Keys, owner : Owners]]
  BY DEF MoneroTypes
<1>2. creates'[c] = [creates[c] EXCEPT !.pc = p]
      /\ \A b \in Creates : b # c => creates'[b] = creates[b]
  BY <1>1
<1>3. creates'[c] \in [pc : {"new", "asked", "done"}, key : Keys, owner : Owners]
      /\ creates'[c].pc = p
      /\ creates'[c].key = creates[c].key /\ creates'[c].owner = creates[c].owner
  BY <1>1, <1>2
<1> QED BY <1>1, <1>2, <1>3 DEF Later

LEMMA CreateStep ==
  ASSUME MoneroAssumption, MoneroInv, NEW c \in Creates, NEW p \in {"asked", "done"},
         creates[c].pc # "done", creates' = [creates EXCEPT ![c].pc = p],
         NoWrite, UNCHANGED <<txOwner, submits, syncs, world>>
  PROVE  MoneroInv'
<1>1. MoneroTypes
  BY DEF MoneroInv
<1>2. MoneroTypes'
  BY <1>1, CreateMoves DEF MoneroTypes, NoWrite, world
<1>3. Later(creates, submits, chain, creates', submits', chain')
  BY <1>1, CreateMoves DEF world
<1> QED BY <1>2, <1>3, LedgersKept, SyncsKept, SubmitsKept DEF NoWrite, world

\* The same for submitWithdrawal.
LEMMA SubmitMoves ==
  ASSUME MoneroTypes, NEW s \in Submits,
         NEW p \in {"new", "verify", "transfer", "paid", "done"},
         submits[s].pc \in {"transfer", "paid", "done"} =>
           p \in {"transfer", "paid", "done"},
         submits' = [submits EXCEPT ![s].pc = p]
  PROVE  /\ submits' \in [Submits -> [pc : {"new", "verify", "transfer", "paid", "done"},
                                      nonce : Nat, key : Keys, spelling : Spellings]]
         /\ submits'[s].pc = p /\ submits'[s].nonce = submits[s].nonce
         /\ submits'[s].key = submits[s].key /\ submits'[s].spelling = submits[s].spelling
         /\ \A r \in Submits : r # s => submits'[r] = submits[r]
         /\ Later(creates, submits, chain, creates, submits', chain)
<1>1. submits \in [Submits -> [pc : {"new", "verify", "transfer", "paid", "done"},
                               nonce : Nat, key : Keys, spelling : Spellings]]
  BY DEF MoneroTypes
<1>2. submits'[s] = [submits[s] EXCEPT !.pc = p]
      /\ \A r \in Submits : r # s => submits'[r] = submits[r]
  BY <1>1
<1>3. /\ submits'[s] \in [pc : {"new", "verify", "transfer", "paid", "done"},
                          nonce : Nat, key : Keys, spelling : Spellings]
      /\ submits'[s].pc = p /\ submits'[s].nonce = submits[s].nonce
      /\ submits'[s].key = submits[s].key /\ submits'[s].spelling = submits[s].spelling
  BY <1>1, <1>2
<1> QED BY <1>1, <1>2, <1>3 DEF Later

LEMMA SubmitDone ==
  ASSUME MoneroAssumption, MoneroInv, NEW s \in Submits,
         submits' = [submits EXCEPT ![s].pc = "done"],
         NoWrite, UNCHANGED <<txOwner, creates, syncs, world>>
  PROVE  MoneroInv'
<1>1. MoneroTypes
  BY DEF MoneroInv
<1>2. MoneroTypes'
  BY <1>1, SubmitMoves DEF MoneroTypes, NoWrite, world
<1>3. /\ Later(creates, submits, chain, creates', submits', chain')
      /\ submits'[s].pc = "done" /\ submits'[s].nonce = submits[s].nonce
      /\ submits'[s].key = submits[s].key /\ submits'[s].spelling = submits[s].spelling
      /\ \A r \in Submits : r # s => submits'[r] = submits[r]
  BY <1>1, SubmitMoves DEF world
<1>4. SubmitsOK'
  <2>1. DOMAIN ledger.withdrawals \subseteq Submits
    BY SnapshotParts DEF MoneroInv, LedgerOK
  <2>2. SameRequests(submits, submits')
    BY <1>3 DEF SameRequests
  <2>3. ASSUME NEW r \in Submits PROVE SubmitOK(r, submits', ledger, file)
    <3>1. CASE r = s
      BY <3>1, <1>3 DEF SubmitOK
    <3>2. CASE r # s
      <4>1. submits'[r] = submits[r] /\ SubmitOK(r, submits, ledger, file)
        BY <3>2, <1>3 DEF MoneroInv, SubmitsOK
      <4> QED BY <4>1, <2>1, <2>2, SubmitStays
    <3> QED BY <3>1, <3>2
  <2> QED BY <2>3 DEF SubmitsOK, NoWrite
<1> QED BY <1>2, <1>3, <1>4, LedgersKept, SyncsKept DEF NoWrite, world

-----------------------------------------------------------------------------
\* Each action keeps the invariant.

LEMMA AddressedKeeps ==
  ASSUME MoneroAssumption, MoneroInv, NEW c \in Creates, Addressed(c)
  PROVE  MoneroInv'
<1> DEFINE l == [ledger EXCEPT !.deposits = Append(@, DepositAt(c, creates))]
<1>1. MoneroTypes /\ creates[c].pc = "asked" /\ creates[c].pc # "done"
  BY DEF MoneroInv, Addressed
<1>2. /\ creates' = [creates EXCEPT ![c].pc = "done"]
      /\ UNCHANGED <<txOwner, submits, syncs, world>>
  BY DEF Addressed
<1>3. CASE HasDeposit(creates[c].key)
  BY <1>1, <1>2, <1>3, CreateStep DEF Addressed
<1>4. CASE ~HasDeposit(creates[c].key)
  <2>1. Persist(l)
    BY <1>4 DEF Addressed, DepositAt
  <2>2. /\ creates'[c].pc = "done" /\ creates'[c].key = creates[c].key
        /\ creates'[c].owner = creates[c].owner
        /\ Later(creates, submits, chain, creates', submits', chain')
    BY <1>1, <1>2, CreateMoves DEF world
  <2>3. creates[c].key \in Keys /\ creates[c].owner \in Owners
    BY <1>1 DEF MoneroTypes
  <2>4. /\ LedgerOK(ledger, creates', submits, chain)
        /\ LedgerOK(file, creates', submits', chain')
    BY <1>2, <2>2, LedgerStays DEF MoneroInv, world
  <2>5. LedgerOK(l, creates', submits, chain)
    <3>1. \A i \in DOMAIN ledger.deposits : ledger.deposits[i].key # creates[c].key
      BY <1>4 DEF HasDeposit
    <3>2. LedgerOK(ledger, creates, submits, chain)
      BY DEF MoneroInv
    <3> HIDE DEF l
    <3> QED BY <1>1, <2>2, <2>3, <2>4, <3>1, <3>2, DepositAdded DEF l
  <2>6. /\ LedgerOK(ledger', creates', submits', chain')
        /\ LedgerOK(file', creates', submits', chain')
    <3> HIDE DEF l
    <3> QED BY <1>2, <2>1, <2>4, <2>5, PersistKeeps DEF world
  <2>7. MoneroTypes'
    <3>1. failures' \in 0 .. MaxFailures
      <4> HIDE DEF l
      <4> QED BY <1>1, <2>1, PersistTypes
    <3>2. creates' \in [Creates -> [pc : {"new", "asked", "done"},
                                    key : Keys, owner : Owners]]
      BY <1>1, <1>2, CreateMoves
    <3> QED BY <1>1, <1>2, <3>1, <3>2 DEF MoneroTypes, world
  <2>8. /\ ledger' = l
        /\ ledger'.withdrawals = ledger.withdrawals
        /\ ledger'.nonces = ledger.nonces
        /\ ledger'.deposits = Append(ledger.deposits, DepositAt(c, creates))
    <3>1. ledger \in Snapshot
      BY DEF MoneroInv, LedgerOK
    <3> QED BY <2>1, <3>1 DEF Persist, Snapshot
  <2>9. /\ Len(ledger.deposits) \in Nat
        /\ DOMAIN ledger.deposits = 1 .. Len(ledger.deposits)
        /\ Len(ledger'.deposits) = Len(ledger.deposits) + 1
        /\ DOMAIN ledger'.deposits = 1 .. Len(ledger.deposits) + 1
        /\ \A i \in 1 .. Len(ledger.deposits) : ledger'.deposits[i] = ledger.deposits[i]
        /\ DOMAIN ledger'.deposits[Len(ledger.deposits) + 1].transfers = {}
    <3>1. ledger.deposits \in Seq(Deposit) /\ Len(ledger.deposits) \in Nat
          /\ DOMAIN ledger.deposits = 1 .. Len(ledger.deposits)
      BY SnapshotParts DEF MoneroInv, LedgerOK
    <3>2. DOMAIN DepositAt(c, creates).transfers = {}
      BY NoTransfers DEF DepositAt
    <3> QED BY <2>8, <3>1, <3>2
  <2>10. OwnersOK'
    <3>1. ASSUME NEW i \in DOMAIN ledger'.deposits,
                 NEW t \in DOMAIN ledger'.deposits[i].transfers
          PROVE  t \in DOMAIN txOwner /\ txOwner[t] = ledger'.deposits[i].id
      <4>1. i \in DOMAIN ledger.deposits /\ ledger'.deposits[i] = ledger.deposits[i]
        BY <2>9, <3>1
      <4> QED BY <4>1, <3>1 DEF MoneroInv, OwnersOK
    <3> QED BY <1>2, <3>1 DEF MoneroInv, OwnersOK
  <2>11. SyncsOK'
    <3>1. ASSUME NEW s \in Syncs PROVE SyncOK(syncs[s], ledger', chain)
      <4>1. SyncOK(syncs[s], ledger, chain)
        BY DEF MoneroInv, SyncsOK
      <4> QED BY <2>9, <4>1, SyncStays
    <3> QED BY <1>2, <3>1 DEF MoneroInv, SyncsOK, world
  <2>12. DOMAIN file'.withdrawals = DOMAIN file.withdrawals
         \/ DOMAIN file'.withdrawals = DOMAIN ledger.withdrawals
    BY <2>1, <2>8 DEF Persist
  <2>13. SubmitsOK'
    <3>1. ASSUME NEW s \in Submits PROVE SubmitOK(s, submits, ledger', file')
      <4>1. SubmitOK(s, submits, ledger, file)
        BY DEF MoneroInv, SubmitsOK
      <4>2. /\ DOMAIN ledger'.withdrawals = DOMAIN ledger.withdrawals
            /\ ledger'.nonces = ledger.nonces
        BY <2>8
      <4> HIDE DEF l
      <4> QED BY <2>12, <4>1, <4>2 DEF SubmitOK
    <3> QED BY <1>2, <3>1 DEF SubmitsOK
  <2>14. SentOK'
    BY <1>2, <2>8, <2>12, SentStays DEF SameRequests, world
  <2> QED BY <2>6, <2>7, <2>10, <2>11, <2>13, <2>14 DEF MoneroInv
<1> QED BY <1>3, <1>4

\* A run of syncDeposits moves on and nothing else happens.
LEMMA SyncStep ==
  ASSUME MoneroAssumption, MoneroInv, NEW s \in Syncs, NEW k,
         SyncOK(k, ledger, chain), syncs' = [syncs EXCEPT ![s] = k],
         NoWrite, UNCHANGED <<txOwner, creates, submits, world>>
  PROVE  MoneroInv'
<1>1. MoneroTypes'
  BY DEF MoneroInv, MoneroTypes, NoWrite, world
<1>2. SyncsOK'
  BY DEF MoneroInv, SyncsOK, NoWrite, world
<1>3. Later(creates, submits, chain, creates', submits', chain')
  BY DEF Later, world
<1> QED BY <1>1, <1>2, <1>3, LedgersKept, SubmitsKept DEF NoWrite, world

LEMMA SyncStartsKeeps ==
  ASSUME MoneroAssumption, MoneroInv, NEW s \in Syncs, SyncStarts(s)
  PROVE  MoneroInv'
<1> DEFINE k == [pc |-> "asked", at |-> 1, upto |-> Len(ledger.deposits)]
<1>1. ledger.deposits \in Seq(Deposit) /\ ledger.deposits # << >>
  BY SnapshotParts DEF MoneroInv, LedgerOK, SyncStarts
<1>2. Len(ledger.deposits) \in 1 .. Len(ledger.deposits)
  BY <1>1, EmptySeq
<1>3. SyncOK(k, ledger, chain)
  BY <1>2 DEF SyncOK
<1> QED BY <1>3, SyncStep DEF SyncStarts

LEMMA IncomingIs ==
  ASSUME MoneroTypes, NEW d
  PROVE  /\ Incoming(d) \in Partial(Txs, Depth \cup {"doubled"})
         /\ \A t \in DOMAIN Incoming(d) :
              /\ d \in chain[t].to
              /\ Incoming(d)[t] = "deep" => chain[t].state = "deep"
<1> DEFINE told == Incoming(d)
<1>1. /\ DOMAIN told = {t \in Txs : d \in chain[t].to /\ chain[t].state # "none"}
      /\ \A t \in DOMAIN told : told[t] = chain[t].state
      /\ told = [t \in DOMAIN told |-> told[t]]
  BY DEF Incoming
<1>2. \A t \in DOMAIN told : told[t] \in Depth \cup {"doubled"}
  BY <1>1 DEF MoneroTypes
<1> HIDE DEF told
<1>3. told \in [DOMAIN told -> Depth \cup {"doubled"}] /\ DOMAIN told \subseteq Txs
  BY <1>1, <1>2
<1>4. told \in Partial(Txs, Depth \cup {"doubled"})
  BY <1>3, PartialFunction
<1> QED BY <1>1, <1>4 DEF told

LEMMA WalletAnswersKeeps ==
  ASSUME MoneroAssumption, MoneroInv, NEW s \in Syncs,
         NEW i \in DOMAIN ledger.deposits, WalletAnswers(s, i)
  PROVE  MoneroInv'
<1> DEFINE d == ledger.deposits[i].id
           told == Incoming(d)
           k == [pc |-> "answered", at |-> i, upto |-> syncs[s].upto, told |-> told]
<1>1. syncs[s].pc = "asked" /\ syncs[s].at = i
      /\ syncs' = [syncs EXCEPT ![s] = k]
  BY DEF WalletAnswers, MoneroInv, SyncsOK
<1>2. syncs[s].upto \in 1 .. Len(ledger.deposits) /\ i \in 1 .. syncs[s].upto
  BY <1>1 DEF MoneroInv, SyncsOK, SyncOK, Idle
<1>3. /\ told \in Partial(Txs, Depth \cup {"doubled"})
      /\ \A t \in DOMAIN told : /\ d \in chain[t].to
                                /\ told[t] = "deep" => chain[t].state = "deep"
  BY IncomingIs DEF MoneroInv
<1>4. SyncOK(k, ledger, chain)
  <2> HIDE DEF told
  <2> QED BY <1>2, <1>3 DEF SyncOK
<1> QED BY <1>1, <1>4, SyncStep DEF WalletAnswers

LEMMA NormalizedIs ==
  ASSUME NEW told \in Partial(Txs, Depth \cup {"doubled"})
  PROVE  /\ Normalized(told) \in Partial(Txs, Depth)
         /\ DOMAIN Normalized(told) \subseteq DOMAIN told
         /\ \A t \in DOMAIN Normalized(told) : Normalized(told)[t] = told[t]
<1> DEFINE kept == Normalized(told)
<1>1. DOMAIN told \subseteq Txs /\ told \in [DOMAIN told -> Depth \cup {"doubled"}]
  BY PartialFunction
<1>2. /\ DOMAIN kept = {t \in DOMAIN told : told[t] # "doubled"}
      /\ \A t \in DOMAIN kept : kept[t] = told[t]
      /\ kept = [t \in DOMAIN kept |-> kept[t]]
  BY DEF Normalized
<1> HIDE DEF kept
<1>3. kept \in [DOMAIN kept -> Depth] /\ DOMAIN kept \subseteq Txs
  BY <1>1, <1>2
<1>4. kept \in Partial(Txs, Depth)
  BY <1>3, PartialFunction
<1> QED BY <1>2, <1>4 DEF kept

LEMMA SyncedKeeps ==
  ASSUME MoneroAssumption, MoneroInv, NEW s \in Syncs, Synced(s)
  PROVE  MoneroInv'
<1> DEFINE k == syncs[s]
           d == ledger.deposits[k.at].id
           kept == Normalized(k.told)
           foreign == \E t \in (DOMAIN k.told) \cap (DOMAIN txOwner) : txOwner[t] # d
           l == [ledger EXCEPT !.deposits[k.at].transfers = kept]
<1>1. k.pc = "answered" /\ UNCHANGED <<creates, submits, world>> /\ k # Idle
  BY DEF Synced, Idle
<1>2. CASE foreign
  <2>1. NoWrite /\ UNCHANGED txOwner /\ syncs' = [syncs EXCEPT ![s] = Idle]
    BY <1>2 DEF Synced
  <2>2. SyncOK(Idle, ledger, chain)
    BY DEF SyncOK
  <2> QED BY <1>1, <2>1, <2>2, SyncStep
<1>3. CASE ~foreign
  <2>1. /\ Persist(l)
        /\ txOwner' = [t \in DOMAIN kept \cup DOMAIN txOwner |->
                         IF t \in DOMAIN kept THEN d ELSE txOwner[t]]
        /\ syncs' = [syncs EXCEPT ![s] = IF Persisted THEN Onward(k) ELSE Idle]
    BY <1>3 DEF Synced
  <2>2. /\ k.upto \in 1 .. Len(ledger.deposits) /\ k.at \in 1 .. k.upto
        /\ k.told \in Partial(Txs, Depth \cup {"doubled"})
        /\ \A t \in DOMAIN k.told :
             d \in chain[t].to /\ (k.told[t] = "deep" => chain[t].state = "deep")
    BY <1>1 DEF MoneroInv, SyncsOK, SyncOK
  <2>3. /\ kept \in Partial(Txs, Depth)
        /\ DOMAIN kept \subseteq DOMAIN k.told
        /\ \A t \in DOMAIN kept : kept[t] = k.told[t]
    BY <2>2, NormalizedIs
  <2>4. DOMAIN kept \subseteq Txs
    BY <2>3, PartialFunction
  <2>5. /\ ledger \in Snapshot
        /\ LedgerOK(ledger, creates, submits, chain)
        /\ LedgerOK(file, creates, submits, chain)
    BY DEF MoneroInv, LedgerOK
  <2>6. /\ DOMAIN ledger.deposits = 1 .. Len(ledger.deposits)
        /\ Len(ledger.deposits) \in Nat
        /\ ledger.deposits \in Seq(Deposit)
        /\ k.at \in DOMAIN ledger.deposits
        /\ d \in Creates
    <3>1. /\ DOMAIN ledger.deposits = 1 .. Len(ledger.deposits)
          /\ Len(ledger.deposits) \in Nat
          /\ ledger.deposits \in Seq(Deposit)
          /\ \A i \in DOMAIN ledger.deposits : ledger.deposits[i].id \in Creates
      BY <2>5, SnapshotParts
    <3> QED BY <2>2, <3>1
  <2> HIDE DEF kept, l
  <2>7. ASSUME NEW i \in DOMAIN ledger.deposits, i # k.at
        PROVE  DOMAIN kept \cap DOMAIN ledger.deposits[i].transfers = {}
    <3>1. ledger.deposits[i].id # d
      BY <2>5, <2>6, <2>7 DEF LedgerOK, DepositsOK
    <3>2. \A t \in DOMAIN ledger.deposits[i].transfers :
            t \in DOMAIN txOwner /\ txOwner[t] = ledger.deposits[i].id
      BY DEF MoneroInv, OwnersOK
    <3> QED BY <1>3, <2>3, <3>1, <3>2
  <2>8. LedgerOK(l, creates, submits, chain) /\ l.deposits[k.at].transfers = kept
    <3>1. \A t \in DOMAIN kept :
            d \in chain[t].to /\ (kept[t] = "deep" => chain[t].state = "deep")
      BY <2>2, <2>3
    <3>2. \A i \in DOMAIN ledger.deposits :
            i # k.at => DOMAIN kept \cap DOMAIN ledger.deposits[i].transfers = {}
      BY <2>7
    <3>3. Fitting(ledger, k.at, kept, chain)
      <4> HIDE DEF k
      <4> QED BY <2>3, <2>6, <3>1, <3>2 DEF Fitting
    <3>4. l = Putting(ledger, k.at, kept)
      BY DEF l, Putting
    <3> HIDE DEF k, d, foreign
    <3> QED BY <2>5, <3>3, <3>4, TransfersSet
  <2>9. /\ LedgerOK(ledger', creates', submits', chain')
        /\ LedgerOK(file', creates', submits', chain')
    BY <1>1, <2>1, <2>5, <2>8, PersistKeeps DEF world
  <2>10. MoneroTypes'
    <3>1. failures' \in 0 .. MaxFailures
      BY <2>1, PersistTypes DEF MoneroInv
    <3> QED BY <1>1, <3>1 DEF MoneroInv, MoneroTypes, world
  <2>11. /\ ledger' = l
         /\ l.withdrawals = ledger.withdrawals /\ l.nonces = ledger.nonces
         /\ l.deposits = [ledger.deposits EXCEPT ![k.at].transfers = kept]
    BY <2>1, <2>5 DEF Persist, l, Snapshot
  <2>12. /\ DOMAIN l.deposits = DOMAIN ledger.deposits
         /\ Len(l.deposits) = Len(ledger.deposits)
         /\ \A i \in DOMAIN ledger.deposits :
              /\ i # k.at => l.deposits[i] = ledger.deposits[i]
              /\ l.deposits[i].id = ledger.deposits[i].id
    <3>1. l.deposits \in Seq(Deposit) /\ DOMAIN l.deposits = 1 .. Len(l.deposits)
          /\ Len(l.deposits) \in Nat
      BY <2>8, SnapshotParts DEF LedgerOK
    <3>2. DOMAIN l.deposits = DOMAIN ledger.deposits
          /\ \A i \in DOMAIN ledger.deposits :
               i # k.at => l.deposits[i] = ledger.deposits[i]
      BY <2>11
    <3>3. l.deposits[k.at].id = d
      <4>1. ledger.deposits[k.at]
              \in [id : Creates, key : Keys, owner : Owners,
                   transfers : Partial(Txs, Depth)]
        BY <2>5, <2>6, SnapshotParts, DepositIs
      <4> QED BY <2>6, <2>11, <4>1
    <3> QED BY <2>6, <3>1, <3>2, <3>3
  <2>13. OwnersOK'
    <3>1. /\ DOMAIN txOwner' = DOMAIN kept \cup DOMAIN txOwner
          /\ \A t \in DOMAIN kept : txOwner'[t] = d
          /\ \A t \in DOMAIN txOwner \ DOMAIN kept : txOwner'[t] = txOwner[t]
      BY <2>1
    <3>2. /\ DOMAIN txOwner \subseteq Txs
          /\ \A t \in DOMAIN txOwner : txOwner[t] \in Creates
      BY DEF MoneroInv, OwnersOK
    <3>3. ASSUME NEW i \in DOMAIN ledger.deposits, NEW t \in DOMAIN l.deposits[i].transfers
          PROVE  t \in DOMAIN txOwner' /\ txOwner'[t] = l.deposits[i].id
      <4>1. CASE i = k.at
        BY <4>1, <2>8, <2>12, <3>1, <3>3
      <4>2. CASE i # k.at
        <5>1. t \in DOMAIN ledger.deposits[i].transfers
              /\ l.deposits[i].id = ledger.deposits[i].id
          BY <4>2, <2>12, <3>3
        <5>2. t \notin DOMAIN kept
          BY <4>2, <2>7, <5>1
        <5>3. t \in DOMAIN txOwner /\ txOwner[t] = ledger.deposits[i].id
          BY <5>1 DEF MoneroInv, OwnersOK
        <5> QED BY <3>1, <5>1, <5>2, <5>3
      <4> QED BY <4>1, <4>2
    <3> QED BY <2>4, <2>6, <2>11, <2>12, <3>1, <3>2, <3>3 DEF OwnersOK
  <2>14. SyncsOK'
    <3>1. ASSUME NEW r \in Syncs, NEW e, SyncOK(e, ledger, chain)
          PROVE  SyncOK(e, l, chain)
      <4>1. Len(l.deposits) \in Nat /\ Len(ledger.deposits) <= Len(l.deposits)
        BY <2>6, <2>12
      <4> QED BY <2>6, <2>12, <3>1, <4>1, SyncStays
    <3>2. SyncOK(Idle, ledger, chain)
      BY DEF SyncOK
    <3>3. SyncOK(Onward(k), ledger, chain)
      BY <2>2, <2>6, <3>2 DEF SyncOK, Onward
    <3>4. /\ DOMAIN syncs' = Syncs
          /\ \A r \in Syncs : r # s => syncs'[r] = syncs[r]
          /\ syncs'[s] = Idle \/ syncs'[s] = Onward(k)
      BY <2>1 DEF MoneroInv, SyncsOK
    <3>5. ASSUME NEW r \in Syncs PROVE SyncOK(syncs'[r], l, chain)
      <4>1. CASE r = s
        BY <4>1, <3>1, <3>2, <3>3, <3>4
      <4>2. CASE r # s
        BY <4>2, <3>1, <3>4 DEF MoneroInv, SyncsOK
      <4> QED BY <4>1, <4>2
    <3> QED BY <1>1, <2>11, <3>4, <3>5 DEF SyncsOK, world
  <2>15. DOMAIN file'.withdrawals = DOMAIN file.withdrawals
         \/ DOMAIN file'.withdrawals = DOMAIN ledger.withdrawals
    BY <2>1, <2>11 DEF Persist
  <2>16. SubmitsOK'
    <3>1. ASSUME NEW r \in Submits PROVE SubmitOK(r, submits, l, file')
      <4>1. SubmitOK(r, submits, ledger, file)
        BY DEF MoneroInv, SubmitsOK
      <4>2. DOMAIN l.withdrawals = DOMAIN ledger.withdrawals /\ l.nonces = ledger.nonces
        BY <2>11
      <4> QED BY <2>15, <4>1, <4>2 DEF SubmitOK
    <3> QED BY <1>1, <2>11, <3>1 DEF SubmitsOK
  <2>17. SentOK'
    BY <1>1, <2>11, <2>15, SentStays DEF SameRequests, world
  <2> QED BY <2>9, <2>10, <2>13, <2>14, <2>16, <2>17 DEF MoneroInv
<1> QED BY <1>2, <1>3

LEMMA WithdrawalBegunKeeps ==
  ASSUME MoneroAssumption, MoneroInv, NEW s \in Submits, WithdrawalBegun(s)
  PROVE  MoneroInv'
<1> DEFINE n == ledger.nonces[submits[s].spelling]
<1>1. /\ submits[s].pc = "new" /\ ~HasWithdrawal(submits[s].key)
      /\ submits' = [submits EXCEPT ![s].pc = "verify", ![s].nonce = n]
      /\ NoWrite /\ UNCHANGED <<txOwner, creates, syncs, world>>
  BY DEF WithdrawalBegun
<1>2. submits \in [Submits -> [pc : {"new", "verify", "transfer", "paid", "done"},
                               nonce : Nat, key : Keys, spelling : Spellings]]
  BY DEF MoneroInv, MoneroTypes
<1>3. ledger \in Snapshot /\ n \in Nat /\ DOMAIN ledger.withdrawals \subseteq Submits
  <2>1. ledger \in Snapshot
    BY DEF MoneroInv, LedgerOK
  <2>2. submits[s].spelling \in Spellings
    BY <1>2
  <2> QED BY <2>1, <2>2, SnapshotParts
<1> HIDE DEF n
<1>4. /\ submits'[s] = [submits[s] EXCEPT !.pc = "verify", !.nonce = n]
      /\ \A r \in Submits : r # s => submits'[r] = submits[r]
      /\ DOMAIN submits' = Submits
      /\ submits' = [r \in Submits |-> submits'[r]]
  BY <1>1, <1>2
<1>5. /\ submits'[s] \in [pc : {"new", "verify", "transfer", "paid", "done"},
                          nonce : Nat, key : Keys, spelling : Spellings]
      /\ submits'[s].pc = "verify" /\ submits'[s].nonce = n
      /\ submits'[s].key = submits[s].key /\ submits'[s].spelling = submits[s].spelling
  <2> DEFINE C == [pc : {"new", "verify", "transfer", "paid", "done"},
                   nonce : Nat, key : Keys, spelling : Spellings]
  <2>1. \A k \in C : \A q \in Nat :
          LET e == [k EXCEPT !.pc = "verify", !.nonce = q]
          IN  /\ e \in C /\ e.pc = "verify" /\ e.nonce = q
              /\ e.key = k.key /\ e.spelling = k.spelling
    OBVIOUS
  <2>2. submits[s] \in C
    BY <1>2
  <2> HIDE DEF C
  <2>3. submits'[s] \in C /\ submits'[s].pc = "verify" /\ submits'[s].nonce = n
        /\ submits'[s].key = submits[s].key /\ submits'[s].spelling = submits[s].spelling
    <3>1. n \in Nat
      BY <1>3
    <3> DEFINE e == [submits[s] EXCEPT !.pc = "verify", !.nonce = n]
    <3>2. /\ e \in C /\ e.pc = "verify" /\ e.nonce = n
          /\ e.key = submits[s].key /\ e.spelling = submits[s].spelling
      BY <2>1, <2>2, <3>1
    <3>3. submits'[s] = e
      BY <1>4
    <3> HIDE DEF e
    <3> QED BY <3>2, <3>3
  <2> QED BY <2>3 DEF C
<1>6. MoneroTypes'
  <2>1. submits' \in [Submits -> [pc : {"new", "verify", "transfer", "paid", "done"},
                                  nonce : Nat, key : Keys, spelling : Spellings]]
    BY <1>2, <1>4, <1>5
  <2> QED BY <1>1, <2>1 DEF MoneroInv, MoneroTypes, NoWrite, world
<1>7. Later(creates, submits, chain, creates', submits', chain')
  BY <1>1, <1>4, <1>5 DEF Later, world
<1>8. SameRequests(submits, submits')
  BY <1>4, <1>5 DEF SameRequests
<1>9. \A w \in DOMAIN ledger.withdrawals : submits[w].key # submits[s].key
  BY <1>1 DEF HasWithdrawal, MoneroInv, LedgerOK, WithdrawalsOK
<1>10. ASSUME NEW r \in Submits PROVE SubmitOK(r, submits', ledger, file)
  <2>1. CASE r = s
    BY <2>1, <1>3, <1>5, <1>8, <1>9 DEF SubmitOK, SameRequests, n
  <2>2. CASE r # s
    <3>1. submits'[r] = submits[r] /\ SubmitOK(r, submits, ledger, file)
      BY <2>2, <1>4 DEF MoneroInv, SubmitsOK
    <3> QED BY <3>1, <1>3, <1>8, SubmitStays
  <2> QED BY <2>1, <2>2
<1>11. SubmitsOK'
  BY <1>1, <1>10 DEF SubmitsOK, NoWrite
<1> QED BY <1>1, <1>6, <1>7, <1>11, LedgersKept, SyncsKept DEF NoWrite, world

\* The withdrawal a call in its transfer works on is of its owner, and is its
\* own if the owner's calls spell the address alike.
LEMMA WithdrawalOfIs ==
  ASSUME MoneroAssumption, MoneroInv, NEW s \in Submits,
         submits[s].pc \in {"transfer", "paid"}
  PROVE  /\ WithdrawalOf(s) \in DOMAIN ledger.withdrawals
         /\ WithdrawalOf(s) \in Submits
         /\ Beneficiary(submits[WithdrawalOf(s)]) = Beneficiary(submits[s])
         /\ AlikeTo(submits, s) =>
              /\ s \in DOMAIN ledger.withdrawals /\ s \in DOMAIN file.withdrawals
              /\ WithdrawalOf(s) = s
<1>1. PICK w \in DOMAIN ledger.withdrawals :
        submits[w].key = submits[s].key
        /\ Beneficiary(submits[w]) = Beneficiary(submits[s])
  BY DEF MoneroInv, SubmitsOK, SubmitOK
<1>2. \A v \in DOMAIN ledger.withdrawals :
        ledger.withdrawals[v].key = submits[s].key <=> v = w
  BY <1>1 DEF MoneroInv, LedgerOK, WithdrawalsOK
<1>3. WithdrawalOf(s) \in DOMAIN ledger.withdrawals
      /\ ledger.withdrawals[WithdrawalOf(s)].key = submits[s].key
  BY <1>1, <1>2 DEF WithdrawalOf
<1>4. WithdrawalOf(s) = w
  BY <1>2, <1>3
<1>5. DOMAIN ledger.withdrawals \subseteq Submits
  BY SnapshotParts DEF MoneroInv, LedgerOK
<1>6. ASSUME AlikeTo(submits, s)
      PROVE  s \in DOMAIN ledger.withdrawals /\ s \in DOMAIN file.withdrawals
  BY <1>6 DEF MoneroInv, SubmitsOK, SubmitOK
<1>7. ASSUME AlikeTo(submits, s) PROVE WithdrawalOf(s) = s
  <2>1. ledger.withdrawals[s].key = submits[s].key
    BY <1>6, <1>7 DEF MoneroInv, LedgerOK, WithdrawalsOK
  <2> QED BY <1>2, <1>4, <1>6, <1>7, <2>1
<1> QED BY <1>1, <1>4, <1>5, <1>6, <1>7

LEMMA WalletPaysKeeps ==
  ASSUME MoneroAssumption, MoneroInv, NEW s \in Submits, WalletPays(s)
  PROVE  MoneroInv'
<1>1. /\ submits[s].pc = "transfer" /\ submits' = [submits EXCEPT ![s].pc = "paid"]
      /\ NoWrite /\ UNCHANGED <<txOwner, creates, syncs, chain, crashes>>
  BY DEF WalletPays
<1> DEFINE v == WithdrawalOf(s)
<1>2. /\ v \in DOMAIN ledger.withdrawals /\ v \in Submits
      /\ Beneficiary(submits[v]) = Beneficiary(submits[s])
      /\ AlikeTo(submits, s) =>
           s \in DOMAIN ledger.withdrawals /\ s \in DOMAIN file.withdrawals /\ v = s
      /\ sent' = Added(sent, s, v)
  BY <1>1, WithdrawalOfIs DEF WalletPays
<1> HIDE DEF v
<1>3. /\ submits' \in [Submits -> [pc : {"new", "verify", "transfer", "paid", "done"},
                                   nonce : Nat, key : Keys, spelling : Spellings]]
      /\ submits'[s].pc = "paid" /\ submits'[s].nonce = submits[s].nonce
      /\ submits'[s].key = submits[s].key /\ submits'[s].spelling = submits[s].spelling
      /\ \A r \in Submits : r # s => submits'[r] = submits[r]
      /\ Later(creates, submits, chain, creates, submits', chain)
  BY <1>1, SubmitMoves DEF MoneroInv
<1>4. /\ MoneroTypes'
      /\ LedgerOK(ledger', creates', submits', chain')
      /\ LedgerOK(file', creates', submits', chain')
      /\ OwnersOK' /\ SyncsOK'
  <2>1. MoneroTypes'
    BY <1>1, <1>3 DEF MoneroInv, MoneroTypes, NoWrite
  <2>2. LedgerOK(ledger, creates, submits', chain) /\ LedgerOK(file, creates, submits', chain)
    BY <1>3, LedgerStays DEF MoneroInv
  <2>3. OwnersOK' /\ SyncsOK'
    BY <1>1, SyncsKept DEF MoneroInv, OwnersOK, NoWrite
  <2> QED BY <1>1, <2>1, <2>2, <2>3 DEF NoWrite
<1>5. SameRequests(submits, submits') /\ DOMAIN ledger.withdrawals \subseteq Submits
  BY <1>3, SnapshotParts DEF MoneroInv, LedgerOK, SameRequests
<1>6. ASSUME NEW r \in Submits PROVE SubmitOK(r, submits', ledger, file)
  <2>1. CASE r = s
    <3>1. SubmitOK(s, submits, ledger, file)
      BY DEF MoneroInv, SubmitsOK
    <3>2. PICK w \in DOMAIN ledger.withdrawals :
            submits[w].key = submits[s].key
            /\ Beneficiary(submits[w]) = Beneficiary(submits[s])
      BY <1>1, <3>1 DEF SubmitOK
    <3>3. submits'[w].key = submits'[s].key
          /\ Beneficiary(submits'[w]) = Beneficiary(submits'[s])
      BY <1>5, <3>2 DEF SameRequests, Beneficiary
    <3>4. AlikeTo(submits', s) <=> AlikeTo(submits, s)
      BY <1>5, AlikeStays
    <3> QED BY <2>1, <1>2, <1>3, <3>2, <3>3, <3>4 DEF SubmitOK
  <2>2. CASE r # s
    <3>1. submits'[r] = submits[r] /\ SubmitOK(r, submits, ledger, file)
      BY <2>2, <1>3 DEF MoneroInv, SubmitsOK
    <3> QED BY <3>1, <1>5, SubmitStays
  <2> QED BY <2>1, <2>2
<1>7. SubmitsOK'
  BY <1>1, <1>6 DEF SubmitsOK, NoWrite
<1>8. SentOK'
  <2>1. /\ DOMAIN sent' = DOMAIN sent \cup {s}
        /\ \A r \in DOMAIN sent' : (r \in DOMAIN sent /\ sent'[r] = sent[r])
                                   \/ (r = s /\ sent'[r] = v)
    BY <1>2 DEF Added
  <2>2. \A r \in Submits : /\ AlikeTo(submits', r) <=> AlikeTo(submits, r)
                           /\ Beneficiary(submits'[r]) = Beneficiary(submits[r])
    BY <1>5, AlikeStays DEF SameRequests, Beneficiary
  <2>3. SentOK
    BY DEF MoneroInv
  <2>4. ASSUME NEW r \in DOMAIN sent'
        PROVE  /\ r \in Submits /\ sent'[r] \in Submits
               /\ Beneficiary(submits[sent'[r]]) = Beneficiary(submits[r])
               /\ AlikeTo(submits, r) =>
                    /\ r \in DOMAIN ledger.withdrawals /\ r \in DOMAIN file.withdrawals
                    /\ sent'[r] = r
    <3>1. CASE r \in DOMAIN sent /\ sent'[r] = sent[r]
      BY <2>3, <3>1 DEF SentOK
    <3>2. CASE r = s /\ sent'[r] = v
      BY <1>2, <3>2
    <3> QED BY <2>1, <3>1, <3>2
  <2>5. ASSUME NEW r \in DOMAIN sent'
        PROVE  /\ sent'[r] \in Submits
               /\ Beneficiary(submits'[sent'[r]]) = Beneficiary(submits'[r])
               /\ AlikeTo(submits', r) =>
                    /\ r \in DOMAIN ledger.withdrawals /\ r \in DOMAIN file.withdrawals
                    /\ sent'[r] = r
    BY <2>2, <2>4
  <2> QED BY <1>1, <2>4, <2>5 DEF SentOK, NoWrite
<1> QED BY <1>4, <1>7, <1>8 DEF MoneroInv

LEMMA MarkedKeeps ==
  ASSUME MoneroAssumption, MoneroInv, NEW s \in Submits, Marked(s)
  PROVE  MoneroInv'
<1>1. /\ submits[s].pc = "paid" /\ submits' = [submits EXCEPT ![s].pc = "done"]
      /\ UNCHANGED <<txOwner, creates, syncs, world>>
  BY DEF Marked
<1> DEFINE v == WithdrawalOf(s)
<1>2. v \in DOMAIN ledger.withdrawals
  BY <1>1, WithdrawalOfIs
<1>3. CASE ledger.withdrawals[v].status = "submitted"
  BY <1>1, <1>2, <1>3, SubmitDone DEF Marked
<1>4. CASE ledger.withdrawals[v].status # "submitted"
  <2>1. Persist(Marking(ledger, v))
    BY <1>2, <1>4 DEF Marked, Marking
  <2> HIDE DEF v
  <2>2. /\ submits' \in [Submits -> [pc : {"new", "verify", "transfer", "paid", "done"},
                                     nonce : Nat, key : Keys, spelling : Spellings]]
        /\ submits'[s].pc = "done" /\ submits'[s].nonce = submits[s].nonce
        /\ submits'[s].key = submits[s].key /\ submits'[s].spelling = submits[s].spelling
        /\ \A r \in Submits : r # s => submits'[r] = submits[r]
        /\ Later(creates, submits, chain, creates, submits', chain)
    BY <1>1, SubmitMoves DEF MoneroInv
  <2>3. LedgerOK(ledger, creates, submits', chain) /\ LedgerOK(file, creates, submits', chain)
    BY <2>2, LedgerStays DEF MoneroInv
  <2> DEFINE l == Marking(ledger, v)
  <2>4. /\ LedgerOK(l, creates, submits', chain)
        /\ l.deposits = ledger.deposits /\ l.nonces = ledger.nonces
        /\ DOMAIN l.withdrawals = DOMAIN ledger.withdrawals
    BY <1>2, <2>3, WithdrawalMarked
  <2> HIDE DEF l
  <2>5. Persist(l) /\ ledger' = l
    BY <2>1 DEF Persist, l
  <2>6. /\ LedgerOK(ledger', creates', submits', chain')
        /\ LedgerOK(file', creates', submits', chain')
    BY <1>1, <2>3, <2>4, <2>5, PersistKeeps DEF world
  <2>7. MoneroTypes'
    <3>1. failures' \in 0 .. MaxFailures
      BY <2>5, PersistTypes DEF MoneroInv
    <3> QED BY <1>1, <2>2, <3>1 DEF MoneroInv, MoneroTypes, world
  <2>8. OwnersOK' /\ SyncsOK'
    <3>1. ledger'.deposits = ledger.deposits
      BY <2>4, <2>5
    <3>2. OwnersOK'
      BY <1>1, <3>1 DEF MoneroInv, OwnersOK
    <3>3. UNCHANGED <<syncs, chain>>
      BY <1>1 DEF world
    <3>4. ASSUME NEW r \in Syncs PROVE SyncOK(syncs[r], ledger', chain)
      <4>1. SyncOK(syncs[r], ledger, chain)
        BY DEF MoneroInv, SyncsOK
      <4> QED BY <3>1, <4>1 DEF SyncOK
    <3>5. SyncsOK'
      BY <3>3, <3>4 DEF MoneroInv, SyncsOK
    <3> QED BY <3>2, <3>5
  <2>9. DOMAIN file'.withdrawals = DOMAIN file.withdrawals
        \/ DOMAIN file'.withdrawals = DOMAIN ledger.withdrawals
    BY <2>4, <2>5 DEF Persist
  <2>10. SameRequests(submits, submits') /\ DOMAIN ledger.withdrawals \subseteq Submits
    BY <2>2, SnapshotParts DEF MoneroInv, LedgerOK, SameRequests
  <2>11. ASSUME NEW r \in Submits PROVE SubmitOK(r, submits', l, file')
    <3>1. CASE r = s
      BY <3>1, <2>2 DEF SubmitOK
    <3>2. CASE r # s
      <4>1. submits'[r] = submits[r] /\ SubmitOK(r, submits, ledger, file)
        BY <3>2, <2>2 DEF MoneroInv, SubmitsOK
      <4> QED BY <4>1, <2>4, <2>9, <2>10, SubmitStays
    <3> QED BY <3>1, <3>2
  <2>12. SubmitsOK'
    BY <2>5, <2>11 DEF SubmitsOK
  <2>13. SentOK'
    BY <1>1, <2>4, <2>5, <2>9, <2>10, SentStays DEF world
  <2> QED BY <2>6, <2>7, <2>8, <2>12, <2>13 DEF MoneroInv
<1> QED BY <1>3, <1>4

\* A call that finds the withdrawal of its key and owner was spelled otherwise
\* than the call that made it, which used up the nonce of its own spelling.
LEMMA ReservesSharedKeeps ==
  ASSUME MoneroAssumption, MoneroInv, NEW s \in Submits, Reserves(s),
         ~(Persist(WithReservation(s)) /\ ~HasWithdrawal(submits[s].key))
  PROVE  MoneroInv'
<1>1. /\ submits[s].pc = "verify"
      /\ submits[s].nonce = ledger.nonces[submits[s].spelling]
      /\ submits' = [submits EXCEPT ![s].pc = "transfer"]
      /\ NoWrite /\ UNCHANGED <<txOwner, creates, syncs, world>>
  BY DEF Reserves
<1>2. PICK w \in DOMAIN ledger.withdrawals :
        /\ ledger.withdrawals[w].key = submits[s].key
        /\ Beneficiary(ledger.withdrawals[w]) = Beneficiary(submits[s])
  BY DEF Reserves
<1>3. /\ submits[w].key = submits[s].key
      /\ submits[w].spelling = ledger.withdrawals[w].spelling
      /\ Beneficiary(submits[w]) = Beneficiary(submits[s])
      /\ w \in Submits
  <2>1. DOMAIN ledger.withdrawals \subseteq Submits
    BY SnapshotParts DEF MoneroInv, LedgerOK
  <2> QED BY <1>2, <2>1 DEF MoneroInv, LedgerOK, WithdrawalsOK, Beneficiary
<1>4. /\ submits' \in [Submits -> [pc : {"new", "verify", "transfer", "paid", "done"},
                                   nonce : Nat, key : Keys, spelling : Spellings]]
      /\ submits'[s].pc = "transfer" /\ submits'[s].nonce = submits[s].nonce
      /\ submits'[s].key = submits[s].key /\ submits'[s].spelling = submits[s].spelling
      /\ \A r \in Submits : r # s => submits'[r] = submits[r]
      /\ Later(creates, submits, chain, creates, submits', chain)
  BY <1>1, SubmitMoves DEF MoneroInv
<1>5. SameRequests(submits, submits') /\ DOMAIN ledger.withdrawals \subseteq Submits
  BY <1>4, SnapshotParts DEF MoneroInv, LedgerOK, SameRequests
<1>6. ~AlikeTo(submits, s)
  <2> SUFFICES ASSUME submits[w].spelling = submits[s].spelling PROVE FALSE
    BY <1>3 DEF AlikeTo
  <2>1. submits[s].nonce < ledger.nonces[submits[s].spelling]
    BY <1>1, <1>3 DEF MoneroInv, SubmitsOK, SubmitOK
  <2>2. submits[s].nonce \in Nat
    BY DEF MoneroInv, MoneroTypes
  <2> QED BY <1>1, <2>1, <2>2
<1>7. SubmitOK(s, submits', ledger, file)
  <2>1. ~AlikeTo(submits', s)
    BY <1>5, <1>6, AlikeStays
  <2>2. submits'[w].key = submits'[s].key
        /\ Beneficiary(submits'[w]) = Beneficiary(submits'[s])
    BY <1>3, <1>5 DEF SameRequests, Beneficiary
  <2> QED BY <1>2, <1>4, <2>1, <2>2 DEF SubmitOK
<1>8. ASSUME NEW r \in Submits PROVE SubmitOK(r, submits', ledger, file)
  <2>1. CASE r # s
    <3>1. submits'[r] = submits[r] /\ SubmitOK(r, submits, ledger, file)
      BY <2>1, <1>4 DEF MoneroInv, SubmitsOK
    <3> QED BY <3>1, <1>5, SubmitStays
  <2> QED BY <1>7, <2>1
<1>9. SubmitsOK' /\ MoneroTypes'
  BY <1>1, <1>4, <1>8 DEF SubmitsOK, MoneroInv, MoneroTypes, NoWrite, world
<1> QED BY <1>1, <1>4, <1>9, LedgersKept, SyncsKept DEF NoWrite, world

LEMMA ReservesOwnKeeps ==
  ASSUME MoneroAssumption, MoneroInv, NEW s \in Submits, Reserves(s),
         Persist(WithReservation(s)), ~HasWithdrawal(submits[s].key)
  PROVE  MoneroInv'
<1> DEFINE me == submits[s].spelling
           p == IF Persisted THEN "transfer" ELSE "done"
           l == Reserving(ledger, s, submits[s])
<1>1. /\ submits[s].pc = "verify" /\ submits[s].nonce = ledger.nonces[me]
      /\ UNCHANGED <<txOwner, creates, syncs, world>>
  BY DEF Reserves
<1>2. submits \in [Submits -> [pc : {"new", "verify", "transfer", "paid", "done"},
                               nonce : Nat, key : Keys, spelling : Spellings]]
  BY DEF MoneroInv, MoneroTypes
<1>3. /\ ledger \in Snapshot /\ ledger.nonces \in [Spellings -> Nat]
      /\ DOMAIN ledger.withdrawals \subseteq Submits
  <2>1. ledger \in Snapshot
    BY DEF MoneroInv, LedgerOK
  <2> QED BY <2>1, SnapshotParts
<1>5. /\ ~HasWithdrawal(submits[s].key)
      /\ availableWithdrawalBalance(Beneficiary(submits[s])) >= 1
      /\ Persist(l)
      /\ submits' = [submits EXCEPT ![s].pc = p]
  <2>1. Persist(l)
    BY DEF WithReservation, Reserving
  <2>2. ~\E w \in DOMAIN ledger.withdrawals : ledger.withdrawals[w].key = submits[s].key
    BY DEF HasWithdrawal
  <2> HIDE DEF l
  <2> QED BY <2>1, <2>2 DEF Reserves
<1>6. ledger' = l /\ (file' = l \/ file' = file) /\ (p = "transfer" => file' = l)
      /\ p \in {"transfer", "done"}
  BY <1>5 DEF Persist, Persisted
<1> HIDE DEF p, l
<1>7. /\ submits' \in [Submits -> [pc : {"new", "verify", "transfer", "paid", "done"},
                                   nonce : Nat, key : Keys, spelling : Spellings]]
      /\ submits'[s].pc = p /\ submits'[s].nonce = submits[s].nonce
      /\ submits'[s].key = submits[s].key /\ submits'[s].spelling = submits[s].spelling
      /\ \A r \in Submits : r # s => submits'[r] = submits[r]
      /\ Later(creates, submits, chain, creates, submits', chain)
  BY <1>1, <1>5, <1>6, SubmitMoves DEF MoneroInv
<1>8. LedgerOK(file, creates, submits', chain)
  BY <1>7, LedgerStays DEF MoneroInv
<1>9. /\ LedgerOK(l, creates, submits', chain)
      /\ l.deposits = ledger.deposits
      /\ DOMAIN l.withdrawals = DOMAIN ledger.withdrawals \cup {s}
      /\ l.nonces = [ledger.nonces EXCEPT ![me] = submits[s].nonce + 1]
  <2>1. \A w \in DOMAIN ledger.withdrawals : ledger.withdrawals[w].key # submits[s].key
    BY <1>5 DEF HasWithdrawal
  <2>2. Cardinality(ConfirmedOf(ledger, Beneficiary(submits[s])))
          - Cardinality(ReservedOf(ledger, Beneficiary(submits[s]))) >= 1
    BY <1>5, AvailableIs
  <2>3. LedgerOK(ledger, creates, submits, chain)
    BY DEF MoneroInv
  <2>4. /\ submits[s].key \in Keys /\ submits[s].spelling \in Spellings
        /\ \A r \in Submits : submits[r].nonce \in Nat
    BY <1>2
  <2>5. submits'[s].pc \in {"transfer", "done"}
    BY <1>6, <1>7
  <2>6. /\ submits'[s].key = submits[s].key /\ submits'[s].spelling = submits[s].spelling
        /\ submits'[s].nonce = submits[s].nonce
        /\ \A r \in Submits : r # s => submits'[r] = submits[r]
    BY <1>7
  <2>7. submits[s].pc = "verify" /\ submits[s].nonce = ledger.nonces[submits[s].spelling]
    BY <1>1
  <2> DEFINE m == Reserving(ledger, s, submits[s])
  <2>8. MayReserve(ledger, creates, submits, chain, s, submits')
    <3> HIDE DEF me
    <3> QED BY <2>1, <2>2, <2>3, <2>4, <2>5, <2>6, <2>7 DEF MayReserve
  <2>9. /\ LedgerOK(m, creates, submits', chain)
        /\ m.deposits = ledger.deposits
        /\ DOMAIN m.withdrawals = DOMAIN ledger.withdrawals \cup {s}
        /\ m.nonces = [ledger.nonces EXCEPT ![submits[s].spelling] = submits[s].nonce + 1]
    <3>1. /\ LedgerOK(m, creates, submits', chain)
          /\ HasReserved(m, ledger, s, submits[s])
      BY <2>8, WithdrawalReserved
    <3> QED BY <3>1 DEF HasReserved
  <2> QED BY <2>9 DEF l
<1>10. /\ LedgerOK(ledger', creates', submits', chain')
       /\ LedgerOK(file', creates', submits', chain')
  BY <1>1, <1>6, <1>8, <1>9 DEF world
<1>11. MoneroTypes'
  <2>1. failures' \in 0 .. MaxFailures
    BY <1>5, PersistTypes DEF MoneroInv
  <2> QED BY <1>1, <1>7, <2>1 DEF MoneroInv, MoneroTypes, world
<1>12. OwnersOK' /\ SyncsOK'
  <2>1. ledger'.deposits = ledger.deposits
    BY <1>6, <1>9
  <2>2. OwnersOK'
    BY <1>1, <2>1 DEF MoneroInv, OwnersOK
  <2>3. UNCHANGED <<syncs, chain>>
    BY <1>1 DEF world
  <2>4. ASSUME NEW r \in Syncs PROVE SyncOK(syncs[r], ledger', chain)
    <3>1. SyncOK(syncs[r], ledger, chain)
      BY DEF MoneroInv, SyncsOK
    <3> QED BY <2>1, <3>1 DEF SyncOK
  <2>5. SyncsOK'
    BY <2>3, <2>4 DEF MoneroInv, SyncsOK
  <2> QED BY <2>2, <2>5
<1>4. SameRequests(submits, submits')
  BY <1>7 DEF SameRequests
<1>13. ASSUME NEW r \in Submits PROVE SubmitOK(r, submits', l, file')
  <2>1. CASE r = s
    BY <2>1, <1>6, <1>7, <1>9 DEF SubmitOK
  <2>2. CASE r # s
    <3>1. submits'[r] = submits[r] /\ SubmitOK(r, submits, ledger, file)
      BY <2>2, <1>7 DEF MoneroInv, SubmitsOK
    <3>2. /\ submits[r].spelling \in Spellings /\ submits[r].nonce \in Nat
          /\ submits[s].nonce \in Nat /\ me \in Spellings
      BY <1>2
    <3>3. /\ submits[r].spelling = me =>
               l.nonces[submits[r].spelling] = ledger.nonces[me] + 1
          /\ submits[r].spelling # me =>
               l.nonces[submits[r].spelling] = ledger.nonces[submits[r].spelling]
          /\ ledger.nonces[submits[r].spelling] \in Nat
      BY <1>1, <1>3, <1>9, <3>2
    <3>4. ASSUME submits[r].pc = "verify"
          PROVE  /\ submits[r].nonce <= l.nonces[submits[r].spelling]
                 /\ \A w \in DOMAIN l.withdrawals :
                      submits'[w].key = submits[r].key /\ submits'[w].spelling = submits[r].spelling
                        => submits[r].nonce < l.nonces[submits[r].spelling]
      <4>1. submits[r].nonce <= ledger.nonces[submits[r].spelling]
            /\ \A w \in DOMAIN ledger.withdrawals :
                 submits[w].key = submits[r].key /\ submits[w].spelling = submits[r].spelling
                   => submits[r].nonce < ledger.nonces[submits[r].spelling]
        BY <3>1, <3>4 DEF SubmitOK
      <4>2. CASE submits[r].spelling = me
        BY <3>2, <3>3, <4>1, <4>2
      <4>3. CASE submits[r].spelling # me
        <5>1. \A w \in DOMAIN ledger.withdrawals :
                submits'[w].key = submits[w].key /\ submits'[w].spelling = submits[w].spelling
          BY <1>3, <1>7
        <5> QED BY <1>7, <1>9, <3>3, <4>1, <4>3, <5>1
      <4> QED BY <4>2, <4>3
    <3>5. ASSUME submits[r].pc \in {"transfer", "paid"}
          PROVE  /\ \E w \in DOMAIN l.withdrawals :
                      submits'[w].key = submits'[r].key
                      /\ Beneficiary(submits'[w]) = Beneficiary(submits'[r])
                 /\ AlikeTo(submits', r) =>
                      r \in DOMAIN l.withdrawals /\ r \in DOMAIN file'.withdrawals
      <4>1. AlikeTo(submits', r) <=> AlikeTo(submits, r)
        BY <1>4, AlikeStays
      <4>2. PICK w \in DOMAIN ledger.withdrawals :
              submits[w].key = submits[r].key
              /\ Beneficiary(submits[w]) = Beneficiary(submits[r])
        BY <3>1, <3>5 DEF SubmitOK
      <4>3. w \in DOMAIN l.withdrawals /\ w \in Submits
        BY <1>3, <1>9
      <4>4. submits'[w].key = submits'[r].key
            /\ Beneficiary(submits'[w]) = Beneficiary(submits'[r])
        BY <1>4, <4>2, <4>3 DEF SameRequests, Beneficiary
      <4>5. AlikeTo(submits, r) =>
              r \in DOMAIN ledger.withdrawals /\ r \in DOMAIN file.withdrawals
        BY <3>1, <3>5 DEF SubmitOK
      <4> QED BY <1>6, <1>9, <4>1, <4>3, <4>4, <4>5
    <3> QED BY <3>1, <3>4, <3>5 DEF SubmitOK
  <2> QED BY <2>1, <2>2
<1>14. SubmitsOK'
  BY <1>6, <1>13 DEF SubmitsOK
<1>15. SentOK'
  BY <1>1, <1>6, <1>9, <1>4, SentStays DEF world
<1> QED BY <1>10, <1>11, <1>12, <1>14, <1>15 DEF MoneroInv

LEMMA ReservesKeeps ==
  ASSUME MoneroAssumption, MoneroInv, NEW s \in Submits, Reserves(s)
  PROVE  MoneroInv'
  BY ReservesSharedKeeps, ReservesOwnKeeps

\* The chain moves on and nothing else happens.
LEMMA ChainStep ==
  ASSUME MoneroAssumption, MoneroInv, NEW t \in Txs, NEW e,
         chain' = [chain EXCEPT ![t] = e],
         e \in [to : SUBSET Creates, state : Depth \cup {"doubled"}],
         chain[t].to \subseteq e.to, chain[t].state # "deep",
         UNCHANGED <<ledger, file, failures, txOwner, calls, sent, crashes>>
  PROVE  MoneroInv'
<1>1. chain \in [Txs -> [to : SUBSET Creates, state : Depth \cup {"none", "doubled"}]]
  BY DEF MoneroInv, MoneroTypes
<1>2. chain'[t] = e /\ \A u \in Txs : u # t => chain'[u] = chain[u]
  BY <1>1
<1>3. MoneroTypes'
  <2>1. chain' \in [Txs -> [to : SUBSET Creates, state : Depth \cup {"none", "doubled"}]]
    BY <1>1
  <2>2. \A u \in Txs : chain'[u].state = "none" => chain'[u].to = {}
    BY <1>2 DEF MoneroInv, MoneroTypes, Depth
  <2> QED BY <2>1, <2>2 DEF MoneroInv, MoneroTypes, calls
<1>4. Later(creates, submits, chain, creates', submits', chain')
  BY <1>2 DEF Later, calls
<1>5. \A u \in Txs : /\ chain[u].to \subseteq chain'[u].to
                     /\ chain[u].state = "deep" => chain'[u].state = "deep"
  BY <1>2
<1> QED BY <1>3, <1>4, <1>5, LedgersKept, SyncsKept, SubmitsKept DEF calls

LEMMA PayKeeps ==
  ASSUME MoneroAssumption, MoneroInv, NEW t \in Txs, Pay(t) PROVE MoneroInv'
<1>1. PICK to \in SUBSET {ledger.deposits[i].id : i \in DOMAIN ledger.deposits} :
        chain' = [chain EXCEPT ![t] = [to |-> to, state |-> "shallow"]]
  BY DEF Pay
<1>2. \A i \in DOMAIN ledger.deposits : ledger.deposits[i].id \in Creates
  BY SnapshotParts DEF MoneroInv, LedgerOK
<1>3. [to |-> to, state |-> "shallow"]
        \in [to : SUBSET Creates, state : Depth \cup {"doubled"}]
  BY <1>2 DEF Depth
<1>4. chain[t].state = "none" /\ chain[t].to = {}
  BY DEF Pay, MoneroInv, MoneroTypes
<1> QED BY <1>1, <1>3, <1>4, ChainStep DEF Pay

LEMMA ProgressKeeps ==
  ASSUME MoneroAssumption, MoneroInv, NEW t \in Txs, Progress(t) PROVE MoneroInv'
<1>1. PICK st \in {"deep", "doubled"} : chain' = [chain EXCEPT ![t].state = st]
  BY DEF Progress
<1> DEFINE e == [chain[t] EXCEPT !.state = st]
<1>2. chain[t] \in [to : SUBSET Creates, state : Depth \cup {"none", "doubled"}]
  BY DEF MoneroInv, MoneroTypes
<1>3. e \in [to : SUBSET Creates, state : Depth \cup {"doubled"}] /\ e.to = chain[t].to
  BY <1>2 DEF Depth
<1>4. chain' = [chain EXCEPT ![t] = e] /\ chain[t].state # "deep"
  BY <1>1 DEF Progress
<1> HIDE DEF e
<1> QED BY <1>3, <1>4, ChainStep DEF Progress

\* The constructor finds the owner of each transfer of the file again.
LEMMA OwnersFound ==
  ASSUME NEW l \in Snapshot, NEW ch, TransfersOK(l, ch)
  PROVE  /\ DOMAIN OwnersOf(l) \subseteq Txs
         /\ \A t \in DOMAIN OwnersOf(l) : OwnersOf(l)[t] \in Creates
         /\ \A i \in DOMAIN l.deposits : \A t \in DOMAIN l.deposits[i].transfers :
              t \in DOMAIN OwnersOf(l) /\ OwnersOf(l)[t] = l.deposits[i].id
<1> DEFINE seen(t) == {i \in DOMAIN l.deposits : t \in DOMAIN l.deposits[i].transfers}
           at(t) == CHOOSE i \in seen(t) : TRUE
<1>1. /\ DOMAIN OwnersOf(l) = {t \in Txs : seen(t) # {}}
      /\ \A t \in DOMAIN OwnersOf(l) : OwnersOf(l)[t] = l.deposits[at(t)].id
  BY DEF OwnersOf
<1>2. \A t : seen(t) # {} => at(t) \in seen(t)
  OBVIOUS
<1>3. \A i \in DOMAIN l.deposits :
        l.deposits[i].id \in Creates /\ DOMAIN l.deposits[i].transfers \subseteq Txs
  BY SnapshotParts
<1> HIDE DEF at
<1>4. ASSUME NEW t \in DOMAIN OwnersOf(l) PROVE OwnersOf(l)[t] \in Creates
  BY <1>1, <1>2, <1>3
<1>5. ASSUME NEW i \in DOMAIN l.deposits, NEW t \in DOMAIN l.deposits[i].transfers
      PROVE  t \in DOMAIN OwnersOf(l) /\ OwnersOf(l)[t] = l.deposits[i].id
  <2>1. t \in Txs /\ i \in seen(t)
    BY <1>3
  <2>2. at(t) \in DOMAIN l.deposits /\ t \in DOMAIN l.deposits[at(t)].transfers
    BY <1>2, <2>1
  <2>3. at(t) = i
    BY <2>1, <2>2 DEF TransfersOK
  <2> QED BY <1>1, <2>1, <2>3
<1> QED BY <1>1, <1>4, <1>5

LEMMA CrashKeeps ==
  ASSUME MoneroAssumption, MoneroInv, Crash PROVE MoneroInv'
<1>1. /\ ledger' = file /\ file' = file /\ txOwner' = OwnersOf(file)
      /\ creates' = Stopped(creates) /\ submits' = Stopped(submits)
      /\ syncs' = [s \in Syncs |-> Idle]
      /\ UNCHANGED <<failures, chain, sent>>
      /\ crashes' \in 0 .. MaxCrashes
  BY DEF Crash, MoneroInv, MoneroTypes, MoneroAssumption
<1>2. /\ creates \in [Creates -> [pc : {"new", "asked", "done"},
                                  key : Keys, owner : Owners]]
      /\ submits \in [Submits -> [pc : {"new", "verify", "transfer", "paid", "done"},
                                  nonce : Nat, key : Keys, spelling : Spellings]]
  BY DEF MoneroInv, MoneroTypes
<1>3. /\ creates' \in [Creates -> [pc : {"new", "asked", "done"},
                                   key : Keys, owner : Owners]]
      /\ \A c \in Creates : /\ creates'[c].key = creates[c].key
                            /\ creates'[c].owner = creates[c].owner
                            /\ creates[c].pc = "done" => creates'[c].pc = "done"
  BY <1>1, <1>2 DEF Stopped
<1>4. /\ submits' \in [Submits -> [pc : {"new", "verify", "transfer", "paid", "done"},
                                   nonce : Nat, key : Keys, spelling : Spellings]]
      /\ \A s \in Submits :
           /\ submits'[s].key = submits[s].key
           /\ submits'[s].spelling = submits[s].spelling
           /\ submits'[s].nonce = submits[s].nonce
           /\ submits'[s].pc \in {"new", "done"}
           /\ submits[s].pc \in {"transfer", "paid", "done"} => submits'[s].pc = "done"
  BY <1>1, <1>2 DEF Stopped
<1>5. Later(creates, submits, chain, creates', submits', chain')
  BY <1>1, <1>3, <1>4 DEF Later
<1>6. LedgerOK(file, creates', submits', chain')
  BY <1>5, LedgerStays DEF MoneroInv
<1>7. MoneroTypes'
  BY <1>1, <1>3, <1>4 DEF MoneroInv, MoneroTypes
<1>8. OwnersOK'
  BY <1>1, OwnersFound DEF MoneroInv, LedgerOK, OwnersOK
<1>9. SyncsOK'
  BY <1>1 DEF SyncsOK, SyncOK
<1>10. SubmitsOK'
  BY <1>4 DEF SubmitsOK, SubmitOK
<1>11. SentOK'
  <2>1. SameRequests(submits, submits')
    BY <1>4 DEF SameRequests
  <2>2. \A s \in Submits : /\ AlikeTo(submits', s) <=> AlikeTo(submits, s)
                           /\ Beneficiary(submits'[s]) = Beneficiary(submits[s])
    BY <2>1, AlikeStays DEF SameRequests, Beneficiary
  <2>3. SentOK
    BY DEF MoneroInv
  <2>4. ASSUME NEW s \in DOMAIN sent
        PROVE  /\ sent[s] \in Submits
               /\ Beneficiary(submits'[sent[s]]) = Beneficiary(submits'[s])
               /\ AlikeTo(submits', s) =>
                    /\ s \in DOMAIN file.withdrawals
                    /\ sent[s] = s
    <3>1. /\ s \in Submits /\ sent[s] \in Submits
          /\ Beneficiary(submits[sent[s]]) = Beneficiary(submits[s])
          /\ AlikeTo(submits, s) =>
               s \in DOMAIN file.withdrawals /\ sent[s] = s
      BY <2>3 DEF SentOK
    <3>2. /\ Beneficiary(submits'[s]) = Beneficiary(submits[s])
          /\ Beneficiary(submits'[sent[s]]) = Beneficiary(submits[sent[s]])
          /\ AlikeTo(submits', s) <=> AlikeTo(submits, s)
      BY <2>2, <3>1
    <3> QED BY <3>1, <3>2
  <2> QED BY <1>1, <2>3, <2>4 DEF SentOK
<1> QED BY <1>1, <1>6, <1>7, <1>8, <1>9, <1>10, <1>11 DEF MoneroInv

LEMMA MoneroStep ==
  ASSUME MoneroAssumption, MoneroInv, [Next]_vars PROVE MoneroInv'
<1>1. CASE UNCHANGED vars
  <2>1. MoneroTypes' /\ SentOK' /\ OwnersOK' /\ SubmitsOK'
    BY <1>1 DEF vars, calls, world, MoneroInv, MoneroTypes, SentOK, OwnersOK,
                SubmitsOK, SubmitOK, AlikeTo
  <2>2. SyncsOK'
    BY <1>1, SyncsKept DEF vars, calls, world
  <2>3. Later(creates, submits, chain, creates', submits', chain')
    BY <1>1 DEF vars, calls, world, Later
  <2> QED BY <1>1, <2>1, <2>2, <2>3, LedgersKept DEF vars, calls, world
<1>2. ASSUME NEW c \in Creates, DepositKnown(c) PROVE MoneroInv'
  BY <1>2, CreateStep DEF DepositKnown
<1>3. ASSUME NEW c \in Creates, AddressAsked(c) PROVE MoneroInv'
  BY <1>3, CreateStep DEF AddressAsked
<1>4. ASSUME NEW c \in Creates, Addressed(c) PROVE MoneroInv'
  BY <1>4, AddressedKeeps
<1>5. ASSUME NEW c \in Creates, NotAddressed(c) PROVE MoneroInv'
  BY <1>5, CreateStep DEF NotAddressed
<1>6. ASSUME NEW s \in Syncs, SyncStarts(s) PROVE MoneroInv'
  BY <1>6, SyncStartsKeeps
<1>7. ASSUME NEW s \in Syncs, WalletFails(s) PROVE MoneroInv'
  BY <1>7, SyncStep DEF WalletFails, SyncOK
<1>8. ASSUME NEW s \in Syncs, Synced(s) PROVE MoneroInv'
  BY <1>8, SyncedKeeps
<1>9. ASSUME NEW s \in Syncs, NEW i \in DOMAIN ledger.deposits, WalletAnswers(s, i)
      PROVE  MoneroInv'
  BY <1>9, WalletAnswersKeeps
<1>10. ASSUME NEW s \in Submits, WithdrawalKnown(s) \/ NotReserved(s) \/ WalletSilent(s)
       PROVE  MoneroInv'
  BY <1>10, SubmitDone DEF WithdrawalKnown, NotReserved, WalletSilent
<1>11. ASSUME NEW s \in Submits, WithdrawalBegun(s) PROVE MoneroInv'
  BY <1>11, WithdrawalBegunKeeps
<1>12. ASSUME NEW s \in Submits, Reserves(s) PROVE MoneroInv'
  BY <1>12, ReservesKeeps
<1>13. ASSUME NEW s \in Submits, WalletPays(s) PROVE MoneroInv'
  BY <1>13, WalletPaysKeeps
<1>14. ASSUME NEW s \in Submits, Marked(s) PROVE MoneroInv'
  BY <1>14, MarkedKeeps
<1>15. ASSUME NEW t \in Txs, Pay(t) \/ Progress(t) PROVE MoneroInv'
  BY <1>15, PayKeeps, ProgressKeeps
<1>16. CASE Crash
  BY <1>16, CrashKeeps
<1> QED BY <1>1, <1>2, <1>3, <1>4, <1>5, <1>6, <1>7, <1>8, <1>9, <1>10, <1>11,
           <1>12, <1>13, <1>14, <1>15, <1>16 DEF Next

LEMMA MoneroInvariant == Spec => []MoneroInv
<1>1. Init => MoneroInv
  BY MoneroInit, MoneroAssumption
<1>2. MoneroInv /\ [Next]_vars => MoneroInv'
  BY MoneroStep, MoneroAssumption
<1> QED BY <1>1, <1>2, PTL DEF Spec

-----------------------------------------------------------------------------
\* What the invariant says.

LEMMA SnapshotIsLedger ==
  ASSUME MoneroAssumption, NEW l, NEW cs, NEW ss, NEW ch, LedgerOK(l, cs, ss, ch)
  PROVE  IsLedger(l)
<1>1. l \in Snapshot
  BY DEF LedgerOK
<1>2. ASSUME NEW p \in Spellings PROVE l.nonces[p] \in 0 .. Cardinality(Submits)
  <2>1. SpelledOf(l, p) \in SUBSET Submits
    BY <1>1, SnapshotParts DEF SpelledOf
  <2>2. IsFiniteSet(Submits) /\ IsFiniteSet(SpelledOf(l, p))
        /\ Cardinality(SpelledOf(l, p)) <= Cardinality(Submits)
    BY <2>1, FS_Subset DEF MoneroAssumption
  <2>3. Cardinality(SpelledOf(l, p)) \in Nat /\ Cardinality(Submits) \in Nat
    BY <2>2, FS_CardinalityType
  <2>4. l.nonces[p] = Cardinality(SpelledOf(l, p))
    BY DEF LedgerOK, WithdrawalsOK
  <2> QED BY <2>2, <2>3, <2>4
<1>3. l.nonces \in [Spellings -> 0 .. Cardinality(Submits)]
  BY <1>1, <1>2, SnapshotParts
<1> QED BY <1>1, <1>3, SnapshotParts DEF IsLedger

\* Every variable of the ledger service keeps its type: in particular a nonce
\* never passes the number of calls, and a run of syncDeposits never asks for a
\* deposit that is not there.
THEOREM TypeCorrect == Spec => []TypeOK
<1>1. ASSUME MoneroInv PROVE TypeOK
  <2>1. IsLedger(ledger) /\ IsLedger(file)
    BY <1>1, SnapshotIsLedger, MoneroAssumption DEF MoneroInv
  <2>2. /\ DOMAIN txOwner \subseteq Txs
        /\ \A t \in DOMAIN txOwner : txOwner[t] \in Creates
    BY <1>1 DEF MoneroInv, OwnersOK
  <2>3. ASSUME NEW s \in Submits
        PROVE  /\ submits[s].pc \in {"new", "verify", "transfer", "paid", "done"}
               /\ submits[s].pc \in {"transfer", "paid"} => HasWithdrawal(submits[s].key)
    <3>1. submits[s].pc \in {"transfer", "paid"} =>
            \E w \in DOMAIN ledger.withdrawals : submits[w].key = submits[s].key
      BY <1>1 DEF MoneroInv, SubmitsOK, SubmitOK
    <3>2. \A w \in DOMAIN ledger.withdrawals : ledger.withdrawals[w].key = submits[w].key
      BY <1>1 DEF MoneroInv, LedgerOK, WithdrawalsOK
    <3> QED BY <1>1, <3>1, <3>2 DEF MoneroInv, MoneroTypes, HasWithdrawal
  <2>4. ASSUME NEW s \in Syncs, syncs[s] # Idle
        PROVE  syncs[s].at <= syncs[s].upto /\ syncs[s].upto <= Len(ledger.deposits)
    BY <1>1, <2>4 DEF MoneroInv, SyncsOK, SyncOK
  <2>5. \A c \in Creates : creates[c].pc \in {"new", "asked", "done"}
    BY <1>1 DEF MoneroInv, MoneroTypes
  <2>6. \A t \in Txs : chain[t].to \subseteq Creates
    BY <1>1 DEF MoneroInv, MoneroTypes
  <2>7. DOMAIN sent \subseteq Submits
    BY <1>1, SnapshotParts DEF MoneroInv, LedgerOK, SentOK
  <2>8. crashes \in 0 .. MaxCrashes /\ failures \in 0 .. MaxFailures
    BY <1>1 DEF MoneroInv, MoneroTypes
  <2> QED BY <2>1, <2>2, <2>3, <2>4, <2>5, <2>6, <2>7, <2>8 DEF TypeOK
<1> QED BY <1>1, MoneroInvariant, PTL

\* A key has one deposit and a transaction is credited to one, for any calls,
\* answers and restarts (createDeposit, syncDeposit).
THEOREM CreditedOnce == Spec => []NoDoubleCredit
<1>1. MoneroInv => NoDoubleCredit
  BY DEF MoneroInv, LedgerOK, DepositsOK, TransfersOK, NoDoubleCredit
<1> QED BY <1>1, MoneroInvariant, PTL

LEMMA AlikeIs ==
  ASSUME NEW s \in Submits, SpelledAlike(Beneficiary(submits[s]))
  PROVE  AlikeTo(submits, s)
  BY DEF SpelledAlike, AlikeTo

\* For an owner whose calls spell the address alike, the wallet pays once for a
\* withdrawal and once for a nonce, and what it has paid is on disk
\* (submitWithdrawal, reserveWithdrawal), whatever the other owners' calls do.
THEOREM PaidOnce == Spec => []PaidOnceAndOnDisk
<1>1. MoneroInv => PaidOnceAndOnDisk
  <2> SUFFICES ASSUME MoneroInv, NEW s \in DOMAIN sent,
                      SpelledAlike(Beneficiary(submits[s]))
               PROVE  /\ sent[s] \in DOMAIN file.withdrawals
                      /\ \A r \in DOMAIN sent \ {s} :
                           /\ sent[s] # sent[r]
                           /\ Beneficiary(submits[s]) = Beneficiary(submits[r])
                                => submits[s].nonce # submits[r].nonce
    BY DEF PaidOnceAndOnDisk
  <2>1. SentOK /\ s \in Submits
    BY DEF MoneroInv, SentOK
  <2>2. AlikeTo(submits, s) /\ sent[s] = s /\ s \in DOMAIN file.withdrawals
    BY <2>1, AlikeIs DEF SentOK
  <2>3. ASSUME NEW r \in DOMAIN sent \ {s},
               Beneficiary(submits[r]) = Beneficiary(submits[s])
        PROVE  /\ sent[r] = r /\ r \in DOMAIN file.withdrawals
               /\ submits[r].spelling = submits[s].spelling
    <3>1. r \in Submits
      BY <2>1 DEF SentOK
    <3>2. AlikeTo(submits, r) /\ submits[r].spelling = submits[s].spelling
      BY <2>2, <2>3, <3>1 DEF AlikeTo
    <3> QED BY <2>1, <3>2 DEF SentOK
  <2>4. \A v, w \in DOMAIN file.withdrawals :
          v # w => <<submits[v].spelling, submits[v].nonce>> #
                     <<submits[w].spelling, submits[w].nonce>>
    BY DEF MoneroInv, LedgerOK, WithdrawalsOK
  <2>5. ASSUME NEW r \in DOMAIN sent \ {s}
        PROVE  /\ sent[s] # sent[r]
               /\ Beneficiary(submits[s]) = Beneficiary(submits[r])
                    => submits[s].nonce # submits[r].nonce
    <3>1. CASE Beneficiary(submits[r]) = Beneficiary(submits[s])
      BY <2>2, <2>3, <2>4, <3>1
    <3>2. CASE Beneficiary(submits[r]) # Beneficiary(submits[s])
      BY <2>1, <2>2, <3>2 DEF SentOK
    <3> QED BY <3>1, <3>2
  <2> QED BY <2>2, <2>5
<1> QED BY <1>1, MoneroInvariant, PTL

\* The wallet pays an owner whose calls spell the address alike no more than the
\* deep payments to the owner's subaddresses (availableWithdrawalBalance).
THEOREM Funded == Spec => []WithdrawalsAreFunded
<1>1. MoneroInv => WithdrawalsAreFunded
  <2> SUFFICES ASSUME MoneroInv, NEW o \in Owners, SpelledAlike(o)
               PROVE  Cardinality({s \in DOMAIN sent : Beneficiary(submits[s]) = o})
                        <= Cardinality(DeepPayments(o, creates, chain))
    BY DEF WithdrawalsAreFunded, Covered, DeepPayments
  <2> DEFINE paid == {s \in DOMAIN sent : Beneficiary(submits[s]) = o}
  <2>1. paid \in SUBSET ReservedOf(file, o)
    <3> SUFFICES ASSUME NEW s \in DOMAIN sent, Beneficiary(submits[s]) = o
                 PROVE  s \in ReservedOf(file, o)
      OBVIOUS
    <3>1. s \in Submits /\ SentOK
      BY DEF MoneroInv, SentOK
    <3>2. s \in DOMAIN file.withdrawals
      BY <3>1, AlikeIs DEF SentOK
    <3>3. file.withdrawals[s].spelling = submits[s].spelling
      BY <3>2 DEF MoneroInv, LedgerOK, WithdrawalsOK
    <3> QED BY <3>2, <3>3 DEF ReservedOf, Beneficiary
  <2>2. IsFiniteSet(ReservedOf(file, o))
    <3>1. ReservedOf(file, o) \in SUBSET Submits
      BY SnapshotParts DEF MoneroInv, LedgerOK, ReservedOf
    <3> QED BY <3>1, FS_Subset, MoneroAssumption DEF MoneroAssumption
  <2>3. Cardinality(paid) <= Cardinality(ReservedOf(file, o)) /\ IsFiniteSet(paid)
    BY <2>1, <2>2, FS_Subset
  <2>4. Cardinality(ReservedOf(file, o)) <= Cardinality(DeepPayments(o, creates, chain))
    BY DEF MoneroInv, LedgerOK, FundedOK
  <2>5. /\ Cardinality(paid) \in Nat /\ Cardinality(ReservedOf(file, o)) \in Nat
        /\ Cardinality(DeepPayments(o, creates, chain)) \in Nat
    BY <2>2, <2>3, DeepPaymentsFinite, MoneroAssumption, FS_CardinalityType
  <2> HIDE DEF paid
  <2>6. Cardinality(paid) <= Cardinality(DeepPayments(o, creates, chain))
    BY <2>3, <2>4, <2>5
  <2> QED BY <2>6 DEF paid
<1> QED BY <1>1, MoneroInvariant, PTL
=============================================================================
