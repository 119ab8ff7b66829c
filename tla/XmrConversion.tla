---------------------------- MODULE XmrConversion ----------------------------
(***************************************************************************)
(* Conversions of XMR by an external provider: createQuote,                *)
(* createConversion and syncConversion of xmrConversionService.ts, the     *)
(* ledger of xmrConversion.ts, its file (xmrConversionLedger.ts), and the  *)
(* verifier of settlements (baseSettlementVerifier.ts).                    *)
(*                                                                         *)
(* A handler runs alone between two awaits: each stretch is one action.    *)
(* A stretch may write the file more than once; the process may stop       *)
(* between two writes, and a write may fail after memory has changed, which *)
(* ends the handler.  Requests refused for their deadline or the quote's,  *)
(* or because the quote is another wallet's, change nothing and are left   *)
(* out.  What the provider says is anything it may say.                    *)
(***************************************************************************)
EXTENDS Integers, Sequences, FiniteSets

CONSTANTS
  Calls,        \* bound on the number of calls of createConversion
  Syncs,        \* bound on the number of overlapping calls of syncConversion
  Keys,         \* idempotency keys
  Wallets,
  Quotes,       \* bound on the requests of a quote
  QuoteKeys,    \* their idempotency keys
  destination,  \* the wallet each of them is for
  net,          \* the net amount the provider offers for each of them
  Transactions, \* the transactions the provider may name
  NoHash,       \* it names none
  receipt,      \* what each of them is to the verifier's node
  MaxCrashes,   \* bound on the number of restarts
  MaxFailures   \* bound on the number of writes that fail

ASSUME ConversionAssumption ==
  /\ IsFiniteSet(Calls) /\ IsFiniteSet(Syncs)
  /\ destination \in [Quotes -> Wallets] /\ net \in [Quotes -> Nat]
  /\ NoHash \notin Transactions
  \* brings: the settlement token its Transfer logs bring to each wallet.
  /\ receipt \in [Transactions -> [onBase : BOOLEAN, success : BOOLEAN,
                                   brings : [Wallets -> Nat]]]
  /\ MaxCrashes \in Nat /\ MaxFailures \in Nat

Status ==
  {"awaiting_deposit", "confirming_xmr", "converting", "settling_base",
   "completed", "expired", "refunding", "refunded", "failed",
   "assistance_required"}

\* The transitions of the ledger.
transitions ==
  [s \in Status |->
     CASE s = "awaiting_deposit" ->
            {"confirming_xmr", "expired", "failed", "assistance_required"}
       [] s = "confirming_xmr" ->
            {"converting", "refunding", "failed", "assistance_required"}
       [] s = "converting" ->
            {"settling_base", "refunding", "failed", "assistance_required"}
       [] s = "settling_base" -> {"refunding", "failed", "assistance_required"}
       [] s = "refunding" -> {"refunded", "failed"}
       [] s = "assistance_required" -> {"awaiting_deposit", "failed"}
       [] OTHER -> {}]

forward == <<"confirming_xmr", "converting", "settling_base">>

\* The place of a status in forward, 0 if it has none.
ForwardIndex(s) ==
  IF \E i \in DOMAIN forward : forward[i] = s
    THEN CHOOSE i \in DOMAIN forward : forward[i] = s
    ELSE 0

\* What mapStatus makes of the provider's words.
Told == Status \ {"completed", "assistance_required"}

\* syncConversion does not ask the provider about these.
Ended == {"completed", "expired", "refunded", "failed"}

VARIABLES
  ledger,   \* the conversions and the quotes, each named by the call that
            \* made it, the keys of the assistance cases, and the nonces
  file,     \* the snapshot last written
  requests, \* the calls of createQuote
  calls,
  syncs,
  orders,   \* the provider's orders, each named by its externalId
  confirmed, \* the transactions that are confirmed deeply enough
  crashes,
  failures  \* the writes that failed

vars ==
  <<ledger, file, requests, calls, syncs, orders, confirmed, crashes, failures>>

outside == <<orders, confirmed>>

\* settlement: the hash of the settlement verified.
Conversion ==
  [key : Keys, quote : Quotes, status : Status,
   settlement : Transactions \cup {NoHash}]

Done == [pc |-> "done"]

\* A request of a quote awaits the provider.
Request == [pc : {"new", "asked"}, key : QuoteKeys] \cup {Done}

\* A call of createConversion, before and after it has found its quote.
Call ==
  [pc : {"new"}, key : Keys]
  \cup [pc : {"verify", "order", "answer"}, key : Keys, quote : Quotes,
        nonce : Nat]
  \cup {Done}

Idle == [pc |-> "idle"]

\* An answer of the provider: a status, and a settlement or none, which may be
\* another order's; it is looked at with "settling_base" only.
Answer ==
  [status : Told, hash : {NoHash}]
  \cup [status : {"settling_base"}, hash : Transactions]

\* A record added to those of its kind, under its name.
With(records, name, record) ==
  [n \in DOMAIN records \cup {name} |->
     IF n = name THEN record ELSE records[n]]

Init ==
  /\ ledger = [conversions |-> << >>, quotes |-> << >>, cases |-> {},
               nonces |-> [w \in Wallets |-> 0]]
  /\ file = ledger
  /\ requests \in [Quotes -> [pc : {"new"}, key : QuoteKeys]]
  /\ calls \in [Calls -> [pc : {"new"}, key : Keys]]
  /\ syncs = [s \in Syncs |-> Idle]
  /\ orders = {} /\ confirmed = {}
  /\ crashes = 0 /\ failures = 0

-----------------------------------------------------------------------------
\* The file.

\* The process stops and starts again from a snapshot.
RestartFrom(snapshot) ==
  /\ crashes < MaxCrashes
  /\ crashes' = crashes + 1
  /\ ledger' = snapshot
  /\ file' = snapshot
  /\ requests' = [q \in Quotes |->
                    IF requests[q].pc = "new" THEN requests[q] ELSE Done]
  /\ calls' = [c \in Calls |->
                 IF calls[c].pc = "new" THEN calls[c] ELSE Done]
  /\ syncs' = [s \in Syncs |-> Idle]
  /\ UNCHANGED failures

Saved(memory) ==
  /\ ledger' = memory
  /\ file' = memory
  /\ UNCHANGED failures

\* persist throws: memory has changed, and the file is as last written.
Unsaved(memory, snapshot) ==
  /\ failures < MaxFailures
  /\ failures' = failures + 1
  /\ ledger' = memory
  /\ file' = snapshot

Write(memory) == Saved(memory) \/ Unsaved(memory, file)

NoWrite == UNCHANGED <<ledger, file, failures>>

-----------------------------------------------------------------------------
\* createQuote

HasQuote(key) ==
  \E i \in DOMAIN ledger.quotes : ledger.quotes[i].key = key

RequestEnds(q) ==
  /\ requests' = [requests EXCEPT ![q] = Done]
  /\ UNCHANGED <<calls, syncs, outside, crashes>>

\* createAssistanceCase: an amount of the threshold or more, or a wallet that
\* asks for it, makes a case for a person; a key keeps its case.
CaseMade(q) ==
  IF requests[q].key \in ledger.cases
    THEN NoWrite
    ELSE Write([ledger EXCEPT !.cases = @ \cup {requests[q].key}])

\* Assistance is looked at before the key is.
Assisted(q) ==
  /\ requests[q].pc = "new"
  /\ CaseMade(q)
  /\ RequestEnds(q)

\* quoteForKey finds the quote: it is the answer.
QuoteKnown(q) ==
  /\ requests[q].pc = "new"
  /\ HasQuote(requests[q].key)
  /\ NoWrite
  /\ RequestEnds(q)

QuoteAsked(q) ==
  /\ requests[q].pc = "new"
  /\ ~HasQuote(requests[q].key)
  /\ requests' = [requests EXCEPT ![q].pc = "asked"]
  /\ NoWrite
  /\ UNCHANGED <<calls, syncs, outside, crashes>>

WithQuote(q) ==
  [ledger EXCEPT !.quotes = With(@, q, [key |-> requests[q].key])]

\* The provider's quote is stored unless its amount is for a person, its
\* figures are not valid, or another request has stored one under the key
\* meanwhile: the same offer is the answer, another one fails.
Quoted(q) ==
  /\ requests[q].pc = "asked"
  /\ \/ ~HasQuote(requests[q].key) /\ Write(WithQuote(q))
     \/ CaseMade(q)
     \/ NoWrite
  /\ RequestEnds(q)

-----------------------------------------------------------------------------
\* createConversion

HasKey(key) ==
  \E i \in DOMAIN ledger.conversions : ledger.conversions[i].key = key

\* conversionForKey finds the conversion: it is the answer.
Known(c) ==
  /\ calls[c].pc = "new"
  /\ HasKey(calls[c].key)
  /\ calls' = [calls EXCEPT ![c] = Done]
  /\ NoWrite
  /\ UNCHANGED <<requests, syncs, outside, crashes>>

\* The request carries the wallet's nonce; any other is refused.
Begun(c) ==
  LET k == calls[c]
  IN  /\ k.pc = "new"
      /\ ~HasKey(k.key)
      /\ \E quote \in DOMAIN ledger.quotes :
           calls' = [calls EXCEPT ![c] =
                       [pc |-> "verify", key |-> k.key, quote |-> quote,
                        nonce |-> ledger.nonces[destination[quote]]]]
      /\ NoWrite
      /\ UNCHANGED <<requests, syncs, outside, crashes>>

\* The signature is valid, and the order is asked for.
Signed(c) ==
  /\ calls[c].pc = "verify"
  /\ calls' = [calls EXCEPT ![c].pc = "order"]
  /\ NoWrite
  /\ UNCHANGED <<requests, syncs, outside, crashes>>

\* The provider makes the order; its answer is under way.
ProviderOrders(c) ==
  /\ calls[c].pc = "order"
  /\ orders' = orders \cup {c}
  /\ calls' = [calls EXCEPT ![c].pc = "answer"]
  /\ NoWrite
  /\ UNCHANGED <<requests, syncs, confirmed, crashes>>

\* The signature is invalid, the provider refuses, or its answer is lost.
Unanswered(c) ==
  /\ calls[c].pc \in {"verify", "order", "answer"}
  /\ calls' = [calls EXCEPT ![c] = Done]
  /\ NoWrite
  /\ UNCHANGED <<requests, syncs, outside, crashes>>

\* Another call has stored a conversion under the key: its order is not this
\* call's, and the call fails.
Conflict(c) ==
  /\ calls[c].pc = "answer"
  /\ HasKey(calls[c].key)
  /\ calls' = [calls EXCEPT ![c] = Done]
  /\ NoWrite
  /\ UNCHANGED <<requests, syncs, outside, crashes>>

\* Mutant: the conversion starts with the provider's own word.
WithProviderWord(c) ==
  [ledger EXCEPT !.conversions =
     With(@, c, [key |-> calls[c].key, quote |-> calls[c].quote,
                 status |-> "waiting", settlement |-> NoHash])]

WithConversion(c) ==
  [ledger EXCEPT !.conversions =
     With(@, c, [key |-> calls[c].key, quote |-> calls[c].quote,
                 status |-> "awaiting_deposit", settlement |-> NoHash])]

\* Mutant: the key is not looked up again when the provider answers.
CreatedAgain(c) ==
  LET wallet == destination[calls[c].quote]
      stored == WithConversion(c)
  IN  /\ calls[c].pc = "answer"
      /\ Write([stored EXCEPT !.nonces[wallet] = calls[c].nonce + 1])
      /\ calls' = [calls EXCEPT ![c] = Done]
      /\ UNCHANGED <<requests, syncs, outside, crashes>>

\* createConversion of the ledger, then consumeConversionNonce: two writes,
\* the second only if the first is done and the nonce is still the wallet's.
Created(c) ==
  LET wallet == destination[calls[c].quote]
      stored == WithConversion(c)
      current == ledger.nonces[wallet] = calls[c].nonce
      consumed == [stored EXCEPT !.nonces[wallet] = @ + 1]
  IN  /\ calls[c].pc = "answer"
      /\ ~HasKey(calls[c].key)
      /\ \/ /\ \/ Saved(IF current THEN consumed ELSE stored)
               \/ Unsaved(stored, file)
               \/ current /\ Unsaved(consumed, stored)
            /\ calls' = [calls EXCEPT ![c] = Done]
            /\ UNCHANGED <<requests, syncs, crashes>>
         \/ current /\ RestartFrom(stored)
      /\ UNCHANGED outside

-----------------------------------------------------------------------------
\* syncConversion

\* The status is read before the provider is asked.
Asked(s, i) ==
  /\ syncs[s] = Idle
  /\ ledger.conversions[i].status \notin Ended
  /\ syncs' = [syncs EXCEPT ![s] =
                 [pc |-> "asked", id |-> i,
                  seen |-> ledger.conversions[i].status]]
  /\ NoWrite
  /\ UNCHANGED <<requests, calls, outside, crashes>>

\* The provider or the verifier does not answer, or the verification fails.
GivenUp(s) ==
  /\ syncs[s].pc \in {"asked", "verify"}
  /\ syncs' = [syncs EXCEPT ![s] = Idle]
  /\ NoWrite
  /\ UNCHANGED <<requests, calls, outside, crashes>>

\* The statuses advance moves through, in order, from the status seen: each
\* is one transition and one write.
Path(seen, told) ==
  IF ForwardIndex(told) = 0 THEN <<told>>
    ELSE [n \in 1 .. (ForwardIndex(told) - ForwardIndex(seen)) |->
            forward[ForwardIndex(seen) + n]]

\* How far the transitions of a path go from the conversion's status now.
Reached(path, now) ==
  CHOOSE n \in 0 .. Len(path) :
    /\ \A m \in 1 .. n :
         path[m] \in transitions[IF m = 1 THEN now ELSE path[m - 1]]
    /\ n < Len(path) =>
         path[n + 1] \notin transitions[IF n = 0 THEN now ELSE path[n]]

WithStatus(i, status) ==
  [ledger EXCEPT !.conversions[i].status = status]

\* Where syncConversion goes when advance has not thrown.
AfterAdvance(i, answer) ==
  IF answer.status = "settling_base" /\ answer.hash # NoHash
    THEN [pc |-> "verify", id |-> i, hash |-> answer.hash]
    ELSE Idle

\* The provider's answer, however late: the status seen is the status told.
Same(s, answer) ==
  LET k == syncs[s]
  IN  /\ k.pc = "asked"
      /\ k.seen = answer.status
      /\ syncs' = [syncs EXCEPT ![s] = AfterAdvance(k.id, answer)]
      /\ NoWrite
      /\ UNCHANGED <<requests, calls, outside, crashes>>

\* Mutant: the path is taken from the status seen, whatever it is now.
AdvancedFromSeen(s, answer) ==
  LET k == syncs[s]
  IN  /\ k.pc = "asked"
      /\ k.seen # answer.status
      /\ answer.status \in transitions[k.seen]
      /\ Saved(WithStatus(k.id, answer.status))
      /\ syncs' = [syncs EXCEPT ![s] = AfterAdvance(k.id, answer)]
      /\ UNCHANGED <<requests, calls, outside, crashes>>

\* advance: the transitions are checked against the status now; the first that
\* is not allowed, or whose write fails, throws, and those before it stay.
Advanced(s, answer) ==
  LET k == syncs[s]
      path == Path(k.seen, answer.status)
      n == Reached(path, ledger.conversions[k.id].status)
      after(m) == WithStatus(k.id, path[m])
  IN  /\ k.pc = "asked"
      /\ k.seen # answer.status
      /\ \/ /\ IF n = 0 THEN NoWrite ELSE Saved(after(n))
            /\ syncs' = [syncs EXCEPT ![s] =
                 IF n = Len(path) THEN AfterAdvance(k.id, answer) ELSE Idle]
            /\ UNCHANGED <<requests, calls, crashes>>
         \/ /\ \E m \in 1 .. n :
                 Unsaved(after(m), IF m = 1 THEN file ELSE after(m - 1))
            /\ syncs' = [syncs EXCEPT ![s] = Idle]
            /\ UNCHANGED <<requests, calls, crashes>>
         \/ \E m \in 1 .. (n - 1) : RestartFrom(after(m))
      /\ UNCHANGED outside

\* Mutant: the block number is not compared with the receipt's.
VerifiedShallow(hash, quote) ==
  /\ receipt[hash].onBase
  /\ receipt[hash].success
  /\ receipt[hash].brings[destination[quote]] >= net[quote]

\* verify: a transaction of the right chain that succeeded, is confirmed and
\* brings the wallet what its quote promised.
Verified(hash, quote) ==
  /\ receipt[hash].onBase
  /\ receipt[hash].success
  /\ hash \in confirmed
  /\ receipt[hash].brings[destination[quote]] >= net[quote]

WithSettlement(i, hash) ==
  [ledger EXCEPT !.conversions[i] =
     [@ EXCEPT !.status = "completed", !.settlement = hash]]

\* The verifier answers: recordVerifiedSettlement, which throws if another call
\* has moved the conversion meanwhile or the amount is below the quote's net.
\* No settlement is compared with those of other conversions.
Settled(s) ==
  LET k == syncs[s]
      quote == ledger.conversions[k.id].quote
  IN  /\ k.pc = "verify"
      /\ Verified(k.hash, quote)
      /\ IF /\ ledger.conversions[k.id].status = "settling_base"
            /\ receipt[k.hash].brings[destination[quote]] >= net[quote]
           THEN Write(WithSettlement(k.id, k.hash))
           ELSE NoWrite
      /\ syncs' = [syncs EXCEPT ![s] = Idle]
      /\ UNCHANGED <<requests, calls, outside, crashes>>

-----------------------------------------------------------------------------
\* Base and the restart.

\* A transaction is mined and gets its confirmations.
Confirmed(hash) ==
  /\ hash \notin confirmed
  /\ confirmed' = confirmed \cup {hash}
  /\ NoWrite
  /\ UNCHANGED <<requests, calls, syncs, orders, crashes>>

Crash == RestartFrom(file) /\ UNCHANGED outside

Next ==
  \/ \E q \in Quotes :
       Assisted(q) \/ QuoteKnown(q) \/ QuoteAsked(q) \/ Quoted(q)
  \/ \E c \in Calls :
       \/ Known(c) \/ Begun(c) \/ Signed(c) \/ ProviderOrders(c)
       \/ Unanswered(c) \/ Conflict(c) \/ Created(c)
  \/ \E s \in Syncs, i \in DOMAIN ledger.conversions : Asked(s, i)
  \/ \E s \in Syncs, answer \in Answer : Same(s, answer) \/ Advanced(s, answer)
  \/ \E s \in Syncs : GivenUp(s) \/ Settled(s)
  \/ \E hash \in Transactions : Confirmed(hash)
  \/ Crash

Spec == Init /\ [][Next]_vars

-----------------------------------------------------------------------------
(***************************************************************************)
(* Properties                                                              *)
(***************************************************************************)

IsLedger(l) ==
  /\ DOMAIN l.conversions \subseteq Calls
  /\ l.conversions \in [DOMAIN l.conversions -> Conversion]
  /\ DOMAIN l.quotes \subseteq Quotes
  /\ l.quotes \in [DOMAIN l.quotes -> [key : QuoteKeys]]
  /\ l.cases \subseteq QuoteKeys
  /\ l.nonces \in [Wallets -> Nat]

\* Every variable keeps its type.
TypeOK ==
  /\ IsLedger(ledger) /\ IsLedger(file)
  /\ requests \in [Quotes -> Request]
  /\ calls \in [Calls -> Call]
  /\ DOMAIN syncs = Syncs
  /\ \A s \in Syncs :
       \/ syncs[s] = Idle
       \/ /\ syncs[s].id \in DOMAIN ledger.conversions \cap orders
          /\ syncs[s].pc \in {"asked", "verify"}
          /\ syncs[s].pc = "verify" => syncs[s].hash \in Transactions
  /\ orders \subseteq Calls
  /\ confirmed \subseteq Transactions
  /\ crashes \in 0 .. MaxCrashes /\ failures \in 0 .. MaxFailures

\* What the conversion may become by any number of transitions.
Later(status) ==
  CASE status = "awaiting_deposit" -> Status
    [] status = "confirming_xmr" -> Status \ {"awaiting_deposit", "expired"}
    [] status = "converting" ->
         Status \ {"awaiting_deposit", "confirming_xmr", "expired"}
    [] status = "settling_base" ->
         {"settling_base", "completed", "refunding", "refunded", "failed"}
    [] status = "refunding" -> {"refunding", "refunded", "failed"}
    [] OTHER -> {status}

\* Every conversion of l is in m, as it was or later.
Onward(l, m) ==
  \A i \in DOMAIN l.conversions :
    /\ i \in DOMAIN m.conversions
    /\ m.conversions[i].status \in Later(l.conversions[i].status)

\* What is on disk is never forgotten and only goes forward, and stays once it
\* has ended, whatever answers of the provider arrive late and in whatever
\* order, through writes that fail and restarts in the middle of a path; so
\* does what is in memory, but for a restart, which takes it back to the disk
\* at most.  A status whose write failed is therefore taken back by a restart,
\* and a conversion whose first write failed is forgotten.
StatusOnlyAdvances ==
  [][/\ Onward(file, file')
     /\ Onward(IF crashes' = crashes THEN ledger ELSE file, ledger')]_vars

\* In memory and on disk, a conversion is completed exactly when it holds the
\* hash of a settlement, and that is a transaction of Base that succeeded, is
\* confirmed and brought the wallet of its quote the net amount quoted (verify
\* and recordVerifiedSettlement): "Provider status alone never creates an
\* Alterford balance."  It may be the settlement of another conversion of that
\* wallet as well: no hash is compared with those already recorded.
CompletedIsPaid ==
  \A l \in {ledger, file} : \A i \in DOMAIN l.conversions :
    LET k == l.conversions[i]
    IN  /\ k.status = "completed" <=> k.settlement # NoHash
        /\ k.status = "completed" =>
             /\ k.settlement \in confirmed
             /\ receipt[k.settlement].onBase /\ receipt[k.settlement].success
             /\ receipt[k.settlement].brings[destination[k.quote]]
                  >= net[k.quote]

\* One key has one quote, and one key has one conversion, in memory and on disk,
\* whatever calls overlap, whatever write fails and wherever the process stops;
\* a conversion is of an order the provider knows and of a quote held with it.
OneConversionPerKey ==
  \A l \in {ledger, file} :
    /\ \A i, j \in DOMAIN l.quotes : l.quotes[i].key = l.quotes[j].key => i = j
    /\ \A i, j \in DOMAIN l.conversions :
         /\ i \in orders
         /\ l.conversions[i].quote \in DOMAIN l.quotes
         /\ l.conversions[i].key = l.conversions[j].key => i = j
=============================================================================
