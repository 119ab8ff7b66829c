------------------------ MODULE XmrConversion_proofs ------------------------
(***************************************************************************)
(* What holds of XmrConversion for any number of requests, calls, polls,   *)
(* keys, wallets, transactions, restarts and writes that fail: the types,  *)
(* one conversion for a key, that a completed conversion was paid, and     *)
(* that a status only advances.                                            *)
(*                                                                         *)
(* None of them is inductive.  What carries them is that the file is in    *)
(* order as the memory is and never ahead of it, that a conversion's own   *)
(* call is over, that a call that has begun keeps its quote and one that   *)
(* awaits the answer has its order, and that no word of the provider makes *)
(* a conversion completed or a person's case.                              *)
(***************************************************************************)
EXTENDS XmrConversion, TLAPS

\* What a conversion may be.
Live == Status \ {"assistance_required"}

Sync ==
  {Idle}
  \cup [pc : {"asked"}, id : Calls, seen : Status]
  \cup [pc : {"verify"}, id : Calls, hash : Transactions]

Keyed(records) ==
  \A i, j \in DOMAIN records : records[i].key = records[j].key => i = j

\* A conversion k holds a settlement when it is completed, one of those in f.
Paid(k, f) ==
  /\ k.status = "completed" <=> k.settlement # NoHash
  /\ k.status = "completed" =>
       /\ k.settlement \in f
       /\ receipt[k.settlement].onBase /\ receipt[k.settlement].success
       /\ receipt[k.settlement].brings[destination[k.quote]] >= net[k.quote]

\* A snapshot l of the ledger is in order, given the provider's orders o and
\* the transactions f that are confirmed.
Good(l, o, f) ==
  /\ DOMAIN l = {"conversions", "quotes", "cases", "nonces"}
  /\ IsLedger(l)
  /\ Keyed(l.quotes) /\ Keyed(l.conversions)
  /\ \A i \in DOMAIN l.conversions :
       /\ i \in o
       /\ l.conversions[i].quote \in DOMAIN l.quotes
       /\ l.conversions[i].status \in Live
       /\ Paid(l.conversions[i], f)

\* From one snapshot to the next.
Ahead(l, m) == DOMAIN l.quotes \subseteq DOMAIN m.quotes /\ Onward(l, m)

Types ==
  /\ requests \in [Quotes -> Request]
  /\ calls \in [Calls -> Call]
  /\ syncs \in [Syncs -> Sync]
  /\ orders \subseteq Calls
  /\ confirmed \subseteq Transactions
  /\ crashes \in 0 .. MaxCrashes /\ failures \in 0 .. MaxFailures

CallsInv ==
  \A c \in Calls :
    /\ c \in DOMAIN ledger.conversions => calls[c].pc = "done"
    /\ calls[c].pc = "answer" => c \in orders
    /\ calls[c].pc \in {"verify", "order", "answer"} =>
         calls[c].quote \in DOMAIN ledger.quotes

SyncsInv ==
  \A s \in Syncs :
    syncs[s] # Idle => syncs[s].id \in DOMAIN ledger.conversions

ConversionInv ==
  /\ Good(ledger, orders, confirmed) /\ Good(file, orders, confirmed)
  /\ Ahead(file, ledger)
  /\ Types /\ CallsInv /\ SyncsInv

-----------------------------------------------------------------------------
\* The statuses.

LEMMA LaterTransitive ==
  ASSUME NEW s \in Live, NEW t \in Later(s), NEW u \in Later(t)
  PROVE  u \in Later(s)
  BY DEF Later, Live, Status

LEMMA LaterSelf == ASSUME NEW s \in Live PROVE s \in Later(s) /\ Later(s) \subseteq Status
  BY DEF Later, Live, Status

LEMMA TransitionIsLater ==
  ASSUME NEW s \in Live, NEW t \in Told, t \in transitions[s]
  PROVE  t \in Later(s)
  BY DEF Later, Live, Told, Status, transitions

LEMMA SettlingIsLater == "completed" \in Later("settling_base")
  BY DEF Later

LEMMA ForwardPlaces ==
  /\ \A s \in Status : ForwardIndex(s) \in 0 .. 3
  /\ forward[1] \in Told /\ forward[2] \in Told /\ forward[3] \in Told
<1>1. DOMAIN forward = 1 .. 3
  BY DEF forward
<1>2. \A s \in Status : ForwardIndex(s) \in 0 .. 3
  BY <1>1 DEF ForwardIndex
<1>3. /\ forward[1] = "confirming_xmr" /\ forward[2] = "converting"
      /\ forward[3] = "settling_base"
  BY DEF forward
<1> QED BY <1>2, <1>3 DEF Told, Live, Status

\* The path has three steps at most, and none of them completes.
LEMMA PathType ==
  ASSUME NEW seen \in Status, NEW told \in Told
  PROVE  /\ Len(Path(seen, told)) \in 0 .. 3
         /\ \A n \in 1 .. Len(Path(seen, told)) : Path(seen, told)[n] \in Told
<1>1. ForwardIndex(seen) \in 0 .. 3 /\ ForwardIndex(told) \in 0 .. 3
  BY ForwardPlaces DEF Told, Live
<1>2. CASE ForwardIndex(told) = 0
  BY <1>2 DEF Path
<1>3. CASE ForwardIndex(told) # 0
  <2> DEFINE a == ForwardIndex(seen)
             k == ForwardIndex(told) - a
             path == [n \in 1 .. k |-> forward[a + n]]
  <2>1. Path(seen, told) = path
    BY <1>3 DEF Path
  <2>2. a \in 0 .. 3 /\ k \in -3 .. 3 /\ a + k \in 0 .. 3
    BY <1>1
  <2> HIDE DEF a, k
  <2>3. \A n \in 1 .. k : path[n] \in Told
    <3> SUFFICES ASSUME NEW n \in 1 .. k PROVE forward[a + n] \in Told
      OBVIOUS
    <3>1. a + n \in {1, 2, 3}
      BY <2>2
    <3> QED BY <3>1, ForwardPlaces
  <2>4. CASE k <= 0
    <3>1. path = [n \in 1 .. 0 |-> forward[a + n]]
      BY <2>2, <2>4
    <3>2. \A m \in Nat : Len([n \in 1 .. m |-> forward[a + n]]) = m
      OBVIOUS
    <3>3. Len([n \in 1 .. 0 |-> forward[a + n]]) = 0
      BY <3>2
    <3>4. Len(path) = 0
      BY <3>1, <3>3
    <3> HIDE DEF path
    <3> QED BY <2>1, <3>4
  <2>5. CASE k > 0
    <3>1. k \in Nat
      BY <2>2, <2>5
    <3>2. Len(path) = k
      BY <3>1
    <3> HIDE DEF path
    <3> QED BY <2>1, <2>2, <2>3, <2>5, <3>2
  <2> QED BY <2>2, <2>4, <2>5
<1> QED BY <1>2, <1>3

\* Where a path stops, by Reached's choice: each status on the way there is
\* one the conversion may come to.
Stops(path, now, n) ==
  /\ \A m \in 1 .. n :
       path[m] \in transitions[IF m = 1 THEN now ELSE path[m - 1]]
  /\ n < Len(path) =>
       path[n + 1] \notin transitions[IF n = 0 THEN now ELSE path[n]]

LEMMA StopsSomewhere ==
  ASSUME NEW path, NEW now, Len(path) \in 0 .. 3
  PROVE  \E n \in 0 .. Len(path) : Stops(path, now, n)
<1> DEFINE moves ==
             {m \in 1 .. 4 : path[m] \in transitions[IF m = 1 THEN now ELSE path[m - 1]]}
<1>1. \A n \in 0 .. Len(path) :
        (\A m \in 1 .. n : m \in moves) /\ (n < Len(path) => n + 1 \notin moves)
          => Stops(path, now, n)
  <2> SUFFICES ASSUME NEW n \in 0 .. Len(path), \A m \in 1 .. n : m \in moves,
                      n < Len(path), n + 1 \notin moves
               PROVE  path[n + 1] \notin transitions[IF n = 0 THEN now ELSE path[n]]
    BY DEF Stops
  <2>1. n + 1 - 1 = n /\ (n + 1 = 1 <=> n = 0) /\ n + 1 \in 1 .. 4
    OBVIOUS
  <2> QED BY <2>1
<1> HIDE DEF moves
<1>2. \E n \in 0 .. Len(path) :
        (\A m \in 1 .. n : m \in moves) /\ (n < Len(path) => n + 1 \notin moves)
  <2>1. CASE Len(path) = 0
    BY <2>1
  <2>2. CASE Len(path) > 0 /\ 1 \notin moves
    BY <2>2
  <2>3. CASE Len(path) > 0 /\ 1 \in moves /\ (Len(path) = 1 \/ 2 \notin moves)
    <3>1. \A m \in 1 .. 1 : m \in {1}
      OBVIOUS
    <3>2. \A m \in 1 .. 1 : m \in moves
      BY <2>3, <3>1
    <3>3. 1 < Len(path) => 1 + 1 \notin moves
      <4>1. Len(path) = 1 => ~ 1 < Len(path)
        OBVIOUS
      <4>2. 1 + 1 = 2
        OBVIOUS
      <4> QED BY ONLY <2>3, <4>1, <4>2
    <3> QED BY <2>3, <3>2, <3>3
  <2>4. CASE Len(path) > 1 /\ 1 \in moves /\ 2 \in moves /\ (Len(path) = 2 \/ 3 \notin moves)
    <3>1. \A m \in 1 .. 2 : m \in {1, 2}
      OBVIOUS
    <3>2. \A m \in 1 .. 2 : m \in moves
      BY <2>4, <3>1
    <3>3. 2 < Len(path) => 2 + 1 \notin moves
      <4>1. Len(path) = 2 => ~ 2 < Len(path)
        OBVIOUS
      <4>2. 2 + 1 = 3
        OBVIOUS
      <4> QED BY ONLY <2>4, <4>1, <4>2
    <3> QED BY <2>4, <3>2, <3>3
  <2>5. CASE Len(path) = 3 /\ 1 \in moves /\ 2 \in moves /\ 3 \in moves
    <3>1. \A m \in 1 .. 3 : m \in {1, 2, 3}
      OBVIOUS
    <3>2. \A m \in 1 .. 3 : m \in moves
      BY <2>5, <3>1
    <3>3. 3 < Len(path) => 3 + 1 \notin moves
      <4>1. Len(path) = 3 => ~ 3 < Len(path)
        OBVIOUS
      <4>2. 3 + 1 = 4
        OBVIOUS
      <4> QED BY ONLY <2>5, <4>1, <4>2
    <3> QED BY <2>5, <3>2, <3>3
  <2>6. Len(path) \in {0, 1, 2, 3}
    OBVIOUS
  <2> QED BY <2>1, <2>2, <2>3, <2>4, <2>5, <2>6
<1> QED BY <1>1, <1>2

LEMMA ReachedType ==
  ASSUME NEW seen \in Status, NEW told \in Told, NEW now \in Live
  PROVE  LET path == Path(seen, told)
             n == Reached(path, now)
         IN  /\ n \in 0 .. Len(path)
             /\ \A m \in 1 .. n : path[m] \in Told /\ path[m] \in Later(now)
<1> DEFINE path == Path(seen, told)
           n == Reached(path, now)
<1>1. /\ Len(path) \in 0 .. 3
      /\ \A m \in 1 .. Len(path) : path[m] \in Told
  BY PathType
<1> HIDE DEF path
<1>2. n \in 0 .. Len(path) /\ Stops(path, now, n)
  <2>1. n = CHOOSE x \in 0 .. Len(path) : Stops(path, now, x)
    BY DEF Reached, Stops
  <2>2. \E x \in 0 .. Len(path) : Stops(path, now, x)
    BY <1>1, StopsSomewhere
  <2> HIDE DEF n
  <2> QED BY <2>1, <2>2
<1> HIDE DEF n
<1>3. n \in 0 .. 3
  BY <1>1, <1>2
<1>4. \A m \in 1 .. n : path[m] \in Told
  BY <1>1, <1>2
<1>5. n >= 1 => path[1] \in Later(now)
  <2> SUFFICES ASSUME n >= 1 PROVE path[1] \in Later(now)
    OBVIOUS
  <2>1. 1 \in 1 .. n
    BY <1>3
  <2>2. path[1] \in Told /\ path[1] \in transitions[now]
    BY <1>2, <1>4, <2>1 DEF Stops
  <2> QED BY <2>2, TransitionIsLater
<1>6. \A m \in 2 .. 3 : m <= n /\ path[m - 1] \in Later(now) => path[m] \in Later(now)
  <2> SUFFICES ASSUME NEW m \in 2 .. 3, m <= n, path[m - 1] \in Later(now)
               PROVE  path[m] \in Later(now)
    OBVIOUS
  <2>1. m \in 1 .. n /\ m - 1 \in 1 .. n /\ m # 1
    BY <1>3
  <2>2. path[m] \in Told /\ path[m - 1] \in Told
    BY <1>4, <2>1
  <2>3. path[m] \in transitions[path[m - 1]]
    BY <1>2, <2>1 DEF Stops
  <2>4. path[m - 1] \in Live
    BY <2>2 DEF Told, Live
  <2>5. path[m] \in Later(path[m - 1])
    BY <2>2, <2>3, <2>4, TransitionIsLater
  <2> QED BY <2>5, LaterTransitive
<1>7. \A m \in 1 .. n : path[m] \in Later(now)
  <2>1. n >= 2 => path[2] \in Later(now)
    <3>1. n >= 2 => n >= 1
      BY <1>3
    <3>2. 2 \in 2 .. 3 /\ 2 - 1 = 1
      OBVIOUS
    <3> QED BY <1>5, <1>6, <3>1, <3>2
  <2>2. n >= 3 => path[3] \in Later(now)
    <3>1. n >= 3 => n >= 2
      BY <1>3
    <3>2. 3 \in 2 .. 3 /\ 3 - 1 = 2
      OBVIOUS
    <3> QED BY <1>6, <2>1, <3>1, <3>2
  <2>3. \A m \in 1 .. n : m \in {1, 2, 3} /\ n >= m
    BY <1>3
  <2> QED BY <1>5, <2>1, <2>2, <2>3
<1> QED BY <1>2, <1>4, <1>7 DEF path, n

-----------------------------------------------------------------------------
\* What a write leaves in the ledger.

LEMMA WithType ==
  ASSUME NEW S, NEW D, NEW records \in [D -> S], NEW name, NEW record \in S
  PROVE  With(records, name, record) \in [D \cup {name} -> S]
  BY DEF With

LEMMA WithKeyed ==
  ASSUME NEW S, NEW records, records \in [DOMAIN records -> S], NEW name,
         NEW record \in S,
         Keyed(records), \A n \in DOMAIN records : records[n].key # record.key
  PROVE  Keyed(With(records, name, record))
<1> DEFINE new == With(records, name, record)
<1>1. /\ DOMAIN new = DOMAIN records \cup {name}
      /\ new[name] = record
      /\ \A n \in DOMAIN records : n # name => new[n] = records[n]
  BY DEF With
<1> HIDE DEF new
<1>2. ASSUME NEW i \in DOMAIN new, NEW j \in DOMAIN new, new[i].key = new[j].key
      PROVE  i = j
  <2>1. CASE i # name /\ j # name
    BY <1>1, <1>2, <2>1 DEF Keyed
  <2>2. CASE i = name /\ j # name
    BY <1>1, <1>2, <2>2
  <2>3. CASE i # name /\ j = name
    BY <1>1, <1>2, <2>3
  <2> QED BY <2>1, <2>2, <2>3
<1> QED BY <1>2 DEF Keyed, new

LEMMA AheadSelf ==
  ASSUME NEW l, NEW o, NEW f, Good(l, o, f), NEW m,
         m.conversions = l.conversions, DOMAIN l.quotes \subseteq DOMAIN m.quotes
  PROVE  Ahead(l, m)
<1>1. \A i \in DOMAIN l.conversions : l.conversions[i].status \in Live
  BY DEF Good
<1>2. \A i \in DOMAIN l.conversions :
        l.conversions[i].status \in Later(l.conversions[i].status)
  BY <1>1, LaterSelf
<1> QED BY <1>2 DEF Ahead, Onward

LEMMA AheadTransitive ==
  ASSUME NEW l, NEW m, NEW n, NEW o, NEW f, Good(l, o, f), Ahead(l, m), Ahead(m, n)
  PROVE  Ahead(l, n)
<1> SUFFICES ASSUME NEW i \in DOMAIN l.conversions
             PROVE  /\ i \in DOMAIN n.conversions
                    /\ n.conversions[i].status \in Later(l.conversions[i].status)
  BY DEF Ahead, Onward
<1>1. /\ i \in DOMAIN m.conversions /\ l.conversions[i].status \in Live
      /\ m.conversions[i].status \in Later(l.conversions[i].status)
  BY DEF Ahead, Onward, Good
<1>2. /\ i \in DOMAIN n.conversions
      /\ n.conversions[i].status \in Later(m.conversions[i].status)
  BY <1>1 DEF Ahead, Onward
<1> QED BY <1>1, <1>2, LaterTransitive

\* More orders and more confirmed transactions leave a snapshot in order.
LEMMA GoodGrows ==
  ASSUME NEW l, NEW o, NEW f, Good(l, o, f), NEW p, NEW g, o \subseteq p, f \subseteq g
  PROVE  Good(l, p, g)
<1>1. \A i \in DOMAIN l.conversions : i \in p /\ Paid(l.conversions[i], g)
  BY DEF Good, Paid
<1> QED BY <1>1 DEF Good

LEMMA CaseGood ==
  ASSUME NEW l, NEW o, NEW f, Good(l, o, f), NEW key \in QuoteKeys
  PROVE  LET m == [l EXCEPT !.cases = @ \cup {key}]
         IN  /\ Good(m, o, f) /\ Ahead(l, m)
             /\ m.conversions = l.conversions
<1> DEFINE m == [l EXCEPT !.cases = @ \cup {key}]
<1>1. /\ DOMAIN m = DOMAIN l /\ m.conversions = l.conversions
      /\ m.quotes = l.quotes /\ m.nonces = l.nonces
      /\ m.cases = l.cases \cup {key}
  BY DEF Good
<1> HIDE DEF m
<1>2. Good(m, o, f)
  BY <1>1 DEF Good, IsLedger
<1>3. Ahead(l, m)
  BY <1>1, AheadSelf
<1> QED BY <1>1, <1>2, <1>3 DEF m

LEMMA QuoteGood ==
  ASSUME NEW l, NEW o, NEW f, Good(l, o, f), NEW q \in Quotes, NEW key \in QuoteKeys,
         \A i \in DOMAIN l.quotes : l.quotes[i].key # key
  PROVE  LET m == [l EXCEPT !.quotes = With(@, q, [key |-> key])]
         IN  /\ Good(m, o, f) /\ Ahead(l, m)
             /\ m.conversions = l.conversions
<1> DEFINE m == [l EXCEPT !.quotes = With(@, q, [key |-> key])]
           record == [key |-> key]
           quotes == With(l.quotes, q, record)
<1>1. /\ DOMAIN m = DOMAIN l /\ m.conversions = l.conversions
      /\ m.quotes = quotes /\ m.nonces = l.nonces /\ m.cases = l.cases
  BY DEF Good
<1>2. record \in [key : QuoteKeys] /\ record.key = key
  OBVIOUS
<1>3. /\ DOMAIN l.quotes \subseteq Quotes
      /\ l.quotes \in [DOMAIN l.quotes -> [key : QuoteKeys]]
      /\ Keyed(l.quotes)
  BY DEF Good, IsLedger
<1> HIDE DEF m, record
<1>4. /\ DOMAIN quotes = DOMAIN l.quotes \cup {q}
      /\ quotes \in [DOMAIN quotes -> [key : QuoteKeys]]
  <2>1. DOMAIN quotes = DOMAIN l.quotes \cup {q}
    BY DEF With
  <2>2. quotes \in [DOMAIN l.quotes \cup {q} -> [key : QuoteKeys]]
    BY <1>2, <1>3, WithType
  <2> QED BY <2>1, <2>2
<1>5. Keyed(quotes)
  BY <1>2, <1>3, WithKeyed
<1> HIDE DEF quotes
<1>6. DOMAIN m.quotes \subseteq Quotes /\ DOMAIN l.quotes \subseteq DOMAIN m.quotes
  BY <1>1, <1>3, <1>4
<1>7. Good(m, o, f)
  BY <1>1, <1>4, <1>5, <1>6 DEF Good, IsLedger
<1>8. Ahead(l, m)
  BY <1>1, <1>6, AheadSelf
<1> QED BY <1>1, <1>7, <1>8 DEF m, record

LEMMA StoredGood ==
  ASSUME NEW l, NEW o, NEW f, Good(l, o, f), NEW c \in Calls, c \in o,
         NEW key \in Keys, NEW quote \in DOMAIN l.quotes,
         c \notin DOMAIN l.conversions,
         \A i \in DOMAIN l.conversions : l.conversions[i].key # key
  PROVE  LET m == [l EXCEPT !.conversions =
                     With(@, c, [key |-> key, quote |-> quote,
                                 status |-> "awaiting_deposit",
                                 settlement |-> NoHash])]
         IN  /\ Good(m, o, f) /\ Ahead(l, m)
             /\ DOMAIN m.conversions = DOMAIN l.conversions \cup {c}
<1> DEFINE record == [key |-> key, quote |-> quote, status |-> "awaiting_deposit",
                      settlement |-> NoHash]
           new == With(l.conversions, c, record)
           m == [l EXCEPT !.conversions =
                   With(@, c, [key |-> key, quote |-> quote,
                               status |-> "awaiting_deposit", settlement |-> NoHash])]
<1>1. /\ DOMAIN m = DOMAIN l /\ m.conversions = new
      /\ m.quotes = l.quotes /\ m.nonces = l.nonces /\ m.cases = l.cases
  BY DEF Good
<1>2. /\ DOMAIN l.conversions \subseteq Calls
      /\ l.conversions \in [DOMAIN l.conversions -> Conversion]
      /\ Keyed(l.conversions) /\ DOMAIN l.quotes \subseteq Quotes
  BY DEF Good, IsLedger
<1>3. /\ record \in Conversion /\ record.key = key /\ record.quote = quote
      /\ record.status \in Live /\ Paid(record, f)
  BY <1>2 DEF Conversion, Status, Live, Paid
<1> HIDE DEF m, record
<1>4. /\ DOMAIN new = DOMAIN l.conversions \cup {c}
      /\ new \in [DOMAIN new -> Conversion]
      /\ new[c] = record
      /\ \A i \in DOMAIN l.conversions : new[i] = l.conversions[i]
  <2>1. /\ DOMAIN new = DOMAIN l.conversions \cup {c}
        /\ new[c] = record
        /\ \A i \in DOMAIN l.conversions : i # c => new[i] = l.conversions[i]
    BY DEF With
  <2>2. new \in [DOMAIN l.conversions \cup {c} -> Conversion]
    BY <1>2, <1>3, WithType
  <2> QED BY <2>1, <2>2
<1>5. Keyed(new)
  BY <1>2, <1>3, WithKeyed
<1> HIDE DEF new
<1>6. \A i \in DOMAIN m.conversions :
        /\ i \in o
        /\ m.conversions[i].quote \in DOMAIN m.quotes
        /\ m.conversions[i].status \in Live
        /\ Paid(m.conversions[i], f)
  BY <1>1, <1>3, <1>4 DEF Good
<1>7. IsLedger(m)
  <2>1. DOMAIN m.conversions \subseteq Calls
    BY <1>1, <1>2, <1>4
  <2> QED BY <1>1, <1>4, <2>1 DEF Good, IsLedger
<1>8. Good(m, o, f)
  BY <1>1, <1>5, <1>6, <1>7 DEF Good
<1>9. Ahead(l, m)
  <2>1. \A i \in DOMAIN l.conversions : l.conversions[i].status \in Live
    BY DEF Good
  <2>2. \A i \in DOMAIN l.conversions :
          l.conversions[i].status \in Later(l.conversions[i].status)
    BY <2>1, LaterSelf
  <2> QED BY <1>1, <1>4, <2>2 DEF Ahead, Onward
<1> QED BY <1>1, <1>4, <1>8, <1>9 DEF m, record

\* A conversion moves on and keeps its key and its quote.
Moves(l, i, k, m) ==
  /\ DOMAIN m = DOMAIN l /\ m.conversions = [l.conversions EXCEPT ![i] = k]
  /\ m.quotes = l.quotes /\ m.nonces = l.nonces /\ m.cases = l.cases

LEMMA MovesGood ==
  ASSUME NEW l, NEW o, NEW f, Good(l, o, f), NEW i \in DOMAIN l.conversions,
         NEW k \in Conversion, NEW m, Moves(l, i, k, m),
         k.key = l.conversions[i].key, k.quote = l.conversions[i].quote,
         k.status \in Live, k.status \in Later(l.conversions[i].status), Paid(k, f)
  PROVE  /\ Good(m, o, f) /\ Ahead(l, m)
         /\ DOMAIN m.conversions = DOMAIN l.conversions
<1> DEFINE new == [l.conversions EXCEPT ![i] = k]
<1>1. /\ DOMAIN m = DOMAIN l /\ m.conversions = new
      /\ m.quotes = l.quotes /\ m.nonces = l.nonces /\ m.cases = l.cases
  BY DEF Moves
<1>2. /\ DOMAIN l.conversions \subseteq Calls
      /\ l.conversions \in [DOMAIN l.conversions -> Conversion]
  BY DEF Good, IsLedger
<1>3. /\ DOMAIN new = DOMAIN l.conversions
      /\ \A j \in DOMAIN l.conversions : j # i => new[j] = l.conversions[j]
      /\ new[i] = k /\ new \in [DOMAIN new -> Conversion]
  BY <1>2
<1> HIDE DEF new
<1>4. Keyed(new)
  <2>1. \A j \in DOMAIN new : new[j].key = l.conversions[j].key
    BY <1>3
  <2> QED BY <1>3, <2>1 DEF Keyed, Good
<1>5. \A j \in DOMAIN m.conversions :
        /\ j \in o
        /\ m.conversions[j].quote \in DOMAIN m.quotes
        /\ m.conversions[j].status \in Live
        /\ Paid(m.conversions[j], f)
  BY <1>1, <1>3 DEF Good
<1>6. IsLedger(m)
  BY <1>1, <1>2, <1>3 DEF Good, IsLedger
<1>7. Good(m, o, f)
  BY <1>1, <1>4, <1>5, <1>6 DEF Good
<1>8. Ahead(l, m)
  <2>1. \A j \in DOMAIN l.conversions : l.conversions[j].status \in Live
    BY DEF Good
  <2>2. \A j \in DOMAIN l.conversions :
          l.conversions[j].status \in Later(l.conversions[j].status)
    BY <2>1, LaterSelf
  <2> QED BY <1>1, <1>3, <2>2 DEF Ahead, Onward
<1> QED BY <1>1, <1>3, <1>7, <1>8

LEMMA StatusGood ==
  ASSUME NEW l, NEW o, NEW f, Good(l, o, f), NEW i \in DOMAIN l.conversions,
         NEW status \in Told, status \in Later(l.conversions[i].status)
  PROVE  LET m == [l EXCEPT !.conversions[i].status = status]
         IN  /\ Good(m, o, f) /\ Ahead(l, m)
             /\ DOMAIN m.conversions = DOMAIN l.conversions
<1> DEFINE m == [l EXCEPT !.conversions[i].status = status]
           k == [l.conversions[i] EXCEPT !.status = status]
<1>1. /\ l.conversions[i] \in Conversion /\ l.conversions[i].status \in Live
      /\ Paid(l.conversions[i], f)
  BY DEF Good, IsLedger
<1>2. Moves(l, i, k, m)
  BY DEF Moves, Good
<1>3. /\ k \in Conversion /\ k.status = status
      /\ k.key = l.conversions[i].key /\ k.quote = l.conversions[i].quote
      /\ k.settlement = l.conversions[i].settlement
  BY <1>1 DEF Conversion, Told
<1>4. status \in Live /\ status # "completed"
  BY DEF Told, Live
<1>5. l.conversions[i].status # "completed"
  BY <1>4 DEF Later
<1> HIDE DEF k, m
<1>6. Paid(k, f)
  BY <1>1, <1>3, <1>4, <1>5 DEF Paid
<1>7. Good(m, o, f) /\ Ahead(l, m) /\ DOMAIN m.conversions = DOMAIN l.conversions
  BY <1>2, <1>3, <1>4, <1>6, MovesGood
<1> QED BY <1>7 DEF m

\* A settlement of the conversion that the verifier accepts.
Settles(l, f, i, hash) ==
  /\ i \in DOMAIN l.conversions /\ l.conversions[i].status = "settling_base"
  /\ hash \in Transactions /\ hash \in f
  /\ receipt[hash].onBase /\ receipt[hash].success
  /\ receipt[hash].brings[destination[l.conversions[i].quote]]
       >= net[l.conversions[i].quote]

\* The ledger with the conversion completed.
Completed(l, i, hash) ==
  [l EXCEPT !.conversions[i] =
     [@ EXCEPT !.status = "completed", !.settlement = hash]]

LEMMA SettlementGood ==
  ASSUME NEW l, NEW o, NEW f, NEW i, NEW hash, Good(l, o, f), Settles(l, f, i, hash)
  PROVE  /\ Good(Completed(l, i, hash), o, f) /\ Ahead(l, Completed(l, i, hash))
         /\ DOMAIN Completed(l, i, hash).conversions = DOMAIN l.conversions
<1> USE DEF Settles
<1> DEFINE k == [l.conversions[i] EXCEPT !.status = "completed", !.settlement = hash]
           m == [l EXCEPT !.conversions[i] =
                   [@ EXCEPT !.status = "completed", !.settlement = hash]]
<1>1. l.conversions[i] \in Conversion
  BY DEF Good, IsLedger
<1>2. Moves(l, i, k, m)
  BY DEF Moves, Good
<1>3. /\ k \in Conversion /\ k.status = "completed" /\ k.settlement = hash
      /\ k.key = l.conversions[i].key /\ k.quote = l.conversions[i].quote
  BY <1>1 DEF Conversion, Status
<1>4. "completed" \in Live /\ "completed" \in Later(l.conversions[i].status)
  BY SettlingIsLater DEF Live, Status
<1> HIDE DEF k, m
<1>5. Paid(k, f)
  BY <1>3, ConversionAssumption DEF Paid
<1>6. Good(m, o, f) /\ Ahead(l, m) /\ DOMAIN m.conversions = DOMAIN l.conversions
  BY <1>2, <1>3, <1>4, <1>5, MovesGood
<1> QED BY <1>6 DEF m, Completed

-----------------------------------------------------------------------------
\* What a write leaves in memory and on disk.

\* Memory becomes m and the file d, both beyond what they were, d behind m.
Becomes(m, d) ==
  /\ Good(m, orders, confirmed) /\ Good(d, orders, confirmed)
  /\ Ahead(ledger, m) /\ Ahead(file, d) /\ Ahead(d, m)
  /\ ledger' = m /\ file' = d /\ failures' \in 0 .. MaxFailures

LEMMA SavedBecomes ==
  ASSUME ConversionInv, NEW m, Good(m, orders, confirmed), Ahead(ledger, m), Saved(m)
  PROVE  Becomes(m, m)
<1>1. Ahead(file, m)
  BY AheadTransitive DEF ConversionInv
<1>2. Ahead(m, m)
  BY AheadSelf
<1>3. ledger' = m /\ file' = m /\ failures' \in 0 .. MaxFailures
  BY DEF Saved, ConversionInv, Types
<1> QED BY <1>1, <1>2, <1>3 DEF Becomes

LEMMA UnsavedBecomes ==
  ASSUME ConversionInv, NEW m, Good(m, orders, confirmed), Ahead(ledger, m),
         NEW d, Good(d, orders, confirmed), Ahead(ledger, d) \/ d = file, Ahead(d, m),
         Unsaved(m, d)
  PROVE  Becomes(m, d)
<1>1. Good(file, orders, confirmed) /\ Ahead(file, ledger)
  BY DEF ConversionInv
<1>2. Ahead(file, file)
  BY <1>1, AheadSelf
<1>3. Ahead(ledger, d) => Ahead(file, d)
  BY <1>1, AheadTransitive
<1>4. ledger' = m /\ file' = d /\ failures' \in 0 .. MaxFailures
  BY ConversionAssumption DEF Unsaved, ConversionInv, Types
<1> QED BY <1>2, <1>3, <1>4 DEF Becomes

LEMMA WriteBecomes ==
  ASSUME ConversionInv, NEW m, Good(m, orders, confirmed), Ahead(ledger, m), Write(m)
  PROVE  Becomes(m, m) \/ Becomes(m, file)
<1>1. CASE Saved(m)
  BY <1>1, SavedBecomes
<1>2. CASE Unsaved(m, file)
  <2>1. Good(file, orders, confirmed) /\ Ahead(file, m)
    BY AheadTransitive DEF ConversionInv
  <2> QED BY <1>2, <2>1, UnsavedBecomes
<1> QED BY <1>1, <1>2 DEF Write

LEMMA QuietBecomes == ASSUME ConversionInv, NoWrite PROVE Becomes(ledger, file)
<1>1. /\ Good(ledger, orders, confirmed) /\ Good(file, orders, confirmed)
      /\ Ahead(file, ledger)
  BY DEF ConversionInv
<1>2. Ahead(ledger, ledger) /\ Ahead(file, file)
  BY <1>1, AheadSelf
<1>3. ledger' = ledger /\ file' = file /\ failures' \in 0 .. MaxFailures
  BY DEF NoWrite, ConversionInv, Types
<1> QED BY <1>1, <1>2, <1>3 DEF Becomes

-----------------------------------------------------------------------------
\* The steps.  Each keeps the invariant and moves memory and file onward, but
\* for a restart, which moves memory from the file.

Steps ==
  /\ ConversionInv'
  /\ Ahead(file, file')
  /\ Ahead(IF crashes' = crashes THEN ledger ELSE file, ledger')

LEMMA CallCases ==
  ASSUME NEW k \in Call
  PROVE  /\ k.pc \in {"new", "verify", "order", "answer", "done"}
         /\ k.pc \in {"new", "verify", "order", "answer"} => k.key \in Keys
         /\ k.pc \in {"verify", "order", "answer"} =>
              k \in [pc : {"verify", "order", "answer"}, key : Keys,
                     quote : Quotes, nonce : Nat]
  BY DEF Call, Done

LEMMA RequestCases ==
  ASSUME NEW k \in Request
  PROVE  k.pc \in {"new", "asked"} =>
           k.key \in QuoteKeys /\ k \in [pc : {"new", "asked"}, key : QuoteKeys]
  BY DEF Request, Done

LEMMA SyncCases ==
  ASSUME NEW k \in Sync
  PROVE  /\ k.pc \in {"idle", "asked", "verify"}
         /\ k.pc = "asked" => k \in [pc : {"asked"}, id : Calls, seen : Status]
         /\ k.pc = "verify" => k \in [pc : {"verify"}, id : Calls, hash : Transactions]
         /\ k.pc # "idle" <=> k # Idle
  BY DEF Sync, Idle

\* A restart from a snapshot the file may hold.
LEMMA RestartStep ==
  ASSUME ConversionInv, NEW m, Good(m, orders, confirmed), Ahead(file, m),
         \A i \in DOMAIN m.conversions : calls[i].pc # "new",
         RestartFrom(m), UNCHANGED outside
  PROVE  Steps
<1>1. /\ ledger' = m /\ file' = m /\ orders' = orders /\ confirmed' = confirmed
      /\ crashes' = crashes + 1 /\ crashes < MaxCrashes /\ failures' = failures
      /\ syncs' = [s \in Syncs |-> Idle]
  BY DEF RestartFrom, outside
<1>2. requests' \in [Quotes -> Request]
  BY DEF RestartFrom, ConversionInv, Types, Request
<1>3. /\ calls' \in [Calls -> Call]
      /\ \A c \in Calls : calls'[c] = IF calls[c].pc = "new" THEN calls[c] ELSE Done
  BY DEF RestartFrom, ConversionInv, Types, Call
<1>4. syncs' \in [Syncs -> Sync] /\ \A s \in Syncs : syncs'[s] = Idle
  BY <1>1 DEF Sync
<1>5. crashes \in Nat /\ crashes' \in 0 .. MaxCrashes /\ crashes' # crashes
  BY <1>1, ConversionAssumption DEF ConversionInv, Types
<1>6. Types'
  BY <1>1, <1>2, <1>3, <1>4, <1>5 DEF ConversionInv, Types
<1>7. \A c \in Calls : calls'[c].pc \in {"new", "done"}
  BY <1>3 DEF Done
<1>8. CallsInv'
  <2>1. \A c \in Calls : c \in DOMAIN m.conversions => calls'[c].pc = "done"
    BY <1>3 DEF Done
  <2>2. \A c \in Calls : calls'[c].pc \notin {"verify", "order", "answer"}
    BY <1>7
  <2> QED BY <1>1, <2>1, <2>2 DEF CallsInv
<1>9. SyncsInv'
  BY <1>1, <1>4 DEF SyncsInv
<1>10. Ahead(m, m)
  BY AheadSelf
<1>11. /\ Good(ledger', orders', confirmed') /\ Good(file', orders', confirmed')
       /\ Ahead(file', ledger')
  BY <1>1, <1>10
<1>12. Ahead(file, file') /\ Ahead(IF crashes' = crashes THEN ledger ELSE file, ledger')
  BY <1>1, <1>5
<1> QED BY <1>6, <1>8, <1>9, <1>11, <1>12 DEF Steps, ConversionInv

LEMMA CrashSteps == ASSUME ConversionInv, Crash PROVE Steps
<1>1. RestartFrom(file) /\ UNCHANGED outside
  BY DEF Crash
<1>2. Good(file, orders, confirmed) /\ Ahead(file, file)
  BY AheadSelf DEF ConversionInv
<1>3. \A i \in DOMAIN file.conversions : calls[i].pc # "new"
  <2>1. DOMAIN file.conversions \subseteq Calls
    BY <1>2 DEF Good, IsLedger
  <2>2. \A i \in DOMAIN file.conversions : i \in DOMAIN ledger.conversions
    BY DEF ConversionInv, Ahead, Onward
  <2> QED BY <2>1, <2>2 DEF ConversionInv, CallsInv
<1> QED BY <1>1, <1>2, <1>3, RestartStep

\* What a step that writes, and is no restart, has to show.
LEMMA WritingStep ==
  ASSUME ConversionInv, NEW m, NEW d, Becomes(m, d), UNCHANGED <<outside, crashes>>,
         requests' \in [Quotes -> Request], calls' \in [Calls -> Call],
         syncs' \in [Syncs -> Sync], CallsInv', SyncsInv'
  PROVE  Steps
<1>1. /\ ledger' = m /\ file' = d /\ orders' = orders /\ confirmed' = confirmed
      /\ crashes' = crashes /\ failures' \in 0 .. MaxFailures
  BY DEF Becomes, outside
<1>2. Types'
  BY <1>1 DEF ConversionInv, Types
<1>3. /\ Good(m, orders, confirmed) /\ Good(d, orders, confirmed)
      /\ Ahead(ledger, m) /\ Ahead(file, d) /\ Ahead(d, m)
  BY DEF Becomes
<1>4. /\ Good(ledger', orders', confirmed') /\ Good(file', orders', confirmed')
      /\ Ahead(file', ledger')
  BY <1>1, <1>3
<1>5. Ahead(file, file') /\ Ahead(IF crashes' = crashes THEN ledger ELSE file, ledger')
  BY <1>1, <1>3
<1> QED BY <1>2, <1>4, <1>5 DEF Steps, ConversionInv

\* What a step that leaves conversions, calls, polls and orders alone keeps.
LEMMA RequestStep ==
  ASSUME ConversionInv, NEW m, NEW d, Becomes(m, d),
         m.conversions = ledger.conversions,
         requests' \in [Quotes -> Request],
         UNCHANGED <<calls, syncs, outside, crashes>>
  PROVE  Steps
<1>1. /\ ledger' = m /\ DOMAIN ledger.quotes \subseteq DOMAIN m.quotes
      /\ calls' = calls /\ syncs' = syncs /\ orders' = orders
  BY DEF Becomes, Ahead, outside
<1>2. calls' \in [Calls -> Call] /\ syncs' \in [Syncs -> Sync]
  BY <1>1 DEF ConversionInv, Types
<1>3. CallsInv'
  BY <1>1 DEF ConversionInv, CallsInv
<1>4. SyncsInv'
  BY <1>1 DEF ConversionInv, SyncsInv
<1> QED BY <1>2, <1>3, <1>4, WritingStep

LEMMA QuoteSteps ==
  ASSUME ConversionInv, NEW q \in Quotes,
         Assisted(q) \/ QuoteKnown(q) \/ QuoteAsked(q) \/ Quoted(q)
  PROVE  Steps
<1>1. requests \in [Quotes -> Request] /\ Good(ledger, orders, confirmed)
  BY DEF ConversionInv, Types
<1>2. RequestEnds(q) =>
        /\ requests' \in [Quotes -> Request]
        /\ UNCHANGED <<calls, syncs, outside, crashes>>
  BY <1>1 DEF RequestEnds, Request
<1>3. requests[q].pc \in {"new", "asked"} => requests[q].key \in QuoteKeys
  BY <1>1, RequestCases
<1>4. ASSUME NoWrite, requests' \in [Quotes -> Request],
             UNCHANGED <<calls, syncs, outside, crashes>>
      PROVE  Steps
  BY <1>4, QuietBecomes, RequestStep
<1>5. ASSUME NEW m, Good(m, orders, confirmed), Ahead(ledger, m),
             m.conversions = ledger.conversions, Write(m), RequestEnds(q)
      PROVE  Steps
  BY <1>2, <1>5, WriteBecomes, RequestStep
<1>6. ASSUME requests[q].pc \in {"new", "asked"}, CaseMade(q), RequestEnds(q)
      PROVE  Steps
  <2>1. CASE NoWrite
    BY <1>2, <1>4, <1>6, <2>1
  <2>2. CASE Write([ledger EXCEPT !.cases = @ \cup {requests[q].key}])
    <3> DEFINE m == [ledger EXCEPT !.cases = @ \cup {requests[q].key}]
    <3>1. /\ Good(m, orders, confirmed) /\ Ahead(ledger, m)
          /\ m.conversions = ledger.conversions
      BY <1>1, <1>3, <1>6, CaseGood
    <3>2. Write(m)
      BY <2>2
    <3> HIDE DEF m
    <3> QED BY <1>5, <1>6, <3>1, <3>2
  <2> QED BY <1>6, <2>1, <2>2 DEF CaseMade
<1>7. CASE Assisted(q)
  BY <1>6, <1>7 DEF Assisted
<1>8. CASE QuoteKnown(q)
  BY <1>2, <1>4, <1>8 DEF QuoteKnown
<1>9. CASE QuoteAsked(q)
  <2>1. requests' \in [Quotes -> Request]
    <3>1. requests[q] \in [pc : {"new", "asked"}, key : QuoteKeys]
      BY <1>1, <1>9, RequestCases DEF QuoteAsked
    <3>2. [requests[q] EXCEPT !.pc = "asked"] \in Request
      BY <3>1 DEF Request
    <3> QED BY <1>1, <1>9, <3>2 DEF QuoteAsked
  <2> QED BY <1>4, <1>9, <2>1 DEF QuoteAsked
<1>10. CASE Quoted(q)
  <2>1. requests[q].pc = "asked" /\ RequestEnds(q)
    BY <1>10 DEF Quoted
  <2>2. CASE NoWrite
    BY <1>2, <1>4, <2>1, <2>2
  <2>3. CASE CaseMade(q)
    BY <1>6, <2>1, <2>3
  <2>4. CASE ~HasQuote(requests[q].key) /\ Write(WithQuote(q))
    <3> DEFINE m == WithQuote(q)
    <3>1. \A i \in DOMAIN ledger.quotes : ledger.quotes[i].key # requests[q].key
      BY <2>4 DEF HasQuote
    <3>2. /\ Good(m, orders, confirmed) /\ Ahead(ledger, m)
          /\ m.conversions = ledger.conversions
      BY <1>1, <1>3, <2>1, <3>1, QuoteGood DEF WithQuote
    <3>3. Write(m)
      BY <2>4
    <3> HIDE DEF m
    <3> QED BY <1>5, <2>1, <3>2, <3>3
  <2> QED BY <1>10, <2>2, <2>3, <2>4 DEF Quoted
<1> QED BY <1>7, <1>8, <1>9, <1>10

\* A call moves on and nothing is written: it keeps its quote, and has its
\* order if it awaits the answer.
LEMMA CallMoves ==
  ASSUME ConversionInv, NoWrite, NEW c \in Calls, NEW k \in Call,
         calls' = [calls EXCEPT ![c] = k],
         c \in DOMAIN ledger.conversions => k.pc = "done",
         k.pc = "answer" => c \in orders',
         k.pc \in {"verify", "order", "answer"} => k.quote \in DOMAIN ledger.quotes,
         orders \subseteq orders', orders' \subseteq Calls,
         UNCHANGED <<requests, syncs, confirmed, crashes>>
  PROVE  Steps
<1>1. ledger' = ledger /\ file' = file /\ failures' = failures
  BY DEF NoWrite
<1>2. /\ calls' \in [Calls -> Call]
      /\ \A x \in Calls : calls'[x] = IF x = c THEN k ELSE calls[x]
  BY DEF ConversionInv, Types
<1>3. Types'
  BY <1>1, <1>2 DEF ConversionInv, Types
<1>4. CallsInv'
  BY <1>1, <1>2 DEF ConversionInv, CallsInv
<1>5. SyncsInv'
  BY <1>1 DEF ConversionInv, SyncsInv
<1>6. Good(ledger, orders', confirmed) /\ Good(file, orders', confirmed)
  BY GoodGrows DEF ConversionInv
<1>7. Ahead(file, ledger) /\ Ahead(file, file) /\ Ahead(ledger, ledger)
  BY AheadSelf DEF ConversionInv
<1>8. ConversionInv'
  BY <1>1, <1>3, <1>4, <1>5, <1>6, <1>7 DEF ConversionInv
<1> QED BY <1>1, <1>7, <1>8 DEF Steps

LEMMA QuietCallSteps ==
  ASSUME ConversionInv, NEW c \in Calls,
         Known(c) \/ Begun(c) \/ Signed(c) \/ Unanswered(c) \/ Conflict(c)
  PROVE  Steps
<1>1. calls \in [Calls -> Call] /\ orders \subseteq Calls
  BY DEF ConversionInv, Types
<1>2. calls[c] \in Call /\ Done \in Call /\ Done.pc = "done"
  BY <1>1 DEF Call, Done
<1>3. c \in DOMAIN ledger.conversions => calls[c].pc = "done"
  BY DEF ConversionInv, CallsInv
<1>4. ASSUME NEW k \in Call, calls' = [calls EXCEPT ![c] = k], NoWrite,
             c \in DOMAIN ledger.conversions => k.pc = "done",
             k.pc # "answer",
             k.pc \in {"verify", "order"} => k.quote \in DOMAIN ledger.quotes,
             UNCHANGED <<requests, syncs, outside, crashes>>
      PROVE  Steps
  <2>1. orders' = orders /\ UNCHANGED <<requests, syncs, confirmed, crashes>>
    BY <1>4 DEF outside
  <2> QED BY <1>1, <1>4, <2>1, CallMoves
<1>5. ASSUME calls' = [calls EXCEPT ![c] = Done], NoWrite,
             UNCHANGED <<requests, syncs, outside, crashes>>
      PROVE  Steps
  <2>1. Done.pc # "answer" /\ Done.pc \notin {"verify", "order"}
    BY <1>2
  <2> QED BY <1>2, <1>4, <1>5, <2>1
<1>6. CASE Known(c)
  BY <1>5, <1>6 DEF Known
<1>7. CASE Unanswered(c)
  BY <1>5, <1>7 DEF Unanswered
<1>8. CASE Conflict(c)
  BY <1>5, <1>8 DEF Conflict
<1>9. CASE Begun(c)
  <2>1. PICK quote \in DOMAIN ledger.quotes :
          calls' = [calls EXCEPT ![c] =
                      [pc |-> "verify", key |-> calls[c].key, quote |-> quote,
                       nonce |-> ledger.nonces[destination[quote]]]]
    BY <1>9 DEF Begun
  <2> DEFINE k == [pc |-> "verify", key |-> calls[c].key, quote |-> quote,
                   nonce |-> ledger.nonces[destination[quote]]]
  <2>2. quote \in Quotes /\ ledger.nonces[destination[quote]] \in Nat
    BY ConversionAssumption DEF ConversionInv, Good, IsLedger
  <2>3. calls[c].pc = "new" /\ calls[c].key \in Keys
    BY <1>2, <1>9, CallCases DEF Begun
  <2>4. k \in Call /\ k.pc = "verify" /\ k.quote = quote
    BY <2>2, <2>3 DEF Call
  <2>5. c \notin DOMAIN ledger.conversions
    BY <1>3, <2>3
  <2>6. NoWrite /\ UNCHANGED <<requests, syncs, outside, crashes>>
    BY <1>9 DEF Begun
  <2> HIDE DEF k
  <2>7. calls' = [calls EXCEPT ![c] = k]
    BY <2>1 DEF k
  <2> QED BY <1>4, <2>4, <2>5, <2>6, <2>7
<1>10. CASE Signed(c)
  <2> DEFINE k == [calls[c] EXCEPT !.pc = "order"]
  <2>1. calls[c].pc = "verify"
    BY <1>10 DEF Signed
  <2>2. calls[c] \in [pc : {"verify", "order", "answer"}, key : Keys,
                      quote : Quotes, nonce : Nat]
    BY <1>2, <2>1, CallCases
  <2>3. k \in Call /\ k.pc = "order" /\ k.quote = calls[c].quote
    BY <2>2 DEF Call
  <2>4. k.quote \in DOMAIN ledger.quotes
    BY <2>1, <2>3 DEF ConversionInv, CallsInv
  <2>5. c \notin DOMAIN ledger.conversions
    BY <1>3, <2>1
  <2>6. NoWrite /\ UNCHANGED <<requests, syncs, outside, crashes>>
    BY <1>10 DEF Signed
  <2>7. calls' = [calls EXCEPT ![c] = k]
    BY <1>10 DEF Signed
  <2> HIDE DEF k
  <2> QED BY <1>4, <2>3, <2>4, <2>5, <2>6, <2>7
<1> QED BY <1>6, <1>7, <1>8, <1>9, <1>10

LEMMA OrderSteps == ASSUME ConversionInv, NEW c \in Calls, ProviderOrders(c) PROVE Steps
<1> DEFINE k == [calls[c] EXCEPT !.pc = "answer"]
<1>1. calls \in [Calls -> Call] /\ orders \subseteq Calls
  BY DEF ConversionInv, Types
<1>2. /\ calls[c].pc = "order" /\ calls' = [calls EXCEPT ![c] = k]
      /\ orders' = orders \cup {c}
      /\ NoWrite /\ UNCHANGED <<requests, syncs, confirmed, crashes>>
  BY DEF ProviderOrders
<1>3. calls[c] \in [pc : {"verify", "order", "answer"}, key : Keys,
                    quote : Quotes, nonce : Nat]
  BY <1>1, <1>2, CallCases
<1>4. k \in Call /\ k.pc = "answer" /\ k.quote = calls[c].quote
  BY <1>3 DEF Call
<1>5. k.quote \in DOMAIN ledger.quotes
  BY <1>2, <1>4 DEF ConversionInv, CallsInv
<1>6. c \notin DOMAIN ledger.conversions
  BY <1>2 DEF ConversionInv, CallsInv
<1> HIDE DEF k
<1> QED BY <1>1, <1>2, <1>4, <1>5, <1>6, CallMoves

LEMMA CreatedSteps == ASSUME ConversionInv, NEW c \in Calls, Created(c) PROVE Steps
<1> DEFINE wallet == destination[calls[c].quote]
           stored == WithConversion(c)
           consumed == [stored EXCEPT !.nonces[wallet] = @ + 1]
<1>1. /\ calls \in [Calls -> Call] /\ Good(ledger, orders, confirmed)
      /\ calls[c].pc = "answer"
      /\ \A i \in DOMAIN ledger.conversions : ledger.conversions[i].key # calls[c].key
  BY DEF ConversionInv, Types, Created, HasKey
<1>2. calls[c].key \in Keys /\ calls[c].quote \in DOMAIN ledger.quotes
  BY <1>1, CallCases DEF ConversionInv, CallsInv
<1>3. c \notin DOMAIN ledger.conversions /\ c \in orders
  BY <1>1 DEF ConversionInv, CallsInv
<1>4. /\ Good(stored, orders, confirmed) /\ Ahead(ledger, stored)
      /\ DOMAIN stored.conversions = DOMAIN ledger.conversions \cup {c}
  BY <1>1, <1>2, <1>3, StoredGood DEF WithConversion
<1>5. wallet \in Wallets
  <2>1. calls[c].quote \in Quotes
    BY <1>1, <1>2 DEF Good, IsLedger
  <2> QED BY <2>1, ConversionAssumption
<1> HIDE DEF stored, wallet
<1>6. /\ Good(consumed, orders, confirmed) /\ Ahead(ledger, consumed)
      /\ consumed.conversions = stored.conversions /\ consumed.quotes = stored.quotes
  <2>1. /\ DOMAIN consumed = DOMAIN stored
        /\ consumed.conversions = stored.conversions
        /\ consumed.quotes = stored.quotes /\ consumed.cases = stored.cases
        /\ consumed.nonces = [stored.nonces EXCEPT ![wallet] = @ + 1]
    BY <1>4 DEF Good
  <2>2. stored.nonces \in [Wallets -> Nat]
    BY <1>4 DEF Good, IsLedger
  <2> HIDE DEF consumed
  <2>3. consumed.nonces \in [Wallets -> Nat]
    BY <1>5, <2>1, <2>2
  <2>4. IsLedger(consumed)
    BY <1>4, <2>1, <2>3 DEF Good, IsLedger
  <2>5. Good(consumed, orders, confirmed)
    BY <1>4, <2>1, <2>4 DEF Good
  <2>6. Ahead(ledger, consumed)
    BY <1>4, <2>1 DEF Ahead, Onward
  <2> QED BY <2>1, <2>5, <2>6
<1> HIDE DEF consumed
<1>7. ASSUME NEW m, NEW d, Becomes(m, d), m.conversions = stored.conversions,
             calls' = [calls EXCEPT ![c] = Done],
             UNCHANGED <<requests, syncs, outside, crashes>>
      PROVE  Steps
  <2>1. /\ ledger' = m /\ DOMAIN ledger.quotes \subseteq DOMAIN m.quotes
        /\ requests' = requests /\ syncs' = syncs /\ orders' = orders
    BY <1>7 DEF Becomes, Ahead, outside
  <2>2. /\ calls' \in [Calls -> Call]
        /\ \A x \in Calls : calls'[x] = IF x = c THEN Done ELSE calls[x]
    BY <1>1, <1>7 DEF Call
  <2>3. requests' \in [Quotes -> Request] /\ syncs' \in [Syncs -> Sync]
    BY <2>1 DEF ConversionInv, Types
  <2>4. CallsInv'
    <3>1. \A x \in Calls : x \in DOMAIN m.conversions => calls'[x].pc = "done"
      BY <1>4, <1>7, <2>2 DEF ConversionInv, CallsInv, Done
    <3>2. \A x \in Calls : calls'[x].pc = "answer" => x \in orders'
      BY <2>1, <2>2 DEF ConversionInv, CallsInv, Done
    <3>3. \A x \in Calls : calls'[x].pc \in {"verify", "order", "answer"} =>
            calls'[x].quote \in DOMAIN m.quotes
      BY <2>1, <2>2 DEF ConversionInv, CallsInv, Done
    <3> QED BY <2>1, <3>1, <3>2, <3>3 DEF CallsInv
  <2>5. SyncsInv'
    BY <1>4, <1>7, <2>1 DEF ConversionInv, SyncsInv
  <2> QED BY <1>7, <2>2, <2>3, <2>4, <2>5, WritingStep
<1>8. CASE RestartFrom(stored) /\ UNCHANGED outside
  <2>1. \A i \in DOMAIN stored.conversions : calls[i].pc # "new"
    <3>1. DOMAIN ledger.conversions \subseteq Calls
      BY <1>1 DEF Good, IsLedger
    <3> QED BY <1>1, <1>4, <3>1 DEF ConversionInv, CallsInv
  <2>2. Ahead(file, stored)
    BY <1>4, AheadTransitive DEF ConversionInv
  <2> QED BY <1>4, <1>8, <2>1, <2>2, RestartStep
<1>9. CASE /\ \/ Saved(consumed) \/ Saved(stored)
              \/ Unsaved(stored, file) \/ Unsaved(consumed, stored)
           /\ calls' = [calls EXCEPT ![c] = Done]
           /\ UNCHANGED <<requests, syncs, outside, crashes>>
  <2>1. CASE Saved(consumed)
    BY <1>6, <1>7, <1>9, <2>1, SavedBecomes
  <2>2. CASE Saved(stored)
    BY <1>4, <1>7, <1>9, <2>2, SavedBecomes
  <2>3. CASE Unsaved(stored, file)
    <3>1. Write(stored)
      BY <2>3 DEF Write
    <3> QED BY <1>4, <1>7, <1>9, <3>1, WriteBecomes
  <2>4. CASE Unsaved(consumed, stored)
    <3>1. Ahead(stored, consumed)
      BY <1>4, <1>6, AheadSelf
    <3> QED BY <1>4, <1>6, <1>7, <1>9, <2>4, <3>1, UnsavedBecomes
  <2> QED BY <1>9, <2>1, <2>2, <2>3, <2>4
<1> QED BY <1>8, <1>9 DEF Created, stored, consumed, wallet

\* A poll moves on, and the ledger becomes m and the file d.
LEMMA SyncMoves ==
  ASSUME ConversionInv, NEW s \in Syncs, NEW k \in Sync,
         syncs' = [syncs EXCEPT ![s] = k],
         k # Idle => k.id \in DOMAIN ledger.conversions,
         NEW m, NEW d, Becomes(m, d),
         DOMAIN m.conversions = DOMAIN ledger.conversions,
         UNCHANGED <<requests, calls, outside, crashes>>
  PROVE  Steps
<1>1. /\ syncs' \in [Syncs -> Sync]
      /\ \A x \in Syncs : syncs'[x] = IF x = s THEN k ELSE syncs[x]
  BY DEF ConversionInv, Types
<1>2. /\ ledger' = m /\ DOMAIN ledger.quotes \subseteq DOMAIN m.quotes
      /\ requests' = requests /\ calls' = calls /\ orders' = orders
  BY DEF Becomes, Ahead, outside
<1>3. requests' \in [Quotes -> Request] /\ calls' \in [Calls -> Call]
  BY <1>2 DEF ConversionInv, Types
<1>4. CallsInv'
  BY <1>2 DEF ConversionInv, CallsInv
<1>5. SyncsInv'
  BY <1>1, <1>2 DEF ConversionInv, SyncsInv
<1> QED BY <1>1, <1>3, <1>4, <1>5, WritingStep

\* The same, when nothing is written.
LEMMA QuietSyncMoves ==
  ASSUME ConversionInv, NoWrite, NEW s \in Syncs, NEW k \in Sync,
         syncs' = [syncs EXCEPT ![s] = k],
         k # Idle => k.id \in DOMAIN ledger.conversions,
         UNCHANGED <<requests, calls, outside, crashes>>
  PROVE  Steps
  BY QuietBecomes, SyncMoves

\* What is known of a poll under way.
LEMMA PollCases ==
  ASSUME ConversionInv, NEW s \in Syncs
  PROVE  /\ syncs[s] \in Sync /\ Good(ledger, orders, confirmed)
         /\ syncs[s].pc # "idle" =>
              /\ syncs[s].id \in DOMAIN ledger.conversions
              /\ syncs[s].id \in orders
              /\ syncs[s].id \in Calls
              /\ ledger.conversions[syncs[s].id].status \in Live
<1>1. syncs[s] \in Sync /\ Good(ledger, orders, confirmed)
  BY DEF ConversionInv, Types
<1>2. syncs[s].pc # "idle" => syncs[s].id \in DOMAIN ledger.conversions
  BY <1>1, SyncCases DEF ConversionInv, SyncsInv
<1>3. DOMAIN ledger.conversions \subseteq Calls
  BY <1>1 DEF Good, IsLedger
<1> QED BY <1>1, <1>2, <1>3 DEF Good

LEMMA AnswerType ==
  ASSUME NEW answer \in Answer
  PROVE  answer.status \in Told /\ answer.hash \in Transactions \cup {NoHash}
  BY DEF Answer, Told, Status

LEMMA AfterAdvanceType ==
  ASSUME NEW i \in Calls, NEW answer \in Answer
  PROVE  /\ AfterAdvance(i, answer) \in Sync
         /\ AfterAdvance(i, answer) # Idle => AfterAdvance(i, answer).id = i
  BY AnswerType DEF AfterAdvance, Sync, Idle

LEMMA IdleType == Idle \in Sync
  BY DEF Sync

LEMMA QuietSyncSteps ==
  ASSUME ConversionInv, NEW s \in Syncs,
         \/ \E i \in DOMAIN ledger.conversions : Asked(s, i)
         \/ GivenUp(s)
         \/ \E answer \in Answer : Same(s, answer)
  PROVE  Steps
<1>1. CASE \E i \in DOMAIN ledger.conversions : Asked(s, i)
  <2>1. PICK i \in DOMAIN ledger.conversions : Asked(s, i)
    BY <1>1
  <2> DEFINE k == [pc |-> "asked", id |-> i, seen |-> ledger.conversions[i].status]
  <2>2. i \in Calls /\ ledger.conversions[i].status \in Status
    BY DEF ConversionInv, Good, IsLedger, Live
  <2>3. k \in Sync /\ k.id = i
    BY <2>2 DEF Sync
  <2>4. syncs' = [syncs EXCEPT ![s] = k] /\ NoWrite
        /\ UNCHANGED <<requests, calls, outside, crashes>>
    BY <2>1 DEF Asked
  <2> HIDE DEF k
  <2> QED BY <2>3, <2>4, QuietSyncMoves
<1>2. CASE GivenUp(s)
  BY <1>2, IdleType, QuietSyncMoves DEF GivenUp
<1>3. CASE \E answer \in Answer : Same(s, answer)
  <2>1. PICK answer \in Answer : Same(s, answer)
    BY <1>3
  <2>2. /\ syncs[s].pc = "asked"
        /\ syncs' = [syncs EXCEPT ![s] = AfterAdvance(syncs[s].id, answer)]
        /\ NoWrite /\ UNCHANGED <<requests, calls, outside, crashes>>
    BY <2>1 DEF Same
  <2>3. syncs[s].id \in DOMAIN ledger.conversions /\ syncs[s].id \in Calls
    BY <2>2, PollCases
  <2>4. /\ AfterAdvance(syncs[s].id, answer) \in Sync
        /\ AfterAdvance(syncs[s].id, answer) # Idle =>
             AfterAdvance(syncs[s].id, answer).id = syncs[s].id
    BY <2>3, AfterAdvanceType
  <2> QED BY <2>2, <2>3, <2>4, QuietSyncMoves
<1> QED BY <1>1, <1>2, <1>3

LEMMA AdvancedSteps ==
  ASSUME ConversionInv, NEW s \in Syncs, NEW answer \in Answer, Advanced(s, answer)
  PROVE  Steps
<1> DEFINE k == syncs[s]
           now == ledger.conversions[k.id].status
           path == Path(k.seen, answer.status)
           n == Reached(path, now)
           after(m) == WithStatus(k.id, path[m])
<1>1. k.pc = "asked"
  BY DEF Advanced
<1>2. /\ k \in Sync /\ k.id \in DOMAIN ledger.conversions /\ k.id \in Calls
      /\ now \in Live /\ Good(ledger, orders, confirmed)
      /\ k.seen \in Status /\ answer.status \in Told
  BY <1>1, PollCases, SyncCases, AnswerType
<1>3. /\ n \in 0 .. Len(path)
      /\ \A m \in 1 .. n : path[m] \in Told /\ path[m] \in Later(now)
  BY <1>2, ReachedType
<1>4. /\ \/ /\ IF n = 0 THEN NoWrite ELSE Saved(after(n))
            /\ syncs' = [syncs EXCEPT ![s] =
                 IF n = Len(path) THEN AfterAdvance(k.id, answer) ELSE Idle]
            /\ UNCHANGED <<requests, calls, crashes>>
         \/ /\ \E m \in 1 .. n :
                 Unsaved(after(m), IF m = 1 THEN file ELSE after(m - 1))
            /\ syncs' = [syncs EXCEPT ![s] = Idle]
            /\ UNCHANGED <<requests, calls, crashes>>
         \/ \E m \in 1 .. (n - 1) : RestartFrom(after(m))
      /\ UNCHANGED outside
  BY DEF Advanced
<1>5. Len(path) \in 0 .. 3
  BY <1>2, PathType
<1> DEFINE next == IF n = Len(path) THEN AfterAdvance(k.id, answer) ELSE Idle
<1>6. next \in Sync /\ (next # Idle => next.id \in DOMAIN ledger.conversions)
  BY <1>1, <1>2, AfterAdvanceType, IdleType
<1>7. \A m \in 2 .. n : path[m] \in transitions[path[m - 1]]
  <2>1. Stops(path, now, n)
    <3>1. \E x \in 0 .. Len(path) : Stops(path, now, x)
      BY <1>5, StopsSomewhere
    <3>2. n = CHOOSE x \in 0 .. Len(path) : Stops(path, now, x)
      BY DEF Reached, Stops
    <3> HIDE DEF n, path
    <3> QED BY <3>1, <3>2
  <2> HIDE DEF n, path
  <2>2. \A m \in 2 .. n : m \in 1 .. n /\ m # 1
    BY <1>3, <1>5
  <2> QED BY <2>1, <2>2 DEF Stops
<1> HIDE DEF n, path, next, k
<1>8. ASSUME NEW m \in 1 .. n
      PROVE  /\ Good(after(m), orders, confirmed) /\ Ahead(ledger, after(m))
             /\ DOMAIN after(m).conversions = DOMAIN ledger.conversions
  <2>1. path[m] \in Told /\ path[m] \in Later(now)
    BY <1>3, <1>8
  <2> QED BY <1>2, <2>1, StatusGood DEF WithStatus
<1>9. CASE NoWrite /\ syncs' = [syncs EXCEPT ![s] = next]
           /\ UNCHANGED <<requests, calls, outside, crashes>>
  BY <1>6, <1>9, QuietSyncMoves
<1>10. CASE n # 0 /\ Saved(after(n)) /\ syncs' = [syncs EXCEPT ![s] = next]
            /\ UNCHANGED <<requests, calls, outside, crashes>>
  <2> DEFINE l == after(n)
  <2>1. n \in 1 .. n
    BY <1>3, <1>5, <1>10
  <2>2. /\ Good(l, orders, confirmed) /\ Ahead(ledger, l)
        /\ DOMAIN l.conversions = DOMAIN ledger.conversions
    BY <1>8, <2>1
  <2>3. Saved(l)
    BY <1>10
  <2> HIDE DEF l
  <2>4. Becomes(l, l)
    BY <2>2, <2>3, SavedBecomes
  <2> QED BY <1>6, <1>10, <2>2, <2>4, SyncMoves
<1>11. CASE /\ \E m \in 1 .. n :
                 Unsaved(after(m), IF m = 1 THEN file ELSE after(m - 1))
            /\ syncs' = [syncs EXCEPT ![s] = Idle]
            /\ UNCHANGED <<requests, calls, outside, crashes>>
  <2>1. PICK m \in 1 .. n : Unsaved(after(m), IF m = 1 THEN file ELSE after(m - 1))
    BY <1>11
  <2> DEFINE l == after(m)
             d == IF m = 1 THEN file ELSE after(m - 1)
  <2>2. /\ Good(l, orders, confirmed) /\ Ahead(ledger, l)
        /\ DOMAIN l.conversions = DOMAIN ledger.conversions
    BY <1>8
  <2>3. /\ Good(d, orders, confirmed) /\ (Ahead(ledger, d) \/ d = file) /\ Ahead(d, l)
    <3>1. CASE m = 1
      BY <2>2, <3>1, AheadTransitive DEF ConversionInv
    <3>2. CASE m # 1
      <4> DEFINE b == after(m - 1)
      <4>1. m \in 2 .. n /\ m - 1 \in 1 .. n
        BY <1>3, <1>5, <3>2
      <4>2. /\ Good(b, orders, confirmed) /\ Ahead(ledger, b)
            /\ DOMAIN b.conversions = DOMAIN ledger.conversions
        BY <1>8, <4>1
      <4>3. /\ path[m] \in Told /\ path[m - 1] \in Live
            /\ path[m] \in transitions[path[m - 1]]
        BY <1>3, <1>7, <4>1 DEF Told, Live
      <4>4. path[m] \in Later(path[m - 1])
        BY <4>3, TransitionIsLater
      <4>5. /\ l.quotes = b.quotes
            /\ \A j \in DOMAIN ledger.conversions :
                 j # k.id => l.conversions[j] = b.conversions[j]
            /\ l.conversions[k.id].status = path[m]
            /\ b.conversions[k.id].status = path[m - 1]
        BY <1>2, ledger.conversions[k.id] \in Conversion
           DEF WithStatus, Good, IsLedger, Conversion
      <4>6. \A j \in DOMAIN b.conversions :
              b.conversions[j].status \in Later(b.conversions[j].status)
        BY <4>2, LaterSelf DEF Good
      <4> HIDE DEF b
      <4>7. Ahead(b, l)
        <5> HIDE DEF l
        <5> QED BY <2>2, <4>2, <4>4, <4>5, <4>6 DEF Ahead, Onward
      <4> QED BY <3>2, <4>2, <4>7 DEF b
    <3> QED BY <3>1, <3>2
  <2>4. Unsaved(l, d)
    BY <2>1
  <2> HIDE DEF l, d
  <2>5. Becomes(l, d)
    BY <2>2, <2>3, <2>4, UnsavedBecomes
  <2> QED BY <1>11, <2>2, <2>5, IdleType, SyncMoves
<1>12. CASE (\E m \in 1 .. (n - 1) : RestartFrom(after(m))) /\ UNCHANGED outside
  <2>1. PICK m \in 1 .. (n - 1) : RestartFrom(after(m))
    BY <1>12
  <2> DEFINE l == after(m)
  <2>2. m \in 1 .. n
    BY <1>3, <1>5
  <2>3. /\ Good(l, orders, confirmed) /\ Ahead(ledger, l)
        /\ DOMAIN l.conversions = DOMAIN ledger.conversions
    BY <1>8, <2>2
  <2>4. RestartFrom(l)
    BY <2>1
  <2> HIDE DEF l
  <2>5. \A i \in DOMAIN l.conversions : calls[i].pc # "new"
    <3>1. DOMAIN ledger.conversions \subseteq Calls
      BY <1>2 DEF Good, IsLedger
    <3> QED BY <2>3, <3>1 DEF ConversionInv, CallsInv
  <2>6. Ahead(file, l)
    BY <2>3, AheadTransitive DEF ConversionInv
  <2> QED BY <1>12, <2>3, <2>4, <2>5, <2>6, RestartStep
<1>13. n = 0 \/ n # 0
  OBVIOUS
<1> QED BY <1>4, <1>9, <1>10, <1>11, <1>12, <1>13 DEF next

LEMMA SettledSteps == ASSUME ConversionInv, NEW s \in Syncs, Settled(s) PROVE Steps
<1> DEFINE k == syncs[s]
           quote == ledger.conversions[k.id].quote
           l == WithSettlement(k.id, k.hash)
<1>1. /\ k.pc = "verify" /\ Verified(k.hash, quote)
      /\ \/ ledger.conversions[k.id].status = "settling_base" /\ Write(l)
         \/ NoWrite
      /\ syncs' = [syncs EXCEPT ![s] = Idle]
      /\ UNCHANGED <<requests, calls, outside, crashes>>
  BY DEF Settled
<1>2. /\ k.id \in DOMAIN ledger.conversions /\ Good(ledger, orders, confirmed)
      /\ k.hash \in Transactions
  BY <1>1, PollCases, SyncCases
<1>3. CASE ledger.conversions[k.id].status = "settling_base" /\ Write(l)
  <2>1. /\ Good(l, orders, confirmed) /\ Ahead(ledger, l)
        /\ DOMAIN l.conversions = DOMAIN ledger.conversions
    <3>1. Settles(ledger, confirmed, k.id, k.hash)
      BY <1>1, <1>2, <1>3 DEF Verified, Settles
    <3>2. l = Completed(ledger, k.id, k.hash)
      BY DEF WithSettlement, Completed
    <3> HIDE DEF k, l
    <3> QED BY <1>2, <3>1, <3>2, SettlementGood
  <2> HIDE DEF l
  <2>2. Becomes(l, l) \/ Becomes(l, file)
    BY <1>3, <2>1, WriteBecomes
  <2> QED BY <1>1, <2>1, <2>2, IdleType, SyncMoves
<1>4. CASE NoWrite
  BY <1>1, <1>4, IdleType, QuietSyncMoves
<1> QED BY <1>1, <1>3, <1>4

LEMMA ConfirmedSteps ==
  ASSUME ConversionInv, NEW hash \in Transactions, Confirmed(hash)
  PROVE  Steps
<1>1. /\ ledger' = ledger /\ file' = file /\ failures' = failures
      /\ confirmed' = confirmed \cup {hash}
      /\ UNCHANGED <<requests, calls, syncs, orders, crashes>>
  BY DEF Confirmed, NoWrite
<1>2. Types' /\ CallsInv' /\ SyncsInv'
  BY <1>1 DEF ConversionInv, Types, CallsInv, SyncsInv
<1>3. Good(ledger, orders, confirmed') /\ Good(file, orders, confirmed')
  <2>1. confirmed \subseteq confirmed'
    BY <1>1
  <2> QED BY <2>1, GoodGrows DEF ConversionInv
<1>4. Ahead(file, ledger) /\ Ahead(file, file) /\ Ahead(ledger, ledger)
  BY AheadSelf DEF ConversionInv
<1> QED BY <1>1, <1>2, <1>3, <1>4 DEF Steps, ConversionInv

-----------------------------------------------------------------------------
\* The specification keeps the invariant.

LEMMA InitInv == Init => ConversionInv
<1> SUFFICES ASSUME Init PROVE ConversionInv
  OBVIOUS
<1>1. DOMAIN << >> = {}
  OBVIOUS
<1>2. \A S : << >> \in [DOMAIN << >> -> S]
  BY <1>1
<1>3. /\ DOMAIN ledger = {"conversions", "quotes", "cases", "nonces"}
      /\ ledger.conversions = << >> /\ ledger.quotes = << >> /\ ledger.cases = {}
      /\ ledger.nonces = [w \in Wallets |-> 0] /\ file = ledger
      /\ orders = {} /\ confirmed = {}
  BY DEF Init
<1>4. Good(ledger, orders, confirmed)
  <2>1. IsLedger(ledger)
    BY <1>1, <1>2, <1>3 DEF IsLedger
  <2>2. Keyed(ledger.quotes) /\ Keyed(ledger.conversions)
    BY <1>1, <1>3 DEF Keyed
  <2> QED BY <1>1, <1>3, <2>1, <2>2 DEF Good
<1>5. /\ requests \in [Quotes -> Request] /\ calls \in [Calls -> Call]
      /\ syncs \in [Syncs -> Sync]
      /\ crashes \in 0 .. MaxCrashes /\ failures \in 0 .. MaxFailures
      /\ \A c \in Calls : calls[c].pc = "new"
      /\ \A s \in Syncs : syncs[s] = Idle
  BY ConversionAssumption DEF Init, Request, Call, Sync
<1>6. Types
  BY <1>3, <1>5 DEF Types
<1>7. CallsInv
  BY <1>1, <1>3, <1>5 DEF CallsInv
<1>8. SyncsInv
  BY <1>5 DEF SyncsInv
<1>9. Ahead(file, ledger)
  BY <1>3, <1>4, AheadSelf
<1> QED BY <1>3, <1>4, <1>6, <1>7, <1>8, <1>9 DEF ConversionInv

LEMMA StepInv == ConversionInv /\ [Next]_vars => Steps
<1> SUFFICES ASSUME ConversionInv, [Next]_vars PROVE Steps
  OBVIOUS
<1>1. CASE UNCHANGED vars
  <2>1. Ahead(ledger, ledger) /\ Ahead(file, file)
    BY AheadSelf DEF ConversionInv
  <2>2. /\ ledger' = ledger /\ file' = file /\ requests' = requests /\ calls' = calls
        /\ syncs' = syncs /\ orders' = orders /\ confirmed' = confirmed
        /\ crashes' = crashes /\ failures' = failures
    BY <1>1 DEF vars
  <2>3. ConversionInv'
    BY <2>2 DEF ConversionInv, Types, CallsInv, SyncsInv
  <2> QED BY <2>1, <2>2, <2>3 DEF Steps
<1>2. ASSUME NEW q \in Quotes,
             Assisted(q) \/ QuoteKnown(q) \/ QuoteAsked(q) \/ Quoted(q)
      PROVE  Steps
  BY <1>2, QuoteSteps
<1>3. ASSUME NEW c \in Calls,
             \/ Known(c) \/ Begun(c) \/ Signed(c) \/ ProviderOrders(c)
             \/ Unanswered(c) \/ Conflict(c) \/ Created(c)
      PROVE  Steps
  BY <1>3, QuietCallSteps, OrderSteps, CreatedSteps
<1>4. ASSUME NEW s \in Syncs,
             \/ \E i \in DOMAIN ledger.conversions : Asked(s, i)
             \/ \E answer \in Answer : Same(s, answer) \/ Advanced(s, answer)
             \/ GivenUp(s) \/ Settled(s)
      PROVE  Steps
  BY <1>4, QuietSyncSteps, AdvancedSteps, SettledSteps
<1>5. ASSUME NEW hash \in Transactions, Confirmed(hash)
      PROVE  Steps
  BY <1>5, ConfirmedSteps
<1>6. CASE Crash
  BY <1>6, CrashSteps
<1> QED BY <1>1, <1>2, <1>3, <1>4, <1>5, <1>6 DEF Next

LEMMA AlwaysInv == Spec => []ConversionInv
<1>1. ConversionInv /\ [Next]_vars => ConversionInv'
  BY StepInv DEF Steps
<1> QED BY InitInv, <1>1, PTL DEF Spec

-----------------------------------------------------------------------------
\* Every variable keeps its type: a conversion, a quote and a call have the
\* fields the ledger reads, and a poll under way is of a conversion and an
\* order that are there (xmrConversion.ts, xmrConversionService.ts).
THEOREM TypeCorrect == Spec => []TypeOK
<1>1. ConversionInv => TypeOK
  <2> SUFFICES ASSUME ConversionInv PROVE TypeOK
    OBVIOUS
  <2>1. \A s \in Syncs :
          \/ syncs[s] = Idle
          \/ /\ syncs[s].id \in DOMAIN ledger.conversions \cap orders
             /\ syncs[s].pc \in {"asked", "verify"}
             /\ syncs[s].pc = "verify" => syncs[s].hash \in Transactions
    BY PollCases, SyncCases
  <2>2. IsLedger(ledger) /\ IsLedger(file)
    BY DEF ConversionInv, Good
  <2> QED BY <2>1, <2>2 DEF ConversionInv, Types, TypeOK
<1> QED BY <1>1, AlwaysInv, PTL

\* In memory and on disk, a conversion is completed only with a settlement that
\* the verifier (baseSettlementVerifier.ts) and recordVerifiedSettlement
\* (xmrConversion.ts) would accept for its quote: on Base, succeeded, confirmed
\* and of the net amount at least, whatever statuses and hashes the provider
\* answers, for any number of polls, restarts and writes that fail.
THEOREM ConversionsPaid == Spec => []CompletedIsPaid
<1>1. ConversionInv => CompletedIsPaid
  BY DEF ConversionInv, Good, Paid, CompletedIsPaid
<1> QED BY <1>1, AlwaysInv, PTL

\* A key has one quote and one conversion, in memory and on disk, of an order
\* the provider knows and a quote held with it (createQuote and
\* createConversion, xmrConversion.ts), however many calls overlap.
THEOREM OnePerKey == Spec => []OneConversionPerKey
<1>1. ConversionInv => OneConversionPerKey
  BY DEF ConversionInv, Good, Keyed, OneConversionPerKey
<1> QED BY <1>1, AlwaysInv, PTL

\* On disk no conversion is forgotten or goes back, and in memory none but by a
\* restart, and then to the disk at most (transition and persist,
\* xmrConversion.ts, and advance, xmrConversionService.ts): not by a late
\* answer, a restart between two writes of one path, nor a write that fails.
THEOREM OnlyAdvances == Spec => StatusOnlyAdvances
<1> DEFINE Forward ==
      /\ Onward(file, file')
      /\ Onward(IF crashes' = crashes THEN ledger ELSE file, ledger')
<1>1. ConversionInv /\ [Next]_vars => [Forward]_vars
  BY StepInv DEF Steps, Ahead
<1> HIDE DEF Forward
<1>2. Spec => [][Forward]_vars
  BY <1>1, AlwaysInv, PTL DEF Spec
<1> QED BY <1>2 DEF StatusOnlyAdvances, Forward
=============================================================================
