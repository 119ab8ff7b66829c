---------------------- MODULE SponsorshipGateway_proofs ----------------------
(***************************************************************************)
(* What submitRelay and its ledger guarantee for any number of calls, keys *)
(* and restarts, any limits and any clock: the types, that nothing is sent *)
(* before its reservation is on disk, that one key gets one answer, and    *)
(* that the limits hold.                                                   *)
(*                                                                         *)
(* The invariant follows a key through the map and the file.  While a call *)
(* awaits the relay, both hold its reservation, without a task; after its  *)
(* commit both hold the task until a day has passed.  A reservation cannot *)
(* be dropped under a call in flight because no call lasts as long as a    *)
(* day, and that is also why a key reserved again is reserved SafeDay      *)
(* later at least.  Of a call it needs only its view: whether it is in     *)
(* flight or got a task, and when the transaction it stands for was begun. *)
(*                                                                         *)
(* The limits are about what was sent, and reserve counts reservations.    *)
(* Between the two stand the marks: one for every transaction that counts, *)
(* and one for every call about to send.  The ledger still has a mark's    *)
(* reservation as long as the mark is younger than a day, so a call sees   *)
(* all that was sent in any window that it is in itself.                   *)
(***************************************************************************)
EXTENDS SponsorshipGateway, SequenceTheorems, FiniteSetTheorems, TLAPS

Entry == [stage : {"out", "flight", "got"}, key : Keys, birth : Nat, task : Nat]

Out(key)              == [stage |-> "out", key |-> key, birth |-> 0, task |-> 0]
Flight(key, birth)    == [stage |-> "flight", key |-> key, birth |-> birth, task |-> 0]
Owner(key, birth, i)  == [stage |-> "got", key |-> key, birth |-> birth, task |-> i]

\* What the proof looks at of a call k when the provider has the tasks ts.
Seen(k, ts) ==
  IF k.pc \in {"relay", "answer"} THEN Flight(k.key, k.started)
  ELSE IF k.pc = "done" /\ k.task # 0 THEN Owner(k.key, ts[k.task].createdAt, k.task)
  ELSE Out(k.key)

view == [c \in Calls |-> Seen(calls[c], tasks)]

Apart(s, t) == s >= t + SafeDay \/ t >= s + SafeDay

\* No call is older than MaxLatency.
Clocks ==
  \A c \in Calls :
    calls[c].pc \in Waiting =>
      calls[c].started <= now /\ now <= calls[c].started + MaxLatency

\* The task of a call is one of the provider's; a call that awaits an answer
\* awaits that of its own task.
Numbered(k, ts) ==
  /\ k.task # 0 => k.pc \in {"answer", "done"} /\ k.task \in 1 .. Len(ts)
  /\ k.pc = "answer" => k.task # 0 /\ ts[k.task].createdAt = k.started

Numbers == \A c \in Calls : Numbered(calls[c], tasks)

\* A call in flight holds the reservation of its key.
Flying(r, v) ==
  \A c \in Calls :
    v[c].stage = "flight" =>
      /\ v[c].key \in DOMAIN r
      /\ r[v[c].key].createdAt = v[c].birth
      /\ r[v[c].key].task = 0

\* A task that was answered is kept for a day.
Kept(r, v, t) ==
  \A c \in Calls :
    v[c].stage = "got" =>
      \/ t >= v[c].birth + Day
      \/ /\ v[c].key \in DOMAIN r
         /\ r[v[c].key].createdAt = v[c].birth
         /\ r[v[c].key].task = v[c].task

\* A task in the ledger was answered to somebody.
Known(r, v) ==
  \A k \in DOMAIN r :
    r[k].task # 0 =>
      \E c \in Calls : v[c].stage = "got" /\ v[c].key = k /\ v[c].task = r[k].task

LedgerInv(r, v, t) == IsLedger(r) /\ Flying(r, v) /\ Kept(r, v, t) /\ Known(r, v)

\* Two calls with one key share a task or are far apart; in flight there is
\* one at a time.
Pairs(v) ==
  \A c, d \in Calls :
    /\ c # d
    /\ v[c].stage # "out" /\ v[d].stage # "out"
    /\ v[c].key = v[d].key
    => /\ ~(v[c].stage = "flight" /\ v[d].stage = "flight")
       /\ \/ v[c].stage = "got" /\ v[d].stage = "got" /\ v[c].task = v[d].task
          \/ Apart(v[c].birth, v[d].birth)

\* A got entry has a task.
Views(v) ==
  /\ v \in [Calls -> Entry]
  /\ \A c \in Calls : v[c].stage = "got" => v[c].task # 0

GatewayInv ==
  /\ TypeOK /\ Clocks /\ Numbers
  /\ Pairs(view)
  /\ LedgerInv(reservations, view, now)
  /\ LedgerInv(file, view, now)

-----------------------------------------------------------------------------
\* The ledger, whatever the calls are doing.

LEMMA Limits ==
  /\ Hour \in Nat /\ Day \in Nat /\ MaxLatency \in Nat
  /\ SafeDay \in Nat /\ SafeDay > 0 /\ SafeDay = Day - MaxLatency
BY GatewayAssumption DEF GatewayAssumption, SafeDay

LEMMA LedgerTyped ==
  ASSUME NEW r, IsLedger(r), NEW k \in DOMAIN r
  PROVE  /\ k \in Keys /\ r[k] \in Reservation
         /\ r[k].createdAt \in Nat /\ r[k].task \in Nat
<1>1. k \in Keys /\ r[k] \in Reservation
  BY DEF IsLedger
<1> QED BY <1>1 DEF Reservation

\* An entry of a ledger that goes on being a ledger without some keys.
LEMMA RestrictIsLedger ==
  ASSUME NEW r, IsLedger(r), NEW S \in SUBSET DOMAIN r
  PROVE  /\ IsLedger(Restrict(r, S)) /\ DOMAIN Restrict(r, S) = S
         /\ \A k \in S : Restrict(r, S)[k] = r[k]
BY DEF IsLedger, Restrict

LEMMA WithIsLedger ==
  ASSUME NEW r, IsLedger(r), NEW k \in Keys, NEW x \in Reservation
  PROVE  /\ IsLedger(With(r, k, x)) /\ DOMAIN With(r, k, x) = DOMAIN r \cup {k}
         /\ With(r, k, x)[k] = x
         /\ \A j \in DOMAIN r : j # k => With(r, k, x)[j] = r[j]
BY DEF IsLedger, With

\* Time passes.
LEMMA Later ==
  ASSUME NEW r, NEW v, Views(v), NEW t \in Nat, LedgerInv(r, v, t),
         NEW u \in Nat, u >= t
  PROVE  LedgerInv(r, v, u)
<1>1. \A c \in Calls : v[c].birth \in Nat
  BY DEF Views, Entry
<1>2. Kept(r, v, u)
  BY <1>1, Limits DEF LedgerInv, Kept
<1> QED BY <1>2 DEF LedgerInv

\* The reservations of another day are dropped: no call in flight is so old.
LEMMA Dropped ==
  ASSUME NEW r, NEW v, Views(v), NEW t \in Nat, LedgerInv(r, v, t),
         NEW s \in Nat, s <= t,
         \A c \in Calls : v[c].stage = "flight" => t <= v[c].birth + MaxLatency
  PROVE  LedgerInv(Live(r, s), v, t)
<1> DEFINE S == {k \in DOMAIN r : r[k].createdAt > s - Day}
<1>1. IsLedger(r) /\ Flying(r, v) /\ Kept(r, v, t) /\ Known(r, v)
  BY DEF LedgerInv
<1>2. /\ IsLedger(Live(r, s)) /\ DOMAIN Live(r, s) = S
      /\ \A k \in S : Live(r, s)[k] = r[k]
  BY <1>1, RestrictIsLedger, S \in SUBSET DOMAIN r DEF Live
<1>3. \A c \in Calls : v[c].birth \in Nat
  BY DEF Views, Entry
<1>4. Flying(Live(r, s), v)
  <2>1. ASSUME NEW c \in Calls, v[c].stage = "flight"
        PROVE  /\ v[c].key \in DOMAIN r /\ r[v[c].key].createdAt = v[c].birth
               /\ r[v[c].key].task = 0 /\ v[c].birth > s - Day
    BY <2>1, <1>1, <1>3, Limits DEF Flying
  <2> QED BY <2>1, <1>2 DEF Flying
<1>5. Kept(Live(r, s), v, t)
  <2>1. ASSUME NEW c \in Calls, v[c].stage = "got", ~(t >= v[c].birth + Day)
        PROVE  /\ v[c].key \in DOMAIN r /\ r[v[c].key].createdAt = v[c].birth
               /\ r[v[c].key].task = v[c].task /\ v[c].birth > s - Day
    BY <2>1, <1>1, <1>3, Limits DEF Kept
  <2> QED BY <2>1, <1>2 DEF Kept
<1>6. Known(Live(r, s), v)
  BY <1>1, <1>2 DEF Known
<1> QED BY <1>2, <1>4, <1>5, <1>6 DEF LedgerInv

\* A key that is free is reserved.
LEMMA Held ==
  ASSUME NEW r, NEW v, NEW t, LedgerInv(r, v, t),
         NEW k \in Keys, k \notin DOMAIN r,
         NEW x \in Reservation, x.task = 0
  PROVE  LedgerInv(With(r, k, x), v, t)
<1> DEFINE w == With(r, k, x)
<1>1. IsLedger(r) /\ Flying(r, v) /\ Kept(r, v, t) /\ Known(r, v)
  BY DEF LedgerInv
<1>2. /\ IsLedger(w) /\ DOMAIN w = DOMAIN r \cup {k}
      /\ w[k] = x /\ \A j \in DOMAIN r : w[j] = r[j]
  BY <1>1, WithIsLedger
<1> HIDE DEF w
<1>3. Flying(w, v)
  BY <1>1, <1>2 DEF Flying
<1>4. Kept(w, v, t)
  BY <1>1, <1>2 DEF Kept
<1>5. Known(w, v)
  BY <1>1, <1>2 DEF Known
<1> QED BY <1>2, <1>3, <1>4, <1>5 DEF LedgerInv, w

\* The call c that reserved it sets out.
LEMMA SetsOut ==
  ASSUME NEW r, NEW v, Views(v), NEW t, LedgerInv(r, v, t),
         NEW c \in Calls, v[c].stage = "out",
         NEW s \in Nat, v[c].key \notin DOMAIN r,
         NEW x \in Reservation, x.task = 0, x.createdAt = s
  PROVE  LedgerInv(With(r, v[c].key, x), [v EXCEPT ![c] = Flight(v[c].key, s)], t)
<1> DEFINE k == v[c].key
           w == With(r, k, x)
           z == [v EXCEPT ![c] = Flight(k, s)]
<1>1. k \in Keys
  BY DEF Views, Entry
<1>2. LedgerInv(w, v, t)
  BY <1>1, Held
<1>3. w[k] = x /\ k \in DOMAIN w
  BY DEF With
<1>4. /\ z[c].stage = "flight" /\ z[c].key = k /\ z[c].birth = s
      /\ \A d \in Calls : d # c => z[d] = v[d]
  BY DEF Views, Flight
<1> HIDE DEF k, w, z
<1>5. Flying(w, z)
  BY <1>2, <1>3, <1>4 DEF LedgerInv, Flying
<1>6. Kept(w, z, t)
  BY <1>2, <1>4 DEF LedgerInv, Kept
<1>7. Known(w, z)
  <2>1. \A d \in Calls : v[d].stage = "got" => d # c
    OBVIOUS
  <2> QED BY <1>2, <1>4, <2>1 DEF LedgerInv, Known
<1> QED BY <1>2, <1>5, <1>6, <1>7 DEF LedgerInv, k, w, z

\* Its key had been answered SafeDay before, or never.
LEMMA SetsOutApart ==
  ASSUME NEW r, NEW v, Views(v), Pairs(v), NEW t \in Nat, LedgerInv(r, v, t),
         NEW c \in Calls, v[c].stage = "out",
         NEW s \in Nat, t <= s + MaxLatency, v[c].key \notin DOMAIN r
  PROVE  Pairs([v EXCEPT ![c] = Flight(v[c].key, s)])
<1> DEFINE z == [v EXCEPT ![c] = Flight(v[c].key, s)]
<1>1. /\ z[c].stage = "flight" /\ z[c].key = v[c].key /\ z[c].birth = s
      /\ \A d \in Calls : d # c => z[d] = v[d]
  BY DEF Views, Flight
<1>2. ASSUME NEW d \in Calls, d # c, v[d].stage # "out", v[d].key = v[c].key
      PROVE  v[d].stage = "got" /\ v[d].birth \in Nat /\ s >= v[d].birth + SafeDay
  <2>1. v[d].stage \in {"flight", "got"} /\ v[d].birth \in Nat
    BY <1>2 DEF Views, Entry
  <2>2. v[d].stage # "flight"
    BY <1>2 DEF LedgerInv, Flying
  <2>3. t >= v[d].birth + Day
    BY <1>2, <2>1, <2>2 DEF LedgerInv, Kept
  <2> QED BY <2>1, <2>2, <2>3, Limits
<1> HIDE DEF z
<1>3. Pairs(z)
  BY <1>1, <1>2 DEF Pairs, Apart
<1> QED BY <1>3 DEF z

\* A call that was in flight owns its key alone: whoever got a task for it got
\* it a day before.
LEMMA Alone ==
  ASSUME NEW r, NEW v, Views(v), Pairs(v), NEW t, LedgerInv(r, v, t),
         NEW c \in Calls, v[c].stage = "flight",
         NEW d \in Calls, d # c, v[d].key = v[c].key
  PROVE  /\ v[d].stage # "flight"
         /\ v[d].stage = "got" => t >= v[d].birth + Day
<1>1. v[d].stage # "flight"
  BY DEF Pairs
<1>2. r[v[c].key].task = 0
  BY DEF LedgerInv, Flying
<1>3. v[d].stage = "got" => v[d].task # 0
  BY DEF Views
<1>4. v[d].stage = "got" => t >= v[d].birth + Day
  BY <1>2, <1>3 DEF LedgerInv, Kept
<1> QED BY <1>1, <1>4

LEMMA Arrives ==
  ASSUME NEW r, NEW v, Views(v), Pairs(v), NEW t, LedgerInv(r, v, t),
         NEW c \in Calls, v[c].stage = "flight", NEW i \in Nat, i # 0
  PROVE  LedgerInv([r EXCEPT ![v[c].key].task = i],
                   [v EXCEPT ![c] = Owner(v[c].key, v[c].birth, i)], t)
<1> DEFINE k == v[c].key
           w == [r EXCEPT ![k].task = i]
           z == [v EXCEPT ![c] = Owner(k, v[c].birth, i)]
<1>1. k \in DOMAIN r /\ r[k].createdAt = v[c].birth /\ r \in [DOMAIN r -> Reservation]
      /\ DOMAIN r \subseteq Keys
  BY DEF LedgerInv, Flying, IsLedger
<1>2. /\ IsLedger(w) /\ DOMAIN w = DOMAIN r
      /\ w[k].createdAt = v[c].birth /\ w[k].task = i
      /\ \A j \in DOMAIN r : j # k => w[j] = r[j]
  BY <1>1 DEF IsLedger, Reservation
<1>3. /\ z[c].stage = "got" /\ z[c].key = k /\ z[c].birth = v[c].birth /\ z[c].task = i
      /\ \A d \in Calls : d # c => z[d] = v[d]
  BY DEF Views, Owner
<1>4. \A d \in Calls : d # c /\ v[d].key = k =>
        v[d].stage # "flight" /\ (v[d].stage = "got" => t >= v[d].birth + Day)
  BY Alone
<1> HIDE DEF k, w, z
<1>5. Flying(w, z)
  BY <1>2, <1>3, <1>4 DEF LedgerInv, Flying
<1>6. Kept(w, z, t)
  BY <1>1, <1>2, <1>3, <1>4 DEF LedgerInv, Kept
<1>7. Known(w, z)
  <2>1. ASSUME NEW j \in DOMAIN r, j # k, r[j].task # 0
        PROVE  \E d \in Calls : z[d].stage = "got" /\ z[d].key = j /\ z[d].task = r[j].task
    <3>1. PICK d \in Calls : v[d].stage = "got" /\ v[d].key = j /\ v[d].task = r[j].task
      BY <2>1 DEF LedgerInv, Known
    <3> QED BY <3>1, <1>3
  <2> QED BY <2>1, <1>2, <1>3 DEF Known
<1> QED BY <1>2, <1>5, <1>6, <1>7 DEF LedgerInv, k, w, z

LEMMA ArrivesApart ==
  ASSUME NEW v, Views(v), Pairs(v), NEW c \in Calls, v[c].stage = "flight", NEW i
  PROVE  Pairs([v EXCEPT ![c] = Owner(v[c].key, v[c].birth, i)])
<1> DEFINE z == [v EXCEPT ![c] = Owner(v[c].key, v[c].birth, i)]
<1>1. /\ z[c].stage = "got" /\ z[c].key = v[c].key /\ z[c].birth = v[c].birth
      /\ \A d \in Calls : d # c => z[d] = v[d]
  BY DEF Views, Owner
<1> HIDE DEF z
<1>2. Pairs(z)
  BY <1>1 DEF Pairs, Apart
<1> QED BY <1>2 DEF z

\* The calls of S give up; those that got a task are not among them.
LEMMA GiveUp ==
  ASSUME NEW r, NEW v, Views(v), NEW t, LedgerInv(r, v, t), Pairs(v),
         NEW z, \A d \in Calls : z[d] = v[d] \/ (z[d].stage = "out" /\ v[d].stage # "got")
  PROVE  LedgerInv(r, z, t) /\ Pairs(z)
<1>1. Flying(r, z)
  BY DEF LedgerInv, Flying
<1>2. Kept(r, z, t)
  BY DEF LedgerInv, Kept
<1>3. Known(r, z)
  <2>1. \A d \in Calls : v[d].stage = "got" => z[d] = v[d]
    OBVIOUS
  <2> QED BY <2>1 DEF LedgerInv, Known
<1>4. Pairs(z)
  BY DEF Pairs
<1> QED BY <1>1, <1>2, <1>3, <1>4 DEF LedgerInv

\* The call c in flight gives up, and its reservation is deleted.
LEMMA RollBackLedger ==
  ASSUME NEW r, NEW v, Views(v), Pairs(v), NEW t, LedgerInv(r, v, t),
         NEW c \in Calls, v[c].stage = "flight"
  PROVE  LedgerInv(Without(r, v[c].key), [v EXCEPT ![c] = Out(v[c].key)], t)
<1> DEFINE k == v[c].key
           w == Without(r, k)
           z == [v EXCEPT ![c] = Out(k)]
<1>1. /\ z[c].stage = "out" /\ \A d \in Calls : d # c => z[d] = v[d]
  BY DEF Views, Out
<1>2. \A d \in Calls : d # c /\ v[d].key = k =>
        v[d].stage # "flight" /\ (v[d].stage = "got" => t >= v[d].birth + Day)
  BY Alone
<1>3. /\ IsLedger(w) /\ DOMAIN w = DOMAIN r \ {k}
      /\ \A j \in DOMAIN r \ {k} : w[j] = r[j]
  BY RestrictIsLedger, DOMAIN r \ {k} \in SUBSET DOMAIN r DEF Without, LedgerInv
<1>4. LedgerInv(r, z, t)
  <2>1. \A d \in Calls : z[d] = v[d] \/ (z[d].stage = "out" /\ v[d].stage # "got")
    BY <1>1
  <2> HIDE DEF z
  <2> QED BY <2>1, GiveUp
<1> HIDE DEF k, w, z
<1>5. Flying(w, z)
  BY <1>1, <1>2, <1>3, <1>4 DEF LedgerInv, Flying
<1>6. Kept(w, z, t)
  BY <1>1, <1>2, <1>3, <1>4 DEF LedgerInv, Kept
<1>7. Known(w, z)
  BY <1>3, <1>4 DEF LedgerInv, Known
<1> QED BY <1>3, <1>5, <1>6, <1>7 DEF LedgerInv, k, w, z

\* A new call c gets the task that e got.
LEMMA Clone ==
  ASSUME NEW r, NEW v, Views(v), Pairs(v), NEW t, LedgerInv(r, v, t),
         NEW c \in Calls, v[c].stage = "out",
         NEW e \in Calls, v[e].stage = "got", v[e].key = v[c].key
  PROVE  LedgerInv(r, [v EXCEPT ![c] = v[e]], t) /\ Pairs([v EXCEPT ![c] = v[e]])
<1> DEFINE z == [v EXCEPT ![c] = v[e]]
<1>1. z[c] = v[e] /\ \A d \in Calls : d # c => z[d] = v[d]
  BY DEF Views
<1> HIDE DEF z
<1>2. Flying(r, z)
  BY <1>1 DEF LedgerInv, Flying
<1>3. Kept(r, z, t)
  BY <1>1 DEF LedgerInv, Kept
<1>4. Known(r, z)
  <2>1. \A d \in Calls : v[d].stage = "got" => z[d] = v[d]
    BY <1>1
  <2> QED BY <2>1 DEF LedgerInv, Known
<1>5. Pairs(z)
  BY <1>1 DEF Pairs
<1> QED BY <1>2, <1>3, <1>4, <1>5 DEF LedgerInv, z

-----------------------------------------------------------------------------
\* What the view says of the calls.

LEMMA CallTyped ==
  ASSUME TypeOK, NEW c \in Calls
  PROVE  /\ calls[c] \in Call
         /\ calls[c].pc \in Waiting \cup {"new", "done"}
         /\ calls[c].key \in Keys /\ calls[c].user \in Users /\ calls[c].ip \in Ips
         /\ calls[c].nonce \in Nat /\ calls[c].started \in Nat /\ calls[c].task \in Nat
<1>1. calls[c] \in Call
  BY DEF TypeOK
<1> QED BY <1>1 DEF Call

LEMMA TaskTyped ==
  ASSUME TypeOK, NEW i \in 1 .. Len(tasks)
  PROVE  /\ tasks[i] \in Task
         /\ tasks[i].createdAt \in Nat /\ tasks[i].user \in Users
         /\ tasks[i].nonce \in Nat
<1>1. tasks \in Seq(Task)
  BY DEF TypeOK
<1>2. tasks[i] \in Task
  BY <1>1, ElementOfSeq
<1> QED BY <1>2 DEF Task

LEMMA SeenTyped ==
  ASSUME NEW k \in Call, NEW ts \in Seq(Task), Numbered(k, ts)
  PROVE  /\ Seen(k, ts) \in Entry /\ Seen(k, ts).key = k.key
         /\ Seen(k, ts).stage = "got" => Seen(k, ts).task # 0
         /\ Seen(k, ts).stage = "flight" <=> k.pc \in {"relay", "answer"}
         /\ Seen(k, ts).stage = "got" <=> (k.pc = "done" /\ k.task # 0)
<1>1. k.key \in Keys /\ k.started \in Nat /\ k.task \in Nat
  BY DEF Call
<1>2. CASE k.pc \in {"relay", "answer"}
  BY <1>1, <1>2 DEF Seen, Flight, Entry
<1>3. CASE k.pc = "done" /\ k.task # 0
  <2>1. k.task \in 1 .. Len(ts)
    BY <1>3 DEF Numbered
  <2>2. ts[k.task] \in Task
    BY <2>1, ElementOfSeq
  <2>3. ts[k.task].createdAt \in Nat
    BY <2>2 DEF Task
  <2>4. Seen(k, ts) = Owner(k.key, ts[k.task].createdAt, k.task)
    BY <1>3 DEF Seen
  <2> QED BY <1>1, <1>3, <2>3, <2>4 DEF Owner, Entry
<1>4. CASE k.pc \notin {"relay", "answer"} /\ ~(k.pc = "done" /\ k.task # 0)
  BY <1>1, <1>4 DEF Seen, Out, Entry
<1> QED BY <1>2, <1>3, <1>4

LEMMA ViewTyped ==
  ASSUME TypeOK, Numbers
  PROVE  /\ Views(view)
         /\ \A c \in Calls :
              /\ view[c].key = calls[c].key
              /\ view[c].stage = "flight" <=> calls[c].pc \in {"relay", "answer"}
              /\ view[c].stage = "got" <=> (calls[c].pc = "done" /\ calls[c].task # 0)
<1>1. \A c \in Calls : calls[c] \in Call /\ Numbered(calls[c], tasks)
  BY DEF TypeOK, Numbers
<1>2. tasks \in Seq(Task)
  BY DEF TypeOK
<1>3. \A c \in Calls : view[c] = Seen(calls[c], tasks)
  BY DEF view
<1> QED BY <1>1, <1>2, <1>3, SeenTyped DEF Views, view

\* Calls in flight are young.
LEMMA Young ==
  ASSUME TypeOK, Numbers, Clocks, NEW c \in Calls, view[c].stage = "flight"
  PROVE  now <= view[c].birth + MaxLatency
<1>1. calls[c].pc \in {"relay", "answer"} /\ view[c].birth = calls[c].started
  BY ViewTyped DEF view, Seen, Flight
<1> QED BY <1>1 DEF Clocks, Waiting

-----------------------------------------------------------------------------
\* A step on call c.

\* The call k takes the place of call c.
Replaces(c, k) ==
  /\ calls' = [calls EXCEPT ![c] = k]
  /\ UNCHANGED <<world, tasks>>

\* The provider's tasks may have grown, and each is as old as it was.
Extends(ts, us) ==
  /\ us \in Seq(Task) /\ Len(us) >= Len(ts)
  /\ \A i \in 1 .. Len(ts) : us[i].createdAt = ts[i].createdAt

LEMMA SeenAgain ==
  ASSUME NEW ts \in Seq(Task), NEW us, Extends(ts, us),
         NEW k \in Call, Numbered(k, ts)
  PROVE  Numbered(k, us) /\ Seen(k, us) = Seen(k, ts)
<1>1. Len(ts) \in Nat /\ Len(us) \in Nat /\ Len(us) >= Len(ts)
  BY LenProperties DEF Extends
<1>2. k.task # 0 => /\ k.task \in 1 .. Len(ts) /\ k.task \in 1 .. Len(us)
                    /\ us[k.task].createdAt = ts[k.task].createdAt
  BY <1>1 DEF Numbered, Extends
<1> QED BY <1>2 DEF Numbered, Seen

LEMMA CallChanges ==
  ASSUME GatewayInv, NEW c \in Calls, NEW k \in Call,
         calls' = [calls EXCEPT ![c] = k], UNCHANGED world,
         Extends(tasks, tasks'), Numbered(k, tasks'),
         k.pc \in Waiting => k.started <= now /\ now <= k.started + MaxLatency,
         IsLedger(reservations)', IsLedger(file)'
  PROVE  /\ TypeOK' /\ Clocks' /\ Numbers' /\ now' = now
         /\ view' = [view EXCEPT ![c] = Seen(k, tasks')]
<1>1. TypeOK /\ Clocks /\ Numbers
  BY DEF GatewayInv
<1>2. /\ \A d \in Calls : calls'[d] = IF d = c THEN k ELSE calls[d]
      /\ calls' \in [Calls -> Call] /\ now' = now
      /\ config' = config /\ chainNonce' = chainNonce /\ crashes' = crashes
  BY <1>1 DEF TypeOK, world
<1>3. TypeOK'
  BY <1>1, <1>2 DEF TypeOK, Extends
<1>4. Clocks'
  BY <1>1, <1>2 DEF Clocks
<1>5. \A d \in Calls : Numbered(calls[d], tasks') /\ Seen(calls[d], tasks') = Seen(calls[d], tasks)
  BY <1>1, SeenAgain DEF Numbers, TypeOK
<1>6. Numbers'
  BY <1>2, <1>5 DEF Numbers
<1>7. view' = [view EXCEPT ![c] = Seen(k, tasks')]
  BY <1>2, <1>5 DEF view
<1> QED BY <1>2, <1>3, <1>4, <1>6, <1>7

LEMMA SameTasks == ASSUME TypeOK, tasks' = tasks PROVE Extends(tasks, tasks')
BY LenProperties DEF TypeOK, Extends

\* A call that neither is in flight nor got a task moves on without either.
LEMMA QuietKeeps ==
  ASSUME GatewayInv, NEW c \in Calls, NEW k \in Call, Replaces(c, k),
         calls[c].pc \notin {"relay", "answer", "done"},
         k.key = calls[c].key, k.task = 0, k.pc \notin {"relay", "answer"},
         k.pc \in Waiting => k.started <= now /\ now <= k.started + MaxLatency,
         LedgerInv(reservations', view, now), LedgerInv(file', view, now)
  PROVE  GatewayInv'
<1>1. TypeOK /\ Numbers /\ Pairs(view)
  BY DEF GatewayInv
<1>2. Numbered(k, tasks)
  BY DEF Numbered
<1>3. IsLedger(reservations)' /\ IsLedger(file)'
  BY DEF LedgerInv
<1>4. /\ TypeOK' /\ Clocks' /\ Numbers'
      /\ view' = [view EXCEPT ![c] = Seen(k, tasks)]
  BY <1>1, <1>2, <1>3, SameTasks, CallChanges DEF Replaces
<1>5. Seen(k, tasks) = Seen(calls[c], tasks)
  BY DEF Seen
<1>6. view' = view
  BY <1>4, <1>5 DEF view
<1>7. now' = now
  BY DEF Replaces, world
<1> QED BY <1>1, <1>4, <1>6, <1>7 DEF GatewayInv

-----------------------------------------------------------------------------
\* The actions.

\* A call before the relay has no task.
LEMMA NoTaskYet ==
  ASSUME GatewayInv, NEW c \in Calls, calls[c].pc \notin {"answer", "done"}
  PROVE  calls[c].task = 0
BY DEF GatewayInv, Numbers, Numbered

\* The calls that end, or move on, before the reservation.
LEMMA BeforeReservationKeeps ==
  ASSUME GatewayInv, NEW c \in Calls,
         \/ Unauthorized(c) \/ Started(c) \/ Checked(c) \/ Rejected(c)
         \/ KeyInProgress(c)
  PROVE  GatewayInv'
<1>1. calls[c] \in Call /\ calls \in [Calls -> Call]
  BY CallTyped DEF GatewayInv, TypeOK
<1>2. PICK k \in Call :
        /\ calls' = [calls EXCEPT ![c] = k]
        /\ k.key = calls[c].key /\ k.task = calls[c].task
        /\ k.pc \notin {"new", "relay", "answer"}
        /\ k.pc \in Waiting =>
             \/ k.started = now
             \/ k.started = calls[c].started /\ calls[c].pc \in Waiting
  <2>1. CASE Unauthorized(c) \/ Rejected(c) \/ KeyInProgress(c)
    <3> DEFINE k == [calls[c] EXCEPT !.pc = "done"]
    <3>1. k \in Call /\ k.pc = "done" /\ k.key = calls[c].key /\ k.task = calls[c].task
      BY <1>1 DEF Call
    <3>2. calls' = [calls EXCEPT ![c] = k]
      BY <1>1, <2>1 DEF Unauthorized, Rejected, KeyInProgress
    <3> QED BY <3>1, <3>2 DEF Waiting
  <2>2. CASE Started(c)
    <3>1. PICK nonce \in PreparedNonces(calls[c].user) :
            calls' = [calls EXCEPT ![c].pc = "nonce", ![c].nonce = nonce,
                                   ![c].started = now]
      BY <2>2 DEF Started
    <3> DEFINE k == [calls[c] EXCEPT !.pc = "nonce", !.nonce = nonce, !.started = now]
    <3>2. nonce \in Nat /\ now \in Nat
      BY <1>1 DEF PreparedNonces, GatewayInv, TypeOK, Call
    <3>3. k \in Call /\ k.pc = "nonce" /\ k.key = calls[c].key
          /\ k.task = calls[c].task /\ k.started = now
      BY <1>1, <3>2 DEF Call, Waiting
    <3>4. calls' = [calls EXCEPT ![c] = k]
      BY <1>1, <3>1
    <3> QED BY <3>3, <3>4
  <2>3. CASE Checked(c)
    <3> DEFINE to == IF calls[c].pc = "nonce" THEN "verify" ELSE "simulate"
               k == [calls[c] EXCEPT !.pc = to]
    <3>1. /\ k \in Call /\ k.pc \in {"verify", "simulate"} /\ k.key = calls[c].key
          /\ k.task = calls[c].task /\ k.started = calls[c].started
      BY <1>1 DEF Call, Waiting
    <3>2. calls' = [calls EXCEPT ![c] = k] /\ calls[c].pc \in Waiting
      BY <1>1, <2>3 DEF Checked, Waiting
    <3> HIDE DEF k, to
    <3> QED BY <3>1, <3>2
  <2> QED BY <2>1, <2>2, <2>3
<1>3. /\ Replaces(c, k) /\ reservations' = reservations /\ file' = file
      /\ calls[c].pc \notin {"relay", "answer", "done"}
  BY <1>2 DEF Unauthorized, Started, Checked, Rejected, KeyInProgress, Replaces,
              Unanswered, Simulated
<1>4. k.task = 0
  BY <1>2, <1>3, NoTaskYet
<1>5. k.pc \in Waiting => k.started <= now /\ now <= k.started + MaxLatency
  BY <1>2, Limits DEF GatewayInv, Clocks, TypeOK
<1>6. LedgerInv(reservations', view, now) /\ LedgerInv(file', view, now)
  BY <1>3 DEF GatewayInv
<1> QED BY <1>2, <1>3, <1>4, <1>5, <1>6, QuietKeeps

\* What the reservation does to the ledger, the call being as it was.
LEMMA SimulatedView ==
  ASSUME GatewayInv, NEW c \in Calls, Simulated(c)
  PROVE  /\ calls[c].started \in Nat /\ calls[c].started <= now
         /\ now <= calls[c].started + MaxLatency
         /\ Views(view) /\ now \in Nat /\ view[c].stage = "out"
         /\ view[c].key = calls[c].key
         /\ LedgerInv(Live(reservations, calls[c].started), view, now)
<1>1. TypeOK /\ Numbers /\ Clocks /\ LedgerInv(reservations, view, now)
  BY DEF GatewayInv
<1>2. calls[c].pc = "simulate"
  BY DEF Simulated
<1>3. /\ calls[c].started \in Nat /\ calls[c].started <= now
      /\ now <= calls[c].started + MaxLatency /\ now \in Nat
  BY <1>1, <1>2, CallTyped DEF Clocks, Waiting, TypeOK
<1>4. Views(view) /\ view[c].key = calls[c].key /\ view[c].stage = "out"
  BY <1>1, <1>2, ViewTyped DEF view, Seen, Out
<1>5. \A d \in Calls : view[d].stage = "flight" => now <= view[d].birth + MaxLatency
  BY <1>1, Young
<1>6. LedgerInv(Live(reservations, calls[c].started), view, now)
  BY <1>1, <1>3, <1>4, <1>5, Dropped
<1> QED BY <1>3, <1>4, <1>6

\* A call that ends before the relay, whatever it did to the map.
LEMMA EndsKeeps ==
  ASSUME GatewayInv, NEW c \in Calls, calls[c].pc \notin {"relay", "answer", "done"},
         calls' = [calls EXCEPT ![c].pc = "done"], UNCHANGED <<world, file, tasks>>,
         LedgerInv(reservations', view, now)
  PROVE  GatewayInv'
<1> DEFINE k == [calls[c] EXCEPT !.pc = "done"]
<1>1. calls[c] \in Call /\ calls \in [Calls -> Call]
  BY CallTyped DEF GatewayInv, TypeOK
<1>2. k \in Call /\ k.pc = "done" /\ k.key = calls[c].key /\ k.task = calls[c].task
  BY <1>1 DEF Call
<1>3. Replaces(c, k)
  BY <1>1 DEF Replaces
<1>4. LedgerInv(file', view, now)
  BY DEF GatewayInv
<1>5. k.task = 0 /\ k.pc \notin Waiting
  BY <1>2, NoTaskYet DEF Waiting
<1> HIDE DEF k
<1> QED BY <1>2, <1>3, <1>4, <1>5, QuietKeeps

LEMMA OverBudgetKeeps ==
  ASSUME GatewayInv, NEW c \in Calls, OverBudget(c)
  PROVE  GatewayInv'
<1>1. Simulated(c) /\ reservations' = Live(reservations, calls[c].started)
  BY DEF OverBudget
<1>2. LedgerInv(reservations', view, now)
  BY <1>1, SimulatedView
<1>3. calls[c].pc \notin {"relay", "answer", "done"}
  BY <1>1 DEF Simulated
<1> QED BY <1>2, <1>3, EndsKeeps DEF OverBudget

LEMMA ReservedKeeps ==
  ASSUME GatewayInv, NEW c \in Calls, Reserved(c)
  PROVE  GatewayInv'
<1> DEFINE s == calls[c].started
           r == Live(reservations, s)
           x == [user |-> calls[c].user, ip |-> calls[c].ip, createdAt |-> s, task |-> 0]
<1>1. Simulated(c) /\ calls[c].key \notin DOMAIN reservations
      /\ reservations' = With(r, calls[c].key, x)
  BY DEF Reserved
<1>2. /\ s \in Nat /\ s <= now /\ now <= s + MaxLatency
      /\ Views(view) /\ now \in Nat /\ view[c].stage = "out"
      /\ view[c].key = calls[c].key /\ LedgerInv(r, view, now)
  BY <1>1, SimulatedView
<1>3. calls[c] \in Call /\ calls \in [Calls -> Call]
      /\ calls[c].key \in Keys /\ x \in Reservation /\ x.task = 0 /\ x.createdAt = s
  BY CallTyped DEF GatewayInv, TypeOK, Reservation
<1>4. calls[c].key \notin DOMAIN r
  BY <1>1 DEF Live, Restrict
<1>5. calls[c].pc = "simulate" /\ calls[c].task = 0
  BY <1>1, NoTaskYet DEF Simulated
<1> HIDE DEF s, r, x
<1>6. LedgerInv(reservations', view, now)
  BY <1>1, <1>2, <1>3, <1>4, Held
<1>7. CASE UNCHANGED file /\ calls' = [calls EXCEPT ![c].pc = "done"]
  BY <1>5, <1>6, <1>7, EndsKeeps DEF Reserved
<1>8. CASE file' = reservations' /\ calls' = [calls EXCEPT ![c].pc = "relay"]
  <2> DEFINE k == [calls[c] EXCEPT !.pc = "relay"]
             z == [view EXCEPT ![c] = Flight(view[c].key, s)]
  <2>1. k \in Call /\ k.pc = "relay" /\ k.key = calls[c].key /\ k.task = 0
        /\ k.started = s
    BY <1>3, <1>5 DEF Call, Waiting, s
  <2>2. Replaces(c, k)
    BY <1>3, <1>8 DEF Replaces, Reserved
  <2>3. Numbered(k, tasks)
    BY <2>1 DEF Numbered
  <2>4. LedgerInv(reservations', z, now) /\ Pairs(z)
    <3>1. LedgerInv(reservations', z, now)
      BY <1>1, <1>2, <1>3, <1>4, SetsOut
    <3>2. Pairs(view)
      BY DEF GatewayInv
    <3>3. Pairs(z)
      BY <1>2, <1>4, <3>2, SetsOutApart
    <3> QED BY <3>1, <3>3
  <2>5. IsLedger(reservations)' /\ IsLedger(file)'
    BY <1>6, <1>8 DEF LedgerInv
  <2>6. Seen(k, tasks) = Flight(view[c].key, s)
    BY <2>1, <1>2 DEF Seen
  <2> HIDE DEF k
  <2>7. /\ TypeOK' /\ Clocks' /\ Numbers'
        /\ view' = [view EXCEPT ![c] = Seen(k, tasks)]
    <3>1. Extends(tasks, tasks')
      BY <2>2, SameTasks DEF Replaces, GatewayInv
    <3> QED BY <3>1, <2>1, <2>2, <2>3, <2>5, <1>2, CallChanges DEF Replaces
  <2>8. view' = z /\ now' = now
    BY <2>2, <2>6, <2>7 DEF Replaces, world
  <2> HIDE DEF z
  <2> QED BY <2>4, <2>7, <2>8, <1>8 DEF GatewayInv
<1> QED BY <1>7, <1>8 DEF Reserved

\* The relay gets a task to the view's indifference.
LEMMA RelayAcceptsKeeps ==
  ASSUME GatewayInv, NEW c \in Calls, RelayAccepts(c)
  PROVE  GatewayInv'
<1> DEFINE n == Len(tasks) + 1
           k == [calls[c] EXCEPT !.pc = "answer", !.task = n]
           x == [key |-> calls[c].key, user |-> calls[c].user, ip |-> calls[c].ip,
                 nonce |-> calls[c].nonce, createdAt |-> calls[c].started,
                 counted |-> TRUE, executed |-> FALSE]
<1>1. TypeOK /\ Numbers /\ Clocks
  BY DEF GatewayInv
<1>2. /\ calls[c] \in Call /\ calls \in [Calls -> Call] /\ tasks \in Seq(Task)
      /\ calls[c].pc = "relay" /\ x \in Task /\ Len(tasks) \in Nat
  BY <1>1, CallTyped, LenProperties DEF TypeOK, Task, RelayAccepts
<1>3. x.createdAt = calls[c].started
  OBVIOUS
<1>4. /\ k \in Call /\ k.pc = "answer" /\ k.task = n /\ k.key = calls[c].key
      /\ k.started = calls[c].started
  <2>1. n \in Nat
    BY <1>2
  <2> HIDE DEF n, x
  <2> QED BY <1>2, <2>1 DEF Call, Waiting
<1>5. calls' = [calls EXCEPT ![c] = k] /\ tasks' = Append(tasks, x)
  BY <1>2 DEF RelayAccepts
<1>6. reservations' = reservations /\ file' = file /\ UNCHANGED world
  BY DEF RelayAccepts
<1> HIDE DEF k, x
<1>7. /\ tasks' \in Seq(Task) /\ Len(tasks') = n /\ tasks'[n] = x
      /\ \A i \in 1 .. Len(tasks) : tasks'[i] = tasks[i]
  BY <1>2, <1>5, AppendProperties
<1>8. Extends(tasks, tasks')
  BY <1>2, <1>7 DEF Extends
<1>9. Numbered(k, tasks')
  BY <1>2, <1>3, <1>4, <1>7 DEF Numbered
<1>10. k.started <= now /\ now <= k.started + MaxLatency
  BY <1>1, <1>2, <1>4 DEF Clocks, Waiting
<1>11. IsLedger(reservations)' /\ IsLedger(file)'
  BY <1>6 DEF GatewayInv, LedgerInv
<1>12. /\ TypeOK' /\ Clocks' /\ Numbers' /\ now' = now
       /\ view' = [view EXCEPT ![c] = Seen(k, tasks')]
  BY <1>4, <1>5, <1>6, <1>8, <1>9, <1>10, <1>11, CallChanges
<1>13. Seen(k, tasks') = Seen(calls[c], tasks)
  BY <1>2, <1>4 DEF Seen
<1>14. view' = view
  BY <1>12, <1>13 DEF view
<1> QED BY <1>6, <1>12, <1>14 DEF GatewayInv

LEMMA CommittedKeeps ==
  ASSUME GatewayInv, NEW c \in Calls, Committed(c)
  PROVE  GatewayInv'
<1> DEFINE k == [calls[c] EXCEPT !.pc = "done"]
           i == calls[c].task
           s == calls[c].started
           z == [view EXCEPT ![c] = Owner(view[c].key, view[c].birth, i)]
<1>1. TypeOK /\ Numbers /\ Pairs(view) /\ LedgerInv(reservations, view, now)
  BY DEF GatewayInv
<1>2. Views(view)
  BY <1>1, ViewTyped
<1>3. /\ calls[c] \in Call /\ calls \in [Calls -> Call] /\ i \in Nat
      /\ calls[c].pc = "answer"
  BY <1>1, CallTyped DEF TypeOK, Committed
<1>4. i # 0 /\ i \in 1 .. Len(tasks) /\ tasks[i].createdAt = s
  BY <1>1, <1>3 DEF Numbers, Numbered
<1>5. view[c].stage = "flight" /\ view[c].key = calls[c].key /\ view[c].birth = s
  BY <1>3 DEF view, Seen, Flight
<1>6. /\ k \in Call /\ k.pc = "done" /\ k.task = i /\ k.key = calls[c].key
  BY <1>3 DEF Call
<1>7. calls' = [calls EXCEPT ![c] = k] /\ UNCHANGED <<world, tasks>>
  BY <1>3 DEF Committed
<1> HIDE DEF k, i, s
<1>8. Numbered(k, tasks) /\ Seen(k, tasks) = Owner(view[c].key, view[c].birth, i)
  BY <1>4, <1>5, <1>6 DEF Numbered, Seen
<1>9. /\ reservations' = [reservations EXCEPT ![view[c].key].task = i]
      /\ file' = reservations'
  BY <1>5 DEF Committed, i
<1>10. LedgerInv(reservations', z, now)
  BY <1>1, <1>2, <1>3, <1>4, <1>5, <1>9, Arrives
<1>11. Pairs(z)
  BY <1>1, <1>2, <1>5, ArrivesApart
<1>12. /\ TypeOK' /\ Clocks' /\ Numbers' /\ now' = now
       /\ view' = [view EXCEPT ![c] = Seen(k, tasks)]
  <2>1. Extends(tasks, tasks')
    BY <1>1, <1>7, SameTasks
  <2>2. k.pc \notin Waiting
    BY <1>6 DEF Waiting
  <2>3. IsLedger(reservations)' /\ IsLedger(file)'
    BY <1>9, <1>10 DEF LedgerInv
  <2>4. Numbered(k, tasks') /\ Seen(k, tasks') = Seen(k, tasks)
    BY <1>7, <1>8
  <2> QED BY <2>1, <2>2, <2>3, <2>4, <1>6, <1>7, CallChanges
<1>13. view' = z
  BY <1>8, <1>12
<1> HIDE DEF z
<1> QED BY <1>9, <1>10, <1>11, <1>12, <1>13 DEF GatewayInv

LEMMA RolledBackKeeps ==
  ASSUME GatewayInv, NEW c \in Calls, RolledBack(c)
  PROVE  GatewayInv'
<1> DEFINE k == [calls[c] EXCEPT !.pc = "done", !.task = 0]
           z == [view EXCEPT ![c] = Out(view[c].key)]
<1>1. /\ TypeOK /\ Numbers /\ Pairs(view) /\ LedgerInv(reservations, view, now)
      /\ LedgerInv(file, view, now)
  BY DEF GatewayInv
<1>2. Views(view)
  BY <1>1, ViewTyped
<1>3. /\ calls[c] \in Call /\ calls \in [Calls -> Call] /\ tasks \in Seq(Task)
      /\ calls[c].pc \in {"relay", "answer"}
  BY <1>1, CallTyped DEF TypeOK, RolledBack
<1>4. view[c].stage = "flight" /\ view[c].key = calls[c].key
  BY <1>3 DEF view, Seen, Flight
<1>5. /\ k \in Call /\ k.pc = "done" /\ k.task = 0 /\ k.key = calls[c].key
  BY <1>3 DEF Call
<1>6. /\ calls' = [calls EXCEPT ![c] = k] /\ UNCHANGED world
      /\ reservations' = Without(reservations, view[c].key)
      /\ file' \in {file, reservations'}
  BY <1>3, <1>4 DEF RolledBack
<1>7. Extends(tasks, tasks')
  <2>1. tasks' = [i \in DOMAIN tasks |->
                    IF i = calls[c].task THEN [tasks[i] EXCEPT !.counted = FALSE]
                                         ELSE tasks[i]]
    BY DEF RolledBack
  <2>2. DOMAIN tasks = 1 .. Len(tasks) /\ Len(tasks) \in Nat
    BY <1>3, LenProperties
  <2>3. \A i \in 1 .. Len(tasks) : tasks[i] \in Task
    BY <1>3, ElementOfSeq
  <2>4. \A i \in 1 .. Len(tasks) :
          tasks'[i] \in Task /\ tasks'[i].createdAt = tasks[i].createdAt
    BY <2>1, <2>2, <2>3 DEF Task
  <2>5. tasks' \in [1 .. Len(tasks) -> Task]
    BY <2>1, <2>2, <2>4
  <2>6. tasks' \in Seq(Task) /\ Len(tasks') = Len(tasks)
    BY <2>2, <2>5, SeqDef, LenProperties
  <2> QED BY <2>2, <2>4, <2>6 DEF Extends
<1> HIDE DEF k
<1>8. Numbered(k, tasks') /\ Seen(k, tasks') = Out(view[c].key) /\ k.pc \notin Waiting
  BY <1>4, <1>5 DEF Numbered, Seen, Waiting
<1>9. LedgerInv(reservations', z, now)
  BY <1>1, <1>2, <1>4, <1>6, RollBackLedger
<1>10. LedgerInv(file, z, now) /\ Pairs(z)
  <2>1. \A d \in Calls : z[d] = view[d] \/ (z[d].stage = "out" /\ view[d].stage # "got")
    BY <1>4 DEF Out, view
  <2> HIDE DEF z
  <2> QED BY <1>1, <1>2, <2>1, GiveUp
<1>11. LedgerInv(file', z, now)
  BY <1>6, <1>9, <1>10
<1>12. /\ TypeOK' /\ Clocks' /\ Numbers' /\ now' = now
       /\ view' = [view EXCEPT ![c] = Seen(k, tasks')]
  <2>1. IsLedger(reservations)' /\ IsLedger(file)'
    BY <1>9, <1>11 DEF LedgerInv
  <2> QED BY <2>1, <1>5, <1>6, <1>7, <1>8, CallChanges
<1>13. view' = z
  BY <1>8, <1>12
<1> HIDE DEF z
<1> QED BY <1>9, <1>10, <1>11, <1>12, <1>13 DEF GatewayInv

LEMMA AnsweredKeeps ==
  ASSUME GatewayInv, NEW c \in Calls, Answered(c)
  PROVE  GatewayInv'
<1> DEFINE i == reservations[calls[c].key].task
           k == [calls[c] EXCEPT !.pc = "done", !.task = i]
<1>1. /\ TypeOK /\ Numbers /\ Pairs(view) /\ LedgerInv(reservations, view, now)
      /\ LedgerInv(file, view, now)
  BY DEF GatewayInv
<1>2. Views(view)
  BY <1>1, ViewTyped
<1>3. /\ calls[c] \in Call /\ calls \in [Calls -> Call] /\ calls[c].pc = "new"
      /\ calls[c].key \in DOMAIN reservations /\ i # 0
  BY <1>1, CallTyped DEF TypeOK, Answered
<1>4. PICK e \in Calls :
        view[e].stage = "got" /\ view[e].key = calls[c].key /\ view[e].task = i
  BY <1>1, <1>3 DEF LedgerInv, Known
<1>5. view[c].stage = "out" /\ view[c].key = calls[c].key
  BY <1>3 DEF view, Seen, Out
<1>6. calls[e].pc = "done" /\ calls[e].task # 0
  BY <1>1, <1>4, ViewTyped
<1>7. view[e] = Owner(calls[e].key, tasks[calls[e].task].createdAt, calls[e].task)
  BY <1>6 DEF view, Seen
<1>8. calls[e].task = i /\ calls[e].key = calls[c].key
  BY <1>4, <1>7 DEF Owner
<1>9. i \in 1 .. Len(tasks) /\ i \in Nat
  BY <1>1, <1>6, <1>8, CallTyped DEF Numbers, Numbered
<1>10. /\ k \in Call /\ k.pc = "done" /\ k.task = i /\ k.key = calls[c].key
  BY <1>3, <1>9 DEF Call
<1>11. /\ calls' = [calls EXCEPT ![c] = k] /\ UNCHANGED <<world, tasks>>
       /\ reservations' = reservations /\ file' = file
  BY <1>3 DEF Answered
<1> HIDE DEF k, i
<1>12. Numbered(k, tasks') /\ Seen(k, tasks') = view[e] /\ k.pc \notin Waiting
  BY <1>7, <1>8, <1>9, <1>10, <1>11 DEF Numbered, Seen, Waiting
<1>13. /\ TypeOK' /\ Clocks' /\ Numbers' /\ now' = now
       /\ view' = [view EXCEPT ![c] = Seen(k, tasks')]
  <2>1. IsLedger(reservations)' /\ IsLedger(file)'
    BY <1>1, <1>11 DEF LedgerInv
  <2>2. Extends(tasks, tasks')
    BY <1>1, <1>11, SameTasks
  <2> QED BY <2>1, <2>2, <1>10, <1>11, <1>12, CallChanges
<1> DEFINE z == [view EXCEPT ![c] = view[e]]
<1>14. LedgerInv(reservations, z, now) /\ LedgerInv(file, z, now) /\ Pairs(z)
  BY <1>1, <1>2, <1>4, <1>5, Clone
<1>15. view' = z
  BY <1>12, <1>13
<1> HIDE DEF z
<1> QED BY <1>11, <1>13, <1>14, <1>15 DEF GatewayInv

\* The chain changes nothing that the gateway keeps.
LEMMA ExecuteKeeps ==
  ASSUME GatewayInv, NEW i \in DOMAIN tasks, Execute(i)
  PROVE  GatewayInv'
<1>1. TypeOK /\ Numbers /\ Clocks
  BY DEF GatewayInv
<1>2. tasks \in Seq(Task) /\ i \in 1 .. Len(tasks) /\ Len(tasks) \in Nat
  BY <1>1, LenProperties DEF TypeOK
<1>3. tasks[i] \in Task /\ tasks[i].nonce \in Nat
  BY <1>1, <1>2, TaskTyped
<1> DEFINE x == [tasks[i] EXCEPT !.executed = TRUE]
<1>4. x \in Task /\ x.createdAt = tasks[i].createdAt
  BY <1>3 DEF Task
<1>5. tasks' = [tasks EXCEPT ![i] = x]
  BY <1>2 DEF Execute
<1> HIDE DEF x
<1>6. Extends(tasks, tasks')
  <2>1. /\ tasks' \in Seq(Task) /\ Len(tasks') = Len(tasks)
        /\ \A j \in 1 .. Len(tasks) : tasks'[j] = IF j = i THEN x ELSE tasks[j]
    BY <1>2, <1>4, <1>5, ExceptSeq
  <2> QED BY <1>2, <1>4, <2>1 DEF Extends
<1>7. chainNonce' \in [Users -> Nat]
  <2> DEFINE u == tasks[i].user
             n == tasks[i].nonce
  <2>1. chainNonce \in [Users -> Nat] /\ u \in Users /\ n \in Nat
    BY <1>1, <1>2, TaskTyped DEF TypeOK
  <2>2. chainNonce' = [chainNonce EXCEPT ![u] =
                         IF chainNonce[u] = n THEN chainNonce[u] + 1 ELSE chainNonce[u]]
    BY DEF Execute
  <2> HIDE DEF u, n
  <2>3. \A w \in Users : chainNonce'[w] \in Nat
    BY <2>1, <2>2
  <2> QED BY <2>1, <2>2, <2>3
<1>8. /\ config' = config /\ now' = now /\ reservations' = reservations
      /\ file' = file /\ calls' = calls /\ crashes' = crashes
  BY DEF Execute
<1>9. TypeOK' /\ Clocks'
  BY <1>1, <1>6, <1>7, <1>8 DEF TypeOK, Clocks, Extends
<1>10. \A c \in Calls : Numbered(calls[c], tasks') /\ Seen(calls[c], tasks') = Seen(calls[c], tasks)
  BY <1>1, <1>6, SeenAgain DEF Numbers, TypeOK
<1>11. Numbers'
  BY <1>8, <1>10 DEF Numbers
<1>12. view' = view
  BY <1>8, <1>10 DEF view
<1> QED BY <1>8, <1>9, <1>11, <1>12 DEF GatewayInv

\* The calls under way are lost; the map is the file again.
LEMMA CrashKeeps ==
  ASSUME GatewayInv, Crash
  PROVE  GatewayInv'
<1>1. TypeOK /\ Numbers /\ Pairs(view) /\ LedgerInv(file, view, now)
  BY DEF GatewayInv
<1>2. /\ config' = config /\ now' = now /\ file' = file /\ reservations' = file
      /\ chainNonce' = chainNonce /\ tasks' = tasks /\ crashes' = crashes + 1
      /\ calls' = [c \in Calls |->
                     IF calls[c].pc \in Waiting
                       THEN [calls[c] EXCEPT !.pc = "done", !.task = 0]
                       ELSE calls[c]]
  BY DEF Crash
<1>3. ASSUME NEW c \in Calls
      PROVE  /\ calls'[c] \in Call /\ calls'[c].pc \notin Waiting
             /\ Numbered(calls'[c], tasks)
             /\ Seen(calls'[c], tasks) = Seen(calls[c], tasks)
                \/ (Seen(calls'[c], tasks).stage = "out" /\ view[c].stage # "got")
  <2>1. calls[c] \in Call /\ Numbered(calls[c], tasks)
    BY <1>1, CallTyped DEF Numbers
  <2>2. CASE calls[c].pc \in Waiting
    <3> DEFINE k == [calls[c] EXCEPT !.pc = "done", !.task = 0]
    <3>1. k \in Call /\ k.pc = "done" /\ k.task = 0
      BY <2>1 DEF Call
    <3>2. calls'[c] = k
      BY <1>2, <2>2
    <3>3. view[c].stage # "got"
      BY <1>1, <2>2, ViewTyped DEF Waiting
    <3> HIDE DEF k
    <3>4. Numbered(k, tasks) /\ Seen(k, tasks).stage = "out" /\ k.pc \notin Waiting
      BY <3>1 DEF Numbered, Seen, Out, Waiting
    <3> QED BY <3>1, <3>2, <3>3, <3>4
  <2>3. CASE calls[c].pc \notin Waiting
    <3>1. calls'[c] = calls[c]
      BY <1>2, <2>3
    <3> QED BY <2>1, <2>3, <3>1
  <2> QED BY <2>2, <2>3
<1>4. TypeOK'
  <2>1. calls' \in [Calls -> Call]
    BY <1>2, <1>3
  <2>2. IsLedger(reservations)' /\ IsLedger(file)'
    BY <1>1, <1>2 DEF LedgerInv
  <2>3. crashes' \in Nat
    <3>1. crashes \in Nat
      BY <1>1 DEF TypeOK
    <3>2. crashes' = crashes + 1
      BY DEF Crash
    <3> QED BY <3>1, <3>2
  <2>4. /\ config' \in Configs /\ now' \in Nat /\ chainNonce' \in [Users -> Nat]
        /\ tasks' \in Seq(Task)
    BY <1>1, <1>2 DEF TypeOK
  <2> QED BY <2>1, <2>2, <2>3, <2>4 DEF TypeOK
<1>5. Clocks'
  BY <1>3 DEF Clocks
<1>6. Numbers'
  BY <1>2, <1>3 DEF Numbers
<1>7. \A c \in Calls :
        view'[c] = view[c] \/ (view'[c].stage = "out" /\ view[c].stage # "got")
  BY <1>2, <1>3 DEF view
<1>8. LedgerInv(file, view', now) /\ Pairs(view')
  BY <1>1, <1>7, ViewTyped, GiveUp
<1> QED BY <1>2, <1>4, <1>5, <1>6, <1>8 DEF GatewayInv

LEMMA TickKeeps ==
  ASSUME GatewayInv, Tick
  PROVE  GatewayInv'
<1>1. /\ TypeOK /\ Numbers /\ Clocks /\ Pairs(view)
      /\ LedgerInv(reservations, view, now) /\ LedgerInv(file, view, now)
  BY DEF GatewayInv
<1>2. /\ now \in Nat /\ now' = now + 1 /\ config' = config
      /\ reservations' = reservations /\ file' = file /\ calls' = calls
      /\ chainNonce' = chainNonce /\ tasks' = tasks /\ crashes' = crashes
  BY <1>1 DEF Tick, TypeOK
<1>3. TypeOK' /\ Numbers' /\ view' = view
  BY <1>1, <1>2 DEF TypeOK, Numbers, view
<1>4. Clocks'
  <2>1. ASSUME NEW c \in Calls, calls[c].pc \in Waiting
        PROVE  calls[c].started <= now + 1 /\ now + 1 <= calls[c].started + MaxLatency
    BY <2>1, <1>1, <1>2, CallTyped, Limits DEF Tick, Clocks
  <2> QED BY <2>1, <1>2 DEF Clocks
<1>5. LedgerInv(reservations, view, now + 1) /\ LedgerInv(file, view, now + 1)
  <2>1. now + 1 \in Nat /\ now + 1 >= now
    BY <1>2
  <2> QED BY <1>1, <1>2, <2>1, ViewTyped, Later
<1> QED BY <1>1, <1>2, <1>3, <1>4, <1>5 DEF GatewayInv

LEMMA InitEstablishes == Init => GatewayInv
<1> SUFFICES ASSUME Init PROVE GatewayInv
  OBVIOUS
<1>1. \A c \in Calls :
        /\ calls[c] \in Call /\ calls[c].pc = "new" /\ calls[c].task = 0
  BY DEF Init, Call
<1>2. TypeOK
  <2>1. calls \in [Calls -> Call]
    BY <1>1 DEF Init
  <2>2. IsLedger(reservations) /\ IsLedger(file)
    BY DEF Init, IsLedger
  <2>3. tasks \in Seq(Task)
    BY EmptySeq DEF Init
  <2> QED BY <2>1, <2>2, <2>3 DEF Init, TypeOK
<1>3. Clocks /\ Numbers
  BY <1>1 DEF Clocks, Numbers, Numbered, Waiting
<1>4. \A c \in Calls : view[c].stage = "out"
  BY <1>1 DEF view, Seen, Out
<1>5. Pairs(view)
  BY <1>4 DEF Pairs
<1>6. reservations = << >> /\ file = << >> /\ DOMAIN << >> = {}
  BY DEF Init
<1>7. LedgerInv(reservations, view, now) /\ LedgerInv(file, view, now)
  BY <1>2, <1>4, <1>6 DEF TypeOK, LedgerInv, Flying, Kept, Known
<1> QED BY <1>2, <1>3, <1>5, <1>7 DEF GatewayInv

LEMMA NextKeeps == GatewayInv /\ [Next]_vars => GatewayInv'
<1> SUFFICES ASSUME GatewayInv, [Next]_vars PROVE GatewayInv'
  OBVIOUS
<1>1. ASSUME NEW c \in Calls,
             \/ Answered(c) \/ Unauthorized(c) \/ Started(c) \/ Checked(c) \/ Rejected(c)
             \/ KeyInProgress(c) \/ OverBudget(c) \/ Reserved(c)
             \/ RelayAccepts(c) \/ Committed(c) \/ RolledBack(c)
      PROVE  GatewayInv'
  BY <1>1, AnsweredKeeps, BeforeReservationKeeps, OverBudgetKeeps, ReservedKeeps,
     RelayAcceptsKeeps, CommittedKeeps, RolledBackKeeps
<1>2. ASSUME NEW i \in DOMAIN tasks, Execute(i) PROVE GatewayInv'
  BY <1>2, ExecuteKeeps
<1>3. CASE UNCHANGED vars
  BY <1>3 DEF vars, GatewayInv, TypeOK, Clocks, Numbers, view
<1> QED BY <1>1, <1>2, <1>3, CrashKeeps, TickKeeps DEF Next

\* submitRelay and its ledger keep the invariant.
THEOREM GatewayInvariant == Spec => []GatewayInv
BY InitEstablishes, NextKeeps, PTL DEF Spec

\* Every variable of the relay keeps its type.
THEOREM TypeCorrect == Spec => []TypeOK
<1>1. GatewayInv => TypeOK
  BY DEF GatewayInv
<1> QED BY <1>1, GatewayInvariant, PTL

\* Whatever was sent to the relay has its reservation on disk, so that no
\* crash makes the gateway forget it (submitRelay).
THEOREM SentOnDisk == Spec => []SentIsOnDisk
<1>1. GatewayInv => SentIsOnDisk
  <2> SUFFICES ASSUME GatewayInv, NEW c \in Calls, calls[c].pc \in {"relay", "answer"}
               PROVE  /\ calls[c].key \in DOMAIN file
                      /\ file[calls[c].key].createdAt = calls[c].started
    BY DEF SentIsOnDisk
  <2>1. view[c] = Flight(calls[c].key, calls[c].started)
    BY DEF view, Seen
  <2> QED BY <2>1 DEF GatewayInv, LedgerInv, Flying, Flight
<1> QED BY <1>1, GatewayInvariant, PTL

\* Within SafeDay one key gets one task, across restarts, failed writes and
\* any interleaving of the calls (taskFor, reserve, commit).
THEOREM OneAnswer == Spec => []OneAnswerPerKey
<1>1. GatewayInv => OneAnswerPerKey
  <2> SUFFICES ASSUME GatewayInv, NEW c \in Calls, NEW d \in Calls,
                      calls[c].pc = "done", calls[d].pc = "done",
                      calls[c].task # 0, calls[d].task # 0,
                      calls[c].key = calls[d].key,
                      Within(SafeDay, calls[c].task, calls[d].task)
               PROVE  calls[c].task = calls[d].task
    BY DEF OneAnswerPerKey
  <2>1. /\ view[c] = Owner(calls[c].key, tasks[calls[c].task].createdAt, calls[c].task)
        /\ view[d] = Owner(calls[d].key, tasks[calls[d].task].createdAt, calls[d].task)
    BY DEF view, Seen
  <2>2. view[c].birth \in Nat /\ view[d].birth \in Nat
    BY ViewTyped DEF GatewayInv, Views, Entry
  <2>3. ~Apart(view[c].birth, view[d].birth)
    BY <2>1, <2>2, Limits DEF Within, Apart, Owner
  <2> QED BY <2>1, <2>3 DEF GatewayInv, Pairs, Owner
<1> QED BY <1>1, GatewayInvariant, PTL

-----------------------------------------------------------------------------
\* The budgets.  What counts against them, whether or not the relay has it yet:
\* a transaction that was sent and not rolled back, and one about to be sent.

Mark == [key : Keys, at : Nat, user : Users, ip : Ips]

TaskMark(x) == [key |-> x.key, at |-> x.createdAt, user |-> x.user, ip |-> x.ip]
CallMark(k) == [key |-> k.key, at |-> k.started, user |-> k.user, ip |-> k.ip]

Counted == {i \in DOMAIN tasks : tasks[i].counted}
Sending == {c \in Calls : calls[c].pc = "relay"}

Marks == {TaskMark(tasks[i]) : i \in Counted} \cup {CallMark(calls[c]) : c \in Sending}

\* The marks of some users and addresses, from a on for so long.
Window(a, span, users, ips) ==
  [key : Keys, at : a .. (a + span - 1), user : users, ip : ips]

KeysOf(M) == {m.key : m \in M}

Spent(M, W) == Cardinality(KeysOf(M \cap W))

Budgets(M) ==
  \A a \in Nat :
    /\ Spent(M, Window(a, SafeDay, Users, Ips)) <= config.globalDailyLimit
    /\ \A u \in Users :
         Spent(M, Window(a, SafeDay, {u}, Ips)) <= config.walletDailyLimit
    /\ \A p \in Ips :
         Spent(M, Window(a, Hour, Users, {p})) <= config.ipHourlyLimit

\* The ledger holds the reservation of a mark that is younger than a day.
Backed(r, M, t) ==
  \A m \in M :
    m.at > t - Day =>
      /\ m.key \in DOMAIN r
      /\ r[m.key].createdAt = m.at /\ r[m.key].user = m.user /\ r[m.key].ip = m.ip

\* Two transactions with one key are far apart.
Separate ==
  /\ \A i, j \in Counted :
       i # j /\ tasks[i].key = tasks[j].key =>
         Apart(tasks[i].createdAt, tasks[j].createdAt)
  /\ \A c \in Sending, i \in Counted :
       calls[c].key = tasks[i].key => Apart(calls[c].started, tasks[i].createdAt)

\* A call that awaits an answer awaits that of a task with its key that counts.
Awaited ==
  \A c \in Calls :
    calls[c].pc = "answer" =>
      calls[c].task \in Counted /\ tasks[calls[c].task].key = calls[c].key

LimitInv ==
  /\ Backed(reservations, Marks, now) /\ Backed(file, Marks, now)
  /\ Separate /\ Awaited
  /\ Budgets(Marks)

-----------------------------------------------------------------------------
\* Sets of marks.

LEMMA KeysFinite ==
  ASSUME NEW M \in SUBSET Mark
  PROVE  /\ IsFiniteSet(KeysOf(M)) /\ KeysOf(M) \subseteq Keys
         /\ Cardinality(KeysOf(M)) \in Nat
<1>1. KeysOf(M) \subseteq Keys /\ IsFiniteSet(Keys)
  BY GatewayAssumption DEF KeysOf, Mark
<1> QED BY <1>1, FS_Subset, FS_CardinalityType

LEMMA SpentLess ==
  ASSUME NEW M \in SUBSET Mark, NEW N \in SUBSET M, NEW W
  PROVE  Spent(N, W) <= Spent(M, W) /\ Spent(N, W) \in Nat /\ Spent(M, W) \in Nat
<1>1. (M \cap W) \in SUBSET Mark /\ (N \cap W) \in SUBSET Mark
  OBVIOUS
<1>2. KeysOf(N \cap W) \subseteq KeysOf(M \cap W)
  BY DEF KeysOf
<1> QED BY <1>1, <1>2, KeysFinite, FS_Subset DEF Spent

\* Fewer marks keep the budgets.
LEMMA BudgetsShrink ==
  ASSUME TypeOK, NEW M \in SUBSET Mark, NEW N \in SUBSET M, Budgets(M)
  PROVE  Budgets(N)
<1>1. /\ config.globalDailyLimit \in Nat /\ config.walletDailyLimit \in Nat
      /\ config.ipHourlyLimit \in Nat
  BY GatewayAssumption DEF TypeOK
<1>2. \A W : /\ Spent(N, W) <= Spent(M, W)
             /\ Spent(N, W) \in Nat /\ Spent(M, W) \in Nat
  BY SpentLess
<1> QED BY <1>1, <1>2 DEF Budgets

\* One more mark is within a budget when the marks already in its window have
\* fewer keys than the limit allows.
LEMMA SpentMore ==
  ASSUME NEW M \in SUBSET Mark, NEW x \in Mark, NEW W, NEW limit \in Nat,
         Spent(M, W) <= limit,
         x \in W => \E live \in SUBSET Keys :
                     Cardinality(live) < limit /\ KeysOf(M \cap W) \subseteq live
  PROVE  Spent(M \cup {x}, W) <= limit
<1>1. CASE x \in W
  <2> PICK live \in SUBSET Keys :
           Cardinality(live) < limit /\ KeysOf(M \cap W) \subseteq live
    BY <1>1
  <2>1. IsFiniteSet(live) /\ Cardinality(live) \in Nat
    BY GatewayAssumption, FS_Subset, FS_CardinalityType
  <2>2. KeysOf((M \cup {x}) \cap W) \subseteq live \cup {x.key}
    BY <1>1 DEF KeysOf
  <2>3. /\ IsFiniteSet(live \cup {x.key})
        /\ Cardinality(live \cup {x.key}) <= Cardinality(live) + 1
        /\ Cardinality(live \cup {x.key}) \in Nat
    <3>1. /\ IsFiniteSet(live \cup {x.key})
          /\ Cardinality(live \cup {x.key}) =
               IF x.key \in live THEN Cardinality(live) ELSE Cardinality(live) + 1
      BY <2>1, FS_AddElement
    <3>2. Cardinality(live \cup {x.key}) \in Nat
      BY <3>1, FS_CardinalityType
    <3> QED BY <2>1, <3>1, <3>2
  <2>4. Spent(M \cup {x}, W) <= Cardinality(live \cup {x.key})
        /\ Spent(M \cup {x}, W) \in Nat
    BY <2>2, <2>3, FS_Subset, FS_CardinalityType DEF Spent
  <2> QED BY <2>3, <2>4, <2>1
<1>2. CASE x \notin W
  <2>1. (M \cup {x}) \cap W = M \cap W
    BY <1>2
  <2> QED BY <2>1 DEF Spent
<1> QED BY <1>1, <1>2

LEMMA MarksTyped ==
  ASSUME TypeOK
  PROVE  /\ Marks \in SUBSET Mark
         /\ \A i \in Counted : tasks[i] \in Task /\ tasks[i].createdAt \in Nat
<1>1. ASSUME NEW i \in Counted
      PROVE  /\ TaskMark(tasks[i]) \in Mark /\ tasks[i] \in Task
             /\ tasks[i].createdAt \in Nat
  <2>1. tasks[i] \in Task
    BY ElementOfSeq, LenProperties DEF TypeOK, Counted
  <2> QED BY <2>1 DEF Task, TaskMark, Mark
<1>2. ASSUME NEW c \in Sending PROVE CallMark(calls[c]) \in Mark
  BY CallTyped DEF Sending, CallMark, Mark
<1> QED BY <1>1, <1>2 DEF Marks

-----------------------------------------------------------------------------
\* The ledger behind the marks.

LEMMA BackedLess ==
  ASSUME NEW r, NEW M \in SUBSET Mark, NEW N \in SUBSET M,
         NEW t \in Nat, NEW u \in Nat, u >= t, Backed(r, M, t)
  PROVE  Backed(r, N, u)
<1>1. \A m \in N : m \in M /\ m.at \in Nat
  BY DEF Mark
<1> QED BY <1>1, Limits DEF Backed

LEMMA BackedLive ==
  ASSUME NEW r, NEW M \in SUBSET Mark, NEW t \in Nat, NEW s \in Nat, s <= t,
         Backed(r, M, t)
  PROVE  Backed(Live(r, s), M, t)
<1> DEFINE S == {k \in DOMAIN r : r[k].createdAt > s - Day}
<1>1. DOMAIN Live(r, s) = S /\ \A k \in S : Live(r, s)[k] = r[k]
  BY DEF Live, Restrict
<1>2. ASSUME NEW m \in M, m.at > t - Day
      PROVE  /\ m.key \in DOMAIN r /\ r[m.key].createdAt = m.at
             /\ r[m.key].user = m.user /\ r[m.key].ip = m.ip
             /\ m.at > s - Day
  <2>1. m.at \in Nat
    BY DEF Mark
  <2> QED BY <1>2, <2>1, Limits DEF Backed
<1> QED BY <1>1, <1>2 DEF Backed

LEMMA BackedWith ==
  ASSUME NEW r, NEW M, NEW t, Backed(r, M, t), NEW k, k \notin DOMAIN r, NEW x
  PROVE  Backed(With(r, k, x), M, t)
<1>1. /\ DOMAIN With(r, k, x) = DOMAIN r \cup {k}
      /\ \A j \in DOMAIN r : With(r, k, x)[j] = r[j]
  BY DEF With
<1> QED BY <1>1 DEF Backed

\* The reservation of k is deleted, and with it go the marks of k that are
\* younger than a day.
LEMMA BackedWithout ==
  ASSUME NEW r, NEW M, NEW N \in SUBSET M, NEW t, Backed(r, M, t), NEW k,
         \A m \in N : m.key = k => ~(m.at > t - Day)
  PROVE  Backed(Without(r, k), N, t)
<1>1. /\ DOMAIN Without(r, k) = DOMAIN r \ {k}
      /\ \A j \in DOMAIN r \ {k} : Without(r, k)[j] = r[j]
  BY DEF Without, Restrict
<1> QED BY <1>1 DEF Backed

-----------------------------------------------------------------------------
\* The actions.

\* What a step says of the marks, whatever it does to the ledger.
MarksKept ==
  /\ Marks' = Marks /\ Separate' /\ Awaited' /\ Budgets(Marks)'

\* A call that is not at the relay moves on without getting there.
LEMMA QuietMarks ==
  ASSUME GatewayInv, LimitInv, NEW c \in Calls, NEW k \in Call,
         calls' = [calls EXCEPT ![c] = k], tasks' = tasks, config' = config,
         calls[c].pc # "relay", k.pc \notin {"relay", "answer"}
  PROVE  MarksKept
<1>1. \A d \in Calls : calls'[d] = IF d = c THEN k ELSE calls[d]
  BY DEF GatewayInv, TypeOK
<1>2. Counted' = Counted
  BY DEF Counted
<1>3. Sending' = Sending /\ \A d \in Sending : calls'[d] = calls[d]
  BY <1>1 DEF Sending
<1>4. Marks' = Marks
  BY <1>2, <1>3 DEF Marks
<1>5. Separate'
  BY <1>2, <1>3 DEF LimitInv, Separate
<1>6. Awaited'
  BY <1>1, <1>2 DEF LimitInv, Awaited
<1>7. Budgets(Marks)'
  BY <1>4 DEF LimitInv, Budgets
<1> QED BY <1>4, <1>5, <1>6, <1>7 DEF MarksKept

LEMMA MarksKeptLimits ==
  ASSUME GatewayInv, LimitInv, GatewayInv', MarksKept, now' \in Nat, now' >= now,
         Backed(reservations', Marks, now), Backed(file', Marks, now)
  PROVE  LimitInv'
<1>1. now \in Nat /\ Marks \in SUBSET Mark
  BY MarksTyped DEF GatewayInv, TypeOK
<1>2. Backed(reservations', Marks, now') /\ Backed(file', Marks, now')
  BY <1>1, BackedLess
<1> QED BY <1>2 DEF MarksKept, LimitInv

\* The calls that end, or move on, before the reservation.
LEMMA BeforeReservationLimits ==
  ASSUME GatewayInv, LimitInv, GatewayInv', NEW c \in Calls,
         \/ Answered(c) \/ Unauthorized(c) \/ Started(c) \/ Checked(c) \/ Rejected(c)
         \/ KeyInProgress(c) \/ OverBudget(c)
  PROVE  LimitInv'
<1>1. /\ calls[c].pc \notin {"relay", "answer", "done"}
      /\ tasks' = tasks /\ config' = config /\ now' = now /\ file' = file
  BY DEF Answered, Unauthorized, Started, Checked, Rejected, KeyInProgress,
         OverBudget, Unanswered, Simulated, world
<1>2. calls \in [Calls -> Call] /\ now \in Nat /\ Marks \in SUBSET Mark
  BY MarksTyped DEF GatewayInv, TypeOK
<1>3. calls'[c].pc \notin {"relay", "answer"}
  <2>1. CASE Unauthorized(c) \/ Rejected(c) \/ KeyInProgress(c) \/ OverBudget(c)
    <3>1. calls' = [calls EXCEPT ![c].pc = "done"]
      BY <2>1 DEF Unauthorized, Rejected, KeyInProgress, OverBudget
    <3> QED BY <1>2, <3>1
  <2>2. CASE Answered(c)
    BY <1>2, <2>2 DEF Answered, Call
  <2>3. CASE Started(c)
    BY <1>2, <2>3 DEF Started, Call
  <2>4. CASE Checked(c)
    <3>1. calls' = [calls EXCEPT ![c].pc =
                      IF calls[c].pc = "nonce" THEN "verify" ELSE "simulate"]
      BY <1>2, <2>4 DEF Checked
    <3>2. calls'[c].pc \in {"verify", "simulate"}
      BY <1>2, <3>1 DEF Call
    <3> QED BY <3>2
  <2> QED BY <2>1, <2>2, <2>3, <2>4
<1>4. calls' = [calls EXCEPT ![c] = calls'[c]]
  <2>1. PICK f : calls' = [calls EXCEPT ![c] = f]
    BY DEF Answered, Unauthorized, Started, Checked, Rejected, KeyInProgress,
           OverBudget
  <2> QED BY <1>2, <2>1
<1>5. calls'[c] \in Call
  BY DEF GatewayInv, TypeOK
<1>6. MarksKept
  BY <1>1, <1>3, <1>4, <1>5, QuietMarks
<1>7. Backed(reservations', Marks, now)
  <2>1. CASE OverBudget(c)
    <3>1. calls[c].started \in Nat /\ calls[c].started <= now
      BY <2>1, SimulatedView DEF OverBudget
    <3> QED BY <2>1, <3>1, <1>2, BackedLive DEF OverBudget, LimitInv
  <2>2. CASE ~OverBudget(c)
    <3>1. reservations' = reservations
      BY <2>2 DEF Answered, Unauthorized, Started, Checked, Rejected, KeyInProgress
    <3> QED BY <3>1 DEF LimitInv
  <2> QED BY <2>1, <2>2
<1> QED BY <1>1, <1>2, <1>6, <1>7, MarksKeptLimits DEF LimitInv

LEMMA CommittedLimits ==
  ASSUME GatewayInv, LimitInv, GatewayInv', NEW c \in Calls, Committed(c)
  PROVE  LimitInv'
<1>1. calls \in [Calls -> Call] /\ now \in Nat /\ calls'[c] \in Call
      /\ IsLedger(reservations)
  BY DEF GatewayInv, TypeOK
<1>2. /\ calls[c].pc = "answer" /\ calls'[c].pc = "done"
      /\ calls' = [calls EXCEPT ![c] = calls'[c]]
      /\ tasks' = tasks /\ config' = config /\ now' = now
      /\ calls[c].key \in DOMAIN reservations
      /\ reservations' = [reservations EXCEPT ![calls[c].key].task = calls[c].task]
      /\ file' = reservations'
  BY <1>1 DEF Committed, world
<1>3. MarksKept
  BY <1>1, <1>2, QuietMarks
<1>4. /\ DOMAIN reservations' = DOMAIN reservations
      /\ \A k \in DOMAIN reservations :
           /\ reservations'[k].createdAt = reservations[k].createdAt
           /\ reservations'[k].user = reservations[k].user
           /\ reservations'[k].ip = reservations[k].ip
  BY <1>1, <1>2 DEF IsLedger, Reservation
<1>5. Backed(reservations', Marks, now)
  BY <1>4 DEF LimitInv, Backed
<1> QED BY <1>1, <1>2, <1>3, <1>5, MarksKeptLimits

LEMMA TickLimits ==
  ASSUME GatewayInv, LimitInv, GatewayInv', Tick
  PROVE  LimitInv'
<1>1. now \in Nat /\ now' = now + 1 /\ config' = config /\ calls' = calls
      /\ tasks' = tasks /\ reservations' = reservations /\ file' = file
  BY DEF GatewayInv, TypeOK, Tick
<1>2. Counted' = Counted /\ Sending' = Sending
  BY <1>1 DEF Counted, Sending
<1>3. Marks' = Marks
  BY <1>1, <1>2 DEF Marks
<1>4. MarksKept
  BY <1>1, <1>2, <1>3 DEF LimitInv, MarksKept, Separate, Awaited, Budgets
<1> QED BY <1>1, <1>4, MarksKeptLimits DEF LimitInv

LEMMA ExecuteLimits ==
  ASSUME GatewayInv, LimitInv, GatewayInv', NEW i \in DOMAIN tasks, Execute(i)
  PROVE  LimitInv'
<1>1. /\ config' = config /\ now' = now /\ now \in Nat /\ calls' = calls
      /\ reservations' = reservations /\ file' = file
  BY DEF Execute, GatewayInv, TypeOK
<1>2. /\ DOMAIN tasks' = DOMAIN tasks
      /\ \A j \in DOMAIN tasks :
           /\ tasks'[j].key = tasks[j].key /\ tasks'[j].user = tasks[j].user
           /\ tasks'[j].ip = tasks[j].ip /\ tasks'[j].counted = tasks[j].counted
           /\ tasks'[j].createdAt = tasks[j].createdAt
  <2>1. tasks \in Seq(Task) /\ DOMAIN tasks = 1 .. Len(tasks)
    BY LenProperties DEF GatewayInv, TypeOK
  <2>2. \A j \in DOMAIN tasks : tasks[j] \in Task
    BY <2>1, ElementOfSeq
  <2>3. tasks' = [tasks EXCEPT ![i].executed = TRUE]
    BY DEF Execute
  <2>4. tasks \in [DOMAIN tasks -> Task]
    BY <2>1, <2>2
  <2> QED BY <2>2, <2>3, <2>4 DEF Task
<1>3. Counted' = Counted /\ Sending' = Sending
  BY <1>1, <1>2 DEF Counted, Sending
<1>4. \A j \in Counted : TaskMark(tasks'[j]) = TaskMark(tasks[j])
  BY <1>2 DEF TaskMark, Counted
<1>5. Marks' = Marks
  BY <1>1, <1>3, <1>4 DEF Marks
<1>6. Separate' /\ Awaited'
  BY <1>1, <1>2, <1>3 DEF LimitInv, Separate, Awaited, Counted
<1>7. MarksKept
  BY <1>1, <1>5, <1>6 DEF LimitInv, MarksKept, Budgets
<1> QED BY <1>1, <1>7, MarksKeptLimits DEF LimitInv

\* A step after which fewer marks are left.
LEMMA FewerMarks ==
  ASSUME GatewayInv, LimitInv, GatewayInv', Marks' \subseteq Marks,
         config' = config, now' = now, Separate', Awaited',
         Backed(reservations', Marks', now), Backed(file', Marks', now)
  PROVE  LimitInv'
<1>1. TypeOK /\ Marks \in SUBSET Mark
  BY MarksTyped DEF GatewayInv
<1>2. Budgets(Marks')
  BY <1>1, BudgetsShrink DEF LimitInv
<1>3. Budgets(Marks)'
  BY <1>2 DEF Budgets
<1> QED BY <1>3 DEF LimitInv

LEMMA CrashLimits ==
  ASSUME GatewayInv, LimitInv, GatewayInv', Crash
  PROVE  LimitInv'
<1>1. /\ config' = config /\ now' = now /\ now \in Nat /\ tasks' = tasks
      /\ reservations' = file /\ file' = file
  BY DEF Crash, GatewayInv, TypeOK
<1>2. \A c \in Calls : calls'[c].pc \notin Waiting
  <2>1. \A c \in Calls : calls[c] \in Call
    BY DEF GatewayInv, TypeOK
  <2>2. calls' = [c \in Calls |->
                   IF calls[c].pc \in Waiting
                     THEN [calls[c] EXCEPT !.pc = "done", !.task = 0]
                     ELSE calls[c]]
    BY DEF Crash
  <2> QED BY <2>1, <2>2 DEF Call, Waiting
<1>3. Counted' = Counted /\ Sending' = {}
  BY <1>1, <1>2 DEF Counted, Sending, Waiting
<1>4. Marks' \subseteq Marks
  BY <1>1, <1>3 DEF Marks
<1>5. Separate' /\ Awaited'
  BY <1>1, <1>2, <1>3 DEF LimitInv, Separate, Awaited, Waiting
<1>6. Backed(file, Marks', now)
  BY <1>1, <1>4, MarksTyped, BackedLess DEF LimitInv, GatewayInv
<1> QED BY <1>1, <1>4, <1>5, <1>6, FewerMarks

\* Of two calls with one key, one at most is in flight.
LEMMA FlightAlone ==
  ASSUME GatewayInv, NEW c \in Calls, NEW d \in Calls, c # d,
         calls[c].pc \in {"relay", "answer"}, calls[d].pc \in {"relay", "answer"}
  PROVE  calls[c].key # calls[d].key
BY ViewTyped DEF GatewayInv, Pairs

\* A call in flight holds the reservation of its key, in the map and the file.
LEMMA FlightHolds ==
  ASSUME GatewayInv, NEW c \in Calls, calls[c].pc \in {"relay", "answer"}
  PROVE  /\ reservations[calls[c].key].createdAt = calls[c].started
         /\ calls[c].task = 0 <=> calls[c].pc = "relay"
         /\ calls[c].pc = "answer" => tasks[calls[c].task].createdAt = calls[c].started
<1>1. view[c] = Flight(calls[c].key, calls[c].started)
  BY DEF view, Seen
<1> QED BY <1>1 DEF GatewayInv, LedgerInv, Flying, Flight, Numbers, Numbered

LEMMA RolledBackLimits ==
  ASSUME GatewayInv, LimitInv, GatewayInv', NEW c \in Calls, RolledBack(c)
  PROVE  LimitInv'
<1> DEFINE key == calls[c].key
<1>1. /\ config' = config /\ now' = now /\ now \in Nat
      /\ calls[c].pc \in {"relay", "answer"} /\ calls'[c].pc = "done"
      /\ \A d \in Calls : d # c => calls'[d] = calls[d]
      /\ reservations' = Without(reservations, key)
      /\ file' \in {file, reservations'}
  BY DEF RolledBack, GatewayInv, TypeOK, world, Call
<1>2. /\ DOMAIN tasks' = DOMAIN tasks
      /\ \A j \in DOMAIN tasks :
           /\ tasks'[j].key = tasks[j].key /\ tasks'[j].user = tasks[j].user
           /\ tasks'[j].ip = tasks[j].ip /\ tasks'[j].createdAt = tasks[j].createdAt
           /\ tasks'[j].counted <=> tasks[j].counted /\ j # calls[c].task
  <2>1. \A j \in DOMAIN tasks : tasks[j] \in Task
    BY ElementOfSeq, LenProperties DEF GatewayInv, TypeOK
  <2>2. tasks' = [i \in DOMAIN tasks |->
                   IF i = calls[c].task THEN [tasks[i] EXCEPT !.counted = FALSE]
                                        ELSE tasks[i]]
    BY DEF RolledBack
  <2> QED BY <2>1, <2>2 DEF Task
<1>3. Counted' = Counted \ {calls[c].task} /\ Sending' = Sending \ {c}
  BY <1>1, <1>2 DEF Counted, Sending
<1>4. /\ \A j \in Counted : TaskMark(tasks'[j]) = TaskMark(tasks[j])
      /\ \A d \in Sending' : calls'[d] = calls[d]
  <2>1. \A j \in Counted : TaskMark(tasks'[j]) = TaskMark(tasks[j])
    BY <1>2 DEF TaskMark, Counted
  <2>2. \A d \in Sending' : calls'[d] = calls[d]
    BY <1>1, <1>3 DEF Sending
  <2> QED BY <2>1, <2>2
<1>5. Marks' \subseteq Marks
  BY <1>3, <1>4 DEF Marks
<1>6. Separate'
  BY <1>2, <1>3, <1>4 DEF LimitInv, Separate, Counted
<1>7. Awaited'
  <2>1. ASSUME NEW d \in Calls, d # c, calls[d].pc = "answer"
        PROVE  calls[d].task # calls[c].task
    <3>1. calls[d].task \in Counted /\ tasks[calls[d].task].key = calls[d].key
      BY <2>1 DEF LimitInv, Awaited
    <3>2. calls[c].pc = "answer" => tasks[calls[c].task].key = key
      BY DEF LimitInv, Awaited
    <3>3. calls[d].key # key
      BY <1>1, <2>1, FlightAlone
    <3>4. calls[c].pc = "relay" => calls[c].task = 0
      BY <1>1, FlightHolds
    <3>5. calls[d].task # 0
      BY <2>1 DEF GatewayInv, Numbers, Numbered
    <3> QED BY <1>1, <3>1, <3>2, <3>3, <3>4, <3>5
  <2>2. \A d \in Calls : calls'[d].pc = "answer" => d # c /\ calls[d].pc = "answer"
    BY <1>1
  <2> QED BY <1>1, <1>2, <1>3, <2>1, <2>2 DEF LimitInv, Awaited, Counted
<1>8. ASSUME NEW m \in Marks', m.key = key, m.at > now - Day
      PROVE  FALSE
  <2>1. m.at = calls[c].started
    <3>1. m \in Marks
      BY <1>5
    <3>2. reservations[key].createdAt = m.at
      BY <1>8, <3>1 DEF LimitInv, Backed
    <3> QED BY <1>1, <3>2, FlightHolds
  <2>2. calls[c].started \in Nat /\ ~Apart(calls[c].started, calls[c].started)
    BY CallTyped, Limits DEF GatewayInv, Apart
  <2>3. CASE \E d \in Sending \ {c} : m = CallMark(calls[d])
    <3>1. PICK d \in Sending \ {c} : m = CallMark(calls[d])
      BY <2>3
    <3>2. calls[d].key = key /\ calls[d].pc = "relay" /\ d \in Calls
      BY <1>8, <3>1 DEF CallMark, Sending
    <3> QED BY <1>1, <3>1, <3>2, FlightAlone
  <2>4. CASE \E j \in Counted \ {calls[c].task} : m = TaskMark(tasks[j])
    <3>1. PICK j \in Counted \ {calls[c].task} : m = TaskMark(tasks[j])
      BY <2>4
    <3>2. tasks[j].key = key /\ tasks[j].createdAt = calls[c].started
      BY <1>8, <2>1, <3>1 DEF TaskMark
    <3>3. CASE calls[c].pc = "relay"
      BY <2>2, <3>1, <3>2, <3>3 DEF LimitInv, Separate, Sending
    <3>4. CASE calls[c].pc = "answer"
      <4>1. /\ calls[c].task \in Counted /\ tasks[calls[c].task].key = key
            /\ tasks[calls[c].task].createdAt = calls[c].started
        BY <3>4, FlightHolds DEF LimitInv, Awaited
      <4> QED BY <2>2, <3>1, <3>2, <4>1 DEF LimitInv, Separate
    <3> QED BY <1>1, <3>3, <3>4
  <2> QED BY <1>3, <1>4, <2>3, <2>4 DEF Marks
<1>9. Backed(reservations', Marks', now)
  BY <1>1, <1>5, <1>8, BackedWithout DEF LimitInv
<1>10. Backed(file, Marks', now)
  BY <1>1, <1>5, MarksTyped, BackedLess DEF LimitInv, GatewayInv
<1> QED BY <1>1, <1>5, <1>6, <1>7, <1>9, <1>10, FewerMarks

\* The mark of the call becomes that of its task.
LEMMA RelayAcceptsLimits ==
  ASSUME GatewayInv, LimitInv, GatewayInv', NEW c \in Calls, RelayAccepts(c)
  PROVE  LimitInv'
<1> DEFINE n == Len(tasks) + 1
           k == calls[c]
<1>1. /\ config' = config /\ now' = now /\ now \in Nat
      /\ reservations' = reservations /\ file' = file
      /\ k.pc = "relay" /\ calls'[c].pc = "answer" /\ calls'[c].task = n
      /\ calls'[c].key = k.key
      /\ \A d \in Calls : d # c => calls'[d] = calls[d]
  BY DEF RelayAccepts, GatewayInv, TypeOK, world, Call
<1>2. /\ DOMAIN tasks = 1 .. Len(tasks) /\ n \notin DOMAIN tasks
      /\ DOMAIN tasks' = DOMAIN tasks \cup {n}
      /\ \A j \in DOMAIN tasks : tasks'[j] = tasks[j]
      /\ tasks'[n].key = k.key /\ tasks'[n].user = k.user /\ tasks'[n].ip = k.ip
      /\ tasks'[n].createdAt = k.started /\ tasks'[n].counted
  <2> DEFINE x == [key |-> k.key, user |-> k.user, ip |-> k.ip,
                   nonce |-> k.nonce, createdAt |-> k.started,
                   counted |-> TRUE, executed |-> FALSE]
  <2>1. tasks \in Seq(Task) /\ x \in Task /\ tasks' = Append(tasks, x)
    BY CallTyped DEF GatewayInv, TypeOK, Task, RelayAccepts
  <2>2. Len(tasks) \in Nat /\ DOMAIN tasks = 1 .. Len(tasks)
    BY <2>1, LenProperties
  <2>3. /\ x.key = k.key /\ x.user = k.user /\ x.ip = k.ip
        /\ x.createdAt = k.started /\ x.counted
    OBVIOUS
  <2> HIDE DEF x, k
  <2>4. /\ tasks' \in Seq(Task) /\ Len(tasks') = n /\ tasks'[n] = x
        /\ \A i \in 1 .. Len(tasks) : tasks'[i] = tasks[i]
    BY <2>1, <2>2, AppendProperties
  <2>5. DOMAIN tasks' = 1 .. n
    BY <2>4, LenProperties
  <2> QED BY <2>2, <2>3, <2>4, <2>5
<1> HIDE DEF n
<1>3. Counted' = Counted \cup {n} /\ Sending' = Sending \ {c} /\ c \in Sending
  BY <1>1, <1>2 DEF Counted, Sending
<1>4. /\ \A j \in Counted : tasks'[j] = tasks[j]
      /\ TaskMark(tasks'[n]) = CallMark(k)
      /\ \A d \in Sending' : calls'[d] = calls[d] /\ d # c /\ d \in Calls
  <2>1. \A j \in Counted : tasks'[j] = tasks[j]
    BY <1>2 DEF Counted
  <2>2. TaskMark(tasks'[n]) = CallMark(k)
    BY <1>2 DEF TaskMark, CallMark
  <2>3. \A d \in Sending' : calls'[d] = calls[d] /\ d # c /\ d \in Calls
    BY <1>1, <1>3 DEF Sending
  <2> QED BY <2>1, <2>2, <2>3
<1>5. Marks' = Marks
  BY <1>3, <1>4 DEF Marks
<1>6. Separate'
  <2>1. ASSUME NEW j \in Counted, tasks[j].key = k.key
        PROVE  Apart(k.started, tasks[j].createdAt) /\ Apart(tasks[j].createdAt, k.started)
    BY <1>3, <2>1 DEF LimitInv, Separate, Apart
  <2>2. ASSUME NEW d \in Sending'
        PROVE  calls[d].key # k.key
    <3>1. calls[d].pc = "relay" /\ d # c /\ d \in Calls
      BY <1>3, <1>4 DEF Sending
    <3> QED BY <1>1, <3>1, FlightAlone
  <2>3. \A i, j \in Counted' :
          i # j /\ tasks'[i].key = tasks'[j].key =>
            Apart(tasks'[i].createdAt, tasks'[j].createdAt)
    BY <1>2, <1>3, <1>4, <2>1 DEF LimitInv, Separate
  <2>4. \A d \in Sending', i \in Counted' :
          calls'[d].key = tasks'[i].key => Apart(calls'[d].started, tasks'[i].createdAt)
    BY <1>2, <1>3, <1>4, <2>2 DEF LimitInv, Separate
  <2> QED BY <2>3, <2>4 DEF Separate
<1>7. Awaited'
  BY <1>1, <1>2, <1>3, <1>4 DEF LimitInv, Awaited
<1>8. MarksKept
  BY <1>1, <1>5, <1>6, <1>7 DEF LimitInv, MarksKept, Budgets
<1> QED BY <1>1, <1>8, MarksKeptLimits DEF LimitInv

\* The marks in a window of the call's are behind reservations it counts.
LEMMA WindowSeen ==
  ASSUME NEW r, IsLedger(r), NEW M \in SUBSET Mark, NEW t \in Nat, Backed(r, M, t),
         NEW s \in Nat, t <= s + MaxLatency,
         NEW a \in Nat, NEW span \in Nat, span <= SafeDay,
         NEW us \in SUBSET Users, NEW ps \in SUBSET Ips,
         NEW x \in Window(a, span, us, ps), x.at = s
  PROVE  KeysOf(M \cap Window(a, span, us, ps)) \subseteq
           {key \in DOMAIN Live(r, s) :
              /\ Live(r, s)[key].createdAt > s - span
              /\ Live(r, s)[key].user \in us /\ Live(r, s)[key].ip \in ps}
<1> SUFFICES ASSUME NEW m \in M, m \in Window(a, span, us, ps)
             PROVE  /\ m.key \in DOMAIN Live(r, s)
                    /\ Live(r, s)[m.key].createdAt > s - span
                    /\ Live(r, s)[m.key].user \in us /\ Live(r, s)[m.key].ip \in ps
  BY DEF KeysOf
<1>1. /\ m.at \in Nat /\ m.at >= a /\ m.user \in us /\ m.ip \in ps
      /\ s <= a + span - 1
  BY DEF Window, Mark
<1>2. m.at > s - span /\ m.at > s - Day /\ m.at > t - Day
  BY <1>1, Limits
<1>3. /\ m.key \in DOMAIN r /\ r[m.key].createdAt = m.at
      /\ r[m.key].user = m.user /\ r[m.key].ip = m.ip
  BY <1>2 DEF Backed
<1>4. m.key \in DOMAIN Live(r, s) /\ Live(r, s)[m.key] = r[m.key]
  BY <1>2, <1>3 DEF Live, Restrict
<1> QED BY <1>1, <1>2, <1>3, <1>4

\* The budgets that reserve checks are those of every window the call is in.
LEMMA ReservedBudgets ==
  ASSUME GatewayInv, LimitInv, NEW c \in Calls, Reserved(c)
  PROVE  Budgets(Marks \cup {CallMark(calls[c])})
<1> DEFINE s == calls[c].started
           x == CallMark(calls[c])
           live == Live(reservations, s)
           hour == {key \in DOMAIN live : live[key].createdAt > s - Hour}
           ofUser == {key \in DOMAIN live : live[key].user = calls[c].user}
           ofIp == {key \in hour : live[key].ip = calls[c].ip}
<1>1. /\ Marks \in SUBSET Mark /\ IsLedger(reservations) /\ now \in Nat
      /\ Backed(reservations, Marks, now) /\ Budgets(Marks)
  BY MarksTyped DEF GatewayInv, TypeOK, LimitInv
<1>2. /\ config.globalDailyLimit \in Nat /\ config.walletDailyLimit \in Nat
      /\ config.ipHourlyLimit \in Nat
  BY GatewayAssumption DEF GatewayInv, TypeOK
<1>3. s \in Nat /\ s <= now /\ now <= s + MaxLatency
  BY SimulatedView DEF Reserved
<1>4. x \in Mark /\ x.at = s /\ x.user = calls[c].user /\ x.ip = calls[c].ip
  BY CallTyped DEF GatewayInv, CallMark, Mark
<1>5. /\ Cardinality(DOMAIN live) < config.globalDailyLimit
      /\ Cardinality(ofUser) < config.walletDailyLimit
      /\ Cardinality(ofIp) < config.ipHourlyLimit
  BY DEF Reserved, WithinLimits
<1>6. DOMAIN live \subseteq Keys
  BY <1>1 DEF IsLedger, Live, Restrict
<1>7. Hour \in Nat /\ Hour <= SafeDay
  BY GatewayAssumption DEF SafeDay
<1> HIDE DEF s, x, live
<1>8. ASSUME NEW a \in Nat, NEW span \in {SafeDay, Hour},
             NEW us \in SUBSET Users, NEW ps \in SUBSET Ips,
             x \in Window(a, span, us, ps)
      PROVE  KeysOf(Marks \cap Window(a, span, us, ps)) \subseteq
               {key \in DOMAIN live :
                  /\ live[key].createdAt > s - span
                  /\ live[key].user \in us /\ live[key].ip \in ps}
  <2>1. span \in Nat /\ span <= SafeDay
    BY <1>7, Limits
  <2> QED BY <2>1, <1>1, <1>3, <1>4, <1>8, WindowSeen DEF live
<1>9. ASSUME NEW a \in Nat
      PROVE  Spent(Marks \cup {x}, Window(a, SafeDay, Users, Ips))
               <= config.globalDailyLimit
  <2> DEFINE W == Window(a, SafeDay, Users, Ips)
  <2>1. x \in W => KeysOf(Marks \cap W) \subseteq DOMAIN live
    BY <1>8
  <2>2. Spent(Marks, W) <= config.globalDailyLimit
    BY <1>1 DEF Budgets
  <2> HIDE DEF W
  <2>3. x \in W => \E keys \in SUBSET Keys :
          Cardinality(keys) < config.globalDailyLimit /\ KeysOf(Marks \cap W) \subseteq keys
    BY <1>5, <1>6, <2>1
  <2>4. Spent(Marks \cup {x}, W) <= config.globalDailyLimit
    BY <1>1, <1>2, <1>4, <2>2, <2>3, SpentMore
  <2> QED BY <2>4 DEF W
<1>10. ASSUME NEW a \in Nat, NEW u \in Users
       PROVE  Spent(Marks \cup {x}, Window(a, SafeDay, {u}, Ips))
                <= config.walletDailyLimit
  <2> DEFINE W == Window(a, SafeDay, {u}, Ips)
  <2>1. ASSUME x \in W
        PROVE  KeysOf(Marks \cap W) \subseteq ofUser
    <3>1. u = calls[c].user /\ {u} \in SUBSET Users /\ Ips \in SUBSET Ips
      BY <1>4, <2>1 DEF Window
    <3>2. KeysOf(Marks \cap W) \subseteq
            {key \in DOMAIN live :
               /\ live[key].createdAt > s - SafeDay
               /\ live[key].user \in {u} /\ live[key].ip \in Ips}
      BY <1>8, <2>1, <3>1
    <3> QED BY <3>1, <3>2
  <2>2. Spent(Marks, W) <= config.walletDailyLimit
    BY <1>1 DEF Budgets
  <2>3. ofUser \subseteq Keys
    BY <1>6
  <2> HIDE DEF W, ofUser
  <2>4. Spent(Marks \cup {x}, W) <= config.walletDailyLimit
    BY <1>1, <1>2, <1>4, <1>5, <2>1, <2>2, <2>3, SpentMore
  <2> QED BY <2>4 DEF W
<1>11. ASSUME NEW a \in Nat, NEW p \in Ips
       PROVE  Spent(Marks \cup {x}, Window(a, Hour, Users, {p}))
                <= config.ipHourlyLimit
  <2> DEFINE W == Window(a, Hour, Users, {p})
  <2>1. ASSUME x \in W
        PROVE  KeysOf(Marks \cap W) \subseteq ofIp
    <3>1. p = calls[c].ip /\ {p} \in SUBSET Ips /\ Users \in SUBSET Users
      BY <1>4, <2>1 DEF Window
    <3>2. KeysOf(Marks \cap W) \subseteq
            {key \in DOMAIN live :
               /\ live[key].createdAt > s - Hour
               /\ live[key].user \in Users /\ live[key].ip \in {p}}
      BY <1>8, <2>1, <3>1
    <3> QED BY <3>1, <3>2
  <2>2. Spent(Marks, W) <= config.ipHourlyLimit
    BY <1>1 DEF Budgets
  <2>3. ofIp \in SUBSET Keys /\ Cardinality(ofIp) < config.ipHourlyLimit
    BY <1>5, <1>6
  <2> HIDE DEF W, ofIp, hour, ofUser
  <2>4. x \in W => \E keys \in SUBSET Keys :
          Cardinality(keys) < config.ipHourlyLimit /\ KeysOf(Marks \cap W) \subseteq keys
    BY <2>1, <2>3
  <2>5. Spent(Marks \cup {x}, W) <= config.ipHourlyLimit
    <3> DEFINE limit == config.ipHourlyLimit
    <3>1. limit \in Nat /\ Marks \in SUBSET Mark /\ x \in Mark
      BY <1>1, <1>2, <1>4
    <3>2. Spent(Marks, W) <= limit
      BY <2>2
    <3>3. x \in W => \E keys \in SUBSET Keys :
            Cardinality(keys) < limit /\ KeysOf(Marks \cap W) \subseteq keys
      BY <2>4
    <3> HIDE DEF limit
    <3>4. Spent(Marks \cup {x}, W) <= limit
      BY <3>1, <3>2, <3>3, SpentMore
    <3> QED BY <3>4 DEF limit
  <2> QED BY <2>5 DEF W
<1> QED BY <1>9, <1>10, <1>11 DEF Budgets, x

LEMMA ReservedLimits ==
  ASSUME GatewayInv, LimitInv, GatewayInv', NEW c \in Calls, Reserved(c)
  PROVE  LimitInv'
<1> DEFINE k == calls[c]
           s == k.started
           r == Live(reservations, s)
           e == [user |-> k.user, ip |-> k.ip, createdAt |-> s, task |-> 0]
           x == CallMark(k)
<1>1. /\ config' = config /\ now' = now /\ now \in Nat /\ tasks' = tasks
      /\ k \in Call /\ calls \in [Calls -> Call] /\ k.pc = "simulate"
      /\ k.key \notin DOMAIN reservations
      /\ reservations' = With(r, k.key, e)
      /\ Marks \in SUBSET Mark
  BY MarksTyped DEF Reserved, Simulated, GatewayInv, TypeOK, world
<1>2. s \in Nat /\ s <= now /\ now <= s + MaxLatency
  BY SimulatedView DEF Reserved
<1>3. Backed(reservations', Marks, now)
  <2>1. Backed(r, Marks, now)
    BY <1>1, <1>2, BackedLive DEF LimitInv
  <2>2. k.key \notin DOMAIN r
    BY <1>1 DEF Live, Restrict
  <2> QED BY <1>1, <2>1, <2>2, BackedWith
<1>4. CASE UNCHANGED file /\ calls' = [calls EXCEPT ![c].pc = "done"]
  <2> DEFINE y == [calls[c] EXCEPT !.pc = "done"]
  <2>1. y \in Call /\ y.pc = "done" /\ calls' = [calls EXCEPT ![c] = y]
    BY <1>1, <1>4 DEF Call
  <2> HIDE DEF y
  <2>2. MarksKept
    BY <1>1, <2>1, QuietMarks
  <2> QED BY <1>1, <1>3, <1>4, <2>2, MarksKeptLimits DEF LimitInv
<1>5. CASE file' = reservations' /\ calls' = [calls EXCEPT ![c].pc = "relay"]
  <2>1. /\ calls'[c].pc = "relay" /\ calls'[c].key = k.key /\ calls'[c].started = s
        /\ calls'[c].user = k.user /\ calls'[c].ip = k.ip
        /\ \A d \in Calls : d # c => calls'[d] = calls[d]
    BY <1>1, <1>5 DEF Call
  <2>2. Counted' = Counted /\ Sending' = Sending \cup {c} /\ c \notin Sending
    BY <1>1, <2>1 DEF Counted, Sending
  <2>3. CallMark(calls'[c]) = x /\ \A d \in Sending : calls'[d] = calls[d]
    <3>1. CallMark(calls'[c]) = x
      BY <2>1 DEF CallMark
    <3>2. \A d \in Sending : calls'[d] = calls[d]
      BY <2>1, <2>2 DEF Sending
    <3> QED BY <3>1, <3>2
  <2>4. Marks' = Marks \cup {x}
    BY <1>1, <2>2, <2>3 DEF Marks
  <2>5. Separate'
    <3>1. ASSUME NEW i \in Counted, tasks[i].key = k.key
          PROVE  Apart(s, tasks[i].createdAt)
      <4>1. TaskMark(tasks[i]) \in Marks /\ tasks[i].createdAt \in Nat
        BY MarksTyped DEF Marks, GatewayInv
      <4>2. ~(tasks[i].createdAt > now - Day)
        BY <1>1, <3>1, <4>1 DEF LimitInv, Backed, TaskMark
      <4> QED BY <1>1, <1>2, <4>1, <4>2, Limits DEF Apart
    <3>2. \A d \in Sending', i \in Counted :
            calls'[d].key = tasks[i].key => Apart(calls'[d].started, tasks[i].createdAt)
      BY <2>1, <2>2, <2>3, <3>1 DEF LimitInv, Separate
    <3> QED BY <1>1, <2>2, <3>2 DEF LimitInv, Separate
  <2>6. Awaited'
    BY <1>1, <2>1, <2>2 DEF LimitInv, Awaited
  <2>7. Budgets(Marks)'
    <3>1. Budgets(Marks \cup {x})
      BY ReservedBudgets
    <3> HIDE DEF x
    <3> QED BY <1>1, <2>4, <3>1 DEF Budgets
  <2>8. Backed(reservations', Marks', now)
    <3>1. x.key \in DOMAIN reservations' /\ reservations'[x.key] = e
      BY <1>1 DEF With, CallMark
    <3>2. x.at = e.createdAt /\ x.user = e.user /\ x.ip = e.ip
      BY DEF CallMark
    <3> HIDE DEF x, e
    <3> QED BY <1>3, <2>4, <3>1, <3>2 DEF Backed
  <2> QED BY <1>1, <1>5, <2>5, <2>6, <2>7, <2>8 DEF LimitInv
<1> QED BY <1>4, <1>5 DEF Reserved

LEMMA InitLimits == Init => LimitInv
<1> SUFFICES ASSUME Init PROVE LimitInv
  OBVIOUS
<1>1. GatewayInv
  BY InitEstablishes
<1>2. Counted = {} /\ Sending = {} /\ \A c \in Calls : calls[c].pc = "new"
  BY DEF Init, Counted, Sending
<1>3. Marks = {}
  BY <1>2 DEF Marks
<1>4. \A W : Spent({}, W) = 0
  BY FS_EmptySet DEF Spent, KeysOf
<1>5. Budgets(Marks)
  BY <1>1, <1>3, <1>4, GatewayAssumption DEF Budgets, GatewayInv, TypeOK
<1> QED BY <1>2, <1>3, <1>5 DEF LimitInv, Backed, Separate, Awaited

LEMMA NextLimits == GatewayInv /\ LimitInv /\ [Next]_vars => LimitInv'
<1> SUFFICES ASSUME GatewayInv, LimitInv, [Next]_vars PROVE LimitInv'
  OBVIOUS
<1>1. GatewayInv'
  BY NextKeeps
<1>2. ASSUME NEW c \in Calls,
             \/ Answered(c) \/ Unauthorized(c) \/ Started(c) \/ Checked(c) \/ Rejected(c)
             \/ KeyInProgress(c) \/ OverBudget(c) \/ Reserved(c)
             \/ RelayAccepts(c) \/ Committed(c) \/ RolledBack(c)
      PROVE  LimitInv'
  BY <1>1, <1>2, BeforeReservationLimits, ReservedLimits, RelayAcceptsLimits,
     CommittedLimits, RolledBackLimits
<1>3. ASSUME NEW i \in DOMAIN tasks, Execute(i) PROVE LimitInv'
  BY <1>1, <1>3, ExecuteLimits
<1>4. CASE UNCHANGED vars
  <2>1. Counted' = Counted /\ Sending' = Sending
    BY <1>4 DEF vars, Counted, Sending
  <2>2. Marks' = Marks
    BY <1>4, <2>1 DEF vars, Marks
  <2> QED BY <1>4, <2>1, <2>2 DEF vars, LimitInv, Backed, Separate, Awaited, Budgets
<1> QED BY <1>1, <1>2, <1>3, <1>4, CrashLimits, TickLimits DEF Next

\* The tasks of some users and addresses, from task i on.
Sent(i, span, us, ps) ==
  {j \in Counted : Within(span, i, j) /\ tasks[j].user \in us /\ tasks[j].ip \in ps}

\* The keys of a window's tasks are different, so their number is what was spent.
LEMMA TasksSpent ==
  ASSUME GatewayInv, LimitInv, NEW i \in DOMAIN tasks,
         NEW span \in Nat, span <= SafeDay,
         NEW us \in SUBSET Users, NEW ps \in SUBSET Ips,
         NEW S \in SUBSET Sent(i, span, us, ps),
         NEW limit \in Nat,
         Spent(Marks, Window(tasks[i].createdAt, span, us, ps)) <= limit
  PROVE  Cardinality(S) <= limit
<1> DEFINE a == tasks[i].createdAt
           T == KeysOf(Marks \cap Window(a, span, us, ps))
           f == [j \in S |-> tasks[j].key]
<1>1. IsFiniteSet(T) /\ Cardinality(T) \in Nat /\ Cardinality(T) <= limit
  <2>1. (Marks \cap Window(a, span, us, ps)) \in SUBSET Mark
    BY MarksTyped DEF GatewayInv
  <2> QED BY <2>1, KeysFinite DEF Spent
<1>2. a \in Nat
  BY TaskTyped, LenProperties DEF GatewayInv, TypeOK
<1>3. \A j \in S : tasks[j] \in Task /\ tasks[j].createdAt \in Nat
                  /\ tasks[j].createdAt - a \in 0 .. (span - 1)
  BY MarksTyped DEF GatewayInv, Within, Sent
<1>4. ASSUME NEW j \in S PROVE tasks[j].key \in T
  <2>1. TaskMark(tasks[j]) \in Marks
    BY DEF Marks, Sent
  <2>2. TaskMark(tasks[j]) \in Window(a, span, us, ps)
    BY <1>2, <1>3 DEF TaskMark, Window, Task, Sent
  <2>3. TaskMark(tasks[j]).key = tasks[j].key
    BY DEF TaskMark
  <2> QED BY <2>1, <2>2, <2>3 DEF KeysOf
<1>5. ASSUME NEW j \in S, NEW l \in S, j # l PROVE tasks[j].key # tasks[l].key
  <2>1. ~Apart(tasks[j].createdAt, tasks[l].createdAt)
    BY <1>2, <1>3, Limits DEF Apart
  <2> QED BY <1>5, <2>1 DEF LimitInv, Separate, Sent
<1> HIDE DEF T, a
<1>6. f \in Injection(S, T)
  <2>1. f \in [S -> T] /\ \A j \in S : f[j] = tasks[j].key
    BY <1>4
  <2> HIDE DEF f
  <2>2. \A j, l \in S : j # l => f[j] # f[l]
    BY <1>5, <2>1
  <2> QED BY <2>1, <2>2 DEF Injection, IsInjective
<1> HIDE DEF f
<1>7. IsFiniteSet(S) /\ Cardinality(S) <= Cardinality(T)
  BY <1>1, <1>6, FS_Injection
<1>8. Cardinality(S) \in Nat
  BY <1>7, FS_CardinalityType
<1> QED BY <1>1, <1>7, <1>8

\* In no day less a call's latency, and in no hour for one address, does the
\* gateway send more than its limits, whatever the number of calls and crashes.
THEOREM LimitsKept == Spec => []LimitsHold
<1>1. GatewayInv /\ LimitInv => LimitsHold
  <2> SUFFICES ASSUME GatewayInv, LimitInv, NEW i \in DOMAIN tasks
               PROVE  LET counted(span) ==
                            {j \in DOMAIN tasks : tasks[j].counted /\ Within(span, i, j)}
                          inDay == counted(SafeDay)
                      IN  /\ Cardinality(inDay) <= config.globalDailyLimit
                          /\ \A u \in Users :
                               Cardinality({j \in inDay : tasks[j].user = u})
                                 <= config.walletDailyLimit
                          /\ \A ip \in Ips :
                               Cardinality({j \in counted(Hour) : tasks[j].ip = ip})
                                 <= config.ipHourlyLimit
    BY DEF LimitsHold
  <2> DEFINE counted(span) ==
               {j \in DOMAIN tasks : tasks[j].counted /\ Within(span, i, j)}
             a == tasks[i].createdAt
  <2>1. /\ config.globalDailyLimit \in Nat /\ config.walletDailyLimit \in Nat
        /\ config.ipHourlyLimit \in Nat
    BY GatewayAssumption DEF GatewayInv, TypeOK
  <2>2. SafeDay \in Nat /\ Hour \in Nat /\ Hour <= SafeDay
    BY GatewayAssumption, Limits DEF SafeDay
  <2>3. \A j \in Counted : tasks[j].user \in Users /\ tasks[j].ip \in Ips
    BY MarksTyped DEF GatewayInv, Task
  <2>4. a \in Nat /\ Budgets(Marks)
    BY TaskTyped, LenProperties DEF GatewayInv, TypeOK, LimitInv
  <2>5. \A span : counted(span) = {j \in Counted : Within(span, i, j)}
    BY DEF Counted
  <2> HIDE DEF counted
  <2>6. Cardinality(counted(SafeDay)) <= config.globalDailyLimit
    <3>1. Spent(Marks, Window(a, SafeDay, Users, Ips)) <= config.globalDailyLimit
      BY <2>4 DEF Budgets
    <3>2. counted(SafeDay) \in SUBSET Sent(i, SafeDay, Users, Ips)
      BY <2>3, <2>5 DEF Sent
    <3> QED BY <2>1, <2>2, <3>1, <3>2, TasksSpent
  <2>7. ASSUME NEW u \in Users
        PROVE  Cardinality({j \in counted(SafeDay) : tasks[j].user = u})
                 <= config.walletDailyLimit
    <3> DEFINE S == {j \in counted(SafeDay) : tasks[j].user = u}
    <3>1. Spent(Marks, Window(a, SafeDay, {u}, Ips)) <= config.walletDailyLimit
      BY <2>4 DEF Budgets
    <3>2. S \in SUBSET Sent(i, SafeDay, {u}, Ips)
      BY <2>3, <2>5 DEF Sent
    <3> HIDE DEF S
    <3>3. Cardinality(S) <= config.walletDailyLimit
      <4> DEFINE us == {u}
                 limit == config.walletDailyLimit
      <4>1. us \in SUBSET Users /\ Ips \in SUBSET Ips /\ limit \in Nat
            /\ Spent(Marks, Window(tasks[i].createdAt, SafeDay, us, Ips)) <= limit
            /\ S \in SUBSET Sent(i, SafeDay, us, Ips)
        BY <2>1, <3>1, <3>2
      <4> HIDE DEF us, limit
      <4>2. Cardinality(S) <= limit
        BY <2>2, <4>1, TasksSpent
      <4> QED BY <4>2 DEF limit
    <3> QED BY <3>3 DEF S
  <2>8. ASSUME NEW ip \in Ips
        PROVE  Cardinality({j \in counted(Hour) : tasks[j].ip = ip})
                 <= config.ipHourlyLimit
    <3> DEFINE S == {j \in counted(Hour) : tasks[j].ip = ip}
    <3>1. Spent(Marks, Window(a, Hour, Users, {ip})) <= config.ipHourlyLimit
      BY <2>4 DEF Budgets
    <3>2. S \in SUBSET Sent(i, Hour, Users, {ip})
      BY <2>3, <2>5 DEF Sent
    <3> HIDE DEF S
    <3>3. Cardinality(S) <= config.ipHourlyLimit
      <4>1. {ip} \in SUBSET Ips /\ Users \in SUBSET Users
        OBVIOUS
      <4> QED BY <2>1, <2>2, <3>1, <3>2, <4>1, TasksSpent
    <3> QED BY <3>3 DEF S
  <2> QED BY <2>6, <2>7, <2>8 DEF counted
<1>2. Init => GatewayInv /\ LimitInv
  BY InitEstablishes, InitLimits
<1>3. GatewayInv /\ LimitInv /\ [Next]_vars => (GatewayInv /\ LimitInv)'
  BY NextKeeps, NextLimits
<1> QED BY <1>1, <1>2, <1>3, PTL DEF Spec
=============================================================================
