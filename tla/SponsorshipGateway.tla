------------------------- MODULE SponsorshipGateway -------------------------
(***************************************************************************)
(* The sponsored relay of the gateway: submitRelay of service.ts and the   *)
(* reservations of ledger.ts, with their file (ledgerFile.ts).             *)
(*                                                                         *)
(* A call is one POST /v1/relay/submit.  It runs alone between two awaits, *)
(* so each stretch of it is one action; other calls, the chain, the relay  *)
(* provider and a crash of the process come in between.  What a request    *)
(* calls, and with how much gas, is left out.                              *)
(***************************************************************************)
EXTENDS Integers, Sequences, FiniteSets, Functions

CONSTANTS
  Calls,             \* bound on the number of calls
  Keys,              \* idempotency keys
  Users,
  Ips,
  Configs,           \* the limits the gateway may be started with
  Hour, Day,         \* 3_600 and 86_400 seconds
  MaxLatency,        \* bound on the duration of a call
  MaxTime,           \* bound on the clock
  MaxCrashes         \* bound on the number of restarts

ASSUME GatewayAssumption ==
  /\ IsFiniteSet(Calls) /\ IsFiniteSet(Keys)
  /\ Configs \subseteq [globalDailyLimit : Nat, walletDailyLimit : Nat,
                         ipHourlyLimit : Nat]
  /\ Hour \in Nat \ {0} /\ Day \in Nat /\ Day >= Hour
  /\ MaxLatency \in Nat /\ MaxLatency <= Day - Hour
  /\ MaxTime \in Nat /\ MaxCrashes \in Nat

\* A task is named by its place in tasks; 0 stands for none.
Reservation == [user : Users, ip : Ips, createdAt : Nat, task : Nat]

\* What the ledger and its file hold: a reservation for some of the keys.
IsLedger(r) == DOMAIN r \subseteq Keys /\ r \in [DOMAIN r -> Reservation]

VARIABLES
  config,
  now,
  reservations,  \* the map of SponsorshipLedger
  file,          \* the last snapshot written
  calls,         \* where each call stands, and what it was asked
  chainNonce,    \* the forwarder's nonce of every user
  tasks,         \* the transactions the relay provider accepted
  crashes

vars == <<config, now, reservations, file, calls, chainNonce, tasks, crashes>>

\* Where a call awaits: the nonce, the signature, the simulation, the relay,
\* or the relay's answer.
Waiting == {"nonce", "verify", "simulate", "relay", "answer"}

Call ==
  [pc : Waiting \cup {"new", "done"}, key : Keys, user : Users, ip : Ips,
   nonce : Nat, started : Nat, task : Nat]

\* counted: the reservation of the task was not rolled back.
Task ==
  [key : Keys, user : Users, ip : Ips, nonce : Nat, createdAt : Nat,
   counted : BOOLEAN, executed : BOOLEAN]

Init ==
  /\ config \in Configs
  /\ now = 0
  /\ reservations = << >>
  /\ file = << >>
  /\ calls \in [Calls -> [pc : {"new"}, key : Keys, user : Users, ip : Ips,
                         nonce : {0}, started : {0}, task : {0}]]
  /\ chainNonce = [u \in Users |-> 0]
  /\ tasks = << >>
  /\ crashes = 0

world == <<config, now, chainNonce, crashes>>

Without(r, key) == Restrict(r, DOMAIN r \ {key})

With(r, key, reservation) ==
  [x \in DOMAIN r \cup {key} |-> IF x = key THEN reservation ELSE r[x]]

-----------------------------------------------------------------------------
\* Before the reservation.

\* taskFor: a key with a task is answered at once.
Answered(c) ==
  LET k == calls[c]
  IN  /\ k.pc = "new"
      /\ k.key \in DOMAIN reservations
      /\ reservations[k.key].task # 0
      /\ calls' = [calls EXCEPT ![c].pc = "done",
                                ![c].task = reservations[k.key].task]
      /\ UNCHANGED <<world, reservations, file, tasks>>

Unanswered(c) ==
  /\ calls[c].pc = "new"
  /\ calls[c].key \in DOMAIN reservations => reservations[calls[c].key].task = 0

\* authorize refuses what is no sponsored action of a factory, moves native
\* coin or is too long; the request may have expired since, or run for longer
\* than the policy lets it.
Unauthorized(c) ==
  /\ Unanswered(c)
  /\ calls' = [calls EXCEPT ![c].pc = "done"]
  /\ UNCHANGED <<world, reservations, file, tasks>>

\* prepareRelay asked the forwarder for the nonce, some time before.
PreparedNonces(u) == 0 .. chainNonce[u]

\* The clock is read once, before the first await.
Started(c) ==
  LET k == calls[c]
  IN  /\ Unanswered(c)
      /\ \E nonce \in PreparedNonces(k.user) :
           calls' = [calls EXCEPT ![c].pc = "nonce", ![c].nonce = nonce,
                                  ![c].started = now]
      /\ UNCHANGED <<world, reservations, file, tasks>>

\* getNonce and verify, each after its own await
Checked(c) ==
  LET k == calls[c]
  IN  /\ k.pc \in {"nonce", "verify"}
      /\ chainNonce[k.user] = k.nonce
      /\ calls' = [calls EXCEPT ![c].pc =
                     IF k.pc = "nonce" THEN "verify" ELSE "simulate"]
      /\ UNCHANGED <<world, reservations, file, tasks>>

\* A check fails, or the node does not answer.
Rejected(c) ==
  /\ calls[c].pc \in {"nonce", "verify", "simulate"}
  /\ calls' = [calls EXCEPT ![c].pc = "done"]
  /\ UNCHANGED <<world, reservations, file, tasks>>

-----------------------------------------------------------------------------
\* The reservation, in the same stretch as the end of the simulation.

Live(r, started) ==
  Restrict(r, {key \in DOMAIN r : r[key].createdAt > started - Day})

\* Mutant: a wallet's reservations are counted over an hour.
WithinLimitsHourly(live, user, ip, started) ==
  LET keys == DOMAIN live
      lastHour == {key \in keys : live[key].createdAt > started - Hour}
  IN  /\ Cardinality(keys) < config.globalDailyLimit
      /\ Cardinality({key \in lastHour : live[key].user = user})
           < config.walletDailyLimit
      /\ Cardinality({key \in lastHour : live[key].ip = ip}) < config.ipHourlyLimit

WithinLimits(live, user, ip, started) ==
  LET keys == DOMAIN live
      lastHour == {key \in keys : live[key].createdAt > started - Hour}
  IN  /\ Cardinality(keys) < config.globalDailyLimit
      /\ Cardinality({key \in keys : live[key].user = user}) < config.walletDailyLimit
      /\ Cardinality({key \in lastHour : live[key].ip = ip}) < config.ipHourlyLimit

\* The simulation succeeds: the nonce is still the request's.
Simulated(c) ==
  calls[c].pc = "simulate" /\ chainNonce[calls[c].user] = calls[c].nonce

\* The key is reserved already, by a call that has not ended or never will.
\* This is asked before expired reservations are dropped.
KeyInProgress(c) ==
  /\ Simulated(c)
  /\ calls[c].key \in DOMAIN reservations
  /\ calls' = [calls EXCEPT ![c].pc = "done"]
  /\ UNCHANGED <<world, reservations, file, tasks>>

\* Expired reservations are dropped from the map, and the file stays as it is.
OverBudget(c) ==
  LET k == calls[c]
      live == Live(reservations, k.started)
  IN  /\ Simulated(c)
      /\ k.key \notin DOMAIN reservations
      /\ ~WithinLimits(live, k.user, k.ip, k.started)
      /\ reservations' = live
      /\ calls' = [calls EXCEPT ![c].pc = "done"]
      /\ UNCHANGED <<world, file, tasks>>

\* Mutant: the reservation is written with the task only.
ReservedInMemory(c) ==
  LET k == calls[c]
      live == Live(reservations, k.started)
  IN  /\ Simulated(c)
      /\ k.key \notin DOMAIN reservations
      /\ WithinLimits(live, k.user, k.ip, k.started)
      /\ reservations' = With(live, k.key,
           [user |-> k.user, ip |-> k.ip, createdAt |-> k.started, task |-> 0])
      /\ calls' = [calls EXCEPT ![c].pc = "relay"]
      /\ UNCHANGED <<world, file, tasks>>

\* Mutant: the key is not looked up again after the awaits.
ReservedAgain(c) ==
  LET k == calls[c]
      live == Live(Without(reservations, k.key), k.started)
  IN  /\ Simulated(c)
      /\ WithinLimits(live, k.user, k.ip, k.started)
      /\ reservations' = With(live, k.key,
           [user |-> k.user, ip |-> k.ip, createdAt |-> k.started, task |-> 0])
      /\ file' = reservations'
      /\ calls' = [calls EXCEPT ![c].pc = "relay"]
      /\ UNCHANGED <<world, tasks>>

\* The reservation is written, or the write fails: then the call fails and
\* the map keeps the reservation.
Reserved(c) ==
  LET k == calls[c]
      live == Live(reservations, k.started)
  IN  /\ Simulated(c)
      /\ k.key \notin DOMAIN reservations
      /\ WithinLimits(live, k.user, k.ip, k.started)
      /\ reservations' = With(live, k.key,
           [user |-> k.user, ip |-> k.ip, createdAt |-> k.started, task |-> 0])
      /\ \/ file' = reservations' /\ calls' = [calls EXCEPT ![c].pc = "relay"]
         \/ UNCHANGED file /\ calls' = [calls EXCEPT ![c].pc = "done"]
      /\ UNCHANGED <<world, tasks>>

-----------------------------------------------------------------------------
\* The relay.

\* The provider accepts the transaction; its answer is under way.
RelayAccepts(c) ==
  LET k == calls[c]
  IN  /\ k.pc = "relay"
      /\ tasks' = Append(tasks,
           [key |-> k.key, user |-> k.user, ip |-> k.ip, nonce |-> k.nonce,
            createdAt |-> k.started, counted |-> TRUE, executed |-> FALSE])
      /\ calls' = [calls EXCEPT ![c].pc = "answer", ![c].task = Len(tasks) + 1]
      /\ UNCHANGED <<world, reservations, file>>

\* commit, and the answer to the client
Committed(c) ==
  LET k == calls[c]
  IN  /\ k.pc = "answer"
      /\ k.key \in DOMAIN reservations
      /\ reservations' = [reservations EXCEPT ![k.key].task = k.task]
      /\ file' = reservations'
      /\ calls' = [calls EXCEPT ![c].pc = "done"]
      /\ UNCHANGED <<world, tasks>>

\* Mutant: rollback marks the reservation instead of deleting it.
RolledBackMarked(c) ==
  LET k == calls[c]
  IN  /\ k.pc \in {"relay", "answer"}
      /\ k.key \in DOMAIN reservations
      /\ reservations' = [reservations EXCEPT ![k.key].task = -1]
      /\ file' = reservations'
      /\ calls' = [calls EXCEPT ![c].pc = "done", ![c].task = 0]
      /\ UNCHANGED <<world, tasks>>

\* rollback: the provider refused, its answer was lost, or commit failed; the
\* write of the rollback may fail in its turn.
RolledBack(c) ==
  LET k == calls[c]
  IN  /\ k.pc \in {"relay", "answer"}
      /\ reservations' = Without(reservations, k.key)
      /\ file' \in {file, reservations'}
      /\ calls' = [calls EXCEPT ![c].pc = "done", ![c].task = 0]
      /\ tasks' = [i \in DOMAIN tasks |->
                     IF i = k.task THEN [tasks[i] EXCEPT !.counted = FALSE]
                                   ELSE tasks[i]]
      /\ UNCHANGED world

-----------------------------------------------------------------------------
\* The chain executes a task whose nonce is the user's; another one reverts.
Execute(i) ==
  /\ ~tasks[i].executed
  /\ tasks' = [tasks EXCEPT ![i].executed = TRUE]
  /\ chainNonce' = [chainNonce EXCEPT ![tasks[i].user] =
                      IF @ = tasks[i].nonce THEN @ + 1 ELSE @]
  /\ UNCHANGED <<config, now, reservations, file, calls, crashes>>

\* The process stops and starts again from the file: the calls under way get
\* no answer.
Crash ==
  /\ crashes < MaxCrashes
  /\ crashes' = crashes + 1
  /\ reservations' = file
  /\ calls' = [c \in Calls |->
                 IF calls[c].pc \in Waiting
                   THEN [calls[c] EXCEPT !.pc = "done", !.task = 0]
                   ELSE calls[c]]
  /\ UNCHANGED <<config, now, file, chainNonce, tasks>>

Tick ==
  /\ now < MaxTime
  /\ \A c \in Calls : calls[c].pc \in Waiting =>
       now - calls[c].started < MaxLatency
  /\ now' = now + 1
  /\ UNCHANGED <<config, reservations, file, calls, chainNonce, tasks, crashes>>

Next ==
  \/ \E c \in Calls :
       \/ Answered(c) \/ Unauthorized(c) \/ Started(c) \/ Checked(c) \/ Rejected(c)
       \/ KeyInProgress(c) \/ OverBudget(c) \/ Reserved(c)
       \/ RelayAccepts(c) \/ Committed(c) \/ RolledBack(c)
  \/ \E i \in DOMAIN tasks : Execute(i)
  \/ Crash
  \/ Tick

Spec == Init /\ [][Next]_vars

-----------------------------------------------------------------------------
(***************************************************************************)
(* Properties                                                              *)
(***************************************************************************)

\* Every variable keeps its type.
TypeOK ==
  /\ config \in Configs
  /\ now \in Nat
  /\ IsLedger(reservations)
  /\ IsLedger(file)
  /\ calls \in [Calls -> Call]
  /\ chainNonce \in [Users -> Nat]
  /\ tasks \in Seq(Task)
  /\ crashes \in Nat

\* Nothing is sent before its reservation is on disk, so that no crash makes
\* the gateway forget a transaction it may have sent (submitRelay reserves,
\* then submits).
SentIsOnDisk ==
  \A c \in Calls :
    calls[c].pc \in {"relay", "answer"} =>
      /\ calls[c].key \in DOMAIN file
      /\ file[calls[c].key].createdAt = calls[c].started

\* A reservation is dropped a day after its call began, by the clock of a call
\* that may have begun later than one still under way.  That one no longer
\* sees it: what the ledger ensures, it ensures for a day less a call's latency.
SafeDay == Day - MaxLatency

Within(span, i, j) == tasks[j].createdAt - tasks[i].createdAt \in 0 .. (span - 1)

\* Two clients who got a task for one key within a day got the same task, in
\* whatever order the calls ran and across restarts and failed writes
\* (taskFor, reserve and commit).
OneAnswerPerKey ==
  \A c, d \in Calls :
    /\ calls[c].pc = "done" /\ calls[d].pc = "done"
    /\ calls[c].task # 0 /\ calls[d].task # 0
    /\ calls[c].key = calls[d].key
    /\ Within(SafeDay, calls[c].task, calls[d].task)
    => calls[c].task = calls[d].task

\* In no day, and in no hour for one address, does the gateway send more
\* transactions than the limits of reserve allow, those rolled back not
\* counted, whatever the clocks the calls reserve with.
LimitsHold ==
  \A i \in DOMAIN tasks :
    LET counted(span) ==
          {j \in DOMAIN tasks : tasks[j].counted /\ Within(span, i, j)}
        inDay == counted(SafeDay)
    IN  /\ Cardinality(inDay) <= config.globalDailyLimit
        /\ \A u \in Users :
             Cardinality({j \in inDay : tasks[j].user = u}) <= config.walletDailyLimit
        /\ \A ip \in Ips :
             Cardinality({j \in counted(Hour) : tasks[j].ip = ip})
               <= config.ipHourlyLimit
=============================================================================
