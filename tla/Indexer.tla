------------------------------ MODULE Indexer ------------------------------
(***************************************************************************)
(* The indexer of packages/indexer/src: the process of cli.ts, the poll of *)
(* listener.ts, the checkpoints of reorg.ts and the file of store.ts, over *)
(* a chain that grows and reorganizes.  ReadModel is what it projects.     *)
(*                                                                         *)
(* The timer starts a poll whether or not the previous one has ended, and  *)
(* a poll runs alone between two awaits: each stretch is one action.  A    *)
(* block holds at most one log, of one of the market events below, so the  *)
(* number of its block is its identity.  The logs of a range come in one   *)
(* answer: no await between its chunks changes what they are.              *)
(***************************************************************************)
EXTENDS Integers, Sequences, FiniteSets

CONSTANTS
  Nobody,         \* the zero address
  Markets,        \* market ids
  User,           \* the account that creates and bets
  LogTypes,       \* the events that occur
  Polls,          \* bound on the polls that overlap
  Confirmations,  \* blocks the chain must be ahead of a log
  MaxBlocks,      \* bound on the length of the chain
  MaxReorgs,      \* bound on the reorganizations
  ReorgDepth,     \* and on the blocks each replaces
  MaxCrashes      \* bound on the restarts of a process that had started

ASSUME IndexerAssumption ==
  /\ IsFiniteSet(Markets) /\ IsFiniteSet(Polls)
  /\ LogTypes \subseteq {"MarketCreated", "BetPlaced", "MarketLocked"}
  /\ Confirmations \in Nat /\ MaxBlocks \in Nat /\ MaxReorgs \in Nat
  /\ ReorgDepth \in Nat /\ MaxCrashes \in Nat

VARIABLES
  blocks,   \* the canonical blocks: which fork they are of, and their log
  reorgs,   \* the reorganizations so far
  deep,     \* whether one replaced a block a poll had taken for confirmed
  db,       \* indexerState: read models, journal, checkpoints and cursor
  file,     \* what saveIndexerState left on disk
  polls,
  started,  \* whether the first tick has ended, and the timer runs
  crashes

indexerVars == <<blocks, reorgs, deep, db, file, polls, started, crashes>>
world == <<blocks, reorgs, deep>>

R == INSTANCE ReadModel

Numbers == 1 .. MaxBlocks
NoLog == [type |-> "none"]

Logs == [type : LogTypes, marketId : Markets]

IdlePoll == [pc |-> "idle"]
Torn == [torn |-> TRUE]

-----------------------------------------------------------------------------
\* The chain.  A log is one the contract can emit after the logs before it.

Occurs(c, type, m) ==
  \E n \in DOMAIN c : c[n].log = [type |-> type, marketId |-> m]

CanFollow(c, log) ==
  CASE log = NoLog -> TRUE
    [] log.type = "MarketCreated" -> ~Occurs(c, "MarketCreated", log.marketId)
    [] log.type \in {"BetPlaced", "MarketLocked"} ->
         /\ Occurs(c, "MarketCreated", log.marketId)
         /\ ~Occurs(c, "MarketLocked", log.marketId)

Grown(c, log) == Append(c, [fork |-> reorgs, log |-> log])

Mine ==
  /\ Len(blocks) < MaxBlocks
  /\ \E log \in Logs \cup {NoLog} :
       CanFollow(blocks, log) /\ blocks' = Grown(blocks, log)
  /\ UNCHANGED <<reorgs, deep, db, file, polls, started, crashes>>

\* Other blocks replace the last d, and no poll sees the chain in between.
Reorg ==
  /\ reorgs < MaxReorgs
  /\ reorgs' = reorgs + 1
  /\ \E d \in 1 .. ReorgDepth,
        logs \in [1 .. ReorgDepth -> Logs \cup {NoLog}] :
       LET kept == SubSeq(blocks, 1, Len(blocks) - d)
           new == [i \in 1 .. d |-> [fork |-> reorgs + 1, log |-> logs[i]]]
       IN  /\ d <= Len(blocks)
           /\ \A i \in 1 .. d :
                CanFollow(kept \o SubSeq(new, 1, i - 1), logs[i])
           /\ blocks' = kept \o new
           /\ deep' = (deep \/ d > Confirmations)
  /\ UNCHANGED <<db, file, polls, started, crashes>>

\* The listener's list of the states of a market, by the contract's numbers.
decodeMarketState(value) ==
  <<"Draft", "Open", "Locked", "Resolved", "Disputed", "Cancelled", "Fraud",
    "Expired", "Settled">>[value + 1]

\* markets() at the head of the chain, which need not be a confirmed block.
readMarketDetails(m) ==
  decodeMarketState(IF Occurs(blocks, "MarketLocked", m) THEN 2 ELSE 1)

-----------------------------------------------------------------------------
\* indexerState.  A rollback makes a new read model; a poll and the read
\* server keep the one they were given.

Current(d) == d.models[Len(d.models)]
served == Head(db.models)

WithCurrent(d, model) == [d EXCEPT !.models[Len(d.models)] = model]

Fresh ==
  [models |-> <<R!createInitialProjectionState>>, journal |-> << >>,
   checkpoints |-> << >>, cursor |-> 0]

Serialized(d) ==
  [journal |-> d.journal, checkpoints |-> d.checkpoints, cursor |-> d.cursor]

\* A file that is not there or cannot be parsed is the empty state; the read
\* model is always replayed from the journal.
Loaded == IF file = Torn THEN Fresh
          ELSE [models |-> <<R!Replay(file.journal)>>, journal |-> file.journal,
                checkpoints |-> file.checkpoints, cursor |-> file.cursor]

shouldReorg(d, number, fork) ==
  number \in DOMAIN d.checkpoints /\ d.checkpoints[number] # fork

Events(j) == {j[i] : i \in DOMAIN j}

\* The elements of s that are in S, in the order they have in s.
Picked(s, S) ==
  LET picked[n \in 0 .. Len(s)] ==
        IF n = 0 THEN << >>
        ELSE IF s[n] \in S THEN Append(picked[n - 1], s[n]) ELSE picked[n - 1]
  IN  picked[Len(s)]

Cut(journal, number) ==
  Picked(journal, {e \in Events(journal) : e.id < number})

\* Mutant: the journal is cut and the read model keeps what it projected.
RolledBackKeeping(d, number) ==
  [models |-> Append(d.models, Current(d)),
   journal |-> Cut(d.journal, number),
   checkpoints |-> [n \in {x \in DOMAIN d.checkpoints : x < number} |->
                      d.checkpoints[n]],
   cursor |-> number - 1]

RolledBack(d, number) ==
  LET journal == Cut(d.journal, number)
  IN  [models |-> Append(d.models, R!Replay(journal)),
       journal |-> journal,
       checkpoints |-> [n \in {x \in DOMAIN d.checkpoints : x < number} |->
                          d.checkpoints[n]],
       cursor |-> number - 1]

\* The head of the loop over the logs, up to the decoding of one.
Observed(d, log) ==
  LET base == IF shouldReorg(d, log.number, log.fork)
                THEN RolledBack(d, log.number) ELSE d
  IN  [base EXCEPT !.checkpoints = R!Put(@, log.number, log.fork)]

Pushed(d, event) ==
  WithCurrent([d EXCEPT !.journal = Append(@, event)],
              R!projectEvent(Current(d), event))

-----------------------------------------------------------------------------
\* cli.ts: the first tick runs alone, the timer then starts polls.

Unhydrated(model) ==
  {m \in DOMAIN model.markets : "lockTime" \notin DOMAIN model.markets[m]}

\* pollMarketFactoryEvents up to its first await.
Tick(p) ==
  /\ polls[p].pc = "idle"
  /\ started \/ \A q \in Polls : polls[q].pc = "idle"
  /\ polls' = [polls EXCEPT ![p] =
       [pc |-> "hydrate", model |-> Len(db.models), hydrated |-> 0,
        left |-> Unhydrated(Current(db))]]
  /\ UNCHANGED <<world, db, file, started, crashes>>

\* The process stops, or its file system does, and another one loads the file.
Restart ==
  /\ db' = Loaded
  /\ polls' = [p \in Polls |-> IdlePoll]
  /\ started' = FALSE
  /\ UNCHANGED <<world, file>>

Crash ==
  /\ crashes < MaxCrashes
  /\ crashes' = crashes + 1
  /\ Restart

\* A throw ends the poll and is logged, but the first one ends the process.
Thrown(p) ==
  IF started
    THEN /\ polls' = [polls EXCEPT ![p] = IdlePoll]
         /\ UNCHANGED <<world, db, file, started>>
    ELSE Restart

Returned(p) ==
  /\ polls' = [polls EXCEPT ![p] = IdlePoll]
  /\ started' = TRUE

-----------------------------------------------------------------------------
\* saveIndexerState: once the directory is there, the state of that moment is
\* written.  The file is emptied first, so it cannot be read in between.

SaveStarts(p, d) ==
  /\ db' = d
  /\ polls' = [polls EXCEPT ![p] = [pc |-> "save"]]

WriteStarts(p) ==
  /\ polls[p].pc = "save"
  /\ file' = Torn
  /\ polls' = [polls EXCEPT ![p] = [pc |-> "write", saved |-> Serialized(db)]]
  /\ UNCHANGED <<world, db, started, crashes>>

\* Two writes that overlap may leave a file of pieces of both.
SaveEnds(p) ==
  /\ polls[p].pc = "write"
  /\ \/ file' = polls[p].saved
     \/ (\E q \in Polls \ {p} : polls[q].pc = "write") /\ file' = Torn
  /\ Returned(p)
  /\ UNCHANGED <<world, db, crashes>>

SaveFails(p) ==
  /\ polls[p].pc \in {"save", "write"}
  /\ Thrown(p)
  /\ UNCHANGED crashes

-----------------------------------------------------------------------------
\* hydrateMarketLifecycle: a market whose creation was decoded without details
\* gets them now.  What a read answers is applied when the poll runs again.

DetailsRead(p) ==
  /\ polls[p].pc = "hydrate"
  /\ \E m \in polls[p].left, answered \in BOOLEAN :
       polls' = [polls EXCEPT ![p] =
         [pc |-> "details", model |-> polls[p].model,
          hydrated |-> polls[p].hydrated, left |-> polls[p].left \ {m},
          market |-> m,
          details |-> IF answered THEN readMarketDetails(m) ELSE "none"]]
  /\ UNCHANGED <<world, db, file, started, crashes>>

Details(state) == [lockTime |-> TRUE, state |-> state]

Hydrated(p) ==
  LET poll == polls[p]
  IN  /\ poll.pc = "details"
      /\ db' = IF poll.details = "none" THEN db
               ELSE [db EXCEPT !.models[poll.model] =
                       R!Update(@, "markets", poll.market,
                                Details(poll.details))]
      /\ polls' = [polls EXCEPT ![p] =
           [pc |-> "hydrate", model |-> poll.model, left |-> poll.left,
            hydrated |->
              poll.hydrated + (IF poll.details = "none" THEN 0 ELSE 1)]]
      /\ UNCHANGED <<world, file, started, crashes>>

-----------------------------------------------------------------------------
\* The head of the chain and the logs up to the last confirmed block.

\* Mutant: logs are taken up to the head.
ConfirmedAtHead(latest) == latest

\* Mutant: one block more than asked must follow a log.
ConfirmedLate(latest) ==
  IF latest > Confirmations + 1 THEN latest - Confirmations - 1 ELSE 0

Confirmed(latest) ==
  IF latest > Confirmations THEN latest - Confirmations ELSE 0

\* There is nothing new: the state is saved only for the hydrated markets.
NothingNew(p) ==
  /\ polls[p].pc = "hydrate"
  /\ polls[p].left = {}
  /\ Confirmed(Len(blocks)) <= db.cursor
  /\ IF polls[p].hydrated > 0
       THEN SaveStarts(p, db) /\ UNCHANGED started
       ELSE Returned(p) /\ UNCHANGED db
  /\ UNCHANGED <<world, file, crashes>>

LogsOf(from, to) ==
  LET numbers == Picked([i \in 1 .. to |-> i],
                        {n \in from .. to : blocks[n].log # NoLog})
  IN  [i \in DOMAIN numbers |->
         [number |-> numbers[i], fork |-> blocks[numbers[i]].fork,
          type |-> blocks[numbers[i]].log.type,
          marketId |-> blocks[numbers[i]].log.marketId]]

\* Mutant: the first block after the cursor is passed over.
FetchedPast(to) == LogsOf(db.cursor + 2, to)

Fetched(to) == LogsOf(db.cursor + 1, to)

\* getBlockNumber and getLogs: the cursor read between them is the one at the
\* first answer, and both answers describe one chain.
LogsRead(p) ==
  LET to == Confirmed(Len(blocks))
  IN  /\ polls[p].pc = "hydrate"
      /\ polls[p].left = {}
      /\ to > db.cursor
      /\ polls' = [polls EXCEPT ![p] =
           [pc |-> "fetched", to |-> to, logs |-> Fetched(to)]]
      /\ UNCHANGED <<world, db, file, started, crashes>>

\* Either of them throws.
RpcFails(p) ==
  /\ polls[p].pc = "hydrate"
  /\ polls[p].left = {}
  /\ Thrown(p)
  /\ UNCHANGED crashes

-----------------------------------------------------------------------------
\* The loop over the logs.

\* On to the next log, or to the save when there is none.
Onwards(p, d, logs) ==
  IF logs = << >>
    THEN SaveStarts(p, [d EXCEPT !.cursor = polls[p].to])
    ELSE /\ db' = Observed(d, Head(logs))
         /\ polls' = [polls EXCEPT ![p] =
              [pc |-> "decode", to |-> polls[p].to, logs |-> logs]]

LoopStarts(p) ==
  /\ polls[p].pc = "fetched"
  /\ Onwards(p, db, polls[p].logs)
  /\ UNCHANGED <<world, file, started, crashes>>

\* decodeAlterfordLog.  Details of a new market that cannot be read are left
\* out, and the market is open.
Decoded(log, details) ==
  R!Merged([type |-> log.type, id |-> log.number, fork |-> log.fork,
            marketId |-> log.marketId],
    CASE log.type = "MarketCreated" ->
           IF details = "none" THEN [creator |-> User, state |-> "Open"]
           ELSE [creator |-> User, state |-> details, lockTime |-> TRUE]
      [] log.type = "BetPlaced" ->
           [user |-> User, outcome |-> 0, amount |-> 1, logIndex |-> 0]
      [] log.type = "MarketLocked" -> << >>)

DetailsOf(log) ==
  IF log.type = "MarketCreated"
    THEN {"none", readMarketDetails(log.marketId)} ELSE {"none"}

\* The journal takes the event and the read model projects it.
LogDecoded(p) ==
  LET log == Head(polls[p].logs)
  IN  /\ polls[p].pc = "decode"
      /\ \E details \in DetailsOf(log) :
           Onwards(p, Pushed(db, Decoded(log, details)), Tail(polls[p].logs))
      /\ UNCHANGED <<world, file, started, crashes>>

-----------------------------------------------------------------------------
IndexerInit ==
  /\ blocks = << >>
  /\ reorgs = 0
  /\ deep = FALSE
  /\ db = Fresh
  /\ file = Torn
  /\ polls = [p \in Polls |-> IdlePoll]
  /\ started = FALSE
  /\ crashes = 0

IndexerNext ==
  \/ Mine
  \/ Reorg
  \/ Crash
  \/ \E p \in Polls :
       \/ Tick(p)
       \/ DetailsRead(p)
       \/ Hydrated(p)
       \/ NothingNew(p)
       \/ LogsRead(p)
       \/ RpcFails(p)
       \/ LoopStarts(p)
       \/ LogDecoded(p)
       \/ WriteStarts(p)
       \/ SaveEnds(p)
       \/ SaveFails(p)

\* The timer fires, what was awaited comes, and neither the node nor the disk
\* fails for ever.
Fairness ==
  \A p \in Polls :
    /\ WF_indexerVars(Tick(p))
    /\ WF_indexerVars(DetailsRead(p))
    /\ WF_indexerVars(Hydrated(p))
    /\ SF_indexerVars(NothingNew(p))
    /\ SF_indexerVars(LogsRead(p))
    /\ WF_indexerVars(LoopStarts(p))
    /\ WF_indexerVars(LogDecoded(p))
    /\ SF_indexerVars(WriteStarts(p))
    /\ SF_indexerVars(SaveEnds(p))

IndexerSpec == IndexerInit /\ [][IndexerNext]_indexerVars /\ Fairness

-----------------------------------------------------------------------------
\* Properties.

\* The blocks with as many blocks after them as are asked for.
ConfirmedBlocks == {n \in DOMAIN blocks : n + Confirmations <= Len(blocks)}

\* Type correctness of the poll loop: the journal holds events of confirmed
\* blocks and the cursor is the number of one (listener.ts:102, 166-170).
TypeOK ==
  /\ db.cursor \in ConfirmedBlocks \cup {0}
  /\ DOMAIN db.checkpoints \subseteq ConfirmedBlocks
  /\ {e.id : e \in Events(db.journal)} \subseteq ConfirmedBlocks
  /\ \A i \in DOMAIN db.models :
       /\ DOMAIN db.models[i].markets \subseteq Markets
       /\ db.models[i].processedEventIds \subseteq Numbers
  /\ \A p \in Polls :
       polls[p].pc \in {"idle", "hydrate", "details", "fetched", "decode",
                       "save", "write"}
  /\ started \in BOOLEAN

\* What the journal says of a market does not depend on when it was read.
Facts(model) ==
  [m \in DOMAIN model.markets |->
     LET market == model.markets[m]
     IN  [creator |-> market.creator, totalPool |-> market.totalPool,
          poolByOutcome |-> market.poolByOutcome]]

\* A restart, which replays the journal, gives the read model the process had:
\* whatever polls overlapped, rolled back or were cut off, the two never part
\* in the events they hold, the markets, the pools and the bets (store.ts:74-79
\* against listener.ts:140-163).
ReplayGivesTheSame ==
  LET replayed == R!Replay(db.journal)
  IN  /\ Current(db).processedEventIds = replayed.processedEventIds
      /\ Facts(Current(db)) = Facts(replayed)
      /\ Current(db).bets = replayed.bets

\* No log is passed over: unless the chain dropped blocks it had confirmed, the
\* event of every log up to the cursor is in the journal, whichever poll moved
\* the cursor and whatever file the process started from (listener.ts:115-170).
NothingSkipped ==
  deep \/ \A n \in 1 .. db.cursor :
            \/ blocks[n].log = NoLog
            \/ \E e \in Events(db.journal) :
                 /\ e.id = n /\ e.fork = blocks[n].fork
                 /\ e.type = blocks[n].log.type

BetsOn(m, ids) ==
  {n \in ids : blocks[n].log = [type |-> "BetPlaced", marketId |-> m]}

\* The pool shown is the sum of the bets indexed, once each, though overlapping
\* polls and restarts append the same log to the journal again
\* (listener.ts:160-163 against projections.ts:244-251).
PoolsCountBetsOnce ==
  deep \/ \A m \in DOMAIN Current(db).markets :
            Current(db).markets[m].totalPool =
              Cardinality(BetsOn(m, Current(db).processedEventIds))

\* Every confirmed log is indexed and shown for good, through failed reads and
\* writes, a lost file and polls that set the cursor back, as long as the chain
\* keeps what it confirmed (cli.ts:46-82, listener.ts:78-173, store.ts:50-67).
ConfirmedLogsAreShown ==
  <>[](deep \/ \A n \in ConfirmedBlocks :
                 blocks[n].log = NoLog \/ n \in served.processedEventIds)

\* docs/PRODUCTION_RUNBOOK.md:109: "The read model is replayed from the
\* persisted canonical journal."  Refuted for what is served: the read server
\* keeps the object it was started with (cli.ts:39-44), a rollback makes another
\* one (listener.ts:141).
ServedIsReplayed == Facts(served) = Facts(R!Replay(db.journal))

=============================================================================
