------------------------ MODULE ChallengeFactory_proofs ------------------------
(***************************************************************************)
(* What holds of ChallengeFactory for any number of users and challenges,  *)
(* and any rewards, bonds and windows: the types, which say that no        *)
(* balance underflows, that nobody settles alone inside the window, that   *)
(* the verdict decides who is paid, and that the contract implements       *)
(* EscrowLots; and that the read model and the screens of ChallengeViews   *)
(* say of every challenge what the contract holds, and offer what it       *)
(* accepts.                                                                *)
(*                                                                         *)
(* What carries them is which of the four deposits a challenge has in each *)
(* of its states, and that a deposit still held has somebody to return to. *)
(***************************************************************************)
EXTENDS ChallengeViews, Totals_proofs, TLAPS

\* An id that was not created, also when it was closed before.
Untouched(k) ==
  /\ k.creator = Nobody /\ k.executor = Nobody /\ k.disputant = Nobody
  /\ k.state \in {"Open", "Cancelled", "Fraud"}
  /\ \A l \in Lot : k.held[l] = 0 /\ k.posted[l] = 0

\* Every deposit is held as a whole or not at all, and is somebody's.
Deposits(k) ==
  /\ \A l \in Lot : k.held[l] \in {0, k.posted[l]}
  /\ k.held["reward"] \in {0, k.rewardPool}
  /\ k.held["reward"] # 0 => sponsorOf(k) \in Users
  /\ k.held["bond"] # 0 => k.creator \in Users
  /\ k.held["executorBond"] # 0 => k.executor \in Users
  /\ k.held["disputeBond"] # 0 => k.disputant \in Users

\* What a challenge has in each state.
Stage(k) ==
  /\ k.state = "Open" =>
       k.posted["executorBond"] = 0 /\ (k.offer => k.posted["reward"] = 0)
  /\ k.state \in {"Open", "Accepted", "EvidenceSubmitted", "Review"} =>
       k.disputant = Nobody /\ k.posted["disputeBond"] = 0
  /\ k.state \in {"Accepted", "EvidenceSubmitted", "Review", "Disputed"} =>
       k.creator \in Users /\ k.executor \in Users /\ k.creator # k.executor
  /\ k.state = "Review" =>
       k.proposer \in {k.creator, k.executor} /\ k.endorsers = {k.proposer}

Endorsed(k) ==
  \/ "arbiter" \in k.endorsers
  \/ {k.creator, k.executor} \subseteq k.endorsers
  \/ k.settledAt > k.disputeDeadline /\ k.disputant = Nobody

Sound(next, c, k) ==
  /\ c >= next => Untouched(k)
  /\ Deposits(k) /\ Stage(k)
  /\ k.state = "Resolved" => Endorsed(k)

ChallengeInv ==
  TypeOK /\ \A c \in ChallengeIds : Sound(nextChallengeId, c, challenge[c])

\* Who is paid when a challenge k is resolved and becomes n.
Verdict(k, n) ==
  LET winner == IF n.succeeded THEN performerOf(k) ELSE sponsorOf(k)
      loser == IF n.succeeded THEN sponsorOf(k) ELSE performerOf(k)
      own == (IF loser = k.creator THEN k.held["bond"]
                                   ELSE k.held["executorBond"])
             + (IF loser = k.disputant THEN k.held["disputeBond"] ELSE 0)
  IN  k.state # "Resolved" /\ n.state = "Resolved" =>
        /\ wallet'[winner] - wallet[winner]
             >= k.rewardPool - ChallengeFee(k.rewardPool)
        /\ loser # Admin => wallet'[loser] - wallet[loser] <= own

-----------------------------------------------------------------------------
\* Payments.

LEMMA ToUserType ==
  ASSUME NEW account, NEW amount \in Nat, amount # 0 => account \in Users
  PROVE  /\ ToUser(account, amount) \in [Users -> Nat]
         /\ Total(ToUser(account, amount), Users) = amount
<1> DEFINE f == ToUser(account, amount)
<1>1. f \in [Users -> Nat] /\ IsFiniteSet(Users)
  BY ChallengeAssumption DEF ToUser
<1>2. \A u \in Users : f[u] = IF u = account THEN amount ELSE 0
  BY DEF ToUser
<1> HIDE DEF f
<1>3. CASE amount = 0
  <2>1. \A u \in Users : f[u] = 0
    BY <1>2, <1>3
  <2>2. Total(f, Users) = 0
    BY <2>1, TotalZero
  <2> QED BY <1>1, <1>3, <2>2 DEF f
<1>4. CASE amount # 0
  <2>1. \A u \in Users \ {account} : f[u] = 0
    BY <1>2
  <2>2. account \in Users /\ f[account] = amount
    BY <1>2, <1>4
  <2>3. Total(f, Users \ {account}) = 0
    BY <2>1, TotalZero
  <2>4. Total(f, Users) = Total(f, Users \ {account}) + f[account]
    BY <1>1, <2>2, TotalSplit
  <2>5. Total(f, Users) = amount
    BY <2>2, <2>3, <2>4
  <2> QED BY <1>1, <2>5 DEF f
<1> QED BY <1>3, <1>4

LEMMA AddedType ==
  ASSUME NEW a \in [Users -> Nat], NEW b \in [Users -> Nat]
  PROVE  /\ Added(a, b) \in [Users -> Nat]
         /\ Total(Added(a, b), Users) = Total(a, Users) + Total(b, Users)
<1>1. Added(a, b) \in [Users -> Nat] /\ IsFiniteSet(Users)
  BY ChallengeAssumption DEF Added
<1>2. \A u \in Users : Added(a, b)[u] = a[u] + b[u]
  BY DEF Added
<1>3. Users \in SUBSET Users
  OBVIOUS
<1> QED BY <1>1, <1>2, <1>3, TotalSum

\* The fee is a part of the reward.
LEMMA FeeIsPart ==
  ASSUME NEW n \in Nat
  PROVE  ChallengeFee(n) \in Nat /\ ChallengeFee(n) <= n
<1>1. CASE ChallengeBps(n) = 1000
  <2>1. ChallengeFee(n) = (n * 1000) \div 10000
    BY <1>1 DEF ChallengeFee, ApplyBps, BPS_DENOMINATOR
  <2> QED BY <2>1
<1>2. CASE ChallengeBps(n) = 800
  <2>1. ChallengeFee(n) = (n * 800) \div 10000
    BY <1>2 DEF ChallengeFee, ApplyBps, BPS_DENOMINATOR
  <2> QED BY <2>1
<1>3. CASE ChallengeBps(n) = 600
  <2>1. ChallengeFee(n) = (n * 600) \div 10000
    BY <1>3 DEF ChallengeFee, ApplyBps, BPS_DENOMINATOR
  <2> QED BY <2>1
<1>4. CASE ChallengeBps(n) = 400
  <2>1. ChallengeFee(n) = (n * 400) \div 10000
    BY <1>4 DEF ChallengeFee, ApplyBps, BPS_DENOMINATOR
  <2> QED BY <2>1
<1> QED BY <1>1, <1>2, <1>3, <1>4 DEF ChallengeBps

LEMMA RewardPaidType ==
  ASSUME NEW k \in Challenge, NEW succeeded \in BOOLEAN,
         sponsorOf(k) \in Users, performerOf(k) \in Users
  PROVE  /\ RewardPaid(k, succeeded) \in [Users -> Nat]
         /\ Total(RewardPaid(k, succeeded), Users) = k.rewardPool
<1> DEFINE fee == ChallengeFee(k.rewardPool)
           pool == k.rewardPool
<1>1. pool \in Nat /\ fee \in Nat /\ fee <= pool
  <2>1. pool \in Nat
    BY DEF Challenge
  <2> QED BY <2>1, FeeIsPart
<1>2. Admin \in Users
  BY ChallengeAssumption
<1>3. CASE succeeded
  <2>1. /\ ToUser(Admin, fee) \in [Users -> Nat]
        /\ Total(ToUser(Admin, fee), Users) = fee
    BY <1>1, <1>2, ToUserType
  <2>2. pool - fee \in Nat /\ fee + (pool - fee) = pool
    BY <1>1
  <2>3. /\ ToUser(performerOf(k), pool - fee) \in [Users -> Nat]
        /\ Total(ToUser(performerOf(k), pool - fee), Users) = pool - fee
    BY <2>2, ToUserType
  <2>4. RewardPaid(k, succeeded)
          = Added(ToUser(Admin, fee), ToUser(performerOf(k), pool - fee))
    BY <1>3 DEF RewardPaid, Added
  <2> QED BY <2>1, <2>2, <2>3, <2>4, AddedType
<1>4. CASE ~succeeded
  <2>1. RewardPaid(k, succeeded) = ToUser(sponsorOf(k), pool)
    BY <1>4 DEF RewardPaid, ToUser
  <2> QED BY <1>1, <2>1, ToUserType
<1> QED BY <1>3, <1>4

\* What PayAll does, given what it pays in all.
LEMMA PayAllType ==
  ASSUME TypeOK, NEW received \in [Users -> Nat], PayAll(received)
  PROVE  /\ wallet' \in [Users -> Nat]
         /\ \A u \in Users : wallet'[u] = wallet[u] + received[u]
         /\ escrow' = escrow - Total(received, Users) /\ escrow' \in Nat
<1>1. Total(received, Users) \in Nat
  BY ChallengeAssumption, TotalType
<1>2. wallet \in [Users -> Nat] /\ escrow \in Nat
  BY DEF TypeOK
<1> QED BY <1>1, <1>2 DEF PayAll

-----------------------------------------------------------------------------
\* The lots of a challenge.

ChallengeLots == ChallengeIds \X Lot
PostedIn(f) == [l \in ChallengeLots |-> f[l[1]].posted[l[2]]]
HeldIn(f) == [l \in ChallengeLots |-> f[l[1]].held[l[2]]]

Four(f) == f["reward"] + f["bond"] + f["executorBond"] + f["disputeBond"]

LEMMA LotsTyped ==
  ASSUME NEW f \in [ChallengeIds -> Challenge]
  PROVE  /\ PostedIn(f) \in [ChallengeLots -> Nat]
         /\ HeldIn(f) \in [ChallengeLots -> Nat]
         /\ \A c \in ChallengeIds, l \in Lot :
              /\ <<c, l>> \in ChallengeLots
              /\ PostedIn(f)[<<c, l>>] = f[c].posted[l]
              /\ HeldIn(f)[<<c, l>>] = f[c].held[l]
<1>1. \A l \in ChallengeLots : l[1] \in ChallengeIds /\ l[2] \in Lot
  BY DEF ChallengeLots
<1>2. \A l \in ChallengeLots : f[l[1]] \in Challenge
  BY <1>1
<1>3. \A k \in Challenge : k.posted \in [Lot -> Nat] /\ k.held \in [Lot -> Nat]
  BY DEF Challenge
<1>4. \A l \in ChallengeLots : f[l[1]].posted[l[2]] \in Nat /\ f[l[1]].held[l[2]] \in Nat
  BY <1>1, <1>2, <1>3
<1>5. \A c \in ChallengeIds, l \in Lot : <<c, l>> \in ChallengeLots
  BY DEF ChallengeLots
<1> QED BY <1>4, <1>5 DEF PostedIn, HeldIn

\* The sum over some of the four lots of a challenge.
LEMMA FourTotal ==
  ASSUME NEW h \in [ChallengeLots -> Nat], NEW c \in ChallengeIds,
         NEW S \in SUBSET ({c} \X Lot)
  PROVE  Total(h, S) = Four([l \in Lot |-> IF <<c, l>> \in S THEN h[<<c, l>>] ELSE 0])
<1> DEFINE part == [l \in Lot |-> IF <<c, l>> \in S THEN h[<<c, l>>] ELSE 0]
<1>1. \A l \in Lot : <<c, l>> \in ChallengeLots /\ h[<<c, l>>] \in Nat
  BY DEF ChallengeLots
<1>2. \A l \in Lot : /\ IsFiniteSet(S \cap {<<c, l>>})
                     /\ S \cap {<<c, l>>} \in SUBSET ChallengeLots
                     /\ Total(h, S \cap {<<c, l>>}) = part[l]
  <2> SUFFICES ASSUME NEW l \in Lot
               PROVE  /\ IsFiniteSet(S \cap {<<c, l>>})
                      /\ S \cap {<<c, l>>} \in SUBSET ChallengeLots
                      /\ Total(h, S \cap {<<c, l>>}) = part[l]
    OBVIOUS
  <2> DEFINE x == <<c, l>>
  <2>1. x \in ChallengeLots /\ part[l] = IF x \in S THEN h[x] ELSE 0
    BY <1>1
  <2> HIDE DEF x, part
  <2>2. CASE x \in S
    <3>1. S \cap {x} = {x} /\ {x} \in SUBSET ChallengeLots /\ {x} \ {x} = {}
      BY <2>1, <2>2
    <3>2. IsFiniteSet({x})
      BY FS_Singleton
    <3>3. Total(h, {x}) = Total(h, {x} \ {x}) + h[x]
      BY <3>1, <3>2, TotalSplit
    <3>4. Total(h, {}) = 0
      BY TotalEmpty
    <3>5. Total(h, {x}) = 0 + h[x]
      BY <3>1, <3>3, <3>4
    <3>6. Total(h, S \cap {x}) = part[l]
      <4>1. 0 + h[x] = h[x]
        BY <1>1 DEF x
      <4>2. part[l] = h[x]
        BY <2>1, <2>2
      <4>3. Total(h, S \cap {x}) = Total(h, {x})
        BY <3>1
      <4> QED BY <3>5, <4>1, <4>2, <4>3
    <3>7. IsFiniteSet(S \cap {x}) /\ S \cap {x} \in SUBSET ChallengeLots
      BY <3>1, <3>2
    <3> QED BY <3>6, <3>7 DEF x
  <2>3. CASE x \notin S
    <3>1. S \cap {x} = {} /\ {} \in SUBSET ChallengeLots
      BY <2>3
    <3> QED BY <2>1, <2>3, <3>1, TotalEmpty, FS_EmptySet DEF x
  <2> QED BY <2>2, <2>3
<1> DEFINE A == S \cap {<<c, "reward">>}
           B == S \cap {<<c, "bond">>}
           E == S \cap {<<c, "executorBond">>}
           F == S \cap {<<c, "disputeBond">>}
<1>3. /\ A \cap B = {} /\ E \cap F = {} /\ (A \cup B) \cap (E \cup F) = {}
      /\ S = (A \cup B) \cup (E \cup F)
  BY DEF Lot
<1>4. /\ IsFiniteSet(A) /\ IsFiniteSet(B) /\ IsFiniteSet(E) /\ IsFiniteSet(F)
      /\ A \in SUBSET ChallengeLots /\ B \in SUBSET ChallengeLots
      /\ E \in SUBSET ChallengeLots /\ F \in SUBSET ChallengeLots
      /\ Total(h, A) = part["reward"] /\ Total(h, B) = part["bond"]
      /\ Total(h, E) = part["executorBond"] /\ Total(h, F) = part["disputeBond"]
  BY <1>2 DEF Lot
<1> HIDE DEF A, B, E, F
<1>5. Total(h, A \cup B) = Total(h, A) + Total(h, B)
  BY <1>3, <1>4, TotalUnion
<1>6. Total(h, E \cup F) = Total(h, E) + Total(h, F)
  BY <1>3, <1>4, TotalUnion
<1>7. /\ IsFiniteSet(A \cup B) /\ IsFiniteSet(E \cup F)
      /\ A \cup B \in SUBSET ChallengeLots /\ E \cup F \in SUBSET ChallengeLots
  BY <1>4, FS_Union
<1>8. Total(h, S) = Total(h, A \cup B) + Total(h, E \cup F)
  BY <1>3, <1>7, TotalUnion
<1>9. /\ part["reward"] \in Nat /\ part["bond"] \in Nat
      /\ part["executorBond"] \in Nat /\ part["disputeBond"] \in Nat
  BY <1>1 DEF Lot
<1> HIDE DEF part
<1>10. Total(h, S) = Four(part)
  BY <1>4, <1>5, <1>6, <1>8, <1>9 DEF Four
<1> QED BY <1>10 DEF part

\* EscrowLots has the same sums.
LEMMA SameTotal == \A f, S : Escrowed!Total(f, S) = Total(f, S)
BY DEF Escrowed!Total, Escrowed!Units, Escrowed!Cardinality, Total, Units,
       Cardinality

-----------------------------------------------------------------------------
\* The steps.  Each keeps the invariant, moves lots as EscrowLots does, and pays
\* as the verdict says.

Steps ==
  /\ ChallengeInv'
  /\ [Escrowed!LotsNext]_(Escrowed!lotVars)
  /\ \A c \in ChallengeIds : Verdict(challenge[c], challenge'[c])

\* What becomes of one deposit when k becomes n.
Kept(k, n, l) == n.posted[l] = k.posted[l] /\ n.held[l] = k.held[l]
Entered(k, n, l) == k.posted[l] = 0 /\ n.posted[l] # 0 /\ n.held[l] = n.posted[l]
Ended(k, n, l) == n.posted[l] = k.posted[l] /\ k.held[l] # 0 /\ n.held[l] = 0

Entering(k, n) ==
  [l \in Lot |-> IF k.posted[l] # n.posted[l] THEN n.held[l] ELSE 0]

\* Challenge c becomes n; out is what is paid of each of its deposits.
LEMMA LotStep ==
  ASSUME TypeOK, NEW c \in ChallengeIds, NEW n \in Challenge,
         challenge' = [challenge EXCEPT ![c] = n],
         \A l \in Lot : \/ Kept(challenge[c], n, l)
                        \/ Entered(challenge[c], n, l)
                        \/ Ended(challenge[c], n, l),
         NEW out \in [Lot -> Nat],
         \A l \in Lot : out[l] # 0 => /\ out[l] = challenge[c].held[l]
                                      /\ Ended(challenge[c], n, l),
         escrow' = escrow + Four(Entering(challenge[c], n)) - Four(out)
  PROVE  Escrowed!LotsNext
<1> DEFINE k == challenge[c]
           P == PostedIn(challenge)
           Q == PostedIn(challenge')
           H == HeldIn(challenge)
           G == HeldIn(challenge')
           in == {l \in ChallengeLots : P[l] # Q[l]}
           gone == {l \in ChallengeLots : H[l] # 0 /\ G[l] = 0}
           paid == {l \in {c} \X Lot : out[l[2]] # 0}
<1>1. /\ challenge \in [ChallengeIds -> Challenge]
      /\ challenge' \in [ChallengeIds -> Challenge]
      /\ challenge'[c] = n /\ k \in Challenge
      /\ \A x \in ChallengeIds \ {c} : challenge'[x] = challenge[x]
  BY DEF TypeOK
<1>2. /\ P \in [ChallengeLots -> Nat] /\ H \in [ChallengeLots -> Nat]
      /\ Q \in [ChallengeLots -> Nat] /\ G \in [ChallengeLots -> Nat]
  BY <1>1, LotsTyped
<1>3. \A l \in Lot : /\ <<c, l>> \in ChallengeLots
                     /\ P[<<c, l>>] = k.posted[l] /\ H[<<c, l>>] = k.held[l]
                     /\ Q[<<c, l>>] = n.posted[l] /\ G[<<c, l>>] = n.held[l]
  <2>1. \A l \in Lot : <<c, l>> \in ChallengeLots
                       /\ P[<<c, l>>] = k.posted[l] /\ H[<<c, l>>] = k.held[l]
    BY <1>1, LotsTyped
  <2>2. \A l \in Lot : /\ Q[<<c, l>>] = challenge'[c].posted[l]
                       /\ G[<<c, l>>] = challenge'[c].held[l]
    BY <1>1, LotsTyped
  <2> QED BY <1>1, <2>1, <2>2
<1>4. \A l \in ChallengeLots : l[1] # c => Q[l] = P[l] /\ G[l] = H[l]
  <2>1. \A l \in ChallengeLots : l[1] \in ChallengeIds
    BY DEF ChallengeLots
  <2> QED BY <1>1, <2>1 DEF PostedIn, HeldIn
<1>5. \A l \in ChallengeLots : l[1] = c => l[2] \in Lot /\ l = <<c, l[2]>>
  BY DEF ChallengeLots
<1> HIDE DEF k, P, Q, H, G
<1>6. \A l \in ChallengeLots :
        \/ Q[l] = P[l] /\ G[l] = H[l]
        \/ P[l] = 0 /\ Q[l] # 0 /\ G[l] = Q[l]
        \/ Q[l] = P[l] /\ H[l] # 0 /\ G[l] = 0
  <2> SUFFICES ASSUME NEW l \in ChallengeLots
               PROVE  \/ Q[l] = P[l] /\ G[l] = H[l]
                      \/ P[l] = 0 /\ Q[l] # 0 /\ G[l] = Q[l]
                      \/ Q[l] = P[l] /\ H[l] # 0 /\ G[l] = 0
    OBVIOUS
  <2>1. CASE l[1] # c
    BY <1>4, <2>1
  <2>2. CASE l[1] = c
    <3>1. l[2] \in Lot /\ l = <<c, l[2]>>
      BY <1>5, <2>2
    <3>2. P[l] = k.posted[l[2]] /\ H[l] = k.held[l[2]]
          /\ Q[l] = n.posted[l[2]] /\ G[l] = n.held[l[2]]
      BY <1>3, <3>1
    <3>3. \/ Kept(k, n, l[2]) \/ Entered(k, n, l[2]) \/ Ended(k, n, l[2])
      BY <3>1 DEF k
    <3> QED BY <3>2, <3>3 DEF Kept, Entered, Ended
  <2> QED BY <2>1, <2>2
<1>7. /\ in \in SUBSET ({c} \X Lot)
      /\ \A l \in Lot : <<c, l>> \in in <=> k.posted[l] # n.posted[l]
  <2>1. \A l \in in : l[1] = c
    BY <1>4
  <2>2. \A l \in in : l \in {c} \X Lot
    BY <1>5, <2>1
  <2> QED BY <1>3, <2>2
<1>8. /\ paid \in SUBSET ({c} \X Lot)
      /\ \A l \in Lot : <<c, l>> \in paid <=> out[l] # 0
  OBVIOUS
<1> HIDE DEF in, paid
<1>9. Total(G, in) = Four(Entering(k, n))
  <2>1. Total(G, in) = Four([l \in Lot |-> IF <<c, l>> \in in THEN G[<<c, l>>] ELSE 0])
    BY <1>2, <1>7, FourTotal
  <2>2. [l \in Lot |-> IF <<c, l>> \in in THEN G[<<c, l>>] ELSE 0] = Entering(k, n)
    BY <1>3, <1>7 DEF Entering
  <2> QED BY <2>1, <2>2
<1>10. Total(H, paid) = Four(out)
  <2>1. Total(H, paid) = Four([l \in Lot |-> IF <<c, l>> \in paid THEN H[<<c, l>>] ELSE 0])
    BY <1>2, <1>8, FourTotal
  <2>2. \A l \in Lot : out[l] # 0 => out[l] = H[<<c, l>>]
    BY <1>3 DEF k
  <2>3. [l \in Lot |-> IF <<c, l>> \in paid THEN H[<<c, l>>] ELSE 0] = out
    BY <1>8, <2>2
  <2> QED BY <2>1, <2>3
<1>11. paid \in SUBSET gone
  <2> SUFFICES ASSUME NEW l \in paid PROVE l \in gone
    OBVIOUS
  <2>1. l[2] \in Lot /\ l = <<c, l[2]>> /\ out[l[2]] # 0
    BY <1>8 DEF paid
  <2>2. k.held[l[2]] # 0 /\ n.held[l[2]] = 0
    BY <2>1 DEF Ended, k
  <2> QED BY <1>3, <2>1, <2>2
<1>12. escrow' = escrow + Total(G, in) - Total(H, paid)
  BY <1>9, <1>10 DEF k
<1> HIDE DEF gone
<1>13. \E some \in SUBSET gone :
         escrow' = escrow + Escrowed!Total(G, in) - Escrowed!Total(H, some)
  BY <1>11, <1>12, SameTotal
<1> QED BY <1>2, <1>6, <1>13, Zenon
        DEF Escrowed!LotsNext, Escrowed!Unchanged, Escrowed!Deposited,
            Escrowed!Left, P, Q, H, G, PostedIn, HeldIn, ChallengeLots, in, gone

LEMMA Moves ==
  ASSUME ChallengeInv, NEW c \in ChallengeIds, NEW n \in Challenge,
         challenge' = [challenge EXCEPT ![c] = n],
         nextChallengeId' \in Nat \ {0}, nextChallengeId' >= nextChallengeId,
         Sound(nextChallengeId', c, n), Verdict(challenge[c], n),
         Escrowed!LotsNext,
         now' \in Nat, paused' \in BOOLEAN,
         standardResolutionWindow' \in
           MIN_STANDARD_RESOLUTION_WINDOW .. MAX_STANDARD_RESOLUTION_WINDOW,
         wallet' \in [Users -> Nat], escrow' \in Nat
  PROVE  Steps
<1>1. /\ challenge \in [ChallengeIds -> Challenge]
      /\ challenge' \in [ChallengeIds -> Challenge]
      /\ nextChallengeId \in Nat
      /\ \A x \in ChallengeIds : challenge'[x] = IF x = c THEN n ELSE challenge[x]
  BY DEF ChallengeInv, TypeOK
<1>2. ChallengeIds \subseteq Nat
  <2>1. Cardinality(ChallengeIds) \in Nat /\ ChallengeIds = 1 .. Cardinality(ChallengeIds)
    BY ChallengeAssumption, FS_CardinalityType
  <2> QED BY <2>1
<1>3. \A x \in ChallengeIds : x >= nextChallengeId' => x >= nextChallengeId
  BY <1>1, <1>2
<1>4. \A x \in ChallengeIds : Sound(nextChallengeId', x, challenge'[x])
  BY <1>1, <1>3 DEF ChallengeInv, Sound
<1>5. TypeOK'
  BY <1>1 DEF TypeOK, MIN_STANDARD_RESOLUTION_WINDOW, MAX_STANDARD_RESOLUTION_WINDOW
<1>6. \A x \in ChallengeIds : Verdict(challenge[x], challenge'[x])
  BY <1>1 DEF Verdict
<1> QED BY <1>4, <1>5, <1>6 DEF Steps, ChallengeInv

\* A step on c that takes nothing in.
LEMMA LeavingStep ==
  ASSUME ChallengeInv, NEW c \in ChallengeIds, NEW n \in Challenge,
         challenge' = [challenge EXCEPT ![c] = n], UNCHANGED context,
         Sound(nextChallengeId, c, n), Verdict(challenge[c], n),
         n.posted = challenge[c].posted,
         \A l \in Lot : n.held[l] \in {0, challenge[c].held[l]},
         NEW out \in [Lot -> Nat],
         \A l \in Lot : out[l] # 0 => out[l] = challenge[c].held[l] /\ n.held[l] = 0,
         wallet' \in [Users -> Nat], escrow' \in Nat, escrow' = escrow - Four(out)
  PROVE  Steps
<1> DEFINE k == challenge[c]
<1>1. TypeOK /\ k \in Challenge /\ escrow \in Nat
  BY DEF ChallengeInv, TypeOK
<1>2. \A l \in Lot : Kept(k, n, l) \/ Entered(k, n, l) \/ Ended(k, n, l)
  BY DEF Kept, Ended
<1>3. \A l \in Lot : out[l] # 0 => out[l] = k.held[l] /\ Ended(k, n, l)
  BY DEF Ended
<1>4. Four(Entering(k, n)) = 0
  BY DEF Entering, Four, Lot
<1>5. Four(out) \in Nat
  BY DEF Four, Lot
<1> HIDE DEF k
<1>6. escrow' = escrow + Four(Entering(k, n)) - Four(out)
  BY <1>1, <1>4, <1>5
<1>7. Escrowed!LotsNext
  BY <1>1, <1>2, <1>3, <1>6, LotStep DEF k
<1>8. /\ nextChallengeId' = nextChallengeId
      /\ nextChallengeId' \in Nat \ {0} /\ nextChallengeId' >= nextChallengeId
      /\ now' \in Nat /\ paused' \in BOOLEAN
      /\ standardResolutionWindow' \in
           MIN_STANDARD_RESOLUTION_WINDOW .. MAX_STANDARD_RESOLUTION_WINDOW
  BY <1>1 DEF TypeOK, context
<1> QED BY <1>7, <1>8, Moves

-----------------------------------------------------------------------------
\* Settlements.

SameTerms(k, n) ==
  /\ n.creator = k.creator /\ n.executor = k.executor /\ n.offer = k.offer
  /\ n.rewardPool = k.rewardPool /\ n.disputant = k.disputant
  /\ n.disputeDeadline = k.disputeDeadline /\ n.posted = k.posted
  /\ n.deadline = k.deadline /\ n.proposer = k.proposer /\ n.proposed = k.proposed

LEMMA ClosedFields ==
  ASSUME NEW k \in Challenge, NEW sc \in BOOLEAN, NEW se \in BOOLEAN
  PROVE  LET n == BondsClosed(k, sc, se)
         IN  /\ n \in Challenge /\ SameTerms(k, n)
             /\ n.held = [k.held EXCEPT !["bond"] = IF k.bondFinalized THEN @ ELSE 0,
                                        !["executorBond"] = 0]
<1>1. /\ k.held \in [Lot -> Nat] /\ k.slashed \in Nat /\ k.bondFinalized \in BOOLEAN
      /\ k.held["bond"] \in Nat /\ k.held["executorBond"] \in Nat
  BY DEF Challenge, Lot
<1> DEFINE more == k.slashed
                   + (IF sc /\ ~k.bondFinalized THEN k.held["bond"] ELSE 0)
                   + (IF se THEN k.held["executorBond"] ELSE 0)
           held == [k.held EXCEPT !["bond"] = IF k.bondFinalized THEN @ ELSE 0,
                                  !["executorBond"] = 0]
           final == k.bondFinalized \/ k.held["bond"] # 0
<1>2. more \in Nat /\ held \in [Lot -> Nat] /\ final \in BOOLEAN
  <2>1. /\ (IF sc /\ ~k.bondFinalized THEN k.held["bond"] ELSE 0) \in Nat
        /\ (IF se THEN k.held["executorBond"] ELSE 0) \in Nat
    BY <1>1
  <2>2. more \in Nat
    BY <1>1, <2>1
  <2>3. held \in [Lot -> Nat]
    BY <1>1
  <2> QED BY <2>2, <2>3
<1>3. BondsClosed(k, sc, se) =
        [k EXCEPT !.bondFinalized = final, !.held = held, !.slashed = more]
  BY <1>1 DEF BondsClosed, Challenge
<1> HIDE DEF more, held, final
<1>4. LET n == [k EXCEPT !.bondFinalized = final, !.held = held, !.slashed = more]
      IN  n \in Challenge /\ SameTerms(k, n) /\ n.held = held
  BY <1>2 DEF Challenge, SameTerms
<1> QED BY <1>3, <1>4 DEF held

LEMMA ResolvedFields ==
  ASSUME TypeOK, NEW k \in Challenge, NEW succeeded \in BOOLEAN,
         NEW sc \in BOOLEAN, NEW se \in BOOLEAN,
         NEW endorsers \in SUBSET (Users \cup {"arbiter"})
  PROVE  LET n == Resolved(k, succeeded, sc, se, endorsers)
         IN  /\ n \in Challenge /\ SameTerms(k, n) /\ n.state = "Resolved"
             /\ n.held["reward"] = 0 /\ n.held["executorBond"] = 0
             /\ n.held["bond"] = IF k.bondFinalized THEN k.held["bond"] ELSE 0
             /\ n.held["disputeBond"] = k.held["disputeBond"]
             /\ n.endorsers = endorsers /\ n.succeeded = succeeded
             /\ n.settledAt = now
<1> DEFINE b == BondsClosed(k, sc, se)
           held == [b.held EXCEPT !["reward"] = 0]
           n == [b EXCEPT !.state = "Resolved", !.rewardFinalized = TRUE, !.held = held,
                          !.endorsers = endorsers, !.succeeded = succeeded,
                          !.settledAt = now]
<1>1. /\ b \in Challenge /\ SameTerms(k, b)
      /\ b.held = [k.held EXCEPT !["bond"] = IF k.bondFinalized THEN @ ELSE 0,
                                 !["executorBond"] = 0]
  BY ClosedFields
<1>2. k.held \in [Lot -> Nat] /\ now \in Nat
  BY DEF Challenge, TypeOK
<1>3. Resolved(k, succeeded, sc, se, endorsers) = n
  BY DEF Resolved
<1> HIDE DEF b
<1>4. b.held \in [Lot -> Nat] /\ "Resolved" \in ChallengeState
  BY <1>1 DEF Challenge, ChallengeState
<1>5. /\ held \in [Lot -> Nat] /\ held["reward"] = 0 /\ held["executorBond"] = 0
      /\ held["bond"] = IF k.bondFinalized THEN k.held["bond"] ELSE 0
      /\ held["disputeBond"] = k.held["disputeBond"]
  BY <1>1, <1>2, <1>4 DEF Lot
<1> HIDE DEF held
<1>6. /\ n \in Challenge /\ SameTerms(b, n) /\ n.state = "Resolved" /\ n.held = held
      /\ n.endorsers = endorsers /\ n.succeeded = succeeded /\ n.settledAt = now
  BY <1>1, <1>2, <1>4, <1>5 DEF Challenge, SameTerms
<1> HIDE DEF n
<1>7. SameTerms(k, n)
  BY <1>1, <1>6 DEF SameTerms
<1> QED BY <1>3, <1>5, <1>6, <1>7

LEMMA SettledSound ==
  ASSUME NEW next, NEW c, NEW k \in Challenge, NEW n \in Challenge,
         Sound(next, c, k), SameTerms(k, n), n.state \in Settled,
         n.state = "Resolved" =>
           Endorsed(n) /\ k.state \notin {"Open", "Cancelled", "Fraud"},
         \A l \in Lot : n.held[l] \in {0, k.held[l]}
  PROVE  Sound(next, c, n)
<1>1. c >= next => Untouched(n)
  <2> SUFFICES ASSUME Untouched(k) PROVE Untouched(n)
    BY DEF Sound
  <2>1. n.state # "Resolved"
    BY DEF Untouched
  <2> QED BY <2>1 DEF Untouched, SameTerms, Settled
<1>2. Deposits(n)
  <2>1. Deposits(k)
    BY DEF Sound
  <2>2. sponsorOf(n) = sponsorOf(k)
    BY DEF sponsorOf, SameTerms
  <2> QED BY <2>1, <2>2 DEF Deposits, SameTerms, Lot
<1>3. Stage(n)
  BY DEF Stage, Settled
<1> QED BY <1>1, <1>2, <1>3 DEF Sound

\* What a resolution pays in all, and to whom.
LEMMA ResolutionPays ==
  ASSUME NEW k \in Challenge, NEW succeeded \in BOOLEAN,
         NEW sc \in BOOLEAN, NEW se \in BOOLEAN,
         k.creator \in Users, k.executor \in Users, k.creator # k.executor
  PROVE  LET r == Resolution(k, succeeded, sc, se)
             winner == IF succeeded THEN performerOf(k) ELSE sponsorOf(k)
             loser == IF succeeded THEN sponsorOf(k) ELSE performerOf(k)
             b == IF sc \/ k.bondFinalized THEN 0 ELSE k.held["bond"]
             e == IF se THEN 0 ELSE k.held["executorBond"]
         IN  /\ r \in [Users -> Nat] /\ winner \in Users /\ loser \in Users
             /\ Total(r, Users) = k.rewardPool + b + e
             /\ r[winner] >= k.rewardPool - ChallengeFee(k.rewardPool)
             /\ loser # Admin =>
                  r[loser] <= IF loser = k.creator THEN k.held["bond"]
                                                   ELSE k.held["executorBond"]
<1> DEFINE b == IF sc \/ k.bondFinalized THEN 0 ELSE k.held["bond"]
           e == IF se THEN 0 ELSE k.held["executorBond"]
           winner == IF succeeded THEN performerOf(k) ELSE sponsorOf(k)
           loser == IF succeeded THEN sponsorOf(k) ELSE performerOf(k)
           fee == ChallengeFee(k.rewardPool)
           P == RewardPaid(k, succeeded)
           B == CreatorBondPaid(k, sc)
           E == ExecutorBondPaid(k, se)
           r == Resolution(k, succeeded, sc, se)
<1>1. /\ k.held["bond"] \in Nat /\ k.held["executorBond"] \in Nat
      /\ b \in Nat /\ e \in Nat /\ k.rewardPool \in Nat
      /\ b <= k.held["bond"] /\ e <= k.held["executorBond"]
  BY DEF Challenge, Lot
<1>2. /\ sponsorOf(k) \in Users /\ performerOf(k) \in Users
      /\ {winner, loser} = {k.creator, k.executor}
      /\ winner \in Users /\ loser \in Users /\ winner # loser
  BY DEF sponsorOf, performerOf
<1>3. P \in [Users -> Nat] /\ Total(P, Users) = k.rewardPool
  BY <1>2, RewardPaidType
<1>4. /\ B \in [Users -> Nat] /\ Total(B, Users) = b
      /\ \A u \in Users : B[u] = IF u = k.creator THEN b ELSE 0
  <2>1. B = ToUser(k.creator, b)
    BY DEF CreatorBondPaid
  <2> HIDE DEF B, b
  <2>2. B \in [Users -> Nat] /\ Total(B, Users) = b
    BY <1>1, <2>1, ToUserType
  <2> QED BY <2>1, <2>2 DEF ToUser
<1>5. /\ E \in [Users -> Nat] /\ Total(E, Users) = e
      /\ \A u \in Users : E[u] = IF u = k.executor THEN e ELSE 0
  <2>1. E = ToUser(k.executor, e)
    BY DEF ExecutorBondPaid
  <2> HIDE DEF E, e
  <2>2. E \in [Users -> Nat] /\ Total(E, Users) = e
    BY <1>1, <2>1, ToUserType
  <2> QED BY <2>1, <2>2 DEF ToUser
<1>6. fee \in Nat /\ fee <= k.rewardPool
  BY <1>1, FeeIsPart
<1>7. /\ P[winner] >= k.rewardPool - fee
      /\ loser # Admin => P[loser] = 0
  BY <1>1, <1>2, <1>6 DEF RewardPaid, ToUser
<1> HIDE DEF P, B, E, b, e, winner, loser, fee
<1>8. /\ Added(B, E) \in [Users -> Nat] /\ Total(Added(B, E), Users) = b + e
  BY <1>4, <1>5, AddedType
<1>9. /\ Added(P, Added(B, E)) \in [Users -> Nat]
      /\ Total(Added(P, Added(B, E)), Users) = k.rewardPool + (b + e)
  BY <1>3, <1>8, AddedType
<1>10. \A u \in Users : Added(P, Added(B, E))[u] = P[u] + (B[u] + E[u])
  BY DEF Added
<1>11. r = Added(P, Added(B, E))
  BY DEF Resolution, P, B, E
<1> HIDE DEF r
<1>12. \A u \in Users : P[u] \in Nat /\ B[u] \in Nat /\ E[u] \in Nat
  BY <1>3, <1>4, <1>5
<1>13. r[winner] >= k.rewardPool - fee
  BY <1>1, <1>2, <1>6, <1>7, <1>10, <1>11, <1>12
<1>14. loser # Admin => r[loser] <= IF loser = k.creator THEN k.held["bond"]
                                                         ELSE k.held["executorBond"]
  BY <1>1, <1>2, <1>4, <1>5, <1>7, <1>10, <1>11, <1>12
<1>15. Total(r, Users) = k.rewardPool + b + e
  BY <1>1, <1>9, <1>11
<1> QED BY <1>2, <1>9, <1>11, <1>13, <1>14, <1>15 DEF r, b, e, winner, loser, fee

\* The other resolutions pay the reward and the bonds.
LEMMA ResolveStep ==
  ASSUME ChallengeInv, NEW c \in ChallengeIds, NEW succeeded \in BOOLEAN,
         NEW sc \in BOOLEAN, NEW se \in BOOLEAN,
         NEW endorsers \in SUBSET (Users \cup {"arbiter"}),
         challenge[c].state \in {"Accepted", "EvidenceSubmitted", "Review"},
         CanFinalize(challenge[c]),
         PayAll(Resolution(challenge[c], succeeded, sc, se)),
         challenge' = [challenge EXCEPT ![c] =
                         Resolved(challenge[c], succeeded, sc, se, endorsers)],
         UNCHANGED context,
         \/ "arbiter" \in endorsers
         \/ {challenge[c].creator, challenge[c].executor} \subseteq endorsers
         \/ now > challenge[c].disputeDeadline /\ challenge[c].disputant = Nobody
  PROVE  Steps
<1> DEFINE k == challenge[c]
           n == Resolved(k, succeeded, sc, se, endorsers)
           r == Resolution(k, succeeded, sc, se)
           b == IF sc \/ k.bondFinalized THEN 0 ELSE k.held["bond"]
           e == IF se THEN 0 ELSE k.held["executorBond"]
           out == [l \in Lot |-> CASE l = "reward" -> k.rewardPool
                                   [] l = "bond" -> b
                                   [] l = "executorBond" -> e
                                   [] OTHER -> 0]
<1>1. /\ TypeOK /\ k \in Challenge /\ Sound(nextChallengeId, c, k)
  BY DEF ChallengeInv, TypeOK
<1>2. /\ k.creator \in Users /\ k.executor \in Users /\ k.creator # k.executor
      /\ k.held["reward"] = k.rewardPool /\ k.held["reward"] # 0
  BY <1>1 DEF Sound, Stage, Deposits, CanFinalize
<1>3. /\ n \in Challenge /\ SameTerms(k, n) /\ n.state = "Resolved"
      /\ n.held["reward"] = 0 /\ n.held["executorBond"] = 0
      /\ n.held["bond"] = IF k.bondFinalized THEN k.held["bond"] ELSE 0
      /\ n.held["disputeBond"] = k.held["disputeBond"]
      /\ n.endorsers = endorsers /\ n.succeeded = succeeded /\ n.settledAt = now
  BY <1>1, ResolvedFields
<1>4. /\ r \in [Users -> Nat]
      /\ Total(r, Users) = k.rewardPool + b + e
  BY <1>1, <1>2, ResolutionPays
<1>5. /\ wallet' \in [Users -> Nat]
      /\ \A u \in Users : wallet'[u] = wallet[u] + r[u]
      /\ escrow' = escrow - Total(r, Users) /\ escrow' \in Nat
  BY <1>1, <1>4, PayAllType
<1>6. Verdict(k, n)
  <2> DEFINE winner == IF succeeded THEN performerOf(k) ELSE sponsorOf(k)
             loser == IF succeeded THEN sponsorOf(k) ELSE performerOf(k)
  <2>1. /\ winner \in Users /\ loser \in Users
        /\ r[winner] >= k.rewardPool - ChallengeFee(k.rewardPool)
        /\ loser # Admin =>
             r[loser] <= IF loser = k.creator THEN k.held["bond"]
                                              ELSE k.held["executorBond"]
    BY <1>1, <1>2, ResolutionPays
  <2>2. /\ wallet[winner] \in Nat /\ wallet[loser] \in Nat
        /\ r[winner] \in Nat /\ r[loser] \in Nat
    BY <1>1, <1>4, <2>1 DEF TypeOK
  <2>3. /\ wallet'[winner] - wallet[winner] = r[winner]
        /\ wallet'[loser] - wallet[loser] = r[loser]
    BY <1>5, <2>1, <2>2
  <2>4. /\ k.held["bond"] \in Nat /\ k.held["executorBond"] \in Nat
        /\ k.held["disputeBond"] \in Nat
    BY <1>1 DEF Challenge, Lot
  <2> HIDE DEF winner, loser, r, n, k
  <2>5. n.succeeded = succeeded
    BY <1>3
  <2> QED BY <2>1, <2>2, <2>3, <2>4, <2>5 DEF Verdict, winner, loser
<1>7. Endorsed(n)
  BY <1>3 DEF Endorsed, SameTerms
<1>8. /\ \A l \in Lot : n.held[l] \in {0, k.held[l]}
      /\ n.posted = k.posted
  BY <1>3 DEF Lot, SameTerms
<1>9. Sound(nextChallengeId, c, n)
  BY <1>1, <1>3, <1>7, <1>8, SettledSound DEF Settled
<1>10. /\ k.rewardPool \in Nat /\ b \in Nat /\ e \in Nat
  BY <1>1 DEF Challenge, Lot
<1>11. /\ out \in [Lot -> Nat]
       /\ \A l \in Lot : out[l] # 0 => out[l] = k.held[l] /\ n.held[l] = 0
  <2>1. /\ out["reward"] = k.rewardPool /\ out["bond"] = b
        /\ out["executorBond"] = e /\ out["disputeBond"] = 0
    BY DEF Lot
  <2>2. b # 0 => b = k.held["bond"] /\ n.held["bond"] = 0
    BY <1>3
  <2>3. e # 0 => e = k.held["executorBond"]
    OBVIOUS
  <2>4. out \in [Lot -> Nat]
    BY <1>10 DEF Lot
  <2> HIDE DEF out, b, e, n, k
  <2> QED BY <1>2, <1>3, <2>1, <2>2, <2>3, <2>4 DEF Lot
<1>12. Four(out) = k.rewardPool + b + e
  BY <1>10 DEF Four, Lot
<1>13. challenge' = [challenge EXCEPT ![c] = n]
  OBVIOUS
<1> HIDE DEF out, b, e, n, r
<1>14. escrow' = escrow - Four(out)
  BY <1>4, <1>5, <1>12
<1>15. n \in Challenge /\ wallet' \in [Users -> Nat] /\ escrow' \in Nat
  BY <1>3, <1>5
<1> HIDE DEF k
<1>16. /\ challenge[c] = k /\ UNCHANGED context
  BY DEF k
<1>17. Sound(nextChallengeId, c, n) /\ Verdict(challenge[c], n)
  BY <1>6, <1>9, <1>16
<1>18. n.posted = challenge[c].posted
         /\ \A l \in Lot : n.held[l] \in {0, challenge[c].held[l]}
  BY <1>8, <1>16
<1>19. \A l \in Lot : out[l] # 0 => out[l] = challenge[c].held[l] /\ n.held[l] = 0
  BY <1>11, <1>16
<1>20. out \in [Lot -> Nat]
  BY <1>11
<1>21. c \in ChallengeIds /\ ChallengeInv /\ UNCHANGED context
  BY <1>16
<1> QED BY ONLY <1>13, <1>14, <1>15, <1>17, <1>18, <1>19, <1>20, <1>21, LeavingStep

LEMMA ResolutionSteps ==
  ASSUME ChallengeInv, NEW c \in ChallengeIds, NEW succeeded \in BOOLEAN,
         \/ \E u \in Users : ConfirmResolution(u, c, succeeded)
         \/ FinalizeUndisputed(c)
         \/ ResolveEarly(c, succeeded)
         \/ \E sc, se \in BOOLEAN : ResolveChallenge(c, succeeded, sc, se)
  PROVE  Steps
<1>1. /\ challenge[c] \in Challenge /\ Stage(challenge[c])
      /\ challenge[c].endorsers \in SUBSET (Users \cup {"arbiter"})
      /\ challenge[c].proposed \in BOOLEAN
  BY DEF ChallengeInv, Sound, TypeOK, Challenge
<1>2. ASSUME NEW sc \in BOOLEAN, NEW se \in BOOLEAN,
             ResolveChallenge(c, succeeded, sc, se)
      PROVE  Steps
  <2>1. {"arbiter"} \in SUBSET (Users \cup {"arbiter"})
    OBVIOUS
  <2> QED BY <1>2, <2>1, ResolveStep DEF ResolveChallenge
<1>3. CASE ResolveEarly(c, succeeded)
  <2>1. (~succeeded) \in BOOLEAN /\ FALSE \in BOOLEAN
    OBVIOUS
  <2> QED BY <1>2, <1>3, <2>1 DEF ResolveEarly
<1>4. ASSUME NEW u \in Users, ConfirmResolution(u, c, succeeded) PROVE Steps
  <2> DEFINE k == challenge[c]
             endorsers == k.endorsers \cup {u}
  <2>1. k.state = "Review" /\ u \in {k.creator, k.executor} \ {k.proposer}
    BY <1>4 DEF ConfirmResolution
  <2>2. k.proposer \in {k.creator, k.executor} /\ k.endorsers = {k.proposer}
    BY <1>1, <2>1 DEF Stage
  <2>3. /\ {k.creator, k.executor} \subseteq endorsers
        /\ endorsers \in SUBSET (Users \cup {"arbiter"})
        /\ FALSE \in BOOLEAN /\ (~succeeded) \in BOOLEAN
    BY <1>1, <2>1, <2>2
  <2> QED BY <1>4, <2>1, <2>3, ResolveStep DEF ConfirmResolution
<1>5. CASE FinalizeUndisputed(c)
  <2> DEFINE k == challenge[c]
  <2>1. k.state = "Review" /\ now > k.disputeDeadline
    BY <1>5 DEF FinalizeUndisputed
  <2>2. k.disputant = Nobody /\ FALSE \in BOOLEAN /\ (~k.proposed) \in BOOLEAN
    BY <1>1, <2>1 DEF Stage
  <2> QED BY <1>1, <1>5, <2>1, <2>2, ResolveStep DEF FinalizeUndisputed
<1> QED BY <1>2, <1>3, <1>4, <1>5

\* resolveDispute pays the dispute bond too, to one of the parties or back.
LEMMA DisputeSteps ==
  ASSUME ChallengeInv, NEW c \in ChallengeIds, NEW succeeded \in BOOLEAN,
         ResolveDispute(c, succeeded)
  PROVE  Steps
<1> DEFINE k == challenge[c]
           se == ~succeeded
           m == Resolved(k, succeeded, FALSE, se, {"arbiter"})
           n == [m EXCEPT !.held["disputeBond"] = 0]
           r == Resolution(k, succeeded, FALSE, se)
           d == k.held["disputeBond"]
           back == DisputeBondPaid(k, succeeded)
           b == IF FALSE \/ k.bondFinalized THEN 0 ELSE k.held["bond"]
           e == IF se THEN 0 ELSE k.held["executorBond"]
           out == [l \in Lot |-> CASE l = "reward" -> k.rewardPool
                                   [] l = "bond" -> b
                                   [] l = "executorBond" -> e
                                   [] OTHER -> d]
           winner == IF succeeded THEN performerOf(k) ELSE sponsorOf(k)
           loser == IF succeeded THEN sponsorOf(k) ELSE performerOf(k)
           account == IF succeeded # k.proposed THEN k.disputant
                      ELSE IF succeeded THEN performerOf(k) ELSE sponsorOf(k)
<1>1. /\ TypeOK /\ k \in Challenge /\ Sound(nextChallengeId, c, k)
      /\ se \in BOOLEAN /\ FALSE \in BOOLEAN
      /\ {"arbiter"} \in SUBSET (Users \cup {"arbiter"})
  BY DEF ChallengeInv, TypeOK
<1>2. /\ k.state = "Disputed" /\ CanFinalize(k) /\ PayAll(Added(r, back))
      /\ challenge' = [challenge EXCEPT ![c] = n] /\ UNCHANGED context
  BY DEF ResolveDispute
<1>3. /\ k.creator \in Users /\ k.executor \in Users /\ k.creator # k.executor
      /\ k.held["reward"] = k.rewardPool /\ k.held["reward"] # 0
      /\ d # 0 => k.disputant \in Users
  BY <1>1, <1>2 DEF Sound, Stage, Deposits, CanFinalize
<1>4. /\ m \in Challenge /\ SameTerms(k, m) /\ m.state = "Resolved"
      /\ m.held["reward"] = 0 /\ m.held["executorBond"] = 0
      /\ m.held["bond"] = IF k.bondFinalized THEN k.held["bond"] ELSE 0
      /\ m.endorsers = {"arbiter"} /\ m.succeeded = succeeded
  <2> HIDE DEF k, se
  <2>1. ASSUME NEW sc \in BOOLEAN, NEW ends \in SUBSET (Users \cup {"arbiter"})
        PROVE  LET x == Resolved(k, succeeded, sc, se, ends)
               IN  /\ x \in Challenge /\ SameTerms(k, x) /\ x.state = "Resolved"
                   /\ x.held["reward"] = 0 /\ x.held["executorBond"] = 0
                   /\ x.held["bond"] = IF k.bondFinalized THEN k.held["bond"] ELSE 0
                   /\ x.endorsers = ends /\ x.succeeded = succeeded
    BY <1>1, ResolvedFields
  <2> QED BY <1>1, <2>1
<1>5. /\ n \in Challenge /\ SameTerms(k, n) /\ n.state = "Resolved"
      /\ n.held["reward"] = 0 /\ n.held["executorBond"] = 0
      /\ n.held["bond"] = IF k.bondFinalized THEN k.held["bond"] ELSE 0
      /\ n.held["disputeBond"] = 0
      /\ n.endorsers = {"arbiter"} /\ n.succeeded = succeeded
  <2> HIDE DEF m, k
  <2>1. m.held \in [Lot -> Nat]
    BY <1>4 DEF Challenge
  <2> DEFINE held == [m.held EXCEPT !["disputeBond"] = 0]
  <2>2. /\ held \in [Lot -> Nat] /\ held["disputeBond"] = 0
        /\ \A l \in Lot \ {"disputeBond"} : held[l] = m.held[l]
    BY <2>1 DEF Lot
  <2>3. n = [m EXCEPT !.held = held]
    BY <1>4 DEF Challenge
  <2> HIDE DEF held
  <2>4. /\ n \in Challenge /\ n.held = held
    BY <1>4, <2>2, <2>3 DEF Challenge
  <2>5. SameTerms(k, n) /\ n.state = "Resolved" /\ n.endorsers = {"arbiter"}
        /\ n.succeeded = succeeded
    BY <1>4, <2>3 DEF Challenge, SameTerms
  <2> HIDE DEF n
  <2> QED BY <1>4, <2>2, <2>4, <2>5 DEF Lot
<1>6. /\ k.rewardPool \in Nat /\ b \in Nat /\ e \in Nat /\ d \in Nat
      /\ k.held["bond"] \in Nat /\ k.held["executorBond"] \in Nat
  BY <1>1 DEF Challenge, Lot
<1>7. /\ r \in [Users -> Nat] /\ winner \in Users /\ loser \in Users
      /\ Total(r, Users) = k.rewardPool + b + e
      /\ r[winner] >= k.rewardPool - ChallengeFee(k.rewardPool)
      /\ loser # Admin =>
           r[loser] <= IF loser = k.creator THEN k.held["bond"]
                                            ELSE k.held["executorBond"]
  BY <1>1, <1>3, ResolutionPays
<1>8. /\ winner # loser /\ (account = k.disputant \/ account = winner)
      /\ d # 0 => account \in Users
  BY <1>3, <1>7 DEF sponsorOf, performerOf
<1>9. /\ back \in [Users -> Nat] /\ Total(back, Users) = d
      /\ \A u \in Users : back[u] = IF u = account THEN d ELSE 0
  <2>1. back = ToUser(account, d)
    BY DEF DisputeBondPaid
  <2> HIDE DEF back, account, d
  <2>2. back \in [Users -> Nat] /\ Total(back, Users) = d
    BY <1>6, <1>8, <2>1, ToUserType
  <2> QED BY <2>1, <2>2 DEF ToUser
<1> HIDE DEF k, n, m, r, back, b, e, d, winner, loser, account, se
<1>10. /\ Added(r, back) \in [Users -> Nat]
       /\ Total(Added(r, back), Users) = k.rewardPool + b + e + d
       /\ \A u \in Users : Added(r, back)[u] = r[u] + back[u]
  <2>1. /\ Added(r, back) \in [Users -> Nat]
        /\ Total(Added(r, back), Users) = Total(r, Users) + Total(back, Users)
    BY <1>7, <1>9, AddedType
  <2>2. \A u \in Users : Added(r, back)[u] = r[u] + back[u]
    BY DEF Added
  <2> QED BY <1>6, <1>7, <1>9, <2>1, <2>2
<1>11. /\ wallet' \in [Users -> Nat]
       /\ \A u \in Users : wallet'[u] = wallet[u] + (r[u] + back[u])
       /\ escrow' = escrow - (k.rewardPool + b + e + d) /\ escrow' \in Nat
  BY <1>1, <1>2, <1>10, PayAllType
<1>12. Verdict(k, n)
  <2>1. \A u \in Users : /\ wallet[u] \in Nat /\ r[u] \in Nat /\ back[u] \in Nat
    BY <1>1, <1>7, <1>9 DEF TypeOK
  <2>2. /\ wallet'[winner] - wallet[winner] = r[winner] + back[winner]
        /\ wallet'[loser] - wallet[loser] = r[loser] + back[loser]
    BY <1>7, <1>11, <2>1
  <2>3. back[loser] <= IF loser = k.disputant THEN d ELSE 0
    BY <1>6, <1>7, <1>8, <1>9
  <2>4. ChallengeFee(k.rewardPool) \in Nat
    BY <1>6, FeeIsPart
  <2> DEFINE own == IF loser = k.creator THEN k.held["bond"] ELSE k.held["executorBond"]
             more == IF loser = k.disputant THEN d ELSE 0
  <2>5. own \in Nat /\ more \in Nat /\ back[loser] <= more
        /\ (loser # Admin => r[loser] <= own)
    BY <1>6, <1>7, <2>3
  <2> HIDE DEF own, more
  <2>6. /\ wallet'[winner] - wallet[winner] >= k.rewardPool - ChallengeFee(k.rewardPool)
        /\ loser # Admin => wallet'[loser] - wallet[loser] <= own + more
    BY <1>6, <1>7, <2>1, <2>2, <2>4, <2>5
  <2> QED BY <1>5, <2>6 DEF Verdict, winner, loser, own, more, d
<1>13. Endorsed(n)
  BY <1>5 DEF Endorsed
<1>14. /\ \A l \in Lot : n.held[l] \in {0, k.held[l]}
       /\ n.posted = k.posted
  BY <1>5 DEF Lot, SameTerms
<1>15. Sound(nextChallengeId, c, n)
  BY <1>1, <1>2, <1>5, <1>13, <1>14, SettledSound DEF Settled
<1>16. out \in [Lot -> Nat] /\ Four(out) = k.rewardPool + b + e + d
  <2>1. /\ out["reward"] = k.rewardPool /\ out["bond"] = b
        /\ out["executorBond"] = e /\ out["disputeBond"] = d
    BY DEF Lot
  <2>2. out \in [Lot -> Nat]
    BY <1>6 DEF Lot
  <2> HIDE DEF out
  <2> QED BY <1>6, <2>1, <2>2 DEF Four
<1>17. \A l \in Lot : out[l] # 0 => out[l] = k.held[l] /\ n.held[l] = 0
  <2>1. /\ out["reward"] = k.rewardPool /\ out["bond"] = b
        /\ out["executorBond"] = e /\ out["disputeBond"] = d
    BY DEF Lot
  <2>2. b # 0 => b = k.held["bond"] /\ n.held["bond"] = 0
    BY <1>5 DEF b
  <2>3. e # 0 => e = k.held["executorBond"]
    BY DEF e
  <2> HIDE DEF out
  <2> QED BY <1>3, <1>5, <2>1, <2>2, <2>3 DEF Lot, d
<1> HIDE DEF out
<1>18. escrow' = escrow - Four(out)
  BY <1>11, <1>16
<1>19. /\ c \in ChallengeIds /\ ChallengeInv /\ UNCHANGED context /\ n \in Challenge
       /\ k = challenge[c] /\ wallet' \in [Users -> Nat] /\ escrow' \in Nat
       /\ challenge' = [challenge EXCEPT ![c] = n] /\ out \in [Lot -> Nat]
  BY <1>2, <1>5, <1>11, <1>16 DEF k
<1> QED BY ONLY <1>12, <1>14, <1>15, <1>17, <1>18, <1>19, LeavingStep

LEMMA UnwoundFields ==
  ASSUME NEW k \in Challenge, NEW state \in ChallengeState,
         NEW sc \in BOOLEAN, NEW se \in BOOLEAN
  PROVE  LET n == Unwound(k, state, sc, se)
         IN  /\ n \in Challenge /\ SameTerms(k, n) /\ n.state = state
             /\ n.held["reward"] = IF k.rewardFinalized THEN k.held["reward"] ELSE 0
             /\ n.held["bond"] = IF k.bondFinalized THEN k.held["bond"] ELSE 0
             /\ n.held["executorBond"] = 0 /\ n.held["disputeBond"] = 0
<1> DEFINE b == BondsClosed(k, sc, se)
           held == [b.held EXCEPT !["reward"] = IF k.rewardFinalized THEN @ ELSE 0,
                                  !["disputeBond"] = 0]
           early == b.closedEarly \/ k.creator = Nobody
           n == [b EXCEPT !.state = state, !.rewardFinalized = TRUE, !.held = held,
                          !.closedEarly = early]
<1>1. /\ b \in Challenge /\ SameTerms(k, b)
      /\ b.held = [k.held EXCEPT !["bond"] = IF k.bondFinalized THEN @ ELSE 0,
                                 !["executorBond"] = 0]
  BY ClosedFields
<1>2. k.held \in [Lot -> Nat]
  BY DEF Challenge
<1> HIDE DEF b
<1>3. b.held \in [Lot -> Nat] /\ early \in BOOLEAN
  BY <1>1 DEF Challenge
<1>4. Unwound(k, state, sc, se) = n
  BY <1>1, <1>3 DEF Unwound, b, Challenge
<1>5. /\ held \in [Lot -> Nat]
      /\ held["reward"] = IF k.rewardFinalized THEN k.held["reward"] ELSE 0
      /\ held["bond"] = IF k.bondFinalized THEN k.held["bond"] ELSE 0
      /\ held["executorBond"] = 0 /\ held["disputeBond"] = 0
  BY <1>1, <1>2, <1>3 DEF Lot
<1> HIDE DEF held, early
<1>6. /\ n \in Challenge /\ SameTerms(b, n) /\ n.state = state /\ n.held = held
  BY <1>1, <1>3, <1>5 DEF Challenge, SameTerms
<1> HIDE DEF n
<1>7. SameTerms(k, n)
  BY <1>1, <1>6 DEF SameTerms
<1> QED BY <1>4, <1>5, <1>6, <1>7

\* Every deposit still held goes back to the account that posted it.
LEMMA UnwindStep ==
  ASSUME ChallengeInv, NEW c \in ChallengeIds, NEW state \in {"Cancelled", "Fraud"},
         NEW sc \in BOOLEAN, NEW se \in BOOLEAN,
         PayAll(Unwinding(challenge[c], sc, se)),
         challenge' = [challenge EXCEPT ![c] = Unwound(challenge[c], state, sc, se)],
         UNCHANGED context
  PROVE  Steps
<1> DEFINE k == challenge[c]
           n == Unwound(k, state, sc, se)
           a == IF k.rewardFinalized THEN 0 ELSE k.held["reward"]
           b == IF sc \/ k.bondFinalized THEN 0 ELSE k.held["bond"]
           e == IF se THEN 0 ELSE k.held["executorBond"]
           d == k.held["disputeBond"]
           A == ToUser(sponsorOf(k), a)
           B == CreatorBondPaid(k, sc)
           E == ExecutorBondPaid(k, se)
           D == ToUser(k.disputant, d)
           out == [l \in Lot |-> CASE l = "reward" -> a
                                   [] l = "bond" -> b
                                   [] l = "executorBond" -> e
                                   [] OTHER -> d]
<1>1. /\ TypeOK /\ k \in Challenge /\ Sound(nextChallengeId, c, k) /\ Deposits(k)
      /\ state \in ChallengeState /\ state \in Settled /\ state # "Resolved"
  BY DEF ChallengeInv, TypeOK, Sound, ChallengeState, Settled
<1>2. /\ a \in Nat /\ b \in Nat /\ e \in Nat /\ d \in Nat
      /\ a # 0 => a = k.held["reward"] /\ ~k.rewardFinalized
      /\ b # 0 => b = k.held["bond"] /\ ~k.bondFinalized
      /\ e # 0 => e = k.held["executorBond"]
  BY <1>1 DEF Challenge, Lot
<1>3. /\ a # 0 => sponsorOf(k) \in Users
      /\ b # 0 => k.creator \in Users
      /\ e # 0 => k.executor \in Users
      /\ d # 0 => k.disputant \in Users
  BY <1>1, <1>2 DEF Deposits
<1>4. /\ n \in Challenge /\ SameTerms(k, n) /\ n.state = state
      /\ n.held["reward"] = IF k.rewardFinalized THEN k.held["reward"] ELSE 0
      /\ n.held["bond"] = IF k.bondFinalized THEN k.held["bond"] ELSE 0
      /\ n.held["executorBond"] = 0 /\ n.held["disputeBond"] = 0
  BY <1>1, UnwoundFields
<1>5. B = ToUser(k.creator, b) /\ E = ToUser(k.executor, e)
  BY DEF CreatorBondPaid, ExecutorBondPaid
<1>6. /\ PayAll(Added(A, Added(D, Added(B, E))))
      /\ challenge' = [challenge EXCEPT ![c] = n] /\ k = challenge[c]
  BY DEF Unwinding
<1> HIDE DEF k, n, a, b, e, d
<1>7. /\ A \in [Users -> Nat] /\ Total(A, Users) = a
  BY <1>2, <1>3, ToUserType
<1>8. /\ D \in [Users -> Nat] /\ Total(D, Users) = d
  BY <1>2, <1>3, ToUserType
<1> HIDE DEF A, B, D, E
<1>9. /\ B \in [Users -> Nat] /\ Total(B, Users) = b
  BY <1>2, <1>3, <1>5, ToUserType
<1>10. /\ E \in [Users -> Nat] /\ Total(E, Users) = e
  BY <1>2, <1>3, <1>5, ToUserType
<1>11. /\ Added(B, E) \in [Users -> Nat] /\ Total(Added(B, E), Users) = b + e
  BY <1>9, <1>10, AddedType
<1>12. /\ Added(D, Added(B, E)) \in [Users -> Nat]
       /\ Total(Added(D, Added(B, E)), Users) = d + (b + e)
  BY <1>8, <1>11, AddedType
<1> DEFINE r == Added(A, Added(D, Added(B, E)))
<1>13. /\ r \in [Users -> Nat] /\ Total(r, Users) = a + (d + (b + e))
  BY <1>7, <1>12, AddedType
<1>14. PayAll(r)
  BY <1>6
<1> HIDE DEF r
<1>15. /\ wallet' \in [Users -> Nat] /\ escrow' \in Nat
       /\ escrow' = escrow - (a + (d + (b + e)))
  BY <1>1, <1>13, <1>14, PayAllType
<1>16. /\ out["reward"] = a /\ out["bond"] = b
       /\ out["executorBond"] = e /\ out["disputeBond"] = d
       /\ out \in [Lot -> Nat]
  BY <1>2 DEF Lot
<1> HIDE DEF out
<1>17. escrow' = escrow - Four(out)
  BY <1>2, <1>15, <1>16 DEF Four
<1>18. /\ \A l \in Lot : n.held[l] \in {0, k.held[l]}
       /\ n.posted = k.posted
  BY <1>4 DEF Lot, SameTerms
<1>19. Sound(nextChallengeId, c, n)
  BY <1>1, <1>4, <1>18, SettledSound
<1>20. \A l \in Lot : out[l] # 0 => out[l] = k.held[l] /\ n.held[l] = 0
  BY <1>2, <1>4, <1>16 DEF Lot, d
<1>21. Verdict(k, n)
  BY <1>1, <1>4 DEF Verdict
<1>22. /\ c \in ChallengeIds /\ ChallengeInv /\ UNCHANGED context /\ n \in Challenge
       /\ k = challenge[c] /\ wallet' \in [Users -> Nat] /\ escrow' \in Nat
       /\ challenge' = [challenge EXCEPT ![c] = n] /\ out \in [Lot -> Nat]
  BY <1>4, <1>6, <1>15, <1>16
<1> QED BY ONLY <1>17, <1>18, <1>19, <1>20, <1>21, <1>22, LeavingStep

LEMMA UnwindSteps ==
  ASSUME ChallengeInv, NEW c \in ChallengeIds,
         CancelChallenge(c) \/ \E offender \in Users \cup {Nobody} : ConfirmFraud(c, offender)
  PROVE  Steps
<1>1. CASE CancelChallenge(c)
  <2>1. "Cancelled" \in {"Cancelled", "Fraud"} /\ FALSE \in BOOLEAN
    OBVIOUS
  <2> QED BY <1>1, <2>1, UnwindStep DEF CancelChallenge
<1>2. ASSUME NEW offender \in Users \cup {Nobody}, ConfirmFraud(c, offender) PROVE Steps
  <2>1. /\ "Fraud" \in {"Cancelled", "Fraud"}
        /\ (offender = challenge[c].creator) \in BOOLEAN
        /\ (offender = challenge[c].executor) \in BOOLEAN
    OBVIOUS
  <2> QED BY <1>2, <2>1, UnwindStep DEF ConfirmFraud
<1> QED BY <1>1, <1>2

-----------------------------------------------------------------------------
\* The creator's bond on its own.

LEMMA LighterSound ==
  ASSUME NEW next, NEW c, NEW k \in Challenge, NEW n \in Challenge,
         Sound(next, c, k), SameTerms(k, n), n.state = k.state,
         n.proposer = k.proposer, n.endorsers = k.endorsers,
         n.settledAt = k.settledAt,
         \A l \in Lot : n.held[l] \in {0, k.held[l]}
  PROVE  Sound(next, c, n)
<1>1. Untouched(k) => Untouched(n)
  BY DEF Untouched, SameTerms
<1>2. Deposits(n)
  <2>1. Deposits(k)
    BY DEF Sound
  <2>2. sponsorOf(n) = sponsorOf(k)
    BY DEF sponsorOf, SameTerms
  <2> QED BY <2>1, <2>2 DEF Deposits, SameTerms, Lot
<1>3. Stage(n)
  BY DEF Sound, Stage, SameTerms
<1>4. Endorsed(k) => Endorsed(n)
  BY DEF Endorsed, SameTerms
<1> QED BY <1>1, <1>2, <1>3, <1>4 DEF Sound

LEMMA BondSteps ==
  ASSUME ChallengeInv, NEW c \in ChallengeIds, ReleaseBond(c) \/ SlashBond(c)
  PROVE  Steps
<1> DEFINE k == challenge[c]
           bond == k.held["bond"]
           held == [k.held EXCEPT !["bond"] = 0]
           r == ToUser(k.creator, bond)
<1>1. /\ TypeOK /\ k \in Challenge /\ Sound(nextChallengeId, c, k) /\ Deposits(k)
      /\ challenge \in [ChallengeIds -> Challenge]
  BY DEF ChallengeInv, TypeOK, Sound
<1>2. k.held \in [Lot -> Nat] /\ bond \in Nat /\ k.slashed \in Nat
  BY <1>1 DEF Challenge, Lot
<1>3. /\ held \in [Lot -> Nat] /\ held["bond"] = 0
      /\ \A l \in Lot : held[l] \in {0, k.held[l]}
  BY <1>2 DEF Lot
<1>4. bond # 0
  BY DEF ReleaseBond, SlashBond
<1>5. k.creator \in Users
  BY <1>1, <1>4 DEF Deposits
<1>6. ASSUME NEW n \in Challenge, NEW more \in Nat,
             n = [k EXCEPT !.bondFinalized = TRUE, !.held = held, !.slashed = more]
      PROVE  /\ Sound(nextChallengeId, c, n) /\ n.held = held /\ n.posted = k.posted
             /\ Verdict(k, n)
  <2> HIDE DEF held, k
  <2>1. /\ SameTerms(k, n) /\ n.state = k.state /\ n.proposer = k.proposer
        /\ n.endorsers = k.endorsers /\ n.settledAt = k.settledAt /\ n.held = held
    BY <1>1, <1>6 DEF Challenge, SameTerms
  <2>2. Sound(nextChallengeId, c, n)
    BY <1>1, <1>3, <2>1, LighterSound
  <2> QED BY <2>1, <2>2 DEF SameTerms, Verdict
<1>7. CASE ReleaseBond(c)
  <2> DEFINE n == [k EXCEPT !.bondFinalized = TRUE, !.held = held, !.slashed = k.slashed]
             out == [l \in Lot |-> IF l = "bond" THEN bond ELSE 0]
  <2>1. n \in Challenge
    BY <1>1, <1>2, <1>3 DEF Challenge
  <2>2. challenge' = [challenge EXCEPT ![c] = n]
    <3>1. challenge' = [challenge EXCEPT ![c] = [k EXCEPT !.bondFinalized = TRUE, !.held = held]]
      BY <1>7 DEF ReleaseBond
    <3>2. [k EXCEPT !.bondFinalized = TRUE, !.held = held] = n
      BY <1>1 DEF Challenge
    <3> QED BY <3>1, <3>2
  <2>3. /\ r \in [Users -> Nat] /\ Total(r, Users) = bond
    BY <1>2, <1>5, ToUserType
  <2>4. /\ wallet' \in [Users -> Nat] /\ escrow' \in Nat /\ escrow' = escrow - bond
        /\ UNCHANGED context
    <3>1. PayAll(r) /\ UNCHANGED context
      BY <1>7 DEF ReleaseBond
    <3> HIDE DEF r, bond
    <3> QED BY <1>1, <2>3, <3>1, PayAllType
  <2>5. Sound(nextChallengeId, c, n) /\ n.held = held /\ n.posted = k.posted /\ Verdict(k, n)
    BY <1>2, <1>6, <2>1
  <2>6. /\ out \in [Lot -> Nat] /\ Four(out) = bond
        /\ \A l \in Lot : out[l] # 0 => out[l] = k.held[l] /\ held[l] = 0
    BY <1>2, <1>3 DEF Lot, Four
  <2> HIDE DEF n, k, held, bond, out
  <2>7. /\ c \in ChallengeIds /\ ChallengeInv /\ k = challenge[c]
        /\ \A l \in Lot : out[l] # 0 => out[l] = k.held[l] /\ n.held[l] = 0
        /\ \A l \in Lot : n.held[l] \in {0, k.held[l]}
        /\ escrow' = escrow - Four(out)
    BY <1>3, <2>4, <2>5, <2>6 DEF k
  <2> QED BY ONLY <2>1, <2>2, <2>4, <2>5, <2>6, <2>7, LeavingStep
<1>8. CASE SlashBond(c)
  <2> DEFINE more == k.slashed + bond
             n == [k EXCEPT !.bondFinalized = TRUE, !.held = held, !.slashed = more]
             out == [l \in Lot |-> 0]
  <2>1. more \in Nat /\ n \in Challenge
    <3>1. more \in Nat
      BY <1>2
    <3> HIDE DEF more, held
    <3> QED BY <1>1, <1>3, <3>1 DEF Challenge
  <2>2. challenge' = [challenge EXCEPT ![c] = n]
    BY <1>1, <1>8 DEF SlashBond, Challenge
  <2>3. /\ wallet' \in [Users -> Nat] /\ escrow' \in Nat /\ escrow' = escrow
        /\ escrow \in Nat /\ UNCHANGED context
    BY <1>1, <1>8 DEF SlashBond, tokens, TypeOK
  <2>4. Sound(nextChallengeId, c, n) /\ n.held = held /\ n.posted = k.posted /\ Verdict(k, n)
    <3> HIDE DEF more, held, k
    <3> QED BY <1>6, <2>1
  <2>5. out \in [Lot -> Nat] /\ Four(out) = 0 /\ \A l \in Lot : out[l] = 0
    BY DEF Lot, Four
  <2> HIDE DEF n, k, held, bond, out
  <2>6. /\ c \in ChallengeIds /\ ChallengeInv /\ k = challenge[c]
        /\ \A l \in Lot : out[l] # 0 => out[l] = k.held[l] /\ n.held[l] = 0
        /\ \A l \in Lot : n.held[l] \in {0, k.held[l]}
        /\ escrow' = escrow - Four(out)
    BY <1>3, <2>3, <2>4, <2>5 DEF k
  <2> QED BY ONLY <2>1, <2>2, <2>3, <2>4, <2>5, <2>6, LeavingStep
<1> QED BY <1>7, <1>8

-----------------------------------------------------------------------------
\* Deposits.

\* A step on c that takes deposits in and pays nothing.
LEMMA EnteringStep ==
  ASSUME ChallengeInv, NEW c \in ChallengeIds, NEW n \in Challenge, NEW u \in Users,
         challenge' = [challenge EXCEPT ![c] = n],
         nextChallengeId' \in Nat \ {0}, nextChallengeId' >= nextChallengeId,
         UNCHANGED <<now, paused, standardResolutionWindow>>,
         Sound(nextChallengeId', c, n), n.state # "Resolved",
         \A l \in Lot : Kept(challenge[c], n, l) \/ Entered(challenge[c], n, l),
         NEW amount \in Nat, amount = Four(Entering(challenge[c], n)),
         PullFrom(u, amount)
  PROVE  Steps
<1>1. /\ TypeOK /\ escrow \in Nat /\ wallet \in [Users -> Nat]
  BY DEF ChallengeInv, TypeOK
<1>2. /\ wallet[u] \in Nat /\ wallet[u] >= amount
      /\ wallet' = [wallet EXCEPT ![u] = @ - amount] /\ escrow' = escrow + amount
  BY <1>1 DEF PullFrom, CanPay
<1>3. wallet[u] - amount \in Nat
  BY <1>2
<1>4. wallet' \in [Users -> Nat] /\ escrow' \in Nat
  BY <1>1, <1>2, <1>3
<1> DEFINE out == [l \in Lot |-> 0]
<1>5. out \in [Lot -> Nat] /\ Four(out) = 0 /\ \A l \in Lot : out[l] = 0
  BY DEF Lot, Four
<1> HIDE DEF out
<1>6. escrow' = escrow + Four(Entering(challenge[c], n)) - Four(out)
  BY <1>1, <1>2, <1>5
<1>7. /\ \A l \in Lot : \/ Kept(challenge[c], n, l)
                        \/ Entered(challenge[c], n, l)
                        \/ Ended(challenge[c], n, l)
      /\ \A l \in Lot : out[l] # 0 => /\ out[l] = challenge[c].held[l]
                                      /\ Ended(challenge[c], n, l)
  BY <1>5
<1>8. Escrowed!LotsNext
  BY <1>1, <1>5, <1>6, <1>7, LotStep
<1>9. /\ now' \in Nat /\ paused' \in BOOLEAN
      /\ standardResolutionWindow' \in
           MIN_STANDARD_RESOLUTION_WINDOW .. MAX_STANDARD_RESOLUTION_WINDOW
  BY <1>1 DEF TypeOK
<1>10. Verdict(challenge[c], n)
  BY DEF Verdict
<1> QED BY <1>4, <1>8, <1>9, <1>10, Moves

OnlyLots(k, n) == n = [k EXCEPT !.held = n.held, !.posted = n.posted]

LEMMA DepositFields ==
  ASSUME NEW k \in Challenge, NEW l \in Lot, NEW amount \in Nat
  PROVE  LET n == Deposit(k, l, amount)
         IN  /\ n \in Challenge
             /\ OnlyLots(k, n)
             /\ n.held = [k.held EXCEPT ![l] = amount]
             /\ n.posted = [k.posted EXCEPT ![l] = amount]
<1> DEFINE held == [k.held EXCEPT ![l] = amount]
           posted == [k.posted EXCEPT ![l] = amount]
<1>1. /\ held \in [Lot -> Nat] /\ posted \in [Lot -> Nat]
  BY DEF Challenge
<1>2. Deposit(k, l, amount) = [k EXCEPT !.held = held, !.posted = posted]
  BY DEF Deposit, Challenge
<1> HIDE DEF held, posted
<1>3. LET n == [k EXCEPT !.held = held, !.posted = posted]
      IN  n \in Challenge /\ n.held = held /\ n.posted = posted
  BY <1>1 DEF Challenge
<1> QED BY <1>2, <1>3 DEF held, posted, OnlyLots

\* One deposit where there was none.
LEMMA OneEntering ==
  ASSUME NEW k \in Challenge, NEW n \in Challenge, NEW lot \in Lot, NEW amount \in Nat,
         n.held = [k.held EXCEPT ![lot] = amount],
         n.posted = [k.posted EXCEPT ![lot] = amount],
         k.posted[lot] = 0, k.held[lot] \in {0, k.posted[lot]}
  PROVE  /\ \A l \in Lot : Kept(k, n, l) \/ Entered(k, n, l)
         /\ Four(Entering(k, n)) = amount
<1>1. k.held \in [Lot -> Nat] /\ k.posted \in [Lot -> Nat]
  BY DEF Challenge
<1>2. \A l \in Lot : /\ n.held[l] = IF l = lot THEN amount ELSE k.held[l]
                     /\ n.posted[l] = IF l = lot THEN amount ELSE k.posted[l]
  BY <1>1
<1>3. \A l \in Lot : Kept(k, n, l) \/ Entered(k, n, l)
  BY <1>2 DEF Kept, Entered
<1>4. \A l \in Lot : Entering(k, n)[l] = IF l = lot THEN amount ELSE 0
  BY <1>2 DEF Entering
<1>5. Four(Entering(k, n)) = amount
  BY <1>4 DEF Four, Lot
<1> QED BY <1>3, <1>5

LEMMA AcceptSteps ==
  ASSUME ChallengeInv, NEW c \in ChallengeIds, NEW u \in Users, AcceptChallenge(u, c)
  PROVE  Steps
<1> DEFINE k == challenge[c]
           lot == IF k.offer THEN "reward" ELSE "executorBond"
           amount == Acceptance(k)
           m == Deposit(k, lot, amount)
           n == [m EXCEPT !.executor = u, !.state = "Accepted"]
<1>1. /\ TypeOK /\ k \in Challenge /\ lot \in Lot
      /\ Sound(nextChallengeId, c, k) /\ Deposits(k) /\ Stage(k)
  BY DEF ChallengeInv, TypeOK, Sound, Lot
<1>2. amount \in Nat
  BY <1>1 DEF Acceptance, Challenge, Lot
<1>3. /\ k.state = "Open" /\ k.creator # Nobody /\ u # k.creator
      /\ PullFrom(u, amount) /\ challenge' = [challenge EXCEPT ![c] = n]
      /\ UNCHANGED context
  BY DEF AcceptChallenge
<1>4. /\ k.posted[lot] = 0 /\ k.held[lot] \in {0, k.posted[lot]}
      /\ k.posted["executorBond"] = 0
      /\ k.disputant = Nobody /\ k.posted["disputeBond"] = 0
      /\ k.offer => amount = k.rewardPool
  BY <1>1, <1>3 DEF Stage, Deposits, Acceptance
<1> HIDE DEF lot, amount, k
<1>5. /\ m \in Challenge
      /\ OnlyLots(k, m)
      /\ m.held = [k.held EXCEPT ![lot] = amount]
      /\ m.posted = [k.posted EXCEPT ![lot] = amount]
  BY <1>1, <1>2, DepositFields
<1> HIDE DEF m
<1>6. /\ n \in Challenge /\ n.held = m.held /\ n.posted = m.posted
      /\ n.executor = u /\ n.state = "Accepted" /\ n.creator = k.creator
      /\ n.offer = k.offer /\ n.rewardPool = k.rewardPool
      /\ n.disputant = k.disputant
  BY <1>1, <1>5 DEF Challenge, ChallengeState, OnlyLots
<1>7. k.creator \in Users
  BY <1>1, <1>3 DEF Challenge
<1> HIDE DEF n
<1>8. /\ \A l \in Lot : Kept(k, n, l) \/ Entered(k, n, l)
      /\ Four(Entering(k, n)) = amount
  BY <1>1, <1>2, <1>4, <1>5, <1>6, OneEntering
<1>9. Sound(nextChallengeId', c, n)
  <2>1. ~ c >= nextChallengeId'
    BY <1>1, <1>3 DEF Sound, Untouched, context
  <2>2. k.held \in [Lot -> Nat] /\ k.posted \in [Lot -> Nat]
    BY <1>1 DEF Challenge
  <2>3. \A l \in Lot : /\ n.held[l] = IF l = lot THEN amount ELSE k.held[l]
                       /\ n.posted[l] = IF l = lot THEN amount ELSE k.posted[l]
    BY <1>5, <1>6, <2>2
  <2>4. Deposits(n)
    <3>1. \A l \in Lot : n.held[l] \in {0, n.posted[l]}
      BY <1>1, <2>3 DEF Deposits
    <3>2. n.held["reward"] \in {0, n.rewardPool}
      BY <1>1, <1>4, <1>6, <2>3 DEF Deposits, lot, Lot
    <3>3. sponsorOf(n) \in Users
      BY <1>6, <1>7 DEF sponsorOf
    <3>4. n.held["disputeBond"] = 0
      BY <1>1, <1>4, <2>3 DEF Deposits, lot, Lot
    <3> QED BY <1>6, <1>7, <3>1, <3>2, <3>3, <3>4 DEF Deposits
  <2>5. Stage(n)
    BY <1>3, <1>4, <1>6, <1>7, <2>3 DEF Stage, lot, Lot
  <2> QED BY <1>6, <2>1, <2>4, <2>5 DEF Sound
<1>10. /\ nextChallengeId' \in Nat \ {0} /\ nextChallengeId' >= nextChallengeId
       /\ UNCHANGED <<now, paused, standardResolutionWindow>>
  BY <1>1, <1>3 DEF TypeOK, context
<1>11. /\ c \in ChallengeIds /\ ChallengeInv /\ k = challenge[c] /\ n \in Challenge
       /\ u \in Users /\ amount \in Nat /\ PullFrom(u, amount)
       /\ challenge' = [challenge EXCEPT ![c] = n] /\ n.state # "Resolved"
  BY <1>2, <1>3, <1>6 DEF k
<1> QED BY ONLY <1>8, <1>9, <1>10, <1>11, EnteringStep

LEMMA DisputeBondType ==
  ASSUME NEW k \in Challenge
  PROVE  disputeBondFor(k) \in Nat
<1>1. k.rewardPool \in Nat /\ OneUsdt \in Nat
  BY OneUsdtAssumption DEF Challenge
<1>2. ApplyBps(k.rewardPool, 200) = (k.rewardPool * 200) \div 10000
  BY DEF ApplyBps, BPS_DENOMINATOR
<1>3. ApplyBps(k.rewardPool, 200) \in Nat
  BY <1>1, <1>2
<1> QED BY <1>1, <1>3 DEF disputeBondFor, MIN_DISPUTE_BOND, MAX_DISPUTE_BOND

LEMMA DisputedSteps ==
  ASSUME ChallengeInv, NEW c \in ChallengeIds, NEW u \in Users, DisputeResolution(u, c)
  PROVE  Steps
<1> DEFINE k == challenge[c]
           amount == disputeBondFor(k)
           m == Deposit(k, "disputeBond", amount)
           n == [m EXCEPT !.disputant = u, !.state = "Disputed"]
<1>1. /\ TypeOK /\ k \in Challenge /\ "disputeBond" \in Lot
      /\ Sound(nextChallengeId, c, k) /\ Deposits(k) /\ Stage(k)
  BY DEF ChallengeInv, TypeOK, Sound, Lot
<1>2. amount \in Nat
  BY <1>1, DisputeBondType
<1>3. /\ k.state = "Review" /\ PullFrom(u, amount)
      /\ challenge' = [challenge EXCEPT ![c] = n] /\ UNCHANGED context
  BY DEF DisputeResolution
<1>4. /\ k.posted["disputeBond"] = 0 /\ k.held["disputeBond"] \in {0, k.posted["disputeBond"]}
      /\ k.creator \in Users /\ k.executor \in Users /\ k.creator # k.executor
  BY <1>1, <1>3 DEF Stage, Deposits
<1> HIDE DEF amount, k
<1>5. /\ m \in Challenge
      /\ OnlyLots(k, m)
      /\ m.held = [k.held EXCEPT !["disputeBond"] = amount]
      /\ m.posted = [k.posted EXCEPT !["disputeBond"] = amount]
  BY <1>1, <1>2, DepositFields
<1> HIDE DEF m
<1>6. /\ n \in Challenge /\ n.held = m.held /\ n.posted = m.posted
      /\ n.executor = k.executor /\ n.state = "Disputed" /\ n.creator = k.creator
      /\ n.offer = k.offer /\ n.rewardPool = k.rewardPool
      /\ n.disputant = u
  BY <1>1, <1>5 DEF Challenge, ChallengeState, OnlyLots
<1> HIDE DEF n
<1>7. /\ \A l \in Lot : Kept(k, n, l) \/ Entered(k, n, l)
      /\ Four(Entering(k, n)) = amount
  BY <1>1, <1>2, <1>4, <1>5, <1>6, OneEntering
<1>8. Sound(nextChallengeId', c, n)
  <2>1. ~ c >= nextChallengeId'
    BY <1>1, <1>3 DEF Sound, Untouched, context
  <2>2. k.held \in [Lot -> Nat] /\ k.posted \in [Lot -> Nat]
    BY <1>1 DEF Challenge
  <2>3. \A l \in Lot : /\ n.held[l] = IF l = "disputeBond" THEN amount ELSE k.held[l]
                       /\ n.posted[l] = IF l = "disputeBond" THEN amount ELSE k.posted[l]
    BY <1>5, <1>6, <2>2
  <2>4. Deposits(n)
    <3>1. \A l \in Lot : n.held[l] \in {0, n.posted[l]}
      BY <1>1, <2>3 DEF Deposits
    <3>2. n.held["reward"] \in {0, n.rewardPool}
      BY <1>1, <1>6, <2>3 DEF Deposits, Lot
    <3>3. sponsorOf(n) \in Users
      BY <1>4, <1>6 DEF sponsorOf
    <3> QED BY <1>4, <1>6, <3>1, <3>2, <3>3 DEF Deposits
  <2>5. Stage(n)
    BY <1>4, <1>6 DEF Stage
  <2> QED BY <1>6, <2>1, <2>4, <2>5 DEF Sound
<1>9. /\ nextChallengeId' \in Nat \ {0} /\ nextChallengeId' >= nextChallengeId
      /\ UNCHANGED <<now, paused, standardResolutionWindow>>
  BY <1>1, <1>3 DEF TypeOK, context
<1>10. /\ c \in ChallengeIds /\ ChallengeInv /\ k = challenge[c] /\ n \in Challenge
       /\ u \in Users /\ amount \in Nat /\ PullFrom(u, amount)
       /\ challenge' = [challenge EXCEPT ![c] = n] /\ n.state # "Resolved"
  BY <1>2, <1>3, <1>6 DEF k
<1> QED BY ONLY <1>7, <1>8, <1>9, <1>10, EnteringStep

\* A new challenge holds the bond and, unless it is an offer, the reward.
LEMMA CreatedFields ==
  ASSUME NEW k \in Challenge, NEW u \in Users, NEW offer \in BOOLEAN, NEW reward \in Nat,
         NEW deadline \in Nat, NEW highRisk \in BOOLEAN, NEW bond \in Nat, Untouched(k)
  PROVE  LET n == Created(k, u, offer, reward, deadline, highRisk, bond)
         IN  /\ n \in Challenge /\ n.creator = u /\ n.offer = offer
             /\ n.rewardPool = reward /\ n.state = "Open" /\ n.disputant = Nobody
             /\ n.executor = Nobody
             /\ n.held["reward"] = (IF offer THEN 0 ELSE reward)
             /\ n.posted["reward"] = (IF offer THEN 0 ELSE reward)
             /\ n.held["bond"] = bond /\ n.posted["bond"] = bond
             /\ n.held["executorBond"] = 0 /\ n.posted["executorBond"] = 0
             /\ n.held["disputeBond"] = 0 /\ n.posted["disputeBond"] = 0
<1> DEFINE m == Deposit(k, "bond", bond)
           o == [m EXCEPT !.creator = u, !.offer = offer, !.rewardPool = reward,
                          !.deadline = deadline, !.highRisk = highRisk, !.state = "Open"]
           n == Created(k, u, offer, reward, deadline, highRisk, bond)
<1>1. /\ k.executor = Nobody /\ k.disputant = Nobody
      /\ \A l \in Lot : k.held[l] = 0 /\ k.posted[l] = 0
      /\ k.held \in [Lot -> Nat] /\ k.posted \in [Lot -> Nat]
      /\ "bond" \in Lot /\ "reward" \in Lot /\ "Open" \in ChallengeState
  BY DEF Untouched, Challenge, Lot, ChallengeState
<1>2. /\ m \in Challenge /\ OnlyLots(k, m)
      /\ m.held = [k.held EXCEPT !["bond"] = bond]
      /\ m.posted = [k.posted EXCEPT !["bond"] = bond]
  BY <1>1, DepositFields
<1>3. n = IF offer THEN o ELSE Deposit(o, "reward", reward)
  BY DEF Created
<1> HIDE DEF m, n
<1>4. /\ o \in Challenge /\ o.creator = u /\ o.offer = offer
      /\ o.rewardPool = reward /\ o.state = "Open" /\ o.disputant = Nobody
      /\ o.executor = Nobody /\ o.held = m.held /\ o.posted = m.posted
  BY <1>1, <1>2 DEF Challenge, OnlyLots
<1> HIDE DEF o
<1>5. /\ o.held["bond"] = bond /\ o.posted["bond"] = bond
      /\ \A l \in Lot \ {"bond"} : o.held[l] = 0 /\ o.posted[l] = 0
      /\ o.held \in [Lot -> Nat] /\ o.posted \in [Lot -> Nat]
  BY <1>1, <1>2, <1>4 DEF Lot
<1>6. CASE offer
  <2>1. n = o
    BY <1>3, <1>6
  <2>2. /\ n.held["reward"] = 0 /\ n.posted["reward"] = 0
        /\ n.held["executorBond"] = 0 /\ n.posted["executorBond"] = 0
        /\ n.held["disputeBond"] = 0 /\ n.posted["disputeBond"] = 0
    BY <1>5, <2>1 DEF Lot
  <2> QED BY <1>4, <1>5, <1>6, <2>1, <2>2 DEF n
<1>7. CASE ~offer
  <2>1. /\ n \in Challenge /\ OnlyLots(o, n)
        /\ n.held = [o.held EXCEPT !["reward"] = reward]
        /\ n.posted = [o.posted EXCEPT !["reward"] = reward]
    <3> DEFINE d == Deposit(o, "reward", reward)
    <3>1. /\ d \in Challenge /\ OnlyLots(o, d)
          /\ d.held = [o.held EXCEPT !["reward"] = reward]
          /\ d.posted = [o.posted EXCEPT !["reward"] = reward]
      BY <1>1, <1>4, DepositFields
    <3>2. n = d
      BY <1>3, <1>7
    <3> HIDE DEF d
    <3> QED BY <3>1, <3>2
  <2>2. /\ n.creator = u /\ n.offer = offer /\ n.rewardPool = reward /\ n.state = "Open"
        /\ n.disputant = Nobody /\ n.executor = Nobody
    BY <1>4, <2>1 DEF OnlyLots, Challenge
  <2>3. /\ n.held["reward"] = reward /\ n.posted["reward"] = reward
        /\ \A l \in Lot \ {"reward"} : n.held[l] = o.held[l] /\ n.posted[l] = o.posted[l]
    BY <1>1, <1>5, <2>1
  <2> QED BY <1>5, <1>7, <2>1, <2>2, <2>3 DEF Lot, n
<1> QED BY <1>6, <1>7

LEMMA CreateSteps ==
  ASSUME ChallengeInv, NEW u \in Users, CreateChallenge(u)
  PROVE  Steps
<1> DEFINE c == nextChallengeId
           k == challenge[c]
<1>1. /\ TypeOK /\ c \in ChallengeIds /\ k \in Challenge /\ c \in Nat /\ c # 0
      /\ Sound(nextChallengeId, c, k) /\ nextChallengeId' = c + 1
      /\ UNCHANGED <<now, paused, standardResolutionWindow>>
  BY DEF ChallengeInv, TypeOK, CreateChallenge
<1>2. Untouched(k)
  BY <1>1 DEF Sound
<1>3. PICK reward \in Rewards, deadline \in 0 .. MaxTime, offer \in BOOLEAN,
           risky \in Risky, bond \in Bonds :
        /\ PullFrom(u, bond + (IF offer THEN 0 ELSE reward))
        /\ challenge' = [challenge EXCEPT ![c] =
              Created(k, u, offer, reward, deadline, IsHighRiskOrValue(reward, risky), bond)]
  <2>1. challenge \in [ChallengeIds -> Challenge]
    BY <1>1 DEF TypeOK
  <2> QED BY <1>1, <2>1 DEF CreateChallenge
<1> DEFINE highRisk == IsHighRiskOrValue(reward, risky)
           n == Created(k, u, offer, reward, deadline, highRisk, bond)
           amount == bond + (IF offer THEN 0 ELSE reward)
<1>4. /\ reward \in Nat /\ deadline \in Nat /\ highRisk \in BOOLEAN /\ bond \in Nat
      /\ amount \in Nat
  <2>1. reward \in Nat /\ bond \in Nat /\ risky \in BOOLEAN /\ deadline \in Nat
    BY ChallengeAssumption
  <2>2. (reward >= HIGH_VALUE_THRESHOLD) \in BOOLEAN
    OBVIOUS
  <2>3. highRisk \in BOOLEAN
    BY <2>1, <2>2 DEF IsHighRiskOrValue
  <2> QED BY <2>1, <2>3
<1> HIDE DEF highRisk
<1>5. /\ n \in Challenge /\ n.creator = u /\ n.offer = offer
      /\ n.rewardPool = reward /\ n.state = "Open" /\ n.disputant = Nobody
      /\ n.executor = Nobody
      /\ n.held["reward"] = (IF offer THEN 0 ELSE reward)
      /\ n.posted["reward"] = (IF offer THEN 0 ELSE reward)
      /\ n.held["bond"] = bond /\ n.posted["bond"] = bond
      /\ n.held["executorBond"] = 0 /\ n.posted["executorBond"] = 0
      /\ n.held["disputeBond"] = 0 /\ n.posted["disputeBond"] = 0
  <2> HIDE DEF k, c, amount
  <2>1. /\ k \in Challenge /\ u \in Users /\ offer \in BOOLEAN /\ reward \in Nat
        /\ deadline \in Nat /\ highRisk \in BOOLEAN /\ bond \in Nat /\ Untouched(k)
    BY <1>1, <1>2, <1>4
  <2> QED BY ONLY <2>1, CreatedFields
<1>6. PullFrom(u, amount) /\ challenge' = [challenge EXCEPT ![c] = n]
  BY <1>3 DEF highRisk
<1>7. \A l \in Lot : k.held[l] = 0 /\ k.posted[l] = 0
  BY <1>2 DEF Untouched
<1> HIDE DEF n, k
<1>8. \A l \in Lot : Kept(k, n, l) \/ Entered(k, n, l)
  BY <1>5, <1>7 DEF Kept, Entered, Lot
<1>9. amount = Four(Entering(k, n))
  <2>1. \A l \in Lot : n.held[l] = n.posted[l]
    BY <1>5 DEF Lot
  <2>2. \A l \in Lot : Entering(k, n)[l] = n.held[l]
    BY <1>7, <2>1 DEF Entering
  <2>3. /\ Entering(k, n)["reward"] = (IF offer THEN 0 ELSE reward)
        /\ Entering(k, n)["bond"] = bond
        /\ Entering(k, n)["executorBond"] = 0 /\ Entering(k, n)["disputeBond"] = 0
    BY <1>5, <2>2 DEF Lot
  <2> QED BY <1>4, <2>3 DEF Four
<1>10. Sound(nextChallengeId', c, n)
  <2>1. ~ c >= nextChallengeId'
    BY <1>1
  <2>2. Deposits(n)
    <3>1. \A l \in Lot : n.held[l] \in {0, n.posted[l]}
      BY <1>5 DEF Lot
    <3>2. n.held["reward"] # 0 => sponsorOf(n) \in Users
      BY <1>5 DEF sponsorOf
    <3> QED BY <1>5, <3>1, <3>2 DEF Deposits
  <2>3. Stage(n)
    BY <1>5 DEF Stage
  <2> QED BY <1>5, <2>1, <2>2, <2>3 DEF Sound
<1> HIDE DEF amount
<1>11. /\ c \in ChallengeIds /\ ChallengeInv /\ k = challenge[c] /\ n \in Challenge
       /\ u \in Users /\ amount \in Nat /\ PullFrom(u, amount)
       /\ challenge' = [challenge EXCEPT ![c] = n] /\ n.state # "Resolved"
       /\ nextChallengeId' \in Nat \ {0} /\ nextChallengeId' >= nextChallengeId
       /\ UNCHANGED <<now, paused, standardResolutionWindow>>
  BY <1>1, <1>4, <1>5, <1>6 DEF k
<1> QED BY ONLY <1>8, <1>9, <1>10, <1>11, EnteringStep

-----------------------------------------------------------------------------
\* Steps that move nothing.

LEMMA QuietStep ==
  ASSUME ChallengeInv, NEW c \in ChallengeIds, NEW n \in Challenge,
         challenge' = [challenge EXCEPT ![c] = n], UNCHANGED <<context, tokens>>,
         Sound(nextChallengeId, c, n), n.state # "Resolved",
         n.posted = challenge[c].posted, n.held = challenge[c].held
  PROVE  Steps
<1> DEFINE out == [l \in Lot |-> 0]
<1>1. out \in [Lot -> Nat] /\ Four(out) = 0 /\ \A l \in Lot : out[l] = 0
  BY DEF Lot, Four
<1> HIDE DEF out
<1>2. /\ wallet' \in [Users -> Nat] /\ escrow' \in Nat /\ escrow' = escrow - Four(out)
      /\ UNCHANGED context
  BY <1>1 DEF ChallengeInv, TypeOK, tokens
<1>3. Verdict(challenge[c], n)
  BY DEF Verdict
<1>4. /\ \A l \in Lot : n.held[l] \in {0, challenge[c].held[l]}
      /\ \A l \in Lot : out[l] # 0 => out[l] = challenge[c].held[l] /\ n.held[l] = 0
  BY <1>1
<1> QED BY <1>1, <1>2, <1>3, <1>4, LeavingStep

LEMMA EvidenceSteps ==
  ASSUME ChallengeInv, NEW c \in ChallengeIds, NEW u \in Users,
         \/ SubmitEvidence(u, c)
         \/ \E succeeded, withEvidence \in BOOLEAN :
              ProposeResolution(u, c, succeeded, withEvidence)
  PROVE  Steps
<1> DEFINE k == challenge[c]
<1>1. /\ TypeOK /\ k \in Challenge /\ challenge \in [ChallengeIds -> Challenge]
      /\ Sound(nextChallengeId, c, k) /\ Deposits(k) /\ Stage(k)
  BY DEF ChallengeInv, TypeOK, Sound
<1>2. ASSUME NEW n \in Challenge, n.held = k.held, n.posted = k.posted,
             n.creator = k.creator, n.executor = k.executor, n.offer = k.offer,
             n.rewardPool = k.rewardPool, n.disputant = k.disputant,
             k.state \in {"Accepted", "EvidenceSubmitted"},
             n.state \in {"EvidenceSubmitted", "Review"},
             n.state = "Review" =>
               n.proposer \in {n.creator, n.executor} /\ n.endorsers = {n.proposer}
      PROVE  Sound(nextChallengeId, c, n) /\ n.state # "Resolved"
  <2> HIDE DEF k
  <2>1. ~ c >= nextChallengeId
    BY <1>1, <1>2 DEF Sound, Untouched
  <2>2. Deposits(n)
    <3>1. sponsorOf(n) = sponsorOf(k)
      BY <1>2 DEF sponsorOf
    <3> QED BY <1>1, <1>2, <3>1 DEF Deposits
  <2>3. Stage(n)
    BY <1>1, <1>2 DEF Stage
  <2> QED BY <1>2, <2>1, <2>2, <2>3 DEF Sound
<1>3. CASE SubmitEvidence(u, c)
  <2> DEFINE n == [k EXCEPT !.evidence = TRUE, !.state = "EvidenceSubmitted"]
  <2>1. /\ challenge' = [challenge EXCEPT ![c] = n] /\ k.state = "Accepted"
        /\ UNCHANGED <<context, tokens>>
    BY <1>1, <1>3 DEF SubmitEvidence
  <2>2. /\ n \in Challenge /\ n.held = k.held /\ n.posted = k.posted
        /\ n.creator = k.creator /\ n.executor = k.executor /\ n.offer = k.offer
        /\ n.rewardPool = k.rewardPool /\ n.disputant = k.disputant
        /\ n.state = "EvidenceSubmitted"
    BY <1>1 DEF Challenge, ChallengeState
  <2> HIDE DEF n
  <2>3. Sound(nextChallengeId, c, n) /\ n.state # "Resolved"
    BY <1>2, <2>1, <2>2
  <2>4. n.posted = challenge[c].posted /\ n.held = challenge[c].held
    BY <2>2
  <2> QED BY <2>1, <2>2, <2>3, <2>4, QuietStep
<1>4. ASSUME NEW succeeded \in BOOLEAN, NEW withEvidence \in BOOLEAN,
             ProposeResolution(u, c, succeeded, withEvidence)
      PROVE  Steps
  <2> DEFINE window == now + resolutionWindowFor(k)
             n == [k EXCEPT !.state = "Review", !.proposer = u, !.proposed = succeeded,
                            !.disputeDeadline = window, !.endorsers = {u}]
  <2>1. /\ challenge' = [challenge EXCEPT ![c] = n]
        /\ k.state \in {"Accepted", "EvidenceSubmitted"} /\ u \in {k.creator, k.executor}
        /\ UNCHANGED <<context, tokens>>
    BY <1>1, <1>4 DEF ProposeResolution
  <2>2. window \in Nat
    <3>1. now \in Nat /\ standardResolutionWindow \in Nat
      BY <1>1, ChallengeAssumption
         DEF TypeOK, MIN_STANDARD_RESOLUTION_WINDOW, MAX_STANDARD_RESOLUTION_WINDOW
    <3>2. HIGH_RISK_RESOLUTION_WINDOW \in Nat
      BY ChallengeAssumption DEF HIGH_RISK_RESOLUTION_WINDOW
    <3> QED BY <3>1, <3>2 DEF resolutionWindowFor
  <2> HIDE DEF window
  <2>3. /\ n \in Challenge /\ n.held = k.held /\ n.posted = k.posted
        /\ n.creator = k.creator /\ n.executor = k.executor /\ n.offer = k.offer
        /\ n.rewardPool = k.rewardPool /\ n.disputant = k.disputant
        /\ n.state = "Review" /\ n.proposer = u /\ n.endorsers = {u}
    BY <1>1, <2>2 DEF Challenge, ChallengeState
  <2> HIDE DEF n
  <2>4. Sound(nextChallengeId, c, n) /\ n.state # "Resolved"
    BY <1>2, <2>1, <2>3
  <2>5. n.posted = challenge[c].posted /\ n.held = challenge[c].held
    BY <2>3
  <2> QED BY <2>1, <2>3, <2>4, <2>5, QuietStep
<1> QED BY <1>3, <1>4

LEMMA OutsideSteps ==
  ASSUME ChallengeInv,
         \/ \E w \in 1 .. 2 * HalfDay : setStandardResolutionWindow(w)
         \/ Pause \/ Unpause \/ Tick \/ UNCHANGED vars
  PROVE  Steps
<1>1. /\ UNCHANGED <<nextChallengeId, challenge, wallet, escrow>>
      /\ now' \in Nat /\ paused' \in BOOLEAN
      /\ standardResolutionWindow' \in
           MIN_STANDARD_RESOLUTION_WINDOW .. MAX_STANDARD_RESOLUTION_WINDOW
  <2>1. /\ now \in Nat /\ paused \in BOOLEAN
        /\ standardResolutionWindow \in
             MIN_STANDARD_RESOLUTION_WINDOW .. MAX_STANDARD_RESOLUTION_WINDOW
    BY DEF ChallengeInv, TypeOK
  <2>2. CASE \E w \in 1 .. 2 * HalfDay : setStandardResolutionWindow(w)
    BY <2>1, <2>2 DEF setStandardResolutionWindow, tokens
  <2>3. CASE Pause \/ Unpause
    BY <2>1, <2>3 DEF Pause, Unpause, tokens
  <2>4. CASE Tick
    BY <2>1, <2>4 DEF Tick, tokens
  <2>5. CASE UNCHANGED vars
    BY <2>1, <2>5 DEF vars
  <2> QED BY <2>2, <2>3, <2>4, <2>5
<1>2. TypeOK'
  BY <1>1 DEF ChallengeInv, TypeOK, MIN_STANDARD_RESOLUTION_WINDOW, MAX_STANDARD_RESOLUTION_WINDOW
<1>3. \A c \in ChallengeIds : Sound(nextChallengeId', c, challenge'[c])
  BY <1>1 DEF ChallengeInv
<1>4. UNCHANGED Escrowed!lotVars
  BY <1>1 DEF Escrowed!lotVars
<1>5. \A c \in ChallengeIds : Verdict(challenge[c], challenge'[c])
  BY <1>1 DEF Verdict
<1> QED BY <1>2, <1>3, <1>4, <1>5 DEF Steps, ChallengeInv

-----------------------------------------------------------------------------
(***************************************************************************)
(* The theorems.                                                           *)
(***************************************************************************)

LEMMA EveryStep == ChallengeInv /\ [Next]_vars => Steps
<1> SUFFICES ASSUME ChallengeInv, [Next]_vars PROVE Steps
  OBVIOUS
<1>1. CASE \/ \E w \in 1 .. 2 * HalfDay : setStandardResolutionWindow(w)
           \/ Pause \/ Unpause \/ Tick \/ UNCHANGED vars
  BY <1>1, OutsideSteps
<1>2. ASSUME NEW u \in Users, CreateChallenge(u) PROVE Steps
  BY <1>2, CreateSteps
<1>3. ASSUME NEW c \in ChallengeIds, NEW u \in Users,
             \/ AcceptChallenge(u, c)
             \/ SubmitEvidence(u, c)
             \/ \E succeeded, withEvidence \in BOOLEAN :
                  ProposeResolution(u, c, succeeded, withEvidence)
             \/ \E succeeded \in BOOLEAN : ConfirmResolution(u, c, succeeded)
             \/ DisputeResolution(u, c)
      PROVE  Steps
  BY <1>3, AcceptSteps, EvidenceSteps, ResolutionSteps, DisputedSteps
<1>4. ASSUME NEW c \in ChallengeIds,
             \/ FinalizeUndisputed(c)
             \/ \E succeeded \in BOOLEAN :
                  \/ ResolveDispute(c, succeeded)
                  \/ ResolveEarly(c, succeeded)
                  \/ \E sc, se \in BOOLEAN : ResolveChallenge(c, succeeded, sc, se)
      PROVE  Steps
  <2>1. TRUE \in BOOLEAN
    OBVIOUS
  <2> QED BY <1>4, <2>1, DisputeSteps, ResolutionSteps
<1>5. ASSUME NEW c \in ChallengeIds,
             \/ CancelChallenge(c)
             \/ \E offender \in Users \cup {Nobody} : ConfirmFraud(c, offender)
             \/ ReleaseBond(c) \/ SlashBond(c)
      PROVE  Steps
  BY <1>5, UnwindSteps, BondSteps
<1> QED BY <1>1, <1>2, <1>3, <1>4, <1>5 DEF Next

LEMMA ChallengeStarts == Init => ChallengeInv
<1> SUFFICES ASSUME Init PROVE ChallengeInv
  OBVIOUS
<1>1. /\ NoChallenge \in Challenge /\ Untouched(NoChallenge)
      /\ Deposits(NoChallenge) /\ Stage(NoChallenge)
      /\ NoChallenge.state # "Resolved"
  <2>1. [l \in Lot |-> 0] \in [Lot -> Nat]
    OBVIOUS
  <2>2. NoChallenge \in Challenge
    BY <2>1 DEF NoChallenge, Challenge, ChallengeState
  <2>3. \A l \in Lot : NoChallenge.held[l] = 0 /\ NoChallenge.posted[l] = 0
    BY DEF NoChallenge
  <2>4. /\ NoChallenge.state = "Open" /\ NoChallenge.creator = Nobody
        /\ NoChallenge.executor = Nobody /\ NoChallenge.disputant = Nobody
    BY DEF NoChallenge
  <2>5. Untouched(NoChallenge)
    BY <2>3, <2>4 DEF Untouched
  <2>6. Deposits(NoChallenge)
    BY <2>3 DEF Deposits, Lot
  <2>7. Stage(NoChallenge)
    BY <2>3, <2>4 DEF Stage, Lot
  <2> QED BY <2>2, <2>4, <2>5, <2>6, <2>7
<1>2. TypeOK
  <2>1. now \in Nat /\ nextChallengeId \in Nat \ {0} /\ escrow \in Nat
    BY DEF Init
  <2>2. paused \in BOOLEAN /\ wallet \in [Users -> Nat]
    BY ChallengeAssumption DEF ChallengeAssumption, Init
  <2>3. standardResolutionWindow \in
          MIN_STANDARD_RESOLUTION_WINDOW .. MAX_STANDARD_RESOLUTION_WINDOW
    BY ChallengeAssumption
       DEF Init, MIN_STANDARD_RESOLUTION_WINDOW, MAX_STANDARD_RESOLUTION_WINDOW
  <2>4. challenge \in [ChallengeIds -> Challenge]
    BY <1>1 DEF Init
  <2> QED BY <2>1, <2>2, <2>3, <2>4 DEF TypeOK
<1>3. \A c \in ChallengeIds : challenge[c] = NoChallenge
  BY DEF Init
<1> QED BY <1>1, <1>2, <1>3 DEF ChallengeInv, Sound

LEMMA ChallengeInvariant == Spec => []ChallengeInv
<1>1. ChallengeInv /\ [Next]_vars => ChallengeInv'
  BY EveryStep DEF Steps
<1> QED BY <1>1, ChallengeStarts, PTL DEF Spec

\* Every variable keeps its type: no payment of createChallenge, acceptChallenge
\* or disputeResolution, of a settlement, of cancelChallenge, confirmFraud or
\* releaseBond makes the balance of the contract or of a user negative.
THEOREM TypeCorrect == Spec => []TypeOK
<1>1. ChallengeInv => TypeOK
  BY DEF ChallengeInv
<1> QED BY <1>1, ChallengeInvariant, PTL

\* No resolution of proposeResolution, confirmResolution, finalizeUndisputed,
\* resolveDispute, resolveEarly and resolveChallenge is one party's alone: an
\* arbiter decided, or both parties stated the outcome, or the window closed
\* and nobody had disputed.
THEOREM Endorsement == Spec => []SettlementIsEndorsed
<1>1. ChallengeInv => SettlementIsEndorsed
  BY DEF ChallengeInv, Sound, Endorsed, SettlementIsEndorsed
<1> QED BY <1>1, ChallengeInvariant, PTL

\* Whichever of the five ways leads to _finalizeResolution, the winner of the
\* verdict receives at least the reward without the fee, and the loser, unless
\* it is the admin, at most the bonds the loser had posted.
THEOREM VerdictDecides == Spec => VerdictDecidesPayout
<1>1. ChallengeInv /\ [Next]_vars
        => \A c \in ChallengeIds : Verdict(challenge[c], challenge'[c])
  BY EveryStep DEF Steps
<1>2. (\A c \in ChallengeIds : Verdict(challenge[c], challenge'[c])) =>
        \A c \in ChallengeIds :
          LET k == challenge[c]
              succeeded == challenge'[c].succeeded
              winner == IF succeeded THEN performerOf(k) ELSE sponsorOf(k)
              loser == IF succeeded THEN sponsorOf(k) ELSE performerOf(k)
              own == (IF loser = k.creator THEN k.held["bond"]
                                           ELSE k.held["executorBond"])
                     + (IF loser = k.disputant THEN k.held["disputeBond"] ELSE 0)
          IN  k.state # "Resolved" /\ challenge'[c].state = "Resolved" =>
                /\ wallet'[winner] - wallet[winner]
                     >= k.rewardPool - ChallengeFee(k.rewardPool)
                /\ loser # Admin => wallet'[loser] - wallet[loser] <= own
  BY Zenon DEF Verdict
<1> QED BY <1>1, <1>2, ChallengeInvariant, PTL DEF Spec, VerdictDecidesPayout

\* ChallengeFactory implements EscrowLots: each of the four deposits of a
\* challenge enters once, leaves whole and once, and what slashBond and the
\* settlements slash is never paid.
THEOREM Implements == Spec => ImplementsEscrowLots
<1>1. Init => Escrowed!LotsInit
  <2> SUFFICES ASSUME Init PROVE Escrowed!LotsInit
    OBVIOUS
  <2>1. \A l \in ChallengeLots : l[1] \in ChallengeIds /\ l[2] \in Lot
    BY DEF ChallengeLots
  <2>2. \A l \in ChallengeLots : challenge[l[1]] = NoChallenge
    BY <2>1 DEF Init
  <2>3. /\ PostedIn(challenge) = [l \in ChallengeLots |-> 0]
        /\ HeldIn(challenge) = [l \in ChallengeLots |-> 0]
    BY <2>1, <2>2 DEF NoChallenge, PostedIn, HeldIn
  <2>4. escrow = 0
    BY DEF Init
  <2> QED BY <2>3, <2>4, Zenon
          DEF Escrowed!LotsInit, PostedIn, HeldIn, ChallengeLots
<1>2. ChallengeInv /\ [Next]_vars => [Escrowed!LotsNext]_(Escrowed!lotVars)
  BY EveryStep DEF Steps
<1> QED BY <1>1, <1>2, ChallengeInvariant, PTL
        DEF Spec, ImplementsEscrowLots, Escrowed!LotsSpec

-----------------------------------------------------------------------------
(***************************************************************************)
(* The screens of challenges.  The entry of a challenge and the books of   *)
(* its three bonds follow the contract event by event, as those of a       *)
(* bounty do: EntryTold and BooksTold say how, ViewInv that it holds of    *)
(* every challenge, and Framed that an operation's events touch one entry  *)
(* and its books.  Ready is what the buttons take for granted of the       *)
(* contract.                                                               *)
(***************************************************************************)

\* The read model after the first events of a sequence.

After(v, s, n) ==
  CHOOSE f : f = [m \in 0 .. n |-> IF m = 0 THEN v ELSE R!Effect(f[m - 1], s[m])]

LEMMA AfterExists ==
  ASSUME NEW v, NEW s, NEW n \in Nat
  PROVE  After(v, s, n) =
           [m \in 0 .. n |-> IF m = 0 THEN v
                             ELSE R!Effect(After(v, s, n)[m - 1], s[m])]
<1> DEFINE Fits(f, k) ==
      f = [m \in 0 .. k |-> IF m = 0 THEN v ELSE R!Effect(f[m - 1], s[m])]
           S == {k \in Nat : \E f : Fits(f, k)}
<1>1. 0 \in S
  <2>1. Fits([m \in 0 .. 0 |-> v], 0)
    OBVIOUS
  <2> QED BY <2>1
<1>2. ASSUME NEW k \in Nat, k \in S PROVE k + 1 \in S
  <2>1. PICK f : Fits(f, k)
    BY <1>2
  <2> DEFINE g == [m \in 0 .. k + 1 |->
                     IF m = k + 1 THEN R!Effect(f[k], s[k + 1]) ELSE f[m]]
  <2>2. ASSUME NEW m \in 0 .. k + 1
        PROVE  g[m] = IF m = 0 THEN v ELSE R!Effect(g[m - 1], s[m])
    <3>1. CASE m = 0
      BY <2>1, <3>1
    <3>2. CASE m \in 1 .. k
      BY <2>1, <3>2
    <3>3. CASE m = k + 1
      BY <2>1, <3>3
    <3> QED BY <3>1, <3>2, <3>3
  <2>3. Fits(g, k + 1)
    BY <2>2
  <2>4. \E h : Fits(h, k + 1)
    <3> HIDE DEF Fits, g
    <3> QED BY <2>3
  <2> QED BY <2>4
<1>3. n \in S
  <2> HIDE DEF S
  <2> QED BY <1>1, <1>2, SetInduction
<1>4. \E f : Fits(f, n)
  BY <1>3
<1> QED BY <1>4 DEF After

LEMMA AfterStep ==
  ASSUME NEW v, NEW s, NEW n \in Nat
  PROVE  /\ After(v, s, n)[0] = v
         /\ \A m \in 0 .. n - 1 :
              After(v, s, n)[m + 1] = R!Effect(After(v, s, n)[m], s[m + 1])
<1>1. 0 \in 0 .. n /\ \A m \in 0 .. n - 1 :
        m + 1 \in 0 .. n /\ m + 1 # 0 /\ (m + 1) - 1 = m
  OBVIOUS
<1> QED BY <1>1, AfterExists

\* What the first events made does not depend on the later ones.
LEMMA AfterPrefix ==
  ASSUME NEW v, NEW s, NEW t, NEW n \in Nat, NEW k \in Nat, n <= k,
         \A i \in 1 .. n : s[i] = t[i]
  PROVE  \A m \in 0 .. n : After(v, s, n)[m] = After(v, t, k)[m]
<1> DEFINE S == {m \in Nat : m <= n => After(v, s, n)[m] = After(v, t, k)[m]}
<1>1. 0 \in S
  BY AfterExists
<1>2. ASSUME NEW m \in Nat, m \in S PROVE m + 1 \in S
  <2>1. SUFFICES ASSUME m + 1 <= n
                 PROVE  After(v, s, n)[m + 1] = After(v, t, k)[m + 1]
    OBVIOUS
  <2>2. After(v, s, n)[m] = After(v, t, k)[m] /\ s[m + 1] = t[m + 1]
    BY <1>2, <2>1
  <2>3. /\ After(v, s, n)[m + 1] = R!Effect(After(v, s, n)[m], s[m + 1])
        /\ After(v, t, k)[m + 1] = R!Effect(After(v, t, k)[m], t[m + 1])
    <3>1. m + 1 \in 0 .. n /\ m + 1 \in 0 .. k /\ m + 1 # 0 /\ (m + 1) - 1 = m
      BY <2>1
    <3> QED BY <3>1, AfterExists
  <2> QED BY <2>2, <2>3
<1>3. Nat \subseteq S
  <2> HIDE DEF S
  <2> QED BY <1>1, <1>2, SetInduction
<1> QED BY <1>3

LEMMA EffectsAre ==
  ASSUME NEW v, NEW s
  PROVE  R!Effects(v, s) = After(v, s, Len(s))[Len(s)]
BY DEF R!Effects, After

\* No event changes nothing, and one event has its effect.
LEMMA EffectsOfFew ==
  ASSUME NEW v, NEW e
  PROVE  /\ R!Effects(v, << >>) = v
         /\ R!Effects(v, <<e>>) = R!Effect(v, e)
<1>1. Len(<< >>) = 0 /\ Len(<<e>>) = 1 /\ <<e>>[1] = e
  OBVIOUS
<1>2. After(v, << >>, 0)[0] = v /\ After(v, <<e>>, 1)[0] = v
  BY AfterExists
<1>3. After(v, <<e>>, 1)[1] = R!Effect(After(v, <<e>>, 1)[0], <<e>>[1])
  BY AfterExists
<1> QED BY <1>1, <1>2, <1>3, EffectsAre

\* Events that follow others are projected on what the others made.
LEMMA EffectsInTurn ==
  ASSUME NEW v, NEW E, NEW s \in Seq(E), NEW t \in Seq(E)
  PROVE  R!Effects(v, s \o t) = R!Effects(R!Effects(v, s), t)
<1> DEFINE n == Len(s)
           k == Len(t)
           u == s \o t
           w == R!Effects(v, s)
           S == {m \in Nat : m <= k => After(v, u, n + k)[n + m] = After(w, t, k)[m]}
<1>1. /\ n \in Nat /\ k \in Nat /\ Len(u) = n + k
      /\ \A i \in 1 .. n : u[i] = s[i]
      /\ \A i \in 1 .. k : u[n + i] = t[i]
  OBVIOUS
<1> HIDE DEF u
<1>2. 0 \in S
  <2>1. After(w, t, k)[0] = w /\ w = After(v, s, n)[n]
    BY <1>1, AfterExists, EffectsAre
  <2>2. After(v, s, n)[n] = After(v, u, n + k)[n]
    <3>1. n + k \in Nat /\ n <= n + k /\ n \in 0 .. n
      BY <1>1
    <3>2. \A i \in 1 .. n : s[i] = u[i]
      BY <1>1
    <3> HIDE DEF n, k
    <3> QED BY <1>1, <3>1, <3>2, AfterPrefix
  <2> QED BY <1>1, <2>1, <2>2
<1>3. ASSUME NEW m \in Nat, m \in S PROVE m + 1 \in S
  <2>1. SUFFICES ASSUME m + 1 <= k
                 PROVE  After(v, u, n + k)[n + m + 1] = After(w, t, k)[m + 1]
    BY <1>1
  <2>2. After(v, u, n + k)[n + m] = After(w, t, k)[m]
    BY <1>1, <1>3, <2>1
  <2>3. /\ After(v, u, n + k)[n + m + 1] =
             R!Effect(After(v, u, n + k)[n + m], u[n + m + 1])
        /\ After(w, t, k)[m + 1] = R!Effect(After(w, t, k)[m], t[m + 1])
    <3>1. /\ m + 1 \in 0 .. k /\ m + 1 # 0 /\ (m + 1) - 1 = m
          /\ n + m + 1 \in 0 .. n + k /\ n + m + 1 # 0
          /\ (n + m + 1) - 1 = n + m /\ n + k \in Nat
      BY <1>1, <2>1
    <3>2. m \in 0 .. k - 1 /\ n + m \in 0 .. (n + k) - 1
      BY <1>1, <2>1
    <3> HIDE DEF n, k, w
    <3> HIDE DEF S
    <3>3. \A x \in 0 .. k - 1 :
            After(w, t, k)[x + 1] = R!Effect(After(w, t, k)[x], t[x + 1])
      BY <1>1, AfterStep
    <3>4. PICK l \in Nat : l = n + k
      BY <1>1
    <3>5. \A x \in 0 .. l - 1 :
            After(v, u, l)[x + 1] = R!Effect(After(v, u, l)[x], u[x + 1])
      BY AfterStep
    <3> QED BY <3>2, <3>3, <3>4, <3>5
  <2>4. u[n + m + 1] = t[m + 1]
    BY <1>1, <2>1
  <2> QED BY <2>2, <2>3, <2>4
<1>4. k \in S
  <2>1. Nat \subseteq S
    <3> HIDE DEF S
    <3> QED BY <1>2, <1>3, SetInduction
  <2> QED BY <1>1, <2>1
<1>5. After(v, u, n + k)[n + k] = After(w, t, k)[k]
  BY <1>1, <1>4
<1> QED BY <1>1, <1>5, EffectsAre DEF u

LEMMA EffectsOfFour ==
  ASSUME NEW v, NEW d, NEW e, NEW f, NEW g
  PROVE  R!Effects(v, <<d, e, f, g>>)
           = R!Effect(R!Effect(R!Effect(R!Effect(v, d), e), f), g)
<1> DEFINE s == <<d, e, f, g>>
           a == After(v, s, 4)
<1>1. Len(s) = 4 /\ s[1] = d /\ s[2] = e /\ s[3] = f /\ s[4] = g
  OBVIOUS
<1>2. a[0] = v /\ a[1] = R!Effect(a[0], s[1]) /\ a[2] = R!Effect(a[1], s[2])
      /\ a[3] = R!Effect(a[2], s[3]) /\ a[4] = R!Effect(a[3], s[4])
  BY AfterExists
<1>3. R!Effects(v, s) = a[4]
  BY <1>1, EffectsAre
<1> QED BY <1>1, <1>2, <1>3

LEMMA EffectsOfTwo ==
  ASSUME NEW v, NEW d, NEW e
  PROVE  R!Effects(v, <<d, e>>) = R!Effect(R!Effect(v, d), e)
<1> DEFINE s == <<d, e>>
           a == After(v, s, 2)
<1>1. Len(s) = 2 /\ s[1] = d /\ s[2] = e
  OBVIOUS
<1>2. a[0] = v /\ a[1] = R!Effect(a[0], s[1]) /\ a[2] = R!Effect(a[1], s[2])
  BY AfterExists
<1>3. R!Effects(v, s) = a[2]
  BY <1>1, EffectsAre
<1> QED BY <1>1, <1>2, <1>3

IsEvents(s) == \E E : s \in Seq(E)

LEMMA FewAreEvents ==
  ASSUME NEW e, NEW p \in BOOLEAN
  PROVE  IsEvents(<<e>>) /\ IsEvents(When(p, e))
<1>1. <<e>> \in Seq({e}) /\ When(p, e) \in Seq({e})
  <2>1. <<e>> \in Seq({e}) /\ << >> \in Seq({e})
    OBVIOUS
  <2>2. When(p, e) = <<e>> \/ When(p, e) = << >>
    BY DEF When
  <2> QED BY <2>1, <2>2
<1>2. \E E : <<e>> \in Seq(E)
  BY <1>1
<1>3. \E E : When(p, e) \in Seq(E)
  BY <1>1
<1> QED BY <1>2, <1>3 DEF IsEvents

LEMMA InTurn ==
  ASSUME NEW v, NEW s, NEW t, IsEvents(s), IsEvents(t)
  PROVE  /\ IsEvents(s \o t)
         /\ R!Effects(v, s \o t) = R!Effects(R!Effects(v, s), t)
<1>1. PICK D : s \in Seq(D)
  BY DEF IsEvents
<1>2. PICK E : t \in Seq(E)
  BY DEF IsEvents
<1>3. PICK F : F = D \cup E
  OBVIOUS
<1>4. s \in Seq(F) /\ t \in Seq(F)
  BY <1>1, <1>2, <1>3
<1>5. s \o t \in Seq(F)
  BY <1>4
<1>6. \E G : s \o t \in Seq(G)
  BY <1>5
<1> QED BY <1>4, <1>6, EffectsInTurn DEF IsEvents

LEMMA EffectsOfWhen ==
  ASSUME NEW v, NEW e, NEW p \in BOOLEAN
  PROVE  R!Effects(v, When(p, e)) = IF p THEN R!Effect(v, e) ELSE v
BY EffectsOfFew DEF When

-----------------------------------------------------------------------------
\* The books.

ViewFields == {"challenges", "bonds"}

BondLots == {"bond", "executorBond", "disputeBond"}

\* The kind of entity a bond is booked under.
EntityOf(l) ==
  CASE l = "bond" -> "Challenge"
    [] l = "executorBond" -> "ChallengeExecutor"
    [] l = "disputeBond" -> "ChallengeDispute"

BookEntry == [requiredBond : Nat, paidBond : Nat, releasedBond : Nat,
              slashedBond : Nat]

BondTypes == {"BondCalculated", "BondLocked", "BondReleased", "BondSlashed"}

Book(v, l, c) ==
  IF <<EntityOf(l), c>> \in DOMAIN v.bonds THEN v.bonds[<<EntityOf(l), c>>]
                                          ELSE R!emptyBond

\* A book after one event.
BookAfter(k, type, a) ==
  CASE type = "BondCalculated" -> [k EXCEPT !.requiredBond = a]
    [] type = "BondLocked" -> [k EXCEPT !.paidBond = a]
    [] type = "BondReleased" -> [k EXCEPT !.releasedBond = a]
    [] type = "BondSlashed" -> [k EXCEPT !.slashedBond = a]

\* A book and the deposit it is about.
Booked(posted, held, book) ==
  /\ book \in BookEntry
  /\ book.paidBond - book.releasedBond - book.slashedBond = held
  /\ posted = 0 \/ held # 0 => book.releasedBond = 0 /\ book.slashedBond = 0

BooksTold(v, c, posted, held) ==
  \A l \in BondLots : Booked(posted[l], held[l], Book(v, l, c))

\* w differs from v in the entry and the books of the challenge c alone.
Framed(v, w, c) ==
  /\ ViewFields \subseteq DOMAIN w
  /\ DOMAIN w.challenges \ {c} = DOMAIN v.challenges \ {c}
  /\ \A x \in DOMAIN v.challenges \ {c} : w.challenges[x] = v.challenges[x]
  /\ \A x \in ChallengeIds \ {c}, l \in BondLots : Book(w, l, x) = Book(v, l, x)

LEMMA FramedTwice ==
  ASSUME NEW u, NEW v, NEW w, NEW c, Framed(u, v, c), Framed(v, w, c)
  PROVE  Framed(u, w, c)
<1>1. \A x \in DOMAIN u.challenges \ {c} : w.challenges[x] = u.challenges[x]
  BY DEF Framed
<1>2. \A x \in ChallengeIds \ {c}, l \in BondLots : Book(w, l, x) = Book(u, l, x)
  BY DEF Framed
<1> QED BY <1>1, <1>2 DEF Framed

LEMMA EntitiesDiffer ==
  /\ \A l \in BondLots : decodeEntityType(EntityOf(l)) = EntityOf(l)
  /\ \A l, m \in BondLots : EntityOf(l) = EntityOf(m) => l = m
<1>1. EntityOf("bond") = "Challenge"
  BY DEF EntityOf
<1>2. EntityOf("executorBond") = "ChallengeExecutor"
  BY DEF EntityOf
<1>3. EntityOf("disputeBond") = "ChallengeDispute"
  BY DEF EntityOf
<1> QED BY <1>1, <1>2, <1>3 DEF BondLots, decodeEntityType

LEMMA BondEffectIs ==
  ASSUME NEW v, NEW c \in ChallengeIds, NEW l \in BondLots, NEW a \in Nat,
         NEW type \in BondTypes,
         ViewFields \subseteq DOMAIN v, Book(v, l, c) \in BookEntry
  PROVE  LET w == R!Effect(v, BondEvent(type, EntityOf(l), c, a))
         IN  /\ Framed(v, w, c) /\ w.challenges = v.challenges
             /\ Book(w, l, c) = BookAfter(Book(v, l, c), type, a)
             /\ \A m \in BondLots \ {l} : Book(w, m, c) = Book(v, m, c)
<1> DEFINE e == BondEvent(type, EntityOf(l), c, a)
           w == R!Effect(v, e)
           key == <<EntityOf(l), c>>
           b == BookAfter(Book(v, l, c), type, a)
<1>1. e.type = type /\ R!bondKey(e) = key /\ e.amount = a
  BY EntitiesDiffer DEF BondEvent, R!bondKey
<1>2. w = R!BondEffect(v, e)
  BY <1>1 DEF R!Effect, R!MarketEvents, R!BountyEvents, R!Opening,
              R!ChallengeEvents, R!BondEvents, BondTypes
<1>3. R!BondFields(e) = CASE type = "BondCalculated" -> [requiredBond |-> a]
    [] type = "BondLocked" -> [paidBond |-> a]
    [] type = "BondReleased" -> [releasedBond |-> a]
    [] type = "BondSlashed" -> [slashedBond |-> a]
  BY <1>1 DEF R!BondFields
<1>4. R!Merged(Book(v, l, c), R!BondFields(e)) = b
  BY <1>3 DEF R!Merged, BookEntry, BookAfter, BondTypes
<1>5. w = [v EXCEPT !.bonds = R!Put(v.bonds, key, b)]
  <2> HIDE DEF e
  <2> QED BY <1>1, <1>2, <1>4 DEF R!BondEffect, Book
<1> HIDE DEF w, e, b
<1>6. /\ DOMAIN w = DOMAIN v /\ w.challenges = v.challenges
      /\ w.bonds = R!Put(v.bonds, key, b)
  BY <1>5 DEF ViewFields
<1>7. Book(w, l, c) = b
  BY <1>6 DEF R!Put, Book
<1>8. ASSUME NEW m \in BondLots, NEW x \in ChallengeIds, m # l \/ x # c
      PROVE  Book(w, m, x) = Book(v, m, x)
  <2>1. <<EntityOf(m), x>> # key
    BY <1>8, EntitiesDiffer
  <2> QED BY <1>6, <2>1 DEF R!Put, Book
<1>9. Framed(v, w, c)
  BY <1>6, <1>8 DEF Framed
<1> QED BY <1>6, <1>7, <1>8, <1>9 DEF w, e, b

\* A deposit comes into a book that has none yet.
Locks(l, a, posted, held, newPosted, newHeld) ==
  /\ posted[l] = 0 /\ newPosted[l] = a /\ newHeld[l] = a
  /\ \A m \in BondLots \ {l} : newPosted[m] = posted[m] /\ newHeld[m] = held[m]

LEMMA LotLocked ==
  ASSUME NEW v, NEW c \in ChallengeIds, NEW l \in BondLots, NEW a \in Nat,
         NEW posted, NEW held, NEW newPosted, NEW newHeld,
         ViewFields \subseteq DOMAIN v, BooksTold(v, c, posted, held),
         Locks(l, a, posted, held, newPosted, newHeld),
         NEW w, w = R!Effect(v, BondEvent("BondLocked", EntityOf(l), c, a))
  PROVE  /\ Framed(v, w, c) /\ w.challenges = v.challenges
         /\ BooksTold(w, c, newPosted, newHeld)
<1>1. /\ Book(v, l, c) \in BookEntry
      /\ Book(v, l, c).releasedBond = 0 /\ Book(v, l, c).slashedBond = 0
  BY DEF BooksTold, Booked, Locks
<1>2. /\ Framed(v, w, c) /\ w.challenges = v.challenges
      /\ Book(w, l, c) = BookAfter(Book(v, l, c), "BondLocked", a)
      /\ \A m \in BondLots \ {l} : Book(w, m, c) = Book(v, m, c)
  BY <1>1, BondEffectIs DEF BondTypes
<1>3. Booked(newPosted[l], newHeld[l], Book(w, l, c))
  BY <1>1, <1>2 DEF BookAfter, Booked, BookEntry, Locks
<1>4. ASSUME NEW m \in BondLots \ {l}
      PROVE  Booked(newPosted[m], newHeld[m], Book(w, m, c))
  BY <1>2, <1>4 DEF BooksTold, Locks
<1> QED BY <1>2, <1>3, <1>4 DEF BooksTold, Locks

\* What a bond has to be is no part of its balance.
LEMMA LotCalculated ==
  ASSUME NEW v, NEW c \in ChallengeIds, NEW l \in BondLots, NEW a \in Nat,
         NEW posted, NEW held,
         ViewFields \subseteq DOMAIN v, BooksTold(v, c, posted, held),
         NEW w, w = R!Effect(v, BondEvent("BondCalculated", EntityOf(l), c, a))
  PROVE  /\ Framed(v, w, c) /\ w.challenges = v.challenges
         /\ BooksTold(w, c, posted, held)
<1>1. Book(v, l, c) \in BookEntry /\ Booked(posted[l], held[l], Book(v, l, c))
  BY DEF BooksTold, Booked
<1>2. /\ Framed(v, w, c) /\ w.challenges = v.challenges
      /\ Book(w, l, c) = BookAfter(Book(v, l, c), "BondCalculated", a)
      /\ \A m \in BondLots \ {l} : Book(w, m, c) = Book(v, m, c)
  BY <1>1, BondEffectIs DEF BondTypes
<1>3. Booked(posted[l], held[l], Book(w, l, c))
  BY <1>1, <1>2 DEF BookAfter, Booked, BookEntry
<1>4. ASSUME NEW m \in BondLots \ {l}
      PROVE  Booked(posted[m], held[m], Book(w, m, c))
  BY <1>2, <1>4 DEF BooksTold
<1> QED BY <1>2, <1>3, <1>4 DEF BooksTold

LEMMA BooksSame ==
  ASSUME NEW v, NEW c, NEW posted, NEW held, NEW p, NEW h, BooksTold(v, c, posted, held),
         \A l \in BondLots : p[l] = posted[l] /\ h[l] = held[l]
  PROVE  BooksTold(v, c, p, h)
BY DEF BooksTold

\* A deposit ends, if the condition p holds.
Ends(l, p, held, h) ==
  /\ held \in [Lot -> Nat] /\ h \in [Lot -> Nat]
  /\ h[l] = (IF p THEN 0 ELSE held[l])
  /\ \A m \in Lot \ {l} : h[m] = held[m]

LEMMA LotEnds ==
  ASSUME NEW v, NEW c \in ChallengeIds, NEW l \in BondLots, NEW slash \in BOOLEAN,
         NEW p \in BOOLEAN, NEW posted, NEW held, NEW h, Ends(l, p, held, h),
         ViewFields \subseteq DOMAIN v, BooksTold(v, c, posted, held),
         p => held[l] # 0 /\ posted[l] # 0,
         NEW e, e = BondEvent(BondEnd(slash), EntityOf(l), c, held[l]),
         NEW w, w = R!Effects(v, When(p, e))
  PROVE  /\ Framed(v, w, c) /\ w.challenges = v.challenges
         /\ BooksTold(w, c, posted, h)
         /\ IsEvents(When(p, e))
<1>1. IsEvents(When(p, e))
  BY FewAreEvents
<1>2. w = IF p THEN R!Effect(v, e) ELSE v
  BY EffectsOfWhen
<1>3. CASE ~p
  <2>1. w = v /\ Framed(v, w, c)
    BY <1>2, <1>3 DEF Framed
  <2>2. \A m \in BondLots : h[m] = held[m]
    BY <1>3 DEF Ends, BondLots, Lot
  <2> QED BY <1>1, <2>1, <2>2, BooksSame
<1>4. CASE p
  <2>1. held[l] \in Nat /\ l \in Lot
    BY DEF BondLots, Lot, Ends
  <2>2. /\ Book(v, l, c) \in BookEntry /\ Book(v, l, c).paidBond = held[l]
        /\ Book(v, l, c).releasedBond = 0 /\ Book(v, l, c).slashedBond = 0
    BY <1>4, <2>1 DEF BooksTold, Booked, BookEntry
  <2>3. w = R!Effect(v, e)
    BY <1>2, <1>4
  <2>4. /\ Framed(v, w, c) /\ w.challenges = v.challenges
        /\ Book(w, l, c) = BookAfter(Book(v, l, c), BondEnd(slash), held[l])
        /\ \A m \in BondLots \ {l} : Book(w, m, c) = Book(v, m, c)
    BY <2>1, <2>2, <2>3, BondEffectIs DEF BondTypes, BondEnd
  <2>5. Booked(posted[l], h[l], Book(w, l, c))
    <3>1. h[l] = 0 /\ posted[l] # 0
      BY <1>4 DEF Ends
    <3>2. CASE slash
      BY <2>1, <2>2, <2>4, <3>1, <3>2 DEF BookAfter, Booked, BookEntry, BondEnd
    <3>3. CASE ~slash
      BY <2>1, <2>2, <2>4, <3>1, <3>3 DEF BookAfter, Booked, BookEntry, BondEnd
    <3> QED BY <3>2, <3>3
  <2>6. ASSUME NEW m \in BondLots \ {l}
        PROVE  Booked(posted[m], h[m], Book(w, m, c))
    <3>1. h[m] = held[m]
      BY <2>6 DEF Ends, BondLots, Lot
    <3> QED BY <2>4, <2>6, <3>1 DEF BooksTold
  <2>7. BooksTold(w, c, posted, h)
    BY <2>5, <2>6 DEF BooksTold
  <2> QED BY <1>1, <2>4, <2>7
<1> QED BY <1>3, <1>4

\* The creator's bond and the executor's end together.
LEMMA BondsEnd ==
  ASSUME NEW v, NEW c \in ChallengeIds, NEW sc \in BOOLEAN, NEW se \in BOOLEAN,
         TypeOK, Deposits(challenge[c]), ViewFields \subseteq DOMAIN v,
         BooksTold(v, c, challenge[c].posted, challenge[c].held),
         NEW held \in [Lot -> Nat],
         held["bond"] = (IF challenge[c].bondFinalized THEN challenge[c].held["bond"] ELSE 0),
         held["executorBond"] = 0,
         held["disputeBond"] = challenge[c].held["disputeBond"]
  PROVE  LET w == R!Effects(v, BondEvents(c, sc, se))
         IN  /\ Framed(v, w, c) /\ w.challenges = v.challenges
             /\ BooksTold(w, c, challenge[c].posted, held)
             /\ IsEvents(BondEvents(c, sc, se))
<1>1. PICK k : k = challenge[c]
  OBVIOUS
<1>2. /\ k \in Challenge /\ k.held \in [Lot -> Nat] /\ k.bondFinalized \in BOOLEAN
      /\ k.held["bond"] # 0 => k.posted["bond"] # 0
      /\ k.held["executorBond"] # 0 => k.posted["executorBond"] # 0
  BY <1>1 DEF TypeOK, Challenge, Deposits, Lot
<1>3. PICK p \in BOOLEAN : p = (~k.bondFinalized /\ k.held["bond"] # 0)
  BY <1>2
<1>4. PICK q \in BOOLEAN : q = (k.held["executorBond"] # 0)
  OBVIOUS
<1>5. PICK e : e = BondEvent(BondEnd(sc), EntityOf("bond"), c, k.held["bond"])
  OBVIOUS
<1>6. PICK f : f = BondEvent(BondEnd(se), EntityOf("executorBond"), c,
                             k.held["executorBond"])
  OBVIOUS
<1>7. BondEvents(c, sc, se) = When(p, e) \o When(q, f)
  BY <1>1, <1>3, <1>4, <1>5, <1>6 DEF BondEvents, EntityOf
<1>8. PICK x : x = R!Effects(v, When(p, e))
  OBVIOUS
<1>9. PICK h : Ends("bond", p, k.held, h)
  <2>1. Ends("bond", p, k.held, IF p THEN [k.held EXCEPT !["bond"] = 0] ELSE k.held)
    BY <1>2 DEF Ends, Lot
  <2> HIDE DEF Ends
  <2> QED BY <2>1
<1>10. /\ Framed(v, x, c) /\ x.challenges = v.challenges
       /\ BooksTold(x, c, k.posted, h) /\ IsEvents(When(p, e))
  <2>1. "bond" \in BondLots
    BY DEF BondLots
  <2>2. BooksTold(v, c, k.posted, k.held)
    BY <1>1
  <2>3. p => k.held["bond"] # 0 /\ k.posted["bond"] # 0
    BY <1>2, <1>3
  <2> QED BY <1>5, <1>8, <1>9, <2>1, <2>2, <2>3, LotEnds
<1>11. PICK w : w = R!Effects(x, When(q, f))
  OBVIOUS
<1>12. h \in [Lot -> Nat] /\ h["executorBond"] = k.held["executorBond"]
  BY <1>2, <1>9 DEF Lot, Ends
<1>13. PICK g : Ends("executorBond", q, h, g)
  <2>1. Ends("executorBond", q, h, IF q THEN [h EXCEPT !["executorBond"] = 0] ELSE h)
    BY <1>12 DEF Ends, Lot
  <2> HIDE DEF Ends
  <2> QED BY <2>1
<1>14. /\ Framed(x, w, c) /\ w.challenges = x.challenges
       /\ BooksTold(w, c, k.posted, g) /\ IsEvents(When(q, f))
  <2>1. ViewFields \subseteq DOMAIN x
    BY <1>10 DEF Framed
  <2>2. "executorBond" \in BondLots
    BY DEF BondLots
  <2>3. BooksTold(x, c, k.posted, h)
    BY <1>10
  <2>4. q => h["executorBond"] # 0 /\ k.posted["executorBond"] # 0
    BY <1>2, <1>4, <1>12
  <2>5. f = BondEvent(BondEnd(se), EntityOf("executorBond"), c, h["executorBond"])
    BY <1>6, <1>12
  <2> QED BY <1>11, <1>13, <2>1, <2>2, <2>3, <2>4, <2>5, LotEnds
<1>15. \A l \in BondLots : held[l] = g[l]
  BY <1>1, <1>2, <1>3, <1>4, <1>9, <1>12, <1>13 DEF BondLots, Lot, Ends
<1>16. BooksTold(w, c, k.posted, held)
  BY <1>14, <1>15, BooksSame
<1>17. /\ R!Effects(v, BondEvents(c, sc, se)) = w
       /\ IsEvents(BondEvents(c, sc, se))
  BY <1>7, <1>8, <1>10, <1>11, <1>14, InTurn
<1>18. Framed(v, w, c)
  BY <1>10, <1>14, FramedTwice
<1> QED BY <1>1, <1>10, <1>14, <1>16, <1>17, <1>18

-----------------------------------------------------------------------------
\* The entries.

EntryFields == {"creator", "fundingModel", "sponsor", "performer", "executor",
                "rewardEscrowed", "deadline", "state"}

\* An entry says what the challenge k is, but for the dispute.
EntryCore(k, dto) ==
  /\ EntryFields \subseteq DOMAIN dto
  /\ dto.creator = k.creator /\ dto.deadline = k.deadline /\ dto.state = k.state
  /\ dto.fundingModel = (IF k.offer THEN "PerformerOffer" ELSE "Sponsored")
  /\ dto.executor = k.executor
  /\ dto.performer = performerOf(k) /\ dto.sponsor = sponsorOf(k)
  /\ k.state \notin Settled => dto.rewardEscrowed = (k.held["reward"] # 0)
  /\ k.proposer # Nobody =>
       /\ "resolutionProposal" \in DOMAIN dto
       /\ dto.resolutionProposal =
            [proposer |-> k.proposer, executorSucceeded |-> k.proposed,
             disputeDeadline |-> k.disputeDeadline]

EntryTold(k, dto) ==
  /\ EntryCore(k, dto)
  /\ k.disputant # Nobody =>
       /\ "dispute" \in DOMAIN dto
       /\ dto.dispute = [disputant |-> k.disputant, resolved |-> k.state = "Resolved"]

\* A challenge that is not settled, and was not closed before it was created,
\* can be: its reward is in escrow from the moment it has a sponsor.  What was
\* closed before it was created says so.
Ready(k) ==
  /\ k.state = "EvidenceSubmitted" => k.evidence
  /\ k.state \in Unsettled /\ ~k.closedEarly => ~k.rewardFinalized
  /\ k.state \in Unsettled /\ k.creator # Nobody /\ ~(k.offer /\ k.state = "Open") =>
       k.held["reward"] # 0
  /\ k.creator = Nobody =>
       k.proposer = Nobody /\ (k.closedEarly \/ ~k.rewardFinalized)

ViewInv ==
  /\ ChallengeInv
  /\ ViewFields \subseteq DOMAIN view
  /\ DOMAIN view.challenges = {c \in ChallengeIds : c < nextChallengeId}
  /\ \A c \in ChallengeIds :
       /\ Ready(challenge[c])
       /\ BooksTold(view, c, challenge[c].posted, challenge[c].held)
       /\ c < nextChallengeId =>
            /\ challenge[c].creator # Nobody /\ challenge[c].rewardPool # 0
            /\ EntryTold(challenge[c], view.challenges[c])

\* Only the challenge c changes, and its entry and its books follow.
LEMMA TellingStep ==
  ASSUME ViewInv, ChallengeInv', NEW c \in ChallengeIds, NEW k,
         k = challenge'[c],
         \A x \in ChallengeIds \ {c} : challenge'[x] = challenge[x],
         \A x \in ChallengeIds \ {c} : x < nextChallengeId' <=> x < nextChallengeId,
         Framed(view, view', c),
         DOMAIN view'.challenges = {x \in ChallengeIds : x < nextChallengeId'},
         Ready(k), BooksTold(view', c, k.posted, k.held),
         c < nextChallengeId' =>
           k.creator # Nobody /\ k.rewardPool # 0 /\ EntryTold(k, view'.challenges[c])
  PROVE  ViewInv'
<1>1. ASSUME NEW x \in ChallengeIds \ {c}
      PROVE  /\ Ready(challenge'[x])
             /\ BooksTold(view', x, challenge'[x].posted, challenge'[x].held)
             /\ x < nextChallengeId' =>
                  /\ challenge'[x].creator # Nobody /\ challenge'[x].rewardPool # 0
                  /\ EntryTold(challenge'[x], view'.challenges[x])
  <2>1. challenge'[x] = challenge[x]
    BY <1>1
  <2>2. BooksTold(view', x, challenge[x].posted, challenge[x].held)
    BY <1>1 DEF ViewInv, BooksTold, Framed
  <2>3. x < nextChallengeId' => view'.challenges[x] = view.challenges[x]
    BY <1>1 DEF ViewInv, Framed
  <2> QED BY <2>1, <2>2, <2>3, <1>1 DEF ViewInv
<1> QED BY <1>1 DEF ViewInv, Framed

\* What the invariant says of one challenge.
LEMMA OneTold ==
  ASSUME ViewInv, NEW c \in ChallengeIds
  PROVE  /\ TypeOK /\ challenge[c] \in Challenge
         /\ c \in Nat /\ nextChallengeId \in Nat
         /\ Sound(nextChallengeId, c, challenge[c])
         /\ Deposits(challenge[c]) /\ Stage(challenge[c]) /\ Ready(challenge[c])
         /\ ViewFields \subseteq DOMAIN view
         /\ BooksTold(view, c, challenge[c].posted, challenge[c].held)
         /\ c \in DOMAIN view.challenges <=> c < nextChallengeId
         /\ c < nextChallengeId =>
              /\ challenge[c].creator # Nobody /\ challenge[c].rewardPool # 0
              /\ EntryTold(challenge[c], view.challenges[c])
         /\ challenge[c].creator # Nobody => c < nextChallengeId
<1>1. TypeOK /\ Sound(nextChallengeId, c, challenge[c])
  BY DEF ViewInv, ChallengeInv
<1>2. c \in Nat /\ nextChallengeId \in Nat /\ challenge[c] \in Challenge
  <2>1. Cardinality(ChallengeIds) \in Nat
    BY ChallengeAssumption, FS_CardinalityType DEF ChallengeAssumption
  <2> QED BY <1>1, <2>1, ChallengeAssumption DEF TypeOK, ChallengeAssumption
<1>3. challenge[c].creator # Nobody => c < nextChallengeId
  BY <1>1, <1>2 DEF Sound, Untouched
<1> QED BY <1>1, <1>2, <1>3 DEF ViewInv, Sound

LEMMA UpdateIs ==
  ASSUME NEW v, NEW c, ViewFields \subseteq DOMAIN v, NEW fields,
         NEW w, w = R!Update(v, "challenges", c, fields)
  PROVE  /\ Framed(v, w, c)
         /\ DOMAIN w.challenges = DOMAIN v.challenges
         /\ \A l \in BondLots : Book(w, l, c) = Book(v, l, c)
         /\ c \in DOMAIN v.challenges =>
              w.challenges[c] = R!Merged(v.challenges[c], fields)
<1>1. DOMAIN w = DOMAIN v /\ w.bonds = v.bonds
  BY DEF R!Update, R!Put, ViewFields
<1>2. /\ DOMAIN w.challenges = DOMAIN v.challenges
      /\ \A x \in DOMAIN v.challenges :
           w.challenges[x] = IF x = c THEN R!Merged(v.challenges[c], fields)
                                      ELSE v.challenges[x]
  BY DEF R!Update, R!Put, ViewFields
<1>3. \A x \in ChallengeIds \cup {c}, l \in BondLots : Book(w, l, x) = Book(v, l, x)
  BY <1>1 DEF Book
<1>4. Framed(v, w, c)
  BY <1>1, <1>2, <1>3 DEF Framed
<1> QED BY <1>2, <1>3, <1>4

\* What each event of an outcome updates.
LEMMA SettlementIs ==
  ASSUME NEW v, NEW e, e.type \in R!ChallengeEvents \ R!Opening
  PROVE  R!Effect(v, e) = R!SettlementEffect(v, e)
BY DEF R!Effect, R!MarketEvents, R!BountyEvents, R!Opening, R!ChallengeEvents,
       R!BondEvents

LEMMA ResolvedEffect ==
  ASSUME NEW v, NEW c, NEW e, e.type = "ChallengeResolved", e.challengeId = c,
         NEW fields, fields = [state |-> "Resolved", winner |-> e.winner,
                               executorSucceeded |-> e.executorSucceeded]
  PROVE  R!Effect(v, e) = R!Update(v, "challenges", c, fields)
<1>1. e.type \in R!ChallengeEvents \ R!Opening
  BY DEF R!ChallengeEvents, R!Opening
<1>2. R!Effect(v, e) = R!SettlementEffect(v, e)
  BY <1>1, SettlementIs
<1> QED BY <1>2 DEF R!SettlementEffect

LEMMA CancelledEffect ==
  ASSUME NEW v, NEW c, NEW e, e.type = "ChallengeCancelled", e.challengeId = c,
         NEW fields, fields = [state |-> "Cancelled"]
  PROVE  R!Effect(v, e) = R!Update(v, "challenges", c, fields)
<1>1. e.type \in R!ChallengeEvents \ R!Opening
  BY DEF R!ChallengeEvents, R!Opening
<1>2. R!Effect(v, e) = R!SettlementEffect(v, e)
  BY <1>1, SettlementIs
<1> QED BY <1>2 DEF R!SettlementEffect

LEMMA FraudEffect ==
  ASSUME NEW v, NEW c, NEW e, e.type = "ChallengeFraudConfirmed", e.challengeId = c,
         NEW fields, fields = [state |-> "Fraud"]
  PROVE  R!Effect(v, e) = R!Update(v, "challenges", c, fields)
<1>1. e.type \in R!ChallengeEvents \ R!Opening
  BY DEF R!ChallengeEvents, R!Opening
<1>2. R!Effect(v, e) = R!SettlementEffect(v, e)
  BY <1>1, SettlementIs
<1> QED BY <1>2 DEF R!SettlementEffect

LEMMA ProposedEffect ==
  ASSUME NEW v, NEW c, NEW e, e.type = "ChallengeResolutionProposed", e.challengeId = c,
         NEW fields, fields = [state |-> "Review",
                               resolutionProposal |->
                                 [proposer |-> e.proposer,
                                  executorSucceeded |-> e.executorSucceeded,
                                  disputeDeadline |-> e.disputeDeadline]]
  PROVE  R!Effect(v, e) = R!Update(v, "challenges", c, fields)
<1>1. e.type \in R!ChallengeEvents \ R!Opening
  BY DEF R!ChallengeEvents, R!Opening
<1>2. R!Effect(v, e) = R!SettlementEffect(v, e)
  BY <1>1, SettlementIs
<1> QED BY <1>2 DEF R!SettlementEffect

LEMMA ConfirmedEffect ==
  ASSUME NEW v, NEW c, NEW e, e.type = "ChallengeResolutionConfirmed", e.challengeId = c,
         NEW fields, fields = [resolutionConfirmation |-> e.confirmer]
  PROVE  R!Effect(v, e) = R!Update(v, "challenges", c, fields)
<1>1. e.type \in R!ChallengeEvents \ R!Opening
  BY DEF R!ChallengeEvents, R!Opening
<1>2. R!Effect(v, e) = R!SettlementEffect(v, e)
  BY <1>1, SettlementIs
<1> QED BY <1>2 DEF R!SettlementEffect

LEMMA DisputedEffect ==
  ASSUME NEW v, NEW c, NEW e, e.type = "ChallengeResolutionDisputed", e.challengeId = c,
         NEW fields, fields = [state |-> "Disputed",
                               dispute |-> [disputant |-> e.disputant, resolved |-> FALSE]]
  PROVE  R!Effect(v, e) = R!Update(v, "challenges", c, fields)
<1>1. e.type \in R!ChallengeEvents \ R!Opening
  BY DEF R!ChallengeEvents, R!Opening
<1>2. R!Effect(v, e) = R!SettlementEffect(v, e)
  BY <1>1, SettlementIs
<1> QED BY <1>2 DEF R!SettlementEffect

LEMMA EarlyEffect ==
  ASSUME NEW v, NEW c, NEW e, e.type = "ChallengeResolvedEarly", e.challengeId = c,
         NEW fields, fields = [resolvedEarly |-> e.executorSucceeded]
  PROVE  R!Effect(v, e) = R!Update(v, "challenges", c, fields)
<1>1. e.type \in R!ChallengeEvents \ R!Opening
  BY DEF R!ChallengeEvents, R!Opening
<1>2. R!Effect(v, e) = R!SettlementEffect(v, e)
  BY <1>1, SettlementIs
<1> QED BY <1>2 DEF R!SettlementEffect

LEMMA WindowEffect ==
  ASSUME NEW v, NEW e, e.type = "ResolutionWindowUpdated"
  PROVE  R!Effect(v, e) = [v EXCEPT !.standardResolutionWindow = e.newWindow]
<1>1. e.type \in R!ChallengeEvents \ R!Opening
  BY DEF R!ChallengeEvents, R!Opening
<1>2. R!Effect(v, e) = R!SettlementEffect(v, e)
  BY <1>1, SettlementIs
<1> QED BY <1>2 DEF R!SettlementEffect

LEMMA DisputeResolvedEffect ==
  ASSUME NEW v, NEW c, NEW e, e.type = "ChallengeDisputeResolved", e.challengeId = c,
         c \in DOMAIN v.challenges, "dispute" \in DOMAIN v.challenges[c],
         NEW fields,
         fields = [dispute |-> [v.challenges[c].dispute EXCEPT !.resolved = TRUE]]
  PROVE  R!Effect(v, e) = R!Update(v, "challenges", c, fields)
<1>1. e.type \in R!ChallengeEvents \ R!Opening
  BY DEF R!ChallengeEvents, R!Opening
<1>2. R!Effect(v, e) = R!SettlementEffect(v, e)
  BY <1>1, SettlementIs
<1> QED BY <1>2 DEF R!SettlementEffect

LEMMA NoDisputeEffect ==
  ASSUME NEW v, NEW c, NEW e, e.type = "ChallengeDisputeResolved", e.challengeId = c,
         "dispute" \notin DOMAIN v.challenges[c]
  PROVE  R!Effect(v, e) = v
<1>1. e.type \in R!ChallengeEvents \ R!Opening
  BY DEF R!ChallengeEvents, R!Opening
<1>2. R!Effect(v, e) = R!SettlementEffect(v, e)
  BY <1>1, SettlementIs
<1> QED BY <1>2 DEF R!SettlementEffect

LEMMA OpeningIs ==
  ASSUME NEW v, NEW e, e.type \in R!Opening
  PROVE  R!Effect(v, e) = R!OpeningEffect(v, e)
BY DEF R!Effect, R!MarketEvents, R!BountyEvents, R!Opening, R!ChallengeEvents,
       R!BondEvents

LEMMA CreatedEffect ==
  ASSUME NEW v, NEW e, e.type = "ChallengeCreated"
  PROVE  R!Effect(v, e) =
           [v EXCEPT !.challenges = R!Put(@, e.challengeId, R!ChallengeProjection(e))]
<1>1. e.type \in R!Opening
  BY DEF R!Opening
<1>2. R!Effect(v, e) = R!OpeningEffect(v, e)
  BY <1>1, OpeningIs
<1> QED BY <1>2 DEF R!OpeningEffect

LEMMA FundingEffect ==
  ASSUME NEW v, NEW c, NEW e, e.type = "ChallengeFundingModelSelected", e.challengeId = c,
         NEW fields, fields = [fundingModel |-> e.fundingModel,
                               rewardEscrowed |-> e.fundingModel = "Sponsored",
                               performer |-> e.performer, sponsor |-> e.sponsor]
  PROVE  R!Effect(v, e) = R!Update(v, "challenges", c, fields)
<1>1. e.type \in R!Opening
  BY DEF R!Opening
<1>2. R!Effect(v, e) = R!OpeningEffect(v, e)
  BY <1>1, OpeningIs
<1> QED BY <1>2 DEF R!OpeningEffect

LEMMA FundedEffect ==
  ASSUME NEW v, NEW c, NEW e, e.type = "ChallengeRewardFunded", e.challengeId = c,
         NEW fields, fields = [sponsor |-> e.sponsor, rewardEscrowed |-> TRUE]
  PROVE  R!Effect(v, e) = R!Update(v, "challenges", c, fields)
<1>1. e.type \in R!Opening
  BY DEF R!Opening
<1>2. R!Effect(v, e) = R!OpeningEffect(v, e)
  BY <1>1, OpeningIs
<1> QED BY <1>2 DEF R!OpeningEffect

LEMMA AcceptedEffect ==
  ASSUME NEW v, NEW c, NEW e, e.type = "ChallengeAccepted", e.challengeId = c,
         c \in DOMAIN v.challenges,
         NEW fields, fields = R!Accepted(v.challenges[c], e)
  PROVE  R!Effect(v, e) = R!Update(v, "challenges", c, fields)
<1>1. e.type \in R!Opening
  BY DEF R!Opening
<1>2. R!Effect(v, e) = R!OpeningEffect(v, e)
  BY <1>1, OpeningIs
<1> QED BY <1>2 DEF R!OpeningEffect

LEMMA EvidenceEffect ==
  ASSUME NEW v, NEW c, NEW e, e.type = "ChallengeEvidenceSubmitted", e.challengeId = c,
         c \in DOMAIN v.challenges,
         NEW fields, fields = R!WithEvidence(v.challenges[c], e)
  PROVE  R!Effect(v, e) = R!Update(v, "challenges", c, fields)
<1>1. e.type \in R!Opening
  BY DEF R!Opening
<1>2. R!Effect(v, e) = R!OpeningEffect(v, e)
  BY <1>1, OpeningIs
<1> QED BY <1>2 DEF R!OpeningEffect

\* A view in the middle of an operation on c, when it says what k is.
Following(v, c, k) ==
  /\ Framed(view, v, c)
  /\ DOMAIN v.challenges = DOMAIN view.challenges
  /\ BooksTold(v, c, k.posted, k.held)
  /\ c < nextChallengeId => EntryTold(k, v.challenges[c])

LEMMA FollowingAtFirst ==
  ASSUME ViewInv, NEW c \in ChallengeIds
  PROVE  Following(view, c, challenge[c])
BY OneTold DEF Following, Framed

\* Fields no entry's statement is about.
LEMMA OtherFields ==
  ASSUME ViewInv, NEW c \in ChallengeIds, NEW v, NEW k, Following(v, c, k),
         NEW fields,
         DOMAIN fields \cap (EntryFields \cup {"resolutionProposal", "dispute"}) = {}
  PROVE  Following(R!Update(v, "challenges", c, fields), c, k)
<1>1. PICK w : w = R!Update(v, "challenges", c, fields)
  OBVIOUS
<1>2. ViewFields \subseteq DOMAIN v
  BY DEF Following, Framed
<1>3. /\ Framed(v, w, c) /\ DOMAIN w.challenges = DOMAIN v.challenges
      /\ \A l \in BondLots : Book(w, l, c) = Book(v, l, c)
      /\ c \in DOMAIN v.challenges =>
           w.challenges[c] = R!Merged(v.challenges[c], fields)
  BY <1>1, <1>2, UpdateIs
<1>4. Framed(view, w, c) /\ DOMAIN w.challenges = DOMAIN view.challenges
  BY <1>3, FramedTwice DEF Following
<1>5. BooksTold(w, c, k.posted, k.held)
  BY <1>3 DEF Following, BooksTold
<1>6. ASSUME c < nextChallengeId PROVE EntryTold(k, w.challenges[c])
  <2>1. c \in DOMAIN v.challenges
    BY <1>6, OneTold DEF Following
  <2>2. PICK dto : dto = v.challenges[c] /\ EntryTold(k, dto)
    BY <1>6 DEF Following
  <2>3. PICK d : d = R!Merged(dto, fields)
    OBVIOUS
  <2>4. d = w.challenges[c]
    BY <1>3, <2>1, <2>2, <2>3
  <2>5. /\ DOMAIN dto \subseteq DOMAIN d
        /\ \A x \in EntryFields \cup {"resolutionProposal", "dispute"} :
             x \in DOMAIN dto => d[x] = dto[x]
    BY <2>3 DEF R!Merged
  <2>6. /\ \A x \in EntryFields : x \in DOMAIN dto /\ d[x] = dto[x]
        /\ "resolutionProposal" \in DOMAIN dto =>
              d["resolutionProposal"] = dto["resolutionProposal"]
        /\ "dispute" \in DOMAIN dto => d["dispute"] = dto["dispute"]
    BY <2>2, <2>5 DEF EntryTold, EntryCore
  <2>7. EntryCore(k, d)
    BY <2>2, <2>5, <2>6 DEF EntryTold, EntryCore, EntryFields
  <2>8. EntryTold(k, d)
    BY <2>2, <2>5, <2>6, <2>7 DEF EntryTold
  <2> QED BY <2>4, <2>8
<1> QED BY <1>1, <1>4, <1>5, <1>6 DEF Following

\* The event of a settlement, on a view whose entry is still that of k.
LEMMA SettlementTold ==
  ASSUME NEW k, NEW n, NEW dto, EntryCore(k, dto), SameTerms(k, n),
         n.state \in Settled, NEW fields, "state" \in DOMAIN fields,
         fields.state = n.state,
         DOMAIN fields \cap (EntryFields \cup {"resolutionProposal", "dispute"})
           = {"state"}
  PROVE  LET d == R!Merged(dto, fields)
         IN  /\ EntryCore(n, d)
             /\ "dispute" \in DOMAIN dto =>
                  "dispute" \in DOMAIN d /\ d.dispute = dto.dispute
<1>1. PICK d : d = R!Merged(dto, fields)
  OBVIOUS
<1>2. /\ DOMAIN dto \subseteq DOMAIN d /\ "state" \in DOMAIN d /\ d["state"] = n.state
      /\ \A x \in (EntryFields \cup {"resolutionProposal", "dispute"}) \ {"state"} :
           x \in DOMAIN dto => d[x] = dto[x]
  BY <1>1 DEF R!Merged
<1>3. /\ \A x \in EntryFields \ {"state"} : x \in DOMAIN dto /\ d[x] = dto[x]
      /\ "resolutionProposal" \in DOMAIN dto =>
           d["resolutionProposal"] = dto["resolutionProposal"]
      /\ "dispute" \in DOMAIN dto => d["dispute"] = dto["dispute"]
  BY <1>2 DEF EntryCore, EntryFields
<1>4. performerOf(n) = performerOf(k) /\ sponsorOf(n) = sponsorOf(k)
  BY DEF SameTerms, performerOf, sponsorOf
<1>5. EntryCore(n, d)
  BY <1>2, <1>3, <1>4 DEF EntryCore, EntryFields, SameTerms
<1> QED BY <1>1, <1>2, <1>3, <1>5

LEMMA UpdateFollows ==
  ASSUME NEW c \in ChallengeIds, NEW v, NEW posted, NEW held,
         Framed(view, v, c), DOMAIN v.challenges = DOMAIN view.challenges,
         BooksTold(v, c, posted, held), NEW fields,
         NEW w, w = R!Update(v, "challenges", c, fields)
  PROVE  /\ Framed(view, w, c) /\ DOMAIN w.challenges = DOMAIN view.challenges
         /\ BooksTold(w, c, posted, held)
         /\ c \in DOMAIN view.challenges =>
              w.challenges[c] = R!Merged(v.challenges[c], fields)
<1>1. ViewFields \subseteq DOMAIN v
  BY DEF Framed
<1>2. /\ Framed(v, w, c) /\ DOMAIN w.challenges = DOMAIN v.challenges
      /\ \A l \in BondLots : Book(w, l, c) = Book(v, l, c)
      /\ c \in DOMAIN v.challenges =>
           w.challenges[c] = R!Merged(v.challenges[c], fields)
  BY <1>1, UpdateIs
<1>3. Framed(view, w, c)
  BY <1>2, FramedTwice
<1> QED BY <1>2, <1>3 DEF BooksTold

-----------------------------------------------------------------------------
\* Settlement.

\* From v to w the events say that c, which was k, is now n; but for the dispute.
Resolves(v, w, c, k, n) ==
  /\ SameTerms(k, n) /\ n.state = "Resolved" /\ n.held \in [Lot -> Nat]
  /\ n.held["disputeBond"] = k.held["disputeBond"]
  /\ Framed(view, w, c) /\ DOMAIN w.challenges = DOMAIN view.challenges
  /\ BooksTold(w, c, n.posted, n.held)
  /\ EntryCore(n, w.challenges[c])
  /\ "dispute" \in DOMAIN v.challenges[c] =>
       /\ "dispute" \in DOMAIN w.challenges[c]
       /\ w.challenges[c].dispute = v.challenges[c].dispute

LEMMA ResolutionTells ==
  ASSUME ViewInv, NEW c \in ChallengeIds, c < nextChallengeId,
         NEW v, Following(v, c, challenge[c]), NEW succeeded \in BOOLEAN,
         NEW sc \in BOOLEAN, NEW se \in BOOLEAN,
         NEW endorsers \in SUBSET (Users \cup {"arbiter"}),
         NEW n, n = Resolved(challenge[c], succeeded, sc, se, endorsers),
         NEW w, w = R!Effects(v, ResolutionEvents(c, succeeded, sc, se))
  PROVE  /\ IsEvents(ResolutionEvents(c, succeeded, sc, se))
         /\ Resolves(v, w, c, challenge[c], n)
<1>1. PICK k : k = challenge[c]
  OBVIOUS
<1>2. /\ TypeOK /\ k \in Challenge /\ Deposits(k) /\ ViewFields \subseteq DOMAIN v
      /\ c \in DOMAIN view.challenges
  BY <1>1, OneTold DEF Following, Framed
<1>3. /\ n \in Challenge /\ SameTerms(k, n) /\ n.state = "Resolved"
      /\ n.held["executorBond"] = 0
      /\ n.held["bond"] = IF k.bondFinalized THEN k.held["bond"] ELSE 0
      /\ n.held["disputeBond"] = k.held["disputeBond"]
  BY <1>1, <1>2, ResolvedFields
<1>4. n.held \in [Lot -> Nat]
  BY <1>3 DEF Challenge
<1>5. PICK x : x = R!Effects(v, BondEvents(c, sc, se))
  OBVIOUS
<1>6. /\ Framed(v, x, c) /\ x.challenges = v.challenges
      /\ BooksTold(x, c, k.posted, n.held) /\ IsEvents(BondEvents(c, sc, se))
  BY <1>1, <1>2, <1>3, <1>4, <1>5, BondsEnd DEF Following
<1>7. PICK e : e = [type |-> "ChallengeResolved", challengeId |-> c,
                    winner |-> IF succeeded THEN performerOf(challenge[c])
                               ELSE sponsorOf(challenge[c]),
                    executorSucceeded |-> succeeded]
  OBVIOUS
<1>8. ResolutionEvents(c, succeeded, sc, se) = BondEvents(c, sc, se) \o <<e>>
  BY <1>7 DEF ResolutionEvents
<1>9. /\ IsEvents(ResolutionEvents(c, succeeded, sc, se))
      /\ w = R!Effect(x, e)
  <2>1. IsEvents(<<e>>)
    BY FewAreEvents
  <2> QED BY <1>5, <1>6, <1>8, <2>1, InTurn, EffectsOfFew
<1>10. PICK fields : fields = [state |-> "Resolved", winner |-> e.winner,
                               executorSucceeded |-> e.executorSucceeded]
  OBVIOUS
<1>11. w = R!Update(x, "challenges", c, fields)
  <2>1. e.type = "ChallengeResolved" /\ e.challengeId = c
    BY <1>7
  <2> QED BY <1>9, <1>10, <2>1, ResolvedEffect
<1>12. /\ Framed(view, x, c) /\ DOMAIN x.challenges = DOMAIN view.challenges
       /\ x.challenges[c] = v.challenges[c]
  BY <1>6, FramedTwice DEF Following
<1>13. /\ Framed(view, w, c) /\ DOMAIN w.challenges = DOMAIN view.challenges
       /\ BooksTold(w, c, k.posted, n.held)
       /\ w.challenges[c] = R!Merged(v.challenges[c], fields)
  BY <1>2, <1>6, <1>11, <1>12, UpdateFollows
<1>14. n.posted = k.posted
  BY <1>3 DEF SameTerms
<1>15. EntryCore(k, v.challenges[c])
  BY <1>1 DEF Following, EntryTold
<1>16. /\ EntryCore(n, w.challenges[c])
       /\ "dispute" \in DOMAIN v.challenges[c] =>
             /\ "dispute" \in DOMAIN w.challenges[c]
             /\ w.challenges[c].dispute = v.challenges[c].dispute
  <2>1. /\ DOMAIN fields = {"state", "winner", "executorSucceeded"}
        /\ fields.state = n.state /\ n.state \in Settled
    BY <1>3, <1>10 DEF Settled
  <2>2. /\ "state" \in DOMAIN fields
        /\ DOMAIN fields \cap (EntryFields \cup {"resolutionProposal", "dispute"})
              = {"state"}
    BY <2>1 DEF EntryFields
  <2> QED BY <1>3, <1>13, <1>15, <2>1, <2>2, SettlementTold
<1> QED BY <1>1, <1>3, <1>4, <1>9, <1>13, <1>14, <1>16 DEF Resolves

\* A step that leaves the other challenges alone.
LEMMA FollowedStep ==
  ASSUME ViewInv, ChallengeInv', NEW c \in ChallengeIds, NEW k,
         challenge' = [challenge EXCEPT ![c] = k],
         UNCHANGED nextChallengeId, Ready(k),
         Framed(view, view', c), DOMAIN view'.challenges = DOMAIN view.challenges,
         BooksTold(view', c, k.posted, k.held),
         c < nextChallengeId =>
           /\ k.creator # Nobody /\ k.rewardPool # 0
           /\ EntryTold(k, view'.challenges[c])
  PROVE  ViewInv'
<1>1. /\ k = challenge'[c]
      /\ \A x \in ChallengeIds \ {c} : challenge'[x] = challenge[x]
  BY OneTold DEF TypeOK
<1>2. /\ \A x \in ChallengeIds \ {c} : x < nextChallengeId' <=> x < nextChallengeId
      /\ DOMAIN view'.challenges = {x \in ChallengeIds : x < nextChallengeId'}
  BY DEF ViewInv
<1> QED BY <1>1, <1>2, TellingStep

LEMMA SettledIsReady ==
  ASSUME NEW k, k.state \in Settled,
         k.creator = Nobody => k.proposer = Nobody /\ k.closedEarly
  PROVE  Ready(k)
BY DEF Ready, Settled, Unsettled

LEMMA ResolutionTold ==
  ASSUME ViewInv, ChallengeInv', NEW c \in ChallengeIds,
         challenge[c].state \in {"Accepted", "EvidenceSubmitted", "Review"},
         NEW v, Following(v, c, challenge[c]), NEW succeeded \in BOOLEAN,
         NEW sc \in BOOLEAN, NEW se \in BOOLEAN,
         NEW endorsers \in SUBSET (Users \cup {"arbiter"}),
         challenge' = [challenge EXCEPT ![c] =
                         Resolved(challenge[c], succeeded, sc, se, endorsers)],
         UNCHANGED nextChallengeId,
         view' = R!Effects(v, ResolutionEvents(c, succeeded, sc, se))
  PROVE  ViewInv'
<1>1. PICK n : n = Resolved(challenge[c], succeeded, sc, se, endorsers)
  OBVIOUS
<1>2. PICK w : w = R!Effects(v, ResolutionEvents(c, succeeded, sc, se))
  OBVIOUS
<1>3. /\ challenge[c].creator \in Users /\ challenge[c].disputant = Nobody
      /\ c < nextChallengeId /\ challenge[c].rewardPool # 0
  BY OneTold, ChallengeAssumption DEF Stage, ChallengeAssumption
<1>4. /\ SameTerms(challenge[c], n) /\ n.state = "Resolved"
      /\ Framed(view, w, c) /\ DOMAIN w.challenges = DOMAIN view.challenges
      /\ BooksTold(w, c, n.posted, n.held) /\ EntryCore(n, w.challenges[c])
  <2>1. Resolves(v, w, c, challenge[c], n)
    BY <1>1, <1>2, <1>3, ResolutionTells
  <2> QED BY <2>1 DEF Resolves
<1>5. /\ n.creator # Nobody /\ n.rewardPool # 0 /\ EntryTold(n, w.challenges[c])
  BY <1>3, <1>4, ChallengeAssumption DEF SameTerms, EntryTold, ChallengeAssumption
<1>6. Ready(n)
  BY <1>4, <1>5, SettledIsReady DEF Settled
<1>7. view' = w /\ challenge' = [challenge EXCEPT ![c] = n]
  BY <1>1, <1>2
<1>8. /\ Framed(view, view', c) /\ DOMAIN view'.challenges = DOMAIN view.challenges
      /\ BooksTold(view', c, n.posted, n.held) /\ EntryTold(n, view'.challenges[c])
  BY <1>4, <1>5, <1>7
<1> QED BY <1>5, <1>6, <1>7, <1>8, FollowedStep

LEMMA ResolutionIsEvents ==
  ASSUME ViewInv, NEW c \in ChallengeIds, c < nextChallengeId,
         NEW succeeded \in BOOLEAN, NEW sc \in BOOLEAN, NEW se \in BOOLEAN
  PROVE  IsEvents(ResolutionEvents(c, succeeded, sc, se))
<1>1. Following(view, c, challenge[c])
  BY FollowingAtFirst
<1>2. PICK n : n = Resolved(challenge[c], succeeded, sc, se, {})
  OBVIOUS
<1>3. PICK w : w = R!Effects(view, ResolutionEvents(c, succeeded, sc, se))
  OBVIOUS
<1> QED BY <1>1, <1>2, <1>3, ResolutionTells

\* An event that no statement of an entry is about, before a resolution.
LEMMA NotedResolutionTold ==
  ASSUME ViewInv, ChallengeInv', NEW c \in ChallengeIds,
         challenge[c].state \in {"Accepted", "EvidenceSubmitted", "Review"},
         NEW e, NEW fields, R!Effect(view, e) = R!Update(view, "challenges", c, fields),
         DOMAIN fields \cap (EntryFields \cup {"resolutionProposal", "dispute"}) = {},
         NEW succeeded \in BOOLEAN, NEW sc \in BOOLEAN, NEW se \in BOOLEAN,
         NEW endorsers \in SUBSET (Users \cup {"arbiter"}),
         challenge' = [challenge EXCEPT ![c] =
                         Resolved(challenge[c], succeeded, sc, se, endorsers)],
         UNCHANGED nextChallengeId,
         view' = R!Effects(view, <<e>> \o ResolutionEvents(c, succeeded, sc, se))
  PROVE  ViewInv'
<1>1. c < nextChallengeId
  BY OneTold, ChallengeAssumption DEF Stage, ChallengeAssumption
<1>2. PICK v : v = R!Effect(view, e)
  OBVIOUS
<1>3. Following(v, c, challenge[c])
  BY <1>2, FollowingAtFirst, OtherFields
<1>4. view' = R!Effects(v, ResolutionEvents(c, succeeded, sc, se))
  <2>1. PICK t : t = ResolutionEvents(c, succeeded, sc, se)
    OBVIOUS
  <2>2. IsEvents(<<e>>) /\ IsEvents(t)
    BY <1>1, <2>1, FewAreEvents, ResolutionIsEvents
  <2>3. R!Effects(view, <<e>> \o t) = R!Effects(v, t)
    BY <1>2, <2>2, InTurn, EffectsOfFew
  <2> QED BY <2>1, <2>3
<1> QED BY <1>3, <1>4, ResolutionTold

LEMMA ConfirmTold ==
  ASSUME ViewInv, ChallengeInv', NEW c \in ChallengeIds, NEW u \in Users,
         NEW succeeded \in BOOLEAN, ConfirmResolution(u, c, succeeded),
         Emits(<<[type |-> "ChallengeResolutionConfirmed", challengeId |-> c,
                  confirmer |-> u]>>
               \o ResolutionEvents(c, succeeded, FALSE, ~succeeded))
  PROVE  ViewInv'
<1>1. PICK e : e = [type |-> "ChallengeResolutionConfirmed", challengeId |-> c,
                    confirmer |-> u]
  OBVIOUS
<1>2. PICK fields : fields = [resolutionConfirmation |-> e.confirmer]
  OBVIOUS
<1>3. R!Effect(view, e) = R!Update(view, "challenges", c, fields)
  <2>1. e.type = "ChallengeResolutionConfirmed" /\ e.challengeId = c
    BY <1>1
  <2> QED BY <1>2, <2>1, ConfirmedEffect
<1>4. DOMAIN fields \cap (EntryFields \cup {"resolutionProposal", "dispute"}) = {}
  BY <1>2 DEF EntryFields
<1>5. PICK endorsers : endorsers = challenge[c].endorsers \cup {u}
  OBVIOUS
<1>6. endorsers \in SUBSET (Users \cup {"arbiter"})
  BY <1>5, OneTold DEF Challenge
<1>7. /\ challenge[c].state \in {"Accepted", "EvidenceSubmitted", "Review"}
      /\ challenge' = [challenge EXCEPT ![c] =
                         Resolved(challenge[c], succeeded, FALSE, ~succeeded, endorsers)]
      /\ UNCHANGED nextChallengeId
  BY <1>5 DEF ConfirmResolution, context
<1>8. view' = R!Effects(view, <<e>> \o ResolutionEvents(c, succeeded, FALSE, ~succeeded))
  BY <1>1 DEF Emits
<1>9. PICK se \in BOOLEAN : se = ~succeeded
  OBVIOUS
<1>10. PICK sc \in BOOLEAN : sc = FALSE
  OBVIOUS
<1>11. /\ challenge' = [challenge EXCEPT ![c] =
                         Resolved(challenge[c], succeeded, sc, se, endorsers)]
       /\ view' = R!Effects(view, <<e>> \o ResolutionEvents(c, succeeded, sc, se))
  BY <1>7, <1>8, <1>9, <1>10
<1> QED BY <1>3, <1>4, <1>6, <1>7, <1>11, NotedResolutionTold

LEMMA EarlyTold ==
  ASSUME ViewInv, ChallengeInv', NEW c \in ChallengeIds,
         NEW succeeded \in BOOLEAN, ResolveEarly(c, succeeded),
         Emits(<<[type |-> "ChallengeResolvedEarly", challengeId |-> c,
                  executorSucceeded |-> succeeded]>>
               \o ResolutionEvents(c, succeeded, FALSE, ~succeeded))
  PROVE  ViewInv'
<1>1. PICK e : e = [type |-> "ChallengeResolvedEarly", challengeId |-> c,
                    executorSucceeded |-> succeeded]
  OBVIOUS
<1>2. PICK fields : fields = [resolvedEarly |-> e.executorSucceeded]
  OBVIOUS
<1>3. R!Effect(view, e) = R!Update(view, "challenges", c, fields)
  <2>1. e.type = "ChallengeResolvedEarly" /\ e.challengeId = c
    BY <1>1
  <2> QED BY <1>2, <2>1, EarlyEffect
<1>4. DOMAIN fields \cap (EntryFields \cup {"resolutionProposal", "dispute"}) = {}
  BY <1>2 DEF EntryFields
<1>5. PICK endorsers : endorsers = {"arbiter"}
  OBVIOUS
<1>6. endorsers \in SUBSET (Users \cup {"arbiter"})
  BY <1>5
<1>7. /\ challenge[c].state \in {"Accepted", "EvidenceSubmitted", "Review"}
      /\ challenge' = [challenge EXCEPT ![c] =
                         Resolved(challenge[c], succeeded, FALSE, ~succeeded, endorsers)]
      /\ UNCHANGED nextChallengeId
  BY <1>5 DEF ResolveEarly, ResolveChallenge, context
<1>8. view' = R!Effects(view, <<e>> \o ResolutionEvents(c, succeeded, FALSE, ~succeeded))
  BY <1>1 DEF Emits
<1>9. PICK se \in BOOLEAN : se = ~succeeded
  OBVIOUS
<1>10. PICK sc \in BOOLEAN : sc = FALSE
  OBVIOUS
<1>11. /\ challenge' = [challenge EXCEPT ![c] =
                         Resolved(challenge[c], succeeded, sc, se, endorsers)]
       /\ view' = R!Effects(view, <<e>> \o ResolutionEvents(c, succeeded, sc, se))
  BY <1>7, <1>8, <1>9, <1>10
<1> QED BY <1>3, <1>4, <1>6, <1>7, <1>11, NotedResolutionTold

LEMMA VerdictTold ==
  ASSUME ViewInv, ChallengeInv', NEW c \in ChallengeIds,
         NEW succeeded \in BOOLEAN, NEW sc \in BOOLEAN, NEW se \in BOOLEAN,
         ResolveChallenge(c, succeeded, sc, se),
         Emits(ResolutionEvents(c, succeeded, sc, se))
  PROVE  ViewInv'
<1>1. Following(view, c, challenge[c])
  BY FollowingAtFirst
<1>2. PICK endorsers : endorsers = {"arbiter"}
  OBVIOUS
<1>3. endorsers \in SUBSET (Users \cup {"arbiter"})
  BY <1>2
<1>4. /\ challenge[c].state \in {"Accepted", "EvidenceSubmitted", "Review"}
      /\ challenge' = [challenge EXCEPT ![c] =
                         Resolved(challenge[c], succeeded, sc, se, endorsers)]
      /\ UNCHANGED nextChallengeId
  BY <1>2 DEF ResolveChallenge, context
<1>5. view' = R!Effects(view, ResolutionEvents(c, succeeded, sc, se))
  BY DEF Emits
<1> QED BY <1>1, <1>3, <1>4, <1>5, ResolutionTold

LEMMA FinalizeTold ==
  ASSUME ViewInv, ChallengeInv', NEW c \in ChallengeIds, FinalizeUndisputed(c),
         Emits(ResolutionEvents(c, challenge[c].proposed, FALSE,
                                ~challenge[c].proposed))
  PROVE  ViewInv'
<1>1. Following(view, c, challenge[c])
  BY FollowingAtFirst
<1>2. /\ challenge[c].endorsers \in SUBSET (Users \cup {"arbiter"})
      /\ challenge[c].proposed \in BOOLEAN
  BY OneTold DEF Challenge
<1>3. PICK succeeded \in BOOLEAN : succeeded = challenge[c].proposed
  BY <1>2
<1>4. PICK se \in BOOLEAN : se = ~challenge[c].proposed
  OBVIOUS
<1>5. PICK sc \in BOOLEAN : sc = FALSE
  OBVIOUS
<1>6. /\ challenge[c].state \in {"Accepted", "EvidenceSubmitted", "Review"}
      /\ challenge' = [challenge EXCEPT ![c] =
             Resolved(challenge[c], succeeded, sc, se, challenge[c].endorsers)]
      /\ UNCHANGED nextChallengeId
  BY <1>3, <1>4, <1>5 DEF FinalizeUndisputed, context
<1>7. view' = R!Effects(view, ResolutionEvents(c, succeeded, sc, se))
  BY <1>3, <1>4, <1>5 DEF Emits
<1> QED BY <1>1, <1>2, <1>6, <1>7, ResolutionTold

LEMMA FollowingStep ==
  ASSUME ViewInv, ChallengeInv', NEW c \in ChallengeIds, NEW n,
         challenge' = [challenge EXCEPT ![c] = n],
         UNCHANGED nextChallengeId, Ready(n), Following(view', c, n),
         n.creator = challenge[c].creator, n.rewardPool = challenge[c].rewardPool
  PROVE  ViewInv'
<1>1. c < nextChallengeId =>
        /\ n.creator # Nobody /\ n.rewardPool # 0
        /\ EntryTold(n, view'.challenges[c])
  BY OneTold DEF Following
<1>2. /\ Framed(view, view', c) /\ DOMAIN view'.challenges = DOMAIN view.challenges
      /\ BooksTold(view', c, n.posted, n.held)
  BY DEF Following
<1> QED BY <1>1, <1>2, FollowedStep

\* The event of a dispute's resolution.
LEMMA CoreKept ==
  ASSUME NEW k, NEW dto, EntryCore(k, dto), NEW fields,
         DOMAIN fields \cap (EntryFields \cup {"resolutionProposal"}) = {}
  PROVE  EntryCore(k, R!Merged(dto, fields))
<1>1. PICK d : d = R!Merged(dto, fields)
  OBVIOUS
<1>2. /\ DOMAIN dto \subseteq DOMAIN d
      /\ \A x \in EntryFields \cup {"resolutionProposal"} :
           x \in DOMAIN dto => d[x] = dto[x]
  BY <1>1 DEF R!Merged
<1>3. /\ \A x \in EntryFields : x \in DOMAIN dto /\ d[x] = dto[x]
      /\ "resolutionProposal" \in DOMAIN dto =>
           d["resolutionProposal"] = dto["resolutionProposal"]
  BY <1>2 DEF EntryCore
<1>4. EntryCore(k, d)
  BY <1>2, <1>3 DEF EntryCore, EntryFields
<1> QED BY <1>1, <1>4

\* A view that says all of n but that its dispute is over.
Undecided(v, c, n) ==
  /\ n.state = "Resolved"
  /\ Framed(view, v, c) /\ DOMAIN v.challenges = DOMAIN view.challenges
  /\ BooksTold(v, c, n.posted, n.held)
  /\ EntryCore(n, v.challenges[c])
  /\ n.disputant # Nobody =>
       /\ "dispute" \in DOMAIN v.challenges[c]
       /\ v.challenges[c].dispute = [disputant |-> n.disputant, resolved |-> FALSE]

LEMMA DecisionTold ==
  ASSUME ViewInv, NEW c \in ChallengeIds, c < nextChallengeId,
         NEW v, NEW n, Undecided(v, c, n),
         NEW e, e = [type |-> "ChallengeDisputeResolved", challengeId |-> c],
         NEW w, w = R!Effect(v, e)
  PROVE  Following(w, c, n)
<1>1. /\ Framed(view, v, c) /\ DOMAIN v.challenges = DOMAIN view.challenges
      /\ BooksTold(v, c, n.posted, n.held) /\ EntryCore(n, v.challenges[c])
  BY DEF Undecided
<1>2. c \in DOMAIN view.challenges /\ c \in DOMAIN v.challenges
  BY <1>1, OneTold
<1>3. e.type = "ChallengeDisputeResolved" /\ e.challengeId = c
  OBVIOUS
<1>4. CASE "dispute" \notin DOMAIN v.challenges[c]
  <2>1. w = v
    BY <1>3, <1>4, NoDisputeEffect
  <2>2. n.disputant = Nobody
    BY <1>4 DEF Undecided
  <2> QED BY <1>1, <2>1, <2>2 DEF Following, EntryTold
<1>5. CASE "dispute" \in DOMAIN v.challenges[c]
  <2>1. PICK fields :
          fields = [dispute |-> [v.challenges[c].dispute EXCEPT !.resolved = TRUE]]
    OBVIOUS
  <2>2. w = R!Update(v, "challenges", c, fields)
    BY <1>2, <1>3, <1>5, <2>1, DisputeResolvedEffect
  <2>3. /\ Framed(view, w, c) /\ DOMAIN w.challenges = DOMAIN view.challenges
        /\ BooksTold(w, c, n.posted, n.held)
        /\ w.challenges[c] = R!Merged(v.challenges[c], fields)
    BY <1>1, <1>2, <2>2, UpdateFollows
  <2>4. DOMAIN fields = {"dispute"}
    BY <2>1
  <2>5. EntryCore(n, w.challenges[c])
    <3>1. DOMAIN fields \cap (EntryFields \cup {"resolutionProposal"}) = {}
      BY <2>4 DEF EntryFields
    <3> QED BY <1>1, <2>3, <3>1, CoreKept
  <2>6. /\ "dispute" \in DOMAIN w.challenges[c]
        /\ w.challenges[c].dispute = fields.dispute
    BY <2>3, <2>4 DEF R!Merged
  <2>7. n.disputant # Nobody =>
          fields.dispute = [disputant |-> n.disputant, resolved |-> n.state = "Resolved"]
    <3>1. n.state = "Resolved"
      BY DEF Undecided
    <3>2. n.disputant # Nobody =>
            v.challenges[c].dispute = [disputant |-> n.disputant, resolved |-> FALSE]
      BY DEF Undecided
    <3>3. fields.dispute = [v.challenges[c].dispute EXCEPT !.resolved = TRUE]
      BY <2>1
    <3>4. ASSUME n.disputant # Nobody
          PROVE  fields.dispute = [disputant |-> n.disputant, resolved |-> TRUE]
      <4>1. PICK r : r = v.challenges[c].dispute
        OBVIOUS
      <4>2. r = [disputant |-> n.disputant, resolved |-> FALSE]
        BY <3>2, <3>4, <4>1
      <4>3. fields.dispute = [r EXCEPT !.resolved = TRUE]
        BY <3>3, <4>1
      <4> QED BY <4>2, <4>3
    <3>5. (n.state = "Resolved") = TRUE
      BY <3>1
    <3>6. [disputant |-> n.disputant, resolved |-> n.state = "Resolved"]
            = [disputant |-> n.disputant, resolved |-> TRUE]
      BY <3>5, Zenon
    <3> QED BY <3>4, <3>6
  <2>8. EntryTold(n, w.challenges[c])
    BY <2>5, <2>6, <2>7 DEF EntryTold
  <2> QED BY <2>3, <2>8 DEF Following
<1> QED BY <1>4, <1>5

\* What comes after the resolution in resolveDispute.
LEMMA DisputeEnds ==
  ASSUME ViewInv, NEW c \in ChallengeIds, NEW slash \in BOOLEAN, NEW x, NEW held,
         ViewFields \subseteq DOMAIN x,
         BooksTold(x, c, challenge[c].posted, held),
         held \in [Lot -> Nat], held["disputeBond"] = challenge[c].held["disputeBond"],
         NEW h, h = [held EXCEPT !["disputeBond"] = 0],
         NEW y, y = R!Effects(x, DisputeBondEvent(c, slash))
  PROVE  /\ Framed(x, y, c) /\ y.challenges = x.challenges
         /\ BooksTold(y, c, challenge[c].posted, h)
         /\ IsEvents(DisputeBondEvent(c, slash))
<1>1. PICK p \in BOOLEAN : p = (challenge[c].held["disputeBond"] # 0)
  OBVIOUS
<1>2. PICK e : e = BondEvent(BondEnd(slash), EntityOf("disputeBond"), c,
                             held["disputeBond"])
  OBVIOUS
<1>3. DisputeBondEvent(c, slash) = When(p, e)
  BY <1>1, <1>2 DEF DisputeBondEvent, EntityOf
<1>4. Ends("disputeBond", p, held, h)
  BY <1>1 DEF Ends, Lot
<1>5. p => held["disputeBond"] # 0 /\ challenge[c].posted["disputeBond"] # 0
  BY <1>1, OneTold DEF Deposits, Lot
<1>6. "disputeBond" \in BondLots
  BY DEF BondLots
<1> QED BY <1>2, <1>3, <1>4, <1>5, <1>6, LotEnds

LEMMA ResolveDisputeTold ==
  ASSUME ViewInv, ChallengeInv', NEW c \in ChallengeIds, NEW succeeded \in BOOLEAN,
         ResolveDispute(c, succeeded), Emits(DisputeResolutionEvents(c, succeeded))
  PROVE  ViewInv'
<1>1. PICK k : k = challenge[c]
  OBVIOUS
<1>2. PICK sc \in BOOLEAN : sc = FALSE
  OBVIOUS
<1>3. PICK se \in BOOLEAN : se = ~succeeded
  OBVIOUS
<1>4. PICK endorsers : endorsers = {"arbiter"}
  OBVIOUS
<1>5. PICK m : m = Resolved(k, succeeded, sc, se, endorsers)
  OBVIOUS
<1>6. PICK n : n = [m EXCEPT !.held["disputeBond"] = 0]
  OBVIOUS
<1>7. /\ k.state = "Disputed" /\ challenge' = [challenge EXCEPT ![c] = n]
      /\ UNCHANGED nextChallengeId
  BY <1>1, <1>2, <1>3, <1>4, <1>5, <1>6 DEF ResolveDispute, context
<1>8. /\ c < nextChallengeId /\ k \in Challenge /\ TypeOK
      /\ EntryTold(k, view.challenges[c])
  BY <1>1, <1>7, OneTold, ChallengeAssumption DEF Stage, ChallengeAssumption
<1>9. m \in Challenge
  <2>1. endorsers \in SUBSET (Users \cup {"arbiter"})
    BY <1>4
  <2> QED BY <1>5, <1>8, <2>1, ResolvedFields
<1>10. PICK x : x = R!Effects(view, ResolutionEvents(c, succeeded, sc, se))
  OBVIOUS
<1>11. Resolves(view, x, c, k, m) /\ IsEvents(ResolutionEvents(c, succeeded, sc, se))
  <2>1. endorsers \in SUBSET (Users \cup {"arbiter"})
    BY <1>4
  <2>2. Following(view, c, challenge[c])
    BY FollowingAtFirst
  <2> QED BY <1>1, <1>5, <1>8, <1>10, <2>1, <2>2, ResolutionTells
<1>12. PICK slash \in BOOLEAN : slash = (succeeded = challenge[c].proposed)
  OBVIOUS
<1>13. PICK y : y = R!Effects(x, DisputeBondEvent(c, slash))
  OBVIOUS
<1>14. /\ Framed(x, y, c) /\ y.challenges = x.challenges
       /\ BooksTold(y, c, k.posted, n.held)
       /\ IsEvents(DisputeBondEvent(c, slash))
  <2>1. PICK held : held = m.held
    OBVIOUS
  <2>2. PICK h : h = n.held
    OBVIOUS
  <2>3. /\ ViewFields \subseteq DOMAIN x /\ BooksTold(x, c, k.posted, held)
        /\ held \in [Lot -> Nat] /\ held["disputeBond"] = k.held["disputeBond"]
    BY <1>11, <2>1 DEF Resolves, Framed, SameTerms
  <2>4. h = [held EXCEPT !["disputeBond"] = 0]
    BY <1>6, <1>9, <2>1, <2>2 DEF Challenge
  <2>5. BooksTold(x, c, challenge[c].posted, held)
        /\ held["disputeBond"] = challenge[c].held["disputeBond"]
    BY <1>1, <2>3
  <2>6. /\ Framed(x, y, c) /\ y.challenges = x.challenges
        /\ BooksTold(y, c, challenge[c].posted, h)
        /\ IsEvents(DisputeBondEvent(c, slash))
    BY <1>13, <2>3, <2>4, <2>5, DisputeEnds
  <2> QED BY <1>1, <2>2, <2>6
<1>15. PICK e : e = [type |-> "ChallengeDisputeResolved", challengeId |-> c]
  OBVIOUS
<1>16. view' = R!Effect(y, e)
  <2>1. PICK s : s = ResolutionEvents(c, succeeded, sc, se)
    OBVIOUS
  <2>2. PICK t : t = DisputeBondEvent(c, slash)
    OBVIOUS
  <2>3. view' = R!Effects(view, (s \o t) \o <<e>>)
    BY <1>2, <1>3, <1>12, <1>15, <2>1, <2>2 DEF Emits, DisputeResolutionEvents
  <2>4. IsEvents(s) /\ IsEvents(t) /\ IsEvents(<<e>>)
    BY <1>11, <1>14, <2>1, <2>2, FewAreEvents
  <2>5. IsEvents(s \o t) /\ R!Effects(view, s \o t) = y
    BY <1>10, <1>13, <2>1, <2>2, <2>4, InTurn
  <2>6. R!Effects(view, (s \o t) \o <<e>>) = R!Effects(y, <<e>>)
    BY <2>4, <2>5, InTurn
  <2> QED BY <2>3, <2>6, EffectsOfFew
<1>17. SameTerms(k, n) /\ n.state = "Resolved" /\ n.posted = k.posted
  BY <1>6, <1>9, <1>11 DEF Resolves, SameTerms, Challenge
<1>18. Undecided(y, c, n)
  <2>1. Framed(view, y, c) /\ DOMAIN y.challenges = DOMAIN view.challenges
    BY <1>11, <1>14, FramedTwice DEF Resolves
  <2>2. EntryCore(n, y.challenges[c])
    <3>1. EntryCore(m, y.challenges[c])
      BY <1>11, <1>14 DEF Resolves
    <3>2. SameTerms(m, n) /\ m.state = "Resolved" /\ n.state = "Resolved"
      BY <1>11, <1>17 DEF SameTerms, Resolves
    <3> QED BY <3>1, <3>2 DEF EntryCore, SameTerms, performerOf, sponsorOf, Settled
  <2>3. n.disputant # Nobody =>
          /\ "dispute" \in DOMAIN y.challenges[c]
          /\ y.challenges[c].dispute = [disputant |-> n.disputant, resolved |-> FALSE]
    BY <1>7, <1>8, <1>11, <1>14, <1>17 DEF EntryTold, Resolves, SameTerms
  <2> QED BY <1>14, <1>17, <2>1, <2>2, <2>3 DEF Undecided
<1>19. Following(view', c, n)
  <2>1. PICK w : w = view'
    OBVIOUS
  <2>2. w = R!Effect(y, e)
    BY <1>16, <2>1
  <2>3. Following(w, c, n)
    BY <1>8, <1>15, <1>18, <2>2, DecisionTold
  <2> QED BY <2>1, <2>3
<1>20. Ready(n)
  <2>1. n.creator # Nobody /\ n.state \in Settled
    BY <1>1, <1>8, <1>17, OneTold DEF SameTerms, Settled
  <2> QED BY <2>1, SettledIsReady
<1>21. n.creator = challenge[c].creator /\ n.rewardPool = challenge[c].rewardPool
  BY <1>1, <1>17 DEF SameTerms
<1> QED BY <1>7, <1>19, <1>20, <1>21, FollowingStep

LEMMA UnwoundTold ==
  ASSUME ViewInv, ChallengeInv', NEW c \in ChallengeIds, NEW state, NEW type,
         \/ state = "Cancelled" /\ type = "ChallengeCancelled"
         \/ state = "Fraud" /\ type = "ChallengeFraudConfirmed",
         NEW sc \in BOOLEAN, NEW se \in BOOLEAN,
         challenge[c].state \in Unsettled,
         challenge' = [challenge EXCEPT ![c] = Unwound(challenge[c], state, sc, se)],
         UNCHANGED nextChallengeId, Emits(UnwindingEvents(c, type, sc, se))
  PROVE  ViewInv'
<1>1. PICK k : k = challenge[c]
  OBVIOUS
<1>2. PICK n : n = Unwound(k, state, sc, se)
  OBVIOUS
<1>3. TypeOK /\ k \in Challenge /\ Deposits(k) /\ ViewFields \subseteq DOMAIN view
      /\ BooksTold(view, c, k.posted, k.held)
  BY <1>1, OneTold
<1>4. /\ n \in Challenge /\ SameTerms(k, n) /\ n.state = state
      /\ n.held["bond"] = IF k.bondFinalized THEN k.held["bond"] ELSE 0
      /\ n.held["executorBond"] = 0 /\ n.held["disputeBond"] = 0
  <2>1. state \in ChallengeState
    BY DEF ChallengeState
  <2> QED BY <1>2, <1>3, <2>1, UnwoundFields
<1>5. n.held \in [Lot -> Nat] /\ k.held \in [Lot -> Nat] /\ n.posted = k.posted
  BY <1>3, <1>4 DEF Challenge, SameTerms
<1>6. PICK held : held = [n.held EXCEPT !["disputeBond"] = k.held["disputeBond"]]
  OBVIOUS
<1>7. /\ held \in [Lot -> Nat] /\ held["disputeBond"] = k.held["disputeBond"]
      /\ held["bond"] = (IF k.bondFinalized THEN k.held["bond"] ELSE 0)
      /\ held["executorBond"] = 0
      /\ n.held = [held EXCEPT !["disputeBond"] = 0]
  BY <1>4, <1>5, <1>6 DEF Lot
<1>8. PICK x : x = R!Effects(view, BondEvents(c, sc, se))
  OBVIOUS
<1>9. /\ Framed(view, x, c) /\ x.challenges = view.challenges
      /\ BooksTold(x, c, challenge[c].posted, held) /\ IsEvents(BondEvents(c, sc, se))
  BY <1>1, <1>3, <1>7, <1>8, BondsEnd
<1>10. PICK slash \in BOOLEAN : slash = FALSE
  OBVIOUS
<1>11. PICK y : y = R!Effects(x, DisputeBondEvent(c, slash))
  OBVIOUS
<1>12. PICK h : h = n.held
  OBVIOUS
<1>13. /\ Framed(x, y, c) /\ y.challenges = x.challenges
       /\ BooksTold(y, c, challenge[c].posted, h)
       /\ IsEvents(DisputeBondEvent(c, slash))
  <2>1. /\ ViewFields \subseteq DOMAIN x
        /\ held["disputeBond"] = challenge[c].held["disputeBond"]
        /\ h = [held EXCEPT !["disputeBond"] = 0]
    BY <1>1, <1>7, <1>9, <1>12 DEF Framed
  <2>2. BooksTold(x, c, challenge[c].posted, held) /\ held \in [Lot -> Nat]
    BY <1>7, <1>9
  <2> QED BY <1>11, <2>1, <2>2, DisputeEnds
<1>14. PICK e : e = [type |-> type, challengeId |-> c]
  OBVIOUS
<1>15. view' = R!Effect(y, e)
  <2>1. PICK s : s = BondEvents(c, sc, se)
    OBVIOUS
  <2>2. PICK t : t = DisputeBondEvent(c, slash)
    OBVIOUS
  <2>3. view' = R!Effects(view, (s \o t) \o <<e>>)
    BY <1>10, <1>14, <2>1, <2>2 DEF Emits, UnwindingEvents
  <2>4. IsEvents(s) /\ IsEvents(t) /\ IsEvents(<<e>>)
    BY <1>9, <1>13, <2>1, <2>2, FewAreEvents
  <2>5. IsEvents(s \o t) /\ R!Effects(view, s \o t) = y
    BY <1>8, <1>11, <2>1, <2>2, <2>4, InTurn
  <2>6. R!Effects(view, (s \o t) \o <<e>>) = R!Effects(y, <<e>>)
    BY <2>4, <2>5, InTurn
  <2> QED BY <2>3, <2>6, EffectsOfFew
<1>16. PICK fields : fields = [state |-> state]
  OBVIOUS
<1>17. PICK w : w = view'
  OBVIOUS
<1>18. w = R!Update(y, "challenges", c, fields)
  <2>1. e.type = type /\ e.challengeId = c
    BY <1>14
  <2>2. CASE state = "Cancelled" /\ type = "ChallengeCancelled"
    <3>1. fields = [state |-> "Cancelled"] /\ e.type = "ChallengeCancelled"
      BY <1>16, <2>1, <2>2
    <3> QED BY <1>15, <1>17, <2>1, <3>1, CancelledEffect
  <2>3. CASE state = "Fraud" /\ type = "ChallengeFraudConfirmed"
    <3>1. fields = [state |-> "Fraud"] /\ e.type = "ChallengeFraudConfirmed"
      BY <1>16, <2>1, <2>3
    <3> QED BY <1>15, <1>17, <2>1, <3>1, FraudEffect
  <2> QED BY <2>2, <2>3
<1>19. /\ Framed(view, w, c) /\ DOMAIN w.challenges = DOMAIN view.challenges
       /\ BooksTold(w, c, n.posted, n.held)
       /\ c \in DOMAIN view.challenges =>
            w.challenges[c] = R!Merged(view.challenges[c], fields)
  <2>1. /\ Framed(view, y, c) /\ y.challenges = view.challenges
        /\ BooksTold(y, c, n.posted, n.held)
    BY <1>1, <1>5, <1>9, <1>12, <1>13, FramedTwice
  <2>2. PICK posted : posted = n.posted
    OBVIOUS
  <2>3. DOMAIN y.challenges = DOMAIN view.challenges /\ BooksTold(y, c, posted, h)
    BY <1>12, <2>1, <2>2
  <2>4. /\ Framed(view, w, c) /\ DOMAIN w.challenges = DOMAIN view.challenges
        /\ BooksTold(w, c, posted, h)
        /\ c \in DOMAIN view.challenges =>
             w.challenges[c] = R!Merged(y.challenges[c], fields)
    BY <1>18, <2>1, <2>3, UpdateFollows
  <2> QED BY <1>12, <2>1, <2>2, <2>4
<1>20. n.state \in Settled /\ n.state # "Resolved" /\ k.state # "Resolved"
  BY <1>1, <1>4 DEF Settled, Unsettled
<1>21. ASSUME c < nextChallengeId PROVE EntryTold(n, w.challenges[c])
  <2>1. EntryTold(k, view.challenges[c]) /\ c \in DOMAIN view.challenges
    BY <1>1, <1>21, OneTold
  <2>2. PICK dto : dto = view.challenges[c]
    OBVIOUS
  <2>3. w.challenges[c] = R!Merged(dto, fields)
    BY <1>19, <2>1, <2>2
  <2>4. /\ "state" \in DOMAIN fields /\ fields.state = n.state
        /\ DOMAIN fields \cap (EntryFields \cup {"resolutionProposal", "dispute"})
             = {"state"}
    BY <1>4, <1>16 DEF EntryFields
  <2>5. EntryCore(k, dto)
    BY <2>1, <2>2 DEF EntryTold
  <2>6. /\ EntryCore(n, w.challenges[c])
        /\ "dispute" \in DOMAIN dto =>
             /\ "dispute" \in DOMAIN w.challenges[c]
             /\ w.challenges[c].dispute = dto.dispute
    BY <1>4, <1>20, <2>3, <2>4, <2>5, SettlementTold
  <2>7. n.disputant = k.disputant
    BY <1>4 DEF SameTerms
  <2>8. (k.state = "Resolved") = (n.state = "Resolved")
    BY <1>20
  <2> QED BY <2>1, <2>2, <2>6, <2>7, <2>8 DEF EntryTold
<1>22. Following(view', c, n)
  BY <1>17, <1>19, <1>21 DEF Following
<1>23. Ready(n)
  <2>1. n.creator = k.creator /\ n.proposer = k.proposer
    BY <1>4 DEF SameTerms
  <2>2. k.creator = Nobody => n.closedEarly
    <3>1. PICK b : b = BondsClosed(k, sc, se)
      OBVIOUS
    <3>2. DOMAIN b = DOMAIN k
      BY <3>1 DEF BondsClosed
    <3>3. "closedEarly" \in DOMAIN b
      BY <1>3, <3>2 DEF Challenge
    <3> QED BY <1>2, <3>1, <3>3 DEF Unwound
  <2>3. k.creator = Nobody => k.proposer = Nobody
    BY <1>1, OneTold DEF Ready
  <2> QED BY <1>20, <2>1, <2>2, <2>3, SettledIsReady
<1>24. n.creator = challenge[c].creator /\ n.rewardPool = challenge[c].rewardPool
  BY <1>1, <1>4 DEF SameTerms
<1>25. challenge' = [challenge EXCEPT ![c] = n]
  BY <1>1, <1>2
<1> QED BY <1>22, <1>23, <1>24, <1>25, FollowingStep

LEMMA CancelTold ==
  ASSUME ViewInv, ChallengeInv', NEW c \in ChallengeIds, CancelChallenge(c),
         Emits(UnwindingEvents(c, "ChallengeCancelled", FALSE, FALSE))
  PROVE  ViewInv'
<1>1. PICK sc \in BOOLEAN : sc = FALSE
  OBVIOUS
<1>2. PICK state : state = "Cancelled"
  OBVIOUS
<1>3. PICK type : type = "ChallengeCancelled"
  OBVIOUS
<1>4. /\ challenge[c].state \in Unsettled /\ UNCHANGED nextChallengeId
      /\ challenge' = [challenge EXCEPT ![c] = Unwound(challenge[c], state, sc, sc)]
      /\ Emits(UnwindingEvents(c, type, sc, sc))
  BY <1>1, <1>2, <1>3 DEF CancelChallenge, context
<1> QED BY <1>2, <1>3, <1>4, UnwoundTold

LEMMA FraudTold ==
  ASSUME ViewInv, ChallengeInv', NEW c \in ChallengeIds, NEW offender,
         ConfirmFraud(c, offender),
         Emits(UnwindingEvents(c, "ChallengeFraudConfirmed",
                               offender = challenge[c].creator,
                               offender = challenge[c].executor))
  PROVE  ViewInv'
<1>1. PICK sc \in BOOLEAN : sc = (offender = challenge[c].creator)
  OBVIOUS
<1>2. PICK se \in BOOLEAN : se = (offender = challenge[c].executor)
  OBVIOUS
<1>3. PICK state : state = "Fraud"
  OBVIOUS
<1>4. PICK type : type = "ChallengeFraudConfirmed"
  OBVIOUS
<1>5. /\ challenge[c].state \in Unsettled /\ UNCHANGED nextChallengeId
      /\ challenge' = [challenge EXCEPT ![c] = Unwound(challenge[c], state, sc, se)]
      /\ Emits(UnwindingEvents(c, type, sc, se))
  BY <1>1, <1>2, <1>3, <1>4 DEF ConfirmFraud, context
<1> QED BY <1>3, <1>4, <1>5, UnwoundTold

-----------------------------------------------------------------------------
\* Bonds that a governor or an arbiter takes.

LEMMA SameEntry ==
  ASSUME NEW k, NEW n, NEW dto, EntryTold(k, dto), SameTerms(k, n),
         n.state = k.state, n.held["reward"] = k.held["reward"]
  PROVE  EntryTold(n, dto)
<1>1. performerOf(n) = performerOf(k) /\ sponsorOf(n) = sponsorOf(k)
  BY DEF SameTerms, performerOf, sponsorOf
<1>2. EntryCore(n, dto)
  BY <1>1 DEF EntryTold, EntryCore, SameTerms
<1>3. n.disputant = k.disputant /\ n.state = k.state
  BY DEF SameTerms
<1> QED BY <1>2, <1>3 DEF EntryTold

LEMMA BondTaken ==
  ASSUME ViewInv, ChallengeInv', NEW c \in ChallengeIds, NEW slash \in BOOLEAN,
         NEW k, k = challenge[c], k.held["bond"] # 0,
         NEW n, challenge' = [challenge EXCEPT ![c] = n], UNCHANGED nextChallengeId,
         n.held = [k.held EXCEPT !["bond"] = 0], SameTerms(k, n),
         n.state = k.state, n.evidence = k.evidence,
         n.rewardFinalized = k.rewardFinalized, n.closedEarly = k.closedEarly,
         Emits(<<BondEvent(BondEnd(slash), "Challenge", c, k.held["bond"])>>)
  PROVE  ViewInv'
<1>1. /\ k \in Challenge /\ Deposits(k) /\ Ready(k) /\ ViewFields \subseteq DOMAIN view
      /\ BooksTold(view, c, k.posted, k.held)
  BY OneTold
<1>2. k.held \in [Lot -> Nat]
  BY <1>1 DEF Challenge
<1>3. PICK p \in BOOLEAN : p = TRUE
  OBVIOUS
<1>4. PICK e : e = BondEvent(BondEnd(slash), EntityOf("bond"), c, k.held["bond"])
  OBVIOUS
<1>5. PICK w : w = view'
  OBVIOUS
<1>6. w = R!Effects(view, When(p, e))
  BY <1>3, <1>4, <1>5 DEF Emits, When, EntityOf
<1>7. Ends("bond", p, k.held, n.held)
  BY <1>2, <1>3 DEF Ends, Lot
<1>8. /\ Framed(view, w, c) /\ w.challenges = view.challenges
      /\ BooksTold(w, c, k.posted, n.held)
  <2>1. PICK h : h = n.held
    OBVIOUS
  <2>2. Ends("bond", p, k.held, h)
    BY <1>7, <2>1
  <2>3. p => k.held["bond"] # 0 /\ k.posted["bond"] # 0
    BY <1>1 DEF Deposits, Lot
  <2>4. "bond" \in BondLots
    BY DEF BondLots
  <2>5. /\ Framed(view, w, c) /\ w.challenges = view.challenges
        /\ BooksTold(w, c, k.posted, h)
    BY <1>1, <1>4, <1>6, <2>2, <2>3, <2>4, LotEnds
  <2> QED BY <2>1, <2>5
<1>9. n.held["reward"] = k.held["reward"] /\ n.posted = k.posted
  BY <1>2 DEF Lot, SameTerms
<1>10. c < nextChallengeId => EntryTold(n, w.challenges[c])
  BY <1>8, <1>9, OneTold, SameEntry
<1>11. Following(view', c, n)
  BY <1>5, <1>8, <1>9, <1>10 DEF Following
<1>12. Ready(n)
  BY <1>1, <1>9 DEF Ready, SameTerms
<1>13. n.creator = challenge[c].creator /\ n.rewardPool = challenge[c].rewardPool
  BY DEF SameTerms
<1> QED BY <1>11, <1>12, <1>13, FollowingStep

LEMMA BondTold ==
  ASSUME ViewInv, ChallengeInv', NEW c \in ChallengeIds, GovernBond(c)
  PROVE  ViewInv'
<1>1. PICK k : k = challenge[c]
  OBVIOUS
<1>2. k \in Challenge
  BY <1>1, OneTold
<1>3. CASE ReleaseBond(c) /\ Emits(<<BondEvent("BondReleased", "Challenge", c,
                                               challenge[c].held["bond"])>>)
  <2>1. PICK n : n = [k EXCEPT !.bondFinalized = TRUE, !.held["bond"] = 0]
    OBVIOUS
  <2>2. PICK slash \in BOOLEAN : slash = FALSE
    OBVIOUS
  <2>3. /\ k.held["bond"] # 0 /\ challenge' = [challenge EXCEPT ![c] = n]
        /\ UNCHANGED nextChallengeId
    BY <1>1, <1>3, <2>1 DEF ReleaseBond, context
  <2>4. Emits(<<BondEvent(BondEnd(slash), "Challenge", c, k.held["bond"])>>)
    BY <1>1, <1>3, <2>2 DEF BondEnd
  <2>5. /\ n.held = [k.held EXCEPT !["bond"] = 0] /\ SameTerms(k, n)
        /\ n.state = k.state /\ n.evidence = k.evidence
        /\ n.rewardFinalized = k.rewardFinalized /\ n.closedEarly = k.closedEarly
    BY <1>2, <2>1 DEF Challenge, SameTerms
  <2> QED BY <1>1, <2>3, <2>4, <2>5, BondTaken
<1>4. CASE SlashBond(c) /\ Emits(<<BondEvent("BondSlashed", "Challenge", c,
                                             challenge[c].held["bond"])>>)
  <2>1. PICK n : n = [k EXCEPT !.bondFinalized = TRUE, !.held["bond"] = 0,
                               !.slashed = @ + k.held["bond"]]
    OBVIOUS
  <2>2. PICK slash \in BOOLEAN : slash = TRUE
    OBVIOUS
  <2>3. /\ k.held["bond"] # 0 /\ challenge' = [challenge EXCEPT ![c] = n]
        /\ UNCHANGED nextChallengeId
    BY <1>1, <1>4, <2>1 DEF SlashBond, context
  <2>4. Emits(<<BondEvent(BondEnd(slash), "Challenge", c, k.held["bond"])>>)
    BY <1>1, <1>4, <2>2 DEF BondEnd
  <2>5. /\ n.held = [k.held EXCEPT !["bond"] = 0] /\ SameTerms(k, n)
        /\ n.state = k.state /\ n.evidence = k.evidence
        /\ n.rewardFinalized = k.rewardFinalized /\ n.closedEarly = k.closedEarly
    BY <1>2, <2>1 DEF Challenge, SameTerms
  <2> QED BY <1>1, <2>3, <2>4, <2>5, BondTaken
<1> QED BY <1>3, <1>4 DEF GovernBond

-----------------------------------------------------------------------------
\* Evidence, proposals and disputes.

\* The entry alone changes, and says what n is.
LEMMA EntryStep ==
  ASSUME ViewInv, ChallengeInv', NEW c \in ChallengeIds, c < nextChallengeId,
         NEW v, Framed(view, v, c), DOMAIN v.challenges = DOMAIN view.challenges,
         NEW n, BooksTold(v, c, n.posted, n.held),
         NEW fields, view' = R!Update(v, "challenges", c, fields),
         challenge' = [challenge EXCEPT ![c] = n], UNCHANGED nextChallengeId,
         Ready(n),
         n.creator = challenge[c].creator, n.rewardPool = challenge[c].rewardPool,
         EntryTold(n, R!Merged(v.challenges[c], fields))
  PROVE  ViewInv'
<1>1. PICK w : w = view'
  OBVIOUS
<1>2. PICK posted : posted = n.posted
  OBVIOUS
<1>3. PICK held : held = n.held
  OBVIOUS
<1>4. c \in DOMAIN view.challenges
  BY OneTold
<1>5. /\ Framed(view, w, c) /\ DOMAIN w.challenges = DOMAIN view.challenges
      /\ BooksTold(w, c, posted, held)
      /\ w.challenges[c] = R!Merged(v.challenges[c], fields)
  BY <1>1, <1>2, <1>3, <1>4, UpdateFollows
<1>6. Following(view', c, n)
  BY <1>1, <1>2, <1>3, <1>5 DEF Following
<1> QED BY <1>6, FollowingStep

LEMMA EvidenceTold ==
  ASSUME ViewInv, ChallengeInv', NEW c \in ChallengeIds, NEW u \in Users,
         SubmitEvidence(u, c),
         Emits(<<[type |-> "ChallengeEvidenceSubmitted", challengeId |-> c,
                  executor |-> u]>>)
  PROVE  ViewInv'
<1>1. PICK k : k = challenge[c]
  OBVIOUS
<1>2. PICK n : n = [k EXCEPT !.evidence = TRUE, !.state = "EvidenceSubmitted"]
  OBVIOUS
<1>3. /\ k.state = "Accepted" /\ u = performerOf(k) /\ UNCHANGED nextChallengeId
      /\ challenge' = [challenge EXCEPT ![c] = n]
  BY <1>1, <1>2 DEF SubmitEvidence, context
<1>4. /\ k \in Challenge /\ c < nextChallengeId /\ EntryTold(k, view.challenges[c])
      /\ k.disputant = Nobody /\ c \in DOMAIN view.challenges /\ Ready(k)
      /\ ViewFields \subseteq DOMAIN view /\ BooksTold(view, c, k.posted, k.held)
  BY <1>1, <1>3, OneTold, ChallengeAssumption DEF Stage, ChallengeAssumption
<1>5. /\ SameTerms(k, n) /\ n.held = k.held /\ n.posted = k.posted
      /\ n.state = "EvidenceSubmitted" /\ n.evidence = TRUE
      /\ n.rewardFinalized = k.rewardFinalized /\ n.closedEarly = k.closedEarly
  BY <1>2, <1>4 DEF Challenge, SameTerms
<1>6. PICK e : e = [type |-> "ChallengeEvidenceSubmitted", challengeId |-> c,
                    executor |-> u]
  OBVIOUS
<1>7. PICK fields : fields = R!WithEvidence(view.challenges[c], e)
  OBVIOUS
<1>8. view' = R!Update(view, "challenges", c, fields)
  <2>1. view' = R!Effect(view, e)
    BY <1>6, EffectsOfFew DEF Emits
  <2>2. e.type = "ChallengeEvidenceSubmitted" /\ e.challengeId = c
    BY <1>6
  <2> QED BY <1>4, <1>7, <2>1, <2>2, EvidenceEffect
<1>9. PICK dto : dto = view.challenges[c]
  OBVIOUS
<1>10. EntryTold(n, R!Merged(dto, fields))
  <2>1. PICK d : d = R!Merged(dto, fields)
    OBVIOUS
  <2>2. fields = IF k.offer THEN [performer |-> u, state |-> "EvidenceSubmitted"]
                 ELSE [performer |-> u, executor |-> u, state |-> "EvidenceSubmitted"]
    BY <1>4, <1>6, <1>7, <1>9 DEF R!WithEvidence, EntryTold, EntryCore
  <2>3. /\ EntryFields \subseteq DOMAIN d
        /\ d["state"] = "EvidenceSubmitted" /\ d["performer"] = u
        /\ d["executor"] = IF k.offer THEN dto["executor"] ELSE u
        /\ \A x \in (EntryFields \cup {"resolutionProposal"})
                   \ {"state", "performer", "executor"} :
             x \in DOMAIN dto => x \in DOMAIN d /\ d[x] = dto[x]
    <3>1. /\ DOMAIN d = DOMAIN dto \cup DOMAIN fields
          /\ \A x \in DOMAIN fields : d[x] = fields[x]
          /\ \A x \in DOMAIN dto \ DOMAIN fields : d[x] = dto[x]
      BY <2>1 DEF R!Merged
    <3>2. EntryFields \subseteq DOMAIN dto
      BY <1>4, <1>9 DEF EntryTold, EntryCore
    <3>3. CASE k.offer
      <4>1. /\ DOMAIN fields = {"performer", "state"} /\ fields["performer"] = u
            /\ fields["state"] = "EvidenceSubmitted"
        BY <2>2, <3>3
      <4> QED BY <3>1, <3>2, <3>3, <4>1 DEF EntryFields
    <3>4. CASE ~k.offer
      <4>1. /\ DOMAIN fields = {"performer", "executor", "state"}
            /\ fields["performer"] = u /\ fields["executor"] = u
            /\ fields["state"] = "EvidenceSubmitted"
        BY <2>2, <3>4
      <4> QED BY <3>1, <3>2, <3>4, <4>1 DEF EntryFields
    <3> QED BY <3>3, <3>4
  <2>4. \A x \in EntryFields \ {"state", "performer", "executor"} : d[x] = dto[x]
    BY <1>4, <1>9, <2>3 DEF EntryTold, EntryCore
  <2>5. performerOf(n) = u /\ performerOf(k) = u /\ sponsorOf(n) = sponsorOf(k)
        /\ n.executor = k.executor /\ (~k.offer => k.executor = u)
    BY <1>3, <1>5 DEF SameTerms, performerOf, sponsorOf
  <2>6. n.state \notin Settled /\ k.state \notin Settled
    BY <1>3, <1>5 DEF Settled
  <2>7. EntryCore(n, d)
    BY <1>4, <1>5, <1>9, <2>3, <2>4, <2>5, <2>6
       DEF EntryTold, EntryCore, EntryFields, SameTerms
  <2> QED BY <1>4, <1>5, <2>1, <2>7 DEF EntryTold, SameTerms
<1>11. Ready(n)
  BY <1>3, <1>4, <1>5 DEF Ready, SameTerms, Unsettled
<1>12. /\ n.creator = challenge[c].creator /\ n.rewardPool = challenge[c].rewardPool
       /\ BooksTold(view, c, n.posted, n.held) /\ Framed(view, view, c)
  BY <1>1, <1>4, <1>5 DEF SameTerms, Framed
<1> QED BY <1>3, <1>4, <1>8, <1>9, <1>10, <1>11, <1>12, EntryStep

LEMMA ProposeTold ==
  ASSUME ViewInv, ChallengeInv', NEW c \in ChallengeIds, NEW u \in Users,
         NEW succeeded \in BOOLEAN, NEW withEvidence \in BOOLEAN,
         ProposeResolution(u, c, succeeded, withEvidence),
         Emits(<<ProposalEvent(u, c, succeeded)>>)
  PROVE  ViewInv'
<1>1. PICK k : k = challenge[c]
  OBVIOUS
<1>2. PICK until : until = now + resolutionWindowFor(k)
  OBVIOUS
<1>3. PICK n : n = [k EXCEPT !.state = "Review", !.proposer = u, !.proposed = succeeded,
                             !.disputeDeadline = until, !.endorsers = {u}]
  OBVIOUS
<1>4. /\ k.state \in {"Accepted", "EvidenceSubmitted"} /\ UNCHANGED nextChallengeId
      /\ challenge' = [challenge EXCEPT ![c] = n]
  BY <1>1, <1>2, <1>3 DEF ProposeResolution, context
<1>5. /\ k \in Challenge /\ c < nextChallengeId /\ EntryTold(k, view.challenges[c])
      /\ k.disputant = Nobody /\ c \in DOMAIN view.challenges /\ Ready(k)
      /\ ViewFields \subseteq DOMAIN view /\ BooksTold(view, c, k.posted, k.held)
      /\ TypeOK
  BY <1>1, <1>4, OneTold, ChallengeAssumption DEF Stage, ChallengeAssumption
<1>6. /\ n.creator = k.creator /\ n.executor = k.executor /\ n.offer = k.offer
      /\ n.rewardPool = k.rewardPool /\ n.disputant = k.disputant
      /\ n.deadline = k.deadline /\ n.proposer = u /\ n.proposed = succeeded
      /\ n.disputeDeadline = until /\ n.state = "Review"
      /\ n.held = k.held /\ n.posted = k.posted
      /\ n.rewardFinalized = k.rewardFinalized /\ n.closedEarly = k.closedEarly
  BY <1>3, <1>5 DEF Challenge
<1>7. challenge'[c] = n
  BY <1>4, <1>5 DEF TypeOK
<1>8. PICK e : e = ProposalEvent(u, c, succeeded)
  OBVIOUS
<1>9. PICK fields :
        fields = [state |-> "Review",
                  resolutionProposal |->
                    [proposer |-> e.proposer, executorSucceeded |-> e.executorSucceeded,
                     disputeDeadline |-> e.disputeDeadline]]
  OBVIOUS
<1>10. /\ e.type = "ChallengeResolutionProposed" /\ e.challengeId = c
       /\ e.proposer = u /\ e.executorSucceeded = succeeded
       /\ e.disputeDeadline = until
  BY <1>6, <1>7, <1>8 DEF ProposalEvent
<1>11. view' = R!Update(view, "challenges", c, fields)
  <2>1. view' = R!Effect(view, e)
    BY <1>8, EffectsOfFew DEF Emits
  <2> QED BY <1>9, <1>10, <2>1, ProposedEffect
<1>12. PICK dto : dto = view.challenges[c]
  OBVIOUS
<1>13. EntryTold(n, R!Merged(dto, fields))
  <2>1. PICK d : d = R!Merged(dto, fields)
    OBVIOUS
  <2>2. /\ DOMAIN fields = {"state", "resolutionProposal"} /\ fields["state"] = "Review"
        /\ fields["resolutionProposal"] = [proposer |-> n.proposer,
             executorSucceeded |-> n.proposed, disputeDeadline |-> n.disputeDeadline]
    BY <1>6, <1>9, <1>10
  <2>3. /\ EntryFields \subseteq DOMAIN d /\ d["state"] = "Review"
        /\ "resolutionProposal" \in DOMAIN d
        /\ d["resolutionProposal"] = fields["resolutionProposal"]
        /\ \A x \in EntryFields \ {"state"} : d[x] = dto[x]
    <3>1. /\ DOMAIN d = DOMAIN dto \cup DOMAIN fields
          /\ \A x \in DOMAIN fields : d[x] = fields[x]
          /\ \A x \in DOMAIN dto \ DOMAIN fields : d[x] = dto[x]
      BY <2>1 DEF R!Merged
    <3>2. EntryFields \subseteq DOMAIN dto
      BY <1>5, <1>12 DEF EntryTold, EntryCore
    <3> QED BY <2>2, <3>1, <3>2 DEF EntryFields
  <2>4. performerOf(n) = performerOf(k) /\ sponsorOf(n) = sponsorOf(k)
    BY <1>6 DEF performerOf, sponsorOf
  <2>5. n.state \notin Settled /\ k.state \notin Settled
    BY <1>4, <1>6 DEF Settled
  <2>6. EntryCore(n, d)
    BY <1>5, <1>6, <1>12, <2>2, <2>3, <2>4, <2>5 DEF EntryTold, EntryCore, EntryFields
  <2> QED BY <1>5, <1>6, <2>1, <2>6 DEF EntryTold
<1>14. Ready(n)
  <2>1. n.creator # Nobody
    BY <1>1, <1>5, <1>6, OneTold
  <2> QED BY <1>4, <1>5, <1>6, <2>1 DEF Ready, Unsettled
<1>15. /\ n.creator = challenge[c].creator /\ n.rewardPool = challenge[c].rewardPool
       /\ BooksTold(view, c, n.posted, n.held) /\ Framed(view, view, c)
  BY <1>1, <1>5, <1>6 DEF Framed
<1> QED BY <1>4, <1>5, <1>11, <1>12, <1>13, <1>14, <1>15, EntryStep

LEMMA DisputeTold ==
  ASSUME ViewInv, ChallengeInv', NEW c \in ChallengeIds, NEW u \in Users,
         DisputeResolution(u, c),
         Emits(<<BondEvent("BondLocked", "ChallengeDispute", c,
                           disputeBondFor(challenge[c])),
                 [type |-> "ChallengeResolutionDisputed", challengeId |-> c,
                  disputant |-> u]>>)
  PROVE  ViewInv'
<1>1. PICK k : k = challenge[c]
  OBVIOUS
<1>2. PICK a : a = disputeBondFor(k)
  OBVIOUS
<1>3. PICK m : m = Deposit(k, "disputeBond", a)
  OBVIOUS
<1>4. PICK n : n = [m EXCEPT !.disputant = u, !.state = "Disputed"]
  OBVIOUS
<1>5. /\ k.state = "Review" /\ UNCHANGED nextChallengeId
      /\ challenge' = [challenge EXCEPT ![c] = n]
  BY <1>1, <1>2, <1>3, <1>4 DEF DisputeResolution, context
<1>6. /\ k \in Challenge /\ c < nextChallengeId /\ EntryTold(k, view.challenges[c])
      /\ k.posted["disputeBond"] = 0 /\ c \in DOMAIN view.challenges /\ Ready(k)
      /\ ViewFields \subseteq DOMAIN view /\ BooksTold(view, c, k.posted, k.held)
  BY <1>1, <1>5, OneTold, ChallengeAssumption DEF Stage, ChallengeAssumption
<1>7. a \in Nat
  BY <1>2, <1>6, DisputeBondType
<1>8. /\ m \in Challenge /\ OnlyLots(k, m)
      /\ m.held = [k.held EXCEPT !["disputeBond"] = a]
      /\ m.posted = [k.posted EXCEPT !["disputeBond"] = a]
  <2>1. "disputeBond" \in Lot
    BY DEF Lot
  <2> QED BY <1>3, <1>6, <1>7, <2>1, DepositFields
<1>9. /\ n.creator = k.creator /\ n.executor = k.executor /\ n.offer = k.offer
      /\ n.rewardPool = k.rewardPool /\ n.disputant = u /\ n.deadline = k.deadline
      /\ n.proposer = k.proposer /\ n.proposed = k.proposed
      /\ n.disputeDeadline = k.disputeDeadline /\ n.state = "Disputed"
      /\ n.held = m.held /\ n.posted = m.posted
      /\ n.rewardFinalized = k.rewardFinalized /\ n.closedEarly = k.closedEarly
  BY <1>4, <1>6, <1>8 DEF Challenge, OnlyLots
<1>10. /\ n.held["disputeBond"] = a /\ n.posted["disputeBond"] = a
       /\ \A l \in Lot \ {"disputeBond"} :
             n.held[l] = k.held[l] /\ n.posted[l] = k.posted[l]
  BY <1>6, <1>8, <1>9 DEF Challenge, Lot
<1>11. PICK x : x = R!Effect(view, BondEvent("BondLocked", EntityOf("disputeBond"), c, a))
  OBVIOUS
<1>12. /\ Framed(view, x, c) /\ x.challenges = view.challenges
       /\ BooksTold(x, c, n.posted, n.held)
  <2>1. PICK posted : posted = n.posted
    OBVIOUS
  <2>2. PICK held : held = n.held
    OBVIOUS
  <2>3. /\ "disputeBond" \in BondLots
        /\ Locks("disputeBond", a, k.posted, k.held, posted, held)
    BY <1>6, <1>10, <2>1, <2>2 DEF BondLots, Lot, Locks
  <2>4. /\ Framed(view, x, c) /\ x.challenges = view.challenges
        /\ BooksTold(x, c, posted, held)
    BY <1>6, <1>7, <1>11, <2>3, LotLocked
  <2> QED BY <2>1, <2>2, <2>4
<1>13. PICK e : e = [type |-> "ChallengeResolutionDisputed", challengeId |-> c,
                     disputant |-> u]
  OBVIOUS
<1>14. PICK fields :
         fields = [state |-> "Disputed",
                   dispute |-> [disputant |-> e.disputant, resolved |-> FALSE]]
  OBVIOUS
<1>15. view' = R!Update(x, "challenges", c, fields)
  <2>1. view' = R!Effect(x, e)
    BY <1>1, <1>2, <1>11, <1>13, EffectsOfTwo DEF Emits, EntityOf
  <2>2. e.type = "ChallengeResolutionDisputed" /\ e.challengeId = c
    BY <1>13
  <2> QED BY <1>14, <2>1, <2>2, DisputedEffect
<1>16. PICK dto : dto = x.challenges[c]
  OBVIOUS
<1>17. EntryTold(n, R!Merged(dto, fields))
  <2>1. PICK d : d = R!Merged(dto, fields)
    OBVIOUS
  <2>2. EntryTold(k, dto)
    BY <1>6, <1>12, <1>16
  <2>3. /\ DOMAIN fields = {"state", "dispute"} /\ fields["state"] = "Disputed"
        /\ fields["dispute"] = [disputant |-> u, resolved |-> FALSE]
    BY <1>13, <1>14
  <2>4. /\ EntryFields \subseteq DOMAIN d /\ d["state"] = "Disputed"
        /\ "dispute" \in DOMAIN d
        /\ d["dispute"] = [disputant |-> u, resolved |-> FALSE]
        /\ \A y \in EntryFields \ {"state"} : d[y] = dto[y]
        /\ "resolutionProposal" \in DOMAIN dto =>
              /\ "resolutionProposal" \in DOMAIN d
              /\ d["resolutionProposal"] = dto["resolutionProposal"]
    <3>1. /\ DOMAIN d = DOMAIN dto \cup DOMAIN fields
          /\ \A y \in DOMAIN fields : d[y] = fields[y]
          /\ \A y \in DOMAIN dto \ DOMAIN fields : d[y] = dto[y]
      BY <2>1 DEF R!Merged
    <3>2. EntryFields \subseteq DOMAIN dto
      BY <2>2 DEF EntryTold, EntryCore
    <3> QED BY <2>3, <3>1, <3>2 DEF EntryFields
  <2>5. performerOf(n) = performerOf(k) /\ sponsorOf(n) = sponsorOf(k)
    BY <1>9 DEF performerOf, sponsorOf
  <2>6. /\ n.state \notin Settled /\ k.state \notin Settled
        /\ n.held["reward"] = k.held["reward"]
    BY <1>5, <1>9, <1>10 DEF Settled, Lot
  <2>7. EntryCore(n, d)
    BY <1>9, <2>2, <2>4, <2>5, <2>6 DEF EntryTold, EntryCore, EntryFields
  <2>8. (n.state = "Resolved") = FALSE
    BY <1>9
  <2>9. d["dispute"] = [disputant |-> n.disputant, resolved |-> n.state = "Resolved"]
    BY <1>9, <2>4, <2>8, Zenon
  <2> QED BY <2>1, <2>4, <2>7, <2>9 DEF EntryTold
<1>18. Ready(n)
  BY <1>5, <1>6, <1>9, <1>10 DEF Ready, Unsettled, Lot
<1>19. /\ n.creator = challenge[c].creator /\ n.rewardPool = challenge[c].rewardPool
       /\ DOMAIN x.challenges = DOMAIN view.challenges
  BY <1>1, <1>9, <1>12
<1> QED BY <1>5, <1>6, <1>12, <1>15, <1>16, <1>17, <1>18, <1>19, EntryStep

-----------------------------------------------------------------------------
\* Acceptance.

\* The entry of a challenge accepted by u: what the events merged into it.
AcceptedEntry(k, dto, d, u) ==
  /\ EntryFields \subseteq DOMAIN d
  /\ "resolutionProposal" \in DOMAIN dto =>
       /\ "resolutionProposal" \in DOMAIN d
       /\ d["resolutionProposal"] = dto["resolutionProposal"]
  /\ d["executor"] = u /\ d["state"] = "Accepted"
  /\ d["sponsor"] = (IF k.offer THEN u ELSE dto["sponsor"])
  /\ d["performer"] = (IF k.offer THEN dto["performer"] ELSE u)
  /\ d["rewardEscrowed"] = (IF k.offer THEN TRUE ELSE dto["rewardEscrowed"])
  /\ \A x \in {"creator", "fundingModel", "deadline"} : d[x] = dto[x]

LEMMA AcceptedEntryTold ==
  ASSUME NEW k, NEW n, NEW dto, NEW d, NEW u, EntryTold(k, dto),
         AcceptedEntry(k, dto, d, u), k.state = "Open", k.disputant = Nobody,
         n.creator = k.creator, n.executor = u, n.offer = k.offer,
         n.disputant = k.disputant, n.deadline = k.deadline,
         n.proposer = k.proposer, n.proposed = k.proposed,
         n.disputeDeadline = k.disputeDeadline, n.state = "Accepted",
         k.offer => n.held["reward"] # 0,
         ~k.offer => n.held["reward"] = k.held["reward"]
  PROVE  EntryTold(n, d)
<1>1. /\ performerOf(n) = d["performer"] /\ sponsorOf(n) = d["sponsor"]
  BY DEF performerOf, sponsorOf, EntryTold, EntryCore, AcceptedEntry
<1>2. d["rewardEscrowed"] = (n.held["reward"] # 0)
  BY DEF EntryTold, EntryCore, AcceptedEntry, Settled
<1>3. EntryCore(n, d)
  BY <1>1, <1>2 DEF EntryTold, EntryCore, EntryFields, AcceptedEntry
<1> QED BY <1>3 DEF EntryTold

LEMMA AcceptedBy ==
  ASSUME NEW k, NEW dto, EntryTold(k, dto), NEW e, NEW u, e.executor = u,
         NEW m, m = (IF k.offer THEN R!Merged(dto, [sponsor |-> u,
                                                    rewardEscrowed |-> TRUE])
                                ELSE dto)
  PROVE  AcceptedEntry(k, dto, R!Merged(m, R!Accepted(m, e)), u)
<1>1. PICK d : d = R!Merged(m, R!Accepted(m, e))
  OBVIOUS
<1>2. PICK f : f = R!Accepted(m, e)
  OBVIOUS
<1>3. EntryFields \subseteq DOMAIN dto
  BY DEF EntryTold, EntryCore
<1>4. /\ DOMAIN d = DOMAIN m \cup DOMAIN f
      /\ \A x \in DOMAIN f : d[x] = f[x]
      /\ \A x \in DOMAIN m \ DOMAIN f : d[x] = m[x]
  BY <1>1, <1>2 DEF R!Merged
<1>5. CASE k.offer
  <2>1. /\ DOMAIN m = DOMAIN dto \cup {"sponsor", "rewardEscrowed"}
        /\ m["rewardEscrowed"] = TRUE
        /\ \A x \in DOMAIN dto \ {"sponsor", "rewardEscrowed"} : m[x] = dto[x]
    BY <1>5 DEF R!Merged
  <2>2. m.fundingModel = "PerformerOffer"
    BY <1>3, <1>5, <2>1 DEF EntryTold, EntryCore, EntryFields
  <2>3. /\ DOMAIN f = {"sponsor", "executor", "state"} /\ f["sponsor"] = u
        /\ f["executor"] = u /\ f["state"] = "Accepted"
    BY <1>2, <2>2 DEF R!Accepted
  <2>4. AcceptedEntry(k, dto, d, u)
    BY <1>3, <1>4, <1>5, <2>1, <2>3 DEF AcceptedEntry, EntryFields
  <2> QED BY <1>1, <2>4
<1>6. CASE ~k.offer
  <2>1. m = dto /\ m.fundingModel # "PerformerOffer"
    BY <1>6 DEF EntryTold, EntryCore
  <2>2. /\ DOMAIN f = {"performer", "executor", "state"} /\ f["performer"] = u
        /\ f["executor"] = u /\ f["state"] = "Accepted"
    BY <1>2, <2>1 DEF R!Accepted
  <2>3. AcceptedEntry(k, dto, d, u)
    BY <1>3, <1>4, <1>6, <2>1, <2>2 DEF AcceptedEntry, EntryFields
  <2> QED BY <1>1, <2>3
<1> QED BY <1>5, <1>6

LEMMA AcceptTold ==
  ASSUME ViewInv, ChallengeInv', NEW c \in ChallengeIds, NEW u \in Users,
         AcceptChallenge(u, c), Emits(AcceptanceEvents(u, c))
  PROVE  ViewInv'
<1>1. PICK k : k = challenge[c]
  OBVIOUS
<1>2. PICK a : a = Acceptance(k)
  OBVIOUS
<1>3. PICK lot : lot = IF k.offer THEN "reward" ELSE "executorBond"
  OBVIOUS
<1>4. PICK m : m = Deposit(k, lot, a)
  OBVIOUS
<1>5. PICK n : n = [m EXCEPT !.executor = u, !.state = "Accepted"]
  OBVIOUS
<1>6. /\ k.state = "Open" /\ k.creator # Nobody /\ UNCHANGED nextChallengeId
      /\ challenge' = [challenge EXCEPT ![c] = n]
  BY <1>1, <1>2, <1>3, <1>4, <1>5 DEF AcceptChallenge, context
<1>7. /\ k \in Challenge /\ c < nextChallengeId /\ EntryTold(k, view.challenges[c])
      /\ k.posted["executorBond"] = 0 /\ k.disputant = Nobody /\ Deposits(k)
      /\ c \in DOMAIN view.challenges /\ Ready(k) /\ k.rewardPool # 0
      /\ ViewFields \subseteq DOMAIN view /\ BooksTold(view, c, k.posted, k.held)
  BY <1>1, <1>6, OneTold DEF Stage
<1>8. /\ k.held \in [Lot -> Nat] /\ k.posted \in [Lot -> Nat] /\ k.offer \in BOOLEAN
      /\ a \in Nat /\ lot \in Lot /\ k.held["executorBond"] = 0
      /\ k.offer => a = k.rewardPool
  BY <1>2, <1>3, <1>7 DEF Challenge, Acceptance, Lot, Deposits
<1>9. /\ m \in Challenge /\ OnlyLots(k, m)
      /\ m.held = [k.held EXCEPT ![lot] = a] /\ m.posted = [k.posted EXCEPT ![lot] = a]
  BY <1>4, <1>7, <1>8, DepositFields
<1>10. /\ n.creator = k.creator /\ n.executor = u /\ n.offer = k.offer
       /\ n.rewardPool = k.rewardPool /\ n.disputant = k.disputant
       /\ n.deadline = k.deadline /\ n.proposer = k.proposer
       /\ n.proposed = k.proposed /\ n.disputeDeadline = k.disputeDeadline
       /\ n.state = "Accepted" /\ n.held = m.held /\ n.posted = m.posted
       /\ n.rewardFinalized = k.rewardFinalized /\ n.closedEarly = k.closedEarly
  BY <1>5, <1>7, <1>9 DEF Challenge, OnlyLots
<1>11. /\ n.held[lot] = a /\ n.posted[lot] = a
       /\ \A l \in Lot \ {lot} : n.held[l] = k.held[l] /\ n.posted[l] = k.posted[l]
  BY <1>8, <1>9, <1>10
<1>12. PICK p \in BOOLEAN : p = (~k.offer /\ a > 0)
  OBVIOUS
<1>13. PICK d : d = BondEvent("BondLocked", EntityOf("executorBond"), c, a)
  OBVIOUS
<1>14. PICK q \in BOOLEAN : q = k.offer
  BY <1>8
<1>15. PICK f : f = [type |-> "ChallengeRewardFunded", challengeId |-> c, sponsor |-> u]
  OBVIOUS
<1>16. PICK e : e = [type |-> "ChallengeAccepted", challengeId |-> c, executor |-> u]
  OBVIOUS
<1>17. PICK x : x = IF p THEN R!Effect(view, d) ELSE view
  OBVIOUS
<1>18. PICK y : y = IF q THEN R!Effect(x, f) ELSE x
  OBVIOUS
<1>19. view' = R!Effect(y, e)
  <2>1. view' = R!Effects(view, (When(p, d) \o When(q, f)) \o <<e>>)
    BY <1>1, <1>2, <1>12, <1>13, <1>14, <1>15, <1>16
       DEF Emits, AcceptanceEvents, EntityOf
  <2>2. PICK s : s = When(p, d)
    OBVIOUS
  <2>3. PICK t : t = When(q, f)
    OBVIOUS
  <2>4. IsEvents(s) /\ IsEvents(t) /\ IsEvents(<<e>>)
    BY <2>2, <2>3, FewAreEvents
  <2>5. R!Effects(view, s) = x /\ R!Effects(x, t) = y
    BY <1>17, <1>18, <2>2, <2>3, EffectsOfWhen
  <2>6. IsEvents(s \o t) /\ R!Effects(view, s \o t) = y
    BY <2>4, <2>5, InTurn
  <2>7. R!Effects(view, (s \o t) \o <<e>>) = R!Effects(y, <<e>>)
    BY <2>4, <2>6, InTurn
  <2> QED BY <2>1, <2>2, <2>3, <2>7, EffectsOfFew
<1>20. PICK posted : posted = n.posted
  OBVIOUS
<1>21. PICK held : held = n.held
  OBVIOUS
<1>22. /\ Framed(view, x, c) /\ x.challenges = view.challenges
       /\ BooksTold(x, c, posted, held)
  <2>1. CASE p
    <3>1. /\ "executorBond" \in BondLots
          /\ Locks("executorBond", a, k.posted, k.held, posted, held)
      BY <1>3, <1>7, <1>11, <1>12, <1>20, <1>21, <2>1 DEF BondLots, Lot, Locks
    <3>2. x = R!Effect(view, BondEvent("BondLocked", EntityOf("executorBond"), c, a))
      BY <1>13, <1>17, <2>1
    <3> QED BY <1>7, <1>8, <3>1, <3>2, LotLocked
  <2>2. CASE ~p
    <3>1. x = view
      BY <1>17, <2>2
    <3>2. \A l \in BondLots : posted[l] = k.posted[l] /\ held[l] = k.held[l]
      <4>1. CASE k.offer
        <5>1. BondLots \subseteq Lot \ {lot}
          BY <1>3, <4>1 DEF BondLots, Lot
        <5> QED BY <1>11, <1>20, <1>21, <5>1
      <4>2. CASE ~k.offer
        <5>1. lot = "executorBond" /\ a = 0
          <6>1. lot = "executorBond"
            BY <1>3, <4>2
          <6>2. ~(a > 0)
            BY <1>12, <2>2, <4>2, Zenon
          <6> QED BY <1>8, <6>1, <6>2
        <5>2. /\ k.held[lot] = 0 /\ k.posted[lot] = 0
              /\ BondLots \subseteq (Lot \ {lot}) \cup {lot}
          BY <1>7, <1>8, <5>1 DEF BondLots, Lot
        <5> QED BY <1>11, <1>20, <1>21, <5>1, <5>2
      <4> QED BY <4>1, <4>2
    <3>3. BooksTold(view, c, posted, held)
      BY <1>7, <3>2, BooksSame
    <3> QED BY <1>7, <3>1, <3>3 DEF Framed
  <2> QED BY <2>1, <2>2
<1>23. PICK dto : dto = view.challenges[c]
  OBVIOUS
<1>24. PICK g : g = [sponsor |-> u, rewardEscrowed |-> TRUE]
  OBVIOUS
<1>25. /\ Framed(view, y, c) /\ DOMAIN y.challenges = DOMAIN view.challenges
       /\ BooksTold(y, c, posted, held)
       /\ y.challenges[c] = IF k.offer THEN R!Merged(dto, g) ELSE dto
  <2>1. CASE q
    <3>1. y = R!Update(x, "challenges", c, g)
      <4>1. /\ f.type = "ChallengeRewardFunded" /\ f.challengeId = c
            /\ g = [sponsor |-> f.sponsor, rewardEscrowed |-> TRUE]
        BY <1>15, <1>24
      <4>2. y = R!Effect(x, f)
        BY <1>18, <2>1
      <4> QED BY <4>1, <4>2, FundedEffect
    <3>2. DOMAIN x.challenges = DOMAIN view.challenges /\ x.challenges[c] = dto
      BY <1>22, <1>23
    <3>3. /\ Framed(view, y, c) /\ DOMAIN y.challenges = DOMAIN view.challenges
          /\ BooksTold(y, c, posted, held)
          /\ y.challenges[c] = R!Merged(x.challenges[c], g)
      BY <1>7, <1>22, <3>1, <3>2, UpdateFollows
    <3> QED BY <1>14, <2>1, <3>2, <3>3
  <2>2. CASE ~q
    BY <1>14, <1>18, <1>22, <1>23, <2>2
  <2> QED BY <2>1, <2>2
<1>26. PICK z : z = y.challenges[c]
  OBVIOUS
<1>27. PICK fields : fields = R!Accepted(z, e)
  OBVIOUS
<1>28. view' = R!Update(y, "challenges", c, fields)
  <2>1. /\ e.type = "ChallengeAccepted" /\ e.challengeId = c
        /\ c \in DOMAIN y.challenges /\ fields = R!Accepted(y.challenges[c], e)
    BY <1>7, <1>16, <1>25, <1>26, <1>27
  <2> QED BY <1>19, <2>1, AcceptedEffect
<1>29. EntryTold(n, R!Merged(z, fields))
  <2>1. PICK b : b = R!Merged(z, fields)
    OBVIOUS
  <2>2. AcceptedEntry(k, dto, b, u)
    <3>1. e.executor = u /\ EntryTold(k, dto)
      BY <1>7, <1>16, <1>23
    <3>2. z = (IF k.offer THEN R!Merged(dto, [sponsor |-> u, rewardEscrowed |-> TRUE])
                          ELSE dto)
      BY <1>24, <1>25, <1>26
    <3> QED BY <1>27, <2>1, <3>1, <3>2, AcceptedBy
  <2>3. /\ k.offer => n.held["reward"] # 0
        /\ ~k.offer => n.held["reward"] = k.held["reward"]
    BY <1>3, <1>7, <1>8, <1>11 DEF Lot
  <2>4. EntryTold(k, dto)
    BY <1>7, <1>23
  <2> QED BY <1>6, <1>7, <1>10, <2>1, <2>2, <2>3, <2>4, AcceptedEntryTold
<1>30. Ready(n)
  <2>1. n.held["reward"] # 0
    BY <1>3, <1>6, <1>7, <1>8, <1>11 DEF Lot, Ready, Unsettled
  <2>2. ~k.closedEarly => ~k.rewardFinalized
    BY <1>6, <1>7 DEF Ready, Unsettled
  <2> QED BY <1>6, <1>10, <2>1, <2>2 DEF Ready
<1>31. /\ n.creator = challenge[c].creator /\ n.rewardPool = challenge[c].rewardPool
       /\ BooksTold(y, c, n.posted, n.held)
  BY <1>1, <1>10, <1>20, <1>21, <1>25
<1> QED BY <1>6, <1>7, <1>25, <1>26, <1>28, <1>29, <1>30, <1>31, EntryStep

-----------------------------------------------------------------------------
\* Creation.

LEMMA CreatedKeeps ==
  ASSUME NEW k \in Challenge, NEW u \in Users, NEW offer \in BOOLEAN, NEW reward \in Nat,
         NEW deadline \in Nat, NEW highRisk \in BOOLEAN, NEW bond \in Nat,
         NEW n, n = Created(k, u, offer, reward, deadline, highRisk, bond)
  PROVE  /\ n.proposer = k.proposer /\ n.closedEarly = k.closedEarly
         /\ n.rewardFinalized = k.rewardFinalized
<1>1. PICK m : m = Deposit(k, "bond", bond)
  OBVIOUS
<1>2. PICK o : o = [m EXCEPT !.creator = u, !.offer = offer, !.rewardPool = reward,
                             !.deadline = deadline, !.highRisk = highRisk,
                             !.state = "Open"]
  OBVIOUS
<1>3. m \in Challenge /\ OnlyLots(k, m)
  <2>1. "bond" \in Lot
    BY DEF Lot
  <2> QED BY <1>1, <2>1, DepositFields
<1>4. /\ o.proposer = k.proposer /\ o.closedEarly = k.closedEarly
      /\ o.rewardFinalized = k.rewardFinalized /\ o \in Challenge
  BY <1>2, <1>3 DEF Challenge, OnlyLots, ChallengeState
<1>5. n = IF offer THEN o ELSE Deposit(o, "reward", reward)
  BY <1>1, <1>2 DEF Created
<1>6. CASE offer
  BY <1>4, <1>5, <1>6
<1>7. CASE ~offer
  <2>1. "reward" \in Lot
    BY DEF Lot
  <2> DEFINE d == Deposit(o, "reward", reward)
  <2>2. d \in Challenge /\ OnlyLots(o, d)
    BY <1>4, <2>1, DepositFields
  <2>3. n = d
    BY <1>5, <1>7
  <2> HIDE DEF d
  <2> QED BY <1>4, <2>2, <2>3 DEF OnlyLots, Challenge
<1> QED BY <1>6, <1>7

\* The events of a creation make the entry of the new challenge.
LEMMA CreatedEntryTold ==
  ASSUME NEW n \in Challenge, n.creator \in Users, n.state = "Open", n.executor = Nobody,
         n.disputant = Nobody, n.proposer = Nobody,
         (n.held["reward"] # 0) = ~n.offer,
         NEW e, e.creator = n.creator, e.deadline = n.deadline, e.state = "Open",
         NEW fields,
         fields = [fundingModel |-> IF n.offer THEN "PerformerOffer" ELSE "Sponsored",
                   rewardEscrowed |-> ~n.offer,
                   performer |-> IF n.offer THEN n.creator ELSE Nobody,
                   sponsor |-> IF n.offer THEN Nobody ELSE n.creator]
  PROVE  EntryTold(n, R!Merged(R!ChallengeProjection(e), fields))
<1>1. PICK p : p = R!ChallengeProjection(e)
  OBVIOUS
<1>2. PICK d : d = R!Merged(p, fields)
  OBVIOUS
<1>3. /\ DOMAIN fields = {"fundingModel", "rewardEscrowed", "performer", "sponsor"}
      /\ fields["fundingModel"] = IF n.offer THEN "PerformerOffer" ELSE "Sponsored"
      /\ fields["rewardEscrowed"] = ~n.offer
      /\ fields["performer"] = IF n.offer THEN n.creator ELSE Nobody
      /\ fields["sponsor"] = IF n.offer THEN Nobody ELSE n.creator
  OBVIOUS
<1>4. /\ EntryFields \subseteq DOMAIN p /\ p["creator"] = n.creator
      /\ p["deadline"] = n.deadline /\ p["state"] = "Open" /\ p["executor"] = Nobody
  BY <1>1 DEF R!ChallengeProjection, EntryFields
<1>5. /\ DOMAIN d = DOMAIN p \cup DOMAIN fields
      /\ \A x \in DOMAIN fields : d[x] = fields[x]
      /\ \A x \in DOMAIN p \ DOMAIN fields : d[x] = p[x]
  BY <1>2 DEF R!Merged
<1>6. /\ EntryFields \subseteq DOMAIN d /\ d["creator"] = n.creator
      /\ d["deadline"] = n.deadline /\ d["state"] = "Open" /\ d["executor"] = Nobody
      /\ d["fundingModel"] = IF n.offer THEN "PerformerOffer" ELSE "Sponsored"
      /\ d["rewardEscrowed"] = ~n.offer
      /\ d["performer"] = IF n.offer THEN n.creator ELSE Nobody
      /\ d["sponsor"] = IF n.offer THEN Nobody ELSE n.creator
  BY <1>3, <1>4, <1>5 DEF EntryFields
<1>7. EntryTold(n, d)
  BY <1>6 DEF EntryTold, EntryCore, performerOf, sponsorOf
<1> QED BY <1>1, <1>2, <1>7

LEMMA CreateTold ==
  ASSUME ViewInv, ChallengeInv', NEW u \in Users, CreateChallenge(u),
         Emits(CreationEvents(nextChallengeId))
  PROVE  ViewInv'
<1>1. PICK c \in ChallengeIds : c = nextChallengeId
  BY DEF CreateChallenge
<1>2. PICK k : k = challenge[c]
  OBVIOUS
<1>3. /\ TypeOK /\ k \in Challenge /\ Untouched(k) /\ Ready(k)
      /\ c \in Nat /\ c \notin DOMAIN view.challenges /\ nextChallengeId' = c + 1
      /\ ViewFields \subseteq DOMAIN view /\ BooksTold(view, c, k.posted, k.held)
  BY <1>1, <1>2, OneTold DEF Sound, CreateChallenge
<1>4. PICK reward \in Rewards, deadline \in 0 .. MaxTime, offer \in BOOLEAN,
           risky \in Risky, bond \in Bonds :
        /\ reward # 0
        /\ challenge' = [challenge EXCEPT ![nextChallengeId] =
              Created(challenge[nextChallengeId], u, offer, reward, deadline,
                      IsHighRiskOrValue(reward, risky), bond)]
  <2>1. challenge \in [ChallengeIds -> Challenge] /\ nextChallengeId \in ChallengeIds
    BY <1>1, <1>3 DEF TypeOK
  <2> QED BY <2>1 DEF CreateChallenge
<1>5. PICK highRisk : highRisk = IsHighRiskOrValue(reward, risky)
  OBVIOUS
<1>6. reward \in Nat /\ deadline \in Nat /\ highRisk \in BOOLEAN /\ bond \in Nat
  <2>1. reward \in Nat /\ bond \in Nat /\ risky \in BOOLEAN /\ deadline \in Nat
    BY ChallengeAssumption DEF ChallengeAssumption
  <2>2. (reward >= HIGH_VALUE_THRESHOLD) \in BOOLEAN
    OBVIOUS
  <2>3. highRisk \in BOOLEAN
    BY <1>5, <2>1, <2>2 DEF IsHighRiskOrValue
  <2> QED BY <2>1, <2>3
<1> DEFINE n == Created(k, u, offer, reward, deadline, highRisk, bond)
<1>7. /\ n \in Challenge /\ n.creator = u /\ n.offer = offer
      /\ n.rewardPool = reward /\ n.state = "Open" /\ n.disputant = Nobody
      /\ n.executor = Nobody
      /\ n.held["reward"] = (IF offer THEN 0 ELSE reward)
      /\ n.posted["reward"] = (IF offer THEN 0 ELSE reward)
      /\ n.held["bond"] = bond /\ n.posted["bond"] = bond
      /\ n.held["executorBond"] = 0 /\ n.posted["executorBond"] = 0
      /\ n.held["disputeBond"] = 0 /\ n.posted["disputeBond"] = 0
  BY ONLY <1>3, <1>6, CreatedFields
<1>8. /\ n.proposer = k.proposer /\ n.closedEarly = k.closedEarly
      /\ n.rewardFinalized = k.rewardFinalized
  BY <1>3, <1>6, CreatedKeeps
<1>9. challenge' = [challenge EXCEPT ![c] = n]
  BY <1>1, <1>2, <1>4, <1>5
<1> HIDE DEF n
<1>10. challenge'[c] = n /\ \A x \in ChallengeIds \ {c} : challenge'[x] = challenge[x]
  BY <1>3, <1>9 DEF TypeOK
<1>11. /\ k.creator = Nobody /\ k.proposer = Nobody
       /\ n.closedEarly \/ ~n.rewardFinalized
       /\ \A l \in Lot : k.held[l] = 0 /\ k.posted[l] = 0
  BY <1>3, <1>8 DEF Ready, Untouched
<1>12. u # Nobody /\ (n.held["reward"] # 0) = ~n.offer /\ reward # 0
  BY <1>4, <1>7, ChallengeAssumption DEF ChallengeAssumption
<1>13. PICK d : d = BondEvent("BondCalculated", EntityOf("bond"), c, bond)
  OBVIOUS
<1>14. PICK f : f = BondEvent("BondLocked", EntityOf("bond"), c, bond)
  OBVIOUS
<1>15. PICK e : e = [type |-> "ChallengeCreated", challengeId |-> c, creator |-> n.creator,
                     rewardPool |-> n.rewardPool, deadline |-> n.deadline,
                     state |-> "Open"]
  OBVIOUS
<1>16. PICK g : g = [type |-> "ChallengeFundingModelSelected", challengeId |-> c,
                     fundingModel |-> IF n.offer THEN "PerformerOffer" ELSE "Sponsored",
                     performer |-> IF n.offer THEN n.creator ELSE Nobody,
                     sponsor |-> IF n.offer THEN Nobody ELSE n.creator]
  OBVIOUS
<1>17. CreationEvents(c) = <<d, f, e, g>>
  <2>1. decodeChallengeState(StateNumber("Open")) = "Open"
    BY DEF decodeChallengeState, StateNumber
  <2>2. /\ readChallengeDetails(c).deadline = n.deadline
        /\ readChallengeDetails(c).state = "Open"
    BY <1>7, <1>10, <2>1 DEF readChallengeDetails
  <2> QED BY <1>7, <1>10, <1>13, <1>14, <1>15, <1>16, <2>2 DEF CreationEvents, EntityOf
<1>18. PICK x : x = R!Effect(view, d)
  OBVIOUS
<1>19. PICK y : y = R!Effect(x, f)
  OBVIOUS
<1>20. PICK z : z = R!Effect(y, e)
  OBVIOUS
<1>21. view' = R!Effect(z, g)
  <2>1. view' = R!Effects(view, <<d, f, e, g>>)
    BY <1>1, <1>17 DEF Emits
  <2> QED BY <1>18, <1>19, <1>20, <2>1, EffectsOfFour
<1>22. "bond" \in BondLots
  BY DEF BondLots
<1>23. /\ Framed(view, x, c) /\ x.challenges = view.challenges
       /\ BooksTold(x, c, k.posted, k.held)
  BY <1>3, <1>6, <1>13, <1>18, <1>22, LotCalculated
<1>24. PICK posted : posted = n.posted
  OBVIOUS
<1>25. PICK held : held = n.held
  OBVIOUS
<1>26. /\ Framed(x, y, c) /\ y.challenges = x.challenges
       /\ BooksTold(y, c, posted, held)
  <2>1. Locks("bond", bond, k.posted, k.held, posted, held)
    BY <1>7, <1>11, <1>24, <1>25 DEF Locks, BondLots, Lot
  <2>2. ViewFields \subseteq DOMAIN x
    BY <1>23 DEF Framed
  <2> QED BY <1>6, <1>14, <1>19, <1>22, <1>23, <2>1, <2>2, LotLocked
<1>27. PICK p : p = R!ChallengeProjection(e)
  OBVIOUS
<1>28. /\ Framed(y, z, c) /\ DOMAIN z.challenges = DOMAIN y.challenges \cup {c}
       /\ z.challenges[c] = p /\ BooksTold(z, c, posted, held)
  <2>1. z = [y EXCEPT !.challenges = R!Put(@, c, p)]
    <3>1. e.type = "ChallengeCreated" /\ e.challengeId = c
      BY <1>15
    <3> QED BY <1>20, <1>27, <3>1, CreatedEffect
  <2>2. ViewFields \subseteq DOMAIN y
    BY <1>26 DEF Framed
  <2>3. /\ DOMAIN z = DOMAIN y /\ z.bonds = y.bonds
        /\ z.challenges = R!Put(y.challenges, c, p)
    BY <2>1, <2>2 DEF ViewFields
  <2>4. /\ DOMAIN z.challenges = DOMAIN y.challenges \cup {c}
        /\ \A i \in DOMAIN y.challenges \ {c} : z.challenges[i] = y.challenges[i]
        /\ z.challenges[c] = p
    BY <2>3 DEF R!Put
  <2>5. \A i \in ChallengeIds, l \in BondLots : Book(z, l, i) = Book(y, l, i)
    BY <2>3 DEF Book
  <2>6. Framed(y, z, c)
    BY <2>2, <2>3, <2>4, <2>5 DEF Framed
  <2>7. BooksTold(z, c, posted, held)
    BY <1>26, <2>5 DEF BooksTold
  <2> QED BY <2>4, <2>6, <2>7
<1>29. PICK w : w = view'
  OBVIOUS
<1>30. PICK fields : fields = [fundingModel |-> g.fundingModel,
                               rewardEscrowed |-> g.fundingModel = "Sponsored",
                               performer |-> g.performer, sponsor |-> g.sponsor]
  OBVIOUS
<1>31. /\ Framed(z, w, c) /\ DOMAIN w.challenges = DOMAIN z.challenges
       /\ \A l \in BondLots : Book(w, l, c) = Book(z, l, c)
       /\ w.challenges[c] = R!Merged(p, fields)
  <2>1. w = R!Update(z, "challenges", c, fields)
    <3>1. g.type = "ChallengeFundingModelSelected" /\ g.challengeId = c
      BY <1>16
    <3> QED BY <1>21, <1>29, <1>30, <3>1, FundingEffect
  <2>2. ViewFields \subseteq DOMAIN z /\ c \in DOMAIN z.challenges
    BY <1>28 DEF Framed
  <2> QED BY <1>28, <2>1, <2>2, UpdateIs
<1>32. BooksTold(w, c, n.posted, n.held)
  BY <1>24, <1>25, <1>28, <1>31 DEF BooksTold
<1>33. Framed(view, w, c)
  <2>1. Framed(view, y, c)
    BY <1>23, <1>26, FramedTwice
  <2>2. Framed(view, z, c)
    BY <1>28, <2>1, FramedTwice
  <2> QED BY <1>31, <2>2, FramedTwice
<1>34. DOMAIN w.challenges = {i \in ChallengeIds : i < nextChallengeId'}
  <2>1. DOMAIN w.challenges = DOMAIN view.challenges \cup {c}
    BY <1>23, <1>26, <1>28, <1>31
  <2>2. DOMAIN view.challenges = {i \in ChallengeIds : i < c}
    BY <1>1 DEF ViewInv
  <2>3. \A i \in ChallengeIds : i \in Nat
    BY OneTold
  <2>4. \A i \in ChallengeIds : i < nextChallengeId' <=> i < c \/ i = c
    BY <1>3, <2>3
  <2> QED BY <2>1, <2>2, <2>4
<1>35. EntryTold(n, w.challenges[c])
  <2>1. fields = [fundingModel |-> IF n.offer THEN "PerformerOffer" ELSE "Sponsored",
                  rewardEscrowed |-> ~n.offer,
                  performer |-> IF n.offer THEN n.creator ELSE Nobody,
                  sponsor |-> IF n.offer THEN Nobody ELSE n.creator]
    BY <1>7, <1>16, <1>30
  <2>2. e.creator = n.creator /\ e.deadline = n.deadline /\ e.state = "Open"
    BY <1>15
  <2>3. /\ n.creator \in Users /\ n.state = "Open" /\ n.executor = Nobody
        /\ n.disputant = Nobody /\ n.proposer = Nobody /\ n \in Challenge
        /\ (n.held["reward"] # 0) = ~n.offer
    BY <1>7, <1>8, <1>11, <1>12
  <2>4. EntryTold(n, R!Merged(R!ChallengeProjection(e), fields))
    BY <2>1, <2>2, <2>3, CreatedEntryTold
  <2> QED BY <1>27, <1>31, <2>4
<1>36. Ready(n)
  BY <1>7, <1>11, <1>12 DEF Ready, Unsettled
<1>37. \A i \in ChallengeIds \ {c} : i < nextChallengeId' <=> i < nextChallengeId
  <2>1. \A i \in ChallengeIds : i \in Nat
    BY OneTold
  <2> QED BY <1>1, <1>3, <2>1
<1> QED BY <1>7, <1>10, <1>12, <1>29, <1>32, <1>33, <1>34, <1>35, <1>36, <1>37, TellingStep

\* The contract's challenges and the read model's entries and books stay.
LEMMA ViewStays ==
  ASSUME ViewInv, ChallengeInv', UNCHANGED <<challenge, nextChallengeId>>,
         view'.challenges = view.challenges, view'.bonds = view.bonds,
         ViewFields \subseteq DOMAIN view'
  PROVE  ViewInv'
<1>1. \A c \in ChallengeIds, l \in BondLots : Book(view', l, c) = Book(view, l, c)
  BY DEF Book
<1>2. ASSUME NEW c \in ChallengeIds
      PROVE  /\ Ready(challenge'[c])
             /\ BooksTold(view', c, challenge'[c].posted, challenge'[c].held)
             /\ c < nextChallengeId' =>
                  /\ challenge'[c].creator # Nobody /\ challenge'[c].rewardPool # 0
                  /\ EntryTold(challenge'[c], view'.challenges[c])
  BY <1>1 DEF ViewInv, BooksTold
<1>3. DOMAIN view'.challenges = {c \in ChallengeIds : c < nextChallengeId'}
  BY DEF ViewInv
<1> QED BY <1>2, <1>3 DEF ViewInv

LEMMA WindowTold ==
  ASSUME ViewInv, ChallengeInv', NEW w, setStandardResolutionWindow(w),
         Emits(<<[type |-> "ResolutionWindowUpdated", newWindow |-> w]>>)
  PROVE  ViewInv'
<1>1. PICK e : e = [type |-> "ResolutionWindowUpdated", newWindow |-> w]
  OBVIOUS
<1>2. e.type = "ResolutionWindowUpdated"
  BY <1>1
<1>3. view' = R!Effects(view, <<e>>)
  BY <1>1 DEF Emits
<1>4. view' = [view EXCEPT !.standardResolutionWindow = e.newWindow]
  BY <1>2, <1>3, EffectsOfFew, WindowEffect
<1>5. /\ DOMAIN view' = DOMAIN view
      /\ view'.challenges = view.challenges /\ view'.bonds = view.bonds
  BY <1>4 DEF ViewInv, ViewFields
<1>6. UNCHANGED <<challenge, nextChallengeId>>
  BY DEF setStandardResolutionWindow
<1> QED BY <1>5, <1>6, ViewStays DEF ViewInv

LEMMA QuietTold ==
  ASSUME ViewInv, ChallengeInv', Pause \/ Unpause \/ Tick \/ UNCHANGED vars,
         UNCHANGED view
  PROVE  ViewInv'
<1>1. UNCHANGED <<challenge, nextChallengeId>>
  BY DEF Pause, Unpause, Tick, vars
<1> QED BY <1>1, ViewStays DEF ViewInv

LEMMA ViewStarts == ViewInit => ViewInv
<1> SUFFICES ASSUME ViewInit PROVE ViewInv
  OBVIOUS
<1>1. ChallengeInv
  BY ChallengeStarts DEF ViewInit
<1>2. /\ view.challenges = << >> /\ view.bonds = << >>
      /\ ViewFields \subseteq DOMAIN view
  BY DEF ViewInit, R!createInitialProjectionState, ViewFields
<1>3. DOMAIN << >> = {}
  OBVIOUS
<1>4. \A c \in ChallengeIds : challenge[c] = NoChallenge /\ ~(c < nextChallengeId)
  <2>1. Cardinality(ChallengeIds) \in Nat
    BY ChallengeAssumption, FS_CardinalityType DEF ChallengeAssumption
  <2>2. \A c \in ChallengeIds : c \in Nat /\ c >= 1
    BY <2>1, ChallengeAssumption DEF ChallengeAssumption
  <2> QED BY <2>2 DEF ViewInit, Init
<1>5. Ready(NoChallenge)
  BY DEF Ready, NoChallenge, Unsettled
<1>6. \A c \in ChallengeIds : BooksTold(view, c, NoChallenge.posted, NoChallenge.held)
  <2>1. R!emptyBond \in BookEntry
    BY DEF R!emptyBond, BookEntry
  <2>2. R!emptyBond.paidBond = 0 /\ R!emptyBond.releasedBond = 0
        /\ R!emptyBond.slashedBond = 0
    BY DEF R!emptyBond
  <2>3. Booked(0, 0, R!emptyBond)
    BY <2>1, <2>2 DEF Booked
  <2>4. \A l \in BondLots : NoChallenge.posted[l] = 0 /\ NoChallenge.held[l] = 0
    BY DEF NoChallenge, BondLots, Lot
  <2>5. \A c \in ChallengeIds, l \in BondLots : Book(view, l, c) = R!emptyBond
    BY <1>2, <1>3 DEF Book
  <2> QED BY <2>3, <2>4, <2>5 DEF BooksTold
<1>7. DOMAIN view.challenges = {c \in ChallengeIds : c < nextChallengeId}
  BY <1>2, <1>3, <1>4
<1> QED BY <1>1, <1>2, <1>4, <1>5, <1>6, <1>7 DEF ViewInv

\* Every step of the composition is a step of the contract.
LEMMA ViewNextIsNext == ViewNext => Next
<1>1. ASSUME NEW u \in Users, NEW c \in ChallengeIds, Participate(u, c) PROVE Next
  BY <1>1 DEF Participate, Next
<1>2. ASSUME NEW c \in ChallengeIds, Settle(c) PROVE Next
  BY <1>2 DEF Settle, Next
<1>3. ASSUME NEW c \in ChallengeIds, GovernBond(c) PROVE Next
  BY <1>3 DEF GovernBond, Next
<1>4. ASSUME \/ \E w \in 1 .. 2 * HalfDay : setStandardResolutionWindow(w)
             \/ \E u \in Users : CreateChallenge(u)
             \/ Pause \/ Unpause \/ Tick
      PROVE  Next
  BY <1>4 DEF Next
<1> QED BY <1>1, <1>2, <1>3, <1>4 DEF ViewNext

LEMMA ViewKeeps ==
  ASSUME ViewInv, [ViewNext]_viewVars
  PROVE  ViewInv'
<1>1. ChallengeInv'
  <2>1. [Next]_vars
    BY ViewNextIsNext DEF viewVars
  <2> QED BY <2>1, EveryStep DEF ViewInv, Steps
<1>2. CASE UNCHANGED viewVars
  BY <1>1, <1>2, QuietTold DEF viewVars
<1>3. CASE ViewNext
  <2>1. ASSUME NEW w \in 1 .. 2 * HalfDay, setStandardResolutionWindow(w),
               Emits(<<[type |-> "ResolutionWindowUpdated", newWindow |-> w]>>)
        PROVE  ViewInv'
    BY <1>1, <2>1, WindowTold
  <2>2. ASSUME NEW u \in Users, CreateChallenge(u),
               Emits(CreationEvents(nextChallengeId))
        PROVE  ViewInv'
    BY <1>1, <2>2, CreateTold
  <2>3. ASSUME NEW c \in ChallengeIds, NEW u \in Users, Participate(u, c)
        PROVE  ViewInv'
    <3>1. CASE AcceptChallenge(u, c) /\ Emits(AcceptanceEvents(u, c))
      BY <1>1, <3>1, AcceptTold
    <3>2. CASE /\ SubmitEvidence(u, c)
               /\ Emits(<<[type |-> "ChallengeEvidenceSubmitted", challengeId |-> c,
                           executor |-> u]>>)
      BY <1>1, <3>2, EvidenceTold
    <3>3. ASSUME NEW succeeded \in BOOLEAN, NEW withEvidence \in BOOLEAN,
                 ProposeResolution(u, c, succeeded, withEvidence),
                 Emits(<<ProposalEvent(u, c, succeeded)>>)
          PROVE  ViewInv'
      BY <1>1, <3>3, ProposeTold
    <3>4. ASSUME NEW succeeded \in BOOLEAN, ConfirmResolution(u, c, succeeded),
                 Emits(<<[type |-> "ChallengeResolutionConfirmed",
                          challengeId |-> c, confirmer |-> u]>>
                       \o ResolutionEvents(c, succeeded, FALSE, ~succeeded))
          PROVE  ViewInv'
      BY <1>1, <3>4, ConfirmTold
    <3>5. CASE /\ DisputeResolution(u, c)
               /\ Emits(<<BondEvent("BondLocked", "ChallengeDispute", c,
                                    disputeBondFor(challenge[c])),
                          [type |-> "ChallengeResolutionDisputed",
                           challengeId |-> c, disputant |-> u]>>)
      BY <1>1, <3>5, DisputeTold
    <3> QED BY <2>3, <3>1, <3>2, <3>3, <3>4, <3>5 DEF Participate
  <2>4. ASSUME NEW c \in ChallengeIds, Settle(c)
        PROVE  ViewInv'
    <3>1. CASE /\ FinalizeUndisputed(c)
               /\ Emits(ResolutionEvents(c, challenge[c].proposed, FALSE,
                                         ~challenge[c].proposed))
      BY <1>1, <3>1, FinalizeTold
    <3>2. ASSUME NEW succeeded \in BOOLEAN, ResolveDispute(c, succeeded),
                 Emits(DisputeResolutionEvents(c, succeeded))
          PROVE  ViewInv'
      BY <1>1, <3>2, ResolveDisputeTold
    <3>3. ASSUME NEW succeeded \in BOOLEAN, ResolveEarly(c, succeeded),
                 Emits(<<[type |-> "ChallengeResolvedEarly", challengeId |-> c,
                          executorSucceeded |-> succeeded]>>
                       \o ResolutionEvents(c, succeeded, FALSE, ~succeeded))
          PROVE  ViewInv'
      BY <1>1, <3>3, EarlyTold
    <3>4. ASSUME NEW succeeded \in BOOLEAN, NEW sc \in BOOLEAN, NEW se \in BOOLEAN,
                 ResolveChallenge(c, succeeded, sc, se),
                 Emits(ResolutionEvents(c, succeeded, sc, se))
          PROVE  ViewInv'
      BY <1>1, <3>4, VerdictTold
    <3>5. CASE /\ CancelChallenge(c)
               /\ Emits(UnwindingEvents(c, "ChallengeCancelled", FALSE, FALSE))
      BY <1>1, <3>5, CancelTold
    <3>6. ASSUME NEW offender \in Users \cup {Nobody}, ConfirmFraud(c, offender),
                 Emits(UnwindingEvents(c, "ChallengeFraudConfirmed",
                                       offender = challenge[c].creator,
                                       offender = challenge[c].executor))
          PROVE  ViewInv'
      BY <1>1, <3>6, FraudTold
    <3> QED BY <2>4, <3>1, <3>2, <3>3, <3>4, <3>5, <3>6 DEF Settle
  <2>5. ASSUME NEW c \in ChallengeIds, GovernBond(c)
        PROVE  ViewInv'
    BY <1>1, <2>5, BondTold
  <2>6. ASSUME Pause \/ Unpause \/ Tick, UNCHANGED view
        PROVE  ViewInv'
    BY <1>1, <2>6, QuietTold
  <2> QED BY <1>3, <2>1, <2>2, <2>3, <2>4, <2>5, <2>6 DEF ViewNext
<1> QED BY <1>2, <1>3

LEMMA BooksBalance ==
  ASSUME NEW v, NEW c, NEW posted, NEW held, BooksTold(v, c, posted, held),
         NEW l \in BondLots, NEW key, key = <<EntityOf(l), c>>
  PROVE  IF key \in DOMAIN v.bonds
           THEN v.bonds[key].paidBond - v.bonds[key].releasedBond
                  - v.bonds[key].slashedBond = held[l]
           ELSE held[l] = 0
<1>1. Booked(posted[l], held[l], Book(v, l, c))
  BY DEF BooksTold
<1>2. CASE key \in DOMAIN v.bonds
  <2>1. Book(v, l, c) = v.bonds[key]
    BY <1>2 DEF Book
  <2> QED BY <1>1, <1>2, <2>1 DEF Booked
<1>3. CASE key \notin DOMAIN v.bonds
  <2>1. Book(v, l, c) = R!emptyBond
    BY <1>3 DEF Book
  <2>2. 0 - 0 - 0 = held[l]
    BY <1>1, <2>1 DEF Booked, R!emptyBond
  <2> QED BY <1>3, <2>2
<1> QED BY <1>2, <1>3

\* The read model says of every challenge what the contract holds, on every way
\* through proposeResolution, disputeResolution and the five settlements, in
\* both funding models, and the books of its three bonds balance.
THEOREM ChallengeViewTrue == ViewSpec => []ChallengeViewIsTrue
<1>1. ViewInv => ChallengeViewIsTrue
  <2> SUFFICES ASSUME ViewInv PROVE ChallengeViewIsTrue
    OBVIOUS
  <2>1. BondBooksBalance
    <3>1. /\ EntityOf("bond") = "Challenge"
          /\ EntityOf("executorBond") = "ChallengeExecutor"
          /\ EntityOf("disputeBond") = "ChallengeDispute"
      BY DEF EntityOf
    <3>2. ASSUME NEW c \in ChallengeIds, NEW l \in BondLots
          PROVE  LET key == <<EntityOf(l), c>>
                 IN  IF key \in DOMAIN view.bonds
                       THEN view.bonds[key].paidBond - view.bonds[key].releasedBond
                              - view.bonds[key].slashedBond = challenge[c].held[l]
                       ELSE challenge[c].held[l] = 0
      BY OneTold, BooksBalance
    <3>3. ASSUME NEW c \in ChallengeIds,
                 NEW entity \in {<<"Challenge", "bond">>,
                                 <<"ChallengeExecutor", "executorBond">>,
                                 <<"ChallengeDispute", "disputeBond">>}
          PROVE  LET key == <<entity[1], c>>
                 IN  IF key \in DOMAIN view.bonds
                       THEN view.bonds[key].paidBond - view.bonds[key].releasedBond
                              - view.bonds[key].slashedBond
                              = challenge[c].held[entity[2]]
                       ELSE challenge[c].held[entity[2]] = 0
      <4>1. entity[2] \in BondLots /\ entity[1] = EntityOf(entity[2])
        BY <3>1, <3>3 DEF BondLots
      <4> QED BY <3>2, <4>1
    <3> QED BY <3>3 DEF BondBooksBalance
  <2>2. DOMAIN view.challenges = {c \in ChallengeIds : Exists(c)}
    <3>1. \A c \in ChallengeIds : c < nextChallengeId <=> Exists(c)
      BY OneTold DEF Exists
    <3> QED BY <3>1 DEF ViewInv
  <2>3. ASSUME NEW c \in DOMAIN view.challenges
        PROVE  LET k == challenge[c]
                   dto == view.challenges[c]
               IN  /\ dto.state = k.state
                   /\ dto.executor = k.executor
                   /\ dto.performer = performerOf(k)
                   /\ dto.sponsor = sponsorOf(k)
                   /\ k.state \notin Settled =>
                        dto.rewardEscrowed = (k.held["reward"] # 0)
                   /\ k.proposer # Nobody =>
                        dto.resolutionProposal =
                          [proposer |-> k.proposer,
                           executorSucceeded |-> k.proposed,
                           disputeDeadline |-> k.disputeDeadline]
                   /\ k.disputant # Nobody =>
                        dto.dispute = [disputant |-> k.disputant,
                                       resolved |-> k.state = "Resolved"]
    <3>1. c \in ChallengeIds /\ c < nextChallengeId
      BY DEF ViewInv
    <3>2. EntryTold(challenge[c], view.challenges[c])
      BY <3>1 DEF ViewInv
    <3> QED BY <3>2 DEF EntryTold, EntryCore
  <2> QED BY <2>1, <2>2, <2>3 DEF ChallengeViewIsTrue
<1> QED BY <1>1, ViewStarts, ViewKeeps, PTL DEF ViewSpec

-----------------------------------------------------------------------------
\* The buttons.

Panel(dto, account, isArbiter) ==
  \/ Screen!canPropose(dto, account)
  \/ Screen!canReview(dto, account)
  \/ Screen!canArbitrate(dto, isArbiter)

LEMMA ButtonsAre ==
  ASSUME NEW dto, NEW u, NEW a, NEW t, NEW buttons,
         buttons = Screen!Buttons(dto, u, a, t)
  PROVE  /\ "accept" \in buttons <=> Screen!canAccept(dto, u, t)
         /\ "submit-evidence" \in buttons <=>
              Screen!canUpdateLive(dto, u, t) /\ Screen!canSubmitEvidence(dto, u, t)
         /\ "propose-result" \in buttons <=> Screen!canPropose(dto, u)
         /\ "confirm" \in buttons <=> Screen!canReview(dto, u)
         /\ "dispute" \in buttons <=> Screen!canReview(dto, u)
         /\ "finalize" \in buttons <=>
              Panel(dto, u, a) /\ Screen!canFinalize(dto, t)
         /\ "resolve-dispute" \in buttons <=> Screen!canArbitrate(dto, a)
         /\ "cancel-expired" \in buttons <=> Screen!canCancelExpired(dto, a, t)
         /\ "resolve-early" \in buttons <=> Screen!canOperatorResolve(dto, a)
         /\ buttons \subseteq {"accept", "submit-evidence", "propose-result",
                               "confirm", "dispute", "finalize", "resolve-dispute",
                               "cancel-expired", "resolve-early"}
BY DEF Screen!Buttons, Panel

\* The roles the screen works out are the contract's.
LEMMA ScreenRoles ==
  ASSUME NEW k, k.offer \in BOOLEAN, NEW dto, EntryTold(k, dto), k.creator # Nobody
  PROVE  /\ dto.state = k.state /\ dto.deadline = k.deadline
         /\ dto.creator = k.creator
         /\ Screen!IsOffer(dto) <=> k.offer
         /\ k.offer => Screen!Or(dto.performer, dto.creator) = k.creator
         /\ k.proposer # Nobody =>
              /\ dto.resolutionProposal.proposer = k.proposer
              /\ dto.resolutionProposal.disputeDeadline = k.disputeDeadline
         /\ k.executor # Nobody =>
              /\ Screen!performerAddress(dto) = performerOf(k)
              /\ {Screen!performerAddress(dto), Screen!sponsorAddress(dto)}
                   = {k.creator, k.executor}
              /\ (IF Screen!IsOffer(dto) THEN Screen!Or(dto.performer, dto.creator)
                  ELSE dto.executor) = performerOf(k)
              /\ (IF Screen!IsOffer(dto) THEN Screen!Or(dto.sponsor, dto.executor)
                  ELSE dto.creator) = sponsorOf(k)
<1>1. /\ dto.state = k.state /\ dto.deadline = k.deadline /\ dto.creator = k.creator
      /\ dto.executor = k.executor /\ dto.performer = performerOf(k)
      /\ dto.sponsor = sponsorOf(k)
      /\ dto.fundingModel = (IF k.offer THEN "PerformerOffer" ELSE "Sponsored")
  BY DEF EntryTold, EntryCore
<1>2. Screen!IsOffer(dto) <=> k.offer
  BY <1>1 DEF Screen!IsOffer
<1>3. k.proposer # Nobody =>
        /\ dto.resolutionProposal.proposer = k.proposer
        /\ dto.resolutionProposal.disputeDeadline = k.disputeDeadline
  BY DEF EntryTold, EntryCore
<1>4. CASE k.offer
  <2>1. performerOf(k) = k.creator /\ sponsorOf(k) = k.executor
    BY <1>4 DEF performerOf, sponsorOf
  <2>2. Screen!Or(dto.performer, dto.creator) = k.creator
    BY <1>1, <2>1 DEF Screen!Or
  <2>3. k.executor # Nobody => Screen!Or(dto.sponsor, dto.executor) = k.executor
    BY <1>1, <2>1 DEF Screen!Or
  <2>4. Screen!performerAddress(dto) = k.creator
    BY <1>1, <2>1 DEF Screen!Or, Screen!performerAddress
  <2>5. k.executor # Nobody => Screen!sponsorAddress(dto) = k.executor
    BY <1>1, <2>1 DEF Screen!Or, Screen!sponsorAddress
  <2> QED BY <1>1, <1>2, <1>3, <1>4, <2>1, <2>2, <2>3, <2>4, <2>5
<1>5. CASE ~k.offer
  <2>1. performerOf(k) = k.executor /\ sponsorOf(k) = k.creator
    BY <1>5 DEF performerOf, sponsorOf
  <2>2. k.executor # Nobody => Screen!performerAddress(dto) = k.executor
    BY <1>1, <2>1 DEF Screen!Or, Screen!performerAddress
  <2>3. Screen!sponsorAddress(dto) = k.creator
    BY <1>1, <2>1 DEF Screen!Or, Screen!sponsorAddress
  <2> QED BY <1>1, <1>2, <1>3, <1>5, <2>1, <2>2, <2>3
<1> QED BY <1>4, <1>5

\* What an entry, the challenge and an account looking at it have in common:
\* the buttons take nothing else for granted.
Looks(k, dto, t) ==
  /\ k \in Challenge /\ t \in Nat
  /\ EntryTold(k, dto) /\ Stage(k) /\ Ready(k) /\ k.creator # Nobody

LEMMA LooksWell ==
  ASSUME ViewInv, NEW c \in DOMAIN view.challenges,
         NEW k, k = challenge[c], NEW dto, dto = view.challenges[c]
  PROVE  Looks(k, dto, now)
<1>1. c \in ChallengeIds /\ c < nextChallengeId
  BY DEF ViewInv
<1>2. now \in Nat
  BY DEF ViewInv, ChallengeInv, TypeOK
<1> QED BY <1>1, <1>2, OneTold DEF Looks

LEMMA ButtonIsAccepted ==
  ASSUME ViewInv, NEW c \in DOMAIN view.challenges, NEW u \in Users,
         ~challenge[c].closedEarly, NEW button \in ButtonsFor(u, c)
  PROVE  Accepts(button, u, c)
<1>1. PICK k : k = challenge[c]
  OBVIOUS
<1>2. PICK dto : dto = view.challenges[c]
  OBVIOUS
<1>3. PICK t : t = now
  OBVIOUS
<1>4. PICK a : a = hasArbiterRole(u)
  OBVIOUS
<1>5. PICK buttons : buttons = Screen!Buttons(dto, u, a, t)
  OBVIOUS
<1>6. button \in buttons
  BY <1>2, <1>3, <1>4, <1>5 DEF ButtonsFor
<1>7. Looks(k, dto, t) /\ k.closedEarly = FALSE
  <2>1. Looks(k, dto, t)
    BY <1>1, <1>2, <1>3, LooksWell
  <2>2. k.closedEarly \in BOOLEAN
    BY <2>1 DEF Looks, Challenge
  <2> QED BY <1>1, <2>1, <2>2
<1>8. /\ k.deadline \in Nat /\ k.disputeDeadline \in Nat /\ t \in Nat
      /\ k.offer \in BOOLEAN /\ k.creator # Nobody
      /\ EntryTold(k, dto) /\ Stage(k) /\ Ready(k)
  BY <1>7 DEF Looks, Challenge
<1>9. /\ dto.state = k.state /\ dto.deadline = k.deadline
      /\ dto.creator = k.creator
      /\ k.proposer # Nobody =>
           /\ dto.resolutionProposal.proposer = k.proposer
           /\ dto.resolutionProposal.disputeDeadline = k.disputeDeadline
      /\ k.executor # Nobody =>
           /\ Screen!performerAddress(dto) = performerOf(k)
           /\ {Screen!performerAddress(dto), Screen!sponsorAddress(dto)}
                = {k.creator, k.executor}
  BY <1>8, ScreenRoles
<1>10. k.state \in {"Accepted", "EvidenceSubmitted", "Review", "Disputed"} =>
         k.executor # Nobody /\ CanFinalize(k)
  <2>1. k.state \in {"Accepted", "EvidenceSubmitted", "Review", "Disputed"} =>
          k.executor \in Users
    BY <1>8 DEF Stage
  <2> QED BY <1>7, <1>8, <2>1, ChallengeAssumption
          DEF Ready, Unsettled, CanFinalize, ChallengeAssumption
<1>11. k.state = "Review" => k.proposer # Nobody
  BY <1>8, <1>10, ChallengeAssumption DEF Stage, ChallengeAssumption
<1>12. CASE button = "accept"
  <2>1. Screen!canAccept(dto, u, t)
    BY <1>5, <1>6, <1>12, ButtonsAre
  <2>2. k.state = "Open" /\ ~(t >= k.deadline) /\ u # k.creator
    BY <1>9, <2>1 DEF Screen!canAccept, Screen!challengeAvailability
  <2>3. t <= k.deadline
    BY <1>8, <2>2
  <2> QED BY <1>1, <1>3, <1>12, <2>2, <2>3 DEF Accepts
<1>13. CASE button = "submit-evidence"
  <2>1. Screen!canSubmitEvidence(dto, u, t)
    BY <1>5, <1>6, <1>13, ButtonsAre
  <2>2. k.state = "Accepted" /\ u = performerOf(k) /\ t <= k.deadline
    BY <1>9, <1>10, <2>1 DEF Screen!canSubmitEvidence, Screen!isPerformer
  <2> QED BY <1>1, <1>3, <1>13, <2>2 DEF Accepts
<1>14. CASE button = "propose-result"
  <2>1. Screen!canPropose(dto, u)
    BY <1>5, <1>6, <1>14, ButtonsAre
  <2>2. k.state = "EvidenceSubmitted" /\ u \in {k.creator, k.executor}
    BY <1>9, <1>10, <2>1 DEF Screen!canPropose, Screen!isParticipant
  <2>3. k.evidence
    BY <1>8, <2>2 DEF Ready
  <2> QED BY <1>1, <1>14, <2>2, <2>3 DEF Accepts
<1>15. CASE button \in {"confirm", "dispute"}
  <2>1. Screen!canReview(dto, u)
    BY <1>5, <1>6, <1>15, ButtonsAre
  <2>2. /\ k.state = "Review" /\ u \in {k.creator, k.executor} \ {k.proposer}
        /\ CanFinalize(k) /\ k.proposer # Nobody
    BY <1>9, <1>10, <1>11, <2>1 DEF Screen!canReview, Screen!isParticipant
  <2>3. Screen!challengeCountdown(dto, t) = "dispute" => t <= k.disputeDeadline
    <3>1. Screen!challengeCountdown(dto, t) = "dispute" => t < k.disputeDeadline
      BY <1>9, <2>2 DEF Screen!challengeCountdown
    <3> QED BY <1>8, <3>1
  <2>4. CASE button = "confirm"
    BY <1>1, <2>2, <2>4 DEF Accepts
  <2>5. CASE button = "dispute"
    BY <1>1, <1>2, <1>3, <2>2, <2>3, <2>5 DEF Accepts
  <2> QED BY <1>15, <2>4, <2>5
<1>16. CASE button = "finalize"
  <2>1. Screen!canFinalize(dto, t)
    BY <1>5, <1>6, <1>16, ButtonsAre
  <2>2. k.state = "Review" /\ t > k.disputeDeadline /\ CanFinalize(k)
    BY <1>9, <1>10, <1>11, <2>1 DEF Screen!canFinalize
  <2> QED BY <1>1, <1>3, <1>16, <2>2 DEF Accepts
<1>17. CASE button = "resolve-dispute"
  <2>1. Screen!canArbitrate(dto, a)
    BY <1>5, <1>6, <1>17, ButtonsAre
  <2>2. k.state = "Disputed" /\ CanFinalize(k)
    BY <1>9, <1>10, <2>1 DEF Screen!canArbitrate
  <2> QED BY <1>1, <1>17, <2>2 DEF Accepts
<1>18. CASE button = "resolve-early"
  <2>1. Screen!canOperatorResolve(dto, a)
    BY <1>5, <1>6, <1>18, ButtonsAre
  <2>2. k.state \in {"Accepted", "EvidenceSubmitted", "Review"} /\ CanFinalize(k)
    BY <1>9, <1>10, <2>1 DEF Screen!canOperatorResolve
  <2> QED BY <1>1, <1>18, <2>2 DEF Accepts
<1>19. CASE button = "cancel-expired"
  <2>1. Screen!canCancelExpired(dto, a, t)
    BY <1>5, <1>6, <1>19, ButtonsAre
  <2>2. k.state \in Unsettled /\ ~k.rewardFinalized
    BY <1>7, <1>8, <1>9, <2>1 DEF Screen!canCancelExpired, Ready, Unsettled
  <2> QED BY <1>1, <1>19, <2>2 DEF Accepts
<1>20. button \in {"accept", "submit-evidence", "propose-result", "confirm",
                   "dispute", "finalize", "resolve-dispute", "cancel-expired",
                   "resolve-early"}
  BY <1>5, <1>6, ButtonsAre
<1> QED BY <1>12, <1>13, <1>14, <1>15, <1>16, <1>17, <1>18, <1>19, <1>20

LEMMA StepIsOffered ==
  ASSUME ViewInv, NEW c \in DOMAIN view.challenges, NEW u \in Users,
         NEW step,
         step = Screen!primaryAction(view.challenges[c], u, hasArbiterRole(u), now)
  PROVE  \/ step \in {"none", "finalize"}
         \/ step = "review-proposal" /\ "confirm" \in ButtonsFor(u, c)
         \/ step \in ButtonsFor(u, c)
<1>1. PICK k : k = challenge[c]
  OBVIOUS
<1>2. PICK dto : dto = view.challenges[c]
  OBVIOUS
<1>3. PICK t : t = now
  OBVIOUS
<1>4. PICK a : a = hasArbiterRole(u)
  OBVIOUS
<1>5. PICK buttons : buttons = Screen!Buttons(dto, u, a, t)
  OBVIOUS
<1>6. /\ ButtonsFor(u, c) = buttons
      /\ step = Screen!primaryAction(dto, u, a, t)
  BY <1>2, <1>3, <1>4, <1>5 DEF ButtonsFor
<1>7. Looks(k, dto, t)
  BY <1>1, <1>2, <1>3, LooksWell
<1>8. /\ k.deadline \in Nat /\ k.disputeDeadline \in Nat /\ t \in Nat
      /\ k.offer \in BOOLEAN /\ k.creator # Nobody /\ k.state \in ChallengeState
      /\ EntryTold(k, dto) /\ Stage(k)
  BY <1>7 DEF Looks, Challenge
<1>9. PICK performer : performer = IF Screen!IsOffer(dto)
                                     THEN Screen!Or(dto.performer, dto.creator)
                                     ELSE dto.executor
  OBVIOUS
<1>10. PICK sponsor : sponsor = IF Screen!IsOffer(dto)
                                  THEN Screen!Or(dto.sponsor, dto.executor)
                                  ELSE dto.creator
  OBVIOUS
<1>11. /\ dto.state = k.state /\ dto.deadline = k.deadline /\ dto.creator = k.creator
       /\ Screen!IsOffer(dto) => performer = k.creator
       /\ k.proposer # Nobody =>
            dto.resolutionProposal.disputeDeadline = k.disputeDeadline
       /\ k.executor # Nobody =>
            /\ Screen!performerAddress(dto) = performer
            /\ {Screen!performerAddress(dto), Screen!sponsorAddress(dto)}
                 = {performer, sponsor}
  <2>1. {performerOf(k), sponsorOf(k)} = {k.creator, k.executor}
    BY DEF performerOf, sponsorOf
  <2> QED BY <1>8, <1>9, <1>10, <2>1, ScreenRoles
<1>12. k.state \in {"Accepted", "EvidenceSubmitted", "Review", "Disputed"} =>
         k.executor # Nobody
  BY <1>8, ChallengeAssumption DEF Stage, ChallengeAssumption
<1>13. CASE k.state = "Open"
  <2>1. CASE k.deadline <= t
    <3>1. step = IF a THEN "cancel-expired" ELSE "none"
      BY <1>6, <1>11, <1>13, <2>1 DEF Screen!primaryAction
    <3>2. a => "cancel-expired" \in buttons
      <4>1. t >= dto.deadline
        BY <1>8, <1>11, <2>1
      <4> QED BY <1>5, <1>11, <1>13, <4>1, ButtonsAre
              DEF Screen!canCancelExpired, Screen!challengeAvailability
    <3> QED BY <1>6, <3>1, <3>2
  <2>2. CASE ~(k.deadline <= t)
    <3>1. \/ step = "none"
          \/ /\ step = "accept"
             /\ ~(Screen!IsOffer(dto) /\ u = performer)
             /\ ~(~Screen!IsOffer(dto) /\ u = dto.creator)
      BY <1>6, <1>9, <1>11, <1>13, <2>2 DEF Screen!primaryAction
    <3>2. u # dto.creator => "accept" \in buttons
      <4>1. ~(t >= dto.deadline)
        BY <1>8, <1>11, <2>2
      <4> QED BY <1>5, <1>11, <1>13, <4>1, ButtonsAre
              DEF Screen!canAccept, Screen!challengeAvailability
    <3> QED BY <1>6, <1>11, <3>1, <3>2
  <2> QED BY <2>1, <2>2
<1>14. a /\ k.state \in {"Accepted", "EvidenceSubmitted", "Review"} =>
         "resolve-early" \in buttons
  BY <1>5, <1>11, ButtonsAre DEF Screen!canOperatorResolve
<1>15. CASE k.state = "Accepted"
  <2>1. step = IF ~(k.deadline <= t) /\ u = performer THEN "submit-evidence"
               ELSE IF a THEN "resolve-early" ELSE "none"
    BY <1>6, <1>9, <1>11, <1>15 DEF Screen!primaryAction
  <2>2. ~(k.deadline <= t) /\ u = performer => "submit-evidence" \in buttons
    <3>1. ~(k.deadline <= t) => t <= dto.deadline
      BY <1>8, <1>11
    <3> QED BY <1>5, <1>11, <1>12, <1>15, <3>1, ButtonsAre
            DEF Screen!canSubmitEvidence, Screen!canUpdateLive,
                Screen!isPerformer, Screen!isParticipant
  <2> QED BY <1>6, <1>14, <1>15, <2>1, <2>2
<1>16. CASE k.state = "EvidenceSubmitted"
  <2>1. step = IF u \in {performer, sponsor} THEN "propose-result"
               ELSE IF a THEN "resolve-early" ELSE "none"
    BY <1>6, <1>9, <1>10, <1>11, <1>16 DEF Screen!primaryAction
  <2>2. u \in {performer, sponsor} => "propose-result" \in buttons
    BY <1>5, <1>11, <1>12, <1>16, ButtonsAre
       DEF Screen!canPropose, Screen!isParticipant
  <2> QED BY <1>6, <1>14, <1>16, <2>1, <2>2
<1>17. CASE k.state = "Review"
  <2>1. \/ step = "finalize"
        \/ /\ step = "review-proposal"
           /\ u \in {performer, sponsor} /\ u # dto.resolutionProposal.proposer
        \/ step = IF a THEN "resolve-early" ELSE "none"
    BY <1>6, <1>9, <1>10, <1>11, <1>17 DEF Screen!primaryAction
  <2>2. u \in {performer, sponsor} /\ u # dto.resolutionProposal.proposer =>
          "confirm" \in buttons
    <3>1. u \in {performer, sponsor} => Screen!isParticipant(dto, u)
      BY <1>11, <1>12, <1>17 DEF Screen!isParticipant
    <3>2. "confirm" \in buttons <=> Screen!canReview(dto, u)
      BY <1>5, ButtonsAre
    <3> QED BY <1>11, <1>17, <3>1, <3>2 DEF Screen!canReview
  <2> QED BY <1>6, <1>14, <1>17, <2>1, <2>2
<1>18. CASE k.state = "Disputed"
  <2>1. step = IF a THEN "resolve-dispute" ELSE "none"
    BY <1>6, <1>11, <1>18 DEF Screen!primaryAction
  <2>2. a => "resolve-dispute" \in buttons
    BY <1>5, <1>11, <1>18, ButtonsAre DEF Screen!canArbitrate
  <2> QED BY <1>6, <2>1, <2>2
<1>19. CASE k.state \in {"Resolved", "Cancelled", "Fraud"}
  BY <1>6, <1>11, <1>19 DEF Screen!primaryAction
<1> QED BY <1>8, <1>13, <1>15, <1>16, <1>17, <1>18, <1>19 DEF ChallengeState

\* Whatever account looks at whatever challenge, at any moment, the buttons it is
\* shown are operations the contract accepts from it, and the step challengeWorkflow
\* tells it to take is one of them.
THEOREM ChallengeButtonsAgree == ViewSpec => []ButtonsAreAccepted
<1>1. ViewInv => ButtonsAreAccepted
  <2> SUFFICES ASSUME ViewInv PROVE ButtonsAreAccepted
    OBVIOUS
  <2>1. NextStepIsOffered
    BY StepIsOffered DEF NextStepIsOffered
  <2>2. \A c \in DOMAIN view.challenges :
          ~challenge[c].closedEarly =>
            \A u \in Users : \A button \in ButtonsFor(u, c) : Accepts(button, u, c)
    BY ButtonIsAccepted
  <2> QED BY <2>1, <2>2 DEF ButtonsAreAccepted
<1> QED BY <1>1, ViewStarts, ViewKeeps, PTL DEF ViewSpec
=============================================================================
