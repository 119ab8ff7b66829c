------------------------- MODULE CreationBondPolicy -------------------------
(***************************************************************************)
(* What a creator must deposit: CreationBondPolicy.sol, the categories and *)
(* profiles it is computed from (CreationBondContextResolver.sol), and the *)
(* estimate the application shows of it (sdk/src/bondPolicy.ts).           *)
(*                                                                         *)
(* Amounts and counts are natural numbers: their 256 bits are left out,    *)
(* and the 16 bits of the basis points are kept.  Left out as well are who *)
(* may call the setters (any of their calls may happen) and the flags and  *)
(* sentences that explain an amount.                                       *)
(***************************************************************************)
EXTENDS Integers

CONSTANTS
  Creators,    \* addresses, without the zero address
  Categories   \* category ids, without the zero id

BPS_DENOMINATOR == 10000

Word16 == 0 .. 65535

EntityType == {"Market", "Bounty", "Challenge"}
Mode == {"Vanilla", "Underworld"}
CreatorTier == {"Basic", "Verified", "Premium", "Suspended"}
RiskLevel == {"Low", "Medium", "High", "Critical"}
ReputationBand == {"New", "Trusted", "Risky"}

BondConfig ==
  [minBond : Nat, lowRiskBaseBond : Nat, standardBaseBond : Nat,
   highRiskBaseBond : Nat, maxBond : Nat, smallMarketVolumeThreshold : Nat,
   volumeStep : Nat, volumeStepBond : Nat, verifiedDiscountBps : Word16,
   premiumDiscountBps : Word16, underworldMultiplierBps : Word16,
   highRiskMultiplierBps : Word16, disputeSurchargeBps : Word16,
   fraudMultiplierBps : Word16]

BondContext ==
  [entityType : EntityType, mode : Mode, creatorTier : CreatorTier,
   categoryRisk : RiskLevel, reputation : ReputationBand,
   expectedVolume : Nat, disputeCount : Nat, fraudCount : Nat]

\* A rule that is absent is one that is not enabled.
CategoryRule ==
  [entities : SUBSET EntityType, mode : Mode, riskLevel : RiskLevel,
   enabled : BOOLEAN]

CreatorProfile ==
  [creatorTier : CreatorTier, reputation : ReputationBand,
   disputeCount : Nat, fraudCount : Nat]

VARIABLES
  config,           \* of the policy
  categoryRules,    \* of the resolver
  creatorProfiles   \* of the resolver

policyVars == <<config, categoryRules, creatorProfiles>>

-----------------------------------------------------------------------------
\* The computation of the bond.

AssertConfig(cfg) == cfg.minBond # 0 /\ cfg.maxBond >= cfg.minBond

IsSmallLowRiskVanilla(ctx, cfg) ==
  /\ ctx.entityType = "Market"
  /\ ctx.mode = "Vanilla"
  /\ ctx.categoryRisk = "Low"
  /\ ctx.expectedVolume <= cfg.smallMarketVolumeThreshold
  /\ ctx.disputeCount = 0
  /\ ctx.fraudCount = 0

HighRisk(ctx) == ctx.categoryRisk \in {"High", "Critical"}

BaseBond(ctx, cfg) ==
  IF IsSmallLowRiskVanilla(ctx, cfg) THEN cfg.lowRiskBaseBond
  ELSE IF ctx.mode = "Underworld" \/ HighRisk(ctx) \/ ctx.entityType = "Challenge"
    THEN cfg.highRiskBaseBond
  ELSE cfg.standardBaseBond

VolumePremium(ctx, cfg) ==
  IF ctx.expectedVolume <= cfg.volumeStep THEN 0
    ELSE (ctx.expectedVolume \div cfg.volumeStep) * cfg.volumeStepBond

ApplyBps(amount, bps) == (amount * bps) \div BPS_DENOMINATOR

\* The steps that multiply do so only on their condition.
Scaled(amount, condition, bps) ==
  IF condition THEN ApplyBps(amount, bps) ELSE amount

Clamp(amount, cfg) ==
  IF amount < cfg.minBond THEN cfg.minBond
  ELSE IF amount > cfg.maxBond THEN cfg.maxBond
  ELSE amount

FraudHistory(ctx) ==
  \/ ctx.fraudCount > 0
  \/ ctx.creatorTier = "Suspended"
  \/ ctx.reputation = "Risky"

Discounted(ctx) ==
  ctx.creatorTier \in {"Verified", "Premium"} \/ ctx.reputation = "Trusted"

Discount(ctx, cfg) ==
  IF ctx.creatorTier = "Premium" THEN cfg.premiumDiscountBps
    ELSE cfg.verifiedDiscountBps

\* The surcharge of the disputes is computed in 256 bits and cut to 16.
SurchargeBps(ctx, cfg) ==
  (BPS_DENOMINATOR + ctx.disputeCount * cfg.disputeSurchargeBps) % 65536

\* Before the disputes, and before the clamp.
Started(ctx, cfg) ==
  Scaled(Scaled(BaseBond(ctx, cfg) + VolumePremium(ctx, cfg),
                ctx.mode = "Underworld", cfg.underworldMultiplierBps),
         HighRisk(ctx), cfg.highRiskMultiplierBps)

Summed(ctx, cfg, surcharge) ==
  Scaled(Scaled(Scaled(Started(ctx, cfg), ctx.disputeCount > 0, surcharge),
                FraudHistory(ctx), cfg.fraudMultiplierBps),
         Discounted(ctx), BPS_DENOMINATOR - Discount(ctx, cfg))

\* previewBond reverts: on its configuration, on a division by a step of
\* zero, or on the subtraction of a discount of more than the whole.
Reverts(ctx, cfg) ==
  \/ ~AssertConfig(cfg)
  \/ ctx.expectedVolume > cfg.volumeStep /\ cfg.volumeStep = 0
  \/ Discounted(ctx) /\ Discount(ctx, cfg) > BPS_DENOMINATOR

PreviewBond(ctx, cfg) ==
  Clamp(Summed(ctx, cfg, SurchargeBps(ctx, cfg)), cfg)

-----------------------------------------------------------------------------
\* The estimate of the application, calculateCreationBond.  Its surcharge is
\* not cut, and a discount of more than the whole leaves the minimum.

EstimateThrows(ctx, cfg) ==
  \/ ~AssertConfig(cfg)
  \/ ctx.expectedVolume > cfg.volumeStep /\ cfg.volumeStep = 0

WholeSurchargeBps(ctx, cfg) ==
  BPS_DENOMINATOR + ctx.disputeCount * cfg.disputeSurchargeBps

EstimatedBond(ctx, cfg) ==
  IF Discounted(ctx) /\ Discount(ctx, cfg) > BPS_DENOMINATOR THEN cfg.minBond
    ELSE Clamp(Summed(ctx, cfg, WholeSurchargeBps(ctx, cfg)), cfg)

\* What a market's category says, as far as either side looks at it.
Words == {"sport", "weather", "tech", "crypto", "pop", "news", "viral", "strange"}

MarketBondCategoryId(words, underworld) ==
  IF underworld
    THEN IF "viral" \in words THEN "VIRAL"
         ELSE IF "strange" \in words THEN "STRANGE_EVENTS" ELSE "USER_MARKETS"
  ELSE IF "sport" \in words THEN "SPORTS"
  ELSE IF "weather" \in words THEN "WEATHER"
  ELSE IF "tech" \in words THEN "TECHNOLOGY"
  ELSE IF "crypto" \in words THEN "CRYPTO"
  ELSE IF "pop" \in words THEN "CULTURE_POP"
  ELSE IF "news" \in words THEN "NEWS"
  ELSE "VANILLA_MARKET"

BountyBondCategoryId(underworld) ==
  IF underworld THEN "UNDERWORLD_BOUNTY" ELSE "VANILLA_BOUNTY"

ChallengeBondCategoryId(underworld, performerOffer) ==
  IF performerOffer
    THEN IF underworld THEN "UNDERWORLD_PERFORMER_OFFER"
                       ELSE "VANILLA_PERFORMER_OFFER"
    ELSE IF underworld THEN "UNDERWORLD_CHALLENGE" ELSE "VANILLA_CHALLENGE"

Newcomer ==
  [creatorTier |-> "Basic", reputation |-> "New", disputeCount |-> 0,
   fraudCount |-> 0]

ContextOf(entity, profile, mode, risk, volume) ==
  [entityType |-> entity, mode |-> mode, creatorTier |-> profile.creatorTier,
   categoryRisk |-> risk, reputation |-> profile.reputation,
   expectedVolume |-> volume, disputeCount |-> profile.disputeCount,
   fraudCount |-> profile.fraudCount]

\* What the application estimates from, as long as previewBond has not
\* answered.
FallbackRisk(entity, words, underworld) ==
  IF entity = "Market"
    THEN IF ~underworld /\ words \cap {"sport", "weather"} # {}
           THEN "Low" ELSE "Medium"
    ELSE IF underworld THEN "High" ELSE "Medium"

FallbackContext(entity, words, underworld, volume) ==
  ContextOf(entity, Newcomer, IF underworld THEN "Underworld" ELSE "Vanilla",
            FallbackRisk(entity, words, underworld), volume)

-----------------------------------------------------------------------------
\* The contracts.

InitialConfig ==
  [minBond |-> 500000, lowRiskBaseBond |-> 500000,
   standardBaseBond |-> 3000000, highRiskBaseBond |-> 5000000,
   maxBond |-> 10000000, smallMarketVolumeThreshold |-> 50000000,
   volumeStep |-> 250000000, volumeStepBond |-> 1000000,
   verifiedDiscountBps |-> 2000, premiumDiscountBps |-> 4000,
   underworldMultiplierBps |-> 15000, highRiskMultiplierBps |-> 15000,
   disputeSurchargeBps |-> 1000, fraudMultiplierBps |-> 20000]

Rule(entity, mode, risk) ==
  [entities |-> {entity}, mode |-> mode, riskLevel |-> risk, enabled |-> TRUE]

NoRule ==
  [entities |-> {}, mode |-> "Vanilla", riskLevel |-> "Low", enabled |-> FALSE]

InitialRule(category) ==
  CASE category \in {"SPORTS", "WEATHER"} -> Rule("Market", "Vanilla", "Low")
    [] category \in {"TECHNOLOGY", "CRYPTO", "CULTURE_POP", "NEWS",
                     "VANILLA_MARKET"} -> Rule("Market", "Vanilla", "Medium")
    [] category = "USER_MARKETS" -> Rule("Market", "Underworld", "Medium")
    [] category \in {"STRANGE_EVENTS", "VIRAL"} ->
         Rule("Market", "Underworld", "High")
    [] category = "VANILLA_BOUNTY" -> Rule("Bounty", "Vanilla", "Medium")
    [] category = "UNDERWORLD_BOUNTY" -> Rule("Bounty", "Underworld", "High")
    [] category \in {"VANILLA_CHALLENGE", "VANILLA_PERFORMER_OFFER"} ->
         Rule("Challenge", "Vanilla", "Medium")
    [] category \in {"UNDERWORLD_CHALLENGE", "UNDERWORLD_PERFORMER_OFFER"} ->
         Rule("Challenge", "Underworld", "High")
    [] OTHER -> NoRule

PolicyInit ==
  /\ config = InitialConfig
  /\ categoryRules = [c \in Categories |-> InitialRule(c)]
  /\ creatorProfiles = [a \in Creators |-> Newcomer]

UpdateConfig(next) ==
  /\ AssertConfig(next)
  /\ config' = next
  /\ UNCHANGED <<categoryRules, creatorProfiles>>

SetCategoryRule(category, rule) ==
  /\ rule.entities # {}
  /\ categoryRules' = [categoryRules EXCEPT ![category] = rule]
  /\ UNCHANGED <<config, creatorProfiles>>

SetCreatorProfile(creator, profile) ==
  /\ creatorProfiles' = [creatorProfiles EXCEPT ![creator] = profile]
  /\ UNCHANGED <<config, categoryRules>>

\* resolve reverts unless the rule is enabled for the kind of entity.
Resolves(entity, category) ==
  categoryRules[category].enabled /\ entity \in categoryRules[category].entities

Resolve(creator, entity, category, volume) ==
  ContextOf(entity, creatorProfiles[creator], categoryRules[category].mode,
            categoryRules[category].riskLevel, volume)

PolicyNext ==
  \/ \E next \in BondConfig : UpdateConfig(next)
  \/ \E category \in Categories, rule \in CategoryRule :
       SetCategoryRule(category, rule)
  \/ \E creator \in Creators, profile \in CreatorProfile :
       SetCreatorProfile(creator, profile)

PolicySpec == PolicyInit /\ [][PolicyNext]_policyVars

-----------------------------------------------------------------------------
(***************************************************************************)
(* Properties                                                              *)
(***************************************************************************)

\* Every variable keeps its type.
PolicyTypeOK ==
  /\ config \in BondConfig
  /\ categoryRules \in [Categories -> CategoryRule]
  /\ creatorProfiles \in [Creators -> CreatorProfile]

\* What a factory is told to take (previewBond of what resolve returns) is
\* positive and within the policy's own limits, whatever the governor has set
\* and whatever the profile of the creator says.
BondInLimits ==
  \A creator \in Creators, entity \in EntityType, category \in Categories,
     volume \in Nat :
    LET ctx == Resolve(creator, entity, category, volume)
        bond == PreviewBond(ctx, config)
    IN  Resolves(entity, category) /\ ~Reverts(ctx, config) =>
          bond > 0 /\ bond \in config.minBond .. config.maxBond
=============================================================================
