------------------------------ MODULE GatesProofs ------------------------------
(***************************************************************************)
(* Proofs about Gates, for all jobs and thresholds.                        *)
(*                                                                         *)
(* A job is decided once, from its scan, so the inductive invariant        *)
(* DecisionInv only says which operator the decision came from.  The work  *)
(* is in the lemmas about Detect: its level and score are the greatest of a  *)
(* set of contributions, one per detector.                                 *)
(***************************************************************************)
EXTENDS Gates, WellFoundedInduction, TLAPS

(* Every set of numbers has a least one, by the well-foundedness of <, and *)
(* a bounded one has a greatest, which Max finds.                          *)
LEMMA Least ==
  ASSUME NEW T \in SUBSET Nat, T # {}
  PROVE  \E x \in T : \A y \in T : x <= y
<1> DEFINE R == {ss \in Nat \X Nat : ss[1] < ss[2]}
<1>1. IsWellFoundedOn(R, Nat)
  BY NatLessThanWellFounded DEF OpToRel
<1>2. PICK x \in T : \A y \in T : ~(<<y, x>> \in R)
  <2> HIDE DEF R
  <2> QED
    BY <1>1, WFMin
<1>3. \A y \in T : ~(y < x)
  BY <1>2
<1> QED
  BY <1>3

LEMMA Greatest ==
  ASSUME NEW n \in Nat, NEW T \in SUBSET (-n .. n), T # {}
  PROVE  Max(T) \in T /\ \A y \in T : y <= Max(T)
<1> DEFINE U == {n - x : x \in T}
<1>1. U \subseteq Nat
  OBVIOUS
<1>2. U # {}
  <2>1. PICK x \in T : TRUE
    OBVIOUS
  <2> QED
    BY <2>1
<1>3. PICK u \in U : \A v \in U : u <= v
  <2> HIDE DEF U
  <2> QED
    BY <1>1, <1>2, Least
<1>4. PICK x \in T : u = n - x
  OBVIOUS
<1>5. \A y \in T : x >= y
  <2> TAKE y \in T
  <2>1. n - y \in U
    OBVIOUS
  <2>2. n - x <= n - y /\ x \in Int /\ y \in Int
    <3> HIDE DEF U
    <3> QED
      BY <1>3, <1>4, <2>1
  <2> HIDE DEF U
  <2> QED
    BY <2>2
<1> HIDE DEF U
<1>6. Max(T) \in T /\ \A y \in T : Max(T) >= y
  BY <1>5 DEF Max
<1> QED
  BY <1>6

(* Scores and similarities are hundredths; levels are small scores.        *)
LEMMA HighestIs ==
  ASSUME NEW S \in SUBSET (-100 .. 100)
  PROVE  /\ Highest(S) \in 0 .. 100
         /\ Highest(S) \in S \union {0}
         /\ \A x \in S : x <= Highest(S)
<1>1. {0} \union S \in SUBSET (-100 .. 100) /\ {0} \union S # {}
  OBVIOUS
<1> DEFINE T == {0} \union S
<1> HIDE DEF T
<1>2. Max(T) \in T /\ \A y \in T : y <= Max(T)
  BY <1>1, Greatest DEF T
<1>3. Highest(S) = Max(T)
  BY DEF T, Highest
<1>4. \A x \in S \union {0} : x \in T /\ x \in -100 .. 100
  BY <1>1 DEF T
<1>5. Max(T) \in S \union {0}
  BY <1>2 DEF T
<1>6. 0 <= Max(T) /\ \A x \in S : x <= Max(T)
  BY <1>2, <1>4
<1>7. Max(T) \in -100 .. 100
  BY <1>4, <1>5
<1>8. Max(T) \in 0 .. 100
  BY <1>6, <1>7
<1> QED
  BY <1>3, <1>5, <1>6, <1>8

(* More contributions, or greater ones, give a greater maximum.            *)
LEMMA HighestMonotone ==
  ASSUME NEW S \in SUBSET (-100 .. 100), NEW T \in SUBSET (-100 .. 100),
         \A x \in S : x <= 0 \/ \E y \in T : x <= y
  PROVE  Highest(S) <= Highest(T)
<1>1. /\ Highest(S) \in 0 .. 100 /\ Highest(S) \in S \union {0}
      /\ Highest(T) \in 0 .. 100
      /\ \A y \in T : y <= Highest(T)
  BY HighestIs
<1>2. Highest(S) \in Int /\ Highest(T) \in Int /\ 0 <= Highest(T)
  BY <1>1
<1>3. CASE Highest(S) \in S
  <2>1. CASE Highest(S) <= 0
    BY <1>2, <2>1
  <2>2. CASE \E y \in T : Highest(S) <= y
    <3>1. PICK y \in T : Highest(S) <= y
      BY <2>2
    <3>2. y <= Highest(T) /\ y \in Int
      BY <1>1
    <3> QED
      BY <1>2, <3>1, <3>2
  <2> QED
    BY <1>3, <2>1, <2>2
<1> QED
  BY <1>1, <1>2, <1>3

-----------------------------------------------------------------------------
(* What a detector says of a text: of the findings in what is left of it.  *)
TreeFindings == TreeOf(ContentFindings, InputFindings)

LEMMA TieredIs ==
  ASSUME NEW hits \in HitCounts
  PROVE  /\ Tiered(hits).level \in Levels
         /\ Tiered(hits).score \in 0 .. 100
         /\ Tiered(hits).score >= 90 => Tiered(hits).level = High
         /\ hits.strong = 0 /\ hits.weak <= 1 => Tiered(hits).level <= Low
<1> USE DEF Levels, Clean, Low, Medium, High
<1>1. hits.strong \in Nat /\ hits.weak \in Nat
  BY DEF HitCounts
<1>2. /\ Attack(90, High).score = 90 /\ Attack(90, High).level = High
      /\ Attack(60, Medium).score = 60 /\ Attack(60, Medium).level = Medium
      /\ Attack(30, Low).score = 30 /\ Attack(30, Low).level = Low
      /\ Attack(0, Clean).score = 0 /\ Attack(0, Clean).level = Clean
  BY DEF Attack
<1>3. CASE hits.strong > 0
  <2>1. Tiered(hits) = Attack(90, High)
    BY <1>3 DEF Tiered
  <2> QED
    BY <1>1, <1>2, <1>3, <2>1
<1>4. CASE hits.strong = 0 /\ hits.weak >= 2
  <2>1. Tiered(hits) = Attack(60, Medium)
    BY <1>4 DEF Tiered
  <2> QED
    BY <1>1, <1>2, <1>4, <2>1
<1>5. CASE hits.strong = 0 /\ hits.weak = 1
  <2>1. Tiered(hits) = Attack(30, Low)
    BY <1>5 DEF Tiered
  <2> QED
    BY <1>2, <2>1
<1>6. CASE hits.strong = 0 /\ hits.weak = 0
  <2>1. Tiered(hits) = Attack(0, Clean)
    BY <1>6 DEF Tiered
  <2> QED
    BY <1>2, <2>1
<1> QED
  BY <1>1, <1>3, <1>4, <1>5, <1>6

LEMMA TieredDetects ==
  ASSUME NEW hits \in HitCounts, Tiered(hits).level # Clean
  PROVE  Tiered(hits).detected
<1>1. PICK score \in 0 .. 100, l \in Levels : Tiered(hits) = Attack(score, l)
  BY DEF Tiered, Levels, Clean, Low, Medium, High
<1>2. Attack(score, l).level = l
  BY DEF Attack
<1>3. l > Clean
  BY <1>1, <1>2 DEF Levels, Clean, High
<1>4. Attack(score, l).detected
  BY <1>3 DEF Attack
<1> QED
  BY <1>1, <1>4

LEMMA EntityWeights == \A e \in Entities : EntityWeight[e] \in 0 .. 100
BY DEF Entities, EntityWeight

LEMMA PiiIs ==
  ASSUME NEW found \in SUBSET Entities, NEW ignore \in SUBSET Entities
  PROVE  /\ Pii(found, ignore).entities = found \ ignore
         /\ Pii(found, ignore).score \in 0 .. 100
         /\ Pii(found, ignore).level \in Levels
         /\ Pii(found, ignore).score >= 90 => Pii(found, ignore).level = High
         /\ found \subseteq ignore => Pii(found, ignore).level = Clean
                                      /\ Pii(found, ignore).score = 0
         /\ \A e \in found \ ignore : EntityWeight[e] <= Pii(found, ignore).score
         /\ Pii(found, ignore).score # 0 => found \ ignore # {}
<1> DEFINE W == {EntityWeight[e] : e \in found \ ignore}
<1>1. W \in SUBSET (-100 .. 100)
  BY EntityWeights
<1>2. Highest(W) \in 0 .. 100 /\ Highest(W) \in W \union {0}
      /\ \A x \in W : x <= Highest(W)
  <2> HIDE DEF W
  <2> QED
    BY <1>1, HighestIs
<1>3. /\ Pii(found, ignore).entities = found \ ignore
      /\ Pii(found, ignore).score = Highest(W)
      /\ Pii(found, ignore).level = RiskFromScore(Highest(W))
  BY DEF Pii
<1>4. \A e \in found \ ignore : EntityWeight[e] \in W
  OBVIOUS
<1>5. found \subseteq ignore => W = {}
  OBVIOUS
<1>6. Highest(W) # 0 => found \ ignore # {}
  BY <1>2
<1> HIDE DEF W
<1> QED
  BY <1>2, <1>3, <1>4, <1>5, <1>6
  DEF RiskFromScore, Levels, Clean, Low, Medium, High

LEMMA SecretsIs ==
  ASSUME NEW text \in FindingRecords
  PROVE  /\ Secrets(text).level \in Levels
         /\ Secrets(text).named = text.named
         /\ Secrets(text).detected <=> text.named \/ text.entropy
         /\ text.named => Secrets(text).level = High
         /\ ~Secrets(text).detected => Secrets(text).level = Clean
         /\ Secrets(text).level = High => text.named
BY DEF FindingRecords, Secrets, Levels, Clean, Low, Medium, High

LEMMA SemanticIs ==
  ASSUME NEW text \in FindingRecords
  PROVE  /\ SemanticVerdict(text).detected \in BOOLEAN
         /\ SemanticVerdict(text).score \in -100 .. 100
         /\ SemanticVerdict(text).detected =>
              \/ SemanticVerdict(text).score >= ThresholdInjection
              \/ SemanticVerdict(text).score >= ThresholdJailbreak
         /\ ~SemanticVerdict(text).detected =>
              \/ SemanticVerdict(text).score < ThresholdInjection
              \/ SemanticVerdict(text).score < ThresholdJailbreak
<1>1. /\ text.injectionScore \in -100 .. 100 /\ text.jailbreakScore \in -100 .. 100
      /\ ThresholdInjection \in 0 .. 100 /\ ThresholdJailbreak \in 0 .. 100
  BY ThresholdAssumption DEF FindingRecords
<1> DEFINE S == {text.injectionScore, text.jailbreakScore}
<1>2. S \in SUBSET (-100 .. 100) /\ S # {}
  BY <1>1
<1>3. Max(S) \in S /\ \A y \in S : y <= Max(S)
  <2> HIDE DEF S
  <2> QED
    BY <1>2, Greatest
<1>4. /\ Max(S) \in -100 .. 100
      /\ text.injectionScore <= Max(S) /\ text.jailbreakScore <= Max(S)
      /\ Max(S) = text.injectionScore \/ Max(S) = text.jailbreakScore
  BY <1>1, <1>3
<1> QED
  BY <1>1, <1>4 DEF SemanticVerdict

-----------------------------------------------------------------------------
(* What a scan adds up, by name.                                           *)
SemanticHit(text) == SemanticVerdict(text).detected \/ ClassifierVerdict(text)

CrossAgent(prompt, context) ==
  context.crossAgent
  /\ \/ Tiered(prompt.injection).detected
     \/ Tiered(prompt.jailbreak).detected
     \/ SemanticHit(prompt)

(* What counts as an attack that came with the tree and scores 1.0.        *)
TreeAttack(prompt, context) ==
  \/ IndirectInjection(context)
  \/ ToolPolicyViolation(context)
  \/ CrossAgent(prompt, context)
  \/ ImageInjection(context)

ScanLevels(prompt, response, ignore, context) ==
  {Tiered(prompt.injection).level, Tiered(prompt.jailbreak).level,
   Tiered(prompt.skeleton).level,
   If(TreeAttack(prompt, context) \/ RagPoisoning(context), High),
   If(ToolExfiltration(context, ignore), Medium),
   SemanticLevel(SemanticHit(prompt)),
   Pii(prompt.pii, ignore).level, Pii(response.pii, ignore).level,
   Secrets(prompt).level, Secrets(response).level}

ScanScores(prompt, response, ignore, context) ==
  {Tiered(prompt.injection).score, Tiered(prompt.jailbreak).score,
   Tiered(prompt.skeleton).score,
   If(TreeAttack(prompt, context), 100),
   If(RagPoisoning(context), RagScore(context)),
   If(ToolExfiltration(context, ignore), 50),
   SemanticVerdict(prompt).score,
   Pii(prompt.pii, ignore).score, Pii(response.pii, ignore).score,
   IF Secrets(prompt).named \/ Secrets(response).named THEN 100
   ELSE If(Secrets(prompt).detected \/ Secrets(response).detected, 50)}

LEMMA ScanLevelIs ==
  ASSUME NEW prompt, NEW response, NEW ignore, NEW context
  PROVE  Detect(prompt, response, ignore, context).level =
           Highest(ScanLevels(prompt, response, ignore, context))
<1> DEFINE attack == \/ IndirectInjection(context) \/ RagPoisoning(context)
                     \/ ToolPolicyViolation(context)
                     \/ CrossAgent(prompt, context) \/ ImageInjection(context)
           A == {Tiered(prompt.injection).level, Tiered(prompt.jailbreak).level,
                 Tiered(prompt.skeleton).level, If(attack, High),
                 If(ToolExfiltration(context, ignore), Medium),
                 SemanticLevel(SemanticHit(prompt)),
                 Pii(prompt.pii, ignore).level, Pii(response.pii, ignore).level}
           B == {s.level : s \in {Secrets(prompt), Secrets(response)}}
<1>1. Detect(prompt, response, ignore, context).level = Highest(A \union B)
  BY DEF Detect, CrossAgent, SemanticHit
<1>2. B = {Secrets(prompt).level, Secrets(response).level}
  OBVIOUS
<1>3. If(attack, High) = If(TreeAttack(prompt, context) \/ RagPoisoning(context), High)
  BY DEF If, TreeAttack
<1>4. A \union B = ScanLevels(prompt, response, ignore, context)
  BY <1>2, <1>3 DEF ScanLevels
<1> QED
  BY <1>1, <1>4

LEMMA ScanScoreIs ==
  ASSUME NEW prompt, NEW response, NEW ignore, NEW context
  PROVE  Detect(prompt, response, ignore, context).score =
           Highest(ScanScores(prompt, response, ignore, context))
<1>1. (\E s \in {Secrets(prompt), Secrets(response)} : s.named) <=>
        Secrets(prompt).named \/ Secrets(response).named
  OBVIOUS
<1>2. (\E s \in {Secrets(prompt), Secrets(response)} : s.detected) <=>
        Secrets(prompt).detected \/ Secrets(response).detected
  OBVIOUS
<1> QED
  BY <1>1, <1>2 DEF Detect, ScanScores, CrossAgent, SemanticHit, TreeAttack, If

LEMMA ScanFields ==
  ASSUME NEW prompt, NEW response, NEW ignore, NEW context, NEW r,
         r = Detect(prompt, response, ignore, context)
  PROVE  /\ r.injection <=> Tiered(prompt.injection).detected
         /\ r.jailbreak <=> Tiered(prompt.jailbreak).detected
         /\ r.skeleton <=> Tiered(prompt.skeleton).detected
         /\ r.semanticScore = SemanticVerdict(prompt).score
         /\ r.piiPrompt = prompt.pii \ ignore
         /\ r.piiResponse = response.pii \ ignore
         /\ r.secrets <=> Secrets(prompt).detected \/ Secrets(response).detected
         /\ r.secretTypes <=> Secrets(prompt).named \/ Secrets(response).named
BY DEF Detect, Pii
-----------------------------------------------------------------------------
(* Every contribution is a level, or a score; so their maxima are.         *)
LEMMA RecordTypes ==
  ASSUME NEW text \in FindingRecords, NEW context \in TreeFindings
  PROVE  /\ text.injection \in HitCounts /\ text.jailbreak \in HitCounts
         /\ text.skeleton \in HitCounts /\ text.pii \in SUBSET Entities
         /\ \A c \in context.toolOutputs \union context.contextDocs :
              c.phrases \in BOOLEAN /\ c.similarity \in -100 .. 100
BY DEF FindingRecords, ContentFindings, InputFindings, TreeFindings, TreeOf

LEMMA RagScoreIs ==
  ASSUME NEW context \in TreeFindings
  PROVE  /\ RagScore(context) \in 0 .. 100
         /\ \A d \in context.contextDocs : d.similarity <= RagScore(context)
<1> DEFINE S == {d.similarity : d \in context.contextDocs}
<1>1. \A d \in context.contextDocs : d.similarity \in -100 .. 100
  BY DEF TreeFindings, TreeOf, ContentFindings
<1>2. S \in SUBSET (-100 .. 100)
  BY <1>1
<1>3. Highest(S) \in 0 .. 100 /\ \A x \in S : x <= Highest(S)
  <2> HIDE DEF S
  <2> QED
    BY <1>2, HighestIs
<1> QED
  BY <1>3 DEF RagScore

LEMMA ContributionTypes ==
  ASSUME NEW prompt \in FindingRecords, NEW response \in FindingRecords,
         NEW ignore \in SUBSET Entities, NEW context \in TreeFindings
  PROVE  /\ ScanLevels(prompt, response, ignore, context) \subseteq Levels
         /\ ScanScores(prompt, response, ignore, context) \subseteq -100 .. 100
<1> USE DEF Levels, Clean, Low, Medium, High
<1>1. /\ {prompt.injection, prompt.jailbreak, prompt.skeleton} \subseteq HitCounts
      /\ prompt.pii \in SUBSET Entities /\ response.pii \in SUBSET Entities
  BY RecordTypes
<1>2. \A hits \in {prompt.injection, prompt.jailbreak, prompt.skeleton} :
        Tiered(hits).level \in Levels /\ Tiered(hits).score \in -100 .. 100
  BY <1>1, TieredIs
<1>3. \A text \in {prompt, response} :
        /\ Pii(text.pii, ignore).level \in Levels
        /\ Pii(text.pii, ignore).score \in -100 .. 100
        /\ Secrets(text).level \in Levels
  <2> TAKE text \in {prompt, response}
  <2>1. text.pii \in SUBSET Entities
    BY <1>1
  <2>2. Pii(text.pii, ignore).level \in Levels /\ Pii(text.pii, ignore).score \in 0 .. 100
    BY <2>1, PiiIs
  <2>3. Secrets(text).level \in Levels
    BY SecretsIs
  <2> QED
    BY <2>2, <2>3
<1>4. ScanLevels(prompt, response, ignore, context) \subseteq Levels
  BY <1>2, <1>3 DEF ScanLevels, If, SemanticLevel
<1>5. SemanticVerdict(prompt).score \in -100 .. 100 /\ RagScore(context) \in -100 .. 100
  BY SemanticIs, RagScoreIs
<1>6. ScanScores(prompt, response, ignore, context) \subseteq -100 .. 100
  BY <1>2, <1>3, <1>5 DEF ScanScores, If
<1> QED
  BY <1>4, <1>6

LEMMA ScanAdds ==
  ASSUME NEW prompt \in FindingRecords, NEW response \in FindingRecords,
         NEW ignore \in SUBSET Entities, NEW context \in TreeFindings
  PROVE  LET r == Detect(prompt, response, ignore, context)
             levels == ScanLevels(prompt, response, ignore, context)
             scores == ScanScores(prompt, response, ignore, context)
         IN /\ r.level \in Levels /\ r.level \in levels \union {Clean}
            /\ \A l \in levels : l \in Levels /\ l <= r.level
            /\ r.score \in 0 .. 100 /\ r.score \in scores \union {0}
            /\ \A x \in scores : x \in -100 .. 100 /\ x <= r.score
<1> DEFINE levels == ScanLevels(prompt, response, ignore, context)
           scores == ScanScores(prompt, response, ignore, context)
<1>1. levels \subseteq Levels /\ scores \subseteq -100 .. 100
  BY ContributionTypes
<1>2. levels \in SUBSET (-100 .. 100) /\ scores \in SUBSET (-100 .. 100)
  BY <1>1 DEF Levels, Clean, High
<1> HIDE DEF levels, scores
<1>3. /\ Highest(levels) \in levels \union {0}
      /\ \A x \in levels : x <= Highest(levels)
      /\ Highest(scores) \in 0 .. 100 /\ Highest(scores) \in scores \union {0}
      /\ \A x \in scores : x <= Highest(scores)
  BY <1>2, HighestIs
<1>4. Highest(levels) \in Levels
  <2>1. levels \union {0} \subseteq Levels
    BY <1>1 DEF Levels, Clean, High
  <2> QED
    BY <1>3, <2>1
<1>5. /\ Detect(prompt, response, ignore, context).level = Highest(levels)
      /\ Detect(prompt, response, ignore, context).score = Highest(scores)
  BY ScanLevelIs, ScanScoreIs DEF levels, scores
<1> QED
  BY <1>1, <1>3, <1>4, <1>5 DEF levels, scores, Clean

(* A scan of 0.9 or more is HIGH, when a semantic hit may block and no     *)
(* scope's threshold is above 0.9.                                         *)
BadgeConfig ==
  /\ SemanticBlocks
  /\ ThresholdInjection <= 90
  /\ ThresholdJailbreak <= 90

LEMMA TopSimilarityDetected ==
  ASSUME NEW text \in FindingRecords, BadgeConfig, SemanticVerdict(text).score >= 90
  PROVE  SemanticVerdict(text).detected
<1>1. /\ text.injectionScore \in -100 .. 100 /\ text.jailbreakScore \in -100 .. 100
      /\ ThresholdInjection \in 0 .. 100 /\ ThresholdJailbreak \in 0 .. 100
  BY ThresholdAssumption DEF FindingRecords
<1> DEFINE S == {text.injectionScore, text.jailbreakScore}
<1>2. Max(S) \in S /\ \A y \in S : y <= Max(S)
  <2>1. S \in SUBSET (-100 .. 100) /\ S # {}
    BY <1>1
  <2> HIDE DEF S
  <2> QED
    BY <2>1, Greatest
<1>3. /\ Max(S) \in -100 .. 100
      /\ text.injectionScore <= Max(S) /\ text.jailbreakScore <= Max(S)
      /\ Max(S) = text.injectionScore \/ Max(S) = text.jailbreakScore
  BY <1>1, <1>2
<1> QED
  BY <1>1, <1>3 DEF SemanticVerdict, BadgeConfig

LEMMA TopScoreIsHigh ==
  ASSUME NEW prompt \in FindingRecords, NEW response \in FindingRecords,
         NEW ignore \in SUBSET Entities, NEW context \in TreeFindings,
         BadgeConfig, Detect(prompt, response, ignore, context).score >= 90
  PROVE  Detect(prompt, response, ignore, context).level = High
<1> USE DEF Levels, Clean, Low, Medium, High
<1> DEFINE r == Detect(prompt, response, ignore, context)
           levels == ScanLevels(prompt, response, ignore, context)
           scores == ScanScores(prompt, response, ignore, context)
<1>1. /\ r.level \in Levels /\ \A l \in levels : l <= r.level
      /\ r.score \in 0 .. 100 /\ r.score \in scores \union {0}
  BY ScanAdds
<1>2. r.score \in scores /\ r.score >= 90
  BY <1>1
<1> SUFFICES High \in levels
  <2> HIDE DEF r, levels
  <2>1. High \in levels => r.level = High
    BY <1>1
  <2> QED
    BY <2>1 DEF r, levels
<1>3. /\ {prompt.injection, prompt.jailbreak, prompt.skeleton} \subseteq HitCounts
      /\ prompt.pii \in SUBSET Entities /\ response.pii \in SUBSET Entities
  BY RecordTypes
<1>4. CASE r.score \in {Tiered(prompt.injection).score, Tiered(prompt.jailbreak).score,
                        Tiered(prompt.skeleton).score}
  <2>1. PICK hits \in {prompt.injection, prompt.jailbreak, prompt.skeleton} :
          r.score = Tiered(hits).score
    BY <1>4
  <2>2. Tiered(hits).level = High
    BY <1>2, <1>3, <2>1, TieredIs
  <2> QED
    BY <2>2 DEF ScanLevels
<1>5. CASE r.score \in {If(TreeAttack(prompt, context), 100),
                        If(RagPoisoning(context), RagScore(context))}
  <2>1. TreeAttack(prompt, context) \/ RagPoisoning(context)
    BY <1>2, <1>5 DEF If
  <2> QED
    BY <2>1 DEF ScanLevels, If
<1>6. CASE r.score = If(ToolExfiltration(context, ignore), 50)
  BY <1>2, <1>6 DEF If
<1>7. CASE r.score = SemanticVerdict(prompt).score
  <2>1. SemanticVerdict(prompt).detected
    BY <1>2, <1>7, TopSimilarityDetected
  <2> QED
    BY <2>1 DEF ScanLevels, SemanticLevel, SemanticHit, If, BadgeConfig
<1>8. CASE r.score \in {Pii(prompt.pii, ignore).score, Pii(response.pii, ignore).score}
  <2>1. PICK found \in {prompt.pii, response.pii} : r.score = Pii(found, ignore).score
    BY <1>8
  <2>2. found \in SUBSET Entities /\ Pii(found, ignore).score >= 90
    <3> HIDE DEF r, scores
    <3> QED
      BY <1>2, <1>3, <2>1
  <2>3. Pii(found, ignore).level = High
    BY <2>2, PiiIs
  <2> QED
    BY <2>3 DEF ScanLevels
<1>9. CASE r.score = IF Secrets(prompt).named \/ Secrets(response).named THEN 100
                     ELSE If(Secrets(prompt).detected \/ Secrets(response).detected, 50)
  <2>1. PICK text \in {prompt, response} : Secrets(text).named
    BY <1>2, <1>9 DEF If
  <2>2. Secrets(text).level = High
    BY <2>1, SecretsIs
  <2> QED
    BY <2>2 DEF ScanLevels
<1> QED
  BY <1>2, <1>4, <1>5, <1>6, <1>7, <1>8, <1>9 DEF ScanScores

-----------------------------------------------------------------------------
(* The decision follows from the scan of the job, and only from it.        *)
Decided ==
  /\ level = result.level
  /\ job.operation = "security_check_sync" =>
       blocked = PreCallBlocks(result, job.policy) /\ types = PreCallTypes(result)
  /\ job.operation = "response_gate_check" =>
       blocked = GateBlocks(result) /\ types = GateTypes(result)
  /\ job.operation = "sdk_security" =>
       blocked = (result.level = High) /\ types = {}

DecisionInv ==
  /\ job \in Jobs
  /\ status \in {"received", "scanned", "failed", "failed open", "answered"}
  /\ result = IF status \in {"scanned", "answered"} THEN ScanOf(job) ELSE Nothing
  /\ IF status = "answered" THEN Decided
     ELSE blocked = FALSE /\ level = Clean /\ types = {}

THEOREM DecisionInvariant == Spec => []DecisionInv
<1>1. Init => DecisionInv
  BY DEF Init, DecisionInv
<1>2. DecisionInv /\ [Next]_vars => DecisionInv'
  <2> SUFFICES ASSUME DecisionInv, [Next]_vars PROVE DecisionInv'
    OBVIOUS
  <2>1. CASE RunScan \/ ScanRaises \/ FailOpen
    BY <2>1 DEF DecisionInv, RunScan, ScanRaises, FailOpen
  <2>2. CASE AnswerPreCall
    BY <2>2 DEF DecisionInv, Decided, AnswerPreCall, Decide
  <2>3. CASE AnswerGate
    BY <2>3 DEF DecisionInv, Decided, AnswerGate, Decide
  <2>4. CASE StoreRow
    BY <2>4 DEF DecisionInv, Decided, StoreRow, Decide
  <2>5. CASE UNCHANGED vars
    BY <2>5 DEF DecisionInv, Decided, vars
  <2> QED
    BY <2>1, <2>2, <2>3, <2>4, <2>5 DEF Next
<1> QED
  BY <1>1, <1>2, PTL DEF Spec

LEMMA BlankRecords == BlankFindings \in FindingRecords /\ NoContext \in TreeFindings
<1>1. NoHits \in HitCounts
  BY DEF NoHits, HitCounts
<1> QED
  BY <1>1 DEF BlankFindings, NoContext, FindingRecords, TreeFindings, TreeOf

(* What is left of texts and trees after _cap.                             *)
LEMMA CapIs ==
  /\ \A text \in TextRecords :
       text.head \in FindingRecords /\ Cap(text).all = text.head
  /\ Cap(BlankText).all = BlankFindings
  /\ CapTree(NoContext) = NoContext
<1>1. ASSUME NEW text \in TextRecords
      PROVE  text.head \in FindingRecords /\ Cap(text).all = text.head
  BY DEF TextRecords, Capped, Cap
<1>2. Cap(BlankText).all = BlankFindings
  BY DEF Cap, BlankText, Short
<1>3. CapAll({}) = {}
  BY DEF CapAll
<1>4. CapTree(NoContext) = NoContext
  <2>1. /\ NoContext.toolOutputs = {} /\ NoContext.contextDocs = {}
        /\ NoContext.toolInputs = {}
    BY DEF NoContext
  <2>2. CapTree(NoContext) = [NoContext EXCEPT !.toolOutputs = {}, !.contextDocs = {},
                                               !.toolInputs = {}]
    BY <1>3, <2>1 DEF CapTree
  <2> QED
    BY <2>2 DEF NoContext
<1> QED
  BY <1>1, <1>2, <1>4

LEMMA CapTreeIs ==
  ASSUME NEW context \in TreeRecords
  PROVE  /\ CapTree(context) \in TreeFindings
         /\ CapTree(context).toolOutputs = {o.head : o \in context.toolOutputs}
         /\ CapTree(context).contextDocs = {d.head : d \in context.contextDocs}
<1>1. /\ context.toolOutputs \in SUBSET Capped(ContentFindings)
      /\ context.contextDocs \in SUBSET Capped(ContentFindings)
      /\ context.toolInputs \in SUBSET Capped(InputFindings)
  BY DEF TreeRecords, TreeOf
<1>2. ASSUME NEW findings, NEW texts \in SUBSET Capped(findings)
      PROVE  /\ CapAll(texts) \in SUBSET findings
             /\ CapAll(texts) = {t.head : t \in texts}
  <2>1. \A t \in texts : t.head \in findings /\ Cap(t).all = t.head
    BY DEF Capped, Cap
  <2> QED
    BY <2>1 DEF CapAll
<1>3. /\ CapAll(context.toolOutputs) \in SUBSET ContentFindings
      /\ CapAll(context.contextDocs) \in SUBSET ContentFindings
      /\ CapAll(context.toolInputs) \in SUBSET InputFindings
      /\ CapAll(context.toolOutputs) = {o.head : o \in context.toolOutputs}
      /\ CapAll(context.contextDocs) = {d.head : d \in context.contextDocs}
  BY <1>1, <1>2
<1> QED
  BY <1>3 DEF TreeRecords, TreeFindings, TreeOf, CapTree

LEMMA JobParts ==
  ASSUME NEW j \in Jobs
  PROVE  /\ j.operation \in Operations
         /\ j.prompt.head \in FindingRecords /\ j.response.head \in FindingRecords
         /\ Cap(j.prompt).all = j.prompt.head
         /\ Scan(j.prompt, BlankText, j.ignore, NoContext)
              = Detect(j.prompt.head, BlankFindings, j.ignore, NoContext)
         /\ Scan(BlankText, j.response, j.ignore, NoContext)
              = Detect(BlankFindings, j.response.head, j.ignore, NoContext)
         /\ j.context \in TreeRecords
         /\ j.ignore \in SUBSET Entities /\ j.policy \in Policies
         /\ j.gated \in BOOLEAN /\ CapTree(j.context) \in TreeFindings
         /\ j.operation = "security_check_sync" =>
              ScanOf(j) = Detect(j.prompt.head, BlankFindings, j.ignore, NoContext)
         /\ j.operation = "response_gate_check" =>
              ScanOf(j) = Detect(BlankFindings, j.response.head, j.ignore, NoContext)
         /\ j.operation = "sdk_security" =>
              ScanOf(j) = Detect(j.prompt.head, IF j.gated THEN BlankFindings ELSE j.response.head,
                               j.ignore, CapTree(j.context))
<1>1. j \in JobRecords
  BY JobAssumption
<1>2. /\ j.operation \in Operations
      /\ j.prompt \in TextRecords /\ j.response \in TextRecords
      /\ j.ignore \in SUBSET Entities /\ j.policy \in Policies
      /\ j.gated \in BOOLEAN /\ j.context \in TreeRecords
  BY <1>1 DEF JobRecords
<1>3. /\ j.prompt.head \in FindingRecords /\ Cap(j.prompt).all = j.prompt.head
      /\ j.response.head \in FindingRecords /\ Cap(j.response).all = j.response.head
      /\ CapTree(j.context) \in TreeFindings
  BY <1>2, CapIs, CapTreeIs
<1>4. /\ Scan(j.prompt, BlankText, j.ignore, NoContext)
           = Detect(j.prompt.head, BlankFindings, j.ignore, NoContext)
      /\ Scan(BlankText, j.response, j.ignore, NoContext)
           = Detect(BlankFindings, j.response.head, j.ignore, NoContext)
  BY <1>3, CapIs DEF Scan
<1>5. j.operation = "security_check_sync" =>
        ScanOf(j) = Detect(j.prompt.head, BlankFindings, j.ignore, NoContext)
  BY <1>4 DEF ScanOf
<1>6. j.operation = "response_gate_check" =>
        ScanOf(j) = Detect(BlankFindings, j.response.head, j.ignore, NoContext)
  BY <1>4 DEF ScanOf
<1>7. j.operation = "sdk_security" =>
        ScanOf(j) = Detect(j.prompt.head,
                           IF j.gated THEN BlankFindings ELSE j.response.head,
                           j.ignore, CapTree(j.context))
  <2>1. Cap(IF j.gated THEN BlankText ELSE j.response).all
          = IF j.gated THEN BlankFindings ELSE j.response.head
    BY <1>3, CapIs
  <2> QED
    BY <1>3, <2>1 DEF ScanOf, Scan
<1> QED
  BY <1>2, <1>3, <1>4, <1>5, <1>6, <1>7

(* Whatever was scanned, it was a scan of texts.                           *)
LEMMA ScanOfJob ==
  ASSUME NEW j \in Jobs
  PROVE  \E prompt \in FindingRecords, response \in FindingRecords, context \in TreeFindings :
           ScanOf(j) = Detect(prompt, response, j.ignore, context)
<1>1. CASE j.operation = "security_check_sync"
  BY <1>1, JobParts, BlankRecords
<1>2. CASE j.operation = "response_gate_check"
  BY <1>2, JobParts, BlankRecords
<1>3. CASE j.operation = "sdk_security"
  <2> DEFINE response == IF j.gated THEN BlankFindings ELSE j.response.head
  <2>1. response \in FindingRecords
    BY JobParts, BlankRecords
  <2>2. ScanOf(j) = Detect(j.prompt.head, response, j.ignore, CapTree(j.context))
    BY <1>3, JobParts
  <2> HIDE DEF response
  <2> QED
    BY <2>1, <2>2, JobParts
<1> QED
  BY <1>1, <1>2, <1>3, JobParts DEF Operations

(* Every variable keeps its type: in particular the level and the score of *)
(* whatever was scanned are a risk level and a number between 0 and 1, and *)
(* no attack type is reported that a policy could not name.                *)
THEOREM GatesTypes == Spec => []TypeOK
<1>1. DecisionInv => TypeOK
  <2> SUFFICES ASSUME DecisionInv PROVE TypeOK
    OBVIOUS
  <2>1. job \in Jobs
    BY DEF DecisionInv
  <2>2. \E prompt \in FindingRecords, response \in FindingRecords, context \in TreeFindings :
          result = Detect(prompt, response, job.ignore, context)
                   \/ result = Detect(prompt, response, {}, context)
    <3>1. CASE result = ScanOf(job)
      BY <2>1, <3>1, ScanOfJob
    <3>2. CASE result = Nothing
      BY <3>2, BlankRecords, CapIs DEF Nothing, Scan
    <3> QED
      BY <3>1, <3>2 DEF DecisionInv
  <2>3. result.level \in Levels /\ result.score \in 0 .. 100
    <3>1. PICK prompt \in FindingRecords, response \in FindingRecords, context \in TreeFindings,
               ignore \in SUBSET Entities :
            result = Detect(prompt, response, ignore, context)
      BY <2>1, <2>2, JobParts
    <3> QED
      BY <3>1, ScanAdds
  <2>4. /\ types \subseteq Categories \union {"pii_in_response", "secrets_in_response"}
        /\ blocked \in BOOLEAN /\ level \in Levels
    <3>1. CASE status = "answered"
      <4>1. level \in Levels
        BY <2>3, <3>1 DEF DecisionInv, Decided
      <4>2. PreCallTypes(result) \subseteq Categories
        BY DEF PreCallTypes, Named, Categories
      <4>3. GateTypes(result) \subseteq {"pii_in_response", "secrets_in_response"}
        BY DEF GateTypes, Named
      <4>4. CASE job.operation = "security_check_sync"
        BY <3>1, <4>1, <4>2, <4>4 DEF DecisionInv, Decided, PreCallBlocks
      <4>5. CASE job.operation = "response_gate_check"
        BY <3>1, <4>1, <4>3, <4>5 DEF DecisionInv, Decided, GateBlocks
      <4>6. CASE job.operation = "sdk_security"
        BY <3>1, <4>1, <4>6 DEF DecisionInv, Decided
      <4> QED
        BY <2>1, <4>4, <4>5, <4>6, JobParts DEF Operations
    <3>2. CASE status # "answered"
      <4>1. blocked = FALSE /\ level = Clean /\ types = {}
        BY <3>2 DEF DecisionInv
      <4>2. level \in Levels
        BY <4>1 DEF Levels, Clean, High
      <4> QED
        BY <4>1, <4>2
    <3> QED
      BY <3>1, <3>2
  <2> QED
    BY <2>1, <2>3, <2>4, JobParts DEF DecisionInv, TypeOK
<1> QED
  BY <1>1, DecisionInvariant, PTL

(* The run badge never overstates the risk level stored beside a score.    *)
THEOREM BadgeIsHonest == BadgeConfig => (Spec => []BadgeNeverOverstates)
<1> SUFFICES ASSUME BadgeConfig PROVE Spec => []BadgeNeverOverstates
  OBVIOUS
<1>1. DecisionInv => BadgeNeverOverstates
  <2> SUFFICES ASSUME DecisionInv, status = "answered",
                      RiskFromScore(result.score) = High
               PROVE  level = High
    BY DEF BadgeNeverOverstates
  <2>1. job \in Jobs /\ result = ScanOf(job) /\ level = result.level
    BY DEF DecisionInv, Decided
  <2>2. PICK prompt \in FindingRecords, response \in FindingRecords, context \in TreeFindings :
          result = Detect(prompt, response, job.ignore, context)
    BY <2>1, ScanOfJob
  <2>3. result.score >= 90
    BY DEF RiskFromScore, Clean, Low, Medium, High
  <2> QED
    BY <2>1, <2>2, <2>3, JobParts, TopScoreIsHigh
<1> QED
  BY <1>1, DecisionInvariant, PTL

-----------------------------------------------------------------------------
(* A pre-call check and a gate scan one text, without a trace around it.   *)
LEMMA NothingAround ==
  ASSUME NEW ignore \in SUBSET Entities
  PROVE  /\ \A prompt : ~TreeAttack(prompt, NoContext)
         /\ ~RagPoisoning(NoContext) /\ ~ToolExfiltration(NoContext, ignore)
         /\ Pii(BlankFindings.pii, ignore).level = Clean
         /\ Secrets(BlankFindings).level = Clean
         /\ ~Secrets(BlankFindings).named
<1>1. Pii(BlankFindings.pii, ignore).level = Clean
  BY PiiIs DEF BlankFindings
<1>2. Secrets(BlankFindings).level = Clean /\ ~Secrets(BlankFindings).named
  BY DEF Secrets, BlankFindings
<1> QED
  BY <1>1, <1>2 DEF TreeAttack, CrossAgent, IndirectInjection, ToolPolicyViolation,
     ImageInjection, RagPoisoning, ToolExfiltration, NoContext

(* What can lift the level of a pre-call check.                            *)
LEMMA PreCallLevels ==
  ASSUME NEW prompt \in FindingRecords, NEW ignore \in SUBSET Entities
  PROVE  LET r == Detect(prompt, BlankFindings, ignore, NoContext)
         IN \/ r.level = Clean
            \/ \E hits \in {prompt.injection, prompt.jailbreak, prompt.skeleton} :
                 r.level = Tiered(hits).level
            \/ r.level = SemanticLevel(SemanticHit(prompt))
            \/ r.level = Pii(prompt.pii, ignore).level
            \/ r.level = Secrets(prompt).level
<1> DEFINE r == Detect(prompt, BlankFindings, ignore, NoContext)
<1>1. r.level \in ScanLevels(prompt, BlankFindings, ignore, NoContext) \union {Clean}
  BY ScanAdds, BlankRecords
<1>2. /\ If(TreeAttack(prompt, NoContext) \/ RagPoisoning(NoContext), High) = Clean
      /\ If(ToolExfiltration(NoContext, ignore), Medium) = Clean
      /\ Pii(BlankFindings.pii, ignore).level = Clean
      /\ Secrets(BlankFindings).level = Clean
  BY NothingAround DEF If, Clean
<1> HIDE DEF r
<1>3. \/ r.level = Clean
      \/ r.level \in {Tiered(prompt.injection).level, Tiered(prompt.jailbreak).level,
                      Tiered(prompt.skeleton).level}
      \/ r.level = SemanticLevel(SemanticHit(prompt))
      \/ r.level = Pii(prompt.pii, ignore).level
      \/ r.level = Secrets(prompt).level
  BY <1>1, <1>2 DEF ScanLevels
<1> QED
  BY <1>3 DEF r

(* The configuration deployed: the classifier is advisory, and what the    *)
(* semantic scan detects is reported as an attack type.                    *)
ReportsDetections ==
  /\ ~ClassifierBlocks
  /\ ReportThreshold <= ThresholdInjection
  /\ ReportThreshold <= ThresholdJailbreak

LEMMA HighHasType ==
  ASSUME NEW prompt \in FindingRecords, NEW ignore \in SUBSET Entities, ReportsDetections,
         Detect(prompt, BlankFindings, ignore, NoContext).level = High
  PROVE  PreCallTypes(Detect(prompt, BlankFindings, ignore, NoContext)) # {}
<1> USE DEF Clean, Low, Medium, High
<1> DEFINE r == Detect(prompt, BlankFindings, ignore, NoContext)
<1>1. /\ {prompt.injection, prompt.jailbreak, prompt.skeleton} \subseteq HitCounts
      /\ prompt.pii \in SUBSET Entities
  BY RecordTypes, BlankRecords
<1>2. /\ r.injection <=> Tiered(prompt.injection).detected
      /\ r.jailbreak <=> Tiered(prompt.jailbreak).detected
      /\ r.skeleton <=> Tiered(prompt.skeleton).detected
      /\ r.semanticScore = SemanticVerdict(prompt).score
      /\ r.piiPrompt = prompt.pii \ ignore
      /\ Secrets(prompt).detected => r.secrets
  BY ScanFields
<1>3. r.level = High
  OBVIOUS
<1> HIDE DEF r
<1> SUFFICES PreCallTypes(r) # {}
  BY DEF r
<1>4. ASSUME NEW hits \in {prompt.injection, prompt.jailbreak, prompt.skeleton},
             High = Tiered(hits).level
      PROVE  PreCallTypes(r) # {}
  <2>1. Tiered(hits).detected
    BY <1>1, <1>4, TieredDetects
  <2>2. r.injection \/ r.jailbreak \/ r.skeleton
    BY <1>2, <2>1
  <2> QED
    BY <2>2 DEF PreCallTypes, Named
<1>5. ASSUME High = SemanticLevel(SemanticHit(prompt)) PROVE PreCallTypes(r) # {}
  <2>1. SemanticVerdict(prompt).detected
    BY <1>5 DEF SemanticLevel, SemanticHit, If, ClassifierVerdict, ReportsDetections
  <2>2. SemanticVerdict(prompt).score >= ReportThreshold
    <3>1. /\ SemanticVerdict(prompt).score \in Int
          /\ \/ SemanticVerdict(prompt).score >= ThresholdInjection
             \/ SemanticVerdict(prompt).score >= ThresholdJailbreak
      BY <2>1, SemanticIs
    <3>2. /\ ThresholdInjection \in Int /\ ThresholdJailbreak \in Int
          /\ ReportThreshold \in Int
      BY ThresholdAssumption, ReportAssumption
    <3> QED
      BY <3>1, <3>2 DEF ReportsDetections
  <2> QED
    BY <1>2, <2>2 DEF PreCallTypes, Named
<1>6. ASSUME High = Pii(prompt.pii, ignore).level PROVE PreCallTypes(r) # {}
  <2>1. ~(prompt.pii \subseteq ignore)
    <3>1. prompt.pii \subseteq ignore => Pii(prompt.pii, ignore).level = Clean
      BY <1>1, PiiIs
    <3> QED
      BY <1>6, <3>1
  <2> QED
    BY <1>2, <2>1 DEF PreCallTypes, Named
<1>7. ASSUME High = Secrets(prompt).level PROVE PreCallTypes(r) # {}
  <2>1. Secrets(prompt).detected
    BY <1>7, SecretsIs
  <2> QED
    BY <1>2, <2>1 DEF PreCallTypes, Named
<1> QED
  BY <1>3, <1>4, <1>5, <1>6, <1>7, PreCallLevels DEF r

(* A decision on a pre-call check, in terms of its prompt.                 *)
LEMMA PreCallDecision ==
  ASSUME DecisionInv, Answered("security_check_sync")
  PROVE  /\ job \in Jobs
         /\ result = Detect(job.prompt.head, BlankFindings, job.ignore, NoContext)
         /\ level = result.level
         /\ blocked = PreCallBlocks(result, job.policy)
BY JobParts DEF DecisionInv, Decided, Answered

LEMMA DefaultBlocksHigh ==
  ASSUME DecisionInv, Answered("security_check_sync"), job.policy = DefaultPolicy,
         ReportsDetections
  PROVE  blocked = (level = High)
<1>1. result.level = High => PreCallTypes(result) # {}
  BY PreCallDecision, JobParts, HighHasType
<1>2. PreCallBlocks(result, DefaultPolicy) =
        (PreCallTypes(result) # {} /\ result.level = High)
  BY DEF PreCallBlocks, BlockingTypes, DefaultPolicy
<1> QED
  BY <1>1, <1>2, PreCallDecision

(* Under the default policy a prompt is refused exactly when its scan is   *)
(* HIGH.                                                                   *)
THEOREM HighIsRefused == ReportsDetections => (Spec => []HighBlocks)
<1> SUFFICES ASSUME ReportsDetections PROVE Spec => []HighBlocks
  OBVIOUS
<1>1. DecisionInv => HighBlocks
  BY DefaultBlocksHigh DEF HighBlocks
<1> QED
  BY <1>1, DecisionInvariant, PTL

(* The synchronous gate and check(), which scan differently, agree on a    *)
(* capped prompt without sensitive data: the gate on any prompt decides as *)
(* check() on what _cap leaves of it.                                      *)
LEMMA CheckIs ==
  ASSUME NEW text, NEW prompt \in FindingRecords, text.all = prompt
  PROVE  LET levels == {Tiered(prompt.injection).level, Tiered(prompt.jailbreak).level,
                        Tiered(prompt.skeleton).level,
                        SemanticLevel(SemanticVerdict(prompt).detected)}
         IN /\ Check(text).allow <=> Check(text).level # High
            /\ Check(text).level \in levels \union {Clean}
            /\ \A l \in levels : l \in Levels /\ l <= Check(text).level
<1> USE DEF Levels, Clean, Low, Medium, High
<1> DEFINE levels == {Tiered(prompt.injection).level, Tiered(prompt.jailbreak).level,
                      Tiered(prompt.skeleton).level,
                      SemanticLevel(SemanticVerdict(prompt).detected)}
<1>1. levels \subseteq Levels
  <2>1. {prompt.injection, prompt.jailbreak, prompt.skeleton} \subseteq HitCounts
    BY RecordTypes, BlankRecords
  <2>2. /\ Tiered(prompt.injection).level \in Levels
        /\ Tiered(prompt.jailbreak).level \in Levels
        /\ Tiered(prompt.skeleton).level \in Levels
    BY <2>1, TieredIs
  <2>3. SemanticLevel(SemanticVerdict(prompt).detected) \in Levels
    BY DEF SemanticLevel, If
  <2> QED
    BY <2>2, <2>3
<1>2. Highest(levels) \in levels \union {0} /\ \A l \in levels : l <= Highest(levels)
  <2>1. levels \in SUBSET (-100 .. 100)
    BY <1>1
  <2> HIDE DEF levels
  <2> QED
    BY <2>1, HighestIs
<1>3. Check(text).level = Highest(levels) /\ (Check(text).allow <=> Highest(levels) # High)
  BY DEF Check
<1> HIDE DEF levels
<1>4. /\ Check(text).allow <=> Check(text).level # High
      /\ Check(text).level \in levels \union {Clean}
      /\ \A l \in levels : l \in Levels /\ l <= Check(text).level
  BY <1>1, <1>2, <1>3
<1> QED
  BY <1>4 DEF levels

LEMMA InsensitiveIs ==
  ASSUME NEW text \in FindingRecords, NEW ignore \in SUBSET Entities,
         Insensitive(text, ignore)
  PROVE  Pii(text.pii, ignore).level = Clean /\ Secrets(text).level = Clean
<1>1. text.pii \subseteq ignore /\ ~text.named /\ ~text.entropy /\ text.pii \in SUBSET Entities
  BY RecordTypes, BlankRecords DEF Insensitive
<1> QED
  BY <1>1, PiiIs, SecretsIs

LEMMA SameLevel ==
  ASSUME NEW text, NEW prompt \in FindingRecords, text.all = prompt, NEW ignore \in SUBSET Entities,
         Insensitive(prompt, ignore), ~ClassifierBlocks
  PROVE  Detect(prompt, BlankFindings, ignore, NoContext).level = High
           <=> Check(text).level = High
<1> DEFINE r == Detect(prompt, BlankFindings, ignore, NoContext)
           levels == {Tiered(prompt.injection).level, Tiered(prompt.jailbreak).level,
                      Tiered(prompt.skeleton).level,
                      SemanticLevel(SemanticVerdict(prompt).detected)}
<1>1. SemanticLevel(SemanticHit(prompt)) = SemanticLevel(SemanticVerdict(prompt).detected)
  BY DEF SemanticLevel, SemanticHit, ClassifierVerdict, If
<1>2. /\ \A l \in ScanLevels(prompt, BlankFindings, ignore, NoContext) : l \in Levels /\ l <= r.level
      /\ r.level \in Levels
  BY ScanAdds, BlankRecords
<1>3. levels \subseteq ScanLevels(prompt, BlankFindings, ignore, NoContext)
  BY <1>1 DEF ScanLevels
<1>4. r.level \in levels \union {Clean}
  <2>1. \/ r.level = Clean
        \/ \E hits \in {prompt.injection, prompt.jailbreak, prompt.skeleton} :
             r.level = Tiered(hits).level
        \/ r.level = SemanticLevel(SemanticVerdict(prompt).detected)
    BY <1>1, PreCallLevels, InsensitiveIs
  <2> QED
    BY <2>1
<1>5. /\ Check(text).level \in levels \union {Clean}
      /\ \A l \in levels : l \in Levels /\ l <= Check(text).level
  BY CheckIs
<1> HIDE DEF r, levels
<1>6. r.level = High => Check(text).level = High
  <2> SUFFICES ASSUME r.level = High PROVE Check(text).level = High
    OBVIOUS
  <2>1. High \in levels
    BY <1>4 DEF High, Clean
  <2>2. Check(text).level \in Levels /\ High <= Check(text).level
    BY <1>5, <2>1 DEF Levels, Clean, High
  <2> QED
    BY <2>2 DEF Levels, Clean, High
<1>7. Check(text).level = High => r.level = High
  <2> SUFFICES ASSUME Check(text).level = High PROVE r.level = High
    OBVIOUS
  <2>1. High \in levels
    BY <1>5 DEF High, Clean
  <2>2. High <= r.level
    BY <1>2, <1>3, <2>1
  <2> QED
    BY <1>2, <2>2 DEF Levels, Clean, High
<1> QED
  BY <1>6, <1>7 DEF r

(* The gate decides of every prompt what check() decides of the capped one *)
(* when the scanned part holds no sensitive data; of a prompt that is not  *)
(* longer than the cap, what check() decides of the prompt itself.         *)
THEOREM GateAgreesWithCheck == ReportsDetections => (Spec => []PathsAgree)
<1> SUFFICES ASSUME ReportsDetections PROVE Spec => []PathsAgree
  OBVIOUS
<1>1. DecisionInv => PathsAgree
  <2> SUFFICES ASSUME DecisionInv, Answered("security_check_sync"),
                      job.policy = DefaultPolicy, Insensitive(job.prompt.head, job.ignore)
               PROVE  blocked = ~Check(Cap(job.prompt)).allow
    BY DEF PathsAgree
  <2>1. /\ job.prompt.head \in FindingRecords /\ job.ignore \in SUBSET Entities
        /\ Cap(job.prompt).all = job.prompt.head
    BY PreCallDecision, JobParts
  <2>2. level = High <=> Check(Cap(job.prompt)).level = High
    BY <2>1, PreCallDecision, SameLevel DEF ReportsDetections
  <2>3. Check(Cap(job.prompt)).allow <=> Check(Cap(job.prompt)).level # High
    BY <2>1, CheckIs
  <2>4. blocked = (level = High)
    BY DefaultBlocksHigh
  <2>5. ~Check(Cap(job.prompt)).allow <=> level = High
    BY <2>2, <2>3
  <2> QED
    BY <2>4, <2>5
<1> QED
  BY <1>1, DecisionInvariant, PTL

(* A policy that is stricter refuses whatever a laxer one refuses.         *)
THEOREM StricterRefusesMore == Spec => []PolicyMonotone
<1>1. DecisionInv => PolicyMonotone
  <2> SUFFICES ASSUME DecisionInv, Answered("security_check_sync"), blocked,
                      NEW policy \in Policies, Stricter(policy, job.policy)
               PROVE  PreCallBlocks(result, policy)
    BY DEF PolicyMonotone
  <2>1. PreCallBlocks(result, job.policy) /\ job.policy \in Policies
    BY PreCallDecision, JobParts
  <2>2. BlockingTypes(result, job.policy) \subseteq BlockingTypes(result, policy)
    BY DEF BlockingTypes, Stricter
  <2>3. result.level = High \/ (result.level = Medium /\ policy.threshold = "medium")
    BY <2>1 DEF PreCallBlocks, Stricter
  <2> QED
    BY <2>1, <2>2, <2>3 DEF PreCallBlocks
<1> QED
  BY <1>1, DecisionInvariant, PTL

(* One ambiguous phrase per detector in what is scanned of a prompt never  *)
(* refuses it.                                                             *)
THEOREM OneWeakPhraseIsNotEnough ==
  ~ClassifierBlocks => (Spec => []WeakNeedsCorroboration)
<1> SUFFICES ASSUME ~ClassifierBlocks PROVE Spec => []WeakNeedsCorroboration
  OBVIOUS
<1>1. DecisionInv => WeakNeedsCorroboration
  <2> SUFFICES ASSUME DecisionInv, Answered("security_check_sync"),
                      \A hits \in {job.prompt.head.injection, job.prompt.head.jailbreak,
                                   job.prompt.head.skeleton} :
                        hits.strong = 0 /\ hits.weak <= 1,
                      ~SemanticVerdict(job.prompt.head).detected,
                      Insensitive(job.prompt.head, job.ignore)
               PROVE  ~blocked
    BY DEF WeakNeedsCorroboration
  <2>1. job.prompt.head \in FindingRecords /\ job.ignore \in SUBSET Entities
    BY PreCallDecision, JobParts
  <2>2. {job.prompt.head.injection, job.prompt.head.jailbreak, job.prompt.head.skeleton} \subseteq HitCounts
    BY <2>1, RecordTypes, BlankRecords
  <2>3. SemanticLevel(SemanticHit(job.prompt.head)) = Clean
    BY DEF SemanticLevel, SemanticHit, ClassifierVerdict, If, Clean
  <2>4. ASSUME NEW hits \in {job.prompt.head.injection, job.prompt.head.jailbreak, job.prompt.head.skeleton},
               result.level = Tiered(hits).level
        PROVE  result.level \notin {Medium, High}
    BY <2>2, <2>4, TieredIs DEF Levels, Clean, Low, Medium, High
  <2>5. result.level \notin {Medium, High}
    BY <2>1, <2>3, <2>4, PreCallDecision, PreCallLevels, InsensitiveIs
    DEF Clean, Medium, High
  <2> QED
    BY <2>5, PreCallDecision DEF PreCallBlocks
<1> QED
  BY <1>1, DecisionInvariant, PTL

(* The response gate refuses on a concrete detection that scores, never on *)
(* a high-entropy string alone.                                            *)
THEOREM GateWeighsDetections == Spec => []ResponseGateWeighs
<1>1. DecisionInv => ResponseGateWeighs
  <2> SUFFICES ASSUME DecisionInv, Answered("response_gate_check")
               PROVE  LET reported == job.response.head.pii \ job.ignore
                      IN /\ blocked => job.response.head.named \/ reported # {}
                         /\ job.response.head.named
                            \/ (\E e \in reported : EntityWeight[e] >= 50) => blocked
    BY DEF ResponseGateWeighs
  <2>1. /\ job \in Jobs /\ result = Detect(BlankFindings, job.response.head, job.ignore, NoContext)
        /\ blocked = GateBlocks(result)
    BY JobParts DEF DecisionInv, Decided, Answered
  <2>2. /\ job.response.head \in FindingRecords /\ job.ignore \in SUBSET Entities
        /\ job.response.head.pii \in SUBSET Entities
    BY <2>1, JobParts, RecordTypes, BlankRecords
  <2>3. /\ result.piiResponse = job.response.head.pii \ job.ignore
        /\ result.secretTypes <=> Secrets(BlankFindings).named \/ Secrets(job.response.head).named
    BY <2>1, ScanFields
  <2>4. result.secretTypes <=> job.response.head.named
    BY <2>2, <2>3, SecretsIs, BlankRecords DEF BlankFindings
  <2>5. blocked <=>
          (job.response.head.pii \ job.ignore # {} \/ job.response.head.named) /\ result.score >= 50
    BY <2>1, <2>3, <2>4 DEF GateBlocks
  <2>6. \A x \in ScanScores(BlankFindings, job.response.head, job.ignore, NoContext) :
          x \in -100 .. 100 /\ x <= result.score /\ result.score \in 0 .. 100
    BY <2>1, <2>2, ScanAdds, BlankRecords
  <2>7. ASSUME job.response.head.named PROVE result.score >= 50
    <3>1. Secrets(job.response.head).named
      BY <2>2, <2>7, SecretsIs
    <3>2. 100 \in ScanScores(BlankFindings, job.response.head, job.ignore, NoContext)
      BY <3>1 DEF ScanScores
    <3> QED
      BY <2>6, <3>2
  <2>8. ASSUME NEW e \in job.response.head.pii \ job.ignore, EntityWeight[e] >= 50
        PROVE  result.score >= 50
    <3>1. EntityWeight[e] <= Pii(job.response.head.pii, job.ignore).score
          /\ EntityWeight[e] \in 0 .. 100
      BY <2>2, PiiIs, EntityWeights
    <3>2. Pii(job.response.head.pii, job.ignore).score
            \in ScanScores(BlankFindings, job.response.head, job.ignore, NoContext)
      BY DEF ScanScores
    <3>3. Pii(job.response.head.pii, job.ignore).score \in -100 .. 100
          /\ Pii(job.response.head.pii, job.ignore).score <= result.score
          /\ result.score \in 0 .. 100
      BY <2>6, <3>2
    <3>4. \A x, y, z \in -100 .. 100 : x >= 50 /\ x <= y /\ y <= z => z >= 50
      OBVIOUS
    <3>5. EntityWeight[e] \in -100 .. 100 /\ result.score \in -100 .. 100
      BY <3>1, <3>3
    <3> QED
      BY <2>8, <3>1, <3>3, <3>4, <3>5
  <2> QED
    BY <2>5, <2>7, <2>8
<1> QED
  BY <1>1, DecisionInvariant, PTL

(* Neither does an empty text contribute, unless a threshold is zero.      *)
PositiveThresholds ==
  ThresholdInjection > 0 /\ ThresholdJailbreak > 0 /\ ClassifierThreshold > 0

LEMMA BlankScans ==
  ASSUME NEW ignore \in SUBSET Entities, PositiveThresholds
  PROVE  /\ Tiered(BlankFindings.injection).level = Clean
         /\ Tiered(BlankFindings.jailbreak).level = Clean
         /\ Tiered(BlankFindings.skeleton).level = Clean
         /\ SemanticLevel(SemanticHit(BlankFindings)) = Clean
<1>1. /\ BlankFindings.injection = NoHits /\ BlankFindings.jailbreak = NoHits
      /\ BlankFindings.skeleton = NoHits
      /\ BlankFindings.injectionScore = 0 /\ BlankFindings.jailbreakScore = 0
      /\ BlankFindings.classifierScore = 0
  BY DEF BlankFindings
<1>2. Tiered(NoHits) = Attack(0, Clean) /\ Attack(0, Clean).level = Clean
  BY DEF NoHits, Tiered, Attack
<1>3. ~SemanticVerdict(BlankFindings).detected /\ ~ClassifierVerdict(BlankFindings)
  <2>1. ~(0 >= ThresholdInjection) /\ ~(0 >= ThresholdJailbreak) /\ ~(0 >= ClassifierThreshold)
    BY ThresholdAssumption DEF PositiveThresholds
  <2> QED
    BY <1>1, <2>1 DEF SemanticVerdict, ClassifierVerdict
<1> QED
  BY <1>1, <1>2, <1>3 DEF SemanticLevel, SemanticHit, If, Clean

(* The levels of a scan are those of its prompt, of its response and of    *)
(* its tree together.                                                      *)
LEMMA PartsRankBelow ==
  ASSUME NEW prompt \in FindingRecords, NEW response \in FindingRecords,
         NEW ignore \in SUBSET Entities, NEW context \in TreeFindings
  PROVE  /\ Detect(prompt, BlankFindings, ignore, NoContext).level
              <= Detect(prompt, response, ignore, context).level
         /\ PositiveThresholds =>
              Detect(BlankFindings, response, ignore, NoContext).level
                <= Detect(prompt, response, ignore, context).level
<1> DEFINE whole == ScanLevels(prompt, response, ignore, context)
           left == ScanLevels(prompt, BlankFindings, ignore, NoContext)
           right == ScanLevels(BlankFindings, response, ignore, NoContext)
<1>1. /\ whole \in SUBSET (-100 .. 100) /\ left \in SUBSET (-100 .. 100)
      /\ right \in SUBSET (-100 .. 100)
  <2>1. whole \subseteq Levels /\ left \subseteq Levels /\ right \subseteq Levels
    BY ContributionTypes, BlankRecords
  <2>2. Levels \subseteq -100 .. 100
    BY DEF Levels, Clean, High
  <2> HIDE DEF whole, left, right
  <2> QED
    BY <2>1, <2>2
<1>2. /\ If(TreeAttack(prompt, NoContext) \/ RagPoisoning(NoContext), High) = 0
      /\ If(TreeAttack(BlankFindings, NoContext) \/ RagPoisoning(NoContext), High) = 0
      /\ If(ToolExfiltration(NoContext, ignore), Medium) = 0
      /\ Pii(BlankFindings.pii, ignore).level = 0
      /\ Secrets(BlankFindings).level = 0
  BY NothingAround DEF If, Clean
<1>3. \A x \in left : x = 0 \/ x \in whole
  BY <1>2 DEF ScanLevels
<1>4. PositiveThresholds => \A x \in right : x = 0 \/ x \in whole
  <2> SUFFICES ASSUME PositiveThresholds PROVE \A x \in right : x = 0 \/ x \in whole
    OBVIOUS
  <2>1. /\ Tiered(BlankFindings.injection).level = 0
        /\ Tiered(BlankFindings.jailbreak).level = 0
        /\ Tiered(BlankFindings.skeleton).level = 0
        /\ SemanticLevel(SemanticHit(BlankFindings)) = 0
    BY BlankScans DEF Clean
  <2> QED
    BY <1>2, <2>1 DEF ScanLevels
<1> HIDE DEF whole, left, right
<1>5. ASSUME NEW part \in SUBSET (-100 .. 100), \A x \in part : x = 0 \/ x \in whole
      PROVE  Highest(part) <= Highest(whole)
  <2>1. \A x \in part : x <= 0 \/ \E y \in whole : x <= y
    <3> SUFFICES ASSUME NEW x \in part PROVE x <= 0 \/ \E y \in whole : x <= y
      OBVIOUS
    <3>1. x \in Int /\ x <= x
      BY <1>5
    <3> QED
      BY <1>5, <3>1
  <2> QED
    BY <1>1, <1>5, <2>1, HighestMonotone
<1>6. Highest(left) <= Highest(whole) /\ (PositiveThresholds => Highest(right) <= Highest(whole))
  BY <1>1, <1>3, <1>4, <1>5
<1> QED
  BY <1>6, ScanLevelIs DEF whole, left, right

(* A decision on a trace, in terms of its texts.                           *)
LEMMA TraceDecision ==
  ASSUME DecisionInv, Answered("sdk_security")
  PROVE  /\ job \in Jobs
         /\ result = Detect(job.prompt.head, IF job.gated THEN BlankFindings ELSE job.response.head,
                          job.ignore, CapTree(job.context))
         /\ level = result.level /\ blocked = (level = High)
BY JobParts DEF DecisionInv, Decided, Answered

(* A trace never ranks below what the gates would have said of its parts.  *)
THEOREM TraceRanksAbove == PositiveThresholds => (Spec => []TraceCoversGates)
<1> SUFFICES ASSUME PositiveThresholds PROVE Spec => []TraceCoversGates
  OBVIOUS
<1>1. DecisionInv => TraceCoversGates
  <2> SUFFICES ASSUME DecisionInv, Answered("sdk_security")
               PROVE  TraceCoversGates
    BY DEF TraceCoversGates
  <2> DEFINE response == IF job.gated THEN BlankFindings ELSE job.response.head
  <2>1. /\ level = Detect(job.prompt.head, response, job.ignore, CapTree(job.context)).level
        /\ job \in Jobs
    BY TraceDecision
  <2>2. /\ job.prompt.head \in FindingRecords /\ response \in FindingRecords
        /\ job.ignore \in SUBSET Entities /\ CapTree(job.context) \in TreeFindings
    BY <2>1, JobParts, BlankRecords
  <2> HIDE DEF response
  <2> DEFINE context == CapTree(job.context)
             whole == Detect(job.prompt.head, response, job.ignore, context).level
             left == Detect(job.prompt.head, BlankFindings, job.ignore, NoContext).level
             right == Detect(BlankFindings, response, job.ignore, NoContext).level
  <2>3. left <= whole /\ right <= whole
    <3> HIDE DEF context
    <3> QED
      BY <2>2, PartsRankBelow DEF context
  <2>4. whole \in Levels /\ left \in Levels /\ right \in Levels
    <3>1. whole \in Levels
      BY <2>2, ScanAdds
    <3>2. left \in Levels
      BY <2>2, ScanAdds, BlankRecords
    <3>3. right \in Levels
      BY <2>2, ScanAdds, BlankRecords
    <3> QED
      BY <3>1, <3>2, <3>3
  <2>5. ~job.gated => response = job.response.head
    BY DEF response
  <2>6. /\ Scan(job.prompt, BlankText, job.ignore, NoContext)
             = Detect(job.prompt.head, BlankFindings, job.ignore, NoContext)
        /\ Scan(BlankText, job.response, job.ignore, NoContext)
             = Detect(BlankFindings, job.response.head, job.ignore, NoContext)
    BY <2>1, JobParts
  <2> QED
    BY <2>1, <2>3, <2>4, <2>5, <2>6 DEF TraceCoversGates, Levels, Clean, High
<1> QED
  BY <1>1, DecisionInvariant, PTL

(* Attack content in what is scanned of a tool output or a document always *)
(* flags the trace.                                                        *)
THEOREM UntrustedContentIsFlagged == Spec => []UntrustedContentFlags
<1>1. DecisionInv => UntrustedContentFlags
  <2> SUFFICES ASSUME DecisionInv, Answered("sdk_security"),
                      NEW c \in job.context.toolOutputs \union job.context.contextDocs,
                      c.head.phrases \/ c.head.similarity >= RagPoisonThreshold
               PROVE  blocked
    BY DEF UntrustedContentFlags
  <2> DEFINE response == IF job.gated THEN BlankFindings ELSE job.response.head
             levels == ScanLevels(job.prompt.head, response, job.ignore, CapTree(job.context))
  <2>1. IndirectInjection(CapTree(job.context)) \/ RagPoisoning(CapTree(job.context))
    <3>1. c.head \in CapTree(job.context).toolOutputs \union CapTree(job.context).contextDocs
      BY TraceDecision, JobParts, CapTreeIs
    <3> QED
      BY <3>1 DEF IndirectInjection, RagPoisoning
  <2>2. High \in levels
    BY <2>1 DEF ScanLevels, TreeAttack, If
  <2>3. /\ job \in Jobs /\ blocked = (level = High)
        /\ level = Detect(job.prompt.head, response, job.ignore, CapTree(job.context)).level
    BY TraceDecision
  <2>4. /\ job.prompt.head \in FindingRecords /\ response \in FindingRecords
        /\ job.ignore \in SUBSET Entities /\ CapTree(job.context) \in TreeFindings
    BY <2>3, JobParts, BlankRecords
  <2> HIDE DEF response
  <2>5. level \in Levels /\ \A l \in levels : l <= level
    BY <2>3, <2>4, ScanAdds
  <2>6. level = High
    BY <2>2, <2>5 DEF Levels, Clean, High
  <2> QED
    BY <2>3, <2>6
<1> QED
  BY <1>1, DecisionInvariant, PTL
===============================================================================
