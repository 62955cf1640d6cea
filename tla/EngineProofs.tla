---------------------------- MODULE EngineProofs ----------------------------
(* Theorems about the parts of the engine that EngineMC checks side by side: *)
(* starts and stops (GolemProofs), offers, debit notes, the summary, the     *)
(* response of an instance.  A step of the sum is one of the chosen          *)
(* component, and leaves the variables of the others alone; so what the      *)
(* invariant of a component says holds of the sum.                           *)
EXTENDS EngineMC, GolemProofs, FiniteSetTheorems, WellFoundedInduction

-----------------------------------------------------------------------------
(* Negotiation: numbers, sequences, and the invariant                        *)

LEMMA Shortened ==
  ASSUME NEW S, NEW q \in Seq(S), q # <<>>
  PROVE  /\ Head(q) = q[1] /\ q[1] \in S /\ Tail(q) \in Seq(S)
         /\ Len(q) \in Nat \ {0} /\ DOMAIN q = 1..Len(q)
         /\ DOMAIN Tail(q) = 1..Len(q) - 1
         /\ \A i \in 1..Len(q) - 1 : Tail(q)[i] = q[i + 1]
         /\ \A i \in 1..Len(q) : q[i] \in S
  OBVIOUS

(* Where a proposal is with a handler, and which of those have a permit.     *)
Busy == {"scoring", "rejecting", "responding", "adding"}
InHand == {p \in Proposals \ again : proposal[p] \in Busy}

FinderTypes ==
  /\ finder \in {"subscribing", "collecting", "failed", "cancelled"}
  /\ subscribed \in 0..MaxSubscriptions

QueueTypes ==
  /\ unscored \in Seq(Proposals) /\ taken \in Seq(Proposals) /\ Len(taken) <= 1
  /\ handlers \in 0..MaxHandlers
  /\ proposal \in [Proposals -> ProposalStates] /\ again \subseteq Proposals

AnswerTypes == DOMAIN demand \subseteq Proposals /\ score \in [Proposals -> Rejected..Trusted]

StrategyTypes == rejecting \subseteq Issuers /\ agreementEvents \in Seq(Issuers)

(* A proposal is in one place of the queue, and none of those has been       *)
(* recycled.                                                                 *)
QueueOK ==
  /\ \A i \in DOMAIN unscored : proposal[unscored[i]] = "queued"
  /\ \A i, j \in DOMAIN unscored : unscored[i] = unscored[j] => i = j
  /\ \A i \in DOMAIN taken : proposal[taken[i]] = "taken"
  /\ \A p \in again : proposal[p] \notin {"market", "queued", "taken"}

HandlersOK == IsFiniteSet(InHand) /\ handlers = Cardinality(InHand)

NegotiationInv ==
  /\ FinderTypes /\ QueueTypes /\ AnswerTypes /\ StrategyTypes
  /\ QueueOK /\ HandlersOK /\ TermsAcceptable

LEMMA Divided ==
  ASSUME NEW t \in Nat, NEW d \in Nat, d >= 101
  PROVE  (100 * t) \div d \in 0..t
  BY SMT

LEMMA Halved ==
  ASSUME NEW t \in Nat, NEW x \in 0..t
  PROVE  x \div 2 \in 0..t
  BY SMT

LEMMA TrustedNat ==
  /\ Trusted \in Nat
  /\ Rejected \in Rejected..Trusted
  /\ 0..Trusted \subseteq Rejected..Trusted
<1>1. Trusted \in Nat
  BY SMT DEF Trusted
<1>2. Rejected \in Int /\ Rejected < 0
  BY SMT DEF Rejected
<1> QED
  BY <1>1, <1>2, SMT

LEMMA LeastExpensiveBounded ==
  ASSUME NEW p \in Proposals
  PROVE  LeastExpensive(Offer[p]) \in Rejected..Trusted
<1> DEFINE offer   == Offer[p]
           refused == \/ offer.fixed > MaxFixed \/ offer.fixed < 0
                      \/ \E k \in DOMAIN offer.prices :
                           offer.prices[k] > MaxPrice[k] \/ offer.prices[k] < 0
<1>1. CASE refused
  BY <1>1, TrustedNat, SMT DEF LeastExpensive
<1>2. CASE ~refused
  <2>1. Cost(offer, UsageTime) \in Nat
    BY <1>2, OffersAssumption, SMT
  <2>2. PICK d \in Nat : d >= 101 /\ d = 100 * Cost(offer, UsageTime) + 101
    BY <2>1, SMT
  <2>3. LeastExpensive(offer) = (100 * Trusted) \div d
    BY <1>2, <2>2, SMT DEF LeastExpensive
  <2> QED
    BY <2>2, <2>3, Divided, TrustedNat, SMT
<1> QED
  BY <1>1, <1>2, SMT

LEMMA ScoreBounded ==
  ASSUME NEW p \in Proposals
  PROVE  ScoreOf(p) \in Rejected..Trusted
<1>1. LeastExpensive(Offer[p]) \in Rejected..Trusted
  BY LeastExpensiveBounded
<1>2. Decreased(LeastExpensive(Offer[p]), Offer[p], rejecting) \in Rejected..Trusted
  BY <1>1, TrustedNat, Halved, SMT DEF Decreased
<1> QED
  BY <1>2, TrustedNat, SMT DEF ScoreOf, Filtered

LEMMA ResponseAcceptable ==
  ASSUME NEW p \in Proposals, ~CannotRespond(Offer[p], expiration)
  PROVE  LET r == Response(Offer[p], expiration)
         IN /\ \A k \in DOMAIN r : InRange(Ranges[k], r[k])
            /\ DOMAIN r \cap MidAgreement # {} =>
                 Interval \in DOMAIN r /\ expiration >= MinExpiration
<1> DEFINE offer == Offer[p]
           r     == Response(offer, expiration)
<1>1. DOMAIN r = TakenUp(offer, expiration)
  BY DEF Response
<1>2. ASSUME NEW k \in DOMAIN r
      PROVE  InRange(Ranges[k], r[k])
  <2>1. r[k] = AgreedValue(Ranges[k], offer.props[k])
    BY <1>1, <1>2 DEF Response
  <2>2. /\ k \in DOMAIN offer.props /\ k \in DOMAIN Ranges
        /\ InRange(Ranges[k], offer.props[k]) \/ ~CannotClamp(Ranges[k])
    BY <1>1, <1>2 DEF TakenUp, CannotRespond
  <2>3. offer.props[k] \in Int /\ Ranges[k].lo \in Int /\ Ranges[k].hi \in Int
    BY <2>2, OffersAssumption, RangesAssumption
  <2> QED
    BY <2>1, <2>2, <2>3 DEF AgreedValue, InRange, CannotClamp, Clamp
<1>3. ASSUME DOMAIN r \cap MidAgreement # {}
      PROVE  Interval \in DOMAIN r /\ expiration >= MinExpiration
  BY <1>1, <1>3, DefaultRangesAssumption DEF TakenUp, MidAgreementEnabled, MidAgreement
<1> QED
  BY <1>2, <1>3

LEMMA PutFacts ==
  ASSUME QueueTypes, NEW p \in Proposals, NEW state \in ProposalStates, Put(p, state)
  PROVE  /\ proposal' \in [Proposals -> ProposalStates] /\ proposal'[p] = state
         /\ \A q \in Proposals : q # p => proposal'[q] = proposal[q]
  BY DEF QueueTypes, Put

(* The permits in use, as proposals come and go.                             *)
LEMMA HandKept ==
  ASSUME HandlersOK, InHand' = InHand, handlers' = handlers
  PROVE  HandlersOK'
  BY DEF HandlersOK

LEMMA HandTaken ==
  ASSUME HandlersOK, NEW p \in Proposals, p \notin InHand, InHand' = InHand \cup {p},
         handlers' = handlers + 1
  PROVE  HandlersOK'
<1>1. IsFiniteSet(InHand') /\ Cardinality(InHand') = Cardinality(InHand) + 1
  BY FS_AddElement DEF HandlersOK
<1> QED
  BY <1>1 DEF HandlersOK

LEMMA HandReleased ==
  ASSUME HandlersOK, NEW p \in InHand, InHand' = InHand \ {p}, handlers' = handlers - 1
  PROVE  HandlersOK' /\ handlers \in Nat /\ handlers > 0
<1>1. /\ IsFiniteSet(InHand') /\ Cardinality(InHand') = Cardinality(InHand) - 1
      /\ Cardinality(InHand) \in Nat /\ Cardinality(InHand') \in Nat
  BY FS_RemoveElement, FS_CardinalityType DEF HandlersOK
<1> QED
  BY <1>1 DEF HandlersOK

-----------------------------------------------------------------------------
(* Negotiation: the steps *)

LEMMA CollectKeeps ==
  ASSUME NegotiationInv, NEW p \in Proposals, Collect(p)
  PROVE  NegotiationInv'
<1>1. /\ proposal' \in [Proposals -> ProposalStates] /\ proposal'[p] = "queued"
      /\ \A q \in Proposals : q # p => proposal'[q] = proposal[q]
      /\ proposal[p] = "market" /\ unscored' = Append(unscored, p)
      /\ UNCHANGED <<taken, handlers, again, demand, score, rejecting, agreementEvents, finder,
                     subscribed, expiration>>
  BY PutFacts DEF NegotiationInv, Collect, ProposalStates, findVars, answerVars, strategyVars
<1>2. /\ unscored \in Seq(Proposals) /\ unscored' \in Seq(Proposals)
      /\ DOMAIN unscored = 1..Len(unscored) /\ DOMAIN unscored' = 1..Len(unscored) + 1
      /\ Len(unscored) \in Nat /\ unscored'[Len(unscored) + 1] = p
      /\ \A i \in 1..Len(unscored) : unscored'[i] = unscored[i] /\ unscored[i] \in Proposals
  BY <1>1, Appended DEF NegotiationInv, QueueTypes
<1>3. QueueOK'
  <2>1. \A i \in 1..Len(unscored) : unscored[i] # p
    BY <1>1, <1>2 DEF NegotiationInv, QueueOK
  <2>2. \A i \in DOMAIN unscored' : i \in 1..Len(unscored) \/ i = Len(unscored) + 1
    BY <1>2
  <2>3. \A i \in DOMAIN taken : taken[i] \in Proposals /\ taken[i] # p
    BY <1>1 DEF NegotiationInv, QueueOK, QueueTypes
  <2>4. \A i \in DOMAIN unscored' : proposal'[unscored'[i]] = "queued"
    BY <1>1, <1>2, <2>1, <2>2 DEF NegotiationInv, QueueOK
  <2>5. \A i, j \in DOMAIN unscored' : unscored'[i] = unscored'[j] => i = j
    BY <1>2, <2>1, <2>2 DEF NegotiationInv, QueueOK
  <2>6. \A q \in again : proposal'[q] \notin {"market", "queued", "taken"}
    BY <1>1 DEF NegotiationInv, QueueOK, QueueTypes
  <2> QED
    BY <1>1, <2>3, <2>4, <2>5, <2>6 DEF NegotiationInv, QueueOK
<1>4. InHand' = InHand
  BY <1>1 DEF InHand, Busy
<1> QED
  BY <1>1, <1>2, <1>3, <1>4, HandKept
     DEF NegotiationInv, FinderTypes, QueueTypes, AnswerTypes, StrategyTypes, TermsAcceptable

LEMMA TakeProposalKeeps ==
  ASSUME NegotiationInv, TakeProposal
  PROVE  NegotiationInv'
<1> DEFINE p == Head(unscored)
<1>1. /\ unscored \in Seq(Proposals) /\ unscored # <<>> /\ p = unscored[1] /\ p \in Proposals
      /\ Len(unscored) \in Nat \ {0} /\ DOMAIN unscored = 1..Len(unscored)
      /\ unscored' \in Seq(Proposals) /\ DOMAIN unscored' = 1..Len(unscored) - 1
      /\ \A i \in 1..Len(unscored) - 1 : unscored'[i] = unscored[i + 1]
      /\ \A i \in 1..Len(unscored) : unscored[i] \in Proposals
  BY Shortened DEF NegotiationInv, QueueTypes, TakeProposal
<1> HIDE DEF p
<1>2. /\ proposal' \in [Proposals -> ProposalStates] /\ proposal'[p] = "taken"
      /\ \A q \in Proposals : q # p => proposal'[q] = proposal[q]
      /\ taken' = <<p>>
      /\ UNCHANGED <<handlers, again, demand, score, rejecting, agreementEvents, finder,
                     subscribed, expiration>>
  BY <1>1, PutFacts
     DEF NegotiationInv, TakeProposal, ProposalStates, findVars, answerVars, strategyVars, p
<1>3. proposal[p] = "queued" /\ \A i \in 1..Len(unscored) : i # 1 => unscored[i] # p
  BY <1>1 DEF NegotiationInv, QueueOK
<1>4. /\ taken' \in Seq(Proposals) /\ Len(taken') = 1 /\ DOMAIN taken' = {1} /\ taken'[1] = p
  BY <1>1, <1>2
<1>5. QueueOK'
  <2>1. \A i \in DOMAIN unscored' : i + 1 \in DOMAIN unscored /\ i + 1 # 1
    BY <1>1
  <2>2. \A i \in DOMAIN unscored' : proposal'[unscored'[i]] = "queued"
    BY <1>1, <1>2, <1>3, <2>1 DEF NegotiationInv, QueueOK
  <2>3. \A i, j \in DOMAIN unscored' : unscored'[i] = unscored'[j] => i = j
    <3> SUFFICES ASSUME NEW i \in DOMAIN unscored', NEW j \in DOMAIN unscored',
                        unscored'[i] = unscored'[j]
                 PROVE  i = j
      OBVIOUS
    <3>1. i + 1 = j + 1
      BY <1>1, <2>1 DEF NegotiationInv, QueueOK
    <3> QED
      BY <1>1, <3>1
  <2>4. \A q \in again : proposal'[q] \notin {"market", "queued", "taken"}
    BY <1>1, <1>2, <1>3 DEF NegotiationInv, QueueOK, QueueTypes
  <2> QED
    BY <1>2, <1>4, <2>2, <2>3, <2>4 DEF QueueOK
<1>6. InHand' = InHand
  BY <1>2, <1>3 DEF InHand, Busy
<1> QED
  BY <1>1, <1>2, <1>4, <1>5, <1>6, HandKept
     DEF NegotiationInv, FinderTypes, QueueTypes, AnswerTypes, StrategyTypes, TermsAcceptable

LEMMA StartHandlerKeeps ==
  ASSUME NegotiationInv, StartHandler
  PROVE  NegotiationInv'
<1> DEFINE p == taken[1]
<1>1. taken # <<>> /\ 1 \in DOMAIN taken /\ p \in Proposals
  BY DEF NegotiationInv, QueueTypes, StartHandler
<1> HIDE DEF p
<1>2. /\ proposal' \in [Proposals -> ProposalStates] /\ proposal'[p] = "scoring"
      /\ \A q \in Proposals : q # p => proposal'[q] = proposal[q]
      /\ taken' = <<>> /\ handlers' = handlers + 1 /\ handlers < MaxHandlers
      /\ UNCHANGED <<unscored, again, demand, score, rejecting, agreementEvents, finder,
                     subscribed, expiration>>
  BY <1>1, PutFacts
     DEF NegotiationInv, StartHandler, ProposalStates, findVars, answerVars, strategyVars, p
<1>3. proposal[p] = "taken" /\ p \notin again
  BY <1>1 DEF NegotiationInv, QueueOK, p
<1>4. taken' \in Seq(Proposals) /\ Len(taken') = 0 /\ DOMAIN taken' = {}
  BY <1>2
<1>5. QueueOK'
  <2>1. \A i \in DOMAIN unscored : unscored[i] \in Proposals /\ unscored[i] # p
    BY <1>3 DEF NegotiationInv, QueueOK, QueueTypes
  <2> QED
    BY <1>1, <1>2, <1>3, <1>4, <2>1 DEF NegotiationInv, QueueOK, QueueTypes
<1>6. p \notin InHand /\ InHand' = InHand \cup {p}
  BY <1>1, <1>2, <1>3 DEF InHand, Busy
<1>7. handlers' \in 0..MaxHandlers
  BY <1>2, MaxHandlersAssumption DEF NegotiationInv, QueueTypes
<1>8. HandlersOK'
  BY <1>1, <1>2, <1>6, HandTaken DEF NegotiationInv
<1> QED
  BY <1>2, <1>4, <1>5, <1>7, <1>8
     DEF NegotiationInv, FinderTypes, QueueTypes, AnswerTypes, StrategyTypes, TermsAcceptable

(* What a step with a proposal in a handler does to the queue: nothing.      *)
LEMMA QueueKept ==
  ASSUME NegotiationInv, NEW p \in Proposals, NEW state \in ProposalStates, Put(p, state),
         proposal[p] \in Busy \cup {"confirmed"}, state \notin {"market", "queued", "taken"},
         again' \in {again, again \cup {p}}, UNCHANGED <<unscored, taken>>
  PROVE  QueueOK'
<1>1. /\ proposal'[p] = state /\ \A q \in Proposals : q # p => proposal'[q] = proposal[q]
  BY PutFacts DEF NegotiationInv
<1>2. /\ \A i \in DOMAIN unscored : unscored[i] \in Proposals /\ unscored[i] # p
      /\ \A i \in DOMAIN taken : taken[i] \in Proposals /\ taken[i] # p
  BY DEF NegotiationInv, QueueOK, QueueTypes, Busy
<1> QED
  BY <1>1, <1>2 DEF NegotiationInv, QueueOK, QueueTypes

LEMMA ScoreKeeps ==
  ASSUME NegotiationInv, NEW p \in Proposals, Score(p)
  PROVE  NegotiationInv'
<1> DEFINE offer  == Offer[p]
           common == CommonPlatforms(offer, Platforms)
           answer == p \in again \/ ~offer.draft
           no     == (~offer.linear \/ ScoreOf(p) < Neutral)
                       \/ (answer /\ (CannotRespond(offer, expiration) \/ common = {}))
           terms  == [q \in DOMAIN demand \cup {p} |->
                        IF q = p THEN Response(offer, expiration) ELSE demand[q]]
<1>1. /\ proposal[p] = "scoring"
      /\ score' = [score EXCEPT ![p] = IF offer.linear THEN ScoreOf(p) ELSE Rejected]
      /\ UNCHANGED <<finder, subscribed, expiration, unscored, taken, handlers, again, rejecting,
                     agreementEvents>>
  BY SMT DEF Score, findVars, strategyVars
<1>2. \/ Put(p, "rejecting") /\ UNCHANGED demand
      \/ Put(p, "responding") /\ ~no /\ answer /\ demand' = terms
      \/ Put(p, "adding") /\ UNCHANGED demand
  BY SMT DEF Score
<1>3. PICK state \in {"rejecting", "responding", "adding"} : Put(p, state)
  BY <1>2
<1>4. /\ proposal' \in [Proposals -> ProposalStates] /\ proposal'[p] = state
      /\ \A q \in Proposals : q # p => proposal'[q] = proposal[q]
  BY <1>3, PutFacts DEF NegotiationInv, ProposalStates
<1>5. score' \in [Proposals -> Rejected..Trusted]
  <2>1. (IF offer.linear THEN ScoreOf(p) ELSE Rejected) \in Rejected..Trusted
    BY ScoreBounded, TrustedNat
  <2> QED
    BY <1>1, <2>1 DEF NegotiationInv, AnswerTypes
<1>6. DOMAIN demand' \subseteq Proposals /\ TermsAcceptable'
  <2>1. CASE UNCHANGED demand
    BY <1>1, <2>1 DEF NegotiationInv, AnswerTypes, TermsAcceptable
  <2>2. CASE ~no /\ answer /\ demand' = terms
    <3> DEFINE r == Response(offer, expiration)
    <3>1. /\ common # {} /\ \A k \in DOMAIN r : InRange(Ranges[k], r[k])
          /\ DOMAIN r \cap MidAgreement # {} =>
               Interval \in DOMAIN r /\ expiration >= MinExpiration
      BY <2>2, ResponseAcceptable
    <3> HIDE DEF r
    <3>2. /\ DOMAIN demand' = DOMAIN demand \cup {p} /\ demand'[p] = r
          /\ \A q \in DOMAIN demand : q # p => demand'[q] = demand[q]
      BY <2>2 DEF r
    <3>3. DOMAIN demand' \subseteq Proposals
      BY <3>2 DEF NegotiationInv, AnswerTypes
    <3>4. ASSUME NEW q \in DOMAIN demand'
          PROVE  /\ CommonPlatforms(Offer[q], Platforms) # {}
                 /\ \A k \in DOMAIN demand'[q] : InRange(Ranges[k], demand'[q][k])
                 /\ DOMAIN demand'[q] \cap MidAgreement # {} =>
                      Interval \in DOMAIN demand'[q] /\ expiration >= MinExpiration
      <4>1. CASE q = p
        BY <3>1, <3>2, <4>1
      <4>2. CASE q # p
        <5>1. q \in DOMAIN demand /\ demand'[q] = demand[q]
          BY <3>2, <3>4, <4>2
        <5> QED
          BY <5>1 DEF NegotiationInv, TermsAcceptable
      <4> QED
        BY <4>1, <4>2
    <3> QED
      BY <1>1, <3>3, <3>4 DEF TermsAcceptable
  <2> QED
    BY <1>2, <2>1, <2>2
<1>7. QueueOK'
  BY <1>1, <1>3, QueueKept DEF ProposalStates, Busy
<1>8. InHand' = InHand
  BY <1>1, <1>4 DEF InHand, Busy
<1> QED
  BY <1>1, <1>4, <1>5, <1>6, <1>7, <1>8, HandKept
     DEF NegotiationInv, FinderTypes, QueueTypes, AnswerTypes, StrategyTypes

(* A handler that ends gives its permit back.                                *)
LEMMA SettleKeeps ==
  ASSUME NegotiationInv, NEW p \in Proposals, NEW state \in Settled, Settle(p, state),
         proposal[p] \in Busy,
         UNCHANGED <<findVars, unscored, taken, again, answerVars, strategyVars>>
  PROVE  NegotiationInv'
<1>1. UNCHANGED <<finder, subscribed, expiration, unscored, taken, again, demand, score,
                  rejecting, agreementEvents>>
  BY DEF findVars, answerVars, strategyVars
<1>2. /\ proposal' \in [Proposals -> ProposalStates] /\ proposal'[p] = state
      /\ \A q \in Proposals : q # p => proposal'[q] = proposal[q]
  BY PutFacts DEF NegotiationInv, Settle, ProposalStates
<1>3. QueueOK'
  BY <1>1, QueueKept DEF Settle, ProposalStates, Settled
<1>4. handlers' \in 0..MaxHandlers /\ HandlersOK'
  <2>1. CASE p \in again
    <3>1. InHand' = InHand /\ handlers' = handlers
      BY <1>1, <1>2, <2>1 DEF InHand, Busy, Settle
    <3> QED
      BY <3>1, HandKept DEF NegotiationInv, QueueTypes
  <2>2. CASE p \notin again
    <3>1. p \in InHand /\ InHand' = InHand \ {p} /\ handlers' = handlers - 1
      BY <1>1, <1>2, <2>2 DEF InHand, Busy, Settle, Settled
    <3>2. HandlersOK' /\ handlers \in Nat /\ handlers > 0
      BY <3>1, HandReleased DEF NegotiationInv
    <3> QED
      BY <3>1, <3>2, MaxHandlersAssumption DEF NegotiationInv, QueueTypes
  <2> QED
    BY <2>1, <2>2
<1> QED
  BY <1>1, <1>2, <1>3, <1>4
     DEF NegotiationInv, FinderTypes, QueueTypes, AnswerTypes, StrategyTypes, TermsAcceptable

LEMMA AnswersKeeps ==
  ASSUME NegotiationInv, NEW p \in Proposals, Answers(p)
  PROVE  NegotiationInv'
<1>1. CASE Score(p)
  BY <1>1, ScoreKeeps
<1>2. CASE Rejects(p)
  BY <1>2, SettleKeeps DEF Rejects, Settled, Busy
<1>3. CASE Responds(p)
  BY <1>3, SettleKeeps DEF Responds, Settled, Busy
<1>4. CASE AddToPool(p)
  BY <1>4, SettleKeeps DEF AddToPool, Settled, Busy
<1> QED
  BY <1>1, <1>2, <1>3, <1>4 DEF Answers

LEMMA RecycleOfferKeeps ==
  ASSUME NegotiationInv, NEW p \in Proposals, RecycleOffer(p)
  PROVE  NegotiationInv'
<1>1. /\ proposal[p] = "confirmed" /\ again' = again \cup {p} /\ Put(p, "scoring")
      /\ agreementEvents' = Append(agreementEvents, Offer[p].issuer)
      /\ UNCHANGED <<finder, subscribed, expiration, unscored, taken, handlers, demand, score,
                     rejecting>>
  BY DEF RecycleOffer, findVars, answerVars
<1>2. /\ proposal' \in [Proposals -> ProposalStates] /\ proposal'[p] = "scoring"
      /\ \A q \in Proposals : q # p => proposal'[q] = proposal[q]
  BY <1>1, PutFacts DEF NegotiationInv, ProposalStates
<1>3. QueueOK'
  BY <1>1, QueueKept DEF ProposalStates
<1>4. InHand' = InHand
  BY <1>1, <1>2 DEF InHand, Busy
<1>5. agreementEvents' \in Seq(Issuers)
  <2>1. Offer[p].issuer \in Issuers
    BY DEF Issuers
  <2> QED
    BY <1>1, <2>1, Appended DEF NegotiationInv, StrategyTypes
<1> QED
  BY <1>1, <1>2, <1>3, <1>4, <1>5, HandKept
     DEF NegotiationInv, FinderTypes, QueueTypes, AnswerTypes, StrategyTypes, TermsAcceptable

LEMMA AgreementConfirmedKeeps ==
  ASSUME NegotiationInv, NEW p \in Proposals, AgreementConfirmed(p)
  PROVE  NegotiationInv'
<1>1. /\ proposal[p] = "confirmed" /\ Put(p, "dropped") /\ rejecting' \subseteq rejecting
      /\ UNCHANGED <<finder, subscribed, expiration, unscored, taken, handlers, again, demand,
                     score, agreementEvents>>
  BY DEF AgreementConfirmed, findVars, answerVars
<1>2. /\ proposal' \in [Proposals -> ProposalStates] /\ proposal'[p] = "dropped"
      /\ \A q \in Proposals : q # p => proposal'[q] = proposal[q]
  BY <1>1, PutFacts DEF NegotiationInv, ProposalStates
<1>3. QueueOK'
  BY <1>1, QueueKept DEF ProposalStates
<1>4. InHand' = InHand
  BY <1>1, <1>2 DEF InHand, Busy
<1> QED
  BY <1>1, <1>2, <1>3, <1>4, HandKept
     DEF NegotiationInv, FinderTypes, QueueTypes, AnswerTypes, StrategyTypes, TermsAcceptable

(* find_offers and the strategy's consumer do not touch the queue.           *)
LEMMA FinderKeeps ==
  ASSUME NegotiationInv, Subscribe \/ CollectFails \/ CancelFindOffers
  PROVE  NegotiationInv'
<1>1. /\ FinderTypes'
      /\ UNCHANGED <<expiration, unscored, taken, handlers, proposal, again, demand, score,
                     rejecting, agreementEvents>>
  BY MaxHandlersAssumption
     DEF NegotiationInv, FinderTypes, Subscribe, CollectFails, CancelFindOffers, handleVars,
         answerVars, strategyVars
<1> QED
  BY <1>1
     DEF NegotiationInv, QueueTypes, AnswerTypes, StrategyTypes, QueueOK, HandlersOK, InHand,
         TermsAcceptable

LEMMA OnEventKeeps ==
  ASSUME NegotiationInv, OnEvent
  PROVE  NegotiationInv'
<1>1. UNCHANGED <<finder, subscribed, expiration, unscored, taken, handlers, proposal, again,
                  demand, score>>
  BY DEF OnEvent, findVars, handleVars, answerVars
<1>2. StrategyTypes'
  BY Shortened DEF NegotiationInv, StrategyTypes, OnEvent
<1> QED
  BY <1>1, <1>2
     DEF NegotiationInv, FinderTypes, QueueTypes, AnswerTypes, QueueOK, HandlersOK, InHand,
         TermsAcceptable

LEMMA NegotiationStart == NegotiationInit => NegotiationInv
<1> SUFFICES ASSUME NegotiationInit
             PROVE  NegotiationInv
  OBVIOUS
<1>1. /\ unscored = <<>> /\ taken = <<>> /\ agreementEvents = <<>> /\ again = {}
      /\ DOMAIN demand = {} /\ handlers = 0 /\ proposal = [p \in Proposals |-> "market"]
      /\ score = [p \in Proposals |-> Neutral] /\ rejecting = {} /\ subscribed = 0
      /\ finder = "subscribing"
  BY DEF NegotiationInit
<1>2. /\ <<>> \in Seq(Proposals) /\ <<>> \in Seq(Issuers) /\ Len(<<>>) <= 1 /\ DOMAIN <<>> = {}
      /\ 0 \in 0..MaxHandlers /\ 0 \in 0..MaxSubscriptions
  BY MaxHandlersAssumption
<1>3. Neutral \in Rejected..Trusted
  BY TrustedNat, SMT DEF Neutral
<1>4. InHand = {}
  BY <1>1 DEF InHand, Busy
<1>5. HandlersOK
  BY <1>1, <1>4, FS_EmptySet DEF HandlersOK
<1>6. FinderTypes /\ QueueTypes /\ StrategyTypes
  BY <1>1, <1>2 DEF FinderTypes, QueueTypes, StrategyTypes, ProposalStates
<1>7. AnswerTypes /\ TermsAcceptable
  BY <1>1, <1>3 DEF AnswerTypes, TermsAcceptable
<1>8. QueueOK
  BY <1>1, <1>2 DEF QueueOK
<1> QED
  BY <1>5, <1>6, <1>7, <1>8 DEF NegotiationInv

LEMMA NegotiationStep == NegotiationInv /\ [NegotiationNext]_negotiationVars => NegotiationInv'
<1> SUFFICES ASSUME NegotiationInv, [NegotiationNext]_negotiationVars
             PROVE  NegotiationInv'
  OBVIOUS
<1>1. CASE Subscribe \/ CollectFails \/ CancelFindOffers
  BY <1>1, FinderKeeps
<1>2. CASE TakeProposal
  BY <1>2, TakeProposalKeeps
<1>3. CASE StartHandler
  BY <1>3, StartHandlerKeeps
<1>4. CASE OnEvent
  BY <1>4, OnEventKeeps
<1>5. ASSUME NEW p \in Proposals,
             Collect(p) \/ Answers(p) \/ RecycleOffer(p) \/ AgreementConfirmed(p)
      PROVE  NegotiationInv'
  BY <1>5, CollectKeeps, AnswersKeeps, RecycleOfferKeeps, AgreementConfirmedKeeps
<1>6. CASE UNCHANGED negotiationVars
  BY <1>6
     DEF negotiationVars, findVars, handleVars, answerVars, strategyVars, NegotiationInv,
         FinderTypes, QueueTypes, AnswerTypes, StrategyTypes, QueueOK, HandlersOK, InHand,
         TermsAcceptable
<1> QED
  BY <1>1, <1>2, <1>3, <1>4, <1>5, <1>6 DEF NegotiationNext

LEMMA NegotiationPromises ==
  NegotiationInv => NegotiationTypeOK /\ TermsAcceptable /\ HandlersCounted
<1> SUFFICES ASSUME NegotiationInv
             PROVE  NegotiationTypeOK /\ HandlersCounted /\ TermsAcceptable
  OBVIOUS
<1>1. NegotiationTypeOK
  BY Zenon
     DEF NegotiationInv, FinderTypes, QueueTypes, AnswerTypes, StrategyTypes,
         NegotiationTypeOK
<1>2. HandlersCounted
  BY DEF NegotiationInv, HandlersOK, InHand, Busy, HandlersCounted
<1> QED
  BY <1>1, <1>2 DEF NegotiationInv

-----------------------------------------------------------------------------
(* Debit notes: the invariant                                                *)

(* The tasks that run; the notes of an agreement that have been sent, and    *)
(* those of them that have been checked.                                     *)
ActiveNotes == {n \in Notes : note[n] \in Active}
After == {"terminating", "deciding", "accepting", "accepted", "failed", "ignored"}
Sent(a) == {n \in Notes : For[n] = a /\ note[n] # "unsent"}
Checked(a) == {n \in Notes : For[n] = a /\ note[n] \in After}
SentPayable(a) == Sent(a) \cap payable
CheckedPayable(a) == Checked(a) \cap payable

ClockTypes ==
  /\ now \in 0..MaxTime /\ midAgreement \subseteq Agreements /\ hasty \subseteq Agreements
  /\ lastNote \in [Agreements -> Times] /\ lastPayable \in [Agreements -> Times]

NoteTypes ==
  /\ service \in {"running", "cancelled"} /\ note \in [Notes -> NoteStates]
  /\ waiting \subseteq Notes /\ calls \in [Notes -> 0..MaxCalls] /\ payable \subseteq Notes
  /\ permits \in 0..MaxNotes

WorkerTypes ==
  /\ activity \in [Agreements -> {"none", "creating", "running", "ended"}]
  /\ began \in [Agreements -> Times] /\ createdAt \in [Agreements -> Times]

CountTypes ==
  /\ accepts \subseteq Agreements /\ terminated \subseteq Agreements
  /\ numNotes \in [Agreements -> Nat] /\ numPayable \in [Agreements -> Nat]

(* A note is payable, or waits for the semaphore, only once it is sent.      *)
QueuesOK ==
  /\ \A n \in waiting : note[n] = "waiting"
  /\ \A n \in payable : note[n] # "unsent"

(* The times of an agreement are those of its activity.                      *)
WorkerOK(a) ==
  /\ activity[a] = "none" => began[a] = Never /\ createdAt[a] = Never /\ Sent(a) = {}
  /\ activity[a] = "ended" => began[a] = Never /\ createdAt[a] = Never
  /\ began[a] # Never => began[a] \in 0..now
  /\ createdAt[a] # Never => createdAt[a] = began[a]

(* No more notes are counted than have been checked.                         *)
CountsOK(a) ==
  /\ numNotes[a] <= Cardinality(Checked(a))
  /\ numPayable[a] <= Cardinality(CheckedPayable(a))

(* A provider that keeps to the intervals cannot have sent more notes since  *)
(* the activity began than there have been intervals.                        *)
Paced(last, first, num, interval) ==
  num > 0 => last \in 0..now /\ last >= first + (num - 1) * interval

PaceOK(a) ==
  began[a] # Never /\ a \notin hasty =>
    /\ a \in midAgreement => Paced(lastNote[a], began[a], Cardinality(Sent(a)), NoteInterval)
    /\ SentPayable(a) # {} => a \in midAgreement
    /\ Paced(lastPayable[a], began[a], Cardinality(SentPayable(a)), PayInterval)

(* Only a hasty provider is about to lose its agreement.                     *)
TermsOK ==
  /\ terminated \subseteq hasty
  /\ \A n \in Notes : note[n] = "terminating" => For[n] \in hasty

DebitInv ==
  /\ ClockTypes /\ NoteTypes /\ WorkerTypes /\ CountTypes
  /\ PermitsReturned /\ QueuesOK /\ TermsOK
  /\ \A a \in Agreements : WorkerOK(a) /\ CountsOK(a) /\ PaceOK(a)

-----------------------------------------------------------------------------
(* Debit notes: numbers and sets *)

LEMMA Multiples ==
  ASSUME NEW x \in Nat, NEW y \in Nat, NEW i \in Nat
  PROVE  /\ x * i \in Nat
         /\ x <= y => x * i <= y * i
         /\ (x + 1) * i = x * i + i
  BY SMT

LEMMA Subsets ==
  ASSUME NEW S \in SUBSET Notes
  PROVE  /\ IsFiniteSet(S) /\ Cardinality(S) \in Nat /\ Cardinality(S) <= Cardinality(Notes)
         /\ Cardinality(S) = 0 <=> S = {}
         /\ \A n \in Notes : n \notin S => Cardinality(S \cup {n}) = Cardinality(S) + 1
         /\ \A n \in S : Cardinality(S \ {n}) = Cardinality(S) - 1
         /\ \A T \in SUBSET S : Cardinality(T) <= Cardinality(S)
<1>1. IsFiniteSet(Notes)
  BY DebitNotesAssumption
<1>2. IsFiniteSet(S) /\ Cardinality(S) <= Cardinality(Notes)
  BY <1>1, FS_Subset
<1> QED
  BY <1>2, FS_CardinalityType, FS_EmptySet, FS_AddElement, FS_RemoveElement, FS_Subset

LEMMA NoteSets ==
  \A a : /\ Sent(a) \in SUBSET Notes /\ Checked(a) \in SUBSET Sent(a)
         /\ SentPayable(a) \in SUBSET Sent(a)
         /\ CheckedPayable(a) \in SUBSET SentPayable(a)
         /\ CheckedPayable(a) \in SUBSET Checked(a)
         /\ ActiveNotes \in SUBSET Notes
  BY DEF Sent, Checked, SentPayable, CheckedPayable, ActiveNotes, After

(* Notes that come no faster than agreed are never counted as too many.      *)
LEMMA PacedIsNotTooMany ==
  ASSUME NEW last, NEW first \in 0..now, now \in Nat, NEW sent \in Nat, NEW num \in Nat,
         num > 0, NEW interval \in Nat, num <= sent, Paced(last, first, sent, interval)
  PROVE  ~(now - first + Grace < (num - 1) * interval)
<1>1. PICK x \in Nat, y \in Nat : x = num - 1 /\ y = sent - 1 /\ x <= y
  OBVIOUS
<1>2. x * interval <= y * interval /\ x * interval \in Nat /\ y * interval \in Nat
  BY <1>1, Multiples
<1>3. last \in 0..now /\ last >= first + y * interval
  BY <1>1 DEF Paced
<1>4. Grace \in Nat
  BY DebitNotesAssumption
<1> QED
  BY <1>1, <1>2, <1>3, <1>4

(* The next note of a provider that keeps the pace.                          *)
LEMMA PaceKept ==
  ASSUME now \in Nat, NEW first \in 0..now, NEW last, NEW sent \in Nat, NEW interval \in Nat,
         Paced(last, first, sent, interval), ~TooSoon(last, interval)
  PROVE  Paced(now, first, sent + 1, interval)
<1>1. CASE sent = 0
  <2>1. 0 * interval = 0
    BY SMT
  <2> QED
    BY <1>1, <2>1 DEF Paced
<1>2. CASE sent # 0
  <2>1. PICK x \in Nat : sent = x + 1
    BY <1>2
  <2>2. x * interval \in Nat /\ (x + 1) * interval = x * interval + interval
    BY <2>1, Multiples
  <2>3. last \in 0..now /\ last >= first + x * interval /\ last # Never
    BY <2>1, DebitNotesAssumption DEF Paced
  <2>4. now >= last + interval
    BY <2>3 DEF TooSoon
  <2>5. now >= first + (x + 1) * interval
    BY <2>2, <2>3, <2>4
  <2>6. (sent + 1) - 1 = x + 1
    BY <2>1
  <2> QED
    BY <2>5, <2>6 DEF Paced
<1> QED
  BY <1>1, <1>2

-----------------------------------------------------------------------------
(* Debit notes: the steps *)

(* A task takes a note from one of its steps to the next, or ends.           *)
Counting(n) ==
  /\ numNotes' = [numNotes EXCEPT ![For[n]] = numNotes[For[n]] + 1]
  /\ numPayable' = [numPayable EXCEPT ![For[n]] = IF n \in payable
                      THEN numPayable[For[n]] + 1 ELSE numPayable[For[n]]]

TaskStep(n, state) ==
  /\ note[n] \in Active /\ state \in Active \cup {"ignored", "accepted", "failed"}
  /\ note' = [note EXCEPT ![n] = state]
  /\ permits' = IF state \in Active THEN permits ELSE permits + 1
  /\ calls' \in [Notes -> 0..MaxCalls]
  /\ note[n] \in After => state \in After
  /\ state = "terminating" => For[n] \in hasty
  /\ UNCHANGED <<clockVars, service, waiting, payable, workerVars, accepts>>
  /\ terminated' \subseteq hasty
  /\ UNCHANGED countVars \/ (note[n] = "fetching" /\ state \in After /\ Counting(n))

LEMMA TaskKeeps ==
  ASSUME DebitInv, NEW n \in Notes, NEW state, TaskStep(n, state)
  PROVE  DebitInv'
<1> USE DEF TaskStep, Counting
<1>0. state \in NoteStates
  BY DEF NoteStates
<1>1. UNCHANGED <<now, hasty, lastNote, lastPayable, midAgreement, service, waiting, payable,
                  activity, began, createdAt, accepts>>
  BY DEF clockVars, workerVars
<1>2. /\ note' \in [Notes -> NoteStates] /\ note'[n] = state
      /\ \A m \in Notes : m # n => note'[m] = note[m]
  BY <1>0 DEF DebitInv, NoteTypes
<1>3. permits' \in 0..MaxNotes /\ PermitsReturned'
  <2>1. permits \in 0..MaxNotes /\ MaxNotes \in Nat /\ n \in ActiveNotes
    BY DebitNotesAssumption DEF DebitInv, NoteTypes, ActiveNotes
  <2>2. /\ permits + Cardinality(ActiveNotes) = MaxNotes
        /\ PermitsReturned' <=> permits' + Cardinality(ActiveNotes') = MaxNotes
    BY DEF DebitInv, PermitsReturned, ActiveNotes
  <2>3. CASE state \in Active
    <3>1. ActiveNotes' = ActiveNotes
      BY <1>2, <2>3 DEF ActiveNotes
    <3> QED
      BY <2>1, <2>2, <2>3, <3>1
  <2>4. CASE state \notin Active
    <3>1. ActiveNotes' = ActiveNotes \ {n}
      BY <1>2, <2>4 DEF ActiveNotes
    <3>2. /\ Cardinality(ActiveNotes) \in Nat
          /\ Cardinality(ActiveNotes \ {n}) = Cardinality(ActiveNotes) - 1
          /\ Cardinality(ActiveNotes \ {n}) \in Nat
      BY <2>1, Subsets, NoteSets
    <3> QED
      BY <2>1, <2>2, <2>4, <3>1, <3>2
  <2> QED
    BY <2>3, <2>4
<1>4. \A a \in Agreements : Sent(a)' = Sent(a) /\ SentPayable(a)' = SentPayable(a)
  BY <1>1, <1>2 DEF Sent, SentPayable, Active
<1>5. \A a \in Agreements : CountsOK(a)' /\ numNotes'[a] \in Nat /\ numPayable'[a] \in Nat
  <2> SUFFICES ASSUME NEW a \in Agreements
               PROVE  CountsOK(a)' /\ numNotes'[a] \in Nat /\ numPayable'[a] \in Nat
    OBVIOUS
  <2>1. /\ Checked(a) \subseteq Checked(a)' /\ Checked(a)' \in SUBSET Notes
        /\ CheckedPayable(a) \subseteq CheckedPayable(a)'
        /\ CheckedPayable(a)' \in SUBSET Notes
    BY <1>1, <1>2 DEF Checked, CheckedPayable
  <2>2. /\ Cardinality(Checked(a)) \in Nat /\ Cardinality(Checked(a)') \in Nat
        /\ Cardinality(Checked(a)) <= Cardinality(Checked(a)')
        /\ Cardinality(CheckedPayable(a)) \in Nat /\ Cardinality(CheckedPayable(a)') \in Nat
        /\ Cardinality(CheckedPayable(a)) <= Cardinality(CheckedPayable(a)')
    BY <2>1, Subsets, NoteSets
  <2>3. /\ numNotes[a] \in Nat /\ numPayable[a] \in Nat
        /\ numNotes[a] <= Cardinality(Checked(a))
        /\ numPayable[a] <= Cardinality(CheckedPayable(a))
    BY DEF DebitInv, CountTypes, CountsOK
  <2>4. CASE numNotes'[a] = numNotes[a] /\ numPayable'[a] = numPayable[a]
    BY <2>2, <2>3, <2>4 DEF CountsOK
  <2>5. CASE /\ a = For[n] /\ note[n] = "fetching" /\ state \in After
             /\ numNotes'[a] = numNotes[a] + 1
             /\ numPayable'[a] = IF n \in payable THEN numPayable[a] + 1 ELSE numPayable[a]
    <3>1. n \notin Checked(a) /\ Checked(a)' = Checked(a) \cup {n}
      BY <1>2, <2>5 DEF Checked, After
    <3>2. /\ n \notin CheckedPayable(a)
          /\ n \in payable => CheckedPayable(a)' = CheckedPayable(a) \cup {n}
      BY <1>1, <3>1 DEF CheckedPayable
    <3>3. Cardinality(Checked(a)') = Cardinality(Checked(a)) + 1
      BY <3>1, Subsets, NoteSets
    <3>4. n \in payable => Cardinality(CheckedPayable(a)') = Cardinality(CheckedPayable(a)) + 1
      BY <3>2, Subsets, NoteSets
    <3> QED
      BY <2>2, <2>3, <2>5, <3>3, <3>4 DEF CountsOK
  <2> QED
    BY <2>4, <2>5 DEF countVars, DebitInv, CountTypes
<1>6. CountTypes'
  <2>1. /\ numNotes' = [a \in Agreements |-> numNotes'[a]]
        /\ numPayable' = [a \in Agreements |-> numPayable'[a]]
    BY DEF countVars, DebitInv, CountTypes
  <2>2. terminated' \subseteq Agreements
    BY DEF DebitInv, ClockTypes
  <2> QED
    BY <1>1, <1>5, <2>1, <2>2 DEF DebitInv, CountTypes
<1>7. \A a \in Agreements : WorkerOK(a)' /\ PaceOK(a)'
  BY <1>1, <1>4 DEF DebitInv, WorkerOK, PaceOK, Paced
<1>8. QueuesOK' /\ TermsOK'
  BY <1>1, <1>2 DEF DebitInv, QueuesOK, TermsOK, NoteTypes, Active
<1> QED
  BY <1>1, <1>2, <1>3, <1>5, <1>6, <1>7, <1>8 DEF DebitInv, ClockTypes, NoteTypes, WorkerTypes

LEMMA CheckNoteKeeps ==
  ASSUME DebitInv, NEW n \in Notes, CheckNote(n)
  PROVE  DebitInv'
<1> DEFINE a        == For[n]
           num      == numNotes[a] + 1
           numPay   == IF n \in payable THEN numPayable[a] + 1 ELSE numPayable[a]
           reason   == \/ a \in midAgreement /\ TooOften(a, num, NoteInterval)
                       \/ /\ n \in payable
                          /\ a \notin midAgreement \/ TooOften(a, numPay, PayInterval)
           counted  == a \in accepts /\ a \notin terminated
           state    == IF ~counted \/ createdAt[a] = Never THEN "ignored"
                       ELSE IF reason THEN "terminating" ELSE "deciding"
<1>1. /\ note[n] = "fetching" /\ note' = [note EXCEPT ![n] = state]
      /\ permits' = IF state \in Active THEN permits ELSE permits + 1
      /\ calls' = [calls EXCEPT ![n] = 0]
      /\ UNCHANGED <<clockVars, service, waiting, payable, workerVars, accepts, terminated>>
  BY DEF CheckNote, NoteEnds, NoteGoes, Active
<1>2. \/ UNCHANGED countVars
      \/ /\ numNotes' = [numNotes EXCEPT ![a] = num]
         /\ numPayable' = [numPayable EXCEPT ![a] = numPay]
  BY DEF CheckNote
<1>3. a \in Agreements
  BY DebitNotesAssumption
<1>4. ASSUME createdAt[a] # Never, reason
      PROVE  a \in hasty
  <2> SUFFICES ASSUME a \notin hasty
               PROVE  FALSE
    OBVIOUS
  <2>1. /\ now \in Nat /\ createdAt[a] = began[a] /\ began[a] \in 0..now /\ began[a] # Never
        /\ {NoteInterval, PayInterval} \subseteq Nat
        /\ numNotes[a] \in Nat /\ numPayable[a] \in Nat
    BY <1>3, <1>4, DebitNotesAssumption DEF DebitInv, ClockTypes, CountTypes, WorkerOK
  <2>2. /\ n \in Sent(a) /\ n \notin Checked(a)
        /\ n \in payable => n \in SentPayable(a) /\ n \notin CheckedPayable(a)
    BY <1>1 DEF Sent, Checked, SentPayable, CheckedPayable, After
  <2>3. /\ Cardinality(Sent(a)) \in Nat /\ Cardinality(Checked(a)) \in Nat
        /\ Cardinality(Checked(a)) + 1 <= Cardinality(Sent(a))
    <3>1. /\ Checked(a) \cup {n} \in SUBSET Sent(a)
          /\ Cardinality(Checked(a) \cup {n}) = Cardinality(Checked(a)) + 1
      BY <2>2, Subsets, NoteSets
    <3> QED
      BY <3>1, Subsets, NoteSets
  <2>4. ASSUME n \in payable
        PROVE  /\ Cardinality(SentPayable(a)) \in Nat /\ Cardinality(CheckedPayable(a)) \in Nat
               /\ Cardinality(CheckedPayable(a)) + 1 <= Cardinality(SentPayable(a))
    <3>1. /\ CheckedPayable(a) \cup {n} \in SUBSET SentPayable(a)
          /\ Cardinality(CheckedPayable(a) \cup {n}) = Cardinality(CheckedPayable(a)) + 1
      BY <2>2, <2>4, Subsets, NoteSets
    <3> QED
      BY <3>1, Subsets, NoteSets
  <2>5. /\ numNotes[a] <= Cardinality(Checked(a))
        /\ numPayable[a] <= Cardinality(CheckedPayable(a))
        /\ a \in midAgreement => Paced(lastNote[a], began[a], Cardinality(Sent(a)), NoteInterval)
        /\ SentPayable(a) # {} => a \in midAgreement
        /\ Paced(lastPayable[a], began[a], Cardinality(SentPayable(a)), PayInterval)
    BY <1>3, <2>1 DEF DebitInv, CountsOK, PaceOK
  <2>6. CASE a \in midAgreement /\ TooOften(a, num, NoteInterval)
    <3>1. num \in Nat /\ num > 0 /\ num <= Cardinality(Sent(a))
      BY <2>1, <2>3, <2>5
    <3>2. ~(now - began[a] + Grace < (num - 1) * NoteInterval)
      BY <2>1, <2>3, <2>5, <2>6, <3>1, PacedIsNotTooMany
    <3> QED
      BY <2>1, <2>6, <3>2 DEF TooOften
  <2>7. CASE n \in payable /\ (a \notin midAgreement \/ TooOften(a, numPay, PayInterval))
    <3>1. numPay \in Nat /\ numPay > 0 /\ numPay <= Cardinality(SentPayable(a))
      BY <2>1, <2>4, <2>5, <2>7
    <3>2. ~(now - began[a] + Grace < (numPay - 1) * PayInterval)
      BY <2>1, <2>4, <2>5, <2>7, <3>1, PacedIsNotTooMany
    <3> QED
      BY <2>1, <2>2, <2>5, <2>7, <3>2 DEF TooOften
  <2> QED
    BY <1>4, <2>6, <2>7
<1>5. /\ state \in NoteStates /\ state \in Active \cup {"ignored", "accepted", "failed"}
      /\ state \in After /\ note[n] \in Active
      /\ state = "terminating" => a \in hasty
  BY <1>1, <1>4 DEF NoteStates, Active, After
<1>6. calls' \in [Notes -> 0..MaxCalls] /\ terminated' \subseteq hasty
  BY <1>1, DebitNotesAssumption DEF DebitInv, NoteTypes, TermsOK
<1>7. UNCHANGED countVars \/ Counting(n)
  BY <1>2 DEF Counting
<1> HIDE DEF state
<1>8. TaskStep(n, state)
  BY <1>1, <1>5, <1>6, <1>7 DEF TaskStep
<1> QED
  BY <1>8, TaskKeeps

(* The other steps of a task *)
LEMMA NoteTaskKeeps ==
  ASSUME DebitInv, NEW n \in Notes, NoteTask(n)
  PROVE  DebitInv'
<1>1. CASE CheckNote(n)
  BY <1>1, CheckNoteKeeps
<1>2. ASSUME ~CheckNote(n)
      PROVE  \E state \in NoteStates : TaskStep(n, state)
  <2>1. /\ note \in [Notes -> NoteStates] /\ calls \in [Notes -> 0..MaxCalls]
        /\ MaxCalls \in Nat /\ terminated \subseteq hasty
    BY DebitNotesAssumption DEF DebitInv, NoteTypes, TermsOK
  <2>2. [calls EXCEPT ![n] = 0] \in [Notes -> 0..MaxCalls]
    BY <2>1
  <2>3. CASE CallFails(n)
    <3>1. CASE /\ calls[n] + 1 < MaxCalls /\ calls' = [calls EXCEPT ![n] = @ + 1]
               /\ UNCHANGED <<note, permits>>
      <4>1. note' = [note EXCEPT ![n] = note[n]] /\ calls' \in [Notes -> 0..MaxCalls]
        BY <2>1, <3>1
      <4>2. TaskStep(n, note[n])
        BY <2>1, <2>3, <3>1, <4>1 DEF CallFails, TaskStep, Active
      <4> QED
        BY <2>1, <4>2
    <3>2. CASE NoteEnds(n, "failed")
      <4>1. TaskStep(n, "failed")
        BY <2>1, <2>2, <2>3, <3>2 DEF CallFails, NoteEnds, TaskStep, Active, After
      <4> QED
        BY <4>1 DEF NoteStates
    <3> QED
      BY <2>3, <3>1, <3>2 DEF CallFails
  <2>4. CASE TerminateAgreement(n)
    <3>1. For[n] \in hasty
      BY <2>4 DEF TerminateAgreement, DebitInv, TermsOK
    <3>2. TaskStep(n, "ignored")
      BY <2>1, <2>2, <2>4, <3>1 DEF TerminateAgreement, NoteEnds, TaskStep, Active, After
    <3> QED
      BY <3>2 DEF NoteStates
  <2>5. CASE DecideNote(n)
    <3>1. CASE NoteGoes(n, "accepting")
      <4>1. TaskStep(n, "accepting")
        BY <2>1, <2>2, <2>5, <3>1 DEF DecideNote, NoteGoes, TaskStep, Active, After
      <4> QED
        BY <4>1 DEF NoteStates, Active
    <3>2. ASSUME NEW end \in {"ignored", "failed"}, NoteEnds(n, end)
          PROVE  TaskStep(n, end) /\ end \in NoteStates
      BY <2>1, <2>2, <2>5, <3>2 DEF DecideNote, NoteEnds, TaskStep, Active, After, NoteStates
    <3> QED
      BY <2>5, <3>1, <3>2 DEF DecideNote
  <2>6. CASE NoteAccepted(n)
    <3>1. TaskStep(n, "accepted")
      BY <2>1, <2>2, <2>6 DEF NoteAccepted, NoteEnds, TaskStep, Active, After
    <3> QED
      BY <3>1 DEF NoteStates
  <2> QED
    BY <1>2, <2>3, <2>4, <2>5, <2>6 DEF NoteTask
<1> QED
  BY <1>1, <1>2, TaskKeeps

(* What is known of the notes stays when they do.                            *)
LEMMA SetsKept ==
  ASSUME UNCHANGED <<note, payable>>
  PROVE  \A a : /\ Sent(a)' = Sent(a) /\ SentPayable(a)' = SentPayable(a)
                /\ Checked(a)' = Checked(a)
                /\ CheckedPayable(a)' = CheckedPayable(a)
  BY DEF Sent, SentPayable, Checked, CheckedPayable

(* _shutdown, the final invoices and a stutter leave the notes alone.        *)
LEMMA NotesLeftAlone ==
  ASSUME DebitInv, service' \in {"running", "cancelled"}, waiting' \subseteq waiting,
         accepts' \subseteq accepts,
         UNCHANGED <<clockVars, noteVars, payable, workerVars, terminated, countVars>>
  PROVE  DebitInv'
<1>1. UNCHANGED <<now, hasty, lastNote, lastPayable, midAgreement, note, permits, calls, payable,
                  activity, began, createdAt, terminated, numNotes, numPayable>>
  BY DEF clockVars, noteVars, workerVars, countVars
<1>2. /\ ClockTypes' /\ NoteTypes' /\ WorkerTypes' /\ CountTypes'
      /\ PermitsReturned' /\ QueuesOK' /\ TermsOK'
  BY <1>1
     DEF DebitInv, ClockTypes, NoteTypes, WorkerTypes, CountTypes, PermitsReturned, QueuesOK,
         TermsOK
<1>3. \A a \in Agreements : WorkerOK(a)' /\ CountsOK(a)' /\ PaceOK(a)'
  BY <1>1, SetsKept DEF DebitInv, WorkerOK, CountsOK, PaceOK, Paced
<1> QED
  BY <1>2, <1>3 DEF DebitInv

LEMMA TickKeeps ==
  ASSUME DebitInv, Tick
  PROVE  DebitInv'
<1>1. /\ now \in 0..MaxTime /\ MaxTime \in Nat /\ now' = now + 1 /\ now < MaxTime
      /\ now' \in 0..MaxTime
  BY DebitNotesAssumption DEF Tick, DebitInv, ClockTypes
<1>2. UNCHANGED <<hasty, lastNote, lastPayable, midAgreement, service, note, permits, calls,
                  waiting, payable, activity, began, createdAt, accepts, terminated, numNotes,
                  numPayable>>
  BY DEF Tick, noteVars, workerVars, countVars
<1>3. /\ ClockTypes' /\ NoteTypes' /\ WorkerTypes' /\ CountTypes'
      /\ PermitsReturned' /\ QueuesOK' /\ TermsOK'
  BY <1>1, <1>2
     DEF DebitInv, ClockTypes, NoteTypes, WorkerTypes, CountTypes, PermitsReturned, QueuesOK,
         TermsOK
<1>4. \A x \in 0..now : x \in 0..now'
  BY <1>1
<1>5. \A a \in Agreements : WorkerOK(a)' /\ CountsOK(a)' /\ PaceOK(a)'
  BY <1>2, <1>4, SetsKept DEF DebitInv, WorkerOK, CountsOK, PaceOK, Paced
<1> QED
  BY <1>3, <1>5 DEF DebitInv

LEMMA WorkerStepKeeps ==
  ASSUME DebitInv, NEW b \in Agreements, WorkerStep(b)
  PROVE  DebitInv'
<1>1. UNCHANGED <<now, hasty, lastNote, lastPayable, midAgreement, service, note, permits, calls,
                  waiting, payable, terminated, numNotes, numPayable>>
  BY DEF WorkerStep, clockVars, noteVars, countVars
<1>2. /\ activity \in [Agreements -> {"none", "creating", "running", "ended"}]
      /\ began \in [Agreements -> Times] /\ createdAt \in [Agreements -> Times]
      /\ now \in 0..MaxTime /\ MaxTime \in Nat /\ now \in Times
      /\ Never \in Times /\ now \in 0..now /\ accepts \subseteq Agreements /\ now # Never
  BY DebitNotesAssumption DEF DebitInv, ClockTypes, WorkerTypes, CountTypes, Times
<1>3. /\ activity' \in [Agreements -> {"none", "creating", "running", "ended"}]
      /\ began' \in [Agreements -> Times] /\ createdAt' \in [Agreements -> Times]
      /\ accepts' \subseteq Agreements
  BY <1>2 DEF WorkerStep
<1>4. \A c \in Agreements : c # b => /\ activity'[c] = activity[c] /\ began'[c] = began[c]
                                     /\ createdAt'[c] = createdAt[c]
  BY <1>2 DEF WorkerStep
<1>5. \/ /\ activity[b] = "none" /\ activity'[b] = "creating" /\ began'[b] = now
         /\ createdAt'[b] = createdAt[b]
      \/ /\ activity[b] = "creating" /\ activity'[b] = "running" /\ began'[b] = began[b]
         /\ createdAt'[b] = began[b]
      \/ activity'[b] = "ended" /\ began'[b] = Never /\ createdAt'[b] = Never
  BY <1>2 DEF WorkerStep
<1>6. /\ ClockTypes' /\ NoteTypes' /\ WorkerTypes' /\ CountTypes'
      /\ PermitsReturned' /\ QueuesOK' /\ TermsOK'
  BY <1>1, <1>3
     DEF DebitInv, ClockTypes, NoteTypes, WorkerTypes, CountTypes, PermitsReturned, QueuesOK,
         TermsOK
<1>7. \A a \in Agreements : /\ Sent(a)' = Sent(a) /\ SentPayable(a)' = SentPayable(a)
                            /\ Checked(a)' = Checked(a)
                            /\ CheckedPayable(a)' = CheckedPayable(a)
  BY <1>1, SetsKept
<1>8. \A a \in Agreements : CountsOK(a)'
  BY <1>1, <1>7 DEF DebitInv, CountsOK
<1>9. \A a \in Agreements \ {b} : WorkerOK(a)' /\ PaceOK(a)'
  BY <1>1, <1>4, <1>7 DEF DebitInv, WorkerOK, PaceOK, Paced
<1>10. WorkerOK(b)'
  BY <1>1, <1>2, <1>5, <1>7 DEF DebitInv, WorkerOK
<1>11. PaceOK(b)'
  <2>1. CASE activity[b] = "none"
    <3>1. Sent(b) = {} /\ SentPayable(b) = {} /\ Cardinality({}) = 0
      BY <2>1, FS_EmptySet DEF DebitInv, WorkerOK, SentPayable
    <3>2. /\ Cardinality(Sent(b)') = 0 /\ Cardinality(SentPayable(b)') = 0
          /\ SentPayable(b)' = {}
      BY <1>7, <3>1
    <3>3. \A last, first, interval : Paced(last, first, 0, interval)'
      BY DEF Paced
    <3> QED
      BY <3>2, <3>3 DEF PaceOK
  <2>2. CASE activity[b] # "none" /\ began'[b] # Never
    BY <1>1, <1>5, <1>7, <2>2 DEF DebitInv, PaceOK, Paced
  <2> QED
    BY <2>1, <2>2 DEF PaceOK
<1> QED
  BY <1>6, <1>8, <1>9, <1>10, <1>11 DEF DebitInv

(* The service takes a note out of the events, and starts its task.          *)
LEMMA ReceiveNoteKeeps ==
  ASSUME DebitInv, NEW n \in Notes, ReceiveNote(n)
  PROVE  DebitInv'
<1>1. /\ UNCHANGED <<now, hasty, lastNote, lastPayable, midAgreement, service, permits, calls,
                     payable, activity, began, createdAt, accepts, terminated, numNotes,
                     numPayable>>
      /\ waiting' = {n} /\ note' = [note EXCEPT ![n] = "waiting"] /\ note[n] = "incoming"
  BY DEF ReceiveNote, clockVars, workerVars, countVars
<1>2. /\ note' \in [Notes -> NoteStates] /\ note'[n] = "waiting"
      /\ \A m \in Notes : m # n => note'[m] = note[m]
  BY <1>1 DEF DebitInv, NoteTypes, NoteStates
<1>3. ActiveNotes' = ActiveNotes
  BY <1>1, <1>2 DEF ActiveNotes, Active
<1>4. \A a \in Agreements : /\ Sent(a)' = Sent(a) /\ SentPayable(a)' = SentPayable(a)
                            /\ Checked(a)' = Checked(a)
                            /\ CheckedPayable(a)' = CheckedPayable(a)
  BY <1>1, <1>2 DEF Sent, SentPayable, Checked, CheckedPayable, After
<1>5. PermitsReturned'
  BY <1>1, <1>3 DEF DebitInv, PermitsReturned, ActiveNotes
<1>6. ClockTypes' /\ NoteTypes' /\ WorkerTypes' /\ CountTypes' /\ QueuesOK' /\ TermsOK'
  BY <1>1, <1>2
     DEF DebitInv, ClockTypes, NoteTypes, WorkerTypes, CountTypes, QueuesOK, TermsOK
<1>7. \A a \in Agreements : WorkerOK(a)' /\ CountsOK(a)' /\ PaceOK(a)'
  BY <1>1, <1>4 DEF DebitInv, WorkerOK, CountsOK, PaceOK, Paced
<1> QED
  BY <1>5, <1>6, <1>7 DEF DebitInv

LEMMA StartNoteKeeps ==
  ASSUME DebitInv, NEW n \in Notes, StartNote(n)
  PROVE  DebitInv'
<1>1. /\ UNCHANGED <<now, hasty, lastNote, lastPayable, midAgreement, service, calls, payable,
                     activity, began, createdAt, accepts, terminated, numNotes, numPayable>>
      /\ waiting' = {} /\ note' = [note EXCEPT ![n] = "fetching"]
      /\ permits > 0 /\ permits' = permits - 1 /\ n \in waiting
  BY DEF StartNote, clockVars, workerVars, countVars
<1>2. /\ note' \in [Notes -> NoteStates] /\ note'[n] = "fetching" /\ note[n] = "waiting"
      /\ \A m \in Notes : m # n => note'[m] = note[m]
  BY <1>1 DEF DebitInv, NoteTypes, NoteStates, Active, QueuesOK
<1>3. ActiveNotes' = ActiveNotes \cup {n} /\ n \notin ActiveNotes
  BY <1>2 DEF ActiveNotes, Active
<1>4. \A a \in Agreements : /\ Sent(a)' = Sent(a) /\ SentPayable(a)' = SentPayable(a)
                            /\ Checked(a)' = Checked(a)
                            /\ CheckedPayable(a)' = CheckedPayable(a)
  BY <1>1, <1>2 DEF Sent, SentPayable, Checked, CheckedPayable, After
<1>5. permits' \in 0..MaxNotes /\ PermitsReturned'
  <2>1. permits \in 0..MaxNotes /\ MaxNotes \in Nat
    BY DebitNotesAssumption DEF DebitInv, NoteTypes
  <2>2. /\ permits + Cardinality(ActiveNotes) = MaxNotes
        /\ PermitsReturned' <=> permits' + Cardinality(ActiveNotes') = MaxNotes
    BY DEF DebitInv, PermitsReturned, ActiveNotes
  <2>3. /\ Cardinality(ActiveNotes) \in Nat
        /\ Cardinality(ActiveNotes') = Cardinality(ActiveNotes) + 1
    BY <1>3, Subsets, NoteSets
  <2> QED
    BY <1>1, <2>1, <2>2, <2>3
<1>6. ClockTypes' /\ NoteTypes' /\ WorkerTypes' /\ CountTypes' /\ QueuesOK' /\ TermsOK'
  BY <1>1, <1>2, <1>5
     DEF DebitInv, ClockTypes, NoteTypes, WorkerTypes, CountTypes, QueuesOK, TermsOK
<1>7. \A a \in Agreements : WorkerOK(a)' /\ CountsOK(a)' /\ PaceOK(a)'
  BY <1>1, <1>4 DEF DebitInv, WorkerOK, CountsOK, PaceOK, Paced
<1> QED
  BY <1>5, <1>6, <1>7 DEF DebitInv

(* A provider that is not hasty keeps the pace with the note it sends.       *)
LEMMA SendNoteKeeps ==
  ASSUME DebitInv, NEW n \in Notes, NEW due \in BOOLEAN, SendNote(n, due)
  PROVE  DebitInv'
<1> DEFINE a == For[n]
<1>0. a \in Agreements /\ Never \notin Nat
  BY DebitNotesAssumption
<1>1. /\ UNCHANGED <<now, midAgreement, service, permits, calls, waiting, activity, began,
                     createdAt, accepts, terminated, numNotes, numPayable>>
      /\ note[n] = "unsent" /\ note' = [note EXCEPT ![n] = "incoming"] /\ activity[a] # "none"
      /\ payable' = IF due THEN payable \cup {n} ELSE payable
  BY DEF SendNote, workerVars, countVars
<1>2. \/ /\ hasty' = hasty \cup {a}
         /\ lastNote' = [lastNote EXCEPT ![a] = Never]
         /\ lastPayable' = [lastPayable EXCEPT ![a] = Never]
      \/ /\ hasty' = hasty
         /\ a \in midAgreement => ~TooSoon(lastNote[a], NoteInterval)
         /\ due => a \in midAgreement /\ ~TooSoon(lastPayable[a], PayInterval)
         /\ lastNote' = [lastNote EXCEPT ![a] = now]
         /\ lastPayable' = IF due THEN [lastPayable EXCEPT ![a] = now] ELSE lastPayable
  BY DEF SendNote
<1>3. /\ note' \in [Notes -> NoteStates] /\ note'[n] = "incoming"
      /\ \A m \in Notes : m # n => note'[m] = note[m]
  BY <1>1 DEF DebitInv, NoteTypes, NoteStates
<1>4. ActiveNotes' = ActiveNotes
  BY <1>1, <1>3 DEF ActiveNotes, Active
<1>5. /\ n \notin payable /\ payable' \subseteq Notes
      /\ \A m \in Notes : m # n => (m \in payable' <=> m \in payable)
  BY <1>1 DEF DebitInv, QueuesOK, NoteTypes
<1>6. /\ \A c \in Agreements : Checked(c)' = Checked(c) /\ CheckedPayable(c)' = CheckedPayable(c)
      /\ \A c \in Agreements \ {a} : Sent(c)' = Sent(c) /\ SentPayable(c)' = SentPayable(c)
  BY <1>1, <1>3, <1>5 DEF Sent, SentPayable, Checked, CheckedPayable, After
<1>7. /\ n \notin Sent(a) /\ Sent(a)' = Sent(a) \cup {n}
      /\ n \notin SentPayable(a)
      /\ SentPayable(a)' = IF due THEN SentPayable(a) \cup {n} ELSE SentPayable(a)
  BY <1>1, <1>3, <1>5 DEF Sent, SentPayable
<1>8. /\ now \in Times /\ now \in Nat /\ hasty' \subseteq Agreements /\ hasty \subseteq hasty'
      /\ lastNote' \in [Agreements -> Times] /\ lastPayable' \in [Agreements -> Times]
      /\ \A c \in Agreements \ {a} : /\ lastNote'[c] = lastNote[c]
                                     /\ lastPayable'[c] = lastPayable[c]
  BY <1>0, <1>2, DebitNotesAssumption DEF DebitInv, ClockTypes, Times
<1>9. PermitsReturned'
  BY <1>1, <1>4 DEF DebitInv, PermitsReturned, ActiveNotes
<1>10. ClockTypes' /\ NoteTypes' /\ WorkerTypes' /\ CountTypes'
  BY <1>1, <1>3, <1>5, <1>8 DEF DebitInv, ClockTypes, NoteTypes, WorkerTypes, CountTypes
<1>11. QueuesOK' /\ TermsOK'
  <2>1. QueuesOK'
    BY <1>1, <1>3 DEF DebitInv, QueuesOK, NoteTypes
  <2>2. TermsOK'
    BY <1>1, <1>3, <1>8 DEF DebitInv, TermsOK
  <2> QED
    BY <2>1, <2>2
<1>12. \A c \in Agreements : CountsOK(c)'
  BY <1>1, <1>6 DEF DebitInv, CountsOK
<1>13. \A c \in Agreements \ {a} : WorkerOK(c)' /\ PaceOK(c)'
  BY <1>1, <1>6, <1>8 DEF DebitInv, WorkerOK, PaceOK, Paced
<1>14. WorkerOK(a)'
  BY <1>0, <1>1 DEF DebitInv, WorkerOK
<1>15. PaceOK(a)'
  <2> SUFFICES ASSUME began[a] # Never, a \notin hasty'
               PROVE  /\ a \in midAgreement =>
                           Paced(lastNote[a], began[a], Cardinality(Sent(a)), NoteInterval)'
                      /\ SentPayable(a)' # {} => a \in midAgreement
                      /\ Paced(lastPayable[a], began[a], Cardinality(SentPayable(a)), PayInterval)'
    BY <1>1 DEF PaceOK
  <2>1. /\ a \in midAgreement => ~TooSoon(lastNote[a], NoteInterval)
        /\ due => a \in midAgreement /\ ~TooSoon(lastPayable[a], PayInterval)
        /\ lastNote'[a] = now /\ lastPayable'[a] = IF due THEN now ELSE lastPayable[a]
    BY <1>0, <1>2 DEF DebitInv, ClockTypes
  <2>2. /\ began[a] \in 0..now
        /\ a \in midAgreement => Paced(lastNote[a], began[a], Cardinality(Sent(a)), NoteInterval)
        /\ SentPayable(a) # {} => a \in midAgreement
        /\ Paced(lastPayable[a], began[a], Cardinality(SentPayable(a)), PayInterval)
    BY <1>0, <1>8 DEF DebitInv, WorkerOK, PaceOK
  <2>3. /\ Cardinality(Sent(a)) \in Nat
        /\ Cardinality(Sent(a)') = Cardinality(Sent(a)) + 1
        /\ Cardinality(SentPayable(a)) \in Nat
        /\ due => Cardinality(SentPayable(a)') = Cardinality(SentPayable(a)) + 1
    BY <1>7, Subsets, NoteSets
  <2>4. NoteInterval \in Nat /\ PayInterval \in Nat
    BY DebitNotesAssumption
  <2>5. ASSUME a \in midAgreement
        PROVE  Paced(lastNote[a], began[a], Cardinality(Sent(a)), NoteInterval)'
    <3>1. Paced(now, began[a], Cardinality(Sent(a)) + 1, NoteInterval)
      BY <1>8, <2>1, <2>2, <2>3, <2>4, <2>5, PaceKept
    <3> QED
      BY <1>1, <2>1, <2>3, <3>1 DEF Paced
  <2>6. CASE due
    <3>1. Paced(now, began[a], Cardinality(SentPayable(a)) + 1, PayInterval)
      BY <1>8, <2>1, <2>2, <2>3, <2>4, <2>6, PaceKept
    <3>2. Paced(lastPayable[a], began[a], Cardinality(SentPayable(a)), PayInterval)'
      BY <1>1, <2>1, <2>3, <2>6, <3>1 DEF Paced
    <3> QED
      BY <2>1, <2>5, <2>6, <3>2
  <2>7. CASE ~due
    BY <1>1, <1>7, <2>1, <2>2, <2>5, <2>7 DEF Paced
  <2> QED
    BY <2>6, <2>7
<1> QED
  BY <1>9, <1>10, <1>11, <1>12, <1>13, <1>14, <1>15 DEF DebitInv

-----------------------------------------------------------------------------
(* Debit notes: the initial states, all steps, and what the invariant promises *)

LEMMA DebitStart ==
  ASSUME DebitNotesInit
  PROVE  DebitInv
<1> USE DEF DebitNotesInit
<1>1. /\ {MaxTime} \subseteq Nat /\ {MaxNotes, MaxCalls} \subseteq Nat \ {0}
      /\ 0 \in Times /\ Never \in Times
  BY DebitNotesAssumption DEF Times
<1>2. ClockTypes /\ NoteTypes /\ WorkerTypes /\ CountTypes /\ QueuesOK /\ TermsOK
  BY <1>1, DebitNotesAssumption
     DEF ClockTypes, NoteTypes, WorkerTypes, CountTypes, QueuesOK, TermsOK, NoteStates
<1>3. /\ {n \in Notes : note[n] \in Active} = {}
      /\ \A a \in Agreements : /\ Sent(a) = {} /\ SentPayable(a) = {} /\ Checked(a) = {}
                               /\ CheckedPayable(a) = {}
  BY DEF Active, Sent, SentPayable, Checked, CheckedPayable, After
<1>4. Cardinality({}) = 0
  BY FS_EmptySet
<1>5. PermitsReturned
  BY <1>1, <1>3, <1>4 DEF PermitsReturned
<1>6. \A a \in Agreements : WorkerOK(a) /\ CountsOK(a) /\ PaceOK(a)
  BY <1>3, <1>4 DEF WorkerOK, CountsOK, PaceOK
<1> QED
  BY <1>2, <1>5, <1>6 DEF DebitInv

LEMMA DebitStep ==
  ASSUME DebitInv, [DebitNotesNext]_debitVars
  PROVE  DebitInv'
<1>1. CASE CancelService \/ UNCHANGED debitVars
  BY <1>1, NotesLeftAlone DEF CancelService, debitVars, DebitInv, NoteTypes
<1>2. ASSUME NEW a \in Agreements, InvoicePaid(a)
      PROVE  DebitInv'
  BY <1>2, NotesLeftAlone DEF InvoicePaid, DebitInv, NoteTypes
<1> QED
  BY <1>1, <1>2, TickKeeps, WorkerStepKeeps, SendNoteKeeps, ReceiveNoteKeeps, StartNoteKeeps,
     NoteTaskKeeps
     DEF DebitNotesNext

LEMMA DebitPromises ==
  ASSUME DebitInv
  PROVE  DebitNotesTypeOK /\ WellPacedNotTerminated /\ PermitsReturned
<1>1. \A a \in Agreements : numNotes[a] \in Counts /\ numPayable[a] \in Counts
  <2> SUFFICES ASSUME NEW a \in Agreements
               PROVE  numNotes[a] \in Counts /\ numPayable[a] \in Counts
    OBVIOUS
  <2>1. Checked(a) \in SUBSET Notes /\ CheckedPayable(a) \in SUBSET Notes
    BY NoteSets
  <2>2. /\ Cardinality(Notes) \in Nat
        /\ Cardinality(Checked(a)) \in Nat /\ Cardinality(Checked(a)) <= Cardinality(Notes)
        /\ Cardinality(CheckedPayable(a)) \in Nat
        /\ Cardinality(CheckedPayable(a)) <= Cardinality(Notes)
    BY <2>1, Subsets
  <2> QED
    BY <2>2 DEF DebitInv, CountTypes, CountsOK, Counts
<1>2. numNotes \in [Agreements -> Counts] /\ numPayable \in [Agreements -> Counts]
  BY <1>1 DEF DebitInv, CountTypes
<1> QED
  BY <1>2
     DEF DebitInv, ClockTypes, NoteTypes, WorkerTypes, CountTypes, TermsOK, DebitNotesTypeOK,
         WellPacedNotTerminated

-----------------------------------------------------------------------------
(* Summary: the invariant                                                    *)

Summaries ==
  [startTime : SUBSET LogJobs, received : SUBSET LogProviders, confirmed : SUBSET LogProviders,
   info : SUBSET LogAgreements, agreements : SUBSET LogAgreements,
   cost : [LogProviders -> Nat],
   tasks : SUBSET (LogJobs \X LogProviders), services : SUBSET (LogJobs \X LogProviders),
   failures : SUBSET (LogJobs \X LogProviders),
   cancelled : BOOLEAN, error : BOOLEAN, shutdown : BOOLEAN, timer : BOOLEAN]

JobStages == {"none", "running", "over"}
AgreementStages == {"none", "received", "proposed", "created", "ready", "rejected", "worker",
                    "active", "task", "served", "ended"}
Known == {"created", "ready", "worker", "active", "task", "served", "ended"}

ProgramTypes ==
  /\ jobStage \in [LogJobs -> JobStages] /\ agrStage \in [LogAgreements -> AgreementStages]
  /\ agrWork \in [LogAgreements -> 0..MaxWork]
  /\ live \subseteq LogAgreements /\ billed \subseteq LogAgreements
  /\ shutdowns \in 0..MaxShutdowns /\ spent \in [LogProviders -> Nat]

(* What the logger has been told by the time the program relies on it.       *)
ToldOK ==
  /\ \A j \in LogJobs : jobStage[j] # "none" => j \in summary.startTime
  /\ \A a \in LogAgreements : agrStage[a] # "none" => a.provider \in summary.received
  /\ \A a \in LogAgreements : agrStage[a] \in Known => a \in summary.info
  /\ live \subseteq summary.info

SummaryInv == summary \in Summaries /\ ProgramTypes /\ ToldOK /\ SummaryCorrect

-----------------------------------------------------------------------------
(* Summary: what an event does *)

(* What an event leaves of the fields the invariant is about                 *)
Heard(startTime, received, confirmed, info, cost) ==
  /\ summary' \in Summaries /\ ~summary'.error
  /\ summary'.startTime = startTime /\ summary'.received = received
  /\ summary'.confirmed = confirmed /\ summary'.info = info /\ summary'.cost = cost

LEMMA IsHandled ==
  ASSUME SummaryInv, NEW e, ~Raises(summary, e), Log(e)
  PROVE  summary' = Handled(summary, e) /\ summary \in Summaries /\ ~summary.error
  BY DEF SummaryInv, SummaryCorrect, Log, Logged

LEMMA AgreementHeard ==
  ASSUME SummaryInv, NEW a \in LogAgreements, NEW cause \in Causes,
         NEW kind \in AgreementEvents \cup ActivityEvents \cup PaymentEvents,
         ~Raises(summary, AgreementEvent(kind, a, cause)), Log(AgreementEvent(kind, a, cause))
  PROVE  Heard(summary.startTime, summary.received, summary.confirmed,
               IF kind = "AgreementCreated" THEN summary.info \cup {a} ELSE summary.info,
               IF kind = "InvoiceAccepted"
                 THEN [summary.cost EXCEPT ![a.provider] = @ + a.amount] ELSE summary.cost)
<1> DEFINE s == summary
           e == AgreementEvent(kind, a, cause)
           who == <<a.job, a.provider>>
<1>1. summary' = Handled(s, e) /\ s \in Summaries /\ ~s.error
  BY IsHandled
<1>2. e.kind = kind /\ e.agr = a /\ e.cause = cause
  BY DEF AgreementEvent
<1>3. a.job \in LogJobs /\ a.provider \in LogProviders /\ a.amount \in Nat
  BY LogAgreementsAssumption DEF LogProviders
<1> HIDE DEF e
<1> USE DEF Summaries, Heard
<1>4. CASE kind = "AgreementCreated"
  <2>1. summary' = [s EXCEPT !.info = @ \cup {a}]
    BY <1>1, <1>2, <1>4 DEF Handled
  <2> QED
    BY <1>1, <1>4, <2>1
<1>5. CASE kind = "AgreementConfirmed"
  <2>1. summary' = [s EXCEPT !.agreements = @ \cup {a}]
    BY <1>1, <1>2, <1>5 DEF Handled
  <2> QED
    BY <1>1, <1>5, <2>1
<1>6. CASE kind = "TaskFinished"
  <2>1. summary' = [s EXCEPT !.tasks = @ \cup {who}]
    BY <1>1, <1>2, <1>6 DEF Handled
  <2> QED
    BY <1>1, <1>3, <1>6, <2>1
<1>7. CASE kind = "ServiceFinished"
  <2>1. summary' = [s EXCEPT !.services = @ \cup {who}]
    BY <1>1, <1>2, <1>7 DEF Handled
  <2> QED
    BY <1>1, <1>3, <1>7, <2>1
<1>8. CASE kind = "WorkerFinished" /\ cause # "none" /\ ~s.cancelled
  <2>1. summary' = [s EXCEPT !.failures = @ \cup {who}]
    BY <1>1, <1>2, <1>8 DEF Handled
  <2> QED
    BY <1>1, <1>3, <1>8, <2>1
<1>9. CASE kind = "InvoiceAccepted"
  <2>1. summary' = [s EXCEPT !.cost[a.provider] = @ + a.amount]
    BY <1>1, <1>2, <1>9 DEF Handled
  <2>2. [s.cost EXCEPT ![a.provider] = @ + a.amount] \in [LogProviders -> Nat]
    BY <1>1, <1>3
  <2>3. summary' = [s EXCEPT !.cost = [s.cost EXCEPT ![a.provider] = @ + a.amount]]
    BY <1>1, <2>1
  <2> QED
    BY <1>1, <1>9, <2>2, <2>3
<1>10. CASE /\ kind \notin {"AgreementCreated", "AgreementConfirmed", "TaskFinished", "ServiceFinished",
                            "InvoiceAccepted"}
            /\ ~(kind = "WorkerFinished" /\ cause # "none" /\ ~s.cancelled)
  <2>1. kind \notin {"JobStarted", "ProposalReceived", "ProposalConfirmed", "JobFinished", "ShutdownFinished"}
    BY DEF AgreementEvents, ActivityEvents, PaymentEvents
  <2>2. summary' = s
    BY <1>1, <1>2, <1>10, <2>1 DEF Handled
  <2> QED
    BY <1>1, <1>10, <2>2
<1> QED
  BY <1>4, <1>5, <1>6, <1>7, <1>8, <1>9, <1>10

LEMMA OnlyLookedUp ==
  ASSUME SummaryInv, NEW a \in LogAgreements, NEW cause \in Causes,
         NEW kind \in (AgreementEvents \cup ActivityEvents \cup PaymentEvents)
                        \ {"AgreementCreated", "InvoiceAccepted"},
         ~Raises(summary, AgreementEvent(kind, a, cause)), Log(AgreementEvent(kind, a, cause))
  PROVE  Heard(summary.startTime, summary.received, summary.confirmed, summary.info, summary.cost)
  BY AgreementHeard

LEMMA JobHeard ==
  ASSUME SummaryInv, NEW j \in LogJobs, NEW cause \in Causes,
         NEW kind \in {"JobStarted", "JobFinished", "NoProposalsConfirmed"},
         ~Raises(summary, JobEvent(kind, j, cause)), Log(JobEvent(kind, j, cause))
  PROVE  Heard(IF kind = "JobStarted" THEN summary.startTime \cup {j} ELSE summary.startTime,
               summary.received, summary.confirmed, summary.info, summary.cost)
<1> DEFINE s == summary
           e == JobEvent(kind, j, cause)
<1>1. summary' = Handled(s, e) /\ s \in Summaries /\ ~s.error
  BY IsHandled
<1>2. e.kind = kind /\ e.job = j /\ e.cause = cause
  BY DEF JobEvent
<1> HIDE DEF e
<1> USE DEF Summaries, Heard
<1>3. CASE kind = "JobStarted"
  <2>1. summary' = [s EXCEPT !.startTime = @ \cup {j}]
    BY <1>1, <1>2, <1>3 DEF Handled
  <2> QED
    BY <1>1, <1>3, <2>1
<1>4. CASE kind = "JobFinished"
  <2>1. summary' = [s EXCEPT !.cancelled = @ \/ cause = "cancelled"]
    BY <1>1, <1>2, <1>4 DEF Handled
  <2>2. PICK b \in BOOLEAN : summary' = [s EXCEPT !.cancelled = b]
    BY <1>1, <2>1
  <2> QED
    BY <1>1, <1>4, <2>2
<1>5. CASE kind = "NoProposalsConfirmed"
  <2>1. summary' = s
    BY <1>1, <1>2, <1>5 DEF Handled
  <2> QED
    BY <1>1, <1>5, <2>1
<1> QED
  BY <1>3, <1>4, <1>5

LEMMA ProposalHeard ==
  ASSUME SummaryInv, NEW p \in LogProviders, NEW kind \in {"ProposalReceived", "ProposalConfirmed"},
         Log(ProposalEvent(kind, p))
  PROVE  Heard(summary.startTime,
               IF kind = "ProposalReceived" THEN summary.received \cup {p} ELSE summary.received,
               IF kind = "ProposalConfirmed" THEN summary.confirmed \cup {p} ELSE summary.confirmed,
               summary.info, summary.cost)
<1> DEFINE s == summary
           e == ProposalEvent(kind, p)
<1>1. e.kind = kind /\ e.provider = p
  BY DEF ProposalEvent
<1>2. summary' = Handled(s, e) /\ s \in Summaries /\ ~s.error
  BY <1>1, IsHandled DEF Raises, LooksUp, ActivityEvents
<1> HIDE DEF e
<1> USE DEF Summaries, Heard
<1>3. CASE kind = "ProposalReceived"
  <2>1. summary' = [s EXCEPT !.received = @ \cup {p}]
    BY <1>1, <1>2, <1>3 DEF Handled
  <2> QED
    BY <1>2, <1>3, <2>1
<1>4. CASE kind = "ProposalConfirmed"
  <2>1. summary' = [s EXCEPT !.confirmed = @ \cup {p}]
    BY <1>1, <1>2, <1>4 DEF Handled
  <2> QED
    BY <1>2, <1>4, <2>1
<1> QED
  BY <1>3, <1>4

LEMMA EngineHeard ==
  ASSUME SummaryInv, NEW cause \in Causes, NEW kind \in {"ShutdownFinished", "ExecutionInterrupted"},
         ~Raises(summary, EngineEvent(kind, cause)), Log(EngineEvent(kind, cause))
  PROVE  Heard(summary.startTime, summary.received, summary.confirmed, summary.info,
               IF kind = "ShutdownFinished" THEN [p \in LogProviders |-> 0] ELSE summary.cost)
<1> DEFINE s == summary
           e == EngineEvent(kind, cause)
           zero == [p \in LogProviders |-> 0]
<1>1. e.kind = kind /\ e.cause = cause
  BY DEF EngineEvent
<1>2. summary' = Handled(s, e) /\ s \in Summaries /\ ~s.error
  BY IsHandled
<1>3. zero \in [LogProviders -> Nat]
  OBVIOUS
<1> HIDE DEF e, zero
<1> USE DEF Summaries, Heard
<1>4. CASE kind = "ShutdownFinished"
  <2>1. summary' = [s EXCEPT !.cost = zero, !.shutdown = TRUE]
    BY <1>1, <1>2, <1>4 DEF Handled, zero
  <2>2. summary' \in Summaries /\ ~summary'.error /\ summary'.cost = zero
    BY <1>2, <1>3, <2>1
  <2> QED
    BY <1>2, <1>4, <2>1, <2>2 DEF zero
<1>5. CASE kind = "ExecutionInterrupted"
  <2>1. summary' = s
    BY <1>1, <1>2, <1>5 DEF Handled
  <2> QED
    BY <1>2, <1>5, <2>1
<1> QED
  BY <1>4, <1>5

-----------------------------------------------------------------------------
(* Summary: the steps *)

LEMMA AddJobKeeps ==
  ASSUME SummaryInv, NEW j \in LogJobs, AddJob(j)
  PROVE  SummaryInv'
<1>1. /\ jobStage' = [jobStage EXCEPT ![j] = "running"]
      /\ UNCHANGED <<agrStage, agrWork, live, billed, shutdowns, spent>>
      /\ Log(JobEvent("JobStarted", j, "none"))
  BY DEF AddJob
<1>2. ~Raises(summary, JobEvent("JobStarted", j, "none"))
  BY DEF Raises, JobEvent, LooksUp, ActivityEvents
<1>3. Heard(summary.startTime \cup {j}, summary.received, summary.confirmed, summary.info, summary.cost)
  BY <1>1, <1>2, JobHeard DEF Causes
<1> QED
  BY <1>1, <1>3 DEF SummaryInv, ProgramTypes, ToldOK, SummaryCorrect, Heard, JobStages

LEMMA FinalizeJobKeeps ==
  ASSUME SummaryInv, NEW j \in LogJobs, FinalizeJob(j)
  PROVE  SummaryInv'
<1>1. PICK cause \in Causes : Log(JobEvent("JobFinished", j, cause))
  BY DEF FinalizeJob
<1>2. /\ jobStage[j] = "running" /\ jobStage' = [jobStage EXCEPT ![j] = "over"]
      /\ UNCHANGED <<agrStage, agrWork, live, billed, shutdowns, spent>>
  BY DEF FinalizeJob
<1>3. ~Raises(summary, JobEvent("JobFinished", j, cause))
  BY <1>2 DEF Raises, JobEvent, LooksUp, ActivityEvents, SummaryInv, ToldOK
<1>4. Heard(summary.startTime, summary.received, summary.confirmed, summary.info, summary.cost)
  BY <1>1, <1>3, JobHeard
<1> QED
  BY <1>2, <1>4 DEF SummaryInv, ProgramTypes, ToldOK, SummaryCorrect, Heard, JobStages

LEMMA NegotiateKeeps ==
  ASSUME SummaryInv, NEW a \in LogAgreements, Negotiate(a) \/ Respond(a)
  PROVE  SummaryInv'
<1>0. a.job \in LogJobs /\ a.provider \in LogProviders
  BY LogAgreementsAssumption DEF LogProviders
<1>1. UNCHANGED <<jobStage, agrWork, live, billed, shutdowns, spent>>
  BY DEF Negotiate, Respond
<1>2. CASE StageOf(a, "received") /\ Log(ProposalEvent("ProposalReceived", a.provider))
  <2>1. Heard(summary.startTime, summary.received \cup {a.provider}, summary.confirmed, summary.info,
              summary.cost)
    BY <1>0, <1>2, ProposalHeard
  <2> QED
    BY <1>1, <1>2, <2>1
       DEF StageOf, SummaryInv, ProgramTypes, ToldOK, SummaryCorrect, Heard, AgreementStages,
           Known
<1>3. CASE UNCHANGED agrStage /\ Log(JobEvent("NoProposalsConfirmed", a.job, "none"))
  <2>1. ~Raises(summary, JobEvent("NoProposalsConfirmed", a.job, "none"))
    BY DEF Raises, JobEvent, LooksUp, ActivityEvents
  <2>2. Heard(summary.startTime, summary.received, summary.confirmed, summary.info, summary.cost)
    BY <1>0, <1>3, <2>1, JobHeard DEF Causes
  <2> QED
    BY <1>1, <1>3, <2>2 DEF SummaryInv, ProgramTypes, ToldOK, SummaryCorrect, Heard
<1>4. CASE Respond(a)
  <2>1. /\ agrStage[a] = "received" /\ StageOf(a, "proposed")
        /\ Log(ProposalEvent("ProposalConfirmed", a.provider))
    BY <1>4 DEF Respond
  <2>2. Heard(summary.startTime, summary.received, summary.confirmed \cup {a.provider}, summary.info,
              summary.cost)
    BY <1>0, <2>1, ProposalHeard
  <2>3. a.provider \in summary.received
    BY <2>1 DEF SummaryInv, ToldOK
  <2> QED
    BY <1>1, <2>1, <2>2, <2>3
       DEF StageOf, SummaryInv, ProgramTypes, ToldOK, SummaryCorrect, Heard, AgreementStages,
           Known
<1> QED
  BY <1>2, <1>3, <1>4 DEF Negotiate

(* An agreement moves on, with an event the logger only looks up.            *)
LEMMA AgreementMoves ==
  ASSUME SummaryInv, NEW a \in LogAgreements, NEW stage \in AgreementStages, StageOf(a, stage),
         Heard(summary.startTime, summary.received, summary.confirmed, summary'.info, summary.cost),
         agrStage[a] # "none", stage \in Known => a \in summary'.info,
         summary.info \subseteq summary'.info,
         agrWork' \in [LogAgreements -> 0..MaxWork], live' \subseteq summary'.info,
         UNCHANGED <<jobStage, billed, shutdowns, spent>>
  PROVE  SummaryInv'
<1>1. summary' \in Summaries /\ summary'.info \subseteq LogAgreements
  BY DEF Heard, Summaries
<1>2. ProgramTypes'
  BY <1>1 DEF SummaryInv, ProgramTypes, StageOf
<1>3. ToldOK' /\ SummaryCorrect'
  BY DEF SummaryInv, ProgramTypes, ToldOK, SummaryCorrect, Heard, StageOf
<1> QED
  BY <1>1, <1>2, <1>3 DEF SummaryInv

LEMMA PrepareAgreementKeeps ==
  ASSUME SummaryInv, NEW a \in LogAgreements, PrepareAgreement(a)
  PROVE  SummaryInv'
<1>1. UNCHANGED <<jobStage, agrWork, billed, shutdowns, spent>>
  BY DEF PrepareAgreement
<1>2. /\ agrWork' \in [LogAgreements -> 0..MaxWork]
      /\ live \subseteq summary.info /\ summary.info \subseteq summary.info \cup {a}
  BY <1>1 DEF SummaryInv, ProgramTypes, ToldOK
<1>3. CASE /\ agrStage[a] = "proposed" /\ UNCHANGED live /\ StageOf(a, "created")
           /\ Log(AgreementEvent("AgreementCreated", a, "none"))
  <2>1. ~Raises(summary, AgreementEvent("AgreementCreated", a, "none"))
    BY DEF Raises, AgreementEvent, LooksUp, ActivityEvents
  <2>2. Heard(summary.startTime, summary.received, summary.confirmed, summary.info \cup {a}, summary.cost)
    BY <1>3, <2>1, AgreementHeard DEF Causes, AgreementEvents
  <2>3. summary'.info = summary.info \cup {a}
    BY <2>2 DEF Heard
  <2> QED
    BY <1>1, <1>2, <1>3, <2>2, <2>3, AgreementMoves DEF AgreementStages
<1>4. CASE /\ agrStage[a] \in {"proposed", "created"} /\ UNCHANGED live /\ StageOf(a, "rejected")
           /\ Log(AgreementEvent("AgreementRejected", a, "none"))
  <2>1. ~Raises(summary, AgreementEvent("AgreementRejected", a, "none"))
    BY DEF Raises, AgreementEvent, LooksUp, ActivityEvents
  <2>2. Heard(summary.startTime, summary.received, summary.confirmed, summary.info, summary.cost)
    BY <1>4, <2>1, OnlyLookedUp DEF Causes, AgreementEvents
  <2>3. summary'.info = summary.info
    BY <2>2 DEF Heard
  <2> QED
    BY <1>1, <1>2, <1>4, <2>2, <2>3, AgreementMoves DEF AgreementStages, Known
<1>5. CASE /\ agrStage[a] = "created" /\ StageOf(a, "ready") /\ live' = live \cup {a}
           /\ Log(AgreementEvent("AgreementConfirmed", a, "none"))
  <2>1. a \in summary.info
    BY <1>5 DEF SummaryInv, ToldOK, Known
  <2>2. ~Raises(summary, AgreementEvent("AgreementConfirmed", a, "none"))
    BY <2>1 DEF Raises, AgreementEvent
  <2>3. Heard(summary.startTime, summary.received, summary.confirmed, summary.info, summary.cost)
    BY <1>5, <2>2, OnlyLookedUp DEF Causes, AgreementEvents
  <2>4. summary'.info = summary.info
    BY <2>3 DEF Heard
  <2> QED
    BY <1>1, <1>2, <1>5, <2>1, <2>3, <2>4, AgreementMoves DEF AgreementStages
<1> QED
  BY <1>3, <1>4, <1>5 DEF PrepareAgreement

LEMMA WorkerEmitsKeeps ==
  ASSUME SummaryInv, NEW a \in LogAgreements, WorkerEmits(a)
  PROVE  SummaryInv'
<1>1. UNCHANGED <<jobStage, live, billed, shutdowns, spent>>
  BY DEF WorkerEmits
<1>2. /\ agrStage[a] \in Known /\ a \in summary.info /\ live \subseteq summary.info
      /\ agrStage \in [LogAgreements -> AgreementStages] /\ MaxWork \in Nat
      /\ agrWork \in [LogAgreements -> 0..MaxWork]
  BY LogBoundsAssumption DEF WorkerEmits, SummaryInv, ProgramTypes, ToldOK, Known
<1>3. agrWork' \in [LogAgreements -> 0..MaxWork]
  <2>1. agrWork' = agrWork \/ (agrWork[a] < MaxWork /\ agrWork' = [agrWork EXCEPT ![a] = @ + 1])
    BY DEF WorkerEmits
  <2> QED
    BY <1>2, <2>1
<1>4. \E stage \in Known : StageOf(a, stage)
  <2>1. UNCHANGED agrStage => StageOf(a, agrStage[a])
    BY <1>2 DEF StageOf
  <2> QED
    BY <1>2, <2>1 DEF WorkerEmits, Known
<1>5. PICK stage \in Known : StageOf(a, stage)
  BY <1>4
<1>6. \/ UNCHANGED summary
      \/ \E kind \in (AgreementEvents \cup ActivityEvents) \ {"AgreementCreated"}, cause \in Causes :
           Log(AgreementEvent(kind, a, cause))
  BY DEF WorkerEmits, AgreementEvents, ActivityEvents, Causes
<1>7. Heard(summary.startTime, summary.received, summary.confirmed, summary.info, summary.cost)
  <2>1. CASE UNCHANGED summary
    BY <2>1 DEF Heard, SummaryInv, SummaryCorrect
  <2>2. CASE ~UNCHANGED summary
    <3>1. PICK kind \in (AgreementEvents \cup ActivityEvents) \ {"AgreementCreated"}, cause \in Causes :
               Log(AgreementEvent(kind, a, cause))
      BY <1>6, <2>2
    <3>2. ~Raises(summary, AgreementEvent(kind, a, cause)) /\ kind # "InvoiceAccepted"
      BY <1>2, <3>1 DEF Raises, AgreementEvent, AgreementEvents, ActivityEvents
    <3> QED
      BY <3>1, <3>2, OnlyLookedUp
  <2> QED
    BY <2>1, <2>2
<1>8. summary'.info = summary.info /\ stage \in AgreementStages /\ agrStage[a] # "none"
  BY <1>2, <1>7 DEF Heard, Known, AgreementStages
<1> QED
  BY <1>1, <1>2, <1>3, <1>5, <1>7, <1>8, AgreementMoves

LEMMA PoolTerminatesKeeps ==
  ASSUME SummaryInv, NEW a \in LogAgreements, PoolTerminates(a)
  PROVE  SummaryInv'
<1>1. /\ a \in live /\ live' = live \ {a}
      /\ Log(AgreementEvent("AgreementTerminated", a, "none"))
      /\ UNCHANGED <<jobStage, agrStage, agrWork, billed, shutdowns, spent>>
  BY DEF PoolTerminates
<1>2. ~Raises(summary, AgreementEvent("AgreementTerminated", a, "none"))
  BY <1>1 DEF Raises, AgreementEvent, SummaryInv, ToldOK
<1>3. Heard(summary.startTime, summary.received, summary.confirmed, summary.info, summary.cost)
  BY <1>1, <1>2, OnlyLookedUp DEF Causes, AgreementEvents
<1> QED
  BY <1>1, <1>3 DEF SummaryInv, ProgramTypes, ToldOK, SummaryCorrect, Heard

LEMMA PayKeeps ==
  ASSUME SummaryInv, NEW a \in LogAgreements, Pay(a)
  PROVE  SummaryInv'
<1>0. a.provider \in LogProviders /\ a.amount \in Nat
  BY LogAgreementsAssumption DEF LogProviders
<1>1. UNCHANGED <<jobStage, agrStage, agrWork, live, shutdowns>>
  BY DEF Pay
<1>2. a \in summary.info
  BY DEF Pay, SummaryInv, ToldOK, Known
<1>3. CASE /\ billed' = billed \cup {a} /\ spent' = [spent EXCEPT ![a.provider] = @ + a.amount]
           /\ Log(AgreementEvent("InvoiceAccepted", a, "none"))
  <2>1. ~Raises(summary, AgreementEvent("InvoiceAccepted", a, "none"))
    BY <1>2 DEF Raises, AgreementEvent
  <2>2. Heard(summary.startTime, summary.received, summary.confirmed, summary.info,
              [summary.cost EXCEPT ![a.provider] = @ + a.amount])
    BY <1>3, <2>1, AgreementHeard DEF Causes, PaymentEvents
  <2>3. spent' \in [LogProviders -> Nat] /\ spent' = summary'.cost
    BY <1>0, <1>3, <2>2 DEF SummaryInv, ProgramTypes, SummaryCorrect, Heard
  <2> QED
    BY <1>1, <1>3, <2>2, <2>3 DEF SummaryInv, ProgramTypes, ToldOK, SummaryCorrect, Heard
<1>4. ASSUME NEW kind \in {"PaymentFailed", "InvoiceReceived"},
             NEW cause \in Causes, cause # "none" \/ kind = "InvoiceReceived",
             UNCHANGED <<billed, spent>>, Log(AgreementEvent(kind, a, cause))
      PROVE  SummaryInv'
  <2>1. ~Raises(summary, AgreementEvent(kind, a, cause))
    BY <1>2, <1>4 DEF Raises, AgreementEvent
  <2>2. Heard(summary.startTime, summary.received, summary.confirmed, summary.info, summary.cost)
    BY <1>4, <2>1, OnlyLookedUp DEF PaymentEvents
  <2> QED
    BY <1>1, <1>4, <2>2 DEF SummaryInv, ProgramTypes, ToldOK, SummaryCorrect, Heard
<1> QED
  BY <1>3, <1>4 DEF Pay, Causes

LEMMA EngineEventKeeps ==
  ASSUME SummaryInv, ReportShutdown \/ Interrupt
  PROVE  SummaryInv'
<1>1. CASE ReportShutdown
  <2>1. /\ shutdowns < MaxShutdowns /\ shutdowns' = shutdowns + 1
        /\ spent' = [p \in LogProviders |-> 0]
        /\ UNCHANGED <<jobStage, agrStage, agrWork, live, billed>>
    BY <1>1 DEF ReportShutdown
  <2>2. PICK cause \in Causes : Log(EngineEvent("ShutdownFinished", cause))
    BY <1>1 DEF ReportShutdown
  <2>3. ~Raises(summary, EngineEvent("ShutdownFinished", cause))
    BY DEF Raises, EngineEvent, LooksUp, ActivityEvents
  <2>4. Heard(summary.startTime, summary.received, summary.confirmed, summary.info,
              [p \in LogProviders |-> 0])
    BY <2>2, <2>3, EngineHeard
  <2>5. shutdowns' \in 0..MaxShutdowns /\ spent' \in [LogProviders -> Nat]
    BY <2>1, LogBoundsAssumption DEF SummaryInv, ProgramTypes
  <2> QED
    BY <2>1, <2>4, <2>5 DEF SummaryInv, ProgramTypes, ToldOK, SummaryCorrect, Heard
<1>2. CASE Interrupt
  <2>1. /\ UNCHANGED <<jobStage, agrStage, agrWork, live, billed, shutdowns, spent>>
        /\ Log(EngineEvent("ExecutionInterrupted", "error"))
    BY <1>2 DEF Interrupt, programVars
  <2>2. ~Raises(summary, EngineEvent("ExecutionInterrupted", "error"))
    BY DEF Raises, EngineEvent, LooksUp, ActivityEvents
  <2>3. Heard(summary.startTime, summary.received, summary.confirmed, summary.info, summary.cost)
    BY <2>1, <2>2, EngineHeard DEF Causes
  <2> QED
    BY <2>1, <2>3 DEF SummaryInv, ProgramTypes, ToldOK, SummaryCorrect, Heard
<1> QED
  BY <1>1, <1>2

(* The timer, and a stutter *)
LEMMA PrintKeeps ==
  ASSUME SummaryInv, PrintConfirmedProviders \/ UNCHANGED summaryVars
  PROVE  SummaryInv'
<1>1. UNCHANGED <<jobStage, agrStage, agrWork, live, billed, shutdowns, spent>>
  BY DEF PrintConfirmedProviders, summaryVars, programVars
<1>2. summary \in Summaries /\ ~summary.error
  BY DEF SummaryInv, SummaryCorrect
<1>3. ASSUME PrintConfirmedProviders
      PROVE  Heard(summary.startTime, summary.received, summary.confirmed, summary.info, summary.cost)
  <2>1. PICK b \in BOOLEAN : summary' = [summary EXCEPT !.timer = b]
    BY <1>2, <1>3 DEF PrintConfirmedProviders, Summaries
  <2> QED
    BY <1>2, <2>1 DEF Summaries, Heard
<1>4. ASSUME UNCHANGED summaryVars
      PROVE  Heard(summary.startTime, summary.received, summary.confirmed, summary.info, summary.cost)
  BY <1>2, <1>4 DEF summaryVars, Heard
<1>5. Heard(summary.startTime, summary.received, summary.confirmed, summary.info, summary.cost)
  BY <1>3, <1>4
<1> QED
  BY <1>1, <1>5 DEF SummaryInv, ProgramTypes, ToldOK, SummaryCorrect, Heard

-----------------------------------------------------------------------------
(* Summary: the initial states, all steps, and what the invariant promises *)

LEMMA SummaryStart ==
  ASSUME SummaryInit
  PROVE  SummaryInv
<1>1. NewSummary \in Summaries
  BY DEF NewSummary, Summaries
<1>2. ProgramTypes
  BY LogBoundsAssumption DEF SummaryInit, ProgramTypes, JobStages, AgreementStages
<1>3. ToldOK /\ SummaryCorrect
  BY DEF SummaryInit, ToldOK, SummaryCorrect, NewSummary, Known
<1> QED
  BY <1>1, <1>2, <1>3 DEF SummaryInit, SummaryInv

LEMMA SummaryStep ==
  ASSUME SummaryInv, [SummaryNext]_summaryVars
  PROVE  SummaryInv'
  BY AddJobKeeps, FinalizeJobKeeps, NegotiateKeeps, PrepareAgreementKeeps, WorkerEmitsKeeps,
     PoolTerminatesKeeps, PayKeeps, EngineEventKeeps, PrintKeeps
     DEF SummaryNext

LEMMA SummaryPromises ==
  ASSUME SummaryInv
  PROVE  SummaryTypeOK /\ SummaryCorrect
  BY DEF SummaryInv, Summaries, ProgramTypes, SummaryTypeOK

-----------------------------------------------------------------------------
(* Proxies: the invariant                                                    *)

Whole == response.head \o <<"cr", "nl">> \o response.body

SocketTypes ==
  /\ port \in [Ports -> {"free", "starting", "listening", "ended"}]
  /\ connection \in [Connections -> {"none", "connecting", "open", "closing", "ended", "failed"}]
  /\ sender \in [Connections -> {"none", "running", "stopping"} \cup TaskEnds]
  /\ responder \in [Connections -> {"none", "running", "stopping"} \cup TaskEnds]
  /\ done \subseteq Connections /\ clientEnd \subseteq Connections
  /\ remoteEnd \subseteq Connections /\ writerOpen \subseteq Connections

HttpTypes ==
  /\ response \in Responses /\ status \in BOOLEAN /\ turns \in Nat
  /\ request \in {"none", "receiving", "answered", "unavailable", "error"}
  /\ rest \in Seq(Symbols) /\ headers \in Seq(Symbols) /\ content \in Seq(Symbols)

(* Which symbols of w those of s are: the ones after the first k.            *)
Lies(s, w, k) == \A i \in 1..Len(s) : s[i] = w[k + i]

(* What has not been received is the end of the response.  Until there is a  *)
(* status, the headers are the beginning of it; then either they are the     *)
(* right ones, and so is the content so far, or the content can no longer    *)
(* become as long as the remote server says it is.                           *)
RestOK == Len(rest) <= Len(Whole) /\ Lies(rest, Whole, Len(Whole) - Len(rest))
BeginningOK ==
  ~status => /\ content = <<>> /\ Len(headers) = Len(Whole) - Len(rest)
             /\ Lies(headers, Whole, 0)
ContentOK ==
  status => \/ Len(content) + Len(rest) < Len(response.body)
            \/ /\ headers = response.head /\ Len(content) + Len(rest) = Len(response.body)
               /\ Lies(content, response.body, 0)
AnswerOK == request = "answered" => ContentReceived

ProxiesInv == SocketTypes /\ HttpTypes /\ RestOK /\ BeginningOK /\ ContentOK /\ AnswerOK

-----------------------------------------------------------------------------
(* Proxies: sequences *)

LEMMA LeastNumber ==
  ASSUME NEW T \in SUBSET Nat, T # {}
  PROVE  \E e \in T : \A f \in T : e <= f
<1>1. \E R : IsWellFoundedOn(R, Nat) /\ \A m, n \in Nat : <<n, m>> \in R <=> n < m
  <2>1. \A m, n \in Nat : <<n, m>> \in OpToRel(<, Nat) <=> n < m
    BY DEF OpToRel
  <2> QED
    BY <2>1, NatLessThanWellFounded, Zenon
<1>2. PICK R : IsWellFoundedOn(R, Nat) /\ \A m, n \in Nat : <<n, m>> \in R <=> n < m
  BY <1>1
<1>3. PICK e \in T : \A f \in T : ~ (<<f, e>> \in R)
  BY <1>2, WFMin
<1>4. \A f \in T : e \in Nat /\ f \in Nat /\ ~(f < e)
  BY <1>2, <1>3
<1> QED
  BY <1>4

LEMMA Lengths ==
  ASSUME NEW S, NEW q \in Seq(S), NEW r \in Seq(S)
  PROVE  q \o r \in Seq(S) /\ Len(q \o r) = Len(q) + Len(r)
  OBVIOUS

LEMMA WholeResponse ==
  ASSUME response \in Responses
  PROVE  /\ response.head \in Seq(Symbols) /\ response.body \in Seq(Symbols)
         /\ Len(response.head) \in Nat /\ Len(response.body) \in Nat
         /\ Whole \in Seq(Symbols) /\ Len(Whole) = Len(response.head) + 2 + Len(response.body)
         /\ \A i \in 1..Len(response.head) : Whole[i] = response.head[i]
         /\ Whole[Len(response.head) + 1] = "cr" /\ Whole[Len(response.head) + 2] = "nl"
         /\ \A i \in 1..Len(response.body) : Whole[Len(response.head) + 2 + i] = response.body[i]
<1> DEFINE h == response.head
           b == response.body
           c == <<"cr", "nl">>
<1>1. h \in Seq(Symbols) /\ b \in Seq(Symbols) /\ c \in Seq(Symbols)
  <2>1. "cr" \in Symbols /\ "nl" \in Symbols
    BY DEF Symbols
  <2> QED
    BY <2>1, ResponsesAssumption
<1>2. Len(c) = 2 /\ c[1] = "cr" /\ c[2] = "nl" /\ Len(h) \in Nat /\ Len(b) \in Nat
  BY <1>1
<1> HIDE DEF h, b, c
<1>3. /\ h \o c \in Seq(Symbols) /\ Len(h \o c) = Len(h) + 2
      /\ \A i \in 1..Len(h) : (h \o c)[i] = h[i]
      /\ (h \o c)[Len(h) + 1] = "cr" /\ (h \o c)[Len(h) + 2] = "nl"
  <2>0. \A i \in 1..Len(h) : (h \o c)[i] = h[i]
    BY <1>1, Joined
  <2>1. h \o c \in Seq(Symbols) /\ Len(h \o c) = Len(h) + Len(c)
    BY <1>1, Lengths
  <2>3. \A i \in 1..Len(c) : (h \o c)[Len(h) + i] = c[i]
    BY <1>1, Joined
  <2>2. 1 \in 1..2 /\ 2 \in 1..2
    OBVIOUS
  <2> QED
    BY <1>2, <2>0, <2>1, <2>2, <2>3
<1>4. /\ (h \o c) \o b \in Seq(Symbols) /\ Len((h \o c) \o b) = Len(h) + 2 + Len(b)
      /\ \A i \in 1..Len(h) + 2 : ((h \o c) \o b)[i] = (h \o c)[i]
      /\ \A i \in 1..Len(b) : ((h \o c) \o b)[Len(h) + 2 + i] = b[i]
  BY <1>1, <1>2, <1>3
<1>5. Whole = (h \o c) \o b
  BY DEF Whole, h, b, c
<1>6. \A i \in 1..Len(h) + 2 : Whole[i] = (h \o c)[i]
  BY <1>4, <1>5
<1>7. /\ \A i \in 1..Len(h) : i \in 1..Len(h) + 2
      /\ Len(h) + 1 \in 1..Len(h) + 2 /\ Len(h) + 2 \in 1..Len(h) + 2
  BY <1>2
<1> QED
  BY <1>1, <1>2, <1>3, <1>4, <1>5, <1>6, <1>7 DEF h, b

LEMMA WholeLength ==
  ASSUME response \in Responses
  PROVE  Len(Whole) \in Nat
  BY WholeResponse

LEMMA Cut ==
  ASSUME NEW S, NEW s \in Seq(S), NEW a \in 1..Len(s) + 1, NEW z \in a - 1..Len(s)
  PROVE  /\ SubSeq(s, a, z) \in Seq(S) /\ Len(SubSeq(s, a, z)) = z - a + 1
         /\ \A i \in 1..z - a + 1 : SubSeq(s, a, z)[i] = s[a - 1 + i]
  OBVIOUS

LEMMA SameSequence ==
  ASSUME NEW S, NEW s \in Seq(S), NEW t \in Seq(S), Len(s) = Len(t), Lies(s, t, 0)
  PROVE  s = t
<1>1. \A i \in 1..Len(s) : s[i] = t[i]
  BY DEF Lies
<1> QED
  BY <1>1

LEMMA Ends ==
  ASSUME NEW S, NEW s \in Seq(S), NEW w \in Seq(S), Len(s) <= Len(w),
         Lies(s, w, Len(w) - Len(s))
  PROVE  IsSuffix(s, w)
<1> DEFINE r == Reverse(s)
           v == Reverse(w)
<1>1. r \in Seq(S) /\ v \in Seq(S) /\ Len(r) = Len(s) /\ Len(v) = Len(w)
  BY DEF Reverse
<1>2. /\ \A i \in 1..Len(s) : r[i] = s[(Len(s) - i) + 1]
      /\ \A i \in 1..Len(w) : v[i] = w[(Len(w) - i) + 1]
  BY DEF Reverse
<1>3. \A i \in 1..Len(s) : r[i] = v[i]
  <2> SUFFICES ASSUME NEW i \in 1..Len(s)
               PROVE  r[i] = v[i]
    OBVIOUS
  <2>1. /\ (Len(s) - i) + 1 \in 1..Len(s) /\ i \in 1..Len(w)
        /\ (Len(w) - Len(s)) + ((Len(s) - i) + 1) = (Len(w) - i) + 1
    OBVIOUS
  <2>2. s[(Len(s) - i) + 1] = w[(Len(w) - i) + 1]
    BY <2>1 DEF Lies
  <2> QED
    BY <1>2, <2>1, <2>2
<1> HIDE DEF r, v
<1>4. SubSeq(r, 1, Len(r)) = SubSeq(v, 1, Len(r))
  BY <1>1, <1>3
<1> QED
  BY <1>1, <1>4 DEF IsSuffix, IsPrefix, r, v

(* A part of a message goes up to the next empty line, or to the end.        *)
LEMMA PartOf ==
  ASSUME NEW S, NEW m \in Seq(S), NEW a \in 1..Len(m) + 1
  PROVE  \E e \in a - 1..Len(m) :
           /\ Part(m, a) = SubSeq(m, a, e)
           /\ e = Len(m) \/ e + 1 \in EmptyLines(m)
           /\ \A j \in EmptyLines(m) : j >= a => e < j
<1> DEFINE ends == {i - 1 : i \in {j \in EmptyLines(m) : j >= a}} \cup {Len(m)}
<1>1. EmptyLines(m) \subseteq 1..Len(m) - 1 /\ Len(m) \in Nat
  BY DEF EmptyLines
<1>2. ends \subseteq a - 1..Len(m) /\ Len(m) \in ends
  BY <1>1
<1>3. a - 1..Len(m) \subseteq Nat
  BY <1>1
<1>4. \E e \in ends : \A f \in ends : e <= f
  <2> HIDE DEF ends
  <2> QED
    BY <1>2, <1>3, LeastNumber
<1> DEFINE last == CHOOSE e \in ends : \A f \in ends : e <= f
<1>5. last \in ends /\ \A f \in ends : last <= f
  <2> HIDE DEF ends
  <2> QED
    BY <1>4
<1>6. Part(m, a) = SubSeq(m, a, last)
  BY DEF Part
<1> HIDE DEF last
<1>7. last = Len(m) \/ last + 1 \in EmptyLines(m)
  BY <1>1, <1>5
<1>8. \A j \in EmptyLines(m) : j >= a => last < j
  <2> SUFFICES ASSUME NEW j \in EmptyLines(m), j >= a
               PROVE  last < j
    OBVIOUS
  <2>1. j - 1 \in ends
    OBVIOUS
  <2>2. last <= j - 1 /\ j \in Int /\ last \in Int
    BY <1>1, <1>2, <1>3, <1>5, <2>1
  <2> QED
    BY <2>2
<1> QED
  BY <1>2, <1>5, <1>6, <1>7, <1>8

-----------------------------------------------------------------------------
(* Proxies: the response *)

(* m is the message with the next n symbols.                                 *)
IsMessage(m, n) ==
  /\ n \in 1..Len(rest) /\ m = SubSeq(rest, 1, n)
  /\ m \in Seq(Symbols) /\ Len(m) = n
  /\ \A i \in 1..n : m[i] = Whole[(Len(Whole) - Len(rest)) + i]

LEMMA Message ==
  ASSUME ProxiesInv, NEW n \in 1..Len(rest)
  PROVE  IsMessage(SubSeq(rest, 1, n), n)
<1>1. rest \in Seq(Symbols) /\ Len(rest) \in Nat
  BY DEF ProxiesInv, HttpTypes
<1>2. /\ SubSeq(rest, 1, n) \in Seq(Symbols) /\ Len(SubSeq(rest, 1, n)) = n
      /\ \A i \in 1..n : SubSeq(rest, 1, n)[i] = rest[i]
  BY <1>1
<1>3. \A i \in 1..n : rest[i] = Whole[(Len(Whole) - Len(rest)) + i]
  BY <1>1 DEF ProxiesInv, RestOK, Lies
<1> QED
  BY <1>2, <1>3 DEF IsMessage

(* The empty line a message shows is not before the one after the headers.   *)
LEMMA NotInHead ==
  ASSUME ProxiesInv, NEW n, NEW m, IsMessage(m, n), NEW j \in EmptyLines(m)
  PROVE  (Len(Whole) - Len(rest)) + j >= Len(response.head) + 1
<1> DEFINE h == response.head
           w == Whole
           k == Len(w) - Len(rest)
           q == k + j
<1>1. response \in Responses /\ rest \in Seq(Symbols) /\ Len(rest) \in Nat
  BY DEF ProxiesInv, HttpTypes
<1>2. /\ h \in Seq(Symbols) /\ Len(h) \in Nat /\ Len(w) \in Nat
      /\ \A i \in 1..Len(h) : w[i] = h[i]
      /\ w[Len(h) + 1] = "cr"
  <2>1. Len(response.body) \in Nat /\ Len(response.head) \in Nat
    BY <1>1, WholeResponse
  <2>3. Len(w) \in Nat
    BY <1>1, WholeLength
  <2>4. /\ h \in Seq(Symbols) /\ \A i \in 1..Len(h) : w[i] = h[i]
        /\ w[Len(h) + 1] = "cr"
    BY <1>1, WholeResponse
  <2> QED
    BY <2>1, <2>3, <2>4
<1>3. EmptyLines(h) = {}
  BY <1>1, ResponsesAssumption
<1>4. /\ n \in 1..Len(rest) /\ j \in 1..n - 1 /\ m[j] = "cr" /\ m[j + 1] = "nl"
      /\ \A i \in 1..n : m[i] = w[k + i]
  BY DEF IsMessage, EmptyLines
<1>5. Len(rest) <= Len(w)
  BY DEF ProxiesInv, RestOK
<1>6. k \in Nat /\ q \in Nat /\ q >= 1
  <2> HIDE DEF w
  <2> QED
    BY <1>1, <1>2, <1>4, <1>5
<1>7. w[q] = "cr" /\ w[q + 1] = "nl"
  <2> HIDE DEF w
  <2>1. j \in 1..n /\ j + 1 \in 1..n /\ k + (j + 1) = q + 1
    BY <1>1, <1>2, <1>4, <1>6
  <2>2. m[j + 1] = w[k + (j + 1)] /\ m[j] = w[k + j]
    BY <1>4, <2>1
  <2> QED
    BY <1>4, <2>1, <2>2
<1> HIDE DEF q, w
<1>8. q # Len(h)
  BY <1>2, <1>7
<1>9. ~ (q < Len(h))
  <2> SUFFICES ASSUME q < Len(h)
               PROVE  FALSE
    OBVIOUS
  <2>1. q \in 1..Len(h) - 1 /\ q \in 1..Len(h) /\ q + 1 \in 1..Len(h)
    BY <1>2, <1>6
  <2>2. h[q] = "cr" /\ h[q + 1] = "nl"
    BY <1>2, <1>7, <2>1
  <2>3. q \in EmptyLines(h)
    BY <2>1, <2>2 DEF EmptyLines
  <2> QED
    BY <1>3, <2>3
<1>10. q >= Len(h) + 1
  BY <1>2, <1>6, <1>8, <1>9
<1> QED
  BY <1>10 DEF q, w

(* What is not received yet, after one message more.                         *)
LEMMA RestKeeps ==
  ASSUME ProxiesInv, NEW n, NEW m, IsMessage(m, n),
         rest' = SubSeq(rest, n + 1, Len(rest)), response' = response
  PROVE  rest' \in Seq(Symbols) /\ Len(rest') = Len(rest) - n /\ RestOK'
<1>1. rest \in Seq(Symbols) /\ Len(rest) \in Nat /\ n \in 1..Len(rest)
  BY DEF ProxiesInv, HttpTypes, IsMessage
<1>2. /\ rest' \in Seq(Symbols) /\ Len(rest') = Len(rest) - n
      /\ \A i \in 1..Len(rest) - n : rest'[i] = rest[n + i]
  BY <1>1
<1>3. Whole' = Whole
  BY DEF Whole
<1>4. Len(Whole) \in Nat
  BY WholeLength DEF ProxiesInv, HttpTypes
<1> DEFINE w == Whole
<1>5. Len(rest) <= Len(w) /\ \A i \in 1..Len(rest) : rest[i] = w[(Len(w) - Len(rest)) + i]
  BY DEF ProxiesInv, RestOK, Lies
<1>6. /\ Len(rest') <= Len(w)
      /\ \A i \in 1..Len(rest') : rest'[i] = w[(Len(w) - Len(rest')) + i]
  <2> HIDE DEF w
  <2>1. Len(w) \in Nat
    BY <1>4 DEF w
  <2>2. ASSUME NEW i \in 1..Len(rest')
        PROVE  rest'[i] = w[(Len(w) - Len(rest')) + i]
    <3>1. i \in 1..Len(rest) - n
      BY <1>2
    <3>2. n + i \in 1..Len(rest) /\ n \in Int /\ i \in Int /\ Len(rest) \in Int
      BY <1>1, <3>1
    <3>3. (Len(w) - (Len(rest) - n)) + i = (Len(w) - Len(rest)) + (n + i)
      BY <2>1, <3>2
    <3> QED
      BY <1>2, <1>5, <3>1, <3>2, <3>3
  <2>3. Len(rest) - n <= Len(w)
    BY <1>1, <1>5, <2>1
  <2> QED
    BY <1>2, <2>2, <2>3
<1> QED
  BY <1>2, <1>3, <1>6 DEF RestOK, Lies

(* What ReceiveData does with the next message m, of n symbols, whatever it  *)
(* shows.                                                                    *)
Step(m, n) ==
  /\ IsMessage(m, n) /\ rest' = SubSeq(rest, n + 1, Len(rest))
  /\ response' = response

(* What comes before an empty line, or all of a message, goes to the headers.*)
LEMMA BeginningKeeps ==
  ASSUME ProxiesInv, NEW n, NEW m, Step(m, n), ~status,
         NEW e \in 0..n, headers' = headers \o SubSeq(m, 1, e)
  PROVE  /\ headers' \in Seq(Symbols)
         /\ Len(headers') = (Len(Whole) - Len(rest)) + e
         /\ Lies(headers', Whole, 0)
<1> DEFINE w == Whole
           k == Len(w) - Len(rest)
           f == SubSeq(m, 1, e)
<1>1. /\ headers \in Seq(Symbols) /\ Len(headers) = k
      /\ \A i \in 1..Len(headers) : headers[i] = w[i]
  <2>1. headers \in Seq(Symbols) /\ Len(headers) = Len(Whole) - Len(rest)
    BY DEF ProxiesInv, HttpTypes, BeginningOK
  <2>2. \A i \in 1..Len(headers) : headers[i] = Whole[0 + i]
    BY DEF ProxiesInv, BeginningOK, Lies
  <2> QED
    BY <2>1, <2>2
<1>2. /\ m \in Seq(Symbols) /\ Len(m) = n /\ n \in Nat /\ e \in 0..n
      /\ \A i \in 1..n : m[i] = w[k + i]
  <2>1. rest \in Seq(Symbols)
    BY DEF ProxiesInv, HttpTypes
  <2> QED
    BY <2>1 DEF Step, IsMessage
<1> HIDE DEF k, w
<1>3. f \in Seq(Symbols) /\ Len(f) = e /\ \A i \in 1..e : f[i] = m[i]
  BY <1>2
<1> HIDE DEF f
<1>4. headers' = headers \o f
  BY DEF f
<1>5. /\ headers' \in Seq(Symbols) /\ Len(headers') = k + e
      /\ \A i \in 1..k : headers'[i] = headers[i]
      /\ \A i \in 1..e : headers'[k + i] = f[i]
  <2>1. headers \o f \in Seq(Symbols) /\ Len(headers \o f) = Len(headers) + Len(f)
    BY <1>1, <1>3, Lengths
  <2>2. /\ \A i \in 1..Len(headers) : (headers \o f)[i] = headers[i]
        /\ \A i \in 1..Len(f) : (headers \o f)[Len(headers) + i] = f[i]
    BY <1>1, <1>3, Joined
  <2> QED
    BY <1>1, <1>3, <1>4, <2>1, <2>2
<1>6. k \in Nat
  BY <1>1
<1>7. ASSUME NEW i \in 1..Len(headers')
      PROVE  headers'[i] = w[i]
  <2>1. CASE i <= k
    BY <1>1, <1>5, <1>6, <2>1
  <2>2. CASE ~ (i <= k)
    <3>1. i - k \in 1..e /\ i - k \in 1..n /\ k + (i - k) = i
      BY <1>2, <1>5, <1>6, <2>2
    <3> QED
      BY <1>2, <1>3, <1>5, <3>1
  <2> QED
    BY <2>1, <2>2
<1>8. Lies(headers', w, 0)
  BY <1>7 DEF Lies
<1> QED
  BY <1>5, <1>8 DEF k, w

(* The first empty line a message shows ends the headers.                    *)
LEMMA HeadersEnd ==
  ASSUME ProxiesInv, NEW n, NEW m, Step(m, n), ~status,
         NEW e \in 0..n, e + 1 \in EmptyLines(m), headers' = headers \o SubSeq(m, 1, e),
         NEW z \in e + 2..n, content' = content \o SubSeq(m, e + 3, z), status' = TRUE
  PROVE  content' \in Seq(Symbols) /\ ContentOK'
<1> DEFINE w == Whole
           k == Len(w) - Len(rest)
           f == SubSeq(m, e + 3, z)
           h == response.head
           b == response.body
<1>1. /\ rest \in Seq(Symbols) /\ Len(rest) \in Nat /\ Len(rest) <= Len(w) /\ n \in 1..Len(rest)
      /\ m \in Seq(Symbols) /\ Len(m) = n /\ content = <<>>
      /\ \A i \in 1..n : m[i] = w[k + i]
  <2>1. rest \in Seq(Symbols) /\ content = <<>> /\ Len(rest) <= Len(w)
    BY DEF ProxiesInv, HttpTypes, BeginningOK, RestOK
  <2> QED
    BY <2>1 DEF Step, IsMessage
<1>2. /\ h \in Seq(Symbols) /\ b \in Seq(Symbols) /\ Len(h) \in Nat /\ Len(b) \in Nat
      /\ Len(w) = Len(h) + 2 + Len(b)
      /\ \A i \in 1..Len(h) : w[i] = h[i]
      /\ \A i \in 1..Len(b) : w[Len(h) + 2 + i] = b[i]
  <2>1. response \in Responses
    BY DEF ProxiesInv, HttpTypes
  <2> QED
    BY <2>1, WholeResponse
<1>3. k + (e + 1) >= Len(h) + 1
  BY NotInHead DEF Step
<1>4. headers' \in Seq(Symbols) /\ Len(headers') = k + e /\ Lies(headers', w, 0)
  BY BeginningKeeps
<1>5. Len(rest') = Len(rest) - n
  BY RestKeeps DEF Step
<1>6. h' = h /\ b' = b
  BY DEF Step
<1> HIDE DEF w, h, b
<1>7. /\ e \in Nat /\ n \in Nat /\ z \in Nat /\ e + 2 <= z /\ z <= n /\ n <= Len(rest)
      /\ k \in Nat /\ k = (Len(h) + 2 + Len(b)) - Len(rest) /\ k + e >= Len(h)
  <2>1. k \in Nat /\ e \in Nat
    BY <1>1, <1>2
  <2> HIDE DEF k
  <2>2. k + (e + 1) >= Len(h) + 1
    BY <1>3 DEF k, w
  <2>3. k + e >= Len(h)
    BY <1>2, <2>1, <2>2
  <2> QED
    BY <1>1, <1>2, <2>1, <2>3 DEF k
<1> HIDE DEF k
<1>8. /\ f \in Seq(Symbols) /\ Len(f) = z - (e + 2)
      /\ \A i \in 1..z - (e + 2) : f[i] = m[(e + 2) + i]
  <2>1. e + 3 \in 1..Len(m) + 1 /\ z \in (e + 3) - 1..Len(m) /\ (e + 3) - 1 = e + 2
    <3>1. Len(m) = n
      BY <1>1
    <3>2. e + 3 \in 1..n + 1 /\ z \in (e + 3) - 1..n /\ (e + 3) - 1 = e + 2
      BY <1>7
    <3> QED
      BY <3>1, <3>2
  <2>2. /\ f \in Seq(Symbols) /\ Len(f) = z - (e + 3) + 1
        /\ \A i \in 1..z - (e + 3) + 1 : f[i] = m[(e + 3) - 1 + i]
    <3> HIDE DEF f
    <3> QED
      BY <1>1, <2>1, Cut DEF f
  <2>3. z - (e + 3) + 1 = z - (e + 2)
    BY <1>7
  <2> HIDE DEF f
  <2> QED
    BY <2>1, <2>2, <2>3
<1>9. content' = f
  BY <1>1, <1>8
<1> HIDE DEF f
<1>10. Len(content') + Len(rest') = ((Len(h) + 2 + Len(b)) - (k + e + 2)) - (n - z)
  <2>1. Len(content') = z - (e + 2)
    BY <1>8, <1>9
  <2>2. (z - (e + 2)) + (Len(rest) - n) = ((Len(h) + 2 + Len(b)) - (k + e + 2)) - (n - z)
    BY <1>1, <1>2, <1>7
  <2> QED
    BY <1>5, <2>1, <2>2
<1>11. CASE k + e = Len(h) /\ z = n
  <2>1. headers' = h
    <3>1. \A i \in 1..Len(headers') : headers'[i] = w[0 + i]
      BY <1>4 DEF Lies
    <3>2. \A i \in 1..Len(headers') : headers'[i] = h[0 + i]
      BY <1>2, <1>4, <1>11, <3>1
    <3>3. Lies(headers', h, 0)
      BY <3>2 DEF Lies
    <3> QED
      BY <1>2, <1>4, <1>11, <3>3, SameSequence
  <2>2. Len(content') + Len(rest') = Len(b)
    <3>1. ((Len(h) + 2 + Len(b)) - (k + e + 2)) - (n - z) = Len(b)
      BY <1>2, <1>7, <1>11
    <3> QED
      BY <1>10, <3>1
  <2>3. ASSUME NEW i \in 1..Len(content')
        PROVE  content'[i] = b[0 + i]
    <3>1. /\ i \in 1..z - (e + 2) /\ (e + 2) + i \in 1..n /\ i \in 1..Len(b)
          /\ k + ((e + 2) + i) = Len(h) + 2 + i
      <4>1. i \in 1..z - (e + 2)
        BY <1>8, <1>9
      <4>2. Len(b) = Len(rest) - n + (z - (e + 2)) /\ Len(rest) - n >= 0
        <5>1. Len(content') = z - (e + 2)
          BY <1>8, <1>9
        <5>2. (z - (e + 2)) + (Len(rest) - n) = Len(b)
          BY <1>5, <2>2, <5>1
        <5>3. Len(rest) - n + (z - (e + 2)) = Len(b)
          <6>1. Len(rest) \in Int /\ n \in Int /\ z \in Int /\ e \in Int
            BY <1>1, <1>7
          <6> QED
            BY <5>2, <6>1
        <5> QED
          BY <1>1, <1>7, <5>3
      <4> QED
        BY <1>1, <1>2, <1>7, <1>11, <4>1, <4>2
    <3>2. content'[i] = m[(e + 2) + i]
      BY <1>8, <1>9, <3>1
    <3>3. m[(e + 2) + i] = w[Len(h) + 2 + i]
      <4>1. m[(e + 2) + i] = w[k + ((e + 2) + i)]
        BY <1>1, <3>1 DEF k
      <4> QED
        BY <3>1, <4>1
    <3>4. 0 + i = i
      OBVIOUS
    <3> QED
      BY <1>2, <3>1, <3>2, <3>3, <3>4
  <2> QED
    BY <1>6, <1>8, <1>9, <2>1, <2>2, <2>3 DEF ContentOK, Lies, h, b
<1>12. CASE ~ (k + e = Len(h) /\ z = n)
  <2>1. Len(content') + Len(rest') < Len(b)
    <3>1. ((Len(h) + 2 + Len(b)) - (k + e + 2)) - (n - z) < Len(b)
      <4>1. k + e >= Len(h) /\ (k + e > Len(h) \/ n > z)
        <5>1. k + e \in Int /\ Len(h) \in Int /\ n \in Int /\ z \in Int /\ z <= n /\ k + e >= Len(h)
          BY <1>2, <1>7
        <5>2. CASE k + e = Len(h)
          <6>1. z # n
            BY <1>12, <5>2
          <6> QED
            BY <5>1, <6>1
        <5>3. CASE k + e # Len(h)
          BY <5>1, <5>3
        <5> QED
          BY <5>2, <5>3
      <4>2. ASSUME NEW x \in Int, NEW y \in Int, NEW u \in Int, NEW v \in Int,
                   x >= y, u >= 0, x > y \/ u > 0
            PROVE  ((y + 2 + v) - (x + 2)) - u < v
        BY <4>2
      <4>3. k + e \in Int /\ Len(h) \in Int /\ n - z \in Int /\ Len(b) \in Int
            /\ n - z >= 0 /\ (n > z => n - z > 0)
        BY <1>2, <1>7
      <4>4. ((Len(h) + 2 + Len(b)) - ((k + e) + 2)) - (n - z) < Len(b)
        BY <4>1, <4>2, <4>3
      <4> QED
        BY <1>7, <4>4
    <3> QED
      BY <1>10, <3>1
  <2> QED
    BY <1>6, <1>8, <1>9, <2>1 DEF ContentOK, b
<1> QED
  BY <1>11, <1>12

(* With a status, the content goes on.                                       *)
LEMMA ContentKeeps ==
  ASSUME ProxiesInv, NEW n, NEW m, Step(m, n), status,
         content' = content \o m, headers' = headers, status' = status
  PROVE  content' \in Seq(Symbols) /\ ContentOK'
<1> DEFINE w == Whole
           k == Len(w) - Len(rest)
           h == response.head
           b == response.body
<1>1. /\ rest \in Seq(Symbols) /\ Len(rest) \in Nat /\ n \in 1..Len(rest)
      /\ m \in Seq(Symbols) /\ Len(m) = n /\ content \in Seq(Symbols) /\ Len(content) \in Nat
      /\ \A i \in 1..n : m[i] = w[k + i]
  <2>1. rest \in Seq(Symbols) /\ content \in Seq(Symbols)
    BY DEF ProxiesInv, HttpTypes
  <2> QED
    BY <2>1 DEF Step, IsMessage
<1>2. /\ Len(h) \in Nat /\ Len(b) \in Nat /\ Len(w) = Len(h) + 2 + Len(b)
      /\ \A i \in 1..Len(b) : w[Len(h) + 2 + i] = b[i]
  <2>1. response \in Responses
    BY DEF ProxiesInv, HttpTypes
  <2> QED
    BY <2>1, WholeResponse
<1>3. Len(rest') = Len(rest) - n
  BY RestKeeps DEF Step
<1>4. h' = h /\ b' = b
  BY DEF Step
<1>5. \/ Len(content) + Len(rest) < Len(b)
      \/ headers = h /\ Len(content) + Len(rest) = Len(b)
         /\ (\A i \in 1..Len(content) : content[i] = b[0 + i])
  BY DEF ProxiesInv, ContentOK, Lies
<1> HIDE DEF w, h, b
<1>10. k = (Len(h) + 2 + Len(b)) - Len(rest)
  BY <1>2
<1> HIDE DEF k
<1>6. /\ content' \in Seq(Symbols) /\ Len(content') = Len(content) + n
      /\ \A i \in 1..Len(content) : content'[i] = content[i]
      /\ \A i \in 1..n : content'[Len(content) + i] = m[i]
  <2>1. content \o m \in Seq(Symbols) /\ Len(content \o m) = Len(content) + Len(m)
    BY <1>1, Lengths
  <2>2. /\ \A i \in 1..Len(content) : (content \o m)[i] = content[i]
        /\ \A i \in 1..Len(m) : (content \o m)[Len(content) + i] = m[i]
    BY <1>1, Joined
  <2> QED
    BY <1>1, <2>1, <2>2
<1>7. Len(content') + Len(rest') = Len(content) + Len(rest)
  BY <1>1, <1>3, <1>6
<1>8. CASE Len(content) + Len(rest) < Len(b)
  BY <1>4, <1>6, <1>7, <1>8 DEF ContentOK, b
<1>9. CASE headers = h /\ Len(content) + Len(rest) = Len(b)
           /\ (\A i \in 1..Len(content) : content[i] = b[0 + i])
  <2>1. ASSUME NEW i \in 1..Len(content')
        PROVE  content'[i] = b[0 + i]
    <3>1. CASE i <= Len(content)
      BY <1>1, <1>6, <1>9, <3>1
    <3>2. CASE ~ (i <= Len(content))
      <4> DEFINE j == i - Len(content)
      <4>1. j \in 1..n /\ Len(content) + j = i /\ i \in 1..Len(b) /\ 0 + i = i
        BY <1>1, <1>2, <1>6, <1>9, <3>2
      <4>2. k + j = Len(h) + 2 + i
        <5>1. ASSUME NEW x \in Int, NEW y \in Int, NEW u \in Int, NEW v \in Int, NEW r \in Int,
                     x + r = y
              PROVE  ((u + 2 + y) - r) + (v - x) = u + 2 + v
          BY <5>1
        <5>2. Len(content) \in Int /\ Len(b) \in Int /\ Len(h) \in Int /\ i \in Int /\ Len(rest) \in Int
          BY <1>1, <1>2, <4>1
        <5>3. ((Len(h) + 2 + Len(b)) - Len(rest)) + (i - Len(content)) = Len(h) + 2 + i
          <6>1. Len(content) + Len(rest) = Len(b)
            BY <1>9
          <6> QED
            BY <5>2, <6>1, SMT
        <5> QED
          BY <1>10, <5>3
      <4> HIDE DEF j
      <4>3. content'[Len(content) + j] = m[j] /\ m[j] = w[k + j]
        BY <1>1, <1>6, <4>1 DEF k
      <4> QED
        BY <1>2, <4>1, <4>2, <4>3
    <3> QED
      BY <3>1, <3>2
  <2> QED
    BY <1>4, <1>6, <1>7, <1>9, <2>1 DEF ContentOK, Lies, h, b
<1> QED
  BY <1>5, <1>8, <1>9

(* The next message, whatever it shows, leaves the response exact.           *)
LEMMA ReceiveKeeps ==
  ASSUME ProxiesInv, ReceiveData
  PROVE  ProxiesInv'
<1>1. PICK n \in 1..Len(rest) :
        LET m == SubSeq(rest, 1, n)
            first == Part(m, 1)
        IN /\ rest' = SubSeq(rest, n + 1, Len(rest))
           /\ IF status THEN content' = content \o m /\ UNCHANGED <<headers, status>>
              ELSE /\ headers' = headers \o first /\ status' = (EmptyLines(m) # {})
                   /\ content' = IF EmptyLines(m) = {} THEN content
                                 ELSE content \o Part(m, Len(first) + 3)
  BY DEF ReceiveData
<1>2. request = "receiving" /\ UNCHANGED <<socketVars, response, request, turns>>
  BY DEF ReceiveData
<1> DEFINE m == SubSeq(rest, 1, n)
<1>3. Step(m, n)
  BY <1>1, <1>2, Message DEF Step
<1>4. /\ m \in Seq(Symbols) /\ Len(m) = n /\ n \in Nat /\ n >= 1
      /\ EmptyLines(m) \subseteq 1..n - 1
  <2> HIDE DEF m
  <2>1. rest \in Seq(Symbols)
    BY DEF ProxiesInv, HttpTypes
  <2> QED
    BY <1>3, <2>1 DEF Step, IsMessage, EmptyLines
<1>5. rest' \in Seq(Symbols) /\ Len(rest') = Len(rest) - n /\ RestOK'
  <2> HIDE DEF m
  <2> QED
    BY <1>3, RestKeeps DEF Step
<1>6. SocketTypes' /\ AnswerOK'
  BY <1>2 DEF ProxiesInv, SocketTypes, AnswerOK, socketVars
<1>7. /\ response' \in Responses /\ turns' \in Nat
      /\ request' \in {"none", "receiving", "answered", "unavailable", "error"}
      /\ headers \in Seq(Symbols) /\ content \in Seq(Symbols) /\ status \in BOOLEAN
  BY <1>2 DEF ProxiesInv, HttpTypes
<1>8. /\ status' \in BOOLEAN /\ headers' \in Seq(Symbols) /\ content' \in Seq(Symbols)
      /\ BeginningOK' /\ ContentOK'
  <2>1. CASE status
    <3>1. content' = content \o m /\ headers' = headers /\ status' = status
      BY <1>1, <2>1
    <3> HIDE DEF m
    <3>2. content' \in Seq(Symbols) /\ ContentOK'
      BY <1>3, <2>1, <3>1, ContentKeeps
    <3> QED
      BY <1>7, <2>1, <3>1, <3>2 DEF BeginningOK
  <2>2. CASE ~status
    <3>1. /\ headers' = headers \o Part(m, 1) /\ status' = (EmptyLines(m) # {})
          /\ content' = IF EmptyLines(m) = {} THEN content
                        ELSE content \o Part(m, Len(Part(m, 1)) + 3)
      BY <1>1, <2>2
    <3> HIDE DEF m
    <3>2. PICK e \in 0..n :
            /\ Part(m, 1) = SubSeq(m, 1, e) /\ (e = n \/ e + 1 \in EmptyLines(m))
            /\ \A j \in EmptyLines(m) : e < j
      <4>1. 1 \in 1..Len(m) + 1 /\ 1 - 1 = 0 /\ \A j \in EmptyLines(m) : j >= 1
        BY <1>4
      <4>2. \E e \in 1 - 1..Len(m) :
              /\ Part(m, 1) = SubSeq(m, 1, e) /\ (e = Len(m) \/ e + 1 \in EmptyLines(m))
              /\ \A j \in EmptyLines(m) : j >= 1 => e < j
        BY <1>4, <4>1, PartOf
      <4> QED
        BY <1>4, <4>1, <4>2
    <3>3. headers' = headers \o SubSeq(m, 1, e)
      BY <3>1, <3>2
    <3>4. /\ headers' \in Seq(Symbols) /\ Len(headers') = (Len(Whole) - Len(rest)) + e
          /\ Lies(headers', Whole, 0)
      BY <1>3, <2>2, <3>3, BeginningKeeps
    <3>5. CASE EmptyLines(m) = {}
      <4>1. e = n /\ status' = FALSE /\ content' = content /\ content = <<>>
        BY <2>2, <3>1, <3>2, <3>5 DEF ProxiesInv, BeginningOK
      <4>2. Whole' = Whole
        BY <1>2 DEF Whole
      <4>3. Len(headers') = Len(Whole) - Len(rest')
        <5>1. Len(rest) \in Nat /\ Len(Whole) \in Nat
          BY <1>2, <1>7, WholeLength DEF ProxiesInv, HttpTypes
        <5> QED
          BY <1>4, <1>5, <3>4, <4>1, <5>1
      <4>4. Lies(headers', Whole', 0)
        BY <3>4, <4>2
      <4>5. BeginningOK'
        BY <4>1, <4>2, <4>3, <4>4 DEF BeginningOK, Lies
      <4>6. ContentOK'
        BY <4>1 DEF ContentOK
      <4> QED
        BY <1>7, <3>4, <4>1, <4>5, <4>6
    <3>6. CASE EmptyLines(m) # {}
      <4>1. status' = TRUE
        BY <3>1, <3>6
      <4>2. e < n - 1 /\ e + 1 \in EmptyLines(m)
        BY <1>4, <3>2, <3>6
      <4>3. Len(Part(m, 1)) = e
        BY <1>4, <3>2
      <4>4. e + 3 \in 1..Len(m) + 1
        BY <1>4, <4>2
      <4>5. PICK z \in (e + 3) - 1..Len(m) : Part(m, e + 3) = SubSeq(m, e + 3, z)
        BY <1>4, <4>4, PartOf
      <4>6. z \in e + 2..n
        BY <1>4, <4>5
      <4>7. content' = content \o SubSeq(m, e + 3, z)
        BY <3>1, <3>6, <4>3, <4>5
      <4>8. content' \in Seq(Symbols) /\ ContentOK'
        BY <1>3, <2>2, <3>3, <4>1, <4>2, <4>6, <4>7, HeadersEnd
      <4> QED
        BY <3>4, <4>1, <4>8 DEF BeginningOK
    <3> QED
      BY <3>5, <3>6
  <2> QED
    BY <1>7, <2>1, <2>2
<1> QED
  BY <1>5, <1>6, <1>7, <1>8 DEF ProxiesInv, HttpTypes

(* An answer is given when the content is received.                          *)
LEMMA RequestKeeps ==
  ASSUME ProxiesInv, HandleRequest \/ Answer
  PROVE  ProxiesInv'
<1>1. /\ UNCHANGED <<socketVars, response, rest, headers, content, status>>
      /\ request' \in {"receiving", "answered", "unavailable", "error"}
  <2>1. CASE HandleRequest
    BY <2>1 DEF HandleRequest
  <2>2. CASE Answer
    BY <2>2 DEF Answer
  <2> QED
    BY <2>1, <2>2
<1>2. turns' \in Nat
  <2>1. CASE HandleRequest
    <3>1. turns \in Nat
      BY DEF ProxiesInv, HttpTypes
    <3>2. PICK running \in 0..MaxInstances :
            IF running = 0 THEN request' = "unavailable" /\ UNCHANGED turns
            ELSE request' \in {"receiving", "error"} /\ turns' = (turns + 1) % running
      BY <2>1 DEF HandleRequest
    <3> QED
      BY <3>1, <3>2, MaxInstancesAssumption
  <2>2. CASE Answer
    BY <2>2 DEF Answer, ProxiesInv, HttpTypes
  <2> QED
    BY <2>1, <2>2
<1>3. request' = "answered" => ContentReceived
  <2>1. CASE HandleRequest
    BY <2>1 DEF HandleRequest
  <2>2. CASE Answer
    BY <2>2 DEF Answer
  <2> QED
    BY <2>1, <2>2
<1>4. ContentReceived' <=> ContentReceived
  BY <1>1 DEF ContentReceived
<1>5. AnswerOK'
  BY <1>3, <1>4 DEF AnswerOK
<1>6. SocketTypes' /\ HttpTypes'
  BY <1>1, <1>2 DEF ProxiesInv, SocketTypes, HttpTypes, socketVars
<1>7. RestOK' /\ BeginningOK' /\ ContentOK'
  BY <1>1 DEF ProxiesInv, RestOK, BeginningOK, ContentOK, Lies, Whole
<1> QED
  BY <1>5, <1>6, <1>7 DEF ProxiesInv

(* The connections do not touch the response.                                *)
LEMMA ResponseAlone ==
  ASSUME ProxiesInv, UNCHANGED httpVars, SocketTypes'
  PROVE  ProxiesInv'
<1>1. UNCHANGED <<response, request, rest, headers, content, status, turns>>
  BY DEF httpVars
<1>2. ContentReceived' <=> ContentReceived
  BY <1>1 DEF ContentReceived
<1>3. HttpTypes' /\ AnswerOK'
  BY <1>1, <1>2 DEF ProxiesInv, HttpTypes, AnswerOK
<1>4. RestOK' /\ BeginningOK' /\ ContentOK'
  BY <1>1 DEF ProxiesInv, RestOK, BeginningOK, ContentOK, Lies, Whole
<1> QED
  BY <1>3, <1>4 DEF ProxiesInv

LEMMA SocketKeeps ==
  ASSUME SocketTypes, SocketProxyNext
  PROVE  SocketTypes' /\ UNCHANGED httpVars
<1> USE DEF SocketTypes
<1>1. CASE \E p \in Ports : RunServer(p) \/ ServerStarts(p)
  BY <1>1 DEF RunServer, ServerStarts
<1>2. CASE StopProxy
  BY <1>2 DEF StopProxy
<1>3. CASE \E c \in Connections : Accept(c) \/ ClientCloses(c) \/ RemoteCloses(c)
  BY <1>3 DEF Accept, ClientCloses, RemoteCloses
<1>4. ASSUME NEW c \in Connections, ConnectionTask(c)
      PROVE  SocketTypes' /\ UNCHANGED httpVars
  <2>1. CASE Connect(c)
    BY <2>1 DEF Connect
  <2>2. CASE Sender(c)
    BY <2>2 DEF Sender, Stopping, TaskEnds
  <2>3. CASE Responder(c)
    BY <2>3 DEF Responder, Stopping, TaskEnds
  <2>4. CASE TasksStop(c)
    BY <2>4 DEF TasksStop, TaskEnds
  <2>5. CASE GatherEnds(c)
    BY <2>5 DEF GatherEnds
  <2>6. CASE CloseConnection(c)
    BY <2>6 DEF CloseConnection
  <2> QED
    BY <1>4, <2>1, <2>2, <2>3, <2>4, <2>5, <2>6 DEF ConnectionTask
<1> QED
  BY <1>1, <1>2, <1>3, <1>4 DEF SocketProxyNext

LEMMA ProxiesStart ==
  ASSUME ProxiesInit
  PROVE  ProxiesInv
<1>1. response \in Responses /\ rest = Whole /\ headers = <<>> /\ content = <<>> /\ status = FALSE
  BY DEF ProxiesInit, Whole
<1>2. Whole \in Seq(Symbols) /\ Len(Whole) \in Nat
  BY <1>1, WholeResponse, WholeLength
<1>3. SocketTypes
  BY DEF ProxiesInit, SocketTypes
<1>4. HttpTypes /\ AnswerOK
  <2>1. rest \in Seq(Symbols) /\ headers \in Seq(Symbols) /\ content \in Seq(Symbols)
    BY <1>1, <1>2
  <2>2. request = "none" /\ turns = 0
    BY DEF ProxiesInit
  <2> QED
    BY <1>1, <2>1, <2>2 DEF HttpTypes, AnswerOK
<1>5. RestOK
  <2>1. Len(Whole) - Len(Whole) = 0 /\ Len(Whole) <= Len(Whole)
    BY <1>2
  <2>2. \A i \in 1..Len(Whole) : Whole[i] = Whole[0 + i]
    BY <1>2
  <2> QED
    BY <1>1, <2>1, <2>2 DEF RestOK, Lies
<1>6. BeginningOK /\ ContentOK
  <2>1. Len(headers) = 0 /\ Len(Whole) - Len(rest) = 0
    BY <1>1, <1>2
  <2> QED
    BY <1>1, <2>1 DEF BeginningOK, ContentOK, Lies
<1> QED
  BY <1>3, <1>4, <1>5, <1>6 DEF ProxiesInv

LEMMA ProxiesStep ==
  ASSUME ProxiesInv, [ProxiesNext]_proxyVars
  PROVE  ProxiesInv'
<1>1. CASE SocketProxyNext
  BY <1>1, SocketKeeps, ResponseAlone DEF ProxiesInv
<1>2. CASE HandleRequest \/ Answer
  BY <1>2, RequestKeeps
<1>3. CASE ReceiveData
  BY <1>3, ReceiveKeeps
<1>4. CASE UNCHANGED proxyVars
  <2>1. UNCHANGED httpVars /\ SocketTypes'
    BY <1>4 DEF proxyVars, socketVars, ProxiesInv, SocketTypes
  <2> QED
    BY <2>1, ResponseAlone
<1> QED
  BY <1>1, <1>2, <1>3, <1>4 DEF ProxiesNext, HttpProxyNext

LEMMA ProxiesPromises ==
  ASSUME ProxiesInv
  PROVE  ProxiesTypeOK /\ ResponseExact
<1>1. /\ response \in Responses /\ rest \in Seq(Symbols) /\ content \in Seq(Symbols)
      /\ Len(rest) \in Nat /\ Len(content) \in Nat
  BY DEF ProxiesInv, HttpTypes
<1>2. /\ Whole \in Seq(Symbols) /\ response.body \in Seq(Symbols)
      /\ Len(response.body) \in Nat /\ response.length \in BOOLEAN
  <2>1. Whole \in Seq(Symbols) /\ response.body \in Seq(Symbols)
    BY <1>1, WholeResponse
  <2> QED
    BY <1>1, <2>1, ResponsesAssumption
<1>3. IsSuffix(rest, Whole)
  BY <1>1, <1>2, Ends DEF ProxiesInv, RestOK
<1>4. ProxiesTypeOK
  BY <1>3 DEF ProxiesTypeOK, ProxiesInv, SocketTypes, HttpTypes, Whole
<1>5. ASSUME request = "answered", response.length
      PROVE  headers = response.head /\ content = response.body
  <2>1. status /\ Len(content) >= Len(response.body)
    BY <1>5 DEF ProxiesInv, AnswerOK, ContentReceived
  <2>2. \/ Len(content) + Len(rest) < Len(response.body)
        \/ /\ headers = response.head /\ Len(content) + Len(rest) = Len(response.body)
           /\ Lies(content, response.body, 0)
    BY <2>1 DEF ProxiesInv, ContentOK
  <2>3. ~ (Len(content) + Len(rest) < Len(response.body))
    BY <1>1, <1>2, <2>1
  <2>4. /\ headers = response.head /\ Len(content) = Len(response.body)
        /\ Lies(content, response.body, 0)
    BY <1>1, <1>2, <2>1, <2>2, <2>3
  <2> QED
    BY <1>1, <1>2, <2>4, SameSequence
<1> QED
  BY <1>4, <1>5 DEF ResponseExact

-----------------------------------------------------------------------------
(* The sum *)

LEMMA EngineSteps ==
  ASSUME [EngineNext]_engineMCVars
  PROVE  /\ [GolemNext]_golemVars
         /\ [NegotiationNext]_negotiationVars
         /\ [DebitNotesNext]_debitVars
         /\ [SummaryNext]_summaryVars
         /\ [ProxiesNext]_proxyVars
  BY DEF EngineNext, engineMCVars, ProxiesNext

(* With any number of callers, jobs and consumers, the allocation outlives   *)
(* the payments made from it, and no event that was accepted is lost         *)
(* (engine.py:236-347, utils.py:52-99).                                      *)
THEOREM StopsInOrder == EngineSpec => []StopInOrder
<1>1. EngineInit => GolemInv
  BY GolemStart DEF EngineInit
<1>2. GolemInv /\ [EngineNext]_engineMCVars => GolemInv'
  BY EngineSteps, GolemStep
<1>3. GolemInv => StopInOrder
  BY GolemPromises DEF StopInOrder
<1> QED
  BY <1>1, <1>2, <1>3, PTL DEF EngineSpec

(* For any proposals and any strategy's ranges and prices, every response to *)
(* a provider is acceptable to the requestor, and the semaphore counts the   *)
(* handlers that run (engine.py:919-1010, strategy/base.py).                 *)
THEOREM OffersAreInOrder == EngineSpec => []OffersInOrder
<1>1. EngineInit => NegotiationInv
  BY NegotiationStart DEF EngineInit
<1>2. NegotiationInv /\ [EngineNext]_engineMCVars => NegotiationInv'
  BY EngineSteps, NegotiationStep
<1>3. NegotiationInv => OffersInOrder
  BY NegotiationPromises DEF OffersInOrder
<1> QED
  BY <1>1, <1>2, <1>3, PTL DEF EngineSpec

(* For any notes, intervals and limits, a provider that keeps the pace keeps *)
(* its agreement, and the semaphore counts the tasks (engine.py:414-533).    *)
THEOREM NotesAreInOrder == EngineSpec => []NotesInOrder
<1>1. EngineInit => DebitInv
  BY DebitStart DEF EngineInit
<1>2. DebitInv /\ [EngineNext]_engineMCVars => DebitInv'
  BY EngineSteps, DebitStep
<1>3. DebitInv => NotesInOrder
  BY DebitPromises DEF NotesInOrder
<1> QED
  BY <1>1, <1>2, <1>3, PTL DEF EngineSpec

(* Whatever order the events of any jobs and agreements come in, the summary *)
(* is correct, and however messages cut a response, what a user gets is what *)
(* the remote server sent, or an error (log.py:404-650, http_proxy.py).      *)
THEOREM ShownAsItHappened == EngineSpec => []ShownAsItIs
<1>1. EngineInit => SummaryInv /\ ProxiesInv
  BY SummaryStart, ProxiesStart DEF EngineInit
<1>2. SummaryInv /\ ProxiesInv /\ [EngineNext]_engineMCVars => (SummaryInv /\ ProxiesInv)'
  BY EngineSteps, SummaryStep, ProxiesStep
<1>3. SummaryInv /\ ProxiesInv => ShownAsItIs
  BY SummaryPromises, ProxiesPromises DEF ShownAsItIs
<1> QED
  BY <1>1, <1>2, <1>3, PTL DEF EngineSpec
=============================================================================
