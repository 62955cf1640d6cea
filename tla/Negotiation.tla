---------------------------- MODULE Negotiation ----------------------------
(* The offers of the market on their way to the agreements pool: class Job   *)
(* of yapapi/engine.py, Subscription of yapapi/rest/market.py.  One task     *)
(* keeps a subscription open and queues what it brings; a second takes       *)
(* proposals off the queue and starts a handler for each, five at a time;    *)
(* a handler scores its proposal and rejects it, answers it or puts it in    *)
(* the pool.  A proposal whose agreement was refused is handled once more,   *)
(* outside of that limit.                                                    *)
EXTENDS Strategy, Sequences, SequencesExt

CONSTANTS Proposals,
          Offer,           \* the offer each of them makes
          Platforms,       \* platforms of _budget_allocations
          Allowed,         \* providers ProviderFilter lets pass
          MaxHandlers,     \* max_number_of_tasks
          MaxSubscriptions \* bound: subscriptions of a job

ASSUME MaxHandlersAssumption == MaxHandlers \in Nat \ {0} /\ MaxSubscriptions \in Nat

(* Negotiable values are numbers, and so is the cost at prices that are not  *)
(* negative (a sum over the counters of the offer).                          *)
ASSUME OffersAssumption ==
  \A p \in Proposals :
    /\ \A k \in DOMAIN Offer[p].props : Offer[p].props[k] \in Int
    /\ Offer[p].fixed \in Int /\ \A k \in DOMAIN Offer[p].prices : Offer[p].prices[k] \in Int
    /\ Offer[p].fixed >= 0 /\ (\A k \in DOMAIN Offer[p].prices : Offer[p].prices[k] >= 0) =>
         Cost(Offer[p], UsageTime) \in Nat

VARIABLES
  finder,      \* find_offers: "subscribing", "collecting", or ended
  subscribed,  \* subscriptions made (for the bound)
  unscored,    \* unscored_offers
  taken,       \* the proposal _handle_all_proposals holds (a sequence of at most one)
  handlers,    \* the semaphore: handlers that run
  proposal,    \* where each proposal is
  again,       \* proposals that are recycled: ignore_draft
  score,       \* as scored last
  demand,      \* the properties of our last answer, for those that have one
  expiration,  \* of the job
  rejecting,   \* _rejecting_providers
  agreementEvents \* AgreementRejected events that the strategy has not seen yet

findVars == <<finder, subscribed, expiration>>
handleVars == <<unscored, taken, handlers, proposal, again>>
answerVars == <<score, demand>>
strategyVars == <<rejecting, agreementEvents>>
negotiationVars == <<findVars, handleVars, answerVars, strategyVars>>

Settled == {"rejected", "responded", "confirmed", "failed"}
ProposalStates == {"market", "queued", "taken", "scoring", "rejecting", "responding", "adding",
                   "dropped"} \cup Settled
Issuers == {Offer[p].issuer : p \in Proposals}

NegotiationTypeOK ==
  /\ finder \in {"subscribing", "collecting", "failed", "cancelled"}
  /\ subscribed \in 0..MaxSubscriptions
  /\ unscored \in Seq(Proposals) /\ taken \in Seq(Proposals) /\ Len(taken) <= 1
  /\ handlers \in 0..MaxHandlers
  /\ proposal \in [Proposals -> ProposalStates] /\ again \subseteq Proposals
  /\ DOMAIN demand \subseteq Proposals
  /\ score \in [Proposals -> Rejected..Trusted]
  /\ rejecting \subseteq Issuers /\ agreementEvents \in Seq(Issuers)

NegotiationInit ==
  /\ finder = "subscribing" /\ subscribed = 0
  /\ unscored = <<>> /\ taken = <<>> /\ handlers = 0
  /\ proposal = [p \in Proposals |-> "market"] /\ again = {}
  /\ score = [p \in Proposals |-> Neutral] /\ demand = <<>>
  /\ expiration \in {MinExpiration - 1, MinExpiration}
  /\ rejecting = {} /\ agreementEvents = <<>>

Put(p, state) == proposal' = [proposal EXCEPT ![p] = state]

----------------------------------------------------------------------------
(* find_offers                                                               *)

(* A subscription, or an error that ends find_offers, and its handler task.  *)
Subscribe ==
  /\ finder = "subscribing"
  /\ \/ subscribed < MaxSubscriptions /\ subscribed' = subscribed + 1
        /\ finder' = "collecting"
     \/ finder' = "failed" /\ UNCHANGED subscribed
  /\ UNCHANGED <<expiration, handleVars, answerVars, strategyVars>>

(* Subscription.events: a list of proposals, each put on the queue.          *)
Collect(p) ==
  /\ finder = "collecting" /\ proposal[p] = "market"
  /\ unscored' = Append(unscored, p) /\ Put(p, "queued")
  /\ UNCHANGED <<findVars, taken, handlers, again, answerVars, strategyVars>>

(* The subscription has expired (404): a new one is made, and this one is    *)
(* not deleted.  Other errors leave find_offers.                             *)
CollectFails ==
  /\ finder = "collecting" /\ finder' \in {"subscribing", "failed"}
  /\ UNCHANGED <<subscribed, expiration, handleVars, answerVars, strategyVars>>

(* The executor cancels its offer service.                                   *)
CancelFindOffers ==
  /\ finder \in {"subscribing", "collecting"} /\ finder' = "cancelled"
  /\ UNCHANGED <<subscribed, expiration, handleVars, answerVars, strategyVars>>

----------------------------------------------------------------------------
(* _handle_all_proposals, which is cancelled when find_offers ends           *)

Handling == finder \in {"subscribing", "collecting"}

TakeProposal ==
  /\ Handling /\ taken = <<>> /\ unscored # <<>>
  /\ taken' = <<Head(unscored)>> /\ unscored' = Tail(unscored) /\ Put(Head(unscored), "taken")
  /\ UNCHANGED <<findVars, handlers, again, answerVars, strategyVars>>

StartHandler ==
  /\ Handling /\ taken # <<>> /\ handlers < MaxHandlers
  /\ handlers' = handlers + 1 /\ taken' = <<>> /\ Put(taken[1], "scoring")
  /\ UNCHANGED <<findVars, unscored, again, answerVars, strategyVars>>

----------------------------------------------------------------------------
(* _handle_proposal                                                          *)

(* The handler ends: its semaphore is released, if it has one.               *)
Settle(p, state) == Put(p, state) /\ handlers' = IF p \in again THEN handlers ELSE handlers - 1

ScoreOf(p) ==
  Filtered(Decreased(LeastExpensive(Offer[p]), Offer[p], rejecting), Offer[p], Allowed)

(* score_offer, and what follows up to the next call of the market.          *)
Score(p) ==
  /\ proposal[p] = "scoring"
  /\ LET offer == Offer[p]
         refuse == \/ ~offer.linear \/ ScoreOf(p) < Neutral
         answer == p \in again \/ ~offer.draft
         common == CommonPlatforms(offer, Platforms)
     IN /\ score' = [score EXCEPT ![p] = IF offer.linear THEN ScoreOf(p) ELSE Rejected]
        /\ IF refuse \/ (answer /\ (CannotRespond(offer, expiration) \/ common = {}))
           THEN Put(p, "rejecting") /\ UNCHANGED demand
           ELSE IF answer
           THEN /\ Put(p, "responding")
                /\ demand' = [q \in DOMAIN demand \cup {p} |->
                                IF q = p THEN Response(offer, expiration) ELSE demand[q]]
           ELSE Put(p, "adding") /\ UNCHANGED demand
  /\ UNCHANGED <<findVars, unscored, taken, handlers, again, strategyVars>>

(* The calls of the market: they fail when the subscription the proposal     *)
(* came by has expired, for instance.  The pool takes a proposal when it     *)
(* gets its lock.                                                            *)
Rejects(p) ==
  /\ proposal[p] = "rejecting"
  /\ Settle(p, "failed") \/ Settle(p, "rejected")
  /\ UNCHANGED <<findVars, unscored, taken, again, answerVars, strategyVars>>

Responds(p) ==
  /\ proposal[p] = "responding"
  /\ Settle(p, "failed") \/ Settle(p, "responded")
  /\ UNCHANGED <<findVars, unscored, taken, again, answerVars, strategyVars>>

AddToPool(p) ==
  /\ proposal[p] = "adding" /\ Settle(p, "confirmed")
  /\ UNCHANGED <<findVars, unscored, taken, again, answerVars, strategyVars>>

(* The agreement made from the proposal is refused: the strategy gets an     *)
(* event, and the proposal is recycled.  The event waits in the queue of the *)
(* strategy's consumer, the proposal for its task.                           *)
RecycleOffer(p) ==
  /\ proposal[p] = "confirmed"
  /\ again' = again \cup {p} /\ Put(p, "scoring")
  /\ agreementEvents' = Append(agreementEvents, Offer[p].issuer)
  /\ UNCHANGED <<findVars, unscored, taken, handlers, answerVars, rejecting>>

OnEvent ==
  /\ agreementEvents # <<>>
  /\ rejecting' = rejecting \cup {Head(agreementEvents)}
  /\ agreementEvents' = Tail(agreementEvents)
  /\ UNCHANGED <<findVars, handleVars, answerVars>>

(* ... or it is confirmed: the provider is forgiven (the event is handled).  *)
AgreementConfirmed(p) ==
  /\ proposal[p] = "confirmed" /\ Put(p, "dropped")
  /\ rejecting' = rejecting \ {Offer[p].issuer}
  /\ UNCHANGED <<findVars, unscored, taken, handlers, again, answerVars, agreementEvents>>

Answers(p) == Score(p) \/ Rejects(p) \/ Responds(p) \/ AddToPool(p)

NegotiationNext ==
  \/ Subscribe \/ CollectFails \/ CancelFindOffers \/ TakeProposal \/ StartHandler \/ OnEvent
  \/ \E p \in Proposals : Collect(p) \/ Answers(p) \/ RecycleOffer(p) \/ AgreementConfirmed(p)

(* Fairness: tasks run, and calls of the market return or fail.              *)
NegotiationFairness ==
  /\ WF_negotiationVars(TakeProposal) /\ WF_negotiationVars(StartHandler)
  /\ \A p \in Proposals : WF_negotiationVars(Answers(p))

NegotiationSpec == NegotiationInit /\ [][NegotiationNext]_negotiationVars /\ NegotiationFairness

----------------------------------------------------------------------------
(* Properties                                                                *)

(* A demand the requestor sends has only values it accepts itself, and the   *)
(* terms of mid-agreement payments only for a long job and together with the *)
(* interval that the debit notes are measured by (strategy/base.py:146-222); *)
(* a provider without a payment platform in common never gets one.           *)
TermsAcceptable ==
  \A p \in DOMAIN demand :
    /\ CommonPlatforms(Offer[p], Platforms) # {}
    /\ \A k \in DOMAIN demand[p] : InRange(Ranges[k], demand[p][k])
    /\ DOMAIN demand[p] \cap MidAgreement # {} =>
         Interval \in DOMAIN demand[p] /\ expiration >= MinExpiration

(* The semaphore counts the handlers that run, so that an error of one of    *)
(* them leaves its place to the next (engine.py:984-1010).                   *)
HandlersCounted ==
  handlers = Cardinality({p \in Proposals \ again :
                            proposal[p] \in {"scoring", "rejecting", "responding", "adding"}})

(* The queue does not keep a proposal: all that have been collected are being*)
(* handled some time, or the job stops looking (engine.py:984-1010).         *)
Unhandled == \E p \in Proposals : proposal[p] \in {"queued", "taken"}
ProposalSettles == Unhandled /\ Handling ~> ~Unhandled \/ ~Handling
=============================================================================
