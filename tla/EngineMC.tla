------------------------------ MODULE EngineMC ------------------------------
(* The parts of the engine that share no state with each other, checked side *)
(* by side: a behaviour is one of the component that was chosen at first,    *)
(* and the others stay in an initial state.                                  *)
EXTENDS Golem, Negotiation, DebitNotes, SummaryLogger, Proxies

VARIABLE component   \* the one that takes the steps

engineMCVars == <<component, golemVars, negotiationVars, debitVars, summaryVars, proxyVars>>

MCOfferOf(issuer, draft, props, fixed, linear) ==
  [issuer |-> issuer, draft |-> draft, props |-> props, fixed |-> fixed, linear |-> linear,
   platforms |-> {"glm"}, prices |-> [cpu |-> 1, time |-> 0]]

(* No value is in the range of the third property: the requestor cannot clamp. *)
MCRanges ==
  [k \in MidAgreement \cup {"accept-timeout"} |->
     IF k = "accept-timeout" THEN [lo |-> 3, hi |-> 2] ELSE [lo |-> 2, hi |-> 5]]
MCMaxPrice == [cpu |-> 1, time |-> 1]

(* Terms out of the range; a draft; terms that cannot be met; no price model. *)
MCOffer ==
  [p1 |-> MCOfferOf("a", FALSE, [k \in MidAgreement |-> IF k = Interval THEN 1 ELSE 9], 0, TRUE),
   p2 |-> MCOfferOf("b", TRUE, [k \in {PaymentTimeout} |-> 3], 0, TRUE),
   p3 |-> [MCOfferOf("a", FALSE, [k \in {"accept-timeout"} |-> 4], 1, TRUE)
             EXCEPT !.platforms = {}]]

MCFor == [n \in Notes |-> CHOOSE a \in Agreements : TRUE]

(* Two agreements with one provider, in two jobs.                            *)
MCLogAgreements ==
  {[id |-> 1, job |-> "j1", provider |-> "p", amount |-> 2],
   [id |-> 2, job |-> "j2", provider |-> "p", amount |-> 1]}

MCResponses ==
  [head : {<<"h">>}, length : BOOLEAN,
   body : {<<>>, <<"b">>, <<"b", "b">>, <<"cr", "nl">>, <<"b", "cr", "nl">>, <<"cr", "nl", "b">>,
           <<"b", "cr", "nl", "b">>}]

EngineInit ==
  /\ component \in {"golem", "negotiation", "notes", "summary", "sockets", "http"}
  /\ GolemInit /\ NegotiationInit /\ DebitNotesInit /\ SummaryInit /\ ProxiesInit
  /\ component # "negotiation" => expiration = MinExpiration
  /\ component # "notes" => midAgreement = {}
  /\ component # "http" => response = CHOOSE r \in Responses : TRUE

EngineNext ==
  /\ UNCHANGED component
  /\ \/ /\ component = "golem" /\ GolemNext
        /\ UNCHANGED <<negotiationVars, debitVars, summaryVars, proxyVars>>
     \/ /\ component = "negotiation" /\ NegotiationNext
        /\ UNCHANGED <<golemVars, debitVars, summaryVars, proxyVars>>
     \/ /\ component = "notes" /\ DebitNotesNext
        /\ UNCHANGED <<golemVars, negotiationVars, summaryVars, proxyVars>>
     \/ /\ component = "summary" /\ SummaryNext
        /\ UNCHANGED <<golemVars, negotiationVars, debitVars, proxyVars>>
     \/ /\ \/ component = "sockets" /\ SocketProxyNext
           \/ component = "http" /\ HttpProxyNext
        /\ UNCHANGED <<golemVars, negotiationVars, debitVars, summaryVars>>

EngineSpec ==
  /\ EngineInit /\ [][EngineNext]_engineMCVars
  /\ GolemFairness /\ NegotiationFairness /\ DebitNotesFairness /\ ProxiesFairness

----------------------------------------------------------------------------
(* The properties of the components, stated and explained in their modules   *)

(* Starts and stops: the allocation outlives the payments made from it, and  *)
(* no event of a consumer is lost (engine.py:236-347, utils.py:52-99).       *)
StopInOrder == GolemTypeOK /\ AllocationOutlivesPayments /\ QueuedEventsHandled

(* Offers: what is sent to a provider is acceptable to the requestor, and    *)
(* the semaphore counts the handlers (engine.py:919-1010, strategy/base.py). *)
OffersInOrder == NegotiationTypeOK /\ TermsAcceptable /\ HandlersCounted

(* Debit notes: a provider that keeps the pace keeps its agreement, and the  *)
(* semaphore counts the tasks (engine.py:414-533).                           *)
NotesInOrder == DebitNotesTypeOK /\ WellPacedNotTerminated /\ PermitsReturned

(* What users are shown is what has happened: the costs and providers of the *)
(* summary (log.py:404-650), the response of an instance (http_proxy.py).    *)
ShownAsItIs == SummaryTypeOK /\ SummaryCorrect /\ ProxiesTypeOK /\ ResponseExact

(* What has begun ends: stop() of the engine, each proposal and debit note,  *)
(* both tasks of a connection whose client is gone.                          *)
EngineSettles == StopReturns /\ ProposalSettles /\ NoteSettles /\ ConnectionEnds
=============================================================================
