------------------------------ MODULE Strategy ------------------------------
(* The market strategies: how an offer is scored and what a demand says in   *)
(* answer to it (yapapi/strategy/, yapapi/contrib/strategy/, props/com.py).  *)
(* An offer has                                                              *)
(*   issuer, draft    who made it, and is it a draft of an agreement;        *)
(*   props            a function from the negotiable properties it has;      *)
(*   platforms        the payment platforms;                                 *)
(*   prices, fixed    the price of each usage counter, and the fixed one;    *)
(*   linear           can its price model be read at all?                    *)
(* Prices and times are small integers.                                      *)
EXTENDS Integers, FiniteSets, FiniteSetsExt

CONSTANTS Ranges,       \* acceptable_prop_value_ranges: [lo, hi] of each property
          MaxPrice,     \* _max_price_for, of each counter
          MaxFixed,     \* _max_fixed_price
          UsageTime,    \* _expected_time_secs
          MinExpiration \* MIN_EXPIRATION_FOR_MID_AGREEMENT_PAYMENTS

ASSUME RangesAssumption == \A k \in DOMAIN Ranges : Ranges[k] \in [lo : Int, hi : Int]

Interval == "debit-note.interval-sec"
PaymentTimeout == "payment-timeout-sec"
MidAgreement == {Interval, PaymentTimeout}

(* DEFAULT_PROPERTY_VALUE_RANGES are there unless a strategy overrides them. *)
ASSUME DefaultRangesAssumption == MidAgreement \subseteq DOMAIN Ranges

----------------------------------------------------------------------------
(* Negotiable properties                                                     *)

InRange(r, x) == r.lo <= x /\ x <= r.hi

(* A range without values makes clamp raise.                                 *)
CannotClamp(r) == r.lo > r.hi
Clamp(r, x) == IF x < r.lo THEN r.lo ELSE IF x > r.hi THEN r.hi ELSE x

(* Mid-agreement payments are for long jobs and for providers that know them.*)
MidAgreementEnabled(offer, expiration) ==
  Interval \in DOMAIN offer.props /\ expiration >= MinExpiration

(* Mutated form: the terms are those of the provider, whatever the range.    *)
MutAgreedValue(r, x) == x

AgreedValue(r, x) == IF InRange(r, x) THEN x ELSE Clamp(r, x)

(* respond_to_provider_offer: the properties of the offer that the demand    *)
(* takes up, and their values; it raises ValueError where clamp does.        *)
TakenUp(offer, expiration) ==
  {k \in DOMAIN offer.props \cap DOMAIN Ranges :
     k \in MidAgreement => MidAgreementEnabled(offer, expiration)}

CannotRespond(offer, expiration) ==
  \E k \in TakenUp(offer, expiration) :
    ~InRange(Ranges[k], offer.props[k]) /\ CannotClamp(Ranges[k])

Response(offer, expiration) ==
  [k \in TakenUp(offer, expiration) |-> AgreedValue(Ranges[k], offer.props[k])]

----------------------------------------------------------------------------
(* Scores                                                                    *)

Rejected == -1
Neutral == 0
Trusted == 10000        \* SCORE_TRUSTED, with two decimals

(* ComLinear.calculate_cost, for the same usage of each counter.             *)
Cost(offer, usage) ==
  offer.fixed + usage * MapThenSumSet(LAMBDA k : offer.prices[k], DOMAIN offer.prices)

(* LeastExpensiveLinearPayuMS.score_offer, with 1.01 as a hundred and one.   *)
LeastExpensive(offer) ==
  LET refused == \/ offer.fixed > MaxFixed \/ offer.fixed < 0
                 \/ \E k \in DOMAIN offer.prices :
                      offer.prices[k] > MaxPrice[k] \/ offer.prices[k] < 0
  IN IF refused THEN Rejected ELSE (100 * Trusted) \div (100 * Cost(offer, UsageTime) + 101)

(* DecreaseScoreForUnconfirmedAgreement, with a factor of one half.          *)
Decreased(score, offer, rejecting) ==
  IF offer.issuer \in rejecting /\ score > 0 THEN score \div 2 ELSE score

(* ProviderFilter: providers that are not allowed are refused.               *)
Filtered(score, offer, allowed) == IF offer.issuer \in allowed THEN score ELSE Rejected

(* Job._get_common_payment_platforms                                         *)
CommonPlatforms(offer, ours) ==
  ours \cap (IF offer.platforms = {} THEN {"NGNT"} ELSE offer.platforms)
=============================================================================
