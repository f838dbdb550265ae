---------------------------- MODULE LiveAuthority ----------------------------
(***************************************************************************)
(* The stateless policy layers between a qualified strategy and an order   *)
(* intent: live_authorization.py (human approval), live_risk_gateway.py    *)
(* (risk certificates) and live_execution_intent.py (order intents).       *)
(*                                                                         *)
(* Abstractions.  Capital and loss fractions and timestamps are naturals;  *)
(* the finiteness checks on floats are left out.  A SHA-256 fingerprint    *)
(* stands for the record it hashes: two certificates (or intents) have the *)
(* same fingerprint exactly when they are equal.  Symbol and side of an    *)
(* order are left out.  The policies are the default ones                  *)
(* (require_explicit_human_approval = True).                               *)
(***************************************************************************)
EXTENDS Naturals

CONSTANTS
    Strategy,             \* strategy identifiers
    Fraction,             \* capital fractions a caller may ask for (0: none)
    Loss,                 \* max_loss_fraction of the policy at issuance
    Time,                 \* values of the clock the callers pass as "now"
    Nonce,                \* nonces of certificates
    IntentId,             \* intent identifiers
    MaxAuthorizedCapital, \* LiveAuthorizationPolicy.max_capital_fraction
    MaxRiskCapital,       \* LiveRiskPolicy.max_capital_fraction
    MaxLoss               \* LiveRiskPolicy.max_loss_fraction at validation

ASSUME NumbersAssumption ==
    /\ Fraction \subseteq Nat
    /\ Loss \subseteq Nat
    /\ Time \subseteq Nat
    /\ MaxAuthorizedCapital \in Nat \ {0}
    /\ MaxRiskCapital \in Nat \ {0}
    /\ MaxLoss \in Nat \ {0}

-----------------------------------------------------------------------------
(* Human authorization *)

Authorization == [strategy: Strategy, approved: BOOLEAN, capital: Fraction]

\* authorize_live_strategy: the decision is AUTHORIZED when no reason against
\* it was collected.  "eligible" is the qualification's decision, "authority"
\* the execution authority the qualification layer must not hold.
IsAuthorized(eligible, authority, approved, requested) ==
    /\ eligible
    /\ ~authority
    /\ approved
    /\ requested > 0
    /\ requested <= MaxAuthorizedCapital

-----------------------------------------------------------------------------
(* Risk certificates *)

Certificate == [strategy: Strategy, capital: Fraction, loss: Loss,
                issued: Time, expires: Time, nonce: Nonce]

\* issue_live_risk_certificate: the guard on an authorization already granted.
MayIssue(authorization, issued, expires) ==
    /\ expires > issued
    /\ authorization.capital > 0
    /\ authorization.capital <= MaxRiskCapital

NewCertificate(authorization, loss, issued, expires, nonce) ==
    [strategy |-> authorization.strategy, capital |-> authorization.capital,
     loss |-> loss, issued |-> issued, expires |-> expires, nonce |-> nonce]

\* Faulty variant of IsValidCertificate: valid at the instant of expiry.
IsValidCertificateAtExpiry(certificate, strategy, now, quantity) ==
    /\ certificate.strategy = strategy
    /\ now >= certificate.issued
    /\ now <= certificate.expires
    /\ quantity > 0
    /\ quantity <= certificate.capital
    /\ certificate.loss <= MaxLoss

\* validate_live_risk_certificate, the kill switch and the fingerprint check
\* excepted: both are inputs of the call that is validated.
IsValidCertificate(certificate, strategy, now, quantity) ==
    /\ certificate.strategy = strategy
    /\ now >= certificate.issued
    /\ now < certificate.expires
    /\ quantity > 0
    /\ quantity <= certificate.capital
    /\ certificate.loss <= MaxLoss

-----------------------------------------------------------------------------
(* Order intents *)

Intent == [id: IntentId, quantity: Fraction, created: Time,
           certificate: Certificate]

\* build_execution_intent: the certificate is validated against its own
\* strategy, so only window, capital and loss limit can refuse the intent.
MayBuild(certificate, quantity, now) ==
    IsValidCertificate(certificate, certificate.strategy, now, quantity)

NewIntent(id, certificate, quantity, now) ==
    [id |-> id, quantity |-> quantity, created |-> now,
     certificate |-> certificate]
=============================================================================
