------------------------------- MODULE Intake --------------------------------
(***************************************************************************)
(* What becomes of one event between the beacon and its row: ToEvent,      *)
(* the stages buildPipeline lists, and the row InsertEvents writes.        *)
(*                                                                         *)
(* An event type is named by what its spellings have in common (trimmed,   *)
(* lower case); the text fields, which are only trimmed and cut, are left  *)
(* out.  Times are minutes, and 0 is Go's zero time.                       *)
(***************************************************************************)
EXTENDS Integers, FiniteSets, Functions

CONSTANTS
    MaxPropsKeys,  \* how many public properties an event keeps
    Control        \* property names that begin with "_"

ASSUME KeysAssumption == MaxPropsKeys \in Nat

CanonicalType ==
    [pageview |-> "PageView", click |-> "Click", addtocart |-> "AddToCart",
     checkout |-> "Checkout", paymentinfoadded |-> "PaymentInfoAdded",
     purchase |-> "Purchase", lead |-> "Lead"]
TrackedTypes == Range(CanonicalType)

GeoKeys == {"geo_region", "timezone", "device", "browser"}

(* Two maps in one; where both have a key, f's entry wins.                  *)
Over(f, g) ==
    [k \in DOMAIN f \union DOMAIN g |-> IF k \in DOMAIN f THEN f[k] ELSE g[k]]
ServerProps(w) == [_consent |-> w.consent, _received_at |-> TRUE]

(* Fault: the client's own _consent wins.                                   *)
ToEventTrusting(w) ==
    [type |-> w.type, sess |-> w.sess, ts |-> w.ts, amount |-> w.amount,
     base |-> w.base, received |-> w.received, churn |-> 0,
     props |-> Over(w.props, ServerProps(w))]

(* The control properties are the server's, whatever the client sent.       *)
ToEvent(w) ==
    [type |-> w.type, sess |-> w.sess, ts |-> w.ts, amount |-> w.amount,
     base |-> w.base, received |-> w.received, churn |-> 0,
     props |-> Over(ServerProps(w), w.props)]

HasConsent(e) == "_consent" \in DOMAIN e.props /\ e.props["_consent"]

(* The order of a Go map is random, so any public keys may be the ones kept; *)
(* control keys do not count.                                               *)
ClampProps(props) ==
    LET public == DOMAIN props \ Control
        kept == IF Cardinality(public) <= MaxPropsKeys THEN {public}
                ELSE {K \in SUBSET public : Cardinality(K) = MaxPropsKeys}
    IN {Restrict(props, K \union (DOMAIN props \intersect Control)) : K \in kept}

Normalize(e, now) ==
    {[e EXCEPT !.type = IF @ \in DOMAIN CanonicalType THEN CanonicalType[@] ELSE @,
               !.ts = IF @ = 0 THEN now ELSE @,
               !.amount = IF @ < 0 THEN 0 ELSE @,
               !.props = p] : p \in ClampProps(e.props)}

Tracked(e) == e.type \in TrackedTypes

EnrichGeo(e) == [e EXCEPT !.props = Over([k \in GeoKeys |-> TRUE], @)]

(* In thousandths: a hash of the user below 1000, less the amount.          *)
ChurnScore(e) ==
    LET score == e.base - e.amount
    IN IF score < 0 THEN 0 ELSE IF score >= 1000 THEN 999 ELSE score

ChurnEnrich(e) ==
    IF e.type = "Purchase" THEN [e EXCEPT !.churn = ChurnScore(e)] ELSE e

DedupKey(e) == <<e.sess, e.type, e.ts>>

(* What the stages up to Deduplicate make of an event: nothing, or one of   *)
(* several, which differ in the properties they keep.                       *)
Enriched(w, now) ==
    IF ~HasConsent(ToEvent(w)) THEN {}
    ELSE {ChurnEnrich(EnrichGeo(e)) : e \in {e \in Normalize(ToEvent(w), now) : Tracked(e)}}

CaptureMs(e, now) == IF now < e.received THEN 0 ELSE now - e.received

(* Fault: the control keys are stored as well.                              *)
PropsJSONAll(props) == DOMAIN props
PropsJSON(props) == DOMAIN props \ Control

(* The row of an event pushed at now, in window win.                        *)
Row(id, e, now) ==
    [id |-> id, type |-> e.type, ts |-> e.ts, sess |-> e.sess, churn |-> e.churn,
     keys |-> PropsJSON(e.props), captureMs |-> CaptureMs(e, now)]
=============================================================================
