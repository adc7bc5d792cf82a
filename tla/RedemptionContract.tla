------------------------- MODULE RedemptionContract -------------------------
(***************************************************************************)
(* What POST /coupons/{code}/redemptions promises its callers, with no     *)
(* database, lock, transaction or application instance in sight: a         *)
(* redemption is granted in one indivisible step, and an answer never      *)
(* contradicts the grants.  Redemption.tla is shown to implement this.     *)
(***************************************************************************)
EXTENDS Naturals, FiniteSets

CONSTANTS
    Requests,   \* attempts to redeem
    MaxUses,    \* the capacity of each coupon
    NoOutcome   \* a request that has no answer yet

VARIABLES
    order,      \* what each request asks for: a coupon for a user
    granted,    \* the requests whose redemption is durable
    answer,     \* what each caller was told
    left        \* the remaining uses a granted request is told

vars == <<order, granted, answer, left>>

Refusals == {"INVALID_REQUEST", "NOT_FOUND", "COUNTRY_NOT_ALLOWED",
             "ALREADY_REDEEMED", "EXHAUSTED", "GEOLOCATION_UNAVAILABLE"}

GrantedOn(c) == {r \in granted : order[r].coupon = c}
Holders(c) == {order[r].user : r \in GrantedOn(c)}

Init ==
    /\ granted = {}
    /\ answer = [r \in Requests |-> NoOutcome]
    /\ left = [r \in Requests |-> 0]

\* A use is granted to a user who has none, while there is capacity.  A caller
\* who was told INTERNAL_ERROR knows nothing: the grant may still happen.
Grant(r) ==
    LET c == order[r].coupon
    IN  /\ r \notin granted
        /\ answer[r] \in {NoOutcome, "INTERNAL_ERROR"}
        /\ order[r].user \notin Holders(c)
        /\ Cardinality(GrantedOn(c)) < MaxUses[c]
        /\ granted' = granted \cup {r}
        /\ left' = [left EXCEPT ![r] = MaxUses[c] - Cardinality(GrantedOn(c)) - 1]
        /\ UNCHANGED <<order, answer>>

\* The reason of a refusal is true when it is given.  ALREADY_REDEEMED takes
\* precedence: EXHAUSTED is told only to users who hold no use of the coupon.
Justified(r, o) ==
    LET c == order[r].coupon
        u == order[r].user
    IN  /\ o = "SUCCESS" => r \in granted
        /\ o \in Refusals => r \notin granted
        /\ o = "ALREADY_REDEEMED" => u \in Holders(c)
        /\ o = "EXHAUSTED" =>
              u \notin Holders(c) /\ Cardinality(GrantedOn(c)) = MaxUses[c]

Reply(r, o) ==
    /\ answer[r] = NoOutcome
    /\ Justified(r, o)
    /\ answer' = [answer EXCEPT ![r] = o]
    /\ UNCHANGED <<order, granted, left>>

Next ==
    \E r \in Requests :
        \/ Grant(r)
        \/ \E o \in Refusals \cup {"SUCCESS", "INTERNAL_ERROR"} : Reply(r, o)

Spec == Init /\ [][Next]_vars
=============================================================================
