--------------------------- MODULE CouponRegistry ---------------------------
(***************************************************************************)
(* What POST /coupons promises its callers: a code, in whatever case it is *)
(* written, is registered at most once and in one indivisible step, and    *)
(* an answer never contradicts the registry.  CreateCoupon.tla is shown to *)
(* implement this.                                                         *)
(***************************************************************************)
CONSTANTS
    Requests,         \* attempts to create a coupon
    Keys,             \* codes, whatever their case
    NormalizedValue,  \* the key of a code as it is written
    Malformed,        \* what is written is no code
    Nobody,           \* the owner of a key that is not registered
    NoOutcome         \* a request that has no answer yet

VARIABLES
    order,   \* the code each request asks for
    owner,   \* the request that has registered a key
    answer   \* what each caller was told

vars == <<order, owner, answer>>

KeyOf(r) == NormalizedValue[order[r].code]

Init ==
    /\ owner = [k \in Keys |-> Nobody]
    /\ answer = [r \in Requests |-> NoOutcome]

\* A caller who was told INTERNAL_ERROR knows nothing: the code may still be
\* registered.
Register(r) ==
    /\ KeyOf(r) # Malformed
    /\ owner[KeyOf(r)] = Nobody
    /\ answer[r] \in {NoOutcome, "INTERNAL_ERROR"}
    /\ owner' = [owner EXCEPT ![KeyOf(r)] = r]
    /\ UNCHANGED <<order, answer>>

\* CONFLICT is told only when another request has really registered the code,
\* not when one merely tried to.
Justified(r, o) ==
    \/ o = "SUCCESS" /\ KeyOf(r) # Malformed /\ owner[KeyOf(r)] = r
    \/ o = "CONFLICT" /\ KeyOf(r) # Malformed /\ owner[KeyOf(r)] \notin {Nobody, r}
    \/ o = "INVALID_REQUEST" /\ KeyOf(r) = Malformed
    \/ o = "INTERNAL_ERROR"

Reply(r, o) ==
    /\ answer[r] = NoOutcome
    /\ Justified(r, o)
    /\ answer' = [answer EXCEPT ![r] = o]
    /\ UNCHANGED <<order, owner>>

Next ==
    \E r \in Requests :
        \/ Register(r)
        \/ \E o \in {"SUCCESS", "CONFLICT", "INVALID_REQUEST", "INTERNAL_ERROR"} : Reply(r, o)

Spec == Init /\ [][Next]_vars
=============================================================================
