---------------------------- MODULE MCRedemption ----------------------------
(* Instances of Redemption for TLC. *)
EXTENDS RedemptionInvariant, TLC

CONSTANT c1   \* the hot coupon

\* One coupon with room for one use
MaxUses1 == [c \in Coupons |-> 1]

\* A hot coupon with one use and a second with two
MaxUses12 == [c \in Coupons |-> IF c = c1 THEN 1 ELSE 2]

\* Requests and users are interchangeable.
Symmetric == Permutations(Requests) \cup Permutations(Users)

\* A redemption of c1 may stop anywhere, with the row lock held; the requests
\* for other coupons run, and the GeoIP provider answers them.
StalledCouponSpec ==
    /\ Spec
    /\ \A r \in Requests : WF_vars(Progress(r) /\ order[r].coupon # c1)

\* A stalled redemption of one coupon does not keep the redemptions of another
\* from ending: row locks of different coupons are independent as long as the
\* pool has a connection for each thread.
CouponsAreIndependent ==
    \A r \in Requests : <>(order[r].coupon # c1 => pc[r] \in Ended)

=============================================================================
