--------------------------- MODULE MCCreateCoupon ---------------------------
(* Instances of CreateCoupon for TLC. *)
EXTENDS CreateCoupon, TLC

CONSTANTS summer, SUMMER, blank, SUMMER_KEY, WINTER_KEY

\* One code in two ways of writing it, and no code at all
NormalizedWritings == [code \in Codes |->
    IF code \in {summer, SUMMER} THEN SUMMER_KEY ELSE Malformed]

=============================================================================
