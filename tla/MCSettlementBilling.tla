----------------------- MODULE MCSettlementBilling -----------------------
(* Small instances of SettlementBilling. A month is one day: the half days  *)
(* 2 and 3 are month 1, and in the early half day 4 month 2 has begun in    *)
(* Seoul and month 1 has not ended by UTC.                                  *)
EXTENDS SettlementBilling, TLC

CONSTANTS s1, s2, r1, r2, r3, h1, h2

OneStore == r1 :> s1 @@ r2 :> s1

TwoOfOneStore == r1 :> s1 @@ r2 :> s1 @@ r3 :> s2

(* r1 and r2 are of one store and nothing else tells them apart.             *)
Symmetry == Permutations({h1, h2}) \cup Permutations({r1, r2})
==========================================================================
