--------------------------- MODULE MCDigestReview ---------------------------
(* Model values for DigestReview.                                           *)
EXTENDS DigestReview, TLC

CONSTANTS m1, m2, e1, e2, e3, x1, x2

TwoMailboxes == {m1, m2}
ThreeEmails == {e1, e2, e3}
TwoIds == {x1, x2}
TwoAndOne == e1 :> m1 @@ e2 :> m1 @@ e3 :> m2

\* The two identifiers mean nothing, and e1 and e2 are of one mailbox.
Symmetry == Permutations({x1, x2}) \cup Permutations({e1, e2})
=============================================================================
