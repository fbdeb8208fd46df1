----------------------------- MODULE MCAdmission -----------------------------
(***************************************************************************)
(* Two connections and two submissions are enough for a delivery to be     *)
(* repeated while the first one is received, ingested, or decided; two     *)
(* places, for it to be repeated under another name.                       *)
(***************************************************************************)
EXTENDS Admission, TLC

CONSTANTS k1, k2, c1, p1, p2, s1, s2

OneConn    == {k1}
TwoConns   == {k1, k2}
OneContent == {c1}
OnePath    == {p1}
TwoPaths   == {p1, p2}
TwoSubs    == {s1, s2}

Symmetry ==
  Permutations(TwoConns) \cup Permutations(TwoPaths) \cup Permutations(TwoSubs)

=============================================================================
