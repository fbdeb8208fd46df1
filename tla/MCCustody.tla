------------------------------ MODULE MCCustody ------------------------------
(***************************************************************************)
(* The instances of Custody that TLC explores.  Two file names are enough  *)
(* for every way in which sanitization can make two documents collide:     *)
(* "raw" (with a blank) is sanitized to "clean".                           *)
(***************************************************************************)
EXTENDS Custody, TLC

CONSTANTS d1, d2, c1, c2, general, graphic

MCDocs     == {d1, d2}
MCContents == {c1, c2}
MCCats     == {general, graphic}
OneName    == {"clean"}
TwoNames   == {"clean", "raw"}

MCSanitize(name) == "clean"

AllHosts == {"service", "app", "it"}
AppOnly  == {"app"}
ServiceOnly == {"service"}
AppAndService == {"app", "service"}

Symmetry == Permutations(MCDocs) \cup Permutations(MCContents) \cup Permutations(MCCats)

=============================================================================
