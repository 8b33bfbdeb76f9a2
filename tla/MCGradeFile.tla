---------------------------- MODULE MCGradeFile -----------------------------
(***************************************************************************)
(* Three students: Ali, Ali Can and Can.  The line of Ali Can begins with  *)
(* the name Ali and contains the name Can, and comes before Ali's, since   *)
(* the character after the name is a space and no comma.                   *)
(***************************************************************************)
EXTENDS GradeFile

CONSTANTS ali, alican, can

ThreeBegins == [n \in Names |-> IF n = ali THEN {ali, alican} ELSE {n}]
ThreeHolds == [n \in Names |-> IF n = alican THEN {alican} ELSE {n, alican}]
ThreeRank == [n \in Names |-> CASE n = alican -> 1 [] n = ali -> 2 [] n = can -> 3]

(* One and two entries on a page: all pages of a short file and a few that *)
(* are not there.                                                          *)
SomePages == {<<n, p>> : n \in {1, 2}, p \in 1 .. 3} \cup {<<2, 0>>}
=============================================================================
