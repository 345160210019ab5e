---------------------------- MODULE MCAssessment ----------------------------
(***************************************************************************)
(* Instances of Assessment for TLC: two pairs, the second of them required *)
(* by a full assessment only and possibly without a row at first.          *)
(***************************************************************************)
EXTENDS Assessment

CONSTANTS p1, p2, x1, r1, r2

TwoPairs == {p1, p2}
OnePair == {p1}
FullAndScreening == {"FULL", "SCREENING"}
Full == {"FULL"}
RequiredOfTwo == [d \in FullAndScreening |-> IF d = "FULL" THEN {p1, p2} ELSE {p1}]
RequiredOfOne == [d \in Full |-> {p1}]
SecondMissing == {p2}
NoneMissing == {}
OneScore == {x1}

\* A measured value, one that cannot be measured, and none.
Earlier == {[Empty EXCEPT !.x = x1],
            [Empty EXCEPT !.unmeasurable = TRUE, !.reason = TRUE],
            Empty}
EarlierMeasured == {[Empty EXCEPT !.x = x1]}

OneByOne == {r1}
Overlapping == {r1, r2}

=============================================================================
