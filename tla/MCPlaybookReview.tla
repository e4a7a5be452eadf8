--------------------------- MODULE MCPlaybookReview ---------------------------
(* Instances of PlaybookReview for TLC.                                     *)
EXTENDS PlaybookReview, TLC

CONSTANTS p1, t1, w1, w2, v1, int, str

OnePlaybook == {p1}
OneTask == {t1}
TwoWorkers == {w1, w2}
OneName == {v1}
TwoTypes == {int, str}

\* A variable inferred to be an integer, and one stated to be a string.
Inferred == [n \in OneName |-> [type |-> int, sure |-> FALSE]]
Stated == [n \in OneName |-> [type |-> str, sure |-> TRUE]]

TwoContents == {Inferred, Stated}
FileOrNone == {None, Inferred, Stated}
=============================================================================
