---------------------------- MODULE MCReadState -----------------------------
(* Model values for ReadState.                                              *)
EXTENDS ReadStateDocs, TLC

CONSTANTS e1, e2, p1, p2, s

OneEmail == {e1}
TwoEmails == {e1, e2}
OneMark == {p1}
TwoMarks == {p1, p2}
OneOfEach == {p1, s}
Nobody == {}
=============================================================================
