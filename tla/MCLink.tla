------------------------------- MODULE MCLink -------------------------------
(* Instances of Link for TLC: what is written and answered on each channel. *)
EXTENDS Link

Channels == {1, 2}

\* Two channels whose frames mix: an answer of two frames on one, of one on the other.
Mixed == [writes |-> <<1, 1>>, parts |-> <<<<2>>, <<1>>>>]

\* One channel written to three times, answered in one frame and in two: the last
\* time, its third connection may be made while the reader of the first has yet to
\* end, and to remove the entry that is now the third's.
Again == [writes |-> <<3, 0>>, parts |-> <<<<1, 2>>, <<>>>>]

BothPlans == {Mixed, Again}
MixedPlan == {Mixed}
AgainPlan == {Again}
=============================================================================
