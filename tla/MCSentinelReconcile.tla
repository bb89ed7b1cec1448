------------------------ MODULE MCSentinelReconcile ------------------------
(***************************************************************************)
(* Instances of SentinelReconcile for TLC.                                 *)
(***************************************************************************)
EXTENDS SentinelReconcile

CONSTANTS imgNone, imgDefault, imgNew, p1, p2

MCImages == {imgNone, imgDefault, imgNew}
MCPasswords == {p1, p2}

\* The minima are those of the code's constants.
MCMinRedis == 3
MCMinSentinels == 3

SpecOf(size, sentinels, image, password) ==
    [size |-> size, sentinel |-> sentinels, image |-> image, password |-> password]

\* A spec that needs defaults, complete ones that scale redises or sentinels,
\* and one Validate refuses.
ScalingSpecs ==
    {SpecOf(0, 0, imgNone, p1), SpecOf(4, 3, imgDefault, p1),
     SpecOf(3, 4, imgNew, p1), SpecOf(2, 3, imgDefault, p1)}

\* One spec that needs defaults and one complete one.
TwoSpecs == {SpecOf(0, 3, imgNone, p1), SpecOf(4, 3, imgDefault, p1)}

EditBudget == [edits |-> 1, deletes |-> 0, crashes |-> 0, faults |-> 1]
LifeBudget == [edits |-> 0, deletes |-> 1, crashes |-> 1, faults |-> 0]

(***************************************************************************)
(* The smallest instances that show each disagreement with a comment.      *)
(***************************************************************************)
Base == SpecOf(3, 3, imgDefault, p1)
OnlyBase == {Base}
PasswordSpecs == {Base, SpecOf(4, 3, imgDefault, p2)}
SizeSpecs == {Base, SpecOf(4, 3, imgDefault, p1)}

NoInterference == [edits |-> 0, deletes |-> 0, crashes |-> 0, faults |-> 0]
OneEdit == [NoInterference EXCEPT !.edits = 1]
OneDelete == [NoInterference EXCEPT !.deletes = 1]
============================================================================
