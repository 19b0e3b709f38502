---------------------------- MODULE MCChargeNight ----------------------------
(* A night of nine ticks: the trigger at 1, the window from 2 to 5 or, when  *)
(* it is extended, to 7.                                                    *)
EXTENDS ChargeNight

Short == [target |-> 2, end |-> 5, skip |-> FALSE, basis |-> 1]
Long == [target |-> 3, end |-> 7, skip |-> FALSE, basis |-> 2]
Skip == [target |-> 1, end |-> 5, skip |-> TRUE, basis |-> 1]

ShortOrLong == {Short, Long}
OnlyLong == {Long}
AllPlans == {Short, Long, Skip}
AnyFailure == Kinds \X {"failed"}
NightFaults == {"night"} \X {"lost", "failed"}
=============================================================================
