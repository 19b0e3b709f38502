------------------------------ MODULE PauseLoan ------------------------------
(***************************************************************************)
(* What the battery hold promises (battery_hold.py, battery_hold_store.py, *)
(* docs/concepts.md "Hold Battery While EV Charges"): the user's battery   *)
(* pause is only ever borrowed.  While the inverter holds another pause,   *)
(* the user's is noted on disk, and the note is only thrown away once the  *)
(* inverter holds the user's pause again.                                  *)
(***************************************************************************)
CONSTANTS Pauses,    \* what a pause may stop, and when
          NoNote

VARIABLES own,       \* the pause the user set
          live,      \* the pause the inverter holds
          note       \* the pause noted on disk, or NoNote

loanVars == <<own, live, note>>

Init == own \in Pauses /\ live = own /\ note = NoNote

\* The user sets a pause while nothing is borrowed.
Set == /\ note = NoNote /\ live = own
       /\ own' \in Pauses /\ live' = own' /\ UNCHANGED note

Note == note = NoNote /\ note' = own /\ UNCHANGED <<own, live>>

\* The inverter is written to, towards a hold or back from one.
Write == note = own /\ live' \in Pauses /\ UNCHANGED <<own, note>>

Forget == live = own /\ note' = NoNote /\ UNCHANGED <<own, live>>

Next == Set \/ Note \/ Write \/ Forget

Spec == Init /\ [][Next]_loanVars
=============================================================================
