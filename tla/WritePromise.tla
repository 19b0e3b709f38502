---------------------------- MODULE WritePromise ----------------------------
(***************************************************************************)
(* What a caller of the GivTCP writer is promised (lib/givtcp/writer.py),  *)
(* with no word of locks, polls or cooldowns: one write at a time owns the *)
(* inverter, a write costs at most MaxSends register writes, and the       *)
(* status it answers tells how many it cost.                               *)
(***************************************************************************)
EXTENDS Naturals

CONSTANTS Callers,   \* tasks that write: the nightly plan, the floor, the hold, ...
          MaxSends   \* GIVTCP_MAX_WRITE_RETRIES

VARIABLES ask,       \* [Callers -> {"none", "open", "answered"}]
          spent,     \* [Callers -> 0..MaxSends]: register writes this request cost so far
          answer     \* [Callers -> WriteStatus], meaningful once answered

promiseVars == <<ask, spent, answer>>

WriteStatus == {"ALREADY_SET", "WRITTEN", "UNCONFIRMED", "COOLDOWN", "REFUSED", "FAILED"}

\* The statuses a request may end with after costing n register writes.
MayAnswer(n) ==
    (IF n = 0 THEN {"ALREADY_SET", "COOLDOWN", "REFUSED"} ELSE {"WRITTEN"})
    \cup {"FAILED"}
    \cup (IF n = MaxSends THEN {"UNCONFIRMED"} ELSE {})

\* Only one open request at a time has touched the inverter.
InFlight == {c \in Callers : ask[c] = "open" /\ spent[c] > 0}

Init ==
    /\ ask = [c \in Callers |-> "none"]
    /\ spent = [c \in Callers |-> 0]
    /\ answer \in [Callers -> WriteStatus]

Open(c) ==
    /\ ask[c] # "open"
    /\ ask' = [ask EXCEPT ![c] = "open"]
    /\ spent' = [spent EXCEPT ![c] = 0]
    /\ UNCHANGED answer

Spend(c) ==
    /\ ask[c] = "open"
    /\ InFlight \subseteq {c}
    /\ spent[c] < MaxSends
    /\ spent' = [spent EXCEPT ![c] = @ + 1]
    /\ UNCHANGED <<ask, answer>>

Answer(c) ==
    /\ ask[c] = "open"
    /\ ask' = [ask EXCEPT ![c] = "answered"]
    /\ \E s \in MayAnswer(spent[c]) : answer' = [answer EXCEPT ![c] = s]
    /\ UNCHANGED spent

Next == \E c \in Callers : Open(c) \/ Spend(c) \/ Answer(c)

Spec == Init /\ [][Next]_promiseVars
=============================================================================
