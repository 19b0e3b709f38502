----------------------------- MODULE SetupWizard -----------------------------
(***************************************************************************)
(* From the inverters found to an entry that manages one: the devices that *)
(* GivTCP shows (lib/givtcp/discovery.py), the choice between several and  *)
(* the identity that is remembered (lib/givtcp/system.py), the pages of the*)
(* set-up (wizard/setup_flow.py, flow_base.py), the inverter connection    *)
(* remapped later (reconfigure_flow.py, wiring.py), and the look a cycle   *)
(* takes at whether it is still the same system (coordinator.py).          *)
(*                                                                         *)
(* A device is the record of what it publishes now.  Its number stands for *)
(* its serial; two roles stand for the five power entities.                *)
(*                                                                         *)
(* The values that the pages enter are left out but for the number of      *)
(* timed rates and where the battery's capacity is read.  A submission is  *)
(* what its check answers: the warnings it gives.  One with errors shows   *)
(* the form again and changes nothing.                                     *)
(***************************************************************************)
EXTENDS Integers, FiniteSets, Sequences

CONSTANTS
    Layouts,            \* the sets of devices that GivTCP publishes, of this instance
    NoDevice,
    Ticks,              \* the sets of pages that the user ticks in this instance
    PageWarnings,       \* what the check of a page may warn of: sets
    MaxRows,            \* bound: timed rates
    MaxSetups,          \* bound: set-ups begun
    MaxLayoutChanges    \* bound

\* [id, serial : its sensor is "shown", "silent" or "none"; prefixed : its prefix is GivTCP's own, with
\* the serial; version : it says GivTCP's version; marks : the kinds only one of which publishes such a
\* value; text : Invertor_Type, or "none"; power : the power entities there are, awake : those that read;
\* charge : all charge controls are there; limit : its capacity reads a number; units, modules : counts]
PowerRoles == {"battery", "solar"}
DeviceRecords ==
    [id : Nat, serial : {"shown", "silent", "none"}, prefixed : BOOLEAN, version : BOOLEAN,
     marks : SUBSET {"gateway", "ems", "three_phase"}, text : STRING, power : SUBSET PowerRoles,
     awake : SUBSET PowerRoles, charge : BOOLEAN, limit : BOOLEAN, units : Nat, modules : Nat]
Devices == UNION Layouts

\* Entities of one prefix are one device, and a prefix carries a serial or does not.
ASSUME SetupAssumption ==
    /\ MaxRows \in Nat /\ MaxSetups \in Nat /\ MaxLayoutChanges \in Nat
    /\ Layouts \subseteq SUBSET DeviceRecords /\ NoDevice \notin Nat
    /\ \A devices \in Layouts : \A d, other \in devices : d.id = other.id => d = other
    /\ \A d, other \in Devices : d.id = other.id => d.prefixed = other.prefixed
    /\ Ticks \subseteq SUBSET {"tariff", "forecast", "hot_water"}

Serial(n) == [by |-> "serial", of |-> n]
NamedBy(word, n) == [by |-> word, of |-> n]
Manual == NamedBy("manual", 0)

-----------------------------------------------------------------------------
(* discovery.py                                                            *)

\* _candidate_prefixes: a device with no serial sensor needs a version and something of an inverter.
IsCandidate(d) ==
    d.serial # "none" \/ (d.version /\ ("battery" \in d.power \/ d.marks \cap {"gateway", "ems"} # {}))

\* A serial sensor that reads nothing leaves the prefix for a serial; where there is none, it is the
\* last word of the prefix.
NameOf(d) ==
    CASE d.serial = "shown" -> Serial(d.id)
      [] d.serial = "silent" -> NamedBy("prefix", d.id)
      [] OTHER -> IF d.prefixed THEN Serial(d.id) ELSE NamedBy("tail", d.id)

\* classify
KindOf(d) ==
    CASE "gateway" \in d.marks -> "gateway"
      [] "ems" \in d.marks -> "ems"
      [] "three_phase" \in d.marks -> "three_phase"
      [] OTHER -> IF d.text # "none" THEN d.text ELSE IF d.power = PowerRoles THEN "hybrid" ELSE "unknown"

\* discover_givtcp_inverters: the battery modules are counted only when there is one inverter.
Discover(devices) ==
    LET candidates == {d \in devices : IsCandidate(d)}
    IN  {[id |-> d.id, name |-> NameOf(d), kind |-> KindOf(d), complete |-> d.power = PowerRoles,
          power |-> d.power, charge |-> d.charge, limit |-> d.limit, units |-> d.units,
          modules |-> IF Cardinality(candidates) = 1 THEN d.modules ELSE 0] : d \in candidates}

-----------------------------------------------------------------------------
(* system.py                                                               *)

\* Devices sort by their serial, in capitals, before one named by its prefix.
Rank(name) == (IF name.by = "prefix" THEN 100 ELSE 0) + name.of
FirstOf(found) == CHOOSE f \in found : \A g \in found : Rank(f.name) <= Rank(g.name)

\* select_controller
SelectController(found) ==
    LET gateways == {f \in found : f.kind = "gateway"}
        rest == found \ gateways
        Choose(f) == [controller |-> f, ask |-> FALSE]
        OverSeveral == (CHOOSE f \in gateways : TRUE).units >= 2 \/ Cardinality(rest) >= 2
        whole == {f \in found : f.complete}
    IN  CASE found = {} -> Choose(NoDevice)
          [] Cardinality(found) = 1 -> Choose(FirstOf(found))
          [] Cardinality(found) > 1 /\ Cardinality(gateways) = 1 ->
               Choose(IF OverSeveral THEN FirstOf(gateways) ELSE FirstOf(rest))
          [] OTHER -> [controller |-> FirstOf(IF whole = {} THEN found ELSE whole), ask |-> TRUE]

\* identity_of and what_changed: other entities alone are no other system.
Identity(f) == [kind |-> f.kind, controller |-> f.name, modules |-> f.modules,
                roles |-> <<f.id, f.power, f.charge>>]
SameSystem(one, other) == [one EXCEPT !.roles = other.roles] = other

\* _system_now of coordinator.py, for the entry of that name.
SystemNow(name, found) ==
    LET mine == {f \in found : f.name = name}
        selected == SelectController(found)
    IN  IF mine = {} THEN NoDevice
        ELSE IF ~selected.ask /\ selected.controller.name # name THEN Identity(selected.controller)
        ELSE Identity(FirstOf(mine))

-----------------------------------------------------------------------------
VARIABLES
    layout,         \* the devices GivTCP publishes
    setup,          \* the set-up under way
    entries,        \* [name, wiring, limit, rows, byHand : history, known : the stored identity]
    different,      \* the issue that the system looks different, one for all entries
    setups, layoutChanges,
    warnedOf        \* history: the sets of warnings that the page in hand has shown

setupVars == <<layout, setup, entries, different, setups, layoutChanges, warnedOf>>

\* The pages in their fixed order, of those on offer.
PageIf(page, ticked) == IF page \in ticked THEN <<page>> ELSE <<>>
SetupPages(ticked) == PageIf("tariff", ticked) \o (PageIf("forecast", ticked) \o PageIf("hot_water", ticked))

Unwired == [r \in PowerRoles |-> NoDevice]
Closed == [step |-> "closed", found |-> {}, picked |-> NoDevice, chosen |-> NoDevice, name |-> Manual,
           wiring |-> Unwired, limit |-> NoDevice, ticked |-> {}, queue |-> <<>>, rows |-> 0, count |-> 0,
           warned |-> {}, passed |-> <<>>, missed |-> FALSE]

SetupInit ==
    /\ layout \in Layouts /\ setup = Closed /\ entries = {} /\ different = FALSE
    /\ setups = 0 /\ layoutChanges = 0 /\ warnedOf = {}

Names == {e.name : e \in entries}

-----------------------------------------------------------------------------
(* Wiring                                                                  *)

WiringFrom(f) == [r \in PowerRoles |-> IF f # NoDevice /\ r \in f.power THEN f.id ELSE NoDevice]
LimitFrom(f) == IF f # NoDevice /\ f.limit THEN f.id ELSE NoDevice

\* missing_wiring and unavailable_wiring
IsUsable(wiring) == \A r \in PowerRoles : \E d \in layout : d.id = wiring[r] /\ r \in d.awake
Wirings == [PowerRoles -> {d.id : d \in layout} \cup {NoDevice}]

\* serials_match over serials_in_wiring: only GivTCP's own prefix carries a serial.
SerialsIn(wiring) == {Serial(d.id) : d \in {x \in Devices : x.prefixed /\ \E r \in PowerRoles : wiring[r] = x.id}}
SerialsMatch(serials, name) == name = Manual \/ serials \subseteq {name}

\* device_prefix: the device whose entities carry the entry's serial, or on which two agree; the
\* default prefix and the serial otherwise.
DevicePrefix(e) ==
    LET Carries(id) == id = e.name.of /\ (e.name.by \in {"prefix", "tail"}
                           \/ \E d \in Devices : d.id = id /\ d.prefixed /\ e.name = Serial(id))
        trusted == {id \in {e.wiring[r] : r \in PowerRoles} \ {NoDevice} :
                       Carries(id) \/ \A r \in PowerRoles : e.wiring[r] = id}
    IN  IF trusted # {} THEN CHOOSE id \in trusted : id = e.wiring["battery"] \/ e.wiring["battery"] \notin trusted
        ELSE IF e.name.by = "serial" THEN e.name.of ELSE NoDevice

-----------------------------------------------------------------------------
(* The set-up                                                              *)

\* What was found is kept for the whole set-up (_detected_now).
OpenSetup ==
    /\ setup.step = "closed" /\ setups < MaxSetups
    /\ setup' = [Closed EXCEPT !.step = "system", !.found = Discover(layout)]
    /\ setups' = setups + 1 /\ warnedOf' = {}
    /\ UNCHANGED <<layout, entries, different, layoutChanges>>

Abort == setup' = Closed

\* _next
NextPage(s) ==
    IF s.queue = <<>> THEN [s EXCEPT !.step = "confirm"]
    ELSE [s EXCEPT !.step = Head(s.queue), !.queue = Tail(s.queue)]

\* _set_unique_id, and on to the first page.
GoOnAs(name, s) ==
    IF name \in Names THEN Abort ELSE setup' = NextPage([s EXCEPT !.name = name])

\* Mutant: the battery of the best inverter, whichever is chosen.
LimitOfBest(s, chosen) == LimitFrom(SelectController(s.found).controller)
LimitOfChosen(s, chosen) == LimitFrom(chosen)

\* _store_system
StoreSystem(s, picked, chosen, ticked) ==
    [s EXCEPT !.picked = picked, !.chosen = chosen, !.ticked = ticked, !.rows = 0, !.count = 0,
              !.limit = LimitOfChosen(s, chosen),
              !.queue = SetupPages(ticked)]

\* async_step_system: the inverter the user picked where it is asked, else the one of the rules.
SubmitSystem(picked, ticked) ==
    /\ setup.step = "system"
    /\ LET selected == SelectController(setup.found)
           chosen == IF picked = NoDevice THEN selected.controller ELSE picked
           s == StoreSystem(setup, picked, chosen, ticked)
       IN  /\ picked # NoDevice => selected.ask
           /\ IF chosen # NoDevice /\ chosen.complete
              THEN GoOnAs(chosen.name, [s EXCEPT !.wiring = WiringFrom(chosen)])
              ELSE setup' = [s EXCEPT !.step = "inverter_entities"]
    /\ UNCHANGED <<layout, entries, different, setups, layoutChanges, warnedOf>>

\* async_step_inverter_entities: entities picked by hand, of the device that is not complete.
SubmitEntities(wiring) ==
    /\ setup.step = "inverter_entities" /\ IsUsable(wiring)
    /\ GoOnAs(IF setup.chosen = NoDevice THEN Manual ELSE setup.chosen.name, [setup EXCEPT !.wiring = wiring])
    /\ UNCHANGED <<layout, entries, different, setups, layoutChanges, warnedOf>>

\* Mutant: a page that has warned once does not warn again.
WarnedAtAll(s, warnings) == \E w \in s.warned : w.page = s.step
HasWarned(s, warnings) == [page |-> s.step, of |-> warnings] \in s.warned

\* History: the user has seen them on this page.
WasSeen(warnings) == warnings = {} \/ warnings \in warnedOf

\* _page: the warnings of a submission are shown, and the next with the same ones goes through.
SubmitPage(warnings, n) ==
    /\ setup.step \in {"tariff", "tariff_rates", "forecast", "hot_water"}
    /\ (setup.step = "tariff") => warnings = {}
    /\ (setup.step # "tariff") => n = 0
    /\ IF warnings # {} /\ ~HasWarned(setup, warnings)
       THEN /\ setup' = [setup EXCEPT !.warned = {w \in @ : w.page # setup.step}
                                            \cup {[page |-> setup.step, of |-> warnings]}]
            /\ warnedOf' = warnedOf \cup {warnings}
       ELSE LET s == [setup EXCEPT !.passed = Append(@, setup.step), !.missed = @ \/ ~WasSeen(warnings)]
            IN  /\ setup' = CASE setup.step = "tariff" /\ n > 0 ->
                                   [s EXCEPT !.step = "tariff_rates", !.count = n, !.rows = 0]
                              [] setup.step = "tariff_rates" -> NextPage([s EXCEPT !.rows = s.count])
                              [] OTHER -> NextPage(s)
                /\ warnedOf' = {}
    /\ UNCHANGED <<layout, entries, different, setups, layoutChanges>>

\* async_step_confirm
ConfirmSetup ==
    /\ setup.step = "confirm"
    /\ entries' = entries \cup {[name |-> setup.name, wiring |-> setup.wiring, limit |-> setup.limit,
                                 rows |-> setup.rows, known |-> NoDevice,
                                 byHand |-> setup.chosen = NoDevice \/ ~setup.chosen.complete]}
    /\ Abort
    /\ UNCHANGED <<layout, different, setups, layoutChanges, warnedOf>>

-----------------------------------------------------------------------------
(* Reconfigure                                                             *)

Becomes(e, changed) == entries' = (entries \ {e}) \cup {changed}

\* Use what was found for the entry's serial.
ReconfigureFound(e) ==
    /\ \E f \in Discover(layout) :
          /\ f.name = e.name /\ f.complete /\ IsUsable(WiringFrom(f))
          /\ Becomes(e, [e EXCEPT !.wiring = WiringFrom(f), !.byHand = FALSE])
    /\ UNCHANGED <<layout, setup, different, setups, layoutChanges, warnedOf>>

\* Pick the entities by hand.
ReconfigureManual(e, wiring) ==
    /\ IsUsable(wiring) /\ SerialsMatch(SerialsIn(wiring), e.name)
    /\ Becomes(e, [e EXCEPT !.wiring = wiring, !.byHand = TRUE])
    /\ UNCHANGED <<layout, setup, different, setups, layoutChanges, warnedOf>>

-----------------------------------------------------------------------------
(* The entry                                                               *)

\* _check_system: the first look is remembered, and a system that differs is reported and not
\* remembered.
Checked(e, before) ==
    LET now == SystemNow(e.name, Discover(layout))
        first == e.known = NoDevice
        same == first \/ (now # NoDevice /\ SameSystem(e.known, now))
    IN  /\ Becomes(before, IF now # NoDevice /\ same THEN [e EXCEPT !.known = now] ELSE e)
        /\ different' = IF now = NoDevice \/ first THEN different ELSE ~same

\* A cycle that looks again; and the first one of a start, before which _adopt_limit_sensors fills in
\* a sensor of the battery's capacity where none was ever saved.
Look(e) == Checked(e, e)
EntryStart(e) ==
    LET adopts == e.limit = NoDevice /\ \E d \in layout : d.id = DevicePrefix(e) /\ d.limit
    IN  Checked(IF adopts THEN [e EXCEPT !.limit = DevicePrefix(e)] ELSE e, e)

\* accept_system_as_it_is, of every entry that is loaded.
Accept ==
    /\ different /\ different' = FALSE
    /\ entries' = {LET now == SystemNow(e.name, Discover(layout))
                   IN  IF now = NoDevice THEN e ELSE [e EXCEPT !.known = now] : e \in entries}
    /\ UNCHANGED <<layout, setup, setups, layoutChanges, warnedOf>>

LayoutChanges ==
    /\ layoutChanges < MaxLayoutChanges /\ layoutChanges' = layoutChanges + 1
    /\ layout' \in Layouts \ {layout}
    /\ UNCHANGED <<setup, entries, different, setups, warnedOf>>

SetupNext ==
    \/ OpenSetup
    \/ \E picked \in setup.found \cup {NoDevice}, ticked \in Ticks :
          SubmitSystem(picked, ticked)
    \/ \E wiring \in Wirings : SubmitEntities(wiring)
    \/ \E warnings \in PageWarnings, n \in 0..MaxRows : SubmitPage(warnings, n)
    \/ ConfirmSetup
    \/ \E e \in entries : ReconfigureFound(e) \/ \E wiring \in Wirings : ReconfigureManual(e, wiring)
    \/ \E e \in entries : (Look(e) \/ EntryStart(e)) /\ UNCHANGED <<layout, setup, setups, layoutChanges, warnedOf>>
    \/ Accept
    \/ LayoutChanges

SetupSpec == SetupInit /\ [][SetupNext]_setupVars

-----------------------------------------------------------------------------
(* Properties                                                              *)

\* An entry is made once, for the inverter that was picked or that the rules choose, with all its
\* readings from that one; after every page that was ticked, in order, as many timed rates as said,
\* and no warning that was not shown.
IsMadeAsAsked(e) ==
    LET whom == IF setup.picked = NoDevice THEN SelectController(setup.found).controller ELSE setup.picked
        rates == IF setup.count > 0 THEN <<"tariff_rates">> ELSE <<>>
    IN  /\ ~setup.missed
        /\ e.name = IF whom = NoDevice THEN Manual ELSE whom.name
        /\ e.limit \in {NoDevice} \cup (IF whom = NoDevice THEN {} ELSE {whom.id})
        /\ ~e.byHand => \A r \in PowerRoles : e.wiring[r] = whom.id
        /\ e.rows = setup.count
        /\ setup.passed = PageIf("tariff", setup.ticked) \o rates \o PageIf("forecast", setup.ticked)
                            \o PageIf("hot_water", setup.ticked)

\* A later step leaves an entry the inverter it was made for, and the capacity of that one; and what
\* is remembered of the system changes only while the user is told that it looks different.
StaysTheSame(e, after) ==
    /\ after.name = e.name
    /\ after.wiring # e.wiring => SerialsMatch(SerialsIn(after.wiring), e.name)
    /\ ~after.byHand /\ after.limit # e.limit => after.limit = after.wiring["battery"]
    /\ e.known # NoDevice => SameSystem(e.known, after.known) \/ different

\* The entry that the set-up makes, what reconfigure and the checks make of it, and the warnings on
\* the way (setup_flow.py, reconfigure_flow.py, _check_system).
SetupIsSound ==
    [][/\ \A e \in entries : \E after \in entries' : StaysTheSame(e, after)
       /\ \A after \in entries' : after.name \notin Names => IsMadeAsAsked(after)
       /\ \A one, other \in entries' : one.name = other.name => one = other]_setupVars
=============================================================================
