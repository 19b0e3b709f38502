------------------------------ MODULE Repairs ------------------------------
(***************************************************************************)
(* The feed of the inverter and the repairs a cycle raises and clears:     *)
(* what GivTCP publishes (lib/givtcp/reader.py, freshness.py), what a      *)
(* cycle makes of it (coordinator.py), and the issue registry (repairs.py) *)
(* over failing cycles, reloads, restarts and fixes.                       *)
(*                                                                         *)
(* A fault is named as its issue.  The repairs of the write log, the       *)
(* heater switch, the charger and the dashboard are in the modules of      *)
(* those.                                                                  *)
(***************************************************************************)
EXTENDS Integers

CONSTANTS
    MissingLimit,   \* MISSING_ENTITY_CYCLES
    OffLimit,       \* OFF_CYCLES of real_time_control.py
    SilentLimit,    \* SILENT_CYCLES of temperature_feed.py
    BlockedLimit,   \* BLOCKED_CYCLES of charge_pause.py
    CheckEvery,     \* SYSTEM_CHECK_EVERY_CYCLES
    Watches,        \* what changes together in this instance: sets of parts of the world
    MaxWorld        \* bound: how often, in all

Level == {"min_soc", "other_slots", "battery_cost"}     \* raised and cleared by level, every cycle
Counted == {"rtc", "temperature", "pause"}              \* raised after some cycles
Parts == Level \cup Counted \cup {"feed", "wired", "review", "system", "version", "entry"}

ASSUME RepairAssumption ==
    /\ {MissingLimit, OffLimit, SilentLimit, BlockedLimit, CheckEvery} \subseteq Nat \ {0}
    /\ Watches \subseteq SUBSET Parts /\ MaxWorld \in Nat

VARIABLES
    watch,          \* the parts of the world that change in this behaviour
    faults,         \* the faults of Level and Counted that are there
    published,      \* the feed: its entities, its age, and what GivTCP says of it
    wired,          \* a configured entity: there, renamed, or gone
    rtc,            \* the Real Time Control switch: on, off, or not to be read
    review,         \* the tariff's review date: none, recent, or old
    system, version,    \* the system found, and GivTCP's version: good, bad (one that resets ids), or none
    entry,          \* loaded; or its setup is due, for the first time or again
    counts,         \* cycles in a row, of what is counted
    cycleNo,        \* _update_cycle modulo CheckEvery, New before the first
    versionSeen,
    noted,          \* _givtcp_frozen, _givtcp_not_answering
    lastUpdate,     \* _last_update is set
    identity,       \* the stored SystemIdentity, 0 for none
    learned,        \* the stored reference of the configured entity
    issues,         \* the issue registry
    activeRepairs,  \* the open repairs on the sensor
    worldChanges,   \* the changes used up
    gap             \* history: the feeds met since _last_update was set

world == <<watch, faults, published, wired, rtc, review, system, version>>
repairVars == <<world, entry, counts, cycleNo, versionSeen, noted, lastUpdate, identity, learned, issues,
                activeRepairs, worldChanges, gap>>

New == -1
Limit == [missing |-> MissingLimit, rtc |-> OffLimit, temperature |-> SilentLimit, pause |-> BlockedLimit]
Live == [both |-> "there", old |-> FALSE, paused |-> FALSE, late |-> FALSE]
NoCounts == [c \in Counted \cup {"missing"} |-> 0]

RepairInit ==
    /\ watch \in Watches
    /\ faults = {} /\ published = Live /\ wired = "there" /\ rtc = "on" /\ review = "none"
    /\ system = 1 /\ version = "good"
    /\ entry = "setup" /\ counts = NoCounts /\ cycleNo = New /\ versionSeen = "none" /\ noted = {}
    /\ lastUpdate = FALSE /\ identity = 0 /\ learned = FALSE
    /\ issues = {} /\ activeRepairs = {} /\ worldChanges = 0 /\ gap = {}

\* feed_status: silent or missing need both of the solar and battery entities.
feed == CASE published.both = "gone" -> "missing"
          [] published.both = "unavailable" -> "silent"
          [] published.old -> "frozen"
          [] published.paused -> "paused"
          [] published.late -> "stale"
          [] OTHER -> "live"

-----------------------------------------------------------------------------
(* The checks that begin a cycle.  A check is a set of issues raised and a *)
(* set of issues cleared, or neither.                                      *)

Nothing == [raise |-> {}, clear |-> {}]
Raise(issue) == [raise |-> {issue}, clear |-> {}]
Clear(issue) == [raise |-> {}, clear |-> {issue}]
ByLevel(issue, is) == IF is THEN Raise(issue) ELSE Clear(issue)

\* entity_refs.resolve: an entity whose id changed is found by the reference learned before.
Missing == wired = "gone" \/ (wired = "renamed" /\ ~learned)

\* Cycles in a row, counted no further than the limit.
CountOf(name, is) ==
    IF ~is THEN 0 ELSE IF counts[name] = Limit[name] THEN Limit[name] ELSE counts[name] + 1

BeginCounts ==
    [missing |-> CountOf("missing", Missing),
     rtc |-> IF rtc = "none" THEN counts.rtc ELSE CountOf("rtc", rtc = "off"),
     temperature |-> CountOf("temperature", "temperature" \in faults),
     pause |-> counts.pause]

\* _check_system: at start-up, every CheckEvery cycles, and when the version moved.  The first look
\* stores what is found; a system that is different is reported and not stored.
SystemIsDue(moved) == cycleNo \in {New, CheckEvery - 1} \/ moved

Checks(count, moved) ==
    {ByLevel(f, f \in faults) : f \in Level}
    \cup {ByLevel("tariff", review = "old")}
    \cup {IF count.missing = MissingLimit THEN Raise("missing") ELSE Nothing}
    \cup {CASE rtc = "on" -> Clear("rtc")
            [] rtc = "off" /\ count.rtc = OffLimit -> Raise("rtc")
            [] OTHER -> Nothing}
    \cup {ByLevel("temperature", count.temperature = SilentLimit)}
    \cup {IF moved THEN ByLevel("version", version = "bad") ELSE Nothing}
    \cup {IF SystemIsDue(moved) /\ system # 0 /\ identity # 0 THEN ByLevel("system", system # identity)
          ELSE Nothing}

\* The notes of the feed.  The first cycle that meets a frozen feed, or one that is not answering,
\* raises its issue and forgets when the last update was.
FeedIssue == CASE feed = "frozen" -> "frozen" [] feed \in {"paused", "stale"} -> "not_answering" [] OTHER -> "none"

FeedCheck(count) ==
    CASE feed = "missing" -> Raise("missing")
      [] feed = "silent" -> Nothing
      [] FeedIssue # "none" -> IF FeedIssue \in noted THEN Nothing ELSE Raise(FeedIssue)
      [] feed = "live" -> [raise |-> {},
                           clear |-> noted \cup IF count.missing < MissingLimit THEN {"missing"} ELSE {}]

\* Mutant: only a frozen feed makes the next update the first.
KeepsWhenPaused == lastUpdate /\ ~(FeedIssue = "frozen" /\ FeedIssue \notin noted)
LastUpdateKept == lastUpdate /\ ~(FeedIssue # "none" /\ FeedIssue \notin noted)

\* _check_charge_pause, in a cycle that gets so far.
PauseCheck(count) ==
    IF "pause" \notin faults THEN Clear("pause")
    ELSE IF count.pause = BlockedLimit THEN Raise("pause") ELSE Nothing

After(checks, before) == (before \ UNION {c.clear : c \in checks}) \cup UNION {c.raise : c \in checks}

-----------------------------------------------------------------------------
(* The cycle                                                               *)

\* The issues that an entry deletes as it unloads; setups that fail unload too.
Unloaded == {"frozen", "not_answering", "temperature"}

NewCoordinator ==
    /\ counts' = NoCounts /\ cycleNo' = New /\ versionSeen' = "none" /\ noted' = {}
    /\ lastUpdate' = FALSE /\ gap' = {}

\* Everything _begin_cycle does, for a cycle that goes on as `then` says.  A reference is learned
\* while the configured id is there, and a review date that is missing is recorded.
Begun(then(_, _)) ==
    LET count == BeginCounts
        moved == version # versionSeen
    IN  /\ learned' = (learned \/ wired = "there")
        /\ review' = IF review = "none" THEN "recent" ELSE review
        /\ identity' = IF SystemIsDue(moved) /\ system # 0 /\ identity = 0 THEN system ELSE identity
        /\ then(count, After(Checks(count, moved), issues))
        /\ UNCHANGED <<watch, faults, published, wired, rtc, system, version, worldChanges>>

\* The feed is live: the cycle goes through.
GoodCycle ==
    /\ feed = "live" /\ entry' = "loaded"
    /\ Begun(LAMBDA count, begun :
         LET counted == [count EXCEPT !.pause = CountOf("pause", "pause" \in faults)]
         IN  /\ counts' = counted
             /\ issues' = After({PauseCheck(counted)}, After({FeedCheck(count)}, begun)))
    /\ cycleNo' = IF cycleNo = New THEN 1 % CheckEvery ELSE (cycleNo + 1) % CheckEvery
    /\ versionSeen' = version /\ noted' = {} /\ lastUpdate' = TRUE /\ gap' = {}
    /\ activeRepairs' = issues'

\* Any other feed fails it, and the setup of which it is the first.
FailedCycle ==
    /\ feed # "live" /\ entry = "loaded" /\ UNCHANGED entry
    /\ Begun(LAMBDA count, begun : counts' = count /\ issues' = After({FeedCheck(count)}, begun))
    /\ cycleNo' = (cycleNo + 1) % CheckEvery
    /\ versionSeen' = version /\ noted' = noted \cup ({FeedIssue} \ {"none"})
    /\ lastUpdate' = LastUpdateKept /\ gap' = IF LastUpdateKept THEN gap \cup {feed} ELSE {}
    /\ UNCHANGED activeRepairs

FailedSetup ==
    /\ feed # "live" /\ entry = "setup" /\ UNCHANGED entry
    /\ Begun(LAMBDA count, begun : issues' = After({FeedCheck(count)}, begun) \ Unloaded)
    /\ NewCoordinator /\ UNCHANGED activeRepairs

\* _on_repairs_changed: a task that reads the registry again whenever it changed.
RefreshRepairs ==
    /\ entry = "loaded" /\ activeRepairs # issues /\ activeRepairs' = issues
    /\ UNCHANGED <<world, entry, counts, cycleNo, versionSeen, noted, lastUpdate, identity, learned, issues,
                   worldChanges, gap>>

-----------------------------------------------------------------------------
(* Reloads, restarts, fixes and the world                                  *)

Changed(part) == part \in watch /\ worldChanges < MaxWorld /\ worldChanges' = worldChanges + 1

\* The entry is reloaded, or Home Assistant restarts: its issues are not persistent.
StartAgain(keptIssues) ==
    /\ entry' = "setup" /\ NewCoordinator
    /\ issues' = keptIssues /\ activeRepairs' = {}

Reload ==
    /\ Changed("entry") /\ entry = "loaded" /\ StartAgain(issues \ Unloaded)
    /\ UNCHANGED <<world, identity, learned>>

RestartHomeAssistant ==
    /\ Changed("entry") /\ StartAgain({}) /\ UNCHANGED <<world, identity, learned>>

\* A fix flow, which needs a loaded entry.  Home Assistant deletes an issue whose flow is finished.
FixLevel(issue) ==
    /\ issue \in {"other_slots", "battery_cost"} \cap issues /\ entry = "loaded"
    /\ faults' = faults \ {issue} /\ issues' = issues \ {issue}
    /\ UNCHANGED <<watch, published, wired, rtc, review, system, version, entry, counts, cycleNo, versionSeen,
                   noted, lastUpdate, identity, learned, activeRepairs, worldChanges, gap>>

FixTariff ==
    /\ "tariff" \in issues /\ entry = "loaded"
    /\ review' = "recent" /\ issues' = issues \ {"tariff"}
    /\ UNCHANGED <<watch, faults, published, wired, rtc, system, version, entry, counts, cycleNo, versionSeen,
                   noted, lastUpdate, identity, learned, activeRepairs, worldChanges, gap>>

\* accept_system_as_it_is: the issue goes even when no system is found to accept.
AcceptSystem ==
    /\ "system" \in issues /\ entry = "loaded"
    /\ identity' = (IF system # 0 THEN system ELSE identity) /\ issues' = issues \ {"system"}
    /\ UNCHANGED <<world, entry, counts, cycleNo, versionSeen, noted, lastUpdate, learned, activeRepairs,
                   worldChanges, gap>>

WorldTurns ==
    /\ \/ \E f \in Level \cup (Counted \ {"rtc"}) :
            /\ Changed(f) /\ faults' = (faults \ {f}) \cup ({f} \ faults)
            /\ UNCHANGED <<published, wired, rtc, review, system, version>>
       \/ /\ Changed("feed")
          /\ \/ \E b \in {"there", "unavailable", "gone"} \ {published.both} :
                  published' = [published EXCEPT !.both = b]
             \/ published' = [published EXCEPT !.old = ~@]
             \/ published' = [published EXCEPT !.paused = ~@]
             \/ published' = [published EXCEPT !.late = ~@]
            /\ UNCHANGED <<faults, wired, rtc, review, system, version>>
       \/ \E w \in {"there", "renamed", "gone"} \ {wired} :
            /\ Changed("wired") /\ wired' = w
            /\ UNCHANGED <<faults, published, rtc, review, system, version>>
       \/ \E r \in {"on", "off", "none"} \ {rtc} :
            /\ Changed("rtc") /\ rtc' = r
            /\ UNCHANGED <<faults, published, wired, review, system, version>>
       \/ /\ review = "recent" /\ Changed("review") /\ review' = "old"
          /\ UNCHANGED <<faults, published, wired, rtc, system, version>>
       \/ \E s \in (0..2) \ {system} :
            /\ Changed("system") /\ system' = s
            /\ UNCHANGED <<faults, published, wired, rtc, review, version>>
       \/ \E v \in {"good", "bad", "none"} \ {version} :
            /\ Changed("version") /\ version' = v
            /\ UNCHANGED <<faults, published, wired, rtc, review, system>>
    /\ UNCHANGED <<watch, entry, counts, cycleNo, versionSeen, noted, lastUpdate, identity, learned, issues,
                   activeRepairs, gap>>

RepairNext ==
    \/ GoodCycle \/ FailedCycle \/ FailedSetup \/ RefreshRepairs
    \/ Reload \/ RestartHomeAssistant
    \/ \E i \in Level : FixLevel(i)
    \/ FixTariff \/ AcceptSystem \/ WorldTurns

-----------------------------------------------------------------------------
(* Properties                                                              *)

\* What the registry should hold.  A cycle that fails judges what begins it; a switch, a version or
\* a system that cannot be read leaves what was last known of it.
Follows ==
    /\ \A f \in Level : f \in issues <=> f \in faults
    /\ "tariff" \in issues <=> review = "old"
    /\ "temperature" \in issues <=> "temperature" \in faults
    /\ rtc # "none" => ("rtc" \in issues <=> rtc = "off")
    /\ version # "none" => ("version" \in issues <=> version = "bad")
    /\ system # 0 => ("system" \in issues <=> system # identity)
    /\ feed \in {"live", "missing"} => ("missing" \in issues <=> Missing \/ feed = "missing")
    /\ FeedIssue # "none" => FeedIssue \in issues
    /\ feed = "live" => /\ issues \cap {"frozen", "not_answering"} = {}
                        /\ "pause" \in issues <=> "pause" \in faults
    /\ activeRepairs = issues

\* repairs.py: once the world stands still and the entry is loaded, every repair is up that should
\* be and none that should not, whatever failed, was reloaded, restarted or fixed before.
RepairsFollow == <>[](entry = "loaded") /\ <>[][UNCHANGED world]_repairVars => <>[]Follows

\* "Energy over the gap is unknown": no step of the totals spans a feed that held old values.
GapsNotBooked ==
    [][GoodCycle /\ lastUpdate => gap \cap {"frozen", "paused", "stale"} = {}]_repairVars

\* What the feed did is told and not booked.
FeedIsAnswered == RepairsFollow /\ GapsNotBooked
=============================================================================
