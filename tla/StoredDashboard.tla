---------------------------- MODULE StoredDashboard ----------------------------
(***************************************************************************)
(* The dashboard that the integration keeps current: update_dashboard and  *)
(* the fix of its repair write the generated dashboard into one the user   *)
(* picked, and looks from timers and listeners raise the repair while the  *)
(* two differ (services.py, stored_dashboard_repair.py,                    *)
(* core/stored_dashboard.py); with the notice of it, the script resource   *)
(* and the service actions, over set-ups and unloads of the entries        *)
(* (dashboard_notice.py, strategy.py, __init__.py).                        *)
(*                                                                         *)
(* What a dashboard holds is its author and a number.  A look and an       *)
(* update wait where they await Lovelace, the users and the files.         *)
(***************************************************************************)
EXTENDS Integers, Sequences

CONSTANTS
    EntryOrder,     \* the entries in the order Home Assistant lists them
    Paths,          \* URL paths
    NoPath,         \* nothing remembered, no repair, no dashboard there, nothing backed up
    MaxChanges,      \* bound on edits, layouts, unloads and additions
    MaxUpdates      \* bound on updates

ASSUME DashboardAssumption ==
    /\ NoPath \notin Paths /\ MaxChanges \in Nat /\ MaxUpdates \in Nat
    /\ DOMAIN EntryOrder = 1..Len(EntryOrder) /\ Len(EntryOrder) \in Nat \ {0}
    /\ \A i \in DOMAIN EntryOrder : EntryOrder[i] # NoPath

VARIABLES
    life,           \* of each entry: none, off, setup or loaded
    keptPath,       \* the option stored_dashboard_url_path
    announced,      \* the option dashboard_url_path: absent, found or told
    layouts,        \* the number of the dashboard generated for each entry
    board,          \* what is at each path
    host,           \* starting, lovelace (its dashboards are read) or started
    looks,          \* looks that wait
    updating,       \* updates that wait
    quiet,          \* the debouncer of each entry waits for a quiet minute
    outOfDate,      \* the path the repair is about
    backup,         \* the backup file
    notice, script, actions,  \* the notification, the script resource, the service actions
    settled,        \* history: a look has ended that saw everything as it is
    late,           \* history: a look ended after its entry was unloaded
    changesMade, updatesMade

boardVars == <<life, keptPath, announced, layouts, board, host, looks, updating, quiet, outOfDate,
               backup, notice, script, actions, settled, late, changesMade, updatesMade>>

BoardEntries == {EntryOrder[i] : i \in DOMAIN EntryOrder}
Blank == <<"blank", 0>>
Yaml == <<"yaml", 0>>
OfStrategy == <<"strategy", 0>>
Storage(content) == content \notin {NoPath, Yaml}

\* build_dashboard for an administrator, as storage would hold it.
Generated(e) == <<e, layouts[e]>>

\* loaded_entries, as places in the list, and primary_entry.
LoadedEntries == {i \in DOMAIN EntryOrder : life[EntryOrder[i]] = "loaded"}
Primary ==
    IF LoadedEntries = {} THEN NoPath
    ELSE EntryOrder[CHOOSE i \in LoadedEntries : \A j \in LoadedEntries : i <= j]

\* Home Assistant starts, with a dashboard that the first entry keeps, still or no longer in
\* storage, or with one that is not kept.
BoardInit ==
    /\ life = [e \in BoardEntries |-> "off"] /\ layouts = [e \in BoardEntries |-> 0]
    /\ \E p \in Paths : \E kept \in {NoPath, p} :
         /\ keptPath = [e \in BoardEntries |-> IF e = EntryOrder[1] THEN kept ELSE NoPath]
         /\ \E first \in {Generated(EntryOrder[1]), IF kept = p THEN Yaml ELSE OfStrategy} :
              board = [other \in Paths |-> IF other = p THEN first ELSE Blank]
    /\ announced = [e \in BoardEntries |-> "absent"]
    /\ host = "starting" /\ looks = {} /\ updating = {} /\ quiet = [e \in BoardEntries |-> FALSE]
    /\ outOfDate = NoPath /\ backup = NoPath
    /\ notice = FALSE /\ script = TRUE /\ actions = TRUE
    /\ settled = FALSE /\ late = FALSE /\ changesMade = 0 /\ updatesMade = 0

-----------------------------------------------------------------------------
(* A look: async_check_stored_dashboard                                    *)

\* _is_primary.  Mutant: every entry looks.
EveryEntry(e) == TRUE
IsPrimary(e) == Primary \in {NoPath, e}

\* A look does nothing while Lovelace has not read its dashboards.
Looks(e) == host # "starting" /\ IsPrimary(e)

\* What a look of entry e begins with, given what is stored: nothing, an end at once with the
\* repair cleared and a dashboard that cannot be kept forgotten, or a wait.
LookNow(e, paths, content) ==
    IF ~Looks(e) THEN [ends |-> FALSE, waits |-> {}, paths |-> paths]
    ELSE LET p == paths[e]
         IN IF p # NoPath /\ Storage(content[p])
            THEN [ends |-> FALSE, waits |-> {[entry |-> e, path |-> p, config |-> content[p], fresh |-> TRUE]},
                  paths |-> paths]
            ELSE [ends |-> TRUE, waits |-> {}, paths |-> [paths EXCEPT ![e] = NoPath]]

\* A look that nothing else comes with.
LookOf(e) ==
    LET now == LookNow(e, keptPath, board)
    IN /\ life[e] = "loaded" /\ Looks(e)
       /\ looks' = looks \cup now.waits /\ keptPath' = now.paths
       /\ outOfDate' = IF now.ends THEN NoPath ELSE outOfDate
       /\ settled' = IF now.ends THEN \A l \in looks : l.fresh ELSE settled
       /\ UNCHANGED <<life, announced, layouts, board, host, updating, backup, notice, script, actions,
                      late, changesMade, updatesMade>>

Hourly == \E e \in BoardEntries : LookOf(e) /\ UNCHANGED quiet

QuietMinute == \E e \in BoardEntries : quiet[e] /\ LookOf(e) /\ quiet' = [quiet EXCEPT ![e] = FALSE]

\* issue_action on what was read and on the dashboard built now; or a failure, which is logged.
LookEnds ==
    \E l \in looks :
      /\ looks' = looks \ {l}
      /\ \/ /\ outOfDate' = IF l.config = Generated(l.entry) THEN NoPath ELSE l.path
            /\ settled' = (l.fresh /\ \A other \in looks' : other.fresh)
            /\ late' = (late \/ life[l.entry] # "loaded")
         \/ UNCHANGED <<outOfDate, settled, late>>
      /\ UNCHANGED <<life, keptPath, announced, layouts, board, host, updating, quiet, backup, notice, script,
                     actions, changesMade, updatesMade>>

\* What was read before something changed is not what is there.
Stale == {[l EXCEPT !.fresh = FALSE] : l \in looks}

-----------------------------------------------------------------------------
(* update_dashboard, and the fix of the repair, which names no path        *)

\* choose_url_path and ensure_writable; a refusal changes nothing.
UpdateBegins ==
    \E given \in Paths \cup {NoPath} :
      LET e == Primary
          target == IF given = NoPath /\ e # NoPath THEN keptPath[e] ELSE given
      IN /\ e # NoPath /\ host # "starting" /\ actions
         /\ target # NoPath /\ Storage(board[target])
         /\ updatesMade < MaxUpdates /\ updatesMade' = updatesMade + 1
         /\ updating' = updating \cup {[entry |-> e, path |-> target, config |-> board[target], made |-> NoPath]}
         /\ UNCHANGED <<life, keptPath, announced, layouts, board, host, looks, quiet, outOfDate, backup,
                        notice, script, actions, settled, late, changesMade>>

\* The dashboard is built and what it replaces backed up, or the file cannot be written.
UpdateBacksUp ==
    \E u \in updating :
      /\ u.made = NoPath
      /\ \/ /\ backup' = IF u.config = Blank THEN backup ELSE u.config
            /\ updating' = (updating \ {u}) \cup {[u EXCEPT !.made = Generated(u.entry)]}
         \/ updating' = updating \ {u} /\ UNCHANGED backup
      /\ UNCHANGED <<life, keptPath, announced, layouts, board, host, looks, quiet, outOfDate, notice, script,
                     actions, settled, late, changesMade, updatesMade>>

\* The save, the path remembered, which its entry's listener looks at, and the repair cleared; a
\* dashboard that is gone by now raises, and so does an entry that is.
UpdateSaves ==
    \E u \in updating :
      /\ u.made # NoPath /\ updating' = updating \ {u}
      /\ IF ~Storage(board[u.path])
         THEN UNCHANGED <<board, keptPath, looks, outOfDate, settled>>
         ELSE LET content == [board EXCEPT ![u.path] = u.made]
                  paths == [keptPath EXCEPT ![u.entry] = u.path]
                  now == LookNow(u.entry, paths, content)
                  heard == keptPath[u.entry] # u.path /\ life[u.entry] = "loaded"
              IN /\ board' = content /\ settled' = FALSE
                 /\ looks' = Stale \cup (IF heard THEN now.waits ELSE {})
                 /\ IF life[u.entry] = "none" THEN UNCHANGED <<keptPath, outOfDate>>
                    ELSE keptPath' = paths /\ outOfDate' = NoPath
      /\ UNCHANGED <<life, announced, layouts, host, quiet, backup, notice, script, actions, late,
                     changesMade, updatesMade>>

-----------------------------------------------------------------------------
(* The entries                                                             *)

\* async_announce_dashboard as a set-up begins.
SetupBegins ==
    \E e \in BoardEntries :
      /\ life[e] = "off" /\ life' = [life EXCEPT ![e] = "setup"]
      /\ IF announced[e] # "absent" \/ host = "starting" THEN UNCHANGED <<announced, notice>>
         ELSE LET found == \E p \in Paths : board[p] = OfStrategy
              IN /\ announced' = [announced EXCEPT ![e] = IF found THEN "found" ELSE "told"]
                 /\ notice' = (notice \/ ~found)
      /\ UNCHANGED <<keptPath, layouts, board, host, looks, updating, quiet, outOfDate, backup, script,
                     actions, settled, late, changesMade, updatesMade>>

\* Its end: the first look, before the entry counts as loaded, and the actions that an unload
\* removed; the script was registered once in this run.  Or the first refresh fails.
SetupEnds ==
    \E e \in BoardEntries :
      /\ life[e] = "setup"
      /\ \/ /\ life' = [life EXCEPT ![e] = "loaded"] /\ actions' = TRUE
            /\ LET now == IF host = "started" THEN LookNow(e, keptPath, board)
                          ELSE [ends |-> FALSE, waits |-> {}, paths |-> keptPath]
               IN /\ looks' = Stale \cup now.waits /\ keptPath' = now.paths
                  /\ outOfDate' = IF now.ends THEN NoPath ELSE outOfDate
            /\ settled' = FALSE
         \/ life' = [life EXCEPT ![e] = "off"] /\ UNCHANGED <<actions, looks, keptPath, outOfDate, settled>>
      /\ UNCHANGED <<announced, layouts, board, host, updating, quiet, backup, notice, script, late,
                     changesMade, updatesMade>>

\* async_unload_entry and what the entry does on unload.  A look that waits goes on.
Unload(e) ==
    /\ life[e] = "loaded"
    /\ changesMade < MaxChanges /\ changesMade' = changesMade + 1
    /\ quiet' = [quiet EXCEPT ![e] = FALSE] /\ outOfDate' = NoPath
    /\ actions' = \E other \in BoardEntries \ {e} : life[other] = "loaded"
    /\ looks' = Stale /\ settled' = FALSE

UnloadEntry ==
    \E e \in BoardEntries :
      /\ Unload(e) /\ life' = [life EXCEPT ![e] = "off"]
      /\ UNCHANGED <<keptPath, announced, layouts, board, host, updating, backup, notice, script, late,
                     updatesMade>>

\* async_remove_entry, of an entry that is loaded or not.
RemoveEntry ==
    \E e \in BoardEntries :
      LET lastOne == \A other \in BoardEntries \ {e} : life[other] = "none"
      IN /\ \/ Unload(e)
            \/ life[e] = "off" /\ UNCHANGED <<quiet, outOfDate, actions, looks, settled, changesMade>>
         /\ life' = [life EXCEPT ![e] = "none"]
         /\ keptPath' = [keptPath EXCEPT ![e] = NoPath] /\ announced' = [announced EXCEPT ![e] = "absent"]
         /\ notice' = (notice /\ ~lastOne) /\ script' = (script /\ ~lastOne)
         /\ UNCHANGED <<layouts, board, host, updating, backup, late, updatesMade>>

\* Home Assistant starts: Lovelace reads its dashboards, then every entry looks.
HostStarts ==
    /\ host # "started"
    /\ \/ /\ host = "starting" /\ host' = "lovelace" /\ UNCHANGED <<looks, keptPath, outOfDate, settled>>
       \/ /\ host = "lovelace" /\ host' = "started"
          /\ IF Primary = NoPath THEN UNCHANGED <<looks, keptPath, outOfDate, settled>>
             ELSE LET now == LookNow(Primary, keptPath, board)
                  IN /\ looks' = looks \cup now.waits /\ keptPath' = now.paths
                     /\ outOfDate' = IF now.ends THEN NoPath ELSE outOfDate
                     /\ settled' = IF now.ends THEN \A l \in looks : l.fresh ELSE settled
    /\ UNCHANGED <<life, announced, layouts, board, updating, quiet, backup, notice, script, actions, late,
                   changesMade, updatesMade>>

\* The user edits, deletes or makes a dashboard, and adds an entry again; the generated dashboard
\* changes, with the registry of the entry or without, as when a card is installed.
WorldChanges ==
    /\ changesMade < MaxChanges /\ changesMade' = changesMade + 1
    /\ looks' = Stale /\ settled' = FALSE
    /\ \/ /\ \E p \in Paths, content \in {NoPath, <<"user", changesMade>>} :
                Storage(board[p]) /\ board' = [board EXCEPT ![p] = content]
          /\ UNCHANGED <<life, layouts, quiet>>
       \/ /\ \E p \in Paths : board[p] = NoPath /\ board' = [board EXCEPT ![p] = Blank]
          /\ UNCHANGED <<life, layouts, quiet>>
       \/ /\ \E e \in BoardEntries, seen \in BOOLEAN :
               /\ layouts' = [layouts EXCEPT ![e] = @ + 1]
               /\ quiet' = [quiet EXCEPT ![e] = @ \/ (seen /\ life[e] = "loaded")]
          /\ UNCHANGED <<life, board>>
       \/ /\ \E e \in BoardEntries : life[e] = "none" /\ life' = [life EXCEPT ![e] = "off"]
          /\ UNCHANGED <<board, layouts, quiet>>
    /\ UNCHANGED <<keptPath, announced, host, updating, outOfDate, backup, notice, script, actions, late,
                   updatesMade>>

BoardNext ==
    \/ Hourly \/ QuietMinute \/ LookEnds
    \/ UpdateBegins \/ UpdateBacksUp \/ UpdateSaves
    \/ SetupBegins \/ SetupEnds \/ UnloadEntry \/ RemoveEntry \/ HostStarts \/ WorldChanges

BoardSpec == BoardInit /\ [][BoardNext]_boardVars

-----------------------------------------------------------------------------
(* Properties                                                              *)

\* Once a look has seen everything as it is, the repair is there while the dashboard that is kept
\* differs from the generated one, and only then (core/stored_dashboard.py, issue_action).
RepairIsRight ==
    settled /\ Primary # NoPath =>
      LET p == keptPath[Primary]
      IN IF p = NoPath THEN outOfDate = NoPath
         ELSE /\ Storage(board[p])
              /\ outOfDate = IF board[p] = Generated(Primary) THEN NoPath ELSE p

\* The actions are there while an entry is loaded, and with the last entry goes all that was set
\* up for it, but for a repair that a look still waiting raises.
ActionsFollowEntries ==
    /\ Primary # NoPath => actions
    /\ (\A e \in BoardEntries : life[e] = "none") => ~notice /\ ~script /\ (outOfDate = NoPath \/ late)

\* A dashboard stops being kept when it is gone or its entry is, or gives way to another.
ForgottenOnlyWhenGone ==
    [][\A e \in BoardEntries :
         keptPath[e] # NoPath /\ keptPath'[e] = NoPath => ~Storage(board[keptPath[e]]) \/ life'[e] = "none"]_boardVars

\* The dashboard the user picked stays kept, and the repair tells when it is not current.
DashboardIsKept == [](RepairIsRight /\ ActionsFollowEntries) /\ ForgottenOnlyWhenGone
=============================================================================
