CONSTANTS
    Callers = {plan, floor}
    Values = {on, off}
    Entities = {sel}
    Switches = {}
    Selects = {sel}
    On = on
    Missing = gone
    Unavailable = unavail
    MaxSends = 2
    Polls = 2
    Cooldown = 1
    ShortCooldown = 1
SPECIFICATION FairSpec
INVARIANTS CooldownIsLastSent
PROPERTIES RepairIsRight KeepsPromise EveryWriteAnswered
