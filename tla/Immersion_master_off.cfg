CONSTANTS
    Cooldown = 2
    OutageTicks = 1
    HasSensor = TRUE
    MaxChanges = 3
    MaxCalls = 1
    Changes = {"press", "auto"}
SPECIFICATION Spec
PROPERTIES MasterOffStops
