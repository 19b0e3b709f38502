CONSTANTS
    WizardDays = 3
    MaxPages = 3
    MaxConfigures = 2
SPECIFICATION WizardSpec
PROPERTIES CancelKeepsTheRates
CHECK_DEADLOCK FALSE
