CONSTANTS
    e1 = e1
    e2 = e2
    l1 = l1
    m1 = m1
    m2 = m2
    NULL = NULL
    Engine <- MCEngine
    Language <- MCLanguage
    App <- MCApp
    Menu <- MCMenu
    Speaks <- MCSpeaks
    Supports <- MCSupports
    Choices <- NoChoices
    FaultyCalls = {"load"}
    Wishes <- MCWishes
    MaxRequests = 2
    Trouble = {"misread", "crash", "kill"}
SPECIFICATION FairSettingsSpec
CHECK_DEADLOCK FALSE
INVARIANTS
    SettingsTypeOK
    AckedSettingHolds
    SidesAgree
PROPERTIES
    CallReturns
