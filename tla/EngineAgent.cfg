CONSTANTS
    e1 = e1
    e2 = e2
    l1 = l1
    l2 = l2
    a1 = a1
    m1 = m1
    NULL = NULL
    Engine <- MCEngine
    Language <- MCLanguage
    App <- MCApp
    Menu <- MCMenu
    Speaks <- MCSpeaks
    Supports <- MCSupports
    Choices <- MCChoices
    FaultyCalls <- AllFaults
SPECIFICATION FairAgentSpec
INVARIANTS
    AgentTypeOK
    DefaultIsHonoured
    LanguageIsSpoken
    SettingsAreKept
PROPERTIES
    ComesUp
    ProvidesEngine
