CONSTANTS
    Literals <- LiteralValues
    MaxNesting = 1
    SlippageBps = 5000
    FeeBps = 2500
    SlotsPerDay = 4
    OpenSlot = 1
    CloseSlot = 3
    Holidays = {1}
    Scenarios <- AllScenarios
    StartingCash = 1000
    MaxMarkAge = 2
SPECIFICATION Spec
INVARIANTS
    EquityMatchesLedger
    InventoryGap
    RuleFiresExactly
    StrategyContracts
    WarmStartConverges
    SessionRespected
