SPECIFICATION Spec
CONSTANTS
    Calendar <- MCCalendar
    ResetDay = 2
    Providers <- MCProviders
    Quotas <- MCQuotas
    Allowance <- MCAllowance
    Need <- MCNeed
    Price <- MCPrice
    Unit = 2
    Usages <- MCUsages
    Procs = {c1, c2}
    MaxCommands = 2
    MaxTopUps = 1
CONSTRAINT NoneOvernight
INVARIANT ExactInEveryPeriod
SYMMETRY MCSymmetry
CHECK_DEADLOCK FALSE
