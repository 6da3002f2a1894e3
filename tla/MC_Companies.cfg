SPECIFICATION Spec
CONSTANTS
    N = 3
    Books = {"ours", "namesake"}
    Ours = "ours"
    DutyGroup <- MCDutyGroup
INVARIANTS
    TypeOK
    ReadsTheMapped
    ReportedGuidIsTheRead
    MastersAreOfTheCompany
    FailedMastersAreReported
PROPERTIES
    FollowsTheOnlyCopy
CHECK_DEADLOCK FALSE
