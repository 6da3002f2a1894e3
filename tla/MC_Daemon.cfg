SPECIFICATION Spec
CONSTANTS
    N = 2
    Ticks = {t1}
    MaxActions = 2
INVARIANTS
    TypeOK
    StopsExactlyWhenAllRevoked
    TickServesTheEnabled
PROPERTIES
    RevokedStartsNothingNew
    RevocationReceivedIsObeyed
    ShutdownCompletes
CHECK_DEADLOCK FALSE
