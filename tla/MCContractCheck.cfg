SPECIFICATION FairSpec
CONSTANTS
    Backends = {b1, b2}
    MaxHead = 3
    MaxLag = 2
    MaxConfirmations = 3
    MaxTimes = 2
    Bits <- MCBits
    ERC_165_SUPPORTS_INTERFACE_SELECTOR <- MCErc165Id
    Codes <- MCCodes
    Interfaces <- MCInterfaces
INVARIANTS
    TypeOK
    ReceiptIsConfirmed
    LagIsCovered
    OkIsOneBlock
    RefusalHasReason
    DeployedIsFound
PROPERTIES
    CallsReturn
