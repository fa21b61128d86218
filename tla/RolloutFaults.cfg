SPECIFICATION Spec
CONSTANTS
    None = None
    CpiVersions = {"1.21", "1.22"}
    CsiVersions = {"2.5.1"}
    CpiDocs <- MCCpiDocs
    CsiDocs <- MCCsiDocs
    OwnNsVersions <- MCOwnNs
    FssVersions <- MCFss
    Confs = {k1}
    FirstConf = k1
    FirstMatrices <- MCFirst
    CpiConfigured = TRUE
    CustomKubelet = TRUE
    InformerLag = TRUE
    OtherCsiDriver = TRUE
    Disturbances = {"matrix", "edit", "fault", "crash"}
    MaxDisturb = 2
INVARIANTS
    TypeOK
    CpiDriverHasCredentials
    SettledCpiPresent
    SettledCsiConfigured
PROPERTY CpiRollout
