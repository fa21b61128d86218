SPECIFICATION Spec
CONSTANTS
    None = None
    CpiVersions = {}
    CsiVersions = {"2.2.2", "2.4.0", "2.6.2"}
    CpiDocs <- MCCpiDocs
    CsiDocs <- MCCsiDocs
    OwnNsVersions <- MCOwnNs
    FssVersions <- MCFss
    Confs = {k1}
    FirstConf = k1
    FirstMatrices <- MCFirst
    CpiConfigured = FALSE
    CustomKubelet = FALSE
    InformerLag = TRUE
    OtherCsiDriver = TRUE
    Disturbances = {"matrix", "fault"}
    MaxDisturb = 3
INVARIANTS
    
    SettledCsiPresent
