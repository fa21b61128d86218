SPECIFICATION FairSpec
CONSTANTS
    None = None
    CpiVersions = {"1.21"}
    CsiVersions = {"2.2.2"}
    CpiDocs <- MCCpiDocs
    CsiDocs <- MCCsiDocs
    OwnNsVersions <- MCOwnNs
    FssVersions <- MCFss
    Confs = {k1, k2}
    FirstConf = k1
    FirstMatrices <- MCFirstSelects
    CpiConfigured = TRUE
    CustomKubelet = TRUE
    InformerLag = TRUE
    OtherCsiDriver = FALSE
    Disturbances = {"conf", "fault", "crash"}
    MaxDisturb = 2
PROPERTIES
    Stabilises
    CredentialsCurrent
