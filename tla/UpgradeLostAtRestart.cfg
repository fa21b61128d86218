SPECIFICATION FairSpec
CONSTANTS
    None = None
    CpiVersions = {"1.21", "1.22"}
    CsiVersions = {"2.4.0"}
    CpiDocs <- MCCpiDocs
    CsiDocs <- MCCsiDocs
    OwnNsVersions <- MCOwnNs
    FssVersions <- MCFss
    Confs = {k1}
    FirstConf = k1
    FirstMatrices <- MCFirst
    CpiConfigured = TRUE
    CustomKubelet = FALSE
    InformerLag = FALSE
    OtherCsiDriver = FALSE
    Disturbances = {"matrix", "crash"}
    MaxDisturb = 2
PROPERTIES
    CpiUpgradeCompletes
