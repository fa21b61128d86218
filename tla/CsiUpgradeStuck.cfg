SPECIFICATION FairSpec
CONSTANTS
    None = None
    CpiVersions = {"1.21"}
    CsiVersions = {"2.4.0", "2.5.1"}
    CpiDocs <- MCCpiDocs
    CsiDocs <- MCCsiDocs
    OwnNsVersions <- MCOwnNs
    FssVersions <- MCFss
    Confs = {k1}
    FirstConf = k1
    FirstMatrices <- MCFirst
    CpiConfigured = FALSE
    CustomKubelet = FALSE
    InformerLag = FALSE
    OtherCsiDriver = FALSE
    Disturbances = {"matrix"}
    MaxDisturb = 1
PROPERTIES
    CsiUpgradeCompletes
