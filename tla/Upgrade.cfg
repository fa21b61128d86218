SPECIFICATION FairSpec
CONSTANTS
    None = None
    CpiVersions = {"1.21", "1.22"}
    CsiVersions = {"2.2.2", "2.4.0"}
    CpiDocs <- MCCpiDocs
    CsiDocs <- MCCsiDocs
    OwnNsVersions <- MCOwnNs
    FssVersions <- MCFss
    Confs = {k1}
    FirstConf = k1
    FirstMatrices <- MCFirstSelects
    CpiConfigured = TRUE
    CustomKubelet = FALSE
    InformerLag = TRUE
    OtherCsiDriver = FALSE
    Disturbances = {"matrix", "cloudconfig", "nodes", "pods"}
    MaxDisturb = 1
PROPERTIES
    CpiUpgradeCompletes
    
    ProblemsShown
