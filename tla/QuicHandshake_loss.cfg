\* One packet is lost in a handshake without a client certificate; each side
\* may send again twice.
SPECIFICATION QhSpec
CONSTANTS
    QhSuites = {"sha256"}
    QhServerUses = {{}}
    QhCredentials = {"none"}
    QhMaxLosses = 1
    QhMaxDuplicates = 0
    QhMaxProbes = 2
    QhMaxResends = 2
INVARIANT HandshakeSurvivesLoss
CHECK_DEADLOCK FALSE
