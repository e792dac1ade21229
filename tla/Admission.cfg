SPECIFICATION Spec
CONSTANTS
    Node = {1, 2}
    Name = {1, 2, 3}
    Deployments <- MCDeployments
    Settings <- MCSettings
    Callers <- MCCallers
    Route = {"/v1/sign", "/v1/bitcoin/sign-psbt", "/v1/dkg/round1", "/v1/day/vote", "/v1/reshare/trigger", "/v1/admin/status", "/v1/reshare/tr/round1"}
    MaxEdits = 2
    Keepers = {1}
    ServeEdits = 1
    MaxWriteFaults = 1
    NoCall = NoCall
INVARIANTS LabStaysInLab SealedShareOpens RostersAgree CallsJustified
CHECK_DEADLOCK FALSE
