SPECIFICATION Spec
CONSTANTS
    PluginIDs <- MCPluginIDs
    UserIDs <- MCUserIDs
    Names <- MCNames
    Values = {"", "x", "y"}
    Timeouts <- MCTimeouts
    Redis <- MCRedis
    Owners <- MCOwners
    Fields <- MCFields
INVARIANTS
    ActionsFindTheirHandler
    QueuesIdentifyRegistrations
    RoutesKeepApart
    ClientsAreWhole
    EnvelopesArrive
    AnswersNameTheirTask
    RequestsAgree
    StoredConfigsAreFound
    
