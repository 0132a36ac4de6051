\* One SetCrossDomain call with every list of up to two entries, then any
\* request.  A publisher whose Start failed serves nothing: that stop is
\* terminal.
CONSTANTS
    Hosts <- MCHosts
    ConfigHosts <- MCConfigHosts
    MaxUrls = 2
    MaxCalls = 1
    NoHeader = NoHeader
    NoResponse = NoResponse
SPECIFICATION Spec
CHECK_DEADLOCK FALSE
INVARIANTS
    TypeOK
    AllowOriginFollowsList
    CrossDomainXmlFollowsList
