SPECIFICATION Spec
CONSTANTS
    Platforms = {"linux", "ios"}
    Schemes <- AllSchemes
    Protocols <- AllProtocols
    Secrets <- AllSecrets
    DnsLists <- SomeDnsLists
    BypassLists <- SomeBypass
CHECK_DEADLOCK FALSE
INVARIANTS
    ValidConnects
    LinkConnects
    DnsUsable
    DirectAsExempted
