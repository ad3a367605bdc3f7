SPECIFICATION Spec
CONSTANTS
    Platforms = {"linux", "windows", "macos", "android", "ios"}
    Schemes = {"olcrtc", "wireguard"}
    Protocols = {"socks", "olcrtc"}
    Secrets = {"text", "hex64"}
    DnsLists <- OneDnsList
    BypassLists <- NoBypass
CHECK_DEADLOCK FALSE
INVARIANT TransportBypassed
