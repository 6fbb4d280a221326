CONSTANTS
    TexId = {t1, t2, t3, t4, t5}
    NoTex = NoTex
    Configured = {"left"}
    Server <- MCServer
    HostName <- MCHostName
    Ip <- MCIp
    ServerName <- MCServerName
    TcpPort <- MCTcpPort
    UdpPort <- MCUdpPort
    UDP_SERVER_PORT = 0
    UDP_PORT_RANGE = 2
    DEFAULT_PORT = 9
    ConfigServers <- MCConfigServers
    Texts <- MCTexts
    Windows = {"server", "disconnect", "message"}
SPECIFICATION Spec
INVARIANTS KeysFollowServerWindow RowsAreEntries TexturesAlive
PROPERTIES EveryServerFound
CHECK_DEADLOCK FALSE
