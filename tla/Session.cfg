SPECIFICATION FairSpec
CONSTANTS
    Channel = {c0, c1}
    CliIngress = "MqttProxy"
    Reconnect = 2
    MaxReopen = 30
    MaxFaults = 3
INVARIANTS
    IInv
    ProxyReady
    KeepsProxy
PROPERTIES
    WaitsLonger
    Settles
