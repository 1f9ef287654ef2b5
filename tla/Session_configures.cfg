SPECIFICATION Spec
CONSTANTS
    Channel = {c0, c1}
    CliIngress = "MqttProxy"
    Reconnect = 2
    MaxReopen = 30
    MaxFaults = 1
INVARIANT
    ConfiguresFirst
