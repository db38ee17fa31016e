SPECIFICATION Spec
CONSTANTS
    Nodes = {n1, n2, n3, n4}
    PERCENT_CONNECTED = 2
INVARIANT TypeOK
INVARIANT ChannelEndsArePeers
PROPERTY TreeGrows
PROPERTY ConnectingKeepsPeers
