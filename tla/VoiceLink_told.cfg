SPECIFICATION Spec
CONSTANT HostPeers = 2
INVARIANT ToldDisconnected
