--------------------------- MODULE MCDevicePlugin ---------------------------
EXTENDS DevicePlugin

Exclusive == <<"exclusive">>
Shared    == <<"shared">>
Shared2   == <<"shared", "2">>
Default   == <<"default">>

\* A usual configuration, and one that validatePools refuses.
MCConfigs == {{Exclusive, Shared, Default}, {Shared, Shared2}}

\* "cpusets-*.yaml", the FILE_MATCH of the DaemonSet, matches no "cpudp_*.sock".
MCMatchedSockets == {}
=============================================================================
