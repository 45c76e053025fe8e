--------------------------- MODULE MCPortMapping ---------------------------
(* A router that knows all protocols, one that knows UPnP only, one whose UPnP *)
(* leases are permanent, and one that gives away the ports of other devices.   *)
EXTENDS PortMapping

AllProviders == <<"pcp", "natpmp", "upnp">>

Router(supported, lasting, overwrites, faults, mishaps, slow) ==
    [supported |-> supported, lasting |-> lasting, overwrites |-> overwrites,
     faults |-> faults, mishaps |-> mishaps, slow |-> slow]

Settings ==
    {Router({"pcp", "natpmp", "upnp"}, FALSE, FALSE, 1, 1, 1),
     Router({"upnp"}, FALSE, FALSE, 1, 2, 1),
     Router({"natpmp", "upnp"}, TRUE, FALSE, 1, 0, 0),
     Router({"upnp"}, FALSE, TRUE, 0, 1, 1)}
=============================================================================
