--------------------------- MODULE MCDeviceConfig ---------------------------
(* IPv4 addresses of two bits, 00 to 11 as n0, a1, n1 and a2: as a mask, a1  *)
(* does not begin with its ones.  One IPv6 address; a host name that         *)
(* hostnameRe takes and one that is too short for it.  Every field absent,   *)
(* good, or of a wrong kind.                                                 *)
EXTENDS DeviceConfig

CONSTANTS a1, a2, n0, n1, a6, host, short

MCV4 == {n0, a1, n1, a2}
MCV6 == {a6}
MCHostnames == {host}
MCHostnameFormat == {host, short}

MCMaskLength ==
    [m \in MCV4 \cup MCV6 \cup {Empty} |->
        CASE m = n1 -> 1 [] m = a2 -> 2 [] m = a6 -> 3 [] OTHER -> 0]
MCNetmaskV4 == [k \in 0 .. 2 |-> CASE k = 0 -> n0 [] k = 1 -> n1 [] k = 2 -> a2]
MCNetmaskV6 == [k \in 0 .. 3 |-> a6]

MCLease == [address |-> a2, prefix |-> 1, gateway |-> a1, ntp |-> a2]

MCLinks == {<<"eth0", "lo">>, <<"lo", "eth0">>, <<"lo">>, <<>>}

MCNetworkDocs ==
    [dhcp : {Absent, TRUE, FALSE}, address : {Absent, a1, a6, BadText},
     mask : {Absent, a1, a2, a6}, gateway : {Absent, a2, a6},
     ntp : {Absent, TRUE, FALSE},
     ntpServer : {Absent, a1, host, short, BadText}]

MCDocuments ==
    [universes : {<<1>>}, usePap : {Absent},
     network : MCNetworkDocs \cup {Absent}]
    \cup [universes : {<<>>, <<2, 1>>, <<1, 1>>, <<0>>, <<64000>>},
          usePap : Optional(BOOLEAN), network : {Absent}]
=============================================================================
