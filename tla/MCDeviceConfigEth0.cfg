CONSTANTS
    a1 = a1
    a2 = a2
    a6 = a6
    n0 = n0
    n1 = n1
    host = host
    short = short
    BadText = BadText
    Absent = Absent
    Unset = Unset
    Nothing = Nothing
    V4 <- MCV4
    V6 <- MCV6
    Hostnames <- MCHostnames
    HostnameFormat <- MCHostnameFormat
    V4Bits = 2
    V6Bits = 3
    MaskLength <- MCMaskLength
    NetmaskV4 <- MCNetmaskV4
    NetmaskV6 <- MCNetmaskV6
    Lease <- MCLease
    Links <- MCLinks
    Documents <- MCDocuments
    Debug = FALSE
SPECIFICATION Spec
INVARIANTS
    Eth0Found
