------------------------- MODULE DeviceConfigProofs -------------------------
(* The config file and eth0's settings, for every set of addresses, host     *)
(* names and documents, whatever networkd answers and in whatever order.     *)
EXTENDS DeviceConfig, SequenceTheorems, TLAPS

\* A network object that has been through the schema, or none.
Accepted(n) == n \in Optional(NetworkDoc) /\ (n # Absent => ValidNetwork(n))

\* A file and the object it was written from.
WrittenFrom(f, n) == Accepted(n) /\ f = NetworkFile(NetworkOf(n))

\* What the schema asks of a static network object is what its file needs.
LEMMA AcceptedIsComplete ==
    ASSUME NEW n, Accepted(n)
    PROVE  CompleteFrom(NetworkFile(NetworkOf(n)), n)
<1> DEFINE c == NetworkOf(n)
           f == NetworkFile(c)
<1>1. SUFFICES ASSUME ~f.dhcp
               PROVE  /\ {n.address, n.mask, n.gateway} \subseteq IPs
                      /\ f.address = n.address /\ f.gateway = n.gateway
                      /\ f.prefix = MaskLength[n.mask]
                      /\ \/ f.ntp # Empty /\ f.ntp = n.ntpServer
                         \/ f.ntp = Empty /\ n.ntp = FALSE
                         \/ /\ f.ntp = Empty
                            /\ n.ntpServer \in HostnameFormat \ Hostnames
  BY DEF CompleteFrom
<1>2. ~c.dhcp /\ n # Absent
  BY <1>1 DEF NetworkFile, NetworkOf, DefaultNetwork
<1>3. c = NetworkFromJson(n) /\ ValidNetwork(n) /\ n \in NetworkDoc
  BY <1>2 DEF NetworkOf, Accepted, Optional
<1>4. n.dhcp # TRUE
  <2>1. n.dhcp = TRUE => NetworkFromJson(n).dhcp = TRUE
    BY DEF NetworkFromJson, DefaultNetwork
  <2>2. QED
    BY <1>2, <1>3, <2>1
<1>5. ASSUME NEW g \in {"address", "mask", "gateway"}
      PROVE  n[g] # Absent /\ n[g] \in IPs
  BY <1>3, <1>4, <1>5 DEF ValidNetwork, Required, Optional
<1>6. /\ c.address = n.address /\ c.mask = n.mask /\ c.gateway = n.gateway
      /\ {n.address, n.mask, n.gateway} \subseteq IPs
  BY <1>3, <1>5 DEF NetworkFromJson, FromString
<1>7. /\ f.address = c.address /\ f.gateway = c.gateway
      /\ f.prefix = MaskLength[c.mask] /\ f.ntp = ToText(c.ntpServer)
  BY <1>2 DEF NetworkFile
<1>8. c.ntpServer = SetValue(Unset, n.ntpServer)
  BY <1>3 DEF NetworkFromJson
<1>9. CASE n.ntpServer \in IPs \cup Hostnames
  <2>1. c.ntpServer = n.ntpServer
    BY <1>8, <1>9 DEF SetValue
  <2>2. f.ntp = n.ntpServer /\ f.ntp # Empty
    BY <1>7, <1>9, <2>1, DeviceAssumption DEF ToText
  <2>3. QED
    BY <1>6, <1>7, <2>2
<1>10. CASE n.ntpServer \notin IPs \cup Hostnames
  <2>1. f.ntp = Empty
    BY <1>7, <1>8, <1>10 DEF SetValue, ToText
  <2>2. n.ntp = FALSE \/ n.ntpServer # Absent
    BY <1>3, <1>4 DEF ValidNetwork, Required
  <2>3. n.ntp = FALSE \/ n.ntpServer \in HostnameFormat \ Hostnames
    BY <1>3, <1>10, <2>2 DEF ValidNetwork, OneOf
  <2>4. QED
    BY <1>6, <1>7, <2>1, <2>3
<1>11. QED
  BY <1>9, <1>10

-----------------------------------------------------------------------------
(***************************************************************************)
(* What comes back: types, readFromSystem after writeToSystem, and loading *)
(* after saving.                                                           *)
(***************************************************************************)

\* A time server the schema would take again, or none.
ServerOK(x) ==
    \/ x \in {Empty, Unset}
    \/ x \in IPs \cup Hostnames /\ OneOf(x \in IPs, x \in HostnameFormat)

ConfigType == [universes : Seq(1 .. MaxUniverse), usePap : BOOLEAN,
               network : Network]

ConfigOK(c) == c \in ConfigType /\ ValidUniverses(c.universes)

FileOK(f) ==
    /\ f \in NetFile /\ ServerOK(f.ntp)
    /\ IF f.dhcp THEN f.address = Empty ELSE ~f.useNtp

\* networkd describes eth0 by the file it was given.
Describes(l, f) ==
    IF f = Nothing THEN l = Unconfigured
    ELSE FileOK(f) /\ \E leased \in BOOLEAN : l = Applying(f, leased)

\* The config, the network file and the file networkd runs all come from
\* documents the schema accepted, and eth0 is described by the last of them.
\* The time server of a static config has been through the schema wherever the
\* config is now: loaded, in the network file, applied, read back or saved.  A
\* DHCP server's choice need not have been.
IndInv ==
    /\ document \in Document \cup {Nothing}
    /\ loaded \in Document \cup {Nothing}
    /\ config # Nothing =>
          /\ loaded \in Document /\ ValidDocument(loaded)
          /\ config = FromJson(loaded)
    /\ netFile # Nothing \/ written # Nothing => WrittenFrom(netFile, written)
    /\ applied # Nothing \/ taken # Nothing => WrittenFrom(applied, taken)
    /\ reload \in BOOLEAN /\ links \in Links
    /\ Describes(link, applied)
    /\ seen # Nothing =>
          seen \in Network /\ (~seen.dhcp => ServerOK(seen.ntpServer))
    /\ read # Nothing =>
          /\ read.taken # Nothing =>
                /\ Accepted(read.taken)
                /\ Describes(read.link, NetworkFile(NetworkOf(read.taken)))
          /\ seen = IF FoundEth0(read.links) THEN ReadNetwork(read.link)
                    ELSE DefaultNetwork
    /\ saved # Nothing =>
          /\ document = ToJson(saved) /\ ConfigOK(saved)
          /\ ~saved.network.dhcp => ServerOK(saved.network.ntpServer)

LEMMA UniversesTyped ==
    ASSUME NEW us \in Seq(Nat), ValidUniverses(us)
    PROVE  us \in Seq(1 .. MaxUniverse)
<1>1. \A i \in 1 .. Len(us) : us[i] \in 1 .. MaxUniverse
  BY DEF ValidUniverses
<1>2. us = [i \in 1 .. Len(us) |-> us[i]] /\ Len(us) \in Nat
  OBVIOUS
<1>3. us \in [1 .. Len(us) -> 1 .. MaxUniverse]
  BY <1>1, <1>2
<1>4. \A S : \A n \in Nat : [1 .. n -> S] \subseteq Seq(S)
  BY SeqDef
<1>5. QED
  BY <1>2, <1>3, <1>4

LEMMA NetworkLoaded ==
    ASSUME NEW n \in NetworkDoc, ValidNetwork(n)
    PROVE  /\ NetworkFromJson(n) \in Network
           /\ ServerOK(NetworkFromJson(n).ntpServer)
<1> DEFINE m == NetworkFromJson(n)
<1>1. m.dhcp \in BOOLEAN /\ m.ntp \in BOOLEAN
  BY DEF NetworkFromJson, NetworkDoc, Optional, DefaultNetwork
<1>2. \A t : FromString(t) \in IPs \cup {Empty}
  BY DEF FromString
<1>3. /\ m.address \in IPs \cup {Empty} /\ m.mask \in IPs \cup {Empty}
      /\ m.gateway \in IPs \cup {Empty}
  BY <1>2 DEF NetworkFromJson
<1>4. m.ntpServer = SetValue(Unset, n.ntpServer)
  BY DEF NetworkFromJson
<1>5. m.ntpServer \in IPs \cup Hostnames \cup {Unset} /\ ServerOK(m.ntpServer)
  <2>1. CASE n.ntpServer \in IPs \cup Hostnames
    <3>1. n.ntpServer # Absent
      BY <2>1, DeviceAssumption
    <3>2. OneOf(n.ntpServer \in IPs, n.ntpServer \in HostnameFormat)
      BY <3>1 DEF ValidNetwork
    <3>3. m.ntpServer = n.ntpServer
      BY <1>4, <2>1 DEF SetValue
    <3> HIDE DEF m
    <3>4. QED
      BY <2>1, <3>2, <3>3 DEF ServerOK
  <2>2. CASE n.ntpServer \notin IPs \cup Hostnames
    BY <1>4, <2>2 DEF SetValue, ServerOK
  <2>3. QED
    BY <2>1, <2>2
<1>6. m \in Network
  BY <1>1, <1>3, <1>5 DEF NetworkFromJson, Network
<1>7. QED
  BY <1>5, <1>6

LEMMA NetworkAccepted ==
    ASSUME NEW n, Accepted(n)
    PROVE  NetworkOf(n) \in Network /\ ServerOK(NetworkOf(n).ntpServer)
<1>1. CASE n = Absent
  <2>1. NetworkOf(n) = DefaultNetwork
    BY <1>1 DEF NetworkOf
  <2>2. QED
    BY <2>1 DEF DefaultNetwork, Network, ServerOK
<1>2. CASE n # Absent
  <2>1. NetworkOf(n) = NetworkFromJson(n)
    BY <1>2 DEF NetworkOf
  <2>2. n \in NetworkDoc /\ ValidNetwork(n)
    BY <1>2 DEF Accepted, Optional
  <2>3. QED
    BY <2>1, <2>2, NetworkLoaded
<1>3. QED
  BY <1>1, <1>2

\* A document the schema accepts is a Config.
LEMMA Loaded ==
    ASSUME NEW d \in Document, ValidDocument(d)
    PROVE  /\ Accepted(d.network) /\ FromJson(d).network = NetworkOf(d.network)
           /\ ConfigOK(FromJson(d))
           /\ ServerOK(FromJson(d).network.ntpServer)
<1> DEFINE n == FromJson(d).network
<1>1. ValidUniverses(d.universes) /\ d.universes \in Seq(1 .. MaxUniverse)
  BY UniversesTyped DEF ValidDocument, Document
<1>2. Accepted(d.network)
  BY DEF Accepted, Document, ValidDocument
<1>3. n = NetworkOf(d.network)
  BY DEF FromJson
<1>4. n \in Network /\ ServerOK(n.ntpServer)
  BY <1>2, <1>3, NetworkAccepted
<1>5. FromJson(d).universes = d.universes /\ FromJson(d).usePap \in BOOLEAN
  BY DEF FromJson
<1>6. FromJson(d) \in ConfigType
  BY <1>1, <1>4, <1>5 DEF FromJson, ConfigType
<1>7. QED
  BY <1>1, <1>2, <1>3, <1>4, <1>5, <1>6 DEF ConfigOK

LEMMA NetworkSaved ==
    ASSUME NEW n \in Network
    PROVE  /\ NetworkToJson(n) \in NetworkDoc
           /\ NetworkToJson(n) =
                 [dhcp |-> n.dhcp, address |-> n.address, mask |-> n.mask,
                  gateway |-> n.gateway, ntp |-> n.ntp,
                  ntpServer |-> ToText(n.ntpServer)]
<1>1. NetworkToJson(n) =
         [dhcp |-> n.dhcp, address |-> n.address, mask |-> n.mask,
          gateway |-> n.gateway, ntp |-> n.ntp,
          ntpServer |-> ToText(n.ntpServer)]
  BY DEF NetworkToJson, Network
<1>2. ToText(n.ntpServer) \in IPs \cup Hostnames \cup {Empty}
  BY DEF ToText, Network
<1>3. QED
  BY <1>1, <1>2 DEF NetworkDoc, Network, Optional, Text

LEMMA Saved ==
    ASSUME NEW c \in ConfigType
    PROVE  /\ ToJson(c) \in Document
           /\ ToJson(c) = [universes |-> c.universes, usePap |-> c.usePap,
                           network |-> NetworkToJson(c.network)]
<1>1. ToJson(c) = [universes |-> c.universes, usePap |-> c.usePap,
                   network |-> NetworkToJson(c.network)]
  BY DEF ToJson, ConfigType
<1>2. c.universes \in Seq(Nat)
  <2>1. c.universes \in Seq(1 .. MaxUniverse) /\ 1 .. MaxUniverse \subseteq Nat
    BY DEF ConfigType
  <2>2. QED
    BY <2>1, SeqMonotonic
<1>3. NetworkToJson(c.network) \in NetworkDoc /\ c.usePap \in BOOLEAN
  BY NetworkSaved DEF ConfigType
<1>4. QED
  BY <1>1, <1>2, <1>3 DEF Document, Optional

\* What saveToFile writes of a complete static config is valid, and loads as
\* the config that was saved.
LEMMA Reloads ==
    ASSUME NEW c, ConfigOK(c), ServerOK(c.network.ntpServer), ~c.network.dhcp,
           {Empty, Unset} \cap {c.network.address, c.network.mask,
                                c.network.gateway, c.network.ntpServer} = {}
    PROVE  ValidDocument(ToJson(c)) /\ FromJson(ToJson(c)) = c
<1> DEFINE n == c.network
           d == NetworkToJson(n)
<1>1. /\ c \in ConfigType /\ n \in Network /\ n.dhcp = FALSE
      /\ ValidUniverses(c.universes)
  BY DEF ConfigOK, ConfigType, Network
<1>2. ToText(n.ntpServer) = n.ntpServer
  BY DEF ToText
<1>3. /\ ToJson(c).universes = c.universes /\ ToJson(c).usePap = c.usePap
      /\ ToJson(c).network = d
  BY <1>1, Saved
<1>4. /\ d \in NetworkDoc
      /\ d.dhcp = FALSE /\ d.ntp = n.ntp /\ d.address = n.address
      /\ d.mask = n.mask /\ d.gateway = n.gateway /\ d.ntpServer = n.ntpServer
  BY <1>1, <1>2, NetworkSaved
<1>5. /\ n.address \in IPs /\ n.mask \in IPs /\ n.gateway \in IPs
      /\ n.ntpServer \in IPs \cup Hostnames
      /\ OneOf(n.ntpServer \in IPs, n.ntpServer \in HostnameFormat)
  BY <1>1 DEF Network, ServerOK
<1>6. d # Absent /\ Absent \notin IPs \cup Hostnames /\ Absent \notin BOOLEAN
  BY <1>4, DeviceAssumption
<1> HIDE DEF d
<1>7. ValidNetwork(d)
  <2>1. \A f \in {"address", "mask", "gateway"} : d[f] \in IPs
    BY <1>4, <1>5
  <2>2. Required(d) \subseteq {"address", "mask", "gateway", "ntpServer"}
    BY DEF Required
  <2>3. \A f \in Required(d) : d[f] # Absent
    BY <1>4, <1>5, <1>6, <2>1, <2>2
  <2>4. QED
    BY <1>4, <1>5, <2>1, <2>3 DEF ValidNetwork, Optional
<1>8. NetworkOf(d) = n
  <2>1. n = [dhcp |-> n.dhcp, address |-> n.address, mask |-> n.mask,
             gateway |-> n.gateway, ntp |-> n.ntp, ntpServer |-> n.ntpServer]
    BY <1>1 DEF Network
  <2>2. n.ntp # Absent
    BY <1>1, <1>6 DEF Network
  <2>3. /\ FromString(n.address) = n.address /\ FromString(n.mask) = n.mask
        /\ FromString(n.gateway) = n.gateway
        /\ SetValue(Unset, n.ntpServer) = n.ntpServer
    BY <1>5 DEF FromString, SetValue
  <2>4. NetworkFromJson(d) =
           [dhcp |-> n.dhcp, address |-> n.address, mask |-> n.mask,
            gateway |-> n.gateway, ntp |-> n.ntp, ntpServer |-> n.ntpServer]
    BY <1>1, <1>4, <1>5, <1>6, <2>2, <2>3 DEF NetworkFromJson
  <2>5. NetworkOf(d) = NetworkFromJson(d)
    BY <1>6 DEF NetworkOf
  <2>6. QED
    BY <2>1, <2>4, <2>5
<1>9. ValidDocument(ToJson(c))
  BY <1>1, <1>3, <1>7 DEF ValidDocument
<1>10. FromJson(ToJson(c)) = c
  <2>1. c = [universes |-> c.universes, usePap |-> c.usePap, network |-> n]
        /\ c.usePap \in BOOLEAN
    BY <1>1 DEF ConfigType
  <2>2. (c.usePap = TRUE) = c.usePap
    BY <2>1
  <2>3. QED
    BY <1>3, <1>6, <1>8, <2>1, <2>2 DEF FromJson
<1>11. QED
  BY <1>9, <1>10

LEMMA FileWritten ==
    ASSUME NEW n \in Network, ServerOK(n.ntpServer)
    PROVE  FileOK(NetworkFile(n))
<1>1. /\ ToText(n.ntpServer) \in IPs \cup Hostnames \cup {Empty}
      /\ ServerOK(ToText(n.ntpServer))
  BY DEF ToText, Network, ServerOK
<1>2. /\ MaskLength[n.mask] \in 0 .. V6Bits /\ 0 \in 0 .. V6Bits
  BY MaskAssumption DEF Network
<1>3. NetworkFile(n) \in NetFile
  BY <1>1, <1>2 DEF NetworkFile, NetFile, Network
<1>4. QED
  BY <1>1, <1>3 DEF NetworkFile, FileOK, Network

-----------------------------------------------------------------------------

\* What readFromSystem needs of networkd's answer.
LinkOK(l) ==
    /\ \A i \in DOMAIN l.addresses :
          /\ l.addresses[i].static \in BOOLEAN
          /\ l.addresses[i].address \in V4 =>
                l.addresses[i].prefix \in 0 .. V4Bits
          /\ l.addresses[i].address \in V6 =>
                l.addresses[i].prefix \in 0 .. V6Bits
          /\ l.addresses[i].static => ServerOK(l.ntp)
    /\ l.ntp \in IPs \cup Hostnames \cup {Empty}

LEMMA OneOrTwo ==
    ASSUME NEW x, NEW y
    PROVE  /\ DOMAIN Append(<<>>, y) = 1 .. 1 /\ Append(<<>>, y)[1] = y
           /\ DOMAIN Append(<<x>>, y) = 1 .. 2
           /\ Append(<<x>>, y)[1] = x /\ Append(<<x>>, y)[2] = y
  OBVIOUS

\* The addresses networkd gives eth0: a lease's, the file's or none, and then
\* the link-local one.
LeasedAddress == Described(Lease.address, Lease.prefix, FALSE)
FileAddress(f) == Described(f.address, f.prefix, TRUE)
LinkLocal == Described(CHOOSE x \in V6 : TRUE, V6Bits \div 2, FALSE)

TakesAddress(f) ==
    /\ ~f.dhcp /\ f.address # Empty
    /\ f.prefix <= IF f.address \in V4 THEN V4Bits ELSE V6Bits

LEMMA AppliedAddresses ==
    ASSUME NEW f, NEW leased \in BOOLEAN
    PROVE  /\ f.dhcp /\ leased => Applying(f, leased).addresses
                                     = Append(<<LeasedAddress>>, LinkLocal)
           /\ TakesAddress(f) => Applying(f, leased).addresses
                                     = Append(<<FileAddress(f)>>, LinkLocal)
           /\ ~(f.dhcp /\ leased) /\ ~TakesAddress(f) =>
                 Applying(f, leased).addresses = Append(<<>>, LinkLocal)
<1>1. CASE f.dhcp /\ leased
  BY <1>1 DEF Applying, TakesAddress, LeasedAddress, LinkLocal
<1>2. CASE TakesAddress(f)
  BY <1>2 DEF Applying, TakesAddress, FileAddress, LinkLocal
<1>3. CASE ~(f.dhcp /\ leased) /\ ~TakesAddress(f)
  BY <1>3 DEF Applying, TakesAddress, LinkLocal
<1>4. QED
  BY <1>1, <1>2, <1>3 DEF TakesAddress

LEMMA AnyAddress ==
    ASSUME NEW f, NEW leased \in BOOLEAN,
           NEW i \in DOMAIN Applying(f, leased).addresses
    PROVE  \/ Applying(f, leased).addresses[i] \in {LinkLocal, LeasedAddress}
           \/ /\ TakesAddress(f)
              /\ Applying(f, leased).addresses[i] = FileAddress(f)
<1> DEFINE as == Applying(f, leased).addresses
<1>1. CASE f.dhcp /\ leased
  <2>1. as = Append(<<LeasedAddress>>, LinkLocal)
    BY <1>1, AppliedAddresses
  <2> HIDE DEF as
  <2>2. i \in 1 .. 2 /\ as[1] = LeasedAddress /\ as[2] = LinkLocal
    BY <2>1, OneOrTwo DEF as
  <2>3. i = 1 \/ i = 2
    BY <2>2
  <2>4. QED
    BY <2>2, <2>3 DEF as
<1>2. CASE TakesAddress(f)
  <2>1. as = Append(<<FileAddress(f)>>, LinkLocal)
    BY <1>2, AppliedAddresses
  <2> HIDE DEF as
  <2>2. i \in 1 .. 2 /\ as[1] = FileAddress(f) /\ as[2] = LinkLocal
    BY <2>1, OneOrTwo DEF as
  <2>3. i = 1 \/ i = 2
    BY <2>2
  <2>4. QED
    BY <1>2, <2>2, <2>3 DEF as
<1>3. CASE ~(f.dhcp /\ leased) /\ ~TakesAddress(f)
  <2>1. as = Append(<<>>, LinkLocal)
    BY <1>3, AppliedAddresses
  <2> HIDE DEF as
  <2>2. i \in 1 .. 1 /\ as[1] = LinkLocal
    BY <2>1, OneOrTwo DEF as
  <2>3. i = 1
    BY <2>2
  <2>4. QED
    BY <2>2, <2>3 DEF as
<1>4. QED
  BY <1>1, <1>2, <1>3

LEMMA AppliedServer ==
    ASSUME NEW f, FileOK(f), NEW leased \in BOOLEAN
    PROVE  /\ Applying(f, leased).ntp \in IPs \cup Hostnames \cup {Empty}
           /\ ~f.dhcp => Applying(f, leased).ntp = f.ntp
<1> DEFINE ntp == CASE f.ntp # Empty -> f.ntp
                    [] f.ntp = Empty /\ f.useNtp /\ leased -> Lease.ntp
                    [] OTHER -> Empty
<1>1. Applying(f, leased).ntp = ntp
  BY DEF Applying
<1>2. f.ntp \in IPs \cup Hostnames \cup {Empty} /\ (~f.dhcp => ~f.useNtp)
  BY DEF FileOK, NetFile
<1>3. Lease.ntp \in IPs \cup {Empty}
  BY DeviceAssumption
<1>4. QED
  BY <1>1, <1>2, <1>3

LEMMA DescribedIsOK ==
    ASSUME NEW l, NEW f, Describes(l, f)
    PROVE  LinkOK(l)
<1>1. CASE f = Nothing
  <2>1. l = Unconfigured
    BY <1>1 DEF Describes
  <2>2. QED
    BY <2>1 DEF Unconfigured, LinkOK
<1>2. CASE f # Nothing
  <2>1. PICK leased \in BOOLEAN : l = Applying(f, leased)
    BY <1>2 DEF Describes
  <2>2. FileOK(f) /\ f.dhcp \in BOOLEAN /\ f.prefix \in 0 .. V6Bits
    BY <1>2 DEF Describes, FileOK, NetFile
  <2>3. /\ Lease.address \in V4 /\ Lease.prefix \in 0 .. V4Bits
        /\ V4 \cap V6 = {}
    BY DeviceAssumption
  <2>4. /\ l.ntp \in IPs \cup Hostnames \cup {Empty}
        /\ ~f.dhcp => ServerOK(l.ntp)
    BY <2>1, <2>2, AppliedServer DEF FileOK
  <2>5. ASSUME NEW i \in DOMAIN l.addresses
        PROVE  /\ l.addresses[i].static \in BOOLEAN
               /\ l.addresses[i].address \in V4 =>
                     l.addresses[i].prefix \in 0 .. V4Bits
               /\ l.addresses[i].address \in V6 =>
                     l.addresses[i].prefix \in 0 .. V6Bits
               /\ l.addresses[i].static => ~f.dhcp
    <3> DEFINE a == l.addresses[i]
    <3>1. CASE a = LinkLocal
      <4>1. NetmaskV6[0] \in V6 /\ V6Bits \in Nat
        BY MaskAssumption
      <4>2. (CHOOSE x \in V6 : TRUE) \in V6 /\ V6Bits \div 2 \in 0 .. V6Bits
        BY <4>1
      <4>3. a.address \in V6 /\ a.prefix \in 0 .. V6Bits /\ a.static = FALSE
        BY <3>1, <4>2 DEF LinkLocal, Described
      <4>4. QED
        BY <2>3, <4>3
    <3>2. CASE a = LeasedAddress
      BY <2>3, <3>2 DEF LeasedAddress, Described
    <3>3. CASE TakesAddress(f) /\ a = FileAddress(f)
      BY <2>2, <2>3, <3>3, MaskAssumption
      DEF FileAddress, Described, TakesAddress
    <3>4. \/ a \in {LinkLocal, LeasedAddress}
          \/ TakesAddress(f) /\ a = FileAddress(f)
      BY <2>1, AnyAddress
    <3>5. QED
      BY <3>1, <3>2, <3>3, <3>4
  <2>6. QED
    BY <2>4, <2>5 DEF LinkOK
<1>3. QED
  BY <1>1, <1>2

LEMMA PreferredFacts ==
    ASSUME NEW l, NEW x \in Preferred(l)
    PROVE  \E i \in DOMAIN l.addresses :
              x = l.addresses[i] /\ x.address \in IPs
  BY DEF Preferred, FirstOf, IPs

\* readFromSystem yields a NetworkConfig, whose time server is one the schema
\* takes if DHCP is off.
LEMMA ReadTyped ==
    ASSUME NEW l, LinkOK(l)
    PROVE  /\ ReadNetwork(l) \in Network
           /\ ~ReadNetwork(l).dhcp => ServerOK(ReadNetwork(l).ntpServer)
<1> DEFINE none == Preferred(l) = {}
           found == CHOOSE x \in Preferred(l) : TRUE
           n == ReadNetwork(l)
<1>1. ASSUME ~none
      PROVE  /\ found.static \in BOOLEAN
             /\ Netmask(found.address, found.prefix) \in IPs
             /\ found.static => ServerOK(l.ntp)
  <2>1. found \in Preferred(l)
    BY <1>1
  <2> HIDE DEF found
  <2>2. PICK i \in DOMAIN l.addresses :
           found = l.addresses[i] /\ found.address \in IPs
    BY <2>1, PreferredFacts
  <2>3. CASE found.address \in V4
    BY <2>2, <2>3, MaskAssumption DEF LinkOK, Netmask, IPs
  <2>4. CASE found.address \in V6 \ V4
    BY <2>2, <2>4, MaskAssumption DEF LinkOK, Netmask, IPs
  <2>5. QED
    BY <2>2, <2>3, <2>4 DEF LinkOK, IPs
<1>2. \A a : FromNetworkd(a) \in V4 \cup {Empty}
  BY DEF FromNetworkd
<1>3. \A S : (IF S \cap V4 = {} THEN Empty ELSE CHOOSE g \in S \cap V4 : TRUE)
                \in V4 \cup {Empty}
  OBVIOUS
<1>4. n.address \in IPs \cup {Empty} /\ n.gateway \in IPs \cup {Empty}
  BY <1>2, <1>3 DEF ReadNetwork, IPs
<1>5. n.dhcp \in BOOLEAN /\ n.mask \in IPs \cup {Empty} /\ n.ntp \in BOOLEAN
      /\ (~n.dhcp => ServerOK(l.ntp))
  BY <1>1 DEF ReadNetwork
<1>6. /\ n.ntpServer \in IPs \cup Hostnames \cup {Empty, Unset}
      /\ n.ntpServer \in {l.ntp, Empty, Unset}
  BY DEF ReadNetwork, SetValue, FromNetworkd, IPs
<1>7. n \in Network
  BY <1>4, <1>5, <1>6 DEF ReadNetwork, Network
<1>8. ~n.dhcp => ServerOK(n.ntpServer)
  BY <1>5, <1>6 DEF ServerOK
<1>9. QED
  BY <1>7, <1>8

\* A static IPv4 file is read back as it was written, but for the mask, which
\* is made of its length.
LEMMA ReadsBack ==
    ASSUME NEW f, FileOK(f), NEW leased \in BOOLEAN,
           {f.address, f.gateway} \subseteq V4, f.prefix \in 0 .. V4Bits
    PROVE  LET n == ReadNetwork(Applying(f, leased))
           IN  /\ ~n.dhcp
               /\ n.address = f.address /\ n.mask = NetmaskV4[f.prefix]
               /\ n.gateway = f.gateway
               /\ f.ntp \in V4 \cup Hostnames => n.ntpServer = f.ntp
<1> DEFINE l == Applying(f, leased)
           own == Described(f.address, f.prefix, TRUE)
           n == ReadNetwork(l)
<1>1. ~f.dhcp /\ Empty \notin IPs \cup Hostnames /\ IPs \cap Hostnames = {}
  BY DeviceAssumption DEF FileOK, IPs
<1>2. f.address # Empty /\ f.gateway # Empty
  BY <1>1 DEF IPs
<1>3. DOMAIN l.addresses = 1 .. 2 /\ l.addresses[1] = own
  <2>1. TakesAddress(f)
    BY <1>1, <1>2, MaskAssumption DEF TakesAddress
  <2>2. l.addresses = Append(<<own>>, LinkLocal)
    BY <2>1, AppliedAddresses DEF FileAddress
  <2> HIDE DEF l, own
  <2>3. QED
    BY <2>2, OneOrTwo
<1>4. own.address = f.address /\ own.prefix = f.prefix /\ own.static = TRUE
  BY DEF Described
<1>5. l.gateways = {f.gateway}
  BY <1>1, <1>2 DEF Applying
<1>6. l.ntp = f.ntp
  BY <1>1, AppliedServer
<1> HIDE DEF l, own
<1>7. Preferred(l) = {own}
  <2>1. own \in FirstOf(l, V4)
    BY <1>3, <1>4 DEF FirstOf
  <2>2. ASSUME NEW x \in FirstOf(l, V4)
        PROVE  x = own
    <3>1. PICK i \in DOMAIN l.addresses :
             /\ x = l.addresses[i]
             /\ \A j \in 1 .. i - 1 : l.addresses[j].address \notin V4
      BY <2>2 DEF FirstOf
    <3>2. i = 1
      BY <1>3, <1>4, <3>1
    <3>3. QED
      BY <1>3, <3>1, <3>2
  <2>3. QED
    BY <2>1, <2>2 DEF Preferred
<1>8. Preferred(l) # {} /\ (CHOOSE x \in Preferred(l) : TRUE) = own
  BY <1>7
<1>9. ~n.dhcp /\ n.address = f.address /\ n.mask = NetmaskV4[f.prefix]
  BY <1>4, <1>8 DEF ReadNetwork, FromNetworkd, Netmask
<1>10. n.gateway = f.gateway
  <2>1. {f.gateway} \cap V4 = {f.gateway}
        /\ (CHOOSE g \in {f.gateway} : TRUE) = f.gateway
    OBVIOUS
  <2>2. FromNetworkd(own.address) # Empty
    BY <1>2, <1>4 DEF FromNetworkd
  <2>3. QED
    BY <1>5, <1>8, <2>1, <2>2 DEF ReadNetwork
<1>11. f.ntp \in V4 \cup Hostnames => n.ntpServer = f.ntp
  BY <1>1, <1>6 DEF ReadNetwork, SetValue, FromNetworkd, IPs
<1>12. QED
  BY <1>9, <1>10, <1>11 DEF l

-----------------------------------------------------------------------------

LEMMA InitInv == Init => IndInv
  BY DeviceAssumption DEF Init, IndInv, Describes

\* The config at hand comes from a document that the schema accepted.
LEMMA ConfigIsOK ==
    ASSUME IndInv, config # Nothing
    PROVE  /\ ConfigOK(config) /\ ServerOK(config.network.ntpServer)
           /\ Accepted(loaded.network)
           /\ config.network = NetworkOf(loaded.network)
<1>1. /\ loaded \in Document /\ ValidDocument(loaded)
      /\ config = FromJson(loaded)
  BY DEF IndInv
<1>2. QED
  BY <1>1, Loaded

\* A file written from an accepted object is one that networkd takes.
LEMMA WrittenIsOK ==
    ASSUME NEW f, NEW n, WrittenFrom(f, n)
    PROVE  f # Nothing /\ FileOK(f)
<1>1. NetworkOf(n) \in Network /\ ServerOK(NetworkOf(n).ntpServer)
  BY NetworkAccepted DEF WrittenFrom
<1>2. FileOK(NetworkFile(NetworkOf(n)))
  BY <1>1, FileWritten
<1>3. QED
  BY <1>2, DeviceAssumption DEF WrittenFrom, FileOK

\* What can be saved: the config at hand, with the network settings that were
\* read or without them.
LEMMA SaveableIsOK ==
    ASSUME IndInv, NEW c \in Saveable
    PROVE  /\ ConfigOK(c)
           /\ ~c.network.dhcp => ServerOK(c.network.ntpServer)
<1>1. /\ config # Nothing /\ ConfigOK(config)
      /\ ServerOK(config.network.ntpServer)
  BY ConfigIsOK DEF Saveable
<1>2. CASE c = config
  BY <1>1, <1>2
<1>3. CASE seen # Nothing /\ c = [config EXCEPT !.network = seen]
  <2>1. seen \in Network /\ (~seen.dhcp => ServerOK(seen.ntpServer))
    BY <1>3 DEF IndInv
  <2>2. config \in ConfigType /\ ValidUniverses(config.universes)
    BY <1>1 DEF ConfigOK
  <2>3. /\ c = [universes |-> config.universes, usePap |-> config.usePap,
                network |-> seen]
    BY <1>3, <2>2 DEF ConfigType
  <2>4. c \in ConfigType
    BY <2>1, <2>2, <2>3 DEF ConfigType
  <2>5. c.universes = config.universes /\ c.network = seen
    BY <2>3
  <2>6. QED
    BY <2>1, <2>2, <2>4, <2>5 DEF ConfigOK
<1>4. QED
  BY <1>1, <1>2, <1>3 DEF Saveable

LEMMA NextInv == IndInv /\ [Next]_vars => IndInv'
<1> SUFFICES ASSUME IndInv, [Next]_vars
             PROVE  IndInv'
  OBVIOUS
<1>1. ASSUME NEW installed \in BOOLEAN, LoadFromFile(installed)
      PROVE  IndInv'
  <2>1. /\ loaded' \in Document \cup {Nothing}
        /\ config' # Nothing =>
              /\ loaded' \in Document /\ ValidDocument(loaded')
              /\ config' = FromJson(loaded')
    BY <1>1 DEF LoadFromFile, IndInv
  <2>2. UNCHANGED <<files, system, networkd, seen, read>>
    BY <1>1 DEF LoadFromFile
  <2>3. QED
    BY <2>1, <2>2 DEF IndInv, files, system, networkd
<1>2. ASSUME NEW c \in Saveable, SaveToFile(c)
      PROVE  IndInv'
  <2>1. ConfigOK(c) /\ (~c.network.dhcp => ServerOK(c.network.ntpServer))
    BY SaveableIsOK
  <2>2. document' = ToJson(c) /\ saved' = c /\ ToJson(c) \in Document
    BY <1>2, <2>1, Saved DEF SaveToFile, ConfigOK
  <2>3. UNCHANGED <<program, system, networkd, seen, read>>
    BY <1>2 DEF SaveToFile
  <2>4. QED
    BY <2>1, <2>2, <2>3 DEF IndInv, program, system, networkd
<1>3. ASSUME NEW c \in Saveable, SaveTruncated(c)
      PROVE  IndInv'
  BY <1>3 DEF SaveTruncated, IndInv, program, system, networkd
<1>4. ASSUME NEW opens \in BOOLEAN, NEW told \in BOOLEAN,
             WriteToSystem(opens, told)
      PROVE  IndInv'
  <2>1. WrittenFrom(NetworkFile(config.network), loaded.network)
    BY <1>4, ConfigIsOK DEF WriteToSystem, WrittenFrom
  <2>2. netFile' # Nothing \/ written' # Nothing =>
           WrittenFrom(netFile', written')
    BY <1>4, <2>1 DEF WriteToSystem, IndInv
  <2>3. /\ loaded' \in Document \cup {Nothing}
        /\ config' # Nothing =>
              /\ loaded' \in Document /\ ValidDocument(loaded')
              /\ config' = FromJson(loaded')
    BY <1>4 DEF WriteToSystem, IndInv, program
  <2>4. reload' \in BOOLEAN /\ UNCHANGED <<files, networkd, seen, read>>
    BY <1>4 DEF WriteToSystem, IndInv
  <2>5. QED
    BY <2>2, <2>3, <2>4 DEF IndInv, files, networkd
<1>5. CASE WriteToSystemThrows
  BY <1>5 DEF WriteToSystemThrows, IndInv, files, system, networkd
<1>6. ASSUME NEW leased \in BOOLEAN, Reload(leased)
      PROVE  IndInv'
  <2>1. netFile # Nothing => FileOK(netFile)
    BY WrittenIsOK DEF IndInv
  <2>2. Describes(link', applied')
    BY <1>6, <2>1 DEF Reload, Describes
  <2>3. applied' # Nothing \/ taken' # Nothing => WrittenFrom(applied', taken')
    BY <1>6 DEF Reload, IndInv
  <2>4. reload' \in BOOLEAN
        /\ UNCHANGED <<files, program, netFile, written, links, seen, read>>
    BY <1>6 DEF Reload
  <2>5. QED
    BY <2>2, <2>3, <2>4 DEF IndInv, files, program
<1>7. CASE ReadFromSystem
  <2>1. LinkOK(link) /\ Describes(link, applied)
    BY DescribedIsOK DEF IndInv
  <2>2. seen' \in Network /\ (~seen'.dhcp => ServerOK(seen'.ntpServer))
    <3>1. DefaultNetwork \in Network /\ DefaultNetwork.dhcp
      BY DEF DefaultNetwork, Network
    <3>2. QED
      BY <1>7, <2>1, <3>1, ReadTyped DEF ReadFromSystem
  <2>3. /\ read'.taken # Nothing =>
              /\ Accepted(read'.taken)
              /\ Describes(read'.link, NetworkFile(NetworkOf(read'.taken)))
        /\ seen' = IF FoundEth0(read'.links) THEN ReadNetwork(read'.link)
                   ELSE DefaultNetwork
    BY <1>7, <2>1 DEF ReadFromSystem, IndInv, WrittenFrom
  <2>4. UNCHANGED <<files, program, system, networkd>>
    BY <1>7 DEF ReadFromSystem
  <2>5. QED
    BY <2>2, <2>3, <2>4 DEF IndInv, files, program, system, networkd
<1>8. CASE Reboot
  BY <1>8 DEF Reboot, IndInv, Describes, files
<1>9. CASE UNCHANGED vars
  BY <1>9 DEF IndInv, vars, files, program, system, networkd
<1>10. QED
  BY <1>1, <1>2, <1>3, <1>4, <1>5, <1>6, <1>7, <1>8, <1>9 DEF Next

\* Every variable keeps its type, and a config that was loaded lists distinct
\* universes between 1 and 63999, at least one.
THEOREM TypeCorrect == Spec => []TypeOK
<1>1. IndInv => TypeOK
  <2> SUFFICES ASSUME IndInv
               PROVE  TypeOK
    OBVIOUS
  <2>1. config # Nothing =>
           LET us == config.universes
           IN  /\ us \in Seq(1 .. MaxUniverse) /\ us # <<>>
               /\ \A i, j \in 1 .. Len(us) : i # j => us[i] # us[j]
               /\ config.usePap \in BOOLEAN /\ config.network \in Network
    BY ConfigIsOK DEF ConfigOK, ConfigType, ValidUniverses
  <2>2. /\ {netFile, applied} \subseteq NetFile \cup {Nothing}
        /\ {written, taken} \subseteq Optional(NetworkDoc) \cup {Nothing}
    BY WrittenIsOK DEF IndInv, FileOK, WrittenFrom, Accepted
  <2>3. QED
    BY <2>1, <2>2 DEF IndInv, TypeOK
<1>2. QED
  BY InitInv, NextInv, <1>1, PTL DEF Spec

\* No document, and no order of loading, saving, writing and reloading, leaves
\* eth0 with a static file that lacks or changes an address, a mask, a gateway,
\* or the time server the document names, if AddressOrHostname takes it.
THEOREM StaticFilesComplete == Spec => []StaticIsComplete
<1>1. IndInv => StaticIsComplete
  BY AcceptedIsComplete DEF IndInv, WrittenFrom, StaticIsComplete, CompleteFrom
<1>2. QED
  BY InitInv, NextInv, <1>1, PTL DEF Spec

\* Whatever was written, applied and read in whatever order: where eth0 is the
\* first link, the static IPv4 settings of the document are the ones that
\* readFromSystem gives back, its mask by its length.
THEOREM ReadsBackWritten == Spec => []ReadBack
<1>1. IndInv => ReadBack
  <2> DEFINE n == read.taken
             f == NetworkFile(NetworkOf(n))
  <2> SUFFICES ASSUME IndInv, read # Nothing, n \notin {Nothing, Absent},
                      FoundEth0(read.links), n.dhcp = FALSE,
                      {n.address, n.mask, n.gateway} \subseteq V4
               PROVE  /\ ~seen.dhcp
                      /\ seen.address = n.address /\ seen.gateway = n.gateway
                      /\ MaskLength[seen.mask] = MaskLength[n.mask]
                      /\ Contiguous(n.mask) => seen.mask = n.mask
                      /\ n.ntpServer \in V4 \cup Hostnames =>
                            seen.ntpServer = n.ntpServer
    BY DEF ReadBack
  <2>1. /\ seen = ReadNetwork(read.link)
        /\ Accepted(n) /\ Describes(read.link, f)
    BY DEF IndInv
  <2>2. f # Nothing /\ FileOK(f)
    BY <2>1, WrittenIsOK DEF WrittenFrom
  <2>3. PICK leased \in BOOLEAN : read.link = Applying(f, leased)
    BY <2>1, <2>2 DEF Describes
  <2>4. /\ f.address = n.address /\ f.gateway = n.gateway
        /\ f.prefix = MaskLength[n.mask]
        /\ n.ntpServer \in V4 \cup Hostnames => f.ntp = n.ntpServer
    <3>1. ~f.dhcp
      BY DeviceAssumption DEF NetworkFile, NetworkOf, NetworkFromJson
    <3>2. CompleteFrom(f, n)
      BY <2>1, AcceptedIsComplete
    <3>3. f.ntp = ToText(SetValue(Unset, n.ntpServer))
      BY DEF NetworkFile, NetworkOf, NetworkFromJson
    <3>4. n.ntpServer \in V4 \cup Hostnames => f.ntp = n.ntpServer
      BY <3>3, DeviceAssumption DEF ToText, SetValue, IPs
    <3>5. QED
      BY <2>2, <3>1, <3>2, <3>4 DEF CompleteFrom
  <2>5. f.prefix \in 0 .. V4Bits
    BY <2>4, MaskAssumption DEF IPs
  <2> HIDE DEF f
  <2>6. /\ ~seen.dhcp /\ seen.address = f.address
        /\ seen.mask = NetmaskV4[f.prefix] /\ seen.gateway = f.gateway
        /\ f.ntp \in V4 \cup Hostnames => seen.ntpServer = f.ntp
    BY <2>1, <2>2, <2>3, <2>4, <2>5, ReadsBack
  <2>7. MaskLength[seen.mask] = MaskLength[n.mask]
    BY <2>4, <2>5, <2>6, MaskAssumption
  <2>8. Contiguous(n.mask) => seen.mask = n.mask
    BY <2>4, <2>6, MaskAssumption DEF Contiguous
  <2>9. QED
    BY <2>4, <2>6, <2>7, <2>8
<1>2. QED
  BY InitInv, NextInv, <1>1, PTL DEF Spec

\* A static config with an address, a mask, a gateway and a time server loads
\* as it was saved, be it the one loaded or one with settings read from eth0.
THEOREM SavedReloads == Spec => []SavedStaticReloads
<1>1. IndInv => SavedStaticReloads
  BY Reloads DEF IndInv, SavedStaticReloads
<1>2. QED
  BY InitInv, NextInv, <1>1, PTL DEF Spec
=============================================================================
