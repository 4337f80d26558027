---------------------------- MODULE DeviceConfig ----------------------------
(***************************************************************************)
(* The config file and the device's network settings: Config.cpp with its  *)
(* JSON schema, SystemConfig, NetworkConfig.cpp with its template, and     *)
(* AddressOrHostname.cpp.  The logger loads the file and, on an embedded   *)
(* build, writes eth0's networkd file; a program built on the library      *)
(* reads eth0's settings back and saves a config.  networkd itself is      *)
(* external.  A text stands for the address or the host name it parses to. *)
(***************************************************************************)
EXTENDS Integers, Sequences

CONSTANTS
    V4, V6, Hostnames,  \* texts etcpal, or hostnameRe, accepts
    HostnameFormat,     \* texts the validator's "hostname" format accepts, of
                        \* which hostnameRe need not accept all, nor only those
    BadText,            \* a text that is none of these
    Absent,             \* no member of that name in a JSON object
    Unset,              \* an AddressOrHostname that was never given a value
    Nothing,            \* no file, or no object, yet
    Documents,          \* what a config file may hold at first
    V4Bits, V6Bits,     \* the lengths of addresses: 32 and 128
    MaskLength,         \* etcpal: the ones an address begins with; of none, 0
    NetmaskV4,          \* etcpal: the address of that many ones and then zeros
    NetmaskV6,
    Lease,              \* what a DHCP server offers: [address, prefix, gateway, ntp]
    Links,              \* ListLinks' possible answers: sequences of names
    Debug               \* NDEBUG is not defined

MaxUniverse == 63999

\* The empty text: what an invalid address prints as, and parses from.
Empty == ""

IPs == V4 \cup V6
Optional(S) == S \cup {Absent}

Network == [dhcp : BOOLEAN, address : IPs \cup {Empty}, mask : IPs \cup {Empty},
            gateway : IPs \cup {Empty}, ntp : BOOLEAN,
            ntpServer : IPs \cup Hostnames \cup {Empty, Unset}]

Text == IPs \cup Hostnames \cup HostnameFormat \cup {Empty, BadText}
NetworkDoc == [dhcp : Optional(BOOLEAN), address : Optional(Text),
               mask : Optional(Text), gateway : Optional(Text),
               ntp : Optional(BOOLEAN), ntpServer : Optional(Text)]
Document == [universes : Seq(Nat), usePap : Optional(BOOLEAN),
             network : Optional(NetworkDoc)]

\* A network file; without an address the prefix stands for none.
NetFile == [dhcp : BOOLEAN, ntp : IPs \cup Hostnames \cup {Empty},
            useNtp : BOOLEAN, address : IPs \cup {Empty},
            prefix : 0 .. V6Bits, gateway : IPs \cup {Empty}]

ASSUME DeviceAssumption ==
    /\ V4 \cap V6 = {} /\ IPs \cap Hostnames = {}
    /\ {Absent, Empty, Unset, BadText}
          \cap (IPs \cup Hostnames \cup HostnameFormat) = {}
    /\ Empty \notin {Absent, Unset, BadText} /\ Absent \notin BOOLEAN
    /\ Documents \subseteq Document /\ Absent \notin NetworkDoc
    /\ Nothing \notin NetFile
    /\ Lease \in [address : V4, prefix : 0 .. V4Bits, gateway : V4,
                  ntp : IPs \cup {Empty}]
    /\ Debug \in BOOLEAN

\* A netmask has as many leading ones as it was made of; not every address is
\* the netmask of its leading ones.
ASSUME MaskAssumption ==
    /\ V4Bits \in Nat /\ V6Bits \in Nat /\ V4Bits <= V6Bits
    /\ MaskLength \in [IPs \cup {Empty} -> 0 .. V6Bits]
    /\ \A m \in V4 : MaskLength[m] <= V4Bits
    /\ NetmaskV4 \in [0 .. V4Bits -> V4] /\ NetmaskV6 \in [0 .. V6Bits -> V6]
    /\ \A k \in 0 .. V4Bits : MaskLength[NetmaskV4[k]] = k

VARIABLES
    document,   \* the config file; Nothing when it does not parse
    config,     \* Runner's config_; Nothing before the first load
    netFile,    \* /etc/systemd/network/01-eth0.network
    reload,     \* networkd has a Reload call to answer
    links,      \* what ListLinks answers
    applied,    \* the file networkd runs eth0 by
    link,       \* what Describe answers for eth0
    seen,       \* the NetworkConfig last read from the system
    \* history, for the properties alone
    loaded,     \* the document that config was loaded from
    written,    \* its network object, when netFile was written
    taken,      \* that of the file which networkd runs eth0 by
    read,       \* [taken, link, links] when seen was read
    saved       \* the Config that document was saved from

files == <<document, saved>>
system == <<netFile, reload, written>>
networkd == <<links, applied, link, taken>>
program == <<config, loaded>>
vars == <<files, program, system, networkd, seen, read>>

-----------------------------------------------------------------------------
(***************************************************************************)
(* The schema, and the JSON conversions.                                   *)
(***************************************************************************)

\* A schema without uniqueItems.
ValidUniversesRepeated(us) ==
    us # <<>> /\ \A i \in 1 .. Len(us) : us[i] \in 1 .. MaxUniverse

ValidUniverses(us) ==
    /\ us # <<>>
    /\ \A i \in 1 .. Len(us) : us[i] \in 1 .. MaxUniverse
    /\ \A i, j \in 1 .. Len(us) : us[i] = us[j] => i = j

\* A schema that asks for a server only where the file itself says ntp: true.
RequiredAsWritten(n) ==
    (IF n.dhcp # TRUE THEN {"address", "mask", "gateway"} ELSE {})
    \cup (IF n.dhcp # TRUE /\ n.ntp = TRUE THEN {"ntpServer"} ELSE {})

\* The conditions are on "properties", so an absent dhcp or ntp meets them.
Required(n) ==
    (IF n.dhcp # TRUE THEN {"address", "mask", "gateway"} ELSE {})
    \cup (IF n.dhcp # TRUE /\ n.ntp # FALSE THEN {"ntpServer"} ELSE {})

\* Both alternatives at once are refused as none is.
OneOf(p, q) == p # q

ValidNetwork(n) ==
    /\ \A f \in {"address", "mask", "gateway"} : n[f] \in Optional(IPs)
    /\ n.ntpServer = Absent \/ OneOf(n.ntpServer \in IPs, n.ntpServer \in HostnameFormat)
    /\ \A f \in Required(n) : n[f] # Absent

ValidDocument(d) ==
    /\ ValidUniverses(d.universes)
    /\ d.network # Absent => ValidNetwork(d.network)

FromString(t) == IF t \in IPs THEN t ELSE Empty

\* AddressOrHostname::setValue: a text that is neither changes nothing.
SetValue(old, t) == IF t \in IPs \cup Hostnames THEN t ELSE old

ToText(a) == IF a = Unset THEN Empty ELSE a

DefaultNetwork == [dhcp |-> TRUE, address |-> Empty, mask |-> Empty,
                   gateway |-> Empty, ntp |-> TRUE, ntpServer |-> Unset]

\* Members that are absent leave the fields of a default object; the defaults
\* that the validator fills in are the same.
NetworkFromJson(n) ==
    LET Field(f) == IF n[f] = Absent THEN DefaultNetwork[f] ELSE n[f]
        Address(f) == IF n[f] = Absent THEN Empty ELSE FromString(n[f])
    IN  [dhcp |-> Field("dhcp"), address |-> Address("address"),
         mask |-> Address("mask"), gateway |-> Address("gateway"),
         ntp |-> Field("ntp"), ntpServer |-> SetValue(Unset, n.ntpServer)]

NetworkOf(n) == IF n = Absent THEN DefaultNetwork ELSE NetworkFromJson(n)

FromJson(d) ==
    [universes |-> d.universes,
     usePap |-> d.usePap = TRUE,
     network |-> NetworkOf(d.network)]

\* A conversion that swaps the mask and the gateway.
NetworkToJsonSwapped(n) ==
    [n EXCEPT !.mask = n.gateway, !.gateway = n.mask, !.ntpServer = ToText(@)]

NetworkToJson(n) == [n EXCEPT !.ntpServer = ToText(@)]

ToJson(c) == [c EXCEPT !.network = NetworkToJson(@)]

-----------------------------------------------------------------------------
\* eth0 without a network file.
Unconfigured == [addresses |-> <<>>, gateways |-> {}, ntp |-> Empty]

(***************************************************************************)
(* Loading and saving.                                                     *)
(***************************************************************************)

Init ==
    /\ document \in Documents \cup {Nothing}
    /\ config = Nothing /\ loaded = Nothing
    /\ netFile = Nothing /\ reload = FALSE /\ written = Nothing
    /\ links \in Links
    /\ applied = Nothing /\ taken = Nothing
    /\ link = Unconfigured
    /\ seen = Nothing /\ read = Nothing /\ saved = Nothing

\* A run of the program begins: Config::loadFromFile, or a failure that ends it,
\* be it that the schema file is not installed.
LoadFromFile(installed) ==
    /\ IF document # Nothing /\ installed /\ ValidDocument(document)
       THEN config' = FromJson(document) /\ loaded' = document
       ELSE config' = Nothing /\ loaded' = Nothing
    /\ UNCHANGED <<files, system, networkd, seen, read>>

\* The configs a program can save: the one it loaded, with the network
\* settings it read, if it did.
Saveable == IF config = Nothing THEN {}
            ELSE {config} \cup (IF seen = Nothing THEN {}
                                ELSE {[config EXCEPT !.network = seen]})

\* A debug build throws before the file is opened.
SaveToFile(c) ==
    /\ Debug => ValidDocument(ToJson(c))
    /\ document' = ToJson(c)
    /\ saved' = c
    /\ UNCHANGED <<program, system, networkd, seen, read>>

\* The stream does not throw when the disk is full, nor when the power goes.
SaveTruncated(c) ==
    /\ Debug => ValidDocument(ToJson(c))
    /\ document' = Nothing
    /\ saved' = Nothing
    /\ UNCHANGED <<program, system, networkd, seen, read>>

-----------------------------------------------------------------------------
(***************************************************************************)
(* NetworkConfig::writeToSystem, and networkd.                             *)
(***************************************************************************)

\* The template.  An absent UseNTP is networkd's default, yes.  Of the mask only
\* its length is written.
NetworkFile(n) ==
    [dhcp |-> n.dhcp,
     ntp |-> ToText(n.ntpServer),
     useNtp |-> n.dhcp /\ (n.ntp => ToText(n.ntpServer) = Empty),
     address |-> IF n.dhcp THEN Empty ELSE n.address,
     prefix |-> IF n.dhcp THEN 0 ELSE MaskLength[n.mask],
     gateway |-> IF n.dhcp THEN Empty ELSE n.gateway]

\* Runner::start.  The file is replaced first, or left as it was where it cannot
\* be opened: the stream does not throw.  The bus may then be down, and the
\* exception ends the program (told = FALSE).
WriteToSystem(opens, told) ==
    /\ config # Nothing
    /\ IF opens THEN /\ netFile' = NetworkFile(config.network)
                     /\ written' = loaded.network
                ELSE UNCHANGED <<netFile, written>>
    /\ reload' = (reload \/ told)
    /\ IF told THEN UNCHANGED program ELSE config' = Nothing /\ loaded' = Nothing
    /\ UNCHANGED <<files, networkd, seen, read>>

\* Without the template, or where its directory cannot be made, nothing is
\* written and the exception ends the program.
WriteToSystemThrows ==
    /\ config # Nothing
    /\ config' = Nothing /\ loaded' = Nothing
    /\ UNCHANGED <<files, system, networkd, seen, read>>

\* An address of eth0 as networkd describes it.
Described(a, length, static) == [address |-> a, prefix |-> length, static |-> static]

\* networkd runs eth0 by a file.  A prefix that is longer than its address is
\* refused; an IPv6 link-local address, with a prefix of half its length, comes
\* last, as in the test's answers; leased says that a DHCP server answered.
Applying(f, leased) ==
    LET Fits == f.prefix <= IF f.address \in V4 THEN V4Bits ELSE V6Bits
        linkLocal == CHOOSE x \in V6 : TRUE
        own == CASE f.dhcp /\ leased ->
                        <<Described(Lease.address, Lease.prefix, FALSE)>>
                 [] ~f.dhcp /\ f.address # Empty /\ Fits ->
                        <<Described(f.address, f.prefix, TRUE)>>
                 [] OTHER -> <<>>
    IN  [addresses |-> Append(own, Described(linkLocal, V6Bits \div 2, FALSE)),
         gateways |-> (CASE ~f.dhcp -> {f.gateway}
                         [] f.dhcp /\ leased -> {Lease.gateway}
                         [] OTHER -> {}) \ {Empty},
         ntp |-> CASE f.ntp # Empty -> f.ntp
                   [] f.ntp = Empty /\ f.useNtp /\ leased -> Lease.ntp
                   [] OTHER -> Empty]

\* Reload is answered some time after it was sent.
Reload(leased) ==
    /\ reload
    /\ reload' = FALSE
    /\ applied' = netFile /\ taken' = written
    /\ link' = IF netFile = Nothing THEN Unconfigured
               ELSE Applying(netFile, leased)
    /\ UNCHANGED <<files, program, netFile, written, links, seen, read>>

\* The device starts anew, after a power cut or not.  Its root is an overlay on
\* memory, so the network file is gone; the config file is on the drive.
Reboot ==
    /\ config' = Nothing /\ loaded' = Nothing
    /\ seen' = Nothing /\ read' = Nothing
    /\ netFile' = Nothing /\ reload' = FALSE /\ written' = Nothing
    /\ applied' = Nothing /\ taken' = Nothing /\ link' = Unconfigured
    /\ links' \in Links
    /\ UNCHANGED files

-----------------------------------------------------------------------------
(***************************************************************************)
(* NetworkConfig::readFromSystem.                                          *)
(***************************************************************************)

\* The loop over the links leaves at its first turn, whatever it saw.
FoundEth0(ls) == ls # <<>> /\ Head(ls) = "eth0"

\* ipAddrFromNetworkdJson: both branches test for IPv4.
FromNetworkd(a) == IF a \in V4 THEN a ELSE Empty

\* find_if: the first address of a family, as a set of one or none.
FirstOf(l, family) ==
    {l.addresses[i] : i \in
        {i \in DOMAIN l.addresses :
            /\ l.addresses[i].address \in family
            /\ \A j \in 1 .. i - 1 : l.addresses[j].address \notin family}}

\* The families in the order that the unordered map happens to give them.
PreferredV6(l) ==
    IF FirstOf(l, V6) # {} THEN FirstOf(l, V6) ELSE FirstOf(l, V4)

Preferred(l) ==
    IF FirstOf(l, V4) # {} THEN FirstOf(l, V4) ELSE FirstOf(l, V6)

\* etcpal::IpAddr::Netmask, for the family of an address.
Netmask(a, length) == (IF a \in V4 THEN NetmaskV4 ELSE NetmaskV6)[length]

\* IPv4 before IPv6, and the gateway and prefix of the same family.
ReadNetwork(l) ==
    LET none == Preferred(l) = {}
        found == CHOOSE x \in Preferred(l) : TRUE
        a == IF none THEN Empty ELSE FromNetworkd(found.address)
        routes == IF a = Empty THEN {} ELSE l.gateways \cap V4
    IN  [dhcp |-> none \/ ~found.static,
         address |-> a,
         mask |-> IF none THEN Empty ELSE Netmask(found.address, found.prefix),
         gateway |-> IF routes = {} THEN Empty ELSE CHOOSE g \in routes : TRUE,
         ntp |-> l.ntp # Empty,
         ntpServer |-> CASE l.ntp = Empty -> Unset
                         [] l.ntp \in Hostnames -> SetValue(Unset, l.ntp)
                         [] OTHER -> FromNetworkd(l.ntp)]

ReadFromSystem ==
    /\ seen' = IF FoundEth0(links) THEN ReadNetwork(link) ELSE DefaultNetwork
    /\ read' = [taken |-> taken, link |-> link, links |-> links]
    /\ UNCHANGED <<files, program, system, networkd>>

Next ==
    \/ \E installed \in BOOLEAN : LoadFromFile(installed)
    \/ \E c \in Saveable : SaveToFile(c) \/ SaveTruncated(c)
    \/ \E opens, told \in BOOLEAN : WriteToSystem(opens, told)
    \/ WriteToSystemThrows
    \/ \E leased \in BOOLEAN : Reload(leased)
    \/ ReadFromSystem
    \/ Reboot

Spec == Init /\ [][Next]_vars

-----------------------------------------------------------------------------
(***************************************************************************)
(* Properties.                                                             *)
(***************************************************************************)

\* Every variable keeps its type; in particular a Config that was loaded lists
\* between 1 and 63999 distinct universes, which Runner relies on to give each
\* one its own loggers.
TypeOK ==
    /\ document \in Document \cup {Nothing}
    /\ config # Nothing =>
          LET us == config.universes
          IN  /\ us \in Seq(1 .. MaxUniverse) /\ us # <<>>
              /\ \A i, j \in 1 .. Len(us) : i # j => us[i] # us[j]
              /\ config.usePap \in BOOLEAN /\ config.network \in Network
    /\ loaded \in Document \cup {Nothing}
    /\ {netFile, applied} \subseteq NetFile \cup {Nothing}
    /\ {written, taken} \subseteq Optional(NetworkDoc) \cup {Nothing}
    /\ reload \in BOOLEAN /\ links \in Links
    /\ seen \in Network \cup {Nothing}

\* A file that turns DHCP off has the address, the gateway and the time server
\* of the document's network object that it comes from, and its mask's length.
\* It has no time server only where the object does not want the time set, or
\* names a host that AddressOrHostname does not take though the schema does.
CompleteFrom(f, n) ==
    f # Nothing /\ ~f.dhcp =>
        /\ {n.address, n.mask, n.gateway} \subseteq IPs
        /\ f.address = n.address /\ f.gateway = n.gateway
        /\ f.prefix = MaskLength[n.mask]
        /\ \/ f.ntp # Empty /\ f.ntp = n.ntpServer
           \/ f.ntp = Empty /\ n.ntp = FALSE
           \/ f.ntp = Empty /\ n.ntpServer \in HostnameFormat \ Hostnames

\* Schema, defaults, conversions and template agree on what a static config
\* needs: the file on disk is complete, and so is the older one that networkd
\* may still be running.
StaticIsComplete == CompleteFrom(netFile, written) /\ CompleteFrom(applied, taken)

\* A mask of ones and then zeros.
Contiguous(m) == \E k \in 0 .. V4Bits : m = NetmaskV4[k]

\* Where eth0 is the first link, readFromSystem gives back the static IPv4
\* settings of the config file that writeToSystem wrote and networkd took.  A
\* mask goes through its length: what comes back is a mask of the same length,
\* and the same mask if it was one of ones and then zeros, which the schema
\* does not ask.
ReadBack ==
    read # Nothing =>
        LET n == read.taken
        IN  /\ n \notin {Nothing, Absent} /\ FoundEth0(read.links)
            /\ n.dhcp = FALSE /\ {n.address, n.mask, n.gateway} \subseteq V4
            => /\ ~seen.dhcp
               /\ seen.address = n.address /\ seen.gateway = n.gateway
               /\ MaskLength[seen.mask] = MaskLength[n.mask]
               /\ Contiguous(n.mask) => seen.mask = n.mask
               /\ n.ntpServer \in V4 \cup Hostnames => seen.ntpServer = n.ntpServer

\* A static config with a time server survives saveToFile and loadFromFile.
\* One with DHCP on, or without a server, does not: an empty text is no address.
SavedStaticReloads ==
    /\ saved # Nothing
    /\ LET n == saved.network
       IN  ~n.dhcp /\ {Empty, Unset} \cap {n.address, n.mask, n.gateway, n.ntpServer} = {}
    => ValidDocument(document) /\ FromJson(document) = saved

-----------------------------------------------------------------------------
(***************************************************************************)
(* What a comment and a message of the code say, and the code does not do. *)
(***************************************************************************)

\* NetworkConfig.cpp:54, "Find eth0 object path for later use": eth0's
\* settings are read whenever networkd lists eth0.
Eth0Found ==
    read # Nothing /\ (\E i \in 1 .. Len(read.links) : read.links[i] = "eth0")
        => seen = ReadNetwork(read.link)

\* Runner.cpp:44 reports "NTP: disabled" for a config with ntp off: the file
\* written for it names no time server.
NtpDisabled ==
    written # Nothing /\ ~NetworkOf(written).ntp => netFile.ntp = Empty
=============================================================================
