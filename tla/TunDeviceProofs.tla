-------------------------- MODULE TunDeviceProofs --------------------------
(***************************************************************************)
(* Proofs about TunDevice, for any number of devices and every order in    *)
(* which the commands of their set-up and of Close can come, and fail:     *)
(* what the program did to the machine's routes and DNS settings is known  *)
(* from the fields of the devices, how far each of them is and which       *)
(* commands failed, unless Close met a reconnection under way.             *)
(***************************************************************************)
EXTENDS TunDevice, TLAPS

(* Close has started, and nothing can change behind its back. *)
Alone == cpc # "idle" /\ ~raced

Steady == {"off", "up", "error"}   \* no command of the device's set-up is under way

(* What is known of a device from how far it is. *)
FieldsFollowSetUp ==
    \A d \in Devs :
        /\ pc[d] \in {"host", "delete", "add"} => gateway[d] # Unset
        /\ gateway[d] # Unset => pc[d] \notin {"off", "error", "gateway"}
        /\ service[d] # Unset => pc[d] \in {"getdns", "setdns", "up"}
        /\ pc[d] \in {"getdns", "setdns"} => service[d] # Unset
        /\ pc[d] = "delete" => os = "darwin"

(* The device in Close is one that was made; if no reconnection was under  *)
(* way it is the last one, and the set-up of all others has ended.         *)
CloseKnowsItsDevice ==
    /\ cpc # "idle" => closing \in Devs
    /\ raced => cpc # "idle"
    /\ Alone => closing = tunDev /\ \A d \in Devs : pc[d] \in Steady

(* The name of the device is taken while there is one.                     *)
LinuxHasOneDevice == os = "linux" => \A d \in Devs : iface[d] = "open" => tunDev = d

(* The server gives its device no routes. *)
ServerSetsNoRoutes ==
    role = "server" => host = initial.host /\ \A d \in Devs : pc[d] \in Steady

(* A gateway is found, and the default route moved, only where the machine *)
(* has a gateway.                                                          *)
MachineRoutesKnown ==
    /\ defaults \ {"vpn"} \subseteq initial.defaults
    /\ os = "linux" => defaults \ {"vpn"} = initial.defaults
    /\ "vpn" \in defaults => initial.defaults = {"gw"}
    /\ \A d \in Devs : gateway[d] # Unset => initial.defaults = {"gw"}

(* What Close has put back when it gets to each of its steps. *)
RoutesInClose ==
    ~raced =>
        /\ cpc = "closed" /\ os = "linux" => "vpn" \notin defaults
        /\ os = "darwin" /\ <<closing, "remove">> \notin failed =>
              /\ cpc = "restore" => defaults = {}
              /\ cpc \in {"host", "iface", "closed"} /\ <<closing, "restore">> \notin failed =>
                    /\ gateway[closing] = "gw" => defaults = {"gw"}
                    /\ gateway[closing] # "gw" => "gw" \notin defaults
        /\ (/\ cpc \in {"iface", "closed"} /\ role = "client"
            /\ <<closing, "unhost">> \notin failed) => host = "none"

(* A service has other servers than at first only if a device set them,    *)
(* and the device that was alone in doing so knows what they were.         *)
OnlyDevice(d) == \A e \in Devs \ {d} : service[e] = Unset

DNSKnown ==
    /\ ~raced => \A s \in Services :
           dns[s] # initial.dns[s] => \E d \in Devs : service[d] = s /\ pc[d] = "up"
    /\ ~raced => \A d \in Devs :
           (/\ service[d] # Unset /\ pc[d] \in {"setdns", "up"}
            /\ <<d, "getdns">> \notin failed /\ OnlyDevice(d)) =>
              savedDNS[d] = initial.dns[service[d]]
    /\ (/\ Alone /\ OnlyDevice(closing)
        /\ <<closing, "getdns">> \notin failed /\ <<closing, "dns">> \notin failed) =>
           dns = initial.dns

(* A device that has come past AddHostRoute.                               *)
Redirects(d) == gateway[d] # Unset /\ pc[d] \in {"service", "getdns", "setdns", "up"}

(* While the VPN has a default route, a device has passed AddHostRoute.    *)
(* The route that it left is there until Close removes it, and no device   *)
(* that takes the VPN for the machine's gateway makes a worse one.         *)
HostRouteKept ==
    /\ "vpn" \in defaults => (\E d \in Devs : Redirects(d)) \/ raced
    /\ cpc \notin {"iface", "closed"} => \A d \in Devs :
           gateway[d] # Unset /\ pc[d] # "host" /\ <<d, "host">> \notin failed => host # "none"
    /\ \A d \in Devs : gateway[d] = "vpn" =>
           (\E e \in Devs \ {d} : Redirects(e)) \/ raced
    /\ host = "loop" => (\E d \in Devs : <<d, "host">> \in failed) \/ raced
    /\ cpc \in {"restore", "host", "iface", "closed"} /\ ~raced /\ "vpn" \in defaults =>
           <<closing, "remove">> \in failed \/ (cpc # "restore" /\ gateway[closing] = "vpn")

TunInv ==
    /\ TypeOK /\ FieldsFollowSetUp /\ CloseKnowsItsDevice /\ LinuxHasOneDevice
    /\ ServerSetsNoRoutes /\ MachineRoutesKnown /\ RoutesInClose
    /\ DNSKnown /\ HostRouteKept

SetUp(d) ==
    \/ New(d) \/ GetDefaultGateway(d) \/ AddHostRoute(d) \/ DeleteDefault(d)
    \/ AddDefault(d) \/ GetActiveService(d) \/ GetDNSServers(d) \/ SetDNSServers(d)

CloseStep ==
    RestoreDNS \/ RemoveDefault \/ RestoreDefault \/ RemoveHostRoute \/ CloseIface

-----------------------------------------------------------------------------
(* Types *)

(* A field that was never set holds no gateway, service or DNS servers. *)
LEMMA UnsetIsNoValue ==
    Unset \notin {"gw", "vpn", "none", "dhcp", "custom", "public", "Wi-Fi", "Ethernet"}
  BY Zenon DEF Unset

LEMMA EffectiveValue ==
    ASSUME TypeOK
    PROVE  /\ Effective \in {"gw", "vpn", "none"}
           /\ Effective # "none" => Effective \in defaults
  <1>1. CASE defaults = {"gw", "vpn"}
    BY <1>1 DEF Effective
  <1>2. CASE defaults = {}
    BY <1>2 DEF Effective
  <1>3. CASE defaults # {} /\ defaults # {"gw", "vpn"}
    <2>1. Effective = CHOOSE g \in defaults : TRUE
      BY <1>3 DEF Effective
    <2>2. Effective \in defaults
      BY <1>3, <2>1
    <2>. QED BY <2>2 DEF TypeOK
  <1>. QED BY <1>1, <1>2, <1>3

LEMMA TypeInit == ASSUME Init PROVE TypeOK
  <1>1. /\ os \in OSes /\ role \in Roles /\ active \in Services
        /\ defaults \in {{}, {"gw"}} /\ host \in {"none", "user"}
    BY DEF Init
  <1>1a. gwPreferred \in BOOLEAN
    BY Zenon DEF Init
  <1>1b. defaults \subseteq {"gw", "vpn"} /\ defaults # {"gw", "vpn"}
    BY <1>1
  <1>2. /\ dns \in [Services -> {"dhcp", "custom"}]
        /\ dns \in [Services -> {"dhcp", "custom", "public"}]
    BY DEF Init
  <1>3. initial = [defaults |-> defaults, host |-> host, dns |-> dns]
    BY DEF Init
  <1>4. initial \in [defaults : {{}, {"gw"}}, host : {"none", "user"},
                    dns : [Services -> {"dhcp", "custom"}]]
    BY <1>1, <1>2, <1>3
  <1>5. /\ iface \in [Devs -> {"none", "open", "closed"}]
        /\ gateway \in [Devs -> {Unset, "gw", "vpn"}]
        /\ service \in [Devs -> Services \cup {Unset}]
        /\ savedDNS \in [Devs -> {Unset, "dhcp", "custom", "public"}]
    BY DEF Init
  <1>6. pc \in [Devs -> {"off", "error", "gateway", "host", "delete", "add", "service",
                        "getdns", "setdns", "up"}]
    BY DEF Init
  <1>7. tunDev = 0 /\ closing = 0 /\ raced = FALSE /\ failed = {} /\ cpc = "idle"
    BY DEF Init
  <1>8. 0 \in 0 .. MaxDevs
    BY TunAssumption
  <1>. QED BY <1>8, <1>1, <1>1a, <1>1b, <1>2, <1>4, <1>5, <1>6, <1>7 DEF TypeOK

LEMMA DevNat ==
    ASSUME NEW d \in Devs
    PROVE  d \in 0 .. MaxDevs /\ d # 0
  BY TunAssumption DEF Devs

CloseCommands == {"dns", "remove", "restore", "unhost"}

(* What a step of Close leaves alone. *)
LEMMA CloseFrame ==
    ASSUME CloseStep
    PROVE  /\ UNCHANGED <<os, role, active, gwPreferred, initial>>
           /\ UNCHANGED <<gateway, service, savedDNS, pc, tunDev>>
           /\ cpc' # "idle" /\ cpc # cpc'
           /\ RestoreDNS \/ UNCHANGED <<dns, closing, raced>>
           /\ CloseIface \/ UNCHANGED iface
           /\ RemoveHostRoute \/ UNCHANGED host
           /\ failed \subseteq failed'
  <1>1. CASE RestoreDNS
    BY <1>1 DEF RestoreDNS, CloseGoto, Fail, machine, routes, fields
  <1>2. CASE RemoveDefault
    BY <1>2 DEF RemoveDefault, CloseGoto, Fail, machine, fields
  <1>3. CASE RestoreDefault
    BY <1>3 DEF RestoreDefault, CloseGoto, Fail, machine, fields
  <1>4. CASE RemoveHostRoute
    BY <1>4 DEF RemoveHostRoute, CloseGoto, Fail, machine, fields
  <1>5. CASE CloseIface
    BY <1>5 DEF CloseIface, CloseGoto, machine, fields
  <1>. QED BY <1>1, <1>2, <1>3, <1>4, <1>5 DEF CloseStep

(* What a step of Close does to the default routes, and what it notes.     *)
LEMMA CloseRoutes ==
    ASSUME CloseStep, CloseKnowsItsDevice
    PROVE  /\ closing' \in Devs \/ RestoreDNS
           /\ RestoreDNS => cpc = "idle" /\ cpc' = "delete" /\ UNCHANGED <<defaults, host>>
           /\ RemoveDefault =>
                 /\ cpc = "delete" /\ cpc' = "restore"
                 /\ \/ defaults' = IF os = "darwin" THEN {} ELSE defaults \ {"vpn"}
                    \/ defaults' = defaults /\ <<closing, "remove">> \in failed'
           /\ RestoreDefault =>
                 /\ cpc = "restore" /\ cpc' = "host"
                 /\ \/ /\ defaults' = defaults
                       /\ \/ os # "darwin" \/ gateway[closing] = Unset \/ defaults # {}
                          \/ <<closing, "restore">> \in failed'
                    \/ os = "darwin" /\ gateway[closing] # Unset
                       /\ defaults' = {gateway[closing]}
           /\ RemoveHostRoute =>
                 /\ cpc = "host" /\ cpc' = "iface" /\ UNCHANGED defaults
                 /\ host' = host \/ (role = "client" /\ host' = "none")
                 /\ role = "client" => host' = "none" \/ <<closing, "unhost">> \in failed'
           /\ CloseIface =>
                 /\ cpc = "iface" /\ cpc' = "closed" /\ UNCHANGED <<host, failed>>
                 /\ defaults' = defaults \/ defaults' = defaults \ {"vpn"}
                 /\ (\A d \in Devs \ {closing} : iface[d] # "open") =>
                       defaults' = defaults \ {"vpn"}
  <1>1. ASSUME RestoreDNS
        PROVE  cpc = "idle" /\ cpc' = "delete" /\ UNCHANGED <<defaults, host>>
    BY <1>1 DEF RestoreDNS, CloseGoto, routes
  <1>2. ASSUME RemoveDefault
        PROVE  /\ cpc = "delete" /\ cpc' = "restore"
               /\ \/ defaults' = IF os = "darwin" THEN {} ELSE defaults \ {"vpn"}
                  \/ defaults' = defaults /\ <<closing, "remove">> \in failed'
    BY <1>2 DEF RemoveDefault, CloseGoto, Fail
  <1>3. ASSUME RestoreDefault
        PROVE  /\ cpc = "restore" /\ cpc' = "host"
               /\ \/ /\ defaults' = defaults
                     /\ \/ os # "darwin" \/ gateway[closing] = Unset \/ defaults # {}
                        \/ <<closing, "restore">> \in failed'
                  \/ os = "darwin" /\ gateway[closing] # Unset
                     /\ defaults' = {gateway[closing]}
    BY <1>3 DEF RestoreDefault, CloseGoto, Fail
  <1>4. ASSUME RemoveHostRoute
        PROVE  /\ cpc = "host" /\ cpc' = "iface" /\ UNCHANGED defaults
               /\ host' = host \/ (role = "client" /\ host' = "none")
               /\ role = "client" => host' = "none" \/ <<closing, "unhost">> \in failed'
    BY <1>4 DEF RemoveHostRoute, CloseGoto, Fail
  <1>5. ASSUME CloseIface
        PROVE  /\ cpc = "iface" /\ cpc' = "closed" /\ UNCHANGED <<host, failed>>
               /\ defaults' = defaults \/ defaults' = defaults \ {"vpn"}
               /\ (\A d \in Devs \ {closing} : iface[d] # "open") =>
                     defaults' = defaults \ {"vpn"}
    BY <1>5 DEF CloseIface, CloseGoto
  <1>6. closing' \in Devs \/ RestoreDNS
    BY CloseFrame DEF CloseStep, CloseKnowsItsDevice, RemoveDefault, RestoreDefault,
                      RemoveHostRoute, CloseIface, CloseGoto
  <1>. QED BY <1>1, <1>2, <1>3, <1>4, <1>5, <1>6

(* The steps of Close need no more than the types. *)
LEMMA CloseTypes ==
    ASSUME TypeOK, CloseKnowsItsDevice, CloseStep
    PROVE  TypeOK'
  <1>1. /\ os = "darwin" => defaults # {"gw", "vpn"}
        /\ defaults \subseteq {"gw", "vpn"}
    BY DEF TypeOK
  <1>2. RestoreDNS => tunDev \in Devs /\ closing' = tunDev
    BY TunAssumption DEF RestoreDNS, TypeOK, Devs
  <1>3. closing' \in 0 .. MaxDevs /\ raced' \in BOOLEAN
    <2>1. CASE RestoreDNS
      BY <1>2, <2>1, Zenon DEF RestoreDNS, TypeOK
    <2>2. CASE ~RestoreDNS
      BY <2>2, CloseFrame DEF TypeOK
    <2>. QED BY <2>1, <2>2
  <1>4. defaults' \subseteq {"gw", "vpn"} /\ (os = "darwin" => defaults' # {"gw", "vpn"})
    <2>1. CASE RestoreDefault
      <3>1. gateway[closing] \in {Unset, "gw", "vpn"}
        BY <2>1 DEF RestoreDefault, CloseGoto, CloseKnowsItsDevice, TypeOK
      <3>2. defaults' = defaults \/ defaults' = {"gw"} \/ defaults' = {"vpn"}
        BY <2>1, <3>1, CloseRoutes
      <3>3. {"gw"} # {"gw", "vpn"} /\ {"vpn"} # {"gw", "vpn"}
        OBVIOUS
      <3>. QED BY <1>1, <3>2, <3>3, Zenon
    <2>2. CASE ~RestoreDefault
      <3>1. \/ defaults' = defaults \/ defaults' = {} \/ defaults' = defaults \ {"vpn"}
        BY <2>2, CloseRoutes DEF CloseStep
      <3>. QED BY <1>1, <3>1
    <2>. QED BY <2>1, <2>2
  <1>5. host' \in {"none", "user", "ours", "loop"}
    BY CloseFrame, CloseRoutes DEF TypeOK
  <1>6. dns' \in [Services -> {"dhcp", "custom", "public"}]
    <2>1. CASE RestoreDNS
      <3>1. savedDNS[tunDev] \in {Unset, "dhcp", "custom", "public"}
        BY <1>2, <2>1 DEF TypeOK
      <3>. QED BY <2>1, <3>1 DEF RestoreDNS, TypeOK
    <2>2. CASE ~RestoreDNS
      BY <2>2, CloseFrame DEF TypeOK
    <2>. QED BY <2>1, <2>2
  <1>7. iface' \in [Devs -> {"none", "open", "closed"}]
    BY CloseFrame DEF CloseIface, TypeOK
  <1>8. \E d \in Devs : \E c \in CloseCommands : failed' \subseteq failed \cup {<<d, c>>}
    <2>1. CASE RestoreDNS
      BY <1>2, <2>1 DEF RestoreDNS, Fail, CloseCommands
    <2>2. CASE ~RestoreDNS
      <3>1. closing \in Devs
        BY <2>2 DEF CloseStep, CloseKnowsItsDevice, RemoveDefault, RestoreDefault,
                    RemoveHostRoute, CloseIface, CloseGoto
      <3>2. \E c \in CloseCommands : failed' \subseteq failed \cup {<<closing, c>>}
        BY <2>2 DEF CloseStep, RemoveDefault, RestoreDefault, RemoveHostRoute, CloseIface,
                    Fail, CloseCommands
      <3>. QED BY <3>1, <3>2
    <2>. QED BY <2>1, <2>2
  <1>9. failed' \subseteq Devs \X {"gateway", "host", "service", "getdns", "setdns",
                                  "dns", "remove", "restore", "unhost"}
    BY <1>8 DEF TypeOK, CloseCommands
  <1>10. cpc' \in {"idle", "delete", "restore", "host", "iface", "closed"}
    BY CloseRoutes DEF CloseStep
  <1>. QED
    BY <1>3, <1>4, <1>5, <1>6, <1>7, <1>9, <1>10, CloseFrame DEF TypeOK

LEMMA SetUpTypes ==
    ASSUME TypeOK, FieldsFollowSetUp, NEW d \in Devs, SetUp(d)
    PROVE  TypeOK'
  <1>1. CASE New(d)
    <2>1. tunDev' \in 0 .. MaxDevs
      BY <1>1, DevNat DEF New, TypeOK
    <2>. QED BY <1>1, <2>1 DEF New, Goto, TypeOK, machine, routes, fields
  <1>2. CASE GetDefaultGateway(d)
    BY <1>2, EffectiveValue
       DEF GetDefaultGateway, Goto, Fail, TypeOK, machine, routes, closeVars
  <1>3. CASE AddHostRoute(d)
    BY <1>3 DEF AddHostRoute, Goto, AfterHost, Fail, TypeOK, machine, fields, closeVars
  <1>4. CASE DeleteDefault(d)
    <2>1. UNCHANGED <<machine, host, dns, iface, fields, failed, tunDev, closeVars>>
      BY <1>4, Zenon DEF DeleteDefault
    <2>2. defaults' \in {{}, defaults}
      BY <1>4, Zenon DEF DeleteDefault
    <2>3. {} # {"gw", "vpn"}
      OBVIOUS
    <2>4. defaults' \subseteq {"gw", "vpn"} /\ (os = "darwin" => defaults' # {"gw", "vpn"})
      BY <2>2, <2>3 DEF TypeOK
    <2>5. pc' = [pc EXCEPT ![d] = "add"]
      BY <1>4, Zenon DEF DeleteDefault, Goto
    <2>. QED BY <2>1, <2>4, <2>5 DEF TypeOK, machine, fields, closeVars
  <1>5. CASE AddDefault(d)
    <2>1. UNCHANGED <<machine, host, dns, iface, fields, failed, tunDev, closeVars>>
      BY <1>5 DEF AddDefault
    <2>2. /\ defaults' \in {defaults, defaults \cup {"vpn"}}
          /\ os = "darwin" => defaults' \in {defaults, {"vpn"}}
      BY <1>5 DEF AddDefault
    <2>3. defaults' \subseteq {"gw", "vpn"} /\ (os = "darwin" => defaults' # {"gw", "vpn"})
      BY <2>2 DEF TypeOK
    <2>4. pc' = [pc EXCEPT ![d] = "service"]
      BY <1>5 DEF AddDefault, Goto
    <2>. QED BY <2>1, <2>3, <2>4 DEF TypeOK, machine, fields, closeVars
  <1>6. CASE GetActiveService(d)
    BY <1>6 DEF GetActiveService, Goto, Fail, Services, TypeOK, machine, routes, closeVars
  <1>7. CASE GetDNSServers(d)
    <2>1. service[d] \in Services
      BY <1>7 DEF GetDNSServers, Goto, FieldsFollowSetUp, TypeOK
    <2>. QED BY <1>7, <2>1 DEF GetDNSServers, Goto, Fail, TypeOK, machine, routes, closeVars
  <1>8. CASE SetDNSServers(d)
    BY <1>8 DEF SetDNSServers, Goto, Fail, TypeOK, machine, routes, fields, closeVars
  <1>. QED BY <1>1, <1>2, <1>3, <1>4, <1>5, <1>6, <1>7, <1>8 DEF SetUp

-----------------------------------------------------------------------------
(* What a step leaves alone *)

LEMMA StepKinds ==
    ASSUME [Next]_vars
    PROVE  CloseStep \/ (\E d \in Devs : SetUp(d)) \/ UNCHANGED vars
  BY Zenon DEF Next, SetUp, CloseStep

LEMMA SetUpFrame ==
    ASSUME NEW d \in Devs, SetUp(d)
    PROVE  /\ UNCHANGED <<os, role, initial>>
           /\ UNCHANGED <<closing, cpc>>
           /\ New(d) \/ UNCHANGED <<raced, tunDev, iface>>
           /\ AddHostRoute(d) \/ UNCHANGED host
           /\ DeleteDefault(d) \/ AddDefault(d) \/ UNCHANGED defaults
           /\ GetDefaultGateway(d) \/ UNCHANGED gateway
           /\ GetActiveService(d) \/ UNCHANGED service
           /\ GetDNSServers(d) \/ UNCHANGED savedDNS
           /\ SetDNSServers(d) \/ UNCHANGED dns
           /\ failed \subseteq failed'
  BY DEF SetUp, New, GetDefaultGateway, AddHostRoute, DeleteDefault, AddDefault,
         GetActiveService, GetDNSServers, SetDNSServers, Fail, machine, routes, fields, closeVars

(* Where the set-up of a device can go from where it is. *)
LEMMA SetUpMoves ==
    ASSUME TypeOK, NEW d \in Devs, SetUp(d)
    PROVE  /\ \A e \in Devs \ {d} : pc'[e] = pc[e]
           /\ New(d) => pc[d] = "off" /\ pc'[d] \in {"gateway", "up", "error"}
                        /\ (role = "server" => pc'[d] # "gateway")
           /\ GetDefaultGateway(d) => pc[d] = "gateway" /\ pc'[d] \in {"host", "service"}
           /\ AddHostRoute(d) => pc[d] = "host" /\ pc'[d] \in {"delete", "add"}
           /\ DeleteDefault(d) => pc[d] = "delete" /\ pc'[d] = "add"
           /\ AddDefault(d) => pc[d] = "add" /\ pc'[d] = "service"
           /\ GetActiveService(d) => pc[d] = "service" /\ pc'[d] \in {"getdns", "up"}
           /\ GetDNSServers(d) => pc[d] = "getdns" /\ pc'[d] = "setdns"
           /\ SetDNSServers(d) => pc[d] = "setdns" /\ pc'[d] = "up"
  <1>. DEFINE OthersStay == \A e \in Devs \ {d} : pc'[e] = pc[e]
  <1>1. ASSUME NEW from, NEW to, Goto(d, from, to)
        PROVE  pc[d] = from /\ pc'[d] = to /\ OthersStay
    BY <1>1 DEF Goto, TypeOK
  <1>. HIDE DEF OthersStay
  <1>2. ASSUME New(d)
        PROVE  /\ OthersStay
               /\ pc[d] = "off" /\ pc'[d] \in {"gateway", "up", "error"}
               /\ role = "server" => pc'[d] # "gateway"
    <2>1. \/ Goto(d, "off", "gateway") /\ role = "client"
          \/ Goto(d, "off", "up")
          \/ Goto(d, "off", "error")
      BY <1>2, Zenon DEF New
    <2>. QED BY <1>1, <2>1
  <1>3. ASSUME GetDefaultGateway(d)
        PROVE  OthersStay /\ pc[d] = "gateway" /\ pc'[d] \in {"host", "service"}
    BY <1>1, <1>3, Zenon DEF GetDefaultGateway
  <1>4. ASSUME AddHostRoute(d)
        PROVE  OthersStay /\ pc[d] = "host" /\ pc'[d] \in {"delete", "add"}
    BY <1>1, <1>4, Zenon DEF AddHostRoute, AfterHost
  <1>5. ASSUME DeleteDefault(d)
        PROVE  OthersStay /\ pc[d] = "delete" /\ pc'[d] = "add"
    BY <1>1, <1>5, Zenon DEF DeleteDefault
  <1>6. ASSUME AddDefault(d)
        PROVE  OthersStay /\ pc[d] = "add" /\ pc'[d] = "service"
    BY <1>1, <1>6, Zenon DEF AddDefault
  <1>7. ASSUME GetActiveService(d)
        PROVE  OthersStay /\ pc[d] = "service" /\ pc'[d] \in {"getdns", "up"}
    BY <1>1, <1>7, Zenon DEF GetActiveService
  <1>8. ASSUME GetDNSServers(d)
        PROVE  OthersStay /\ pc[d] = "getdns" /\ pc'[d] = "setdns"
    BY <1>1, <1>8, Zenon DEF GetDNSServers
  <1>9. ASSUME SetDNSServers(d)
        PROVE  OthersStay /\ pc[d] = "setdns" /\ pc'[d] = "up"
    BY <1>1, <1>9, Zenon DEF SetDNSServers
  <1>. QED BY <1>2, <1>3, <1>4, <1>5, <1>6, <1>7, <1>8, <1>9 DEF SetUp, OthersStay
(* What a device's fields can become. *)
LEMMA SetUpFields ==
    ASSUME TypeOK, NEW d \in Devs, SetUp(d)
    PROVE  /\ \A e \in Devs \ {d} : /\ gateway'[e] = gateway[e]
                                   /\ service'[e] = service[e]
                                   /\ savedDNS'[e] = savedDNS[e]
           /\ GetDefaultGateway(d) =>
                 IF pc'[d] = "host" THEN gateway'[d] = Effective /\ Effective # "none"
                                    ELSE gateway'[d] = gateway[d]
           /\ GetActiveService(d) =>
                 IF pc'[d] = "getdns" THEN service'[d] \in Services
                                      ELSE service'[d] = service[d]
  <1>1. ASSUME GetDefaultGateway(d)
        PROVE  \/ pc'[d] = "host" /\ Effective # "none"
                  /\ gateway' = [gateway EXCEPT ![d] = Effective]
               \/ pc'[d] = "service" /\ gateway' = gateway
    BY <1>1 DEF GetDefaultGateway, Goto, TypeOK
  <1>2. ASSUME GetActiveService(d)
        PROVE  \/ pc'[d] = "getdns" /\ \E s \in Services : service' = [service EXCEPT ![d] = s]
               \/ pc'[d] = "up" /\ service' = service
    BY <1>2 DEF GetActiveService, Goto, TypeOK, Services
  <1>3. ASSUME GetDNSServers(d)
        PROVE  savedDNS' = savedDNS \/ savedDNS' = [savedDNS EXCEPT ![d] = dns[service[d]]]
    BY <1>3 DEF GetDNSServers
  <1>4. \A e \in Devs \ {d} : gateway'[e] = gateway[e]
    BY <1>1, SetUpFrame DEF TypeOK
  <1>5. \A e \in Devs \ {d} : service'[e] = service[e]
    BY <1>2, SetUpFrame DEF TypeOK
  <1>6. \A e \in Devs \ {d} : savedDNS'[e] = savedDNS[e]
    BY <1>3, SetUpFrame DEF TypeOK
  <1>7. ASSUME GetDefaultGateway(d)
        PROVE  IF pc'[d] = "host" THEN gateway'[d] = Effective /\ Effective # "none"
                                  ELSE gateway'[d] = gateway[d]
    BY <1>1, <1>7 DEF TypeOK
  <1>8. ASSUME GetActiveService(d)
        PROVE  IF pc'[d] = "getdns" THEN service'[d] \in Services
                                    ELSE service'[d] = service[d]
    BY <1>2, <1>8 DEF TypeOK
  <1>. QED BY <1>4, <1>5, <1>6, <1>7, <1>8

-----------------------------------------------------------------------------
(* The parts of the invariant *)

LEMMA FieldsInductive ==
    ASSUME TypeOK, FieldsFollowSetUp, [Next]_vars
    PROVE  FieldsFollowSetUp'
  <1>1. CASE CloseStep
    BY <1>1, CloseFrame DEF FieldsFollowSetUp
  <1>2. CASE UNCHANGED vars
    BY <1>2 DEF vars, machine, fields, FieldsFollowSetUp
  <1>3. ASSUME NEW d \in Devs, SetUp(d)
        PROVE  FieldsFollowSetUp'
    <2>. DEFINE Follows(e, p, g, s) ==
             /\ p \in {"host", "delete", "add"} => g # Unset
             /\ g # Unset => p \notin {"off", "error", "gateway"}
             /\ s # Unset => p \in {"getdns", "setdns", "up"}
             /\ p \in {"getdns", "setdns"} => s # Unset
             /\ p = "delete" => os = "darwin"
    <2>1. ASSUME NEW e \in Devs, e # d
          PROVE  Follows(e, pc'[e], gateway'[e], service'[e])
      BY <1>3, <2>1, SetUpMoves, SetUpFields DEF FieldsFollowSetUp
    <2>2. Effective # "none" => Effective # Unset
      BY EffectiveValue, UnsetIsNoValue
    <2>3. \A s \in Services : s # Unset
      BY UnsetIsNoValue DEF Services
    <2>4. Follows(d, pc[d], gateway[d], service[d])
      BY DEF FieldsFollowSetUp
    <2>5. Follows(d, pc'[d], gateway'[d], service'[d])
      <3>1. CASE GetDefaultGateway(d)
        BY <1>3, <2>2, <2>4, <3>1, SetUpMoves, SetUpFields, SetUpFrame
      <3>2. CASE GetActiveService(d)
        BY <1>3, <2>3, <2>4, <3>2, SetUpMoves, SetUpFields, SetUpFrame
      <3>3. CASE ~GetDefaultGateway(d) /\ ~GetActiveService(d)
        <4>1. gateway' = gateway /\ service' = service
          BY <1>3, <3>3, SetUpFrame
        <4>2. pc'[d] = "delete" => os = "darwin"
          BY <1>3, <3>3, SetUpMoves DEF SetUp, AddHostRoute, AfterHost, Goto, TypeOK
        <4>. QED BY <1>3, <2>4, <3>3, <4>1, <4>2, SetUpMoves DEF SetUp
      <3>. QED BY <3>1, <3>2, <3>3
    <2>. QED BY <1>3, <2>1, <2>5, SetUpFrame DEF FieldsFollowSetUp
  <1>. QED BY <1>1, <1>2, <1>3, StepKinds

(* Close takes the device the field holds, and every later New is a race.   *)
LEMMA CloseInductive ==
    ASSUME TypeOK, CloseKnowsItsDevice, [Next]_vars
    PROVE  CloseKnowsItsDevice'
  <1>1. CASE CloseStep
    <2>1. CASE RestoreDNS
      <3>1. tunDev \in Devs
        BY <2>1, TunAssumption DEF RestoreDNS, TypeOK, Devs
      <3>2. cpc' = "delete" /\ closing' = tunDev /\ pc' = pc
        BY <2>1 DEF RestoreDNS, CloseGoto
      <3>3. ~raced' => \A d \in Devs : pc[d] \in Steady
        BY <2>1, Zenon DEF RestoreDNS, Steady
      <3>4. tunDev' = tunDev
        BY <1>1, CloseFrame
      <3>. QED BY <3>1, <3>2, <3>3, <3>4 DEF CloseKnowsItsDevice, Alone
    <2>2. CASE ~RestoreDNS
      <3>1. cpc # "idle"
        BY <1>1, <2>2 DEF CloseStep, RemoveDefault, RestoreDefault, RemoveHostRoute,
                          CloseIface, CloseGoto
      <3>. QED BY <1>1, <2>2, <3>1, CloseFrame DEF CloseKnowsItsDevice, Alone
    <2>. QED BY <2>1, <2>2
  <1>2. CASE UNCHANGED vars
    BY <1>2 DEF vars, closeVars, CloseKnowsItsDevice, Alone
  <1>3. ASSUME NEW d \in Devs, SetUp(d)
        PROVE  CloseKnowsItsDevice'
    <2>1. closing' = closing /\ cpc' = cpc
      BY <1>3, SetUpFrame
    <2>2. CASE New(d)
      BY <2>1, <2>2 DEF New, CloseKnowsItsDevice, Alone
    <2>3. CASE ~New(d)
      <3>1. raced' = raced /\ tunDev' = tunDev /\ pc[d] \notin Steady
        BY <1>3, <2>3, SetUpFrame, SetUpMoves DEF SetUp, Steady
      <3>. QED BY <2>1, <3>1 DEF CloseKnowsItsDevice, Alone
    <2>. QED BY <2>2, <2>3
  <1>. QED BY <1>1, <1>2, <1>3, StepKinds

LEMMA OneDeviceInductive ==
    ASSUME TypeOK, LinuxHasOneDevice, [Next]_vars
    PROVE  LinuxHasOneDevice'
  <1>1. CASE CloseStep
    <2>1. UNCHANGED <<os, tunDev>>
      BY <1>1, CloseFrame
    <2>2. \A d \in Devs : iface'[d] = "open" => iface[d] = "open"
      BY <1>1, CloseFrame DEF CloseIface, TypeOK
    <2>. QED BY <2>1, <2>2 DEF LinuxHasOneDevice
  <1>2. CASE UNCHANGED vars
    BY <1>2 DEF vars, machine, LinuxHasOneDevice
  <1>3. ASSUME NEW d \in Devs, SetUp(d)
        PROVE  LinuxHasOneDevice'
    <2>1. os' = os
      BY <1>3, SetUpFrame
    <2>2. CASE New(d)
      <3>1. CASE /\ os = "linux" => \A e \in Devs : iface[e] # "open"
                 /\ iface' = [iface EXCEPT ![d] = "open"] /\ tunDev' = d
        BY <2>1, <3>1 DEF LinuxHasOneDevice, TypeOK
      <3>2. CASE UNCHANGED <<iface, tunDev>>
        BY <2>1, <3>2 DEF LinuxHasOneDevice
      <3>. QED BY <2>2, <3>1, <3>2, Zenon DEF New
    <2>3. CASE ~New(d)
      BY <1>3, <2>1, <2>3, SetUpFrame DEF LinuxHasOneDevice
    <2>. QED BY <2>2, <2>3
  <1>. QED BY <1>1, <1>2, <1>3, StepKinds

LEMMA ServerInductive ==
    ASSUME TypeOK, ServerSetsNoRoutes, [Next]_vars
    PROVE  ServerSetsNoRoutes'
  <1>. SUFFICES ASSUME role' = "server"
                PROVE  host' = initial'.host /\ \A d \in Devs : pc'[d] \in Steady
    BY DEF ServerSetsNoRoutes, Steady
  <1>1. CASE CloseStep
    <2>1. role = "server" /\ UNCHANGED <<initial, pc>>
      BY <1>1, CloseFrame
    <2>2. host' = host
      BY <1>1, <2>1, CloseFrame DEF RemoveHostRoute
    <2>. QED BY <2>1, <2>2 DEF ServerSetsNoRoutes
  <1>2. CASE UNCHANGED vars
    BY <1>2 DEF vars, machine, routes, ServerSetsNoRoutes
  <1>3. ASSUME NEW d \in Devs, SetUp(d)
        PROVE  host' = initial'.host /\ \A e \in Devs : pc'[e] \in Steady
    <2>1. role = "server" /\ initial' = initial
      BY <1>3, SetUpFrame
    <2>2. pc[d] \in Steady
      BY <2>1 DEF ServerSetsNoRoutes
    <2>3. New(d)
      BY <1>3, <2>2, SetUpMoves DEF SetUp, Steady
    <2>4. host' = host
      BY <2>3 DEF New, routes
    <2>. QED BY <1>3, <2>1, <2>3, <2>4, SetUpMoves DEF ServerSetsNoRoutes, Steady
  <1>. QED BY <1>1, <1>2, <1>3, StepKinds

LEMMA RoutesKnownInductive ==
    ASSUME TypeOK, FieldsFollowSetUp, CloseKnowsItsDevice, MachineRoutesKnown, [Next]_vars
    PROVE  MachineRoutesKnown'
  <1>1. initial.defaults \in {{}, {"gw"}}
    BY DEF TypeOK
  <1>2. CASE CloseStep
    <2>1. UNCHANGED <<os, initial, gateway>>
      BY <1>2, CloseFrame
    <2>2. CASE RestoreDefault
      <3>1. closing \in Devs /\ gateway[closing] \in {Unset, "gw", "vpn"}
        BY <2>2 DEF RestoreDefault, CloseGoto, CloseKnowsItsDevice, TypeOK
      <3>2. \/ defaults' = defaults
            \/ /\ os = "darwin" /\ initial.defaults = {"gw"}
               /\ defaults' = {"vpn"} \/ defaults' = {"gw"}
        BY <1>2, <2>2, <3>1, CloseRoutes DEF MachineRoutesKnown
      <3>3. os = "linux" => os # "darwin"
        OBVIOUS
      <3>. QED BY <2>1, <3>2, <3>3 DEF MachineRoutesKnown
    <2>3. CASE ~RestoreDefault
      <3>1. \/ defaults' = defaults
            \/ defaults' = defaults \ {"vpn"}
            \/ os = "darwin" /\ defaults' = {}
        BY <1>2, <2>3, CloseRoutes DEF CloseStep
      <3>. QED BY <2>1, <3>1 DEF MachineRoutesKnown
    <2>. QED BY <2>2, <2>3
  <1>3. CASE UNCHANGED vars
    BY <1>3 DEF vars, machine, routes, fields, MachineRoutesKnown
  <1>4. ASSUME NEW d \in Devs, SetUp(d)
        PROVE  MachineRoutesKnown'
    <2>1. UNCHANGED <<os, initial>>
      BY <1>4, SetUpFrame
    <2>2. \/ defaults' = defaults
          \/ defaults' = defaults \cup {"vpn"} /\ gateway[d] # Unset
          \/ os = "darwin" /\ defaults' = {}
      BY <1>4, SetUpFrame DEF DeleteDefault, AddDefault, Goto, FieldsFollowSetUp
    <2>3. /\ defaults' \ {"vpn"} \subseteq initial.defaults
          /\ os = "linux" => defaults' \ {"vpn"} = initial.defaults
          /\ "vpn" \in defaults' => initial.defaults = {"gw"}
      BY <2>2 DEF MachineRoutesKnown
    <2>4. ASSUME NEW e \in Devs, gateway'[e] # Unset
          PROVE  initial.defaults = {"gw"}
      <3>1. CASE gateway'[e] = gateway[e]
        BY <2>4, <3>1 DEF MachineRoutesKnown
      <3>2. CASE gateway'[e] # gateway[e]
        <4>1. Effective # "none"
          BY <1>4, <2>4, <3>2, SetUpFields, SetUpFrame
        <4>2. "gw" \in defaults \/ "vpn" \in defaults
          BY <4>1, EffectiveValue
        <4>. QED BY <1>1, <4>2 DEF MachineRoutesKnown
      <3>. QED BY <3>1, <3>2
    <2>. QED BY <2>1, <2>3, <2>4 DEF MachineRoutesKnown
  <1>. QED BY <1>2, <1>3, <1>4, StepKinds

(* Close's part: what is put back stays, since nobody else is at work.     *)
LEMMA RoutesInCloseInductive ==
    ASSUME TypeOK, CloseKnowsItsDevice, LinuxHasOneDevice, RoutesInClose, [Next]_vars
    PROVE  RoutesInClose'
  <1>1. CASE CloseStep
    <2>1. UNCHANGED <<os, role, gateway>> /\ failed \subseteq failed'
      BY <1>1, CloseFrame
    <2>2. CASE RestoreDNS
      BY <1>1, <2>2, CloseRoutes DEF RoutesInClose
    <2>3. CASE RemoveDefault
      <3>1. UNCHANGED <<closing, raced>> /\ cpc' = "restore"
        BY <1>1, <2>3, CloseRoutes DEF RemoveDefault
      <3>2. os = "darwin" => defaults' = {} \/ <<closing, "remove">> \in failed'
        BY <1>1, <2>3, CloseRoutes
      <3>. QED BY <2>1, <3>1, <3>2 DEF RoutesInClose
    <2>4. CASE RestoreDefault
      <3>1. closing \in Devs /\ gateway[closing] \in {Unset, "gw", "vpn"}
        BY <2>4 DEF RestoreDefault, CloseGoto, CloseKnowsItsDevice, TypeOK
      <3>2. "gw" # Unset
        BY UnsetIsNoValue
      <3>3. UNCHANGED <<closing, raced>> /\ cpc = "restore" /\ cpc' = "host"
        BY <1>1, <2>4, CloseRoutes DEF RestoreDefault
      <3>4. ASSUME os = "darwin", defaults = {}, <<closing, "restore">> \notin failed'
            PROVE  /\ gateway[closing] = "gw" => defaults' = {"gw"}
                   /\ gateway[closing] # "gw" => "gw" \notin defaults'
        BY <1>1, <2>4, <3>1, <3>2, <3>4, CloseRoutes
      <3>. QED BY <2>1, <3>3, <3>4 DEF RoutesInClose
    <2>5. CASE RemoveHostRoute
      <3>1. UNCHANGED <<closing, raced, defaults>> /\ cpc = "host" /\ cpc' = "iface"
        BY <1>1, <2>5, CloseRoutes DEF RemoveHostRoute
      <3>2. role = "client" => host' = "none" \/ <<closing, "unhost">> \in failed'
        BY <1>1, <2>5, CloseRoutes
      <3>. QED BY <2>1, <3>1, <3>2 DEF RoutesInClose
    <2>6. CASE CloseIface
      <3>1. UNCHANGED <<closing, raced, host, failed>> /\ cpc = "iface" /\ cpc' = "closed"
        BY <1>1, <2>6, CloseRoutes DEF CloseIface
      <3>2. defaults' = defaults \/ defaults' = defaults \ {"vpn"}
        BY <1>1, <2>6, CloseRoutes
      <3>3. {"gw"} \ {"vpn"} = {"gw"}
        OBVIOUS
      <3>4. ASSUME os = "linux", ~raced PROVE "vpn" \notin defaults'
        <4>1. closing = tunDev
          BY <3>1, <3>4 DEF CloseKnowsItsDevice, Alone
        <4>2. \A d \in Devs \ {closing} : iface[d] # "open"
          BY <3>4, <4>1 DEF LinuxHasOneDevice
        <4>. QED BY <1>1, <2>6, <4>2, CloseRoutes
      <3>. QED BY <2>1, <3>1, <3>2, <3>3, <3>4 DEF RoutesInClose
    <2>. QED BY <1>1, <2>2, <2>3, <2>4, <2>5, <2>6 DEF CloseStep
  <1>2. CASE UNCHANGED vars
    BY <1>2 DEF vars, machine, routes, fields, closeVars, RoutesInClose
  <1>3. ASSUME NEW d \in Devs, SetUp(d)
        PROVE  RoutesInClose'
    <2>1. closing' = closing /\ cpc' = cpc
      BY <1>3, SetUpFrame
    <2>2. CASE New(d)
      <3>1. cpc # "idle" => raced'
        BY <2>2 DEF New
      <3>. QED BY <2>1, <3>1 DEF RoutesInClose
    <2>3. CASE ~New(d)
      <3>1. raced' = raced /\ pc[d] \notin Steady
        BY <1>3, <2>3, SetUpFrame, SetUpMoves DEF SetUp, Steady
      <3>2. ~raced => cpc = "idle"
        BY <3>1 DEF CloseKnowsItsDevice, Alone
      <3>. QED BY <2>1, <3>1, <3>2 DEF RoutesInClose
    <2>. QED BY <2>2, <2>3
  <1>. QED BY <1>1, <1>2, <1>3, StepKinds

(* What SetDNS and RestoreDNS do to the services' DNS servers. *)
LEMMA DNSSteps ==
    ASSUME TypeOK, FieldsFollowSetUp, NEW d \in Devs
    PROVE  /\ GetDNSServers(d) =>
                 \/ savedDNS'[d] = dns[service[d]] /\ failed' = failed
                 \/ <<d, "getdns">> \in failed'
           /\ SetDNSServers(d) =>
                 /\ service[d] \in Services
                 /\ \A s \in Services : s # service[d] => dns'[s] = dns[s]
  <1>1. ASSUME GetDNSServers(d)
        PROVE  \/ savedDNS'[d] = dns[service[d]] /\ failed' = failed
               \/ <<d, "getdns">> \in failed'
    BY <1>1 DEF GetDNSServers, Fail, TypeOK
  <1>2. ASSUME SetDNSServers(d)
        PROVE  /\ service[d] \in Services
               /\ \A s \in Services : s # service[d] => dns'[s] = dns[s]
    <2>1. service[d] \in Services
      BY <1>2 DEF SetDNSServers, Goto, FieldsFollowSetUp, TypeOK
    <2>2. dns' = dns \/ dns' = [dns EXCEPT ![service[d]] = "public"]
      BY <1>2 DEF SetDNSServers
    <2>. QED BY <2>1, <2>2 DEF TypeOK
  <1>. QED BY <1>1, <1>2

LEMMA DNSFunctions ==
    ASSUME TypeOK, NEW f \in [Services -> {"dhcp", "custom", "public"}]
    PROVE  /\ \A s \in Services : initial.dns[s] \in {"dhcp", "custom"}
           /\ (\A s \in Services : f[s] = initial.dns[s]) => f = initial.dns
  <1>1. initial.dns \in [Services -> {"dhcp", "custom"}]
    BY DEF TypeOK
  <1>. QED BY <1>1

LEMMA DNSInClose ==
    ASSUME TypeOK, TypeOK', FieldsFollowSetUp, CloseKnowsItsDevice, DNSKnown, CloseStep
    PROVE  DNSKnown'
  <1>1. /\ UNCHANGED <<initial, gateway, service, savedDNS, pc>> /\ cpc' # "idle"
        /\ failed \subseteq failed'
    BY CloseFrame
  <1>2. CASE ~RestoreDNS
    <2>1. UNCHANGED <<dns, closing, raced>>
      BY <1>2, CloseFrame
    <2>2. cpc # "idle"
      BY <1>2 DEF CloseStep, RemoveDefault, RestoreDefault, RemoveHostRoute,
                        CloseIface, CloseGoto
    <2>. QED BY <1>1, <2>1, <2>2 DEF DNSKnown, Alone, OnlyDevice
  <1>3. CASE RestoreDNS
    <2>. DEFINE t == tunDev
    <2>1. t \in Devs /\ closing' = t
      BY <1>3, TunAssumption DEF RestoreDNS, TypeOK, Devs
    <2>2. ~raced' => pc[t] \in Steady
      BY <1>3, <2>1 DEF RestoreDNS, Steady
    <2>3. CASE raced'
      BY <2>3 DEF DNSKnown, Alone
    <2>4. CASE ~raced'
      <3>1. ~raced
        BY <1>3 DEF RestoreDNS, CloseGoto, CloseKnowsItsDevice
      <3>2. service[t] = Unset \/ service[t] \in Services
        BY <2>1 DEF TypeOK
      <3>3. \A s \in Services : s # Unset
        BY UnsetIsNoValue DEF Services
      <3>4. service[t] # Unset => pc[t] = "up"
        BY <2>1, <2>2, <2>4 DEF FieldsFollowSetUp, Steady
      <3>5. \A s \in Services : s # service[t] => dns'[s] = dns[s]
        BY <1>3, <2>1, <3>2 DEF RestoreDNS, TypeOK
      <3>5a. ASSUME service[t] # Unset, savedDNS[t] # Unset, <<t, "dns">> \notin failed'
             PROVE  dns' = [dns EXCEPT ![service[t]] = savedDNS[t]]
        BY <1>3, <3>5a DEF RestoreDNS, Fail
      <3>6. \A s \in Services : dns'[s] # initial.dns[s] =>
                \E d \in Devs : service[d] = s /\ pc[d] = "up"
        BY <2>1, <3>1, <3>3, <3>4, <3>5 DEF DNSKnown
      <3>7. ASSUME <<t, "getdns">> \notin failed', <<t, "dns">> \notin failed', OnlyDevice(t)
            PROVE  \A s \in Services : dns'[s] = initial.dns[s]
        <4>1. \A s \in Services : s # service[t] => dns'[s] = initial.dns[s]
          BY <3>3, <3>6, <3>7 DEF OnlyDevice
        <4>2. ASSUME service[t] \in Services
              PROVE  dns'[service[t]] = initial.dns[service[t]]
          <5>1. savedDNS[t] = initial.dns[service[t]]
            BY <1>1, <2>1, <3>1, <3>3, <3>4, <3>7, <4>2 DEF DNSKnown
          <5>2. savedDNS[t] # Unset
            <6>1. dns \in [Services -> {"dhcp", "custom", "public"}]
              BY DEF TypeOK
            <6>. QED BY <4>2, <5>1, <6>1, DNSFunctions, UnsetIsNoValue
          <5>3. dns' = [dns EXCEPT ![service[t]] = savedDNS[t]]
            BY <3>3, <3>5a, <3>7, <4>2, <5>2
          <5>. QED BY <4>2, <5>1, <5>3 DEF TypeOK
        <4>. QED BY <4>1, <4>2
      <3>8. (/\ <<t, "getdns">> \notin failed' /\ <<t, "dns">> \notin failed'
             /\ OnlyDevice(t)) => dns' = initial.dns
        <4>1. dns' \in [Services -> {"dhcp", "custom", "public"}]
          BY DEF TypeOK
        <4>. QED BY <3>7, <4>1, DNSFunctions
      <3>. QED BY <1>1, <2>1, <3>1, <3>6, <3>8 DEF DNSKnown, OnlyDevice
    <2>. QED BY <2>3, <2>4
  <1>. QED BY <1>2, <1>3

LEMMA DNSInSetUp ==
    ASSUME TypeOK, FieldsFollowSetUp, CloseKnowsItsDevice, DNSKnown, NEW d \in Devs, SetUp(d)
    PROVE  DNSKnown'
  <1>1. CASE raced'
    BY <1>1 DEF DNSKnown, Alone
  <1>2. CASE ~raced' /\ New(d)
    <2>1. /\ UNCHANGED <<initial, dns, service, savedDNS, failed, cpc>>
          /\ ~raced /\ cpc = "idle"
      BY <1>2 DEF New, machine, fields
    <2>2. pc[d] = "off" /\ \A e \in Devs \ {d} : pc'[e] = pc[e]
      BY <1>2, SetUpMoves
    <2>3. service[d] = Unset
      BY <2>2 DEF FieldsFollowSetUp
    <2>. QED BY <1>2, <2>1, <2>2, <2>3 DEF DNSKnown, Alone, OnlyDevice
  <1>3. CASE ~raced' /\ ~New(d)
    <2>1. ~raced /\ pc[d] \notin Steady
      BY <1>3, SetUpFrame, SetUpMoves DEF SetUp, Steady
    <2>2. cpc = "idle" /\ cpc' = "idle" /\ initial' = initial
      BY <2>1, SetUpFrame DEF CloseKnowsItsDevice, Alone
    <2>3. ASSUME NEW s \in Services, dns'[s] # initial.dns[s]
          PROVE  \E e \in Devs : service'[e] = s /\ pc'[e] = "up"
      <3>1. CASE dns'[s] = dns[s]
        <4>1. PICK e \in Devs : service[e] = s /\ pc[e] = "up"
          BY <2>1, <2>3, <3>1 DEF DNSKnown
        <4>2. e # d
          BY <2>1, <4>1 DEF Steady
        <4>. QED BY <4>1, <4>2, SetUpMoves, SetUpFields
      <3>2. CASE dns'[s] # dns[s]
        <4>1. SetDNSServers(d)
          BY <3>2, SetUpFrame
        <4>2. service[d] = s /\ service' = service
          BY <3>2, <4>1, DNSSteps DEF SetDNSServers, fields
        <4>. QED BY <4>1, <4>2, SetUpMoves
      <3>. QED BY <3>1, <3>2
    <2>4. service'[d] = Unset => service[d] = Unset
      BY SetUpFields, SetUpFrame, UnsetIsNoValue DEF Services
    <2>5. ASSUME NEW e \in Devs, service'[e] # Unset, pc'[e] \in {"setdns", "up"},
                 <<e, "getdns">> \notin failed', OnlyDevice(e)'
          PROVE  savedDNS'[e] = initial.dns[service'[e]]
      <3>1. <<e, "getdns">> \notin failed
        BY <2>5, SetUpFrame
      <3>2. OnlyDevice(e)
        BY <2>4, <2>5, SetUpFields DEF OnlyDevice
      <3>3. CASE e # d
        BY <2>1, <2>5, <3>1, <3>2, <3>3, SetUpFields, SetUpMoves DEF DNSKnown
      <3>4. CASE e = d /\ GetDNSServers(d)
        <4>1. service' = service /\ savedDNS'[d] = dns[service[d]]
          BY <2>5, <3>4, DNSSteps DEF GetDNSServers
        <4>2. service[d] \in Services
          BY <2>5, <3>4, <4>1 DEF TypeOK
        <4>3. dns[service[d]] = initial.dns[service[d]]
          <5>1. ASSUME NEW f \in Devs, service[f] = service[d], pc[f] = "up"
                PROVE  FALSE
            <6>1. f # d
              BY <2>1, <5>1 DEF Steady
            <6>. QED BY <2>5, <3>2, <3>4, <4>1, <5>1, <6>1 DEF OnlyDevice
          <5>. QED BY <2>1, <4>2, <5>1 DEF DNSKnown
        <4>. QED BY <3>4, <4>1, <4>3
      <3>5. CASE e = d /\ SetDNSServers(d)
        BY <2>1, <2>5, <3>1, <3>2, <3>5, SetUpMoves DEF DNSKnown, SetDNSServers, fields
      <3>6. CASE e = d /\ ~GetDNSServers(d) /\ ~SetDNSServers(d)
        <4>1. GetActiveService(d) /\ pc[d] = "service" /\ pc'[d] # "getdns"
          BY <1>3, <2>5, <3>6, SetUpMoves DEF SetUp
        <4>. QED BY <2>5, <3>6, <4>1, SetUpFields DEF FieldsFollowSetUp
      <3>. QED BY <3>3, <3>4, <3>5, <3>6
    <2>. QED BY <2>2, <2>3, <2>5 DEF DNSKnown, Alone
  <1>. QED BY <1>1, <1>2, <1>3

LEMMA DNSInductive ==
    ASSUME TypeOK, TypeOK', FieldsFollowSetUp, CloseKnowsItsDevice, DNSKnown, [Next]_vars
    PROVE  DNSKnown'
  <1>1. CASE UNCHANGED vars
    BY <1>1 DEF vars, machine, fields, closeVars, DNSKnown, Alone, OnlyDevice
  <1>. QED BY <1>1, DNSInClose, DNSInSetUp, StepKinds

-----------------------------------------------------------------------------
(* The route to the VPN server *)

LEMMA HostInClose ==
    ASSUME TypeOK, CloseKnowsItsDevice, HostRouteKept, CloseStep
    PROVE  HostRouteKept'
  <1>1. UNCHANGED <<gateway, pc>> /\ failed \subseteq failed' /\ cpc' # "idle"
    BY CloseFrame
  <1>2. \A d \in Devs : Redirects(d)' <=> Redirects(d)
    BY <1>1 DEF Redirects
  <1>3. /\ raced => raced'
        /\ ~RestoreDNS => closing \in Devs /\ UNCHANGED <<closing, raced>>
    BY CloseFrame, CloseRoutes DEF CloseKnowsItsDevice, CloseStep
  <1>4. "vpn" \in defaults' =>
            \/ "vpn" \in defaults
            \/ RestoreDefault /\ gateway[closing] = "vpn"
    BY CloseRoutes DEF CloseStep
  <1>5. "vpn" \in defaults' => (\E d \in Devs : Redirects(d)') \/ raced'
    BY <1>2, <1>3, <1>4, CloseRoutes DEF HostRouteKept
  <1>6. cpc' \notin {"iface", "closed"} => host' = host /\ cpc \notin {"iface", "closed"}
    BY CloseFrame, CloseRoutes DEF CloseStep
  <1>7. host' = "loop" => host = "loop"
    BY CloseFrame, CloseRoutes
  <1>8. /\ cpc' \in {"restore", "host", "iface", "closed"} /\ ~raced' /\ "vpn" \in defaults' =>
              <<closing', "remove">> \in failed' \/ (cpc' # "restore" /\ gateway'[closing'] = "vpn")
    <2>1. CASE RestoreDNS
      BY <2>1, CloseRoutes
    <2>2. CASE RemoveDefault
      <3>1. "vpn" \in defaults' => <<closing, "remove">> \in failed'
        BY <2>2, CloseRoutes
      <3>. QED BY <1>3, <2>2, <3>1, CloseRoutes
    <2>3. CASE RestoreDefault
      BY <1>1, <1>3, <1>4, <2>3, CloseRoutes DEF HostRouteKept
    <2>4. CASE RemoveHostRoute \/ CloseIface
      BY <1>1, <1>3, <1>4, <2>4, CloseRoutes DEF HostRouteKept
    <2>. QED BY <2>1, <2>2, <2>3, <2>4 DEF CloseStep
  <1>. QED BY <1>1, <1>2, <1>3, <1>5, <1>6, <1>7, <1>8 DEF HostRouteKept

LEMMA HostInSetUp ==
    ASSUME TypeOK, FieldsFollowSetUp, CloseKnowsItsDevice, HostRouteKept,
           NEW d \in Devs, SetUp(d)
    PROVE  HostRouteKept'
  <1>1. closing' = closing /\ cpc' = cpc /\ failed \subseteq failed'
    BY SetUpFrame
  <1>2. raced => raced'
    BY SetUpFrame DEF New
  <1>3. \A e \in Devs \ {d} : gateway'[e] = gateway[e] /\ pc'[e] = pc[e]
    BY SetUpMoves, SetUpFields
  <1>4. /\ gateway[d] # Unset => gateway'[d] = gateway[d] /\ gateway'[d] # Unset
        /\ gateway'[d] # gateway[d] =>
              GetDefaultGateway(d) /\ pc[d] = "gateway" /\ gateway'[d] = Effective
    BY SetUpFrame, SetUpMoves, SetUpFields DEF FieldsFollowSetUp
  <1>5. \A e \in Devs : Redirects(e) => Redirects(e)'
    <2>1. ASSUME Redirects(d) PROVE pc'[d] \in {"getdns", "setdns", "up"}
      BY <2>1, SetUpMoves DEF SetUp, Redirects
    <2>. QED BY <1>3, <1>4, <2>1 DEF Redirects
  <1>6. raced' \/ cpc = "idle"
    <2>1. SUFFICES ASSUME ~raced', cpc # "idle" PROVE FALSE
      OBVIOUS
    <2>2. ~New(d) /\ ~raced
      BY <1>2, <2>1 DEF New
    <2>3. pc[d] \notin Steady
      BY <2>2, SetUpMoves DEF SetUp, Steady
    <2>. QED BY <2>1, <2>2, <2>3 DEF CloseKnowsItsDevice, Alone
  <1>7. "vpn" \in defaults' => (\E e \in Devs : Redirects(e)') \/ raced'
    <2>1. CASE "vpn" \in defaults
      BY <1>2, <1>5, <2>1 DEF HostRouteKept
    <2>2. CASE "vpn" \notin defaults /\ "vpn" \in defaults'
      <3>1. AddDefault(d)
        BY <2>2, SetUpFrame DEF DeleteDefault
      <3>2. pc[d] = "add" /\ pc'[d] = "service"
        BY <3>1, SetUpMoves
      <3>. QED BY <1>4, <3>2 DEF FieldsFollowSetUp, Redirects
    <2>. QED BY <2>1, <2>2
  <1>8. ASSUME cpc' \notin {"iface", "closed"}, NEW e \in Devs, gateway'[e] # Unset,
               pc'[e] # "host", <<e, "host">> \notin failed'
        PROVE  host' # "none"
    <2>1. host # "none" => host' # "none"
      BY SetUpFrame DEF AddHostRoute
    <2>2. CASE e # d
      BY <1>1, <1>3, <1>8, <2>1, <2>2 DEF HostRouteKept
    <2>3. CASE e = d /\ pc[d] # "host" /\ gateway[d] # Unset
      BY <1>1, <1>8, <2>1, <2>3 DEF HostRouteKept
    <2>4. CASE e = d /\ pc[d] # "host" /\ gateway[d] = Unset
      BY <1>4, <1>8, <2>4, SetUpFields
    <2>5. CASE e = d /\ pc[d] = "host"
      <3>1. AddHostRoute(d)
        BY <2>5, SetUpMoves DEF SetUp
      <3>. QED BY <1>8, <2>5, <3>1 DEF AddHostRoute, Fail
    <2>. QED BY <2>2, <2>3, <2>4, <2>5
  <1>9. ASSUME NEW e \in Devs, gateway'[e] = "vpn"
        PROVE  (\E f \in Devs \ {e} : Redirects(f)') \/ raced'
    <2>1. CASE gateway[e] = "vpn"
      BY <1>2, <1>5, <2>1 DEF HostRouteKept
    <2>2. CASE gateway[e] # "vpn"
      <3>1. e = d /\ pc[d] = "gateway" /\ Effective = "vpn"
        BY <1>3, <1>4, <1>9, <2>2
      <3>2. "vpn" \in defaults /\ ~Redirects(d)
        BY <3>1, EffectiveValue DEF Redirects
      <3>. QED BY <1>2, <1>5, <3>1, <3>2 DEF HostRouteKept
    <2>. QED BY <2>1, <2>2
  <1>10. ASSUME host' = "loop"
         PROVE  (\E e \in Devs : <<e, "host">> \in failed') \/ raced'
    <2>1. CASE host = "loop"
      BY <1>1, <1>2, <2>1 DEF HostRouteKept
    <2>2. CASE host # "loop"
      <3>1. AddHostRoute(d)
        BY <1>10, <2>2, SetUpFrame
      <3>2. gateway[d] # "gw" /\ pc[d] = "host" /\ host = "none"
        BY <1>10, <2>2, <3>1, SetUpMoves DEF AddHostRoute
      <3>3. gateway[d] = "vpn"
        BY <3>2 DEF FieldsFollowSetUp, TypeOK
      <3>4. CASE raced
        BY <1>2, <3>4
      <3>5. CASE ~raced'
        <4>1. PICK e \in Devs \ {d} : Redirects(e)
          BY <1>2, <3>3, <3>5 DEF HostRouteKept
        <4>2. <<e, "host">> \in failed
          BY <1>6, <3>2, <3>5, <4>1 DEF HostRouteKept, Redirects
        <4>. QED BY <1>1, <4>2
      <3>. QED BY <3>4, <3>5
    <2>. QED BY <2>1, <2>2
  <1>. QED BY <1>1, <1>6, <1>7, <1>8, <1>9, <1>10 DEF HostRouteKept

LEMMA HostInductive ==
    ASSUME TypeOK, FieldsFollowSetUp, CloseKnowsItsDevice, HostRouteKept, [Next]_vars
    PROVE  HostRouteKept'
  <1>1. CASE UNCHANGED vars
    BY <1>1 DEF vars, routes, fields, closeVars, HostRouteKept, Redirects
  <1>. QED BY <1>1, HostInClose, HostInSetUp, StepKinds

-----------------------------------------------------------------------------
(* The theorems *)

LEMMA TypeInductive ==
    ASSUME TypeOK, FieldsFollowSetUp, CloseKnowsItsDevice, [Next]_vars
    PROVE  TypeOK'
  <1>1. CASE UNCHANGED vars
    BY <1>1 DEF vars, machine, routes, fields, closeVars, TypeOK
  <1>. QED BY <1>1, CloseTypes, SetUpTypes, StepKinds

LEMMA TunInit ==
    ASSUME Init
    PROVE  TunInv
  <1>1. TypeOK
    BY TypeInit
  <1>2. /\ \A d \in Devs : pc[d] = "off" /\ gateway[d] = Unset /\ service[d] = Unset
        /\ host = initial.host /\ defaults = initial.defaults /\ dns = initial.dns
        /\ host \in {"none", "user"} /\ "vpn" \notin defaults
        /\ cpc = "idle" /\ ~raced /\ \A d \in Devs : iface[d] = "none"
    BY DEF Init
  <1>3. Unset # "gw" /\ Unset # "vpn"
    BY UnsetIsNoValue
  <1>4. /\ FieldsFollowSetUp /\ CloseKnowsItsDevice /\ LinuxHasOneDevice
        /\ ServerSetsNoRoutes
    BY <1>2 DEF FieldsFollowSetUp, CloseKnowsItsDevice, LinuxHasOneDevice,
                ServerSetsNoRoutes, Alone, Steady
  <1>5. MachineRoutesKnown /\ RoutesInClose /\ DNSKnown /\ HostRouteKept
    BY <1>2, <1>3 DEF MachineRoutesKnown, RoutesInClose, DNSKnown, HostRouteKept, Alone
  <1>. QED BY <1>1, <1>4, <1>5 DEF TunInv

(* What the devices' fields tell of the machine's settings, at every step   *)
(* of New, SetDefaultRoute, SetDNS and Close (tun.go).                     *)
THEOREM TunInvariant == Spec => []TunInv
  <1>1. Init => TunInv
    BY TunInit
  <1>2. TunInv /\ [Next]_vars => TunInv'
    <2>. SUFFICES ASSUME TunInv, [Next]_vars PROVE TunInv'
      OBVIOUS
    <2>1. /\ TypeOK' /\ FieldsFollowSetUp' /\ CloseKnowsItsDevice'
          /\ LinuxHasOneDevice' /\ ServerSetsNoRoutes'
      BY TypeInductive, FieldsInductive, CloseInductive, OneDeviceInductive,
         ServerInductive DEF TunInv
    <2>2. MachineRoutesKnown' /\ RoutesInClose'
      BY RoutesKnownInductive, RoutesInCloseInductive DEF TunInv
    <2>3. DNSKnown' /\ HostRouteKept'
      BY <2>1, DNSInductive, HostInductive DEF TunInv
    <2>. QED BY <2>1, <2>2, <2>3 DEF TunInv
  <1>. QED BY <1>1, <1>2, PTL DEF Spec

(* The values the fields and settings take (tun.go).                       *)
THEOREM TypeCorrect == Spec => []TypeOK
  BY TunInvariant, PTL DEF TunInv

(* What Close leaves of the machine's routes, with any number of devices    *)
(* that earlier connections left open, and whichever commands of the       *)
(* set-up and of Close itself failed (tun.go:162-263, 316-322).            *)
THEOREM RoutesComeBack == Spec => []RoutesAfterClose
  <1>1. ASSUME TunInv, cpc = "closed", ~raced PROVE RoutesAfterClose
    <2>. USE <1>1 DEF TunInv
    <2>1. initial.defaults \in {{}, {"gw"}} /\ closing \in Devs
      BY DEF TypeOK, CloseKnowsItsDevice
    <2>2. ASSUME os = "linux" PROVE defaults = initial.defaults
      <3>1. "vpn" \notin defaults /\ defaults \ {"vpn"} = initial.defaults
        BY <2>2 DEF RoutesInClose, MachineRoutesKnown
      <3>. QED BY <3>1
    <2>3. ASSUME os = "darwin", <<closing, "remove">> \notin failed,
                 <<closing, "restore">> \notin failed
          PROVE  defaults = initial.defaults <=>
                     initial.defaults = {} \/ gateway[closing] = "gw"
      <3>1. CASE gateway[closing] = "gw"
        <4>1. initial.defaults = {"gw"}
          BY <2>1, <3>1, UnsetIsNoValue DEF MachineRoutesKnown
        <4>2. defaults = {"gw"}
          BY <2>3, <3>1 DEF RoutesInClose
        <4>. QED BY <3>1, <4>1, <4>2
      <3>2. CASE gateway[closing] # "gw"
        <4>1. "gw" \notin defaults
          BY <2>3, <3>2 DEF RoutesInClose
        <4>2. initial.defaults = {} => defaults = {}
          BY <4>1 DEF MachineRoutesKnown, TypeOK
        <4>. QED BY <2>1, <3>2, <4>1, <4>2
      <3>. QED BY <3>1, <3>2
    <2>4. ASSUME <<closing, "unhost">> \notin failed
          PROVE  host = IF role = "client" THEN "none" ELSE initial.host
      <3>1. role \in {"client", "server"}
        BY TunAssumption DEF TypeOK
      <3>. QED BY <2>4, <3>1 DEF RoutesInClose, ServerSetsNoRoutes
    <2>. QED BY <2>2, <2>3, <2>4 DEF RoutesAfterClose
  <1>2. TunInv => RoutesAfterClose
    BY <1>1 DEF RoutesAfterClose
  <1>. QED BY <1>2, TunInvariant, PTL

(* Close gives every service its DNS servers back if they could be read     *)
(* and set, also when the service taken for the active one is another      *)
(* (tun.go:352-424).                                                       *)
THEOREM DNSComesBack == Spec => []DNSRestored
  <1>1. TunInv => DNSRestored
    BY DEF TunInv, DNSKnown, DNSRestored, Alone, OnlyDevice
  <1>. QED BY <1>1, TunInvariant, PTL

(* Packets to the VPN server enter the VPN, at any step of setting up and   *)
(* closing, only after the route to the server could not be added, Close   *)
(* left a default route through the VPN when it removed the server's, or   *)
(* Close met a Connect (tun.go:171-260).                                   *)
THEOREM LoopsExplained == Spec => []LoopCauses
  <1>1. TunInv => LoopCauses
    <2>. SUFFICES ASSUME TunInv, Effective = "vpn", host \notin {"user", "ours"}, ~raced,
                         \A d \in Devs : <<d, "host">> \notin failed
                  PROVE  /\ cpc \in {"iface", "closed"}
                         /\ <<closing, "remove">> \in failed \/ gateway[closing] = "vpn"
      BY DEF LoopCauses
    <2>. USE DEF TunInv
    <2>1. "vpn" \in defaults
      BY EffectiveValue
    <2>2. host = "none"
      BY DEF HostRouteKept, TypeOK
    <2>3. PICK d \in Devs : Redirects(d)
      BY <2>1 DEF HostRouteKept
    <2>4. cpc \in {"iface", "closed"}
      BY <2>2, <2>3 DEF HostRouteKept, Redirects
    <2>. QED BY <2>1, <2>4 DEF HostRouteKept
  <1>. QED BY <1>1, TunInvariant, PTL
=============================================================================
