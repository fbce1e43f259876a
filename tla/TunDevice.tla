----------------------------- MODULE TunDevice ------------------------------
(***************************************************************************)
(* The TUN device (pkg/tun/tun.go): what New, SetDefaultRoute, SetDNS and  *)
(* Close do to the machine's routes and DNS settings.  Every command they  *)
(* run is a step of its own, and may fail.                                 *)
(*                                                                         *)
(* The client creates a device in each Connect, sets the default route and *)
(* DNS (client.go:137-156), and closes the last one in Disconnect; the     *)
(* server creates one and closes it in Stop, and sets neither.             *)
(***************************************************************************)
EXTENDS Naturals

CONSTANTS MaxDevs,   \* devices the client creates, one per Connect
          OSes,      \* operating systems, runtime.GOOS
          Roles      \* programs that use the device

ASSUME TunAssumption ==
    /\ MaxDevs \in Nat \ {0}
    /\ OSes \subseteq {"linux", "darwin"}
    /\ Roles \subseteq {"client", "server"}

Devs     == 1 .. MaxDevs
Services == {"Wi-Fi", "Ethernet"}   \* macOS network services
Unset    == ""                      \* a string field that was never set

VARIABLES
    os, role,
    active,        \* the network service in use
    gwPreferred,   \* Linux: the machine's default route has metric 0
    initial,       \* the machine's settings before the program started
    defaults,      \* gateways of the default routes: the machine's, the VPN's
    host,          \* the route to the VPN server: the user's, ours, or through the VPN
    dns,           \* dns[s]: DNS servers of network service s
    iface,         \* iface[d]: the interface of device d
    gateway,       \* d.originalGateway, Unset if never set
    service,       \* d.networkService, Unset if never set
    savedDNS,      \* d.originalDNS, Unset if never set or not readable
    pc,            \* setting device d up
    failed,        \* commands that failed although nothing was in the way
    tunDev,        \* the caller's tunDevice field, 0 for nil
    closing, cpc,  \* the device in Close, 0 for none, and Close's progress
    raced          \* Close met a reconnection that was under way

machine   == <<os, role, active, gwPreferred, initial>>
routes    == <<defaults, host>>
fields    == <<gateway, service, savedDNS>>
closeVars == <<closing, cpc, raced>>
vars      == <<machine, routes, dns, iface, fields, pc, failed, tunDev,
               closeVars>>

Init ==
    /\ os \in OSes /\ role \in Roles
    /\ active \in Services
    /\ gwPreferred \in IF os = "linux" THEN BOOLEAN ELSE {FALSE}
    /\ defaults \in {{}, {"gw"}}
    /\ host \in {"none", "user"}
    /\ dns \in IF os = "darwin" THEN [Services -> {"dhcp", "custom"}]
                                ELSE {[s \in Services |-> "dhcp"]}
    /\ initial = [defaults |-> defaults, host |-> host, dns |-> dns]
    /\ iface = [d \in Devs |-> "none"]
    /\ gateway = [d \in Devs |-> Unset]
    /\ service = [d \in Devs |-> Unset]
    /\ savedDNS = [d \in Devs |-> Unset]
    /\ pc = [d \in Devs |-> "off"]
    /\ failed = {}
    /\ tunDev = 0 /\ closing = 0 /\ cpc = "idle" /\ raced = FALSE

(* The default route packets take; `route get` and `ip route` show it first. *)
Effective ==
    IF defaults = {"gw", "vpn"} THEN IF gwPreferred THEN "gw" ELSE "vpn"
    ELSE IF defaults = {} THEN "none" ELSE CHOOSE g \in defaults : TRUE

-----------------------------------------------------------------------------
(* Setting a device up *)

Goto(d, from, to) ==
    /\ pc[d] = from
    /\ pc' = [pc EXCEPT ![d] = to]

Fail(d, command) == failed' = failed \cup {<<d, command>>}

(***************************************************************************)
(* New; configure's failure closes the interface again.  On Linux the name *)
(* hydra0 is taken while another device is open.  A second device is the   *)
(* client's, of a reconnection.                                            *)
(***************************************************************************)
New(d) ==
    /\ d > 1 => role = "client" /\ pc[d - 1] \in {"up", "error"}
    /\ \/ /\ os = "linux" => \A e \in Devs : iface[e] # "open"
          /\ Goto(d, "off", IF role = "client" THEN "gateway" ELSE "up")
          /\ iface' = [iface EXCEPT ![d] = "open"]
          /\ tunDev' = d
       \/ /\ Goto(d, "off", "error")
          /\ UNCHANGED <<iface, tunDev>>
    /\ raced' = (raced \/ cpc # "idle")
    /\ UNCHANGED <<machine, routes, dns, fields, failed, closing, cpc>>

(* A slip: the error is not looked at. *)
GetDefaultGatewayUnchecked(d) ==
    /\ Goto(d, "gateway", "host")
    /\ gateway' = [gateway EXCEPT ![d] = Effective]
    /\ UNCHANGED <<machine, routes, dns, iface, service, savedDNS, failed,
                   tunDev, closeVars>>

(* getDefaultGateway; its failure ends SetDefaultRoute, and SetDNS follows. *)
GetDefaultGateway(d) ==
    /\ \/ /\ Goto(d, "gateway", "host")
          /\ Effective # "none"
          /\ gateway' = [gateway EXCEPT ![d] = Effective]
          /\ UNCHANGED failed
       \/ /\ Goto(d, "gateway", "service")
          /\ Fail(d, "gateway")
          /\ UNCHANGED gateway
    /\ UNCHANGED <<machine, routes, dns, iface, service, savedDNS, tunDev,
                   closeVars>>

AfterHost == IF os = "darwin" THEN "delete" ELSE "add"

(* A slip: no route to the server is added. *)
AddHostRouteSkipped(d) ==
    /\ Goto(d, "host", AfterHost)
    /\ UNCHANGED <<machine, routes, dns, iface, fields, failed, tunDev,
                   closeVars>>

(* The route to the VPN server through the original gateway; errors ignored. *)
AddHostRoute(d) ==
    /\ Goto(d, "host", AfterHost)
    /\ \/ /\ host = "none"
          /\ host' = IF gateway[d] = "gw" THEN "ours" ELSE "loop"
          /\ UNCHANGED failed
       \/ /\ host = "none"
          /\ Fail(d, "host")
          /\ UNCHANGED host
       \/ host # "none" /\ UNCHANGED <<host, failed>>
    /\ UNCHANGED <<machine, defaults, dns, iface, fields, tunDev, closeVars>>

(* macOS: `route delete default`, error ignored. *)
DeleteDefault(d) ==
    /\ Goto(d, "delete", "add")
    /\ defaults' \in {{}, defaults}
    /\ UNCHANGED <<machine, host, dns, iface, fields, failed, tunDev,
                   closeVars>>

(* The default route through the VPN; macOS keeps a single default route. *)
AddDefault(d) ==
    /\ Goto(d, "add", "service")
    /\ \/ /\ IF os = "darwin" THEN defaults = {} ELSE "vpn" \notin defaults
          /\ defaults' = defaults \cup {"vpn"}
       \/ UNCHANGED defaults
    /\ UNCHANGED <<machine, host, dns, iface, fields, failed, tunDev, closeVars>>

(***************************************************************************)
(* getActiveNetworkService looks up the service of the default route's     *)
(* interface and falls back to Wi-Fi, for the TUN interface too.  On Linux *)
(* SetDNS only touches the device's own link.                              *)
(***************************************************************************)
GetActiveService(d) ==
    /\ IF os = "darwin"
         THEN /\ Goto(d, "service", "getdns")
              /\ \/ /\ service' = [service EXCEPT ![d] =
                                       IF Effective = "gw" THEN active ELSE "Wi-Fi"]
                    /\ UNCHANGED failed
                 \/ /\ service' = [service EXCEPT ![d] = "Wi-Fi"]
                    /\ Fail(d, "service")
         ELSE Goto(d, "service", "up") /\ UNCHANGED <<service, failed>>
    /\ UNCHANGED <<machine, routes, dns, iface, gateway, savedDNS, tunDev,
                   closeVars>>

(* A slip: the servers are set without being read before. *)
GetDNSServersSkipped(d) ==
    /\ Goto(d, "getdns", "setdns")
    /\ UNCHANGED <<machine, routes, dns, iface, fields, failed, tunDev,
                   closeVars>>

(* networksetup -getdnsservers, its error ignored. *)
GetDNSServers(d) ==
    /\ Goto(d, "getdns", "setdns")
    /\ \/ /\ savedDNS' = [savedDNS EXCEPT ![d] = dns[service[d]]]
          /\ UNCHANGED failed
       \/ /\ Fail(d, "getdns")
          /\ UNCHANGED savedDNS
    /\ UNCHANGED <<machine, routes, dns, iface, gateway, service, tunDev,
                   closeVars>>

SetDNSServers(d) ==
    /\ Goto(d, "setdns", "up")
    /\ \/ /\ dns' = [dns EXCEPT ![service[d]] = "public"]
          /\ UNCHANGED failed
       \/ /\ Fail(d, "setdns")
          /\ UNCHANGED dns
    /\ UNCHANGED <<machine, routes, iface, fields, tunDev, closeVars>>

-----------------------------------------------------------------------------
(* Close, called once, on the device the field holds *)

CloseGoto(from, to) == cpc = from /\ cpc' = to

(* RestoreDNS; the answer "There aren't any DNS Servers" is dhcp. *)
RestoreDNS ==
    /\ CloseGoto("idle", "delete")
    /\ tunDev # 0
    /\ pc[1] \in {"up", "error"}   \* the caller's Connect, or Start, has returned
    /\ closing' = tunDev
    /\ raced' = \E d \in Devs : pc[d] \notin {"off", "up", "error"}
    /\ \/ /\ dns' = IF service[tunDev] = Unset THEN dns
                    ELSE [dns EXCEPT ![service[tunDev]] =
                             IF savedDNS[tunDev] = Unset THEN "dhcp" ELSE savedDNS[tunDev]]
          /\ UNCHANGED failed
       \/ /\ service[tunDev] # Unset
          /\ Fail(tunDev, "dns")
          /\ UNCHANGED dns
    /\ UNCHANGED <<machine, routes, iface, fields, pc, tunDev>>

(* RemoveDefaultRoute: `route delete default`, or the VPN's route on Linux. *)
RemoveDefault ==
    /\ CloseGoto("delete", "restore")
    /\ \/ /\ defaults' = IF os = "darwin" THEN {} ELSE defaults \ {"vpn"}
          /\ UNCHANGED failed
       \/ /\ Fail(closing, "remove")
          /\ UNCHANGED defaults
    /\ UNCHANGED <<machine, host, dns, iface, fields, pc, tunDev, closing, raced>>

(* A slip: the default route is not put back. *)
RestoreDefaultForgotten ==
    /\ CloseGoto("restore", "host")
    /\ UNCHANGED <<machine, routes, dns, iface, fields, pc, failed, tunDev,
                   closing, raced>>

(* macOS: the default route through the gateway that was saved, if any. *)
RestoreDefault ==
    /\ CloseGoto("restore", "host")
    /\ IF os = "darwin" /\ gateway[closing] # Unset /\ defaults = {}
         THEN \/ defaults' = {gateway[closing]} /\ UNCHANGED failed
              \/ Fail(closing, "restore") /\ UNCHANGED defaults
         ELSE UNCHANGED <<defaults, failed>>
    /\ UNCHANGED <<machine, host, dns, iface, fields, pc, tunDev, closing, raced>>

(* The route to the VPN server; the server's device has no vpnServerIP. *)
RemoveHostRoute ==
    /\ CloseGoto("host", "iface")
    /\ IF role = "client" /\ host # "none"
         THEN \/ host' = "none" /\ UNCHANGED failed
              \/ Fail(closing, "unhost") /\ UNCHANGED host
         ELSE UNCHANGED <<host, failed>>
    /\ UNCHANGED <<machine, defaults, dns, iface, fields, pc, tunDev, closing, raced>>

(* iface.Close: a route through an interface goes with the last one. *)
CloseIface ==
    /\ CloseGoto("iface", "closed")
    /\ iface' = [iface EXCEPT ![closing] = "closed"]
    /\ defaults' = IF \A e \in Devs \ {closing} : iface[e] # "open"
                     THEN defaults \ {"vpn"} ELSE defaults
    /\ UNCHANGED <<machine, host, dns, fields, pc, failed, tunDev, closing, raced>>

Next ==
    \/ \E d \in Devs :
          \/ New(d) \/ GetDefaultGateway(d) \/ AddHostRoute(d) \/ DeleteDefault(d)
          \/ AddDefault(d) \/ GetActiveService(d) \/ GetDNSServers(d) \/ SetDNSServers(d)
    \/ RestoreDNS \/ RemoveDefault \/ RestoreDefault \/ RemoveHostRoute \/ CloseIface

Spec == Init /\ [][Next]_vars

-----------------------------------------------------------------------------
(* Properties *)

TypeOK ==
    /\ os \in OSes /\ role \in Roles /\ active \in Services /\ gwPreferred \in BOOLEAN
    /\ defaults \subseteq {"gw", "vpn"}
    /\ os = "darwin" => defaults # {"gw", "vpn"}
    /\ host \in {"none", "user", "ours", "loop"}
    /\ dns \in [Services -> {"dhcp", "custom", "public"}]
    /\ initial \in [defaults : {{}, {"gw"}}, host : {"none", "user"},
                    dns : [Services -> {"dhcp", "custom"}]]
    /\ iface \in [Devs -> {"none", "open", "closed"}]
    /\ gateway \in [Devs -> {Unset, "gw", "vpn"}]
    /\ service \in [Devs -> Services \cup {Unset}]
    /\ savedDNS \in [Devs -> {Unset, "dhcp", "custom", "public"}]
    /\ pc \in [Devs -> {"off", "error", "gateway", "host", "delete", "add", "service",
                        "getdns", "setdns", "up"}]
    /\ failed \subseteq Devs \X {"gateway", "host", "service", "getdns", "setdns",
                              "dns", "remove", "restore", "unhost"}
    /\ tunDev \in 0 .. MaxDevs /\ closing \in 0 .. MaxDevs /\ raced \in BOOLEAN
    /\ cpc \in {"idle", "delete", "restore", "host", "iface", "closed"}

(***************************************************************************)
(* What Close leaves of the routes, if no Connect is under way.  On Linux  *)
(* the default routes are the machine's again, whichever commands failed.  *)
(* On macOS, where none of Close's own commands fails, exactly if there    *)
(* was none or the device closed had found the machine's gateway: not on a *)
(* server, which looks for none, nor after a reconnection, whose device    *)
(* finds the VPN's.  A client's route to the server is gone, also the      *)
(* user's own (tun.go:162-263, 316-322, client.go:142).                    *)
(***************************************************************************)
RoutesAfterClose ==
    cpc = "closed" /\ ~raced =>
        /\ os = "linux" => defaults = initial.defaults
        /\ os = "darwin" /\ <<closing, "remove">> \notin failed
                         /\ <<closing, "restore">> \notin failed =>
              (defaults = initial.defaults <=>
                   initial.defaults = {} \/ gateway[closing] = "gw")
        /\ <<closing, "unhost">> \notin failed =>
              host = IF role = "client" THEN "none" ELSE initial.host

(***************************************************************************)
(* Close gives every network service its DNS servers back if they could be *)
(* read and set, whichever service was taken for the active one, provided  *)
(* that the device is the only one: another one of an earlier connection   *)
(* is never closed (tun.go:352-424, client.go:418-420).                    *)
(***************************************************************************)
DNSRestored ==
    (/\ cpc = "closed" /\ ~raced
     /\ <<closing, "getdns">> \notin failed /\ <<closing, "dns">> \notin failed
     /\ \A d \in Devs \ {closing} : service[d] = Unset)
        => dns = initial.dns

(***************************************************************************)
(* The only ways into a routing loop, in which packets to the VPN server   *)
(* enter the VPN, at any step of setting up and closing: the route to the  *)
(* server could not be added; Close has come past the removal of that      *)
(* route and left a default route through the VPN, since it could not      *)
(* delete it or had saved it for the machine's; or Close met a Connect     *)
(* that was under way (tun.go:171-189, 202-212, 231-245, 252-260).         *)
(***************************************************************************)
LoopCauses ==
    /\ Effective = "vpn" /\ host \notin {"user", "ours"}
    => \/ \E d \in Devs : <<d, "host">> \in failed
       \/ /\ cpc \in {"iface", "closed"}
          /\ <<closing, "remove">> \in failed \/ gateway[closing] = "vpn"
       \/ raced
=============================================================================
