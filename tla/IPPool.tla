------------------------------- MODULE IPPool -------------------------------
(***************************************************************************)
(* The server's pool of VPN addresses (pkg/server/server.go, type IPPool). *)
(*                                                                         *)
(* An address is its host number: the pool computes baseIP + hostNum and   *)
(* keys the map `used` by the printed address, and both maps are           *)
(* injective, so a set of host numbers is the same information.  p.mu is   *)
(* held for the whole of Allocate and Release, which makes each of them    *)
(* one step.                                                               *)
(***************************************************************************)
EXTENDS Integers, FiniteSets

CONSTANT MaxHosts   \* maxHosts == 1 << (bits - ones); 256 for 10.8.0.0/24

(***************************************************************************)
(* A /30 (MaxHosts = 4) is the smallest subnet Allocate can serve; for a   *)
(* /32 the modulus maxHosts-1 is zero.  uint32 never wraps below 2^31.     *)
(***************************************************************************)
ASSUME MaxHostsAssumption == MaxHosts \in Nat /\ MaxHosts >= 4

VARIABLES used,       \* host numbers handed out and not yet released
          nextHost    \* where the next search starts

poolVars == <<used, nextHost>>

(* Every host number of the subnet. *)
HostNums == 0 .. (MaxHosts - 1)

(* .0 is the network, .1 the server, MaxHosts-1 the broadcast address. *)
Hosts == 2 .. (MaxHosts - 2)

PoolInit ==
    /\ used = {}
    /\ nextHost = 2

-----------------------------------------------------------------------------

(* The loop counter i of Allocate runs over 0 <= i < maxHosts-2. *)
Probes == 0 .. (MaxHosts - 3)

(* A slip in the modulus: the broadcast address becomes a candidate. *)
HostNumWrongModulus(next, i) ==
    LET h == (next + i) % MaxHosts IN IF h < 2 THEN 2 ELSE h

(* A slip in the clamp: the server's own address becomes a candidate. *)
HostNumNoReserve(next, i) == (next + i) % (MaxHosts - 1)

(* A slip in the step: the search starts one address late. *)
HostNumSkipsOne(next, i) ==
    LET h == (next + i + 1) % (MaxHosts - 1) IN IF h < 2 THEN 2 ELSE h

(* The candidate tried in iteration i of a search that starts at next. *)
HostNum(next, i) ==
    LET h == (next + i) % (MaxHosts - 1) IN IF h < 2 THEN 2 ELSE h

(* The iterations that would find a free address. *)
FreeProbes(u, next) == {i \in Probes : HostNum(next, i) \notin u}

CanAllocate(u, next) == FreeProbes(u, next) # {}

(* The loop returns at the first free candidate. *)
FirstFree(u, next) ==
    HostNum(next, CHOOSE i \in FreeProbes(u, next) :
                      \A j \in FreeProbes(u, next) : i <= j)

(* A slip: the cursor alone is to keep addresses from being handed out twice. *)
AllocateUnmarked(h) ==
    /\ CanAllocate(used, nextHost)
    /\ h = FirstFree(used, nextHost)
    /\ nextHost' = h + 1
    /\ UNCHANGED used

(* Allocate, returning host number h. *)
Allocate(h) ==
    /\ CanAllocate(used, nextHost)
    /\ h = FirstFree(used, nextHost)
    /\ used' = used \cup {h}
    /\ nextHost' = h + 1

(* Allocate, returning the error "IP pool exhausted". *)
AllocateFails ==
    /\ ~CanAllocate(used, nextHost)
    /\ UNCHANGED poolVars

Release(h) ==
    /\ used' = used \ {h}
    /\ UNCHANGED nextHost

(* Callers release only what Allocate gave them (server.go:301). *)
PoolNext ==
    \/ \E h \in HostNums : Allocate(h)
    \/ AllocateFails
    \/ \E h \in used : Release(h)

PoolSpec == PoolInit /\ [][PoolNext]_poolVars

-----------------------------------------------------------------------------

(* Only assignable host numbers are ever in use, and the cursor stays in   *)
(* the range for which one wrap-around covers the search.                  *)
PoolTypeOK ==
    /\ used \subseteq Hosts
    /\ nextHost \in 2 .. (MaxHosts - 1)

(* Distance, going round Hosts, from the cursor to h. *)
Ahead(next, h) == IF h >= next THEN h - next ELSE h - next + (MaxHosts - 3)

(***************************************************************************)
(* Allocate hands out an address nobody holds, and of the free ones the    *)
(* one that comes soonest after the last address handed out: a released    *)
(* address rests while any other is free (server.go:82-98, nextHost).      *)
(***************************************************************************)
RoundRobin ==
    [][\A h \in used' \ used :
          /\ h \in Hosts
          /\ \A g \in Hosts \ used :
                g # nextHost - 1 => Ahead(nextHost, h) <= Ahead(nextHost, g)]_poolVars

(***************************************************************************)
(* What "IP pool exhausted" (server.go:100) means: every address is in use *)
(* but, perhaps, the one handed out last, which the search of maxHosts-2   *)
(* iterations modulo maxHosts-1 does not look at; .2, which stands for .0  *)
(* and .1 as well, it always does.  A pool with that one address free is   *)
(* as good as full.                                                        *)
(***************************************************************************)
ExhaustedUpToLast ==
    ~CanAllocate(used, nextHost) <=> Hosts \ used \subseteq {nextHost - 1} \ {2}
=============================================================================
