---------------------------- MODULE IPPoolProofs ----------------------------
(***************************************************************************)
(* Proofs about the address pool, for every size of the subnet.  The       *)
(* search of Allocate is first turned into linear arithmetic (HostNumEq),  *)
(* then shown to find the free address closest ahead of the cursor         *)
(* (FirstFreeFacts) and to miss at most the address handed out last        *)
(* (ProbeOf).                                                              *)
(***************************************************************************)
EXTENDS IPPool, WellFoundedInduction, TLAPS

(* A non-empty set of naturals has a least element. *)
LEMMA LeastNat ==
    ASSUME NEW T, T \subseteq Nat, T # {}
    PROVE  \E x \in T : \A y \in T : x <= y
  <1>. DEFINE R == {ss \in Nat \X Nat : ss[1] < ss[2]}
  <1>1. IsWellFoundedOn(R, Nat)
    BY NatLessThanWellFounded DEF OpToRel
  <1>2. PICK x \in T : \A y \in T : <<y, x>> \notin R
    <2>. HIDE DEF R
    <2>. QED BY <1>1, WFMin
  <1>3. ASSUME NEW y \in T PROVE x <= y
    <2>1. x \in Nat /\ y \in Nat
      OBVIOUS
    <2>2. y < x => <<y, x>> \in R
      BY <2>1
    <2>. QED BY <1>2, <2>1, <2>2
  <1>. QED BY <1>3

(* The remainder of a number below twice the modulus. *)
LEMMA ModOnce ==
    ASSUME NEW k \in Nat, k > 0, NEW a \in Nat, a < 2 * k
    PROVE  a % k = IF a < k THEN a ELSE a - k
  <1>1. CASE a < k
    BY <1>1, SMT
  <1>2. CASE a >= k
    BY <1>2, SMT
  <1>. QED BY <1>1, <1>2

(* The candidate of iteration i wraps round at most once. *)
LEMMA HostNumEq ==
    ASSUME NEW next \in 2 .. (MaxHosts - 1), NEW i \in Probes
    PROVE  LET w == next + i - (MaxHosts - 1)
           IN  HostNum(next, i) =
                 IF w < 0 THEN next + i ELSE IF w < 2 THEN 2 ELSE w
  <1>1. (next + i) % (MaxHosts - 1) =
          IF next + i < MaxHosts - 1 THEN next + i ELSE next + i - (MaxHosts - 1)
    BY ModOnce, MaxHostsAssumption DEF Probes
  <1>. QED BY <1>1, MaxHostsAssumption DEF HostNum, Probes

(* Every candidate is an assignable host number. *)
LEMMA HostNumInHosts ==
    ASSUME NEW next \in 2 .. (MaxHosts - 1), NEW i \in Probes
    PROVE  HostNum(next, i) \in Hosts
  BY HostNumEq, MaxHostsAssumption DEF Hosts, Probes

(* Every assignable host number but the one just below the cursor is the   *)
(* candidate of some iteration.                                            *)
ProbeOf(next, h) == IF h >= next THEN h - next ELSE h - next + (MaxHosts - 1)

LEMMA ProbeOfFinds ==
    ASSUME NEW next \in 2 .. (MaxHosts - 1), NEW h \in Hosts, h # next - 1
    PROVE  /\ ProbeOf(next, h) \in Probes
           /\ HostNum(next, ProbeOf(next, h)) = h
  <1>1. ProbeOf(next, h) \in Probes
    BY MaxHostsAssumption DEF ProbeOf, Hosts, Probes
  <1>2. HostNum(next, ProbeOf(next, h)) = h
    BY <1>1, HostNumEq, MaxHostsAssumption DEF ProbeOf, Hosts
  <1>. QED BY <1>1, <1>2

(* The loop stops at the least iteration that finds a free candidate. *)
LEMMA FirstFreeFacts ==
    ASSUME NEW u, NEW next \in 2 .. (MaxHosts - 1), CanAllocate(u, next)
    PROVE  \E i \in FreeProbes(u, next) :
              /\ FirstFree(u, next) = HostNum(next, i)
              /\ \A j \in FreeProbes(u, next) : i <= j
  <1>1. FreeProbes(u, next) \subseteq Nat /\ FreeProbes(u, next) # {}
    BY MaxHostsAssumption DEF FreeProbes, Probes, CanAllocate
  <1>2. \E i \in FreeProbes(u, next) : \A j \in FreeProbes(u, next) : i <= j
    BY <1>1, LeastNat
  <1>. QED BY <1>2 DEF FirstFree

(* What Allocate may answer: a free, assignable host number. *)
LEMMA FirstFreeIsFree ==
    ASSUME NEW u, NEW next \in 2 .. (MaxHosts - 1), CanAllocate(u, next)
    PROVE  FirstFree(u, next) \in Hosts \ u
  <1>1. PICK i \in FreeProbes(u, next) : FirstFree(u, next) = HostNum(next, i)
    BY FirstFreeFacts
  <1>. QED BY <1>1, HostNumInHosts DEF FreeProbes

(* Of the free host numbers, the one closest ahead of the cursor. *)
LEMMA FirstFreeIsNext ==
    ASSUME NEW u, NEW next \in 2 .. (MaxHosts - 1), CanAllocate(u, next),
           NEW g \in Hosts \ u, g # next - 1
    PROVE  Ahead(next, FirstFree(u, next)) <= Ahead(next, g)
  <1>1. PICK i \in FreeProbes(u, next) :
              /\ FirstFree(u, next) = HostNum(next, i)
              /\ \A j \in FreeProbes(u, next) : i <= j
    BY FirstFreeFacts
  <1>2. ProbeOf(next, g) \in FreeProbes(u, next)
    BY ProbeOfFinds DEF FreeProbes
  <1>3. i \in Probes /\ i <= ProbeOf(next, g)
    BY <1>1, <1>2 DEF FreeProbes
  <1>. QED
    BY <1>1, <1>3, HostNumEq, MaxHostsAssumption DEF Ahead, ProbeOf, Hosts, Probes

-----------------------------------------------------------------------------

LEMMA PoolInitTypeOK == PoolInit => PoolTypeOK
  BY MaxHostsAssumption DEF PoolInit, PoolTypeOK, Hosts

LEMMA AllocateTypeOK ==
    ASSUME PoolTypeOK, NEW h, Allocate(h)
    PROVE  PoolTypeOK' /\ h \in Hosts \ used
  <1>1. h \in Hosts \ used
    BY FirstFreeIsFree DEF PoolTypeOK, Allocate
  <1>2. used' \subseteq Hosts
    BY <1>1 DEF PoolTypeOK, Allocate
  <1>3. nextHost' \in 2 .. (MaxHosts - 1)
    <2>1. h \in 2 .. (MaxHosts - 2)
      BY <1>1 DEF Hosts
    <2>2. nextHost' = h + 1
      BY DEF Allocate
    <2>. QED BY <2>1, <2>2, MaxHostsAssumption
  <1>. QED BY <1>1, <1>2, <1>3 DEF PoolTypeOK, Hosts

LEMMA ReleaseTypeOK ==
    ASSUME PoolTypeOK, NEW h, Release(h)
    PROVE  PoolTypeOK'
  BY DEF PoolTypeOK, Release

LEMMA PoolStepTypeOK == PoolTypeOK /\ [PoolNext]_poolVars => PoolTypeOK'
  <1>. SUFFICES ASSUME PoolTypeOK, [PoolNext]_poolVars PROVE PoolTypeOK'
    OBVIOUS
  <1>1. CASE \E h \in HostNums : Allocate(h)
    BY <1>1, AllocateTypeOK
  <1>2. CASE AllocateFails
    BY <1>2 DEF AllocateFails, poolVars, PoolTypeOK
  <1>3. CASE \E h \in used : Release(h)
    BY <1>3, ReleaseTypeOK
  <1>4. CASE UNCHANGED poolVars
    BY <1>4 DEF poolVars, PoolTypeOK
  <1>. QED BY <1>1, <1>2, <1>3, <1>4 DEF PoolNext

(* The pool never hands out the network, server or broadcast address, and  *)
(* its cursor stays in range, for every subnet size.                       *)
THEOREM PoolTypeCorrect == PoolSpec => []PoolTypeOK
  <1>1. PoolInit => PoolTypeOK
    BY PoolInitTypeOK
  <1>2. PoolTypeOK /\ [PoolNext]_poolVars => PoolTypeOK'
    BY PoolStepTypeOK
  <1>. QED BY <1>1, <1>2, PTL DEF PoolSpec

(* No iteration tries the address below the cursor, unless it is .2. *)
LEMMA LastNotTried ==
    ASSUME NEW next \in 2 .. (MaxHosts - 1), NEW i \in Probes
    PROVE  HostNum(next, i) = next - 1 => HostNum(next, i) = 2
  BY HostNumEq, MaxHostsAssumption DEF Probes

(* .2 is always tried, if only when the search comes round to .0. *)
LEMMA TwoTried ==
    ASSUME NEW next \in 2 .. (MaxHosts - 1)
    PROVE  \E i \in Probes : HostNum(next, i) = 2
  <1>1. MaxHosts - 1 - next \in Probes \/ next = 2
    BY MaxHostsAssumption DEF Probes
  <1>2. ASSUME MaxHosts - 1 - next \in Probes
        PROVE  HostNum(next, MaxHosts - 1 - next) = 2
    BY <1>2, HostNumEq, MaxHostsAssumption
  <1>3. ASSUME next = 2
        PROVE  0 \in Probes /\ HostNum(next, 0) = 2
    <2>1. 0 \in Probes
      BY MaxHostsAssumption DEF Probes
    <2>. QED BY <1>3, <2>1, HostNumEq, MaxHostsAssumption
  <1>. QED BY <1>1, <1>2, <1>3

LEMMA TypeOKExhausted == PoolTypeOK => ExhaustedUpToLast
  <1>. SUFFICES ASSUME PoolTypeOK PROVE ExhaustedUpToLast
    OBVIOUS
  <1>1. nextHost \in 2 .. (MaxHosts - 1)
    BY DEF PoolTypeOK
  <1>2. ASSUME NEW h \in Hosts \ used, h # nextHost - 1 \/ h = 2
        PROVE  CanAllocate(used, nextHost)
    BY <1>1, <1>2, ProbeOfFinds, TwoTried DEF CanAllocate, FreeProbes
  <1>3. ASSUME CanAllocate(used, nextHost)
        PROVE  \E h \in Hosts \ used : h # nextHost - 1 \/ h = 2
    <2>1. PICK i \in Probes : HostNum(nextHost, i) \notin used
      BY <1>3 DEF CanAllocate, FreeProbes
    <2>. QED BY <1>1, <2>1, HostNumInHosts, LastNotTried
  <1>. QED BY <1>2, <1>3 DEF ExhaustedUpToLast

(* Allocate reports exhaustion exactly when no address is free but, at     *)
(* most, the one handed out last and not .2, for every subnet size.        *)
THEOREM PoolExhaustion == PoolSpec => []ExhaustedUpToLast
  BY TypeOKExhausted, PoolTypeCorrect, PTL

(* A step of the pool that hands out an address, hands out the next one.   *)
GrantsNext ==
    \A h \in used' \ used :
       /\ h \in Hosts
       /\ \A g \in Hosts \ used :
            g # nextHost - 1 => Ahead(nextHost, h) <= Ahead(nextHost, g)

LEMMA PoolStepGrantsNext == ASSUME PoolTypeOK, PoolNext PROVE GrantsNext
  <1>1. CASE \E h \in HostNums : Allocate(h)
    <2>1. PICK h \in HostNums : Allocate(h)
      BY <1>1
    <2>2. used' \ used \subseteq {h} /\ h = FirstFree(used, nextHost)
      BY <2>1 DEF Allocate
    <2>. QED
      BY <2>1, <2>2, FirstFreeIsFree, FirstFreeIsNext DEF PoolTypeOK, Allocate, GrantsNext
  <1>2. CASE AllocateFails
    BY <1>2 DEF AllocateFails, poolVars, GrantsNext
  <1>3. CASE \E h \in used : Release(h)
    BY <1>3 DEF Release, GrantsNext
  <1>. QED BY <1>1, <1>2, <1>3 DEF PoolNext

(* Allocate answers with a free address, the one closest ahead of the last *)
(* one, for every subnet size.                                             *)
THEOREM PoolRoundRobin == PoolSpec => RoundRobin
  <1>1. PoolTypeOK /\ [PoolNext]_poolVars => [GrantsNext]_poolVars
    BY PoolStepGrantsNext
  <1>. QED BY <1>1, PoolTypeCorrect, PTL DEF PoolSpec, RoundRobin, GrantsNext
=============================================================================
