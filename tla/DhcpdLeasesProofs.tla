------------------------- MODULE DhcpdLeasesProofs --------------------------
(***************************************************************************)
(* What the handlers of the DHCP server do to any table of leases, for any *)
(* number of clients and addresses: the lemmas that the proofs about one   *)
(* server, DhcpdProofs, and about a network, DhcpProofs, rest on.          *)
(***************************************************************************)
EXTENDS DhcpdLeases, WellFoundedInduction, NaturalsInduction, TLAPS

(* What a handler may do to the table. *)

\* A table as the server keeps it: the parts of TypeOK and OneEntry that are
\* about the table, for a table L.
Table(L) ==
  /\ L \in [Addr -> Lease]
  /\ \A a \in Addr : ~L[a].allocated => L[a] = Cleared
  /\ \A a, b \in Addr : L[a].mac = L[b].mac /\ L[a].mac # NoMac => a = b

\* What the handlers may rely on in a message.
Asks(m) == m.chaddr \in Mac /\ m.leasetime \in Nat

\* Nothing changes, and nothing is promised.
Kept(L, r) == r.lease = L /\ r.reply.type \in {"none", "NAK"}

\* Client c may have address a: it has it, or its lease is over, and it has no
\* other.
MayHave(L, c, t, a) ==
  /\ L[a].mac = c \/ L[a].expiry <= t
  /\ \A b \in Addr : L[b].mac = c => b = a

\* Address a is promised to client c for the time k.
Grants(L, c, t, r, a, k) ==
  /\ MayHave(L, c, t, a)
  /\ r.lease = dhcpd_setlease(L, c, a, t + k)
  /\ r.reply.addr = a
  /\ \/ r.reply.type = "OFFER" /\ k = OfferTime
     \/ r.reply.type = "ACK" /\ k = r.reply.time

\* Address a becomes nobody's: it was the client's, who gives it up, or its
\* lease is over and the client has none.
Drops(L, m, t, r, a, e) ==
  /\ \/ L[a].mac = m.chaddr /\ m.type = "RELEASE"
     \/ L[a].mac = m.chaddr /\ m.type = "DECLINE" /\ e.expiry = t + DeclineTime
     \/ L[a].expiry <= t /\ \A b \in Addr : L[b].mac # m.chaddr
  /\ e.mac = NoMac
  /\ ~e.allocated => e = Cleared
  /\ r.lease = [L EXCEPT ![a] = e]
  /\ r.reply.type = "none"

Effect(L, m, t, r) ==
  \/ Kept(L, r)
  \/ \E a \in Addr, k \in Nat : Grants(L, m.chaddr, t, r, a, k)
  \/ \E a \in Addr, e \in Lease : Drops(L, m, t, r, a, e)

-----------------------------------------------------------------------------
(* The helpers. *)

\* A set of addresses that is not empty has a first one: the loops over the
\* table stop at it.
LEMMA FirstAddr ==
  ASSUME NEW S \in SUBSET Addr, S # {}
  PROVE  \E a \in S : \A b \in S : a <= b
<1>1. S \subseteq Nat
  BY LeasesAssumption DEF Addr
<1>2. PICK a \in S : \A b \in S : ~(<<b, a>> \in OpToRel(<, Nat))
  BY <1>1, WFMin, NatLessThanWellFounded, Zenon
<1>3. \A b \in S : ~(b < a)
  BY <1>1, <1>2, Zenon DEF OpToRel
<1> QED
  BY <1>1, <1>3

\* dhcpd_findbymac returns the client's entry, or nothing when it has none.
LEMMA FindByMac ==
  ASSUME NEW L, NEW c \in Mac
  PROVE  /\ dhcpd_findbymac(L, c) \subseteq {a \in Addr : L[a].mac = c}
         /\ dhcpd_findbymac(L, c) = {} => \A a \in Addr : L[a].mac # c
<1>1. dhcpd_findbymac(L, c) \subseteq {a \in Addr : L[a].mac = c}
  BY Zenon DEF dhcpd_findbymac
<1>2. ASSUME NEW a \in Addr, L[a].mac = c
      PROVE  dhcpd_findbymac(L, c) # {}
  <2> DEFINE S == {x \in Addr : L[x].mac = c}
  <2>1. PICK f \in S : \A b \in S : f <= b
    <3>1. S \in SUBSET Addr /\ S # {}
      BY <1>2, Zenon
    <3> QED
      BY <3>1, FirstAddr, Zenon
  <2>2. f \in dhcpd_findbymac(L, c)
    BY <2>1, Zenon DEF dhcpd_findbymac
  <2> QED
    BY <2>2, Zenon
<1> QED
  BY <1>1, <1>2, Zenon

\* dhcpd_allocipaddr finds an address that is free, and finds one if there is.
LEMMA AllocIpAddr ==
  ASSUME NEW L, NEW t
  PROVE  /\ dhcpd_allocipaddr(L, t) \subseteq {a \in Addr : Free(L, a, t)}
         /\ dhcpd_allocipaddr(L, t) = {} => \A a \in Addr \ Skipped : ~Free(L, a, t)
<1>1. dhcpd_allocipaddr(L, t) \subseteq {a \in Addr : Free(L, a, t)}
  BY Zenon DEF dhcpd_allocipaddr
<1>2. ASSUME NEW a \in Addr \ Skipped, Free(L, a, t)
      PROVE  dhcpd_allocipaddr(L, t) # {}
  <2> DEFINE S == {x \in Addr \ Skipped : Free(L, x, t)}
  <2>1. PICK f \in S : \A b \in S : f <= b
    <3>1. S \in SUBSET Addr /\ S # {}
      BY <1>2, Zenon
    <3> QED
      BY <3>1, FirstAddr, Zenon
  <2>2. f \in dhcpd_allocipaddr(L, t)
    BY <2>1, Zenon DEF dhcpd_allocipaddr
  <2> QED
    BY <2>2, Zenon
<1> QED
  BY <1>1, <1>2, Zenon

\* An address that dhcpd_findbyipaddr does not find reserved has an expiry that
\* is over.
LEMMA FreeIsOver ==
  ASSUME NEW L, Table(L), NEW t \in Nat, NEW a \in Addr, Free(L, a, t)
  PROVE  L[a].expiry <= t
BY DEF Table, Free, dhcpd_leaseexpired, Cleared, Lease

\* A client's own entry is its only one.
LEMMA OwnEntry ==
  ASSUME NEW L, Table(L), NEW c \in Mac, NEW t, NEW a \in Addr, L[a].mac = c
  PROVE  MayHave(L, c, t, a)
BY LeasesAssumption, Zenon DEF Table, MayHave

\* A lease time is a number, whatever the client asks for.
LEMMA LeaseTimeType ==
  ASSUME NEW m, Asks(m)
  PROVE  dhcpd_verifyreqleasetime(m, LeaseTime) \in Nat
<1>1. m.leasetime \in Nat
  BY Zenon DEF Asks
<1>2. m.leasetime = 0 \/ m.leasetime > MaxLeaseTime \/ m.leasetime \in 1..MaxLeaseTime
  BY <1>1, LeasesAssumption
<1>3. CASE m.leasetime = 0
  BY <1>3, LeasesAssumption DEF dhcpd_verifyreqleasetime
<1>4. CASE m.leasetime > MaxLeaseTime
  BY <1>1, <1>4, LeasesAssumption, Zenon DEF dhcpd_verifyreqleasetime
<1>5. CASE m.leasetime \in 1..MaxLeaseTime
  BY <1>1, <1>5, LeasesAssumption, Zenon DEF dhcpd_verifyreqleasetime
<1> QED
  BY <1>2, <1>3, <1>4, <1>5, Zenon

-----------------------------------------------------------------------------
(* The handlers. *)

\* dhcpd_sendack records the lease that it promises, or nothing.
LEMMA SendAckEffect ==
  ASSUME NEW L, NEW m, Asks(m), NEW t \in Nat, NEW a \in Addr,
         MayHave(L, m.chaddr, t, a),
         NEW r \in dhcpd_sendack(L, m, a, t)
  PROVE  Effect(L, m, t, r)
<1> DEFINE time == dhcpd_verifyreqleasetime(m, LeaseTime)
<1>1. time \in Nat
  BY LeaseTimeType, Zenon
<1>2. CASE r = Result(dhcpd_setlease(L, m.chaddr, a, t + time), Reply("ACK", a, time))
  <2>1. Grants(L, m.chaddr, t, r, a, time)
    BY <1>2, Zenon DEF Grants, Result, Reply
  <2> QED
    BY <1>1, <2>1, Zenon DEF Effect
<1>3. CASE r = Result(L, Silent)
  BY <1>3, Zenon DEF Effect, Kept, Result, Silent
<1> QED
  BY <1>2, <1>3, Zenon DEF dhcpd_sendack

\* dhcpd_discover offers the client's own address or one that is free.
LEMMA DiscoverEffect ==
  ASSUME NEW L, Table(L), NEW m, Asks(m), NEW t \in Nat,
         NEW r \in dhcpd_discover(L, m, t)
  PROVE  Effect(L, m, t, r)
<1> DEFINE own == dhcpd_findbymac(L, m.chaddr)
<1>1. m.chaddr \in Mac
  BY Zenon DEF Asks
<1>2. ASSUME NEW a \in DiscoverAddr(L, m, t)
      PROVE  a \in Addr /\ MayHave(L, m.chaddr, t, a)
  <2>1. CASE own # {}
    <3>1. a \in own
      BY <1>2, <2>1, Zenon DEF DiscoverAddr
    <3> QED
      BY <1>1, <3>1, FindByMac, OwnEntry, Zenon
  <2>2. CASE own = {}
    <3>1. a \in Addr /\ Free(L, a, t)
      <4>1. CASE dhcpd_verifyreqip(L, m, t)
        <5>1. a = m.reqip
          BY <1>2, <2>2, <4>1, Zenon DEF DiscoverAddr
        <5> QED
          BY <4>1, <5>1, Zenon DEF dhcpd_verifyreqip, Free
      <4>2. CASE ~dhcpd_verifyreqip(L, m, t)
        <5>1. a \in dhcpd_allocipaddr(L, t)
          BY <1>2, <2>2, <4>2, Zenon DEF DiscoverAddr
        <5> QED
          BY <5>1, AllocIpAddr, Zenon
      <4> QED
        BY <4>1, <4>2, Zenon
    <3>2. L[a].expiry <= t
      BY <3>1, FreeIsOver, Zenon
    <3>3. \A b \in Addr : L[b].mac # m.chaddr
      BY <1>1, <2>2, FindByMac, Zenon
    <3> QED
      BY <3>1, <3>2, <3>3, Zenon DEF MayHave
  <2> QED
    BY <2>1, <2>2, Zenon
<1>3. CASE DiscoverAddr(L, m, t) = {}
  <2>1. r = Result(L, Silent)
    BY <1>3, Zenon DEF dhcpd_discover
  <2> QED
    BY <2>1, Zenon DEF Effect, Kept, Result, Silent
<1>4. CASE DiscoverAddr(L, m, t) # {}
  <2>1. PICK a \in DiscoverAddr(L, m, t) :
          r = Result(dhcpd_setlease(L, m.chaddr, a, t + OfferTime),
                     Reply("OFFER", a, dhcpd_verifyreqleasetime(m, RemainingTime(L, m, a, t))))
    BY <1>4, Zenon DEF dhcpd_discover
  <2>2. a \in Addr /\ Grants(L, m.chaddr, t, r, a, OfferTime)
    BY <1>2, <2>1, Zenon DEF Grants, Result, Reply
  <2> QED
    BY <2>2, LeasesAssumption, Zenon DEF Effect
<1> QED
  BY <1>3, <1>4, Zenon

\* RequestUnknown, where a client without an entry names an address.
LEMMA RequestUnknownEffect ==
  ASSUME NEW L, Table(L), NEW m, Asks(m), NEW t \in Nat,
         dhcpd_findbymac(L, m.chaddr) = {},
         NEW r \in RequestUnknown(L, m, t)
  PROVE  Effect(L, m, t, r)
<1>1. \A b \in Addr : L[b].mac # m.chaddr
  BY FindByMac, Zenon DEF Asks
<1>2. CASE r = Result(L, Nak)
  BY <1>2, Zenon DEF Effect, Kept, Result, Nak, Silent
<1>3. CASE m.reqip \notin Addr
  BY <1>2, <1>3, Zenon DEF RequestUnknown
<1>4. CASE m.reqip \in Addr /\ ~L[m.reqip].allocated
  <2>1. r \in dhcpd_sendack(L, m, m.reqip, t)
    BY <1>4, Zenon DEF RequestUnknown
  <2>2. L[m.reqip].expiry <= t
    BY <1>4, FreeIsOver, Zenon DEF Free
  <2>3. MayHave(L, m.chaddr, t, m.reqip)
    BY <1>1, <2>2, Zenon DEF MayHave
  <2> QED
    BY <1>4, <2>1, <2>3, SendAckEffect, Zenon
<1>5. CASE m.reqip \in Addr /\ L[m.reqip].allocated
  <2>1. CASE dhcpd_leaseexpired(L, m.reqip, t)
    <3>1. r = Result([L EXCEPT ![m.reqip] = Cleared], Silent)
      BY <1>5, <2>1, Zenon DEF RequestUnknown
    <3>2. Drops(L, m, t, r, m.reqip, Cleared)
      BY <1>1, <2>1, <3>1, Zenon
      DEF Drops, Result, Silent, Cleared, dhcpd_leaseexpired
    <3>3. Cleared \in Lease
      BY Zenon DEF Cleared, Lease
    <3> QED
      BY <1>5, <3>2, <3>3, Zenon DEF Effect
  <2>2. CASE ~dhcpd_leaseexpired(L, m.reqip, t)
    BY <1>2, <1>5, <2>2, Zenon DEF RequestUnknown
  <2> QED
    BY <2>1, <2>2, Zenon
<1> QED
  BY <1>3, <1>4, <1>5, Zenon

\* dhcpd_request acknowledges what the client has, or may have.
LEMMA RequestEffect ==
  ASSUME NEW L, Table(L), NEW m, Asks(m), NEW t \in Nat,
         NEW me, NEW r \in dhcpd_request(L, m, t, me)
  PROVE  Effect(L, m, t, r)
<1> DEFINE own == dhcpd_findbymac(L, m.chaddr)
<1>1. CASE own # {}
  <2>1. PICK a \in own : r \in (IF Consistent(m, a, me)
                                  THEN dhcpd_sendack(L, m, a, t)
                                  ELSE {Result(L, Nak)})
    BY <1>1, Zenon DEF dhcpd_request
  <2>2. a \in Addr /\ MayHave(L, m.chaddr, t, a)
    BY FindByMac, OwnEntry, Zenon DEF Asks
  <2>3. CASE Consistent(m, a, me)
    BY <2>1, <2>2, <2>3, SendAckEffect, Zenon
  <2>4. CASE ~Consistent(m, a, me)
    BY <2>1, <2>4 DEF Effect, Kept, Result, Nak, Silent
  <2> QED
    BY <2>3, <2>4, Zenon
<1>2. CASE own = {} /\ m.reqip # NoAddr /\ m.serverid = NoServer
  <2>1. r \in RequestUnknown(L, m, t)
    BY <1>2, Zenon DEF dhcpd_request
  <2> QED
    BY <1>2, <2>1, RequestUnknownEffect, Zenon
<1>3. CASE own = {} /\ ~(m.reqip # NoAddr /\ m.serverid = NoServer)
  <2>1. r = Result(L, Silent)
    BY <1>3, Zenon DEF dhcpd_request
  <2> QED
    BY <2>1, Zenon DEF Effect, Kept, Result, Silent
<1> QED
  BY <1>1, <1>2, <1>3, Zenon

\* dhcpd_decline and dhcpd_release change the one entry that dhcpd_findbymac
\* finds, if any.
LEMMA GiveUpEffect ==
  ASSUME NEW L, Table(L), NEW m, Asks(m), NEW t \in Nat, NEW r,
         m.type \in {"DECLINE", "RELEASE"}, NEW New \in [Addr -> Lease],
         \A a \in Addr : New[a].mac = NoMac,
         m.type = "DECLINE" => \A a \in Addr : New[a].expiry = t + DeclineTime,
         \A a \in Addr : L[a].mac = m.chaddr /\ ~New[a].allocated => New[a] = Cleared,
         r = Result([a \in Addr |-> IF a \in dhcpd_findbymac(L, m.chaddr)
                                      THEN New[a] ELSE L[a]], Silent)
  PROVE  Effect(L, m, t, r)
<1> DEFINE own == dhcpd_findbymac(L, m.chaddr)
<1>0. L = [a \in Addr |-> L[a]] /\ r.reply.type = "none"
  BY Zenon DEF Table, Result, Silent
<1>1. CASE own = {}
  <2>1. r.lease = L
    BY <1>0, <1>1, Zenon DEF Result
  <2> QED
    BY <1>0, <2>1, Zenon DEF Effect, Kept
<1>2. CASE own # {}
  <2>1. PICK a \in Addr : a \in own /\ L[a].mac = m.chaddr
    BY <1>2, FindByMac DEF Asks
  <2>2. \A b \in Addr : b \in own => b = a
    BY <2>1, FindByMac, LeasesAssumption DEF Table, Asks
  <2>3. r.lease = [L EXCEPT ![a] = New[a]]
    BY <1>0, <2>1, <2>2, Zenon DEF Result
  <2>4. Drops(L, m, t, r, a, New[a])
    BY <1>0, <2>1, <2>3, Zenon DEF Drops
  <2> QED
    BY <2>1, <2>4, Zenon DEF Effect
<1> QED
  BY <1>1, <1>2, Zenon

\* dhcpd_decline keeps the address from everyone for the decline time.
LEMMA DeclineEffect ==
  ASSUME NEW L, Table(L), NEW m, Asks(m), NEW t \in Nat,
         m.type = "DECLINE", NEW r \in dhcpd_decline(L, m, t)
  PROVE  Effect(L, m, t, r)
<1> DEFINE New == [a \in Addr |-> [L[a] EXCEPT !.mac = NoMac, !.expiry = t + DeclineTime]]
<1>1. \A a \in Addr : New[a] = [mac |-> NoMac, allocated |-> L[a].allocated,
                                expiry |-> t + DeclineTime]
  BY Zenon DEF Table, Lease
<1>2. New = [a \in Addr |-> New[a]]
  BY Zenon
<1>3. r = Result([a \in Addr |-> IF a \in dhcpd_findbymac(L, m.chaddr)
                                  THEN New[a] ELSE L[a]], Silent)
  BY Zenon DEF dhcpd_decline
<1> HIDE DEF New
<1>4. t + DeclineTime \in Nat
  BY LeasesAssumption
<1>5. ASSUME NEW a \in Addr
      PROVE  /\ New[a] \in Lease /\ New[a].mac = NoMac
             /\ New[a].allocated = L[a].allocated
             /\ New[a].expiry = t + DeclineTime
  <2>1. L[a].allocated \in BOOLEAN
    BY Zenon DEF Table, Lease
  <2>2. New[a] = [mac |-> NoMac, allocated |-> L[a].allocated, expiry |-> t + DeclineTime]
    BY <1>1, Zenon
  <2>3. \A w \in BOOLEAN, x \in Nat :
          LET e == [mac |-> NoMac, allocated |-> w, expiry |-> x]
          IN  e \in Lease /\ e.mac = NoMac /\ e.allocated = w
    BY Zenon DEF Lease
  <2> QED
    <3>1. New[a] \in Lease /\ New[a].mac = NoMac /\ New[a].allocated = L[a].allocated
      BY <1>4, <2>1, <2>2, <2>3, Zenon
    <3>2. New[a].expiry = t + DeclineTime
      BY <2>2
    <3> QED
      BY <3>1, <3>2, Zenon
<1>6. New \in [Addr -> Lease]
  BY <1>2, <1>5, Zenon
<1>7. \A a \in Addr : L[a].mac = m.chaddr => L[a].allocated
  BY LeasesAssumption DEF Asks, Table, Cleared
<1>8. \A a \in Addr : L[a].mac = m.chaddr => New[a].allocated
  BY <1>5, <1>7, Zenon
<1> QED
  BY <1>3, <1>5, <1>6, <1>8, GiveUpEffect

\* dhcpd_release clears the entry.
LEMMA ReleaseEffect ==
  ASSUME NEW L, Table(L), NEW m, Asks(m), NEW t \in Nat,
         m.type = "RELEASE", NEW r \in dhcpd_release(L, m)
  PROVE  Effect(L, m, t, r)
<1> DEFINE New == [a \in Addr |-> Cleared]
<1>1. New \in [Addr -> Lease] /\ \A a \in Addr : New[a] = Cleared
  BY Zenon DEF Cleared, Lease
<1>2. r = Result([a \in Addr |-> IF a \in dhcpd_findbymac(L, m.chaddr)
                                  THEN New[a] ELSE L[a]], Silent)
  BY Zenon DEF dhcpd_release
<1>3. \A a \in Addr : New[a].mac = NoMac
  BY <1>1, Zenon DEF Cleared
<1> HIDE DEF New
<1> QED
  BY <1>1, <1>2, <1>3, GiveUpEffect

\* Whatever message arrives.
LEMMA HandleEffect ==
  ASSUME NEW L, Table(L), NEW m, Asks(m), NEW t \in Nat,
         NEW me, NEW r \in Handle(L, m, t, me)
  PROVE  Effect(L, m, t, r)
<1>1. CASE m.type = "DISCOVER"
  <2>1. r \in dhcpd_discover(L, m, t)
    BY <1>1, Zenon DEF Handle
  <2> QED
    BY <2>1, DiscoverEffect, Zenon
<1>2. CASE m.type = "REQUEST"
  <2>1. r \in dhcpd_request(L, m, t, me)
    BY <1>2, Zenon DEF Handle
  <2> QED
    BY <2>1, RequestEffect, Zenon
<1>3. CASE m.type = "DECLINE"
  <2>1. r \in dhcpd_decline(L, m, t)
    BY <1>3, Zenon DEF Handle
  <2> QED
    BY <1>3, <2>1, DeclineEffect, Zenon
<1>4. CASE m.type = "RELEASE"
  <2>1. r \in dhcpd_release(L, m)
    BY <1>4, Zenon DEF Handle
  <2> QED
    BY <1>4, <2>1, ReleaseEffect, Zenon
<1>5. CASE m.type \notin {"DISCOVER", "REQUEST", "DECLINE", "RELEASE"}
  <2>1. r = Result(L, Silent)
    BY <1>5, Zenon DEF Handle
  <2> QED
    BY <2>1, Zenon DEF Effect, Kept, Result, Silent
<1> QED
  BY <1>1, <1>2, <1>3, <1>4, <1>5, Zenon

\* An ACK answers a REQUEST, of the lease time that dhcpd_verifyreqleasetime
\* gives; where the client names a server, it is this one.
LEMMA AckEffect ==
  ASSUME NEW L, NEW m, Asks(m), NEW t, NEW me,
         NEW r \in Handle(L, m, t, me), r.reply.type = "ACK"
  PROVE  /\ m.type = "REQUEST"
         /\ m.serverid # NoServer => m.serverid = me
         /\ r.reply.time = dhcpd_verifyreqleasetime(m, LeaseTime)
<1>1. m.type = "REQUEST"
  <2>1. CASE m.type = "DISCOVER"
    BY <2>1 DEF Handle, dhcpd_discover, Result, Reply, Silent
  <2>2. CASE m.type = "DECLINE"
    <3>1. r \in dhcpd_decline(L, m, t)
      BY <2>2, Zenon DEF Handle
    <3>2. PICK table : r = Result(table, Silent)
      BY <3>1, Zenon DEF dhcpd_decline
    <3> QED
      BY <3>2, Zenon DEF Result, Silent
  <2>3. CASE m.type = "RELEASE"
    BY <2>3 DEF Handle, dhcpd_release, Result, Silent
  <2>4. CASE m.type \notin {"DISCOVER", "REQUEST", "DECLINE", "RELEASE"}
    BY <2>4 DEF Handle, Result, Silent
  <2> QED
    BY <2>1, <2>2, <2>3, <2>4, Zenon
<1>2. r \in dhcpd_request(L, m, t, me)
  BY <1>1, Zenon DEF Handle
<1>3. ASSUME NEW a, r \in dhcpd_sendack(L, m, a, t)
      PROVE  r.reply.time = dhcpd_verifyreqleasetime(m, LeaseTime)
  BY <1>3 DEF dhcpd_sendack, Result, Reply, Silent
<1>4. CASE dhcpd_findbymac(L, m.chaddr) # {}
  <2>1. PICK a : r \in (IF Consistent(m, a, me) THEN dhcpd_sendack(L, m, a, t)
                                               ELSE {Result(L, Nak)})
    BY <1>2, <1>4, Zenon DEF dhcpd_request
  <2>2. Consistent(m, a, me)
    BY <2>1 DEF Result, Nak, Silent
  <2>3. m.serverid # NoServer => m.serverid = me
    BY <2>2, Zenon DEF Consistent
  <2> QED
    BY <1>1, <1>3, <2>1, <2>2, <2>3, Zenon
<1>5. CASE dhcpd_findbymac(L, m.chaddr) = {} /\ m.reqip # NoAddr /\ m.serverid = NoServer
  <2>1. r \in RequestUnknown(L, m, t)
    BY <1>2, <1>5, Zenon DEF dhcpd_request
  <2>2. r \in dhcpd_sendack(L, m, m.reqip, t)
    <3>1. CASE m.reqip \notin Addr
      BY <2>1, <3>1 DEF RequestUnknown, Result, Nak, Silent
    <3>2. CASE m.reqip \in Addr /\ ~L[m.reqip].allocated
      BY <2>1, <3>2, Zenon DEF RequestUnknown
    <3>3. CASE m.reqip \in Addr /\ L[m.reqip].allocated
      BY <2>1, <3>3 DEF RequestUnknown, Result, Nak, Silent
    <3> QED
      BY <3>1, <3>2, <3>3, Zenon
  <2> QED
    BY <1>1, <1>3, <1>5, <2>2, Zenon
<1>6. CASE ~(m.reqip # NoAddr /\ m.serverid = NoServer) /\ dhcpd_findbymac(L, m.chaddr) = {}
  BY <1>2, <1>6 DEF dhcpd_request, Result, Silent
<1> QED
  BY <1>4, <1>5, <1>6, Zenon

-----------------------------------------------------------------------------
(* The table stays a table, and the reservations of others stay. *)

\* After a promise.
LEMMA GrantKeepsTable ==
  ASSUME NEW L, Table(L), NEW c \in Mac, NEW t \in Nat, NEW r,
         NEW a \in Addr, NEW k \in Nat, Grants(L, c, t, r, a, k)
  PROVE  /\ Table(r.lease)
         /\ r.lease[a].mac = c /\ r.lease[a].expiry = t + k
         /\ \A b \in Addr \ {a} : r.lease[b] = L[b]
<1> DEFINE e == [mac |-> c, allocated |-> TRUE, expiry |-> t + k]
<1>1. r.lease = [L EXCEPT ![a] = e]
  BY Zenon DEF Grants, dhcpd_setlease
<1>2. e \in Lease /\ e.mac = c /\ e.allocated /\ e.expiry = t + k
  BY DEF Lease
<1> HIDE DEF e
<1>3. r.lease \in [Addr -> Lease]
  BY <1>1, <1>2, Zenon DEF Table
<1>4. r.lease[a] = e /\ \A b \in Addr \ {a} : r.lease[b] = L[b]
  BY <1>1, Zenon DEF Table
<1>5. \A b \in Addr : ~r.lease[b].allocated => r.lease[b] = Cleared
  BY <1>2, <1>4, Zenon DEF Table
<1>6. \A b \in Addr \ {a} : r.lease[b].mac # c
  BY <1>4, Zenon DEF Grants, MayHave
<1>7. \A x, y \in Addr : r.lease[x].mac = r.lease[y].mac /\ r.lease[x].mac # NoMac => x = y
  BY <1>2, <1>4, <1>6 DEF Table
<1> QED
  BY <1>2, <1>3, <1>4, <1>5, <1>7, Zenon DEF Table

\* After an entry was given up or cleared.
LEMMA DropKeepsTable ==
  ASSUME NEW L, Table(L), NEW m, NEW t, NEW r,
         NEW a \in Addr, NEW e \in Lease, Drops(L, m, t, r, a, e)
  PROVE  /\ Table(r.lease)
         /\ r.lease[a].mac = NoMac
         /\ \A b \in Addr \ {a} : r.lease[b] = L[b]
<1>1. r.lease = [L EXCEPT ![a] = e]
  BY Zenon DEF Drops
<1>2. r.lease \in [Addr -> Lease]
  BY <1>1, Zenon DEF Table
<1>3. r.lease[a] = e /\ \A b \in Addr \ {a} : r.lease[b] = L[b]
  BY <1>1, Zenon DEF Table
<1>4. e.mac = NoMac /\ (~e.allocated => e = Cleared)
  BY Zenon DEF Drops
<1>5. \A b \in Addr : ~r.lease[b].allocated => r.lease[b] = Cleared
  BY <1>3, <1>4, Zenon DEF Table
<1>6. \A x, y \in Addr : r.lease[x].mac = r.lease[y].mac /\ r.lease[x].mac # NoMac => x = y
  BY <1>3, <1>4 DEF Table
<1> QED
  BY <1>2, <1>3, <1>4, <1>5, <1>6, Zenon DEF Table
=============================================================================
