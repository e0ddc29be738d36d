---------------------------- MODULE DhcpdLeases -----------------------------
(* The lease table of the DHCP server, netutils/dhcpd, and what the four     *)
(* message handlers make of it.  A handler is a pure operator: it takes the  *)
(* table L, the message m and the time t, and gives the set of possible      *)
(* results, each with the new table and the reply.                           *)
EXTENDS Naturals

CONSTANTS Mac,          \* the hardware addresses of the clients
          NoMac,        \* the hardware address that is all zero
          MaxLeases,    \* CONFIG_NETUTILS_DHCPD_MAXLEASES
          Skipped,      \* addresses that end in 0 or 255
          LeaseTime,    \* CONFIG_NETUTILS_DHCPD_LEASETIME
          MinLeaseTime, \* CONFIG_NETUTILS_DHCPD_MINLEASETIME
          MaxLeaseTime, \* CONFIG_NETUTILS_DHCPD_MAXLEASETIME
          OfferTime,    \* CONFIG_NETUTILS_DHCPD_OFFERTIME
          DeclineTime   \* CONFIG_NETUTILS_DHCPD_DECLINETIME

\* The addresses from ds_startip to ds_endip, by their place in the table, an
\* address outside this range, and the absence of one.
Addr    == 1..MaxLeases
Outside == MaxLeases + 1
NoAddr  == 0

NoServer == "none"

ASSUME LeasesAssumption ==
  /\ NoMac \notin Mac
  /\ MaxLeases \in Nat \ {0}
  /\ Skipped \subseteq Addr
  /\ LeaseTime \in Nat /\ MinLeaseTime \in Nat /\ MaxLeaseTime \in Nat
  /\ OfferTime \in Nat /\ DeclineTime \in Nat
  /\ MinLeaseTime <= MaxLeaseTime

\* struct lease_s, and one that memset has cleared.
Lease   == [mac : Mac \cup {NoMac}, allocated : BOOLEAN, expiry : Nat]
Cleared == [mac |-> NoMac, allocated |-> FALSE, expiry |-> 0]

EmptyTable == [a \in Addr |-> Cleared]

-----------------------------------------------------------------------------
(* Messages and replies. *)

\* serverid, reqip, ciaddr and leasetime are the options and the field that
\* dhcpd_request and dhcpd_discover look at.
Message(type, c, server, reqip, ciaddr, time) ==
  [type |-> type, chaddr |-> c, serverid |-> server, reqip |-> reqip,
   ciaddr |-> ciaddr, leasetime |-> time]

Silent == [type |-> "none", addr |-> NoAddr, time |-> 0]
Nak    == [Silent EXCEPT !.type = "NAK"]

Reply(type, a, time) == [type |-> type, addr |-> a, time |-> time]

Result(L, r) == [lease |-> L, reply |-> r]

-----------------------------------------------------------------------------
(* The helpers. *)

\* Mutant: a lease is over one unit of time too early.
dhcpd_leaseexpired_early(L, a, t) == L[a].expiry <= t + 1

dhcpd_leaseexpired(L, a, t) == L[a].expiry <= t

\* Mutant: the entry is not marked as allocated.
dhcpd_setlease_unmarked(L, c, a, expiry) ==
  [L EXCEPT ![a] = [mac |-> c, allocated |-> FALSE, expiry |-> expiry]]

\* For every address handled here the range check holds.
dhcpd_setlease(L, c, a, expiry) ==
  [L EXCEPT ![a] = [mac |-> c, allocated |-> TRUE, expiry |-> expiry]]

\* The first entry of the client, if there is one.
dhcpd_findbymac(L, c) ==
  {a \in Addr : /\ L[a].mac = c
                /\ \A b \in Addr : L[b].mac = c => a <= b}

\* Mutant: an entry without a hardware address, one that was declined, is free.
Free_declined(L, a, t) ==
  a \in Addr /\ (L[a].mac = NoMac \/ dhcpd_leaseexpired(L, a, t))

\* dhcpd_findbyipaddr finds nothing, or an entry that has expired.
Free(L, a, t) == a \in Addr /\ (~L[a].allocated \/ dhcpd_leaseexpired(L, a, t))

\* Mutant: the requested address is only compared with the range.
dhcpd_verifyreqip_range(L, m, t) == m.reqip \in Addr

dhcpd_verifyreqip(L, m, t) == Free(L, m.reqip, t)

\* Mutant: a lease that is over is not taken again.
dhcpd_allocipaddr_unused(L, t) ==
  {a \in Addr \ Skipped : ~L[a].allocated}

\* The first address that may be handed out.
dhcpd_allocipaddr(L, t) ==
  {a \in Addr \ Skipped : /\ Free(L, a, t)
                          /\ \A b \in Addr \ Skipped : Free(L, b, t) => a <= b}

\* The lease time the client asked for, clipped, or else the given one.
dhcpd_verifyreqleasetime(m, time) ==
  CASE m.leasetime = 0            -> time
    [] m.leasetime > MaxLeaseTime -> MaxLeaseTime
    [] m.leasetime \in 1..MaxLeaseTime ->
         IF m.leasetime < MinLeaseTime THEN MinLeaseTime ELSE m.leasetime

-----------------------------------------------------------------------------
(* The handlers. *)

\* Mutant: the address the client asks for goes before the one it has.
DiscoverAddr_asked(L, m, t) ==
  CASE dhcpd_verifyreqip(L, m, t) -> {m.reqip}
    [] ~dhcpd_verifyreqip(L, m, t) /\ dhcpd_findbymac(L, m.chaddr) # {} ->
         dhcpd_findbymac(L, m.chaddr)
    [] OTHER -> dhcpd_allocipaddr(L, t)

\* The address for a DISCOVER: the client's own, the one it asks for, or a new
\* one; none when the table is full.
DiscoverAddr(L, m, t) ==
  CASE dhcpd_findbymac(L, m.chaddr) # {} -> dhcpd_findbymac(L, m.chaddr)
    [] dhcpd_findbymac(L, m.chaddr) = {} /\ dhcpd_verifyreqip(L, m, t) ->
         {m.reqip}
    [] OTHER -> dhcpd_allocipaddr(L, t)

\* The lease time that is offered with address a.
RemainingTime(L, m, a, t) ==
  IF L[a].mac # m.chaddr \/ dhcpd_leaseexpired(L, a, t) THEN LeaseTime
  ELSE IF L[a].expiry - t < MinLeaseTime THEN MinLeaseTime
  ELSE L[a].expiry - t

\* An entry that has expired, or that allocipaddr has taken, is overwritten by
\* setlease at once.
dhcpd_discover(L, m, t) ==
  IF DiscoverAddr(L, m, t) = {} THEN {Result(L, Silent)}
  ELSE {Result(dhcpd_setlease(L, m.chaddr, a, t + OfferTime),
               Reply("OFFER", a, dhcpd_verifyreqleasetime(m, RemainingTime(L, m, a, t))))
          : a \in DiscoverAddr(L, m, t)}

\* Mutant: the lease is not recorded.
dhcpd_sendack_unrecorded(L, m, a, t) ==
  {Result(L, Reply("ACK", a, dhcpd_verifyreqleasetime(m, LeaseTime)))}

\* The lease is recorded only when the ACK could be sent.
dhcpd_sendack(L, m, a, t) ==
  LET time == dhcpd_verifyreqleasetime(m, LeaseTime)
  IN  {Result(dhcpd_setlease(L, m.chaddr, a, t + time), Reply("ACK", a, time)),
       Result(L, Silent)}

\* Is the REQUEST consistent with the lease on address a that the client has
\* at server `me'?
Consistent(m, a, me) ==
  CASE m.serverid # NoServer -> /\ m.serverid = me
                                /\ m.reqip # NoAddr \/ m.reqip = a
    [] m.serverid = NoServer /\ m.reqip # NoAddr -> m.reqip = a
    [] m.serverid = NoServer /\ m.reqip = NoAddr -> m.ciaddr = a

\* A client without an entry asks for an address and names no server.
RequestUnknown(L, m, t) ==
  CASE m.reqip \notin Addr -> {Result(L, Nak)}
    [] m.reqip \in Addr /\ ~L[m.reqip].allocated -> dhcpd_sendack(L, m, m.reqip, t)
    [] m.reqip \in Addr /\ L[m.reqip].allocated ->
         IF dhcpd_leaseexpired(L, m.reqip, t)
           THEN {Result([L EXCEPT ![m.reqip] = Cleared], Silent)}
           ELSE {Result(L, Nak)}

dhcpd_request(L, m, t, me) ==
  CASE dhcpd_findbymac(L, m.chaddr) # {} ->
         UNION {IF Consistent(m, a, me) THEN dhcpd_sendack(L, m, a, t)
                                        ELSE {Result(L, Nak)}
                  : a \in dhcpd_findbymac(L, m.chaddr)}
    [] /\ dhcpd_findbymac(L, m.chaddr) = {}
       /\ m.reqip # NoAddr /\ m.serverid = NoServer -> RequestUnknown(L, m, t)
    [] OTHER -> {Result(L, Silent)}

dhcpd_decline(L, m, t) ==
  {Result([a \in Addr |->
             IF a \in dhcpd_findbymac(L, m.chaddr)
               THEN [L[a] EXCEPT !.mac = NoMac, !.expiry = t + DeclineTime]
               ELSE L[a]], Silent)}

dhcpd_release(L, m) ==
  {Result([a \in Addr |-> IF a \in dhcpd_findbymac(L, m.chaddr)
                            THEN Cleared ELSE L[a]], Silent)}

\* The dispatch on the message type in dhcpd_run.
Handle(L, m, t, me) ==
  CASE m.type = "DISCOVER" -> dhcpd_discover(L, m, t)
    [] m.type = "REQUEST"  -> dhcpd_request(L, m, t, me)
    [] m.type = "DECLINE"  -> dhcpd_decline(L, m, t)
    [] m.type = "RELEASE"  -> dhcpd_release(L, m)
    [] OTHER               -> {Result(L, Silent)}
=============================================================================
