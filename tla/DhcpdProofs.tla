---------------------------- MODULE DhcpdProofs -----------------------------
(***************************************************************************)
(* The properties of the DHCP server for any number of clients and         *)
(* addresses and for every choice of the configured times.                 *)
(***************************************************************************)
EXTENDS Dhcpd, DhcpdLeasesProofs

\* What is known of a message.
LEMMA MessageType ==
  ASSUME NEW m \in AnyMessage
  PROVE  m.chaddr \in Mac /\ Asks(m)
BY DhcpdAssumption DEF AnyMessage, Message, Asks

-----------------------------------------------------------------------------
(* The invariant. *)

\* The three invariants together are inductive: PromiseKept needs the form of
\* the table, and OneEntry to know that a client's entry is the promised one.
IInv == TypeOK /\ OneEntry /\ PromiseKept

\* The table of the server is a table.
LEMMA InvTable == IInv => Table(lease)
BY Zenon DEF IInv, TypeOK, OneEntry, Table

\* The server starts with no entries and no promises.
LEMMA InitInv == Init => IInv
<1> SUFFICES ASSUME Init PROVE IInv
  BY Zenon
<1>1. Cleared \in Lease /\ Cleared.mac = NoMac
  BY Zenon DEF Cleared, Lease
<1>2. lease = [a \in Addr |-> Cleared]
  BY Zenon DEF Init, EmptyTable
<1>3. told = [c \in Mac |-> NoPromise] /\ NoPromise \in [addr : Addr \cup {NoAddr}, until : Nat]
  BY Zenon DEF Init, NoPromise
<1>4. TypeOK
  BY <1>1, <1>2, <1>3, Zenon DEF TypeOK, Init
<1>5. OneEntry
  BY <1>1, <1>2, Zenon DEF OneEntry
<1>6. PromiseKept
  BY <1>3, Zenon DEF PromiseKept, NoPromise
<1> QED
  BY <1>4, <1>5, <1>6, Zenon DEF IInv

\* dhcpd_stop and dhcpd_start.
LEMMA RestartInv == IInv /\ Restart => IInv'
<1> SUFFICES ASSUME IInv, Restart PROVE IInv'
  BY Zenon
<1>1. Cleared \in Lease /\ Cleared.mac = NoMac
  BY Zenon DEF Cleared, Lease
<1>2. lease' = [a \in Addr |-> Cleared]
  BY Zenon DEF Restart, EmptyTable
<1>3. told' = [c \in Mac |-> NoPromise] /\ NoPromise \in [addr : Addr \cup {NoAddr}, until : Nat]
  BY Zenon DEF Restart, NoPromise
<1>4. TypeOK'
  BY <1>1, <1>2, <1>3, Zenon DEF TypeOK, Restart, IInv
<1>5. OneEntry'
  BY <1>1, <1>2, Zenon DEF OneEntry
<1>6. PromiseKept'
  BY <1>3, Zenon DEF PromiseKept, NoPromise
<1> QED
  BY <1>4, <1>5, <1>6, Zenon DEF IInv

\* The clock only ends promises.
LEMMA TickInv == IInv /\ Tick => IInv'
<1> SUFFICES ASSUME IInv, Tick PROVE IInv'
  BY Zenon
<1>1. TypeOK' /\ OneEntry'
  BY DEF IInv, TypeOK, OneEntry, Tick
<1>2. \A c \in Mac : told[c].until \in Nat
  BY Zenon DEF IInv, TypeOK
<1>3. PromiseKept'
  BY <1>2 DEF IInv, PromiseKept, Tick, TypeOK
<1> QED
  BY <1>1, <1>3, Zenon DEF IInv

\* The promise to the client that is served, by what the handler did.
LEMMA PromiseOfServed ==
  ASSUME NEW m \in AnyMessage, NEW r, IInv, Effect(lease, m, now, r)
  PROVE  LET p == Promised(m, r.reply)
         IN  /\ p \in [addr : Addr \cup {NoAddr}, until : Nat]
             /\ p.addr # NoAddr /\ now < p.until =>
                  r.lease[p.addr].mac = m.chaddr /\ r.lease[p.addr].expiry = p.until
<1> DEFINE Type == [addr : Addr \cup {NoAddr}, until : Nat]
<1>1. m.chaddr \in Mac /\ now \in Nat /\ Table(lease)
  BY MessageType, InvTable, Zenon DEF IInv, TypeOK
<1>2. told[m.chaddr] \in Type /\ NoPromise \in Type /\ NoPromise.addr = NoAddr
  BY <1>1, Zenon DEF IInv, TypeOK, NoPromise
<1>3. told[m.chaddr].addr # NoAddr /\ now < told[m.chaddr].until =>
        /\ told[m.chaddr].addr \in Addr
        /\ lease[told[m.chaddr].addr].mac = m.chaddr
        /\ lease[told[m.chaddr].addr].expiry = told[m.chaddr].until
  BY <1>1, <1>2, Zenon DEF IInv, PromiseKept
<1>4. r.reply.type \in {"none", "NAK"} =>
        Promised(m, r.reply) = IF r.reply.type = "none" /\ m.type \in {"DECLINE", "RELEASE"}
                               THEN NoPromise ELSE told[m.chaddr]
  BY Zenon DEF Promised
<1>5. CASE Kept(lease, r)
  BY <1>2, <1>3, <1>4, <1>5, Zenon DEF Kept
<1>6. ASSUME NEW a \in Addr, NEW k \in Nat, Grants(lease, m.chaddr, now, r, a, k)
      PROVE  Promised(m, r.reply) = [addr |-> a, until |-> now + k]
  <2>1. CASE r.reply.type = "OFFER"
    BY <1>6, <2>1, Zenon DEF Promised, Grants
  <2>2. CASE r.reply.type = "ACK"
    BY <1>6, <2>2, Zenon DEF Promised, Grants
  <2> QED
    BY <1>6, <2>1, <2>2, Zenon DEF Grants
<1>7. CASE \E a \in Addr, k \in Nat : Grants(lease, m.chaddr, now, r, a, k)
  <2>1. PICK a \in Addr, k \in Nat : Grants(lease, m.chaddr, now, r, a, k)
    BY <1>7, Zenon
  <2>2. r.lease[a].mac = m.chaddr /\ r.lease[a].expiry = now + k
    BY <1>1, <2>1, GrantKeepsTable
  <2>3. Promised(m, r.reply) = [addr |-> a, until |-> now + k]
    BY <1>6, <2>1, Zenon
  <2> QED
    BY <1>1, <2>2, <2>3
<1>8. CASE \E a \in Addr, e \in Lease : Drops(lease, m, now, r, a, e)
  <2>1. PICK a \in Addr, e \in Lease : Drops(lease, m, now, r, a, e)
    BY <1>8, Zenon
  <2>2. r.reply.type = "none"
    BY <2>1, Zenon DEF Drops
  <2>3. CASE m.type \in {"DECLINE", "RELEASE"}
    BY <1>2, <1>4, <2>2, <2>3, Zenon
  <2>4. CASE m.type \notin {"DECLINE", "RELEASE"}
    <3>1. \A b \in Addr : lease[b].mac # m.chaddr
      BY <2>1, <2>4, Zenon DEF Drops
    <3>2. ~(told[m.chaddr].addr # NoAddr /\ now < told[m.chaddr].until)
      BY <1>3, <3>1, Zenon
    <3> QED
      BY <1>2, <1>4, <2>2, <2>4, <3>2, Zenon
  <2> QED
    BY <2>3, <2>4, Zenon
<1> QED
  BY <1>5, <1>7, <1>8, Zenon DEF Effect

\* A reservation of another client that is not over stays as it is.
LEMMA OthersKept ==
  ASSUME NEW m \in AnyMessage, NEW r, IInv, Effect(lease, m, now, r),
         NEW b \in Addr, lease[b].mac \in Mac \ {m.chaddr}, now < lease[b].expiry
  PROVE  r.lease[b] = lease[b]
<1>1. m.chaddr \in Mac /\ now \in Nat /\ Table(lease) /\ lease[b].expiry \in Nat
  BY MessageType, InvTable, Zenon DEF IInv, TypeOK, Lease
<1>2. CASE Kept(lease, r)
  BY <1>2, Zenon DEF Kept
<1>3. CASE \E a \in Addr, k \in Nat : Grants(lease, m.chaddr, now, r, a, k)
  <2>1. PICK a \in Addr, k \in Nat : Grants(lease, m.chaddr, now, r, a, k)
    BY <1>3, Zenon
  <2>2. a # b
    BY <1>1, <2>1 DEF Grants, MayHave
  <2> QED
    BY <1>1, <2>1, <2>2, Zenon DEF Grants, dhcpd_setlease, Table
<1>4. CASE \E a \in Addr, e \in Lease : Drops(lease, m, now, r, a, e)
  <2>1. PICK a \in Addr, e \in Lease : Drops(lease, m, now, r, a, e)
    BY <1>4, Zenon
  <2>2. a # b
    BY <1>1, <2>1 DEF Drops
  <2>3. \A d \in Addr \ {a} : r.lease[d] = lease[d]
    BY <1>1, <2>1, DropKeepsTable
  <2> QED
    BY <2>2, <2>3, Zenon
<1> QED
  BY <1>2, <1>3, <1>4, Zenon DEF Effect

\* Any message, with any of its outcomes.
LEMMA ServeInv == ASSUME NEW m \in AnyMessage PROVE IInv /\ Serve(m) => IInv'
<1> SUFFICES ASSUME IInv, Serve(m) PROVE IInv'
  BY Zenon
<1>1. m.chaddr \in Mac /\ now \in Nat /\ Table(lease)
  BY MessageType, InvTable, Zenon DEF IInv, TypeOK
<1>2. PICK r \in Handle(lease, m, now, Server) :
        /\ lease' = r.lease
        /\ told' = [told EXCEPT ![m.chaddr] = Promised(m, r.reply)]
        /\ now' = now
  BY Zenon DEF Serve
<1>3. Effect(lease, m, now, r)
  BY <1>1, MessageType, HandleEffect, Zenon
<1>4. Table(lease')
  BY <1>1, <1>2, <1>3, GrantKeepsTable, DropKeepsTable, Zenon DEF Effect, Kept
<1> DEFINE p == Promised(m, r.reply)
<1>5. /\ p \in [addr : Addr \cup {NoAddr}, until : Nat]
      /\ p.addr # NoAddr /\ now < p.until =>
           lease'[p.addr].mac = m.chaddr /\ lease'[p.addr].expiry = p.until
  BY <1>2, <1>3, PromiseOfServed, Zenon
<1> HIDE DEF p
<1>6. /\ told'[m.chaddr] = p
      /\ \A c \in Mac \ {m.chaddr} : told'[c] = told[c]
      /\ told' \in [Mac -> [addr : Addr \cup {NoAddr}, until : Nat]]
  BY <1>1, <1>2, <1>5, Zenon DEF IInv, TypeOK, p
<1>7. TypeOK'
  BY <1>1, <1>2, <1>4, <1>6, Zenon DEF TypeOK, Table
<1>8. OneEntry'
  BY <1>4, Zenon DEF OneEntry, Table
<1>9. ASSUME NEW c \in Mac, told'[c].addr # NoAddr, now' < told'[c].until
      PROVE  lease'[told'[c].addr].mac = c /\ lease'[told'[c].addr].expiry = told'[c].until
  <2>1. CASE c = m.chaddr
    BY <1>2, <1>5, <1>6, <1>9, <2>1, Zenon
  <2>2. CASE c # m.chaddr
    <3>1. told'[c] = told[c] /\ told[c].addr \in Addr
      BY <1>6, <1>9, <2>2, Zenon DEF IInv, TypeOK
    <3>2. lease[told[c].addr].mac = c /\ lease[told[c].addr].expiry = told[c].until
      BY <1>2, <1>9, <3>1, Zenon DEF IInv, PromiseKept
    <3>3. r.lease[told[c].addr] = lease[told[c].addr]
      BY <1>2, <1>3, <1>9, <2>2, <3>1, <3>2, OthersKept
    <3> QED
      BY <1>2, <3>1, <3>2, <3>3, Zenon
  <2> QED
    BY <2>1, <2>2, Zenon
<1> QED
  BY <1>7, <1>8, <1>9, Zenon DEF IInv, PromiseKept

\* Every step keeps the invariant.
LEMMA NextInv == IInv /\ [Next]_vars => IInv'
<1> SUFFICES ASSUME IInv, [Next]_vars PROVE IInv'
  BY Zenon
<1>1. CASE Tick
  BY <1>1, TickInv, Zenon
<1>2. CASE Restart
  BY <1>2, RestartInv, Zenon
<1>3. CASE \E m \in AnyMessage : Serve(m)
  BY <1>3, ServeInv, Zenon
<1>4. CASE UNCHANGED vars
  BY <1>4, Zenon DEF IInv, TypeOK, OneEntry, PromiseKept, vars
<1> QED
  BY <1>1, <1>2, <1>3, <1>4, Zenon DEF Next

-----------------------------------------------------------------------------
(* The theorems. *)

\* The invariant holds of every server, for any number of clients and addresses
\* and any configured times.
THEOREM Invariance == Spec => []IInv
BY InitInv, NextInv, PTL DEF Spec

\* The table that dhcpd_run keeps is always well formed.
THEOREM TypeCorrect == Spec => []TypeOK
<1>1. IInv => TypeOK
  BY Zenon DEF IInv
<1> QED
  BY <1>1, Invariance, PTL

\* A client never has two entries: dhcpd_findbymac, which stops at the first,
\* finds all that it has.
THEOREM NeverTwoEntries == Spec => []OneEntry
<1>1. IInv => OneEntry
  BY Zenon DEF IInv
<1> QED
  BY <1>1, Invariance, PTL

\* What dhcpd_discover offers and dhcpd_request acknowledges stays reserved for
\* its client for the time that was promised, whatever the others send.
THEOREM PromisesKept == Spec => []PromiseKept
<1>1. IInv => PromiseKept
  BY Zenon DEF IInv
<1> QED
  BY <1>1, Invariance, PTL

\* A DISCOVER that dhcpd_discover leaves unanswered found no address to offer.
LEMMA UnansweredDiscover ==
  ASSUME NEW m \in AnyMessage, Serve(m), m.type = "DISCOVER", last'.reply = "none"
  PROVE  /\ \A a \in Addr \ Skipped : ~Free(lease, a, now)
         /\ \A a \in Addr : lease[a].mac # m.chaddr
<1>1. PICK r \in Handle(lease, m, now, Server) :
        last' = [chaddr |-> m.chaddr, type |-> m.type, reply |-> r.reply.type]
  BY Zenon DEF Serve
<1>2. r \in dhcpd_discover(lease, m, now) /\ r.reply.type = "none"
  BY <1>1, Zenon DEF Handle
<1>3. DiscoverAddr(lease, m, now) = {}
  <2> SUFFICES ASSUME DiscoverAddr(lease, m, now) # {} PROVE FALSE
    BY Zenon
  <2>1. PICK a \in DiscoverAddr(lease, m, now) :
          r = Result(dhcpd_setlease(lease, m.chaddr, a, now + OfferTime),
                     Reply("OFFER", a, dhcpd_verifyreqleasetime(m, RemainingTime(lease, m, a, now))))
    BY <1>2, Zenon DEF dhcpd_discover
  <2>2. r.reply.type = "OFFER"
    BY <2>1, Zenon DEF Result, Reply
  <2> QED
    BY <1>2, <2>2, Zenon
<1>4. dhcpd_findbymac(lease, m.chaddr) = {}
  BY <1>3, Zenon DEF DiscoverAddr
<1>5. dhcpd_allocipaddr(lease, now) = {}
  <2>1. ~dhcpd_verifyreqip(lease, m, now)
    BY <1>3, <1>4, Zenon DEF DiscoverAddr
  <2> QED
    BY <1>3, <1>4, <2>1, Zenon DEF DiscoverAddr
<1> QED
  BY <1>4, <1>5, MessageType, FindByMac, AllocIpAddr, Zenon

\* dhcpd_discover refuses a client only when every address that may be handed
\* out is reserved and the client has none.
THEOREM RefusesOnlyWhenFull == Spec => RefusedOnlyWhenFull
<1> DEFINE Full == last'.type = "DISCOVER" /\ last'.reply = "none" =>
                     /\ \A a \in Addr \ Skipped : ~Free(lease, a, now)
                     /\ \A a \in Addr : lease[a].mac # last'.chaddr
<1>1. [Next]_vars => [Full]_<<lease, last, told>>
  <2> SUFFICES ASSUME [Next]_vars PROVE [Full]_<<lease, last, told>>
    BY Zenon
  <2>1. CASE Tick \/ UNCHANGED vars
    BY <2>1, Zenon DEF Tick, vars
  <2>2. CASE Restart
    BY <2>2, Zenon DEF Restart, Nothing
  <2>3. ASSUME NEW m \in AnyMessage, Serve(m) PROVE Full
    <3>1. last'.type = m.type /\ last'.chaddr = m.chaddr
      BY <2>3 DEF Serve
    <3> QED
      BY <2>3, <3>1, UnansweredDiscover, Zenon
  <2> QED
    BY <2>1, <2>2, <2>3, Zenon DEF Next
<1> QED
  BY <1>1, PTL DEF Spec, RefusedOnlyWhenFull

-----------------------------------------------------------------------------
(* The server implements Reservations. *)

\* What a step does to the table decides what it does to the reservations.
LEMMA Mapped ==
  /\ \A a \in Addr : /\ reservation[a].who = lease[a].mac
                     /\ reservation[a].until = lease[a].expiry
                     /\ reservation'[a].who = lease'[a].mac
                     /\ reservation'[a].until = lease'[a].expiry
                     /\ lease'[a] = lease[a] => reservation'[a] = reservation[a]
  /\ lease' = lease => reservation' = reservation
BY Zenon DEF reservation

\* A message that is served serves its client.
LEMMA ServeReserves ==
  ASSUME NEW m \in AnyMessage, IInv, Serve(m)
  PROVE  Reserved!Serve(m.chaddr)
<1> DEFINE c == m.chaddr
<1>1. c \in Mac /\ now \in Nat /\ Table(lease)
  BY MessageType, InvTable, Zenon DEF IInv, TypeOK
<1>2. PICK r \in Handle(lease, m, now, Server) : lease' = r.lease
  BY Zenon DEF Serve
<1>3. last'.chaddr = c /\ now' = now
  BY DEF Serve
<1>4. Effect(lease, m, now, r)
  BY <1>1, MessageType, HandleEffect, Zenon
<1>5. CASE Kept(lease, r)
  BY <1>2, <1>3, <1>5, Mapped, Zenon DEF Kept, Reserved!Serve
<1>6. ASSUME NEW a \in Addr, NEW k \in Nat, Grants(lease, c, now, r, a, k)
      PROVE  Reserved!Change(c, a)
  <2>1. /\ lease'[a].mac = c /\ lease'[a].expiry = now + k
        /\ \A b \in Addr \ {a} : lease'[b] = lease[b]
    BY <1>1, <1>2, <1>6, GrantKeepsTable
  <2>2. lease[a].mac = c \/ lease[a].expiry <= now
    BY <1>6, Zenon DEF Grants, MayHave
  <2>3. \A b \in Addr \ {a} : lease[b].mac # c
    BY <1>6, Zenon DEF Grants, MayHave
  <2>4. now + k >= now
    BY <1>1
  <2> QED
    BY <2>1, <2>2, <2>3, <2>4, Mapped DEF Reserved!Change
<1>7. ASSUME NEW a \in Addr, NEW e \in Lease, Drops(lease, m, now, r, a, e)
      PROVE  Reserved!Change(c, a)
  <2>1. /\ lease'[a].mac = NoMac
        /\ \A b \in Addr \ {a} : lease'[b] = lease[b]
    BY <1>1, <1>2, <1>7, DropKeepsTable
  <2>2. lease[a].mac = c \/ lease[a].expiry <= now
    BY <1>7, Zenon DEF Drops
  <2>3. NoMac # c
    BY <1>1, LeasesAssumption, Zenon
  <2> QED
    BY <2>1, <2>2, <2>3, Mapped, Zenon DEF Reserved!Change
<1> QED
  BY <1>3, <1>4, <1>5, <1>6, <1>7, Zenon DEF Effect, Reserved!Serve

\* The lease table implements the abstract server: only the reservation of the
\* client that dhcpd_run serves changes, and reservations that have run out.
THEOREM ImplementsReservations == Spec => ReservesAddresses
<1>1. Init => Reserved!Init
  BY DEF Init, Reserved!Init, Reserved!Vacant, reservation, EmptyTable, Cleared, Nothing
<1>2. IInv /\ [Next]_vars => [Reserved!Next]_(Reserved!vars)
  <2> SUFFICES ASSUME IInv, [Next]_vars PROVE [Reserved!Next]_(Reserved!vars)
    BY Zenon
  <2>1. CASE Tick
    BY <2>1, Mapped, Zenon DEF Tick, Reserved!Next, Reserved!Tick
  <2>2. CASE Restart
    BY <2>2, Zenon
    DEF Restart, Reserved!Next, Reserved!Restart, Reserved!Vacant,
                reservation, EmptyTable, Cleared, Nothing
  <2>3. CASE \E m \in AnyMessage : Serve(m)
    BY <2>3, MessageType, ServeReserves, Zenon DEF Reserved!Next
  <2>4. CASE UNCHANGED vars
    BY <2>4, Mapped, Zenon DEF vars, Reserved!vars
  <2> QED
    BY <2>1, <2>2, <2>3, <2>4, Zenon DEF Next
<1> QED
  BY <1>1, <1>2, Invariance, PTL DEF Spec, Reserved!Spec, ReservesAddresses
=============================================================================
