------------------------------- MODULE Dhcpd --------------------------------
(* One DHCP server and clients that send it any message at any time.         *)
EXTENDS DhcpdLeases

CONSTANTS Server,   \* the server
          AskTime,  \* the lease times that clients ask for, 0 for none
          MaxTime   \* bound: the clock stops here

ASSUME DhcpdAssumption ==
  /\ Server # NoServer
  /\ AskTime \subseteq Nat
  /\ MaxTime \in Nat

VARIABLES lease,  \* ds_leases
          now,    \* dhcpd_time()
          last,   \* the message handled last and the reply to it
          told    \* what each client was promised last: an address, and until when

vars == <<lease, now, last, told>>

NoPromise == [addr |-> NoAddr, until |-> 0]
Nothing   == [chaddr |-> NoMac, type |-> "none", reply |-> "none"]

\* Any message a client may send.
AnyMessage ==
  {Message("DISCOVER", c, NoServer, reqip, NoAddr, time) :
     c \in Mac, reqip \in {NoAddr, Outside} \cup Addr, time \in AskTime}
  \cup
  {Message("REQUEST", c, server, reqip, ciaddr, time) :
     c \in Mac, server \in {Server, "other", NoServer},
     reqip \in {NoAddr, Outside} \cup Addr, ciaddr \in {NoAddr} \cup Addr,
     time \in AskTime}
  \cup
  {Message(type, c, NoServer, NoAddr, NoAddr, 0) :
     type \in {"DECLINE", "RELEASE", "INFORM"}, c \in Mac}

Init ==
  /\ lease = EmptyTable
  /\ now = 0
  /\ last = Nothing
  /\ told = [c \in Mac |-> NoPromise]

\* What the client may rely on after the reply.
Promised(m, reply) ==
  CASE reply.type = "OFFER" -> [addr |-> reply.addr, until |-> now + OfferTime]
    [] reply.type = "ACK"   -> [addr |-> reply.addr, until |-> now + reply.time]
    [] reply.type = "none" /\ m.type \in {"DECLINE", "RELEASE"} -> NoPromise
    [] OTHER -> told[m.chaddr]

Serve(m) ==
  \E r \in Handle(lease, m, now, Server) :
    /\ lease' = r.lease
    /\ last' = [chaddr |-> m.chaddr, type |-> m.type, reply |-> r.reply.type]
    /\ told' = [told EXCEPT ![m.chaddr] = Promised(m, r.reply)]
    /\ UNCHANGED now

Tick ==
  /\ now < MaxTime
  /\ now' = now + 1
  /\ UNCHANGED <<lease, last, told>>

\* dhcpd_stop and dhcpd_start: the table is freed, the new one is empty.
Restart ==
  /\ lease' = EmptyTable
  /\ last' = Nothing
  /\ told' = [c \in Mac |-> NoPromise]
  /\ UNCHANGED now

Next == Tick \/ Restart \/ \E m \in AnyMessage : Serve(m)

Spec == Init /\ [][Next]_vars

-----------------------------------------------------------------------------
(* The properties. *)

\* The table holds leases; an entry that is not allocated is as memset left it.
TypeOK ==
  /\ lease \in [Addr -> Lease]
  /\ now \in Nat
  /\ \A a \in Addr : ~lease[a].allocated => lease[a] = Cleared
  /\ told \in [Mac -> [addr : Addr \cup {NoAddr}, until : Nat]]

\* A hardware address is in one entry of the table at most, so that
\* dhcpd_findbymac, which stops at the first, finds all that a client has.
OneEntry ==
  \A a, b \in Addr : lease[a].mac = lease[b].mac /\ lease[a].mac # NoMac => a = b

\* An address that was offered to a client, or acknowledged, stays reserved for
\* it for the offer time, or the lease time, whatever the other clients send.
PromiseKept ==
  \A c \in Mac :
    told[c].addr # NoAddr /\ now < told[c].until =>
      /\ lease[told[c].addr].mac = c
      /\ lease[told[c].addr].expiry = told[c].until

\* A DISCOVER stays unanswered only when every address that may be handed out
\* is reserved and the client has none.
RefusedOnlyWhenFull ==
  [][last'.type = "DISCOVER" /\ last'.reply = "none" =>
       /\ \A a \in Addr \ Skipped : ~Free(lease, a, now)
       /\ \A a \in Addr : lease[a].mac # last'.chaddr]_<<lease, last, told>>

\* Who has each address, and until when.
reservation ==
  [a \in Addr |-> [who |-> lease[a].mac, until |-> lease[a].expiry]]

\* The table implements the abstract server: in each step only the reservation
\* of the client that is served changes, and reservations that have run out.
Reserved ==
  INSTANCE Reservations WITH
    Place <- Addr, Client <- Mac, Nobody <- NoMac,
    res <- reservation, clock <- now,
    client <- last.chaddr

ReservesAddresses == Reserved!Spec
=============================================================================
