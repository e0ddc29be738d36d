----------------------------- MODULE DhcpProofs -----------------------------
(***************************************************************************)
(* Clients and servers on one network, for any number of each, any number  *)
(* of addresses, and any loss, repetition and reordering of datagrams.     *)
(***************************************************************************)
EXTENDS Dhcp, DhcpdLeasesProofs

(* The invariant. *)

Place == [server : Server \cup {NoServer}, addr : Addr \cup {NoAddr}]

PC == {"none", "begin", "discover", "offer?", "request", "ack?", "rest", "sleep"}

ClientState ==
  [pc : PC, retries : Nat, offer : Place, ifaddr : Place, oldaddr : Place,
   lease_time : Nat, wake : Nat, cancel : BOOLEAN]

\* What clients send, and what servers send.
ClientMessage ==
  [type : {"DISCOVER", "REQUEST", "DECLINE"}, chaddr : Mac,
   serverid : Server \cup {NoServer}, reqip : Addr \cup {NoAddr},
   ciaddr : {NoAddr}, leasetime : {0}]

Sent == [to : Server \cup {"all"}, of : Mac, xid : {"current", "earlier"},
         m : ClientMessage]

IsReply(p) ==
  /\ p.to \in Mac /\ p.of = p.to
  /\ p.time \in Nat /\ p.until \in Nat
  /\ p.type \in {"OFFER", "ACK"} => p.at \in [server : Server, addr : Addr]

NetInv == \A p \in net : (p \in Sent /\ p.m.chaddr = p.of) \/ IsReply(p)

TypeInv ==
  /\ site \in Sites
  /\ lease \in [Server -> [Addr -> Lease]]
  /\ \A s \in Server : Table(lease[s])
  /\ now \in Nat
  /\ NetInv
  /\ cl \in [Mac -> ClientState]
  /\ held \in [Mac -> [at : Place, until : Nat]]

\* The REQUESTs of the client's current transaction, and the ACKs to it, that
\* may still be delivered.
Requests(c) == {p \in net : p.to # c /\ p.of = c /\ p.xid = "current"
                                        /\ p.m.type = "REQUEST"}
Acks(c)     == {p \in Received(c) : p.type = "ACK"}

\* A client that has no offer yet has sent no REQUEST in this transaction; one
\* that has, has sent it to the server of the offer only, and only that server
\* acknowledges it; one that has a lease has it from that server.
Transaction(c) ==
  /\ cl[c].pc \in {"discover", "offer?"} => Requests(c) = {} /\ Acks(c) = {}
  /\ cl[c].pc \in {"request", "ack?"} =>
       /\ cl[c].offer.server \in Server
       /\ \A p \in Requests(c) : p.m.serverid = cl[c].offer.server
       /\ \A p \in Acks(c) : p.at.server = cl[c].offer.server
  /\ cl[c].pc \in {"rest", "sleep"} => held[c].at.server = cl[c].offer.server

\* The leases that the client has been granted last or may yet hear of.
Promises(c) ==
  {held[c]} \cup {[at |-> p.at, until |-> p.until] : p \in Acks(c)}

\* A lease in its protected time is recorded by its server, for its client or,
\* once it was declined, for nobody.
RecordedInv ==
  \A c \in Mac, s \in Server, a \in Addr : \A x \in Promises(c) :
    x.at = [server |-> s, addr |-> a] /\ now < SafeUntil(x) =>
      /\ lease[s][a].mac \in {c, NoMac}
      /\ lease[s][a].expiry >= SafeUntil(x)
      /\ SafeUntil(x) <= now + Protected

\* No address is promised to two clients within the protected time.
ApartInv ==
  \A c, d \in Mac : \A x \in Promises(c), y \in Promises(d) :
    x.at = y.at /\ now < SafeUntil(x) /\ now < SafeUntil(y) => c = d

\* The types and the transactions, and what is known of the leases.
BaseInv == TypeInv /\ \A c \in Mac : Transaction(c)
LeaseInv == RecordedInv /\ ApartInv

-----------------------------------------------------------------------------
(* The protected time. *)

\* It is no longer than any of the times for which an address is reserved.
LEMMA ProtectedLeast ==
  /\ Protected \in Nat /\ Protected <= LeaseTime
  /\ Protected <= OfferTime /\ Protected <= DeclineTime
BY LeasesAssumption DEF Protected

\* It begins when the lease is granted.
LEMMA SafeFromGrant ==
  ASSUME NEW x, NEW t \in Nat, x.until = t + LeaseTime
  PROVE  SafeUntil(x) = t + Protected
BY ProtectedLeast, LeasesAssumption DEF SafeUntil

\* It ends at some time, at the latest when the lease is over.
LEMMA SafeType ==
  ASSUME NEW x, x.until \in Nat
  PROVE  SafeUntil(x) \in Int /\ SafeUntil(x) <= x.until
BY ProtectedLeast, LeasesAssumption DEF SafeUntil

-----------------------------------------------------------------------------
(* The datagrams. *)

\* A client reads replies only, and a server what clients have sent.
LEMMA Kinds ==
  ASSUME NetInv, NEW p \in net
  PROVE  /\ \A c \in Mac : p.to = c => IsReply(p)
         /\ \A s \in Server : p.to \in {"all", s} => p \in Sent /\ p.m.chaddr = p.of
         /\ \A c \in Mac : p.of = c /\ p.to # c => p \in Sent /\ p.m.chaddr = p.of
<1>1. (p \in Sent /\ p.m.chaddr = p.of) \/ IsReply(p)
  BY Zenon DEF NetInv
<1>2. p \in Sent => p.to \in Server \cup {"all"}
  BY Zenon DEF Sent
<1> QED
  BY <1>1, <1>2, DhcpAssumption, Zenon DEF IsReply

\* What dhcpc_sendmsg adds to the network is a message of this transaction.
LEMMA SendNet ==
  ASSUME NetInv, NEW c \in Mac, NEW type \in {"DISCOVER", "REQUEST", "DECLINE"},
         NEW to \in Server \cup {"all"}, NEW server \in Server \cup {NoServer},
         NEW reqip \in Addr \cup {NoAddr}, Send(c, type, to, server, reqip)
  PROVE  /\ NetInv'
         /\ \A d \in Mac : Acks(d)' = Acks(d)
         /\ \A d \in Mac \ {c} : Requests(d)' = Requests(d)
         /\ \A q \in Requests(c)' :
              q \in Requests(c) \/ (type = "REQUEST" /\ q.m.serverid = server)
<1> DEFINE m == Message(type, c, server, reqip, NoAddr, 0)
           p == [to |-> to, of |-> c, xid |-> "current", m |-> m]
<1>1. net' = net \cup {p}
  BY Zenon DEF Send
<1>2. m \in ClientMessage /\ m.chaddr = c /\ m.type = type /\ m.serverid = server
  BY Zenon DEF Message, ClientMessage
<1> HIDE DEF m
<1>3. p \in Sent /\ p.m = m /\ p.of = c /\ p.to = to
  BY <1>2, Zenon DEF Sent
<1>4. to \notin Mac
  BY DhcpAssumption, Zenon
<1> HIDE DEF p
<1>5. NetInv'
  BY <1>1, <1>2, <1>3, Zenon DEF NetInv, IsReply
<1>6. \A d \in Mac : Acks(d)' = Acks(d)
  BY <1>1, <1>3, <1>4, Zenon DEF Acks, Received
<1>7. \A d \in Mac \ {c} : Requests(d)' = Requests(d)
  BY <1>1, <1>3, Zenon DEF Requests
<1>8. \A q \in Requests(c)' : q \in Requests(c) \/ (type = "REQUEST" /\ q.m.serverid = server)
  BY <1>1, <1>2, <1>3, Zenon DEF Requests
<1> QED
  BY <1>5, <1>6, <1>7, <1>8, Zenon

\* A new transaction has no REQUEST and no reply of its own yet.
LEMMA BeginNet ==
  ASSUME NetInv, NEW c \in Mac, Begin(c)
  PROVE  /\ NetInv'
         /\ Acks(c)' = {} /\ Requests(c)' = {}
         /\ \A d \in Mac \ {c} : Acks(d)' \subseteq Acks(d)
         /\ \A d \in Mac \ {c} : Requests(d)' \subseteq Requests(d)
<1> DEFINE Aged(p) == IF p.of = c THEN [p EXCEPT !.xid = "earlier"] ELSE p
<1>1. net' = {Aged(p) : p \in {q \in net : q.to # c}}
  BY Zenon DEF Begin
<1>2. ASSUME NEW p \in net, p.to # c, p.of = c
      PROVE  /\ Aged(p) \in Sent /\ Aged(p).m.chaddr = Aged(p).of
             /\ Aged(p).of = c /\ Aged(p).xid = "earlier" /\ Aged(p).to = p.to
  <2>1. p \in Sent /\ p.m.chaddr = p.of
    BY <1>2, Kinds, Zenon
  <2> QED
    BY <1>2, <2>1, Zenon DEF Sent
<1>3. \A p \in net : p.of # c => Aged(p) = p
  BY Zenon
<1> HIDE DEF Aged
<1>4. ASSUME NEW q \in net'
      PROVE  \/ q \in net /\ q.of # c /\ q.to # c
             \/ /\ q \in Sent /\ q.m.chaddr = q.of
                /\ q.of = c /\ q.xid = "earlier"
  <2>1. PICK p \in net : p.to # c /\ q = Aged(p)
    BY <1>1, Zenon
  <2>2. CASE p.of = c
    BY <1>2, <2>1, <2>2, Zenon
  <2>3. CASE p.of # c
    BY <1>3, <2>1, <2>3, Zenon
  <2> QED
    BY <2>2, <2>3, Zenon
<1>5. \A q \in Sent : q.to \notin Mac
  BY DhcpAssumption, Zenon DEF Sent
<1>6. NetInv'
  <2> SUFFICES ASSUME NEW q \in net'
               PROVE  (q \in Sent /\ q.m.chaddr = q.of) \/ IsReply(q)
    BY Zenon DEF NetInv, IsReply
  <2> QED
    BY <1>4, Zenon DEF NetInv
<1>7. Acks(c)' = {}
  BY <1>4, <1>5, Zenon DEF Acks, Received
<1>8. Requests(c)' = {}
  BY <1>4, Zenon DEF Requests
<1>9. \A d \in Mac \ {c} : Acks(d)' \subseteq Acks(d)
  BY <1>4, <1>5, Zenon DEF Acks, Received
<1>10. \A d \in Mac \ {c} : Requests(d)' \subseteq Requests(d)
  BY <1>4, Zenon DEF Requests
<1> QED
  BY <1>6, <1>7, <1>8, <1>9, <1>10, Zenon

-----------------------------------------------------------------------------
(* The clients. *)

\* The end of a transaction leaves a client in one of its states.
LEMMA OverType ==
  ASSUME NEW state \in ClientState, NEW pc \in PC
  PROVE  Over(state, pc) \in ClientState /\ Over(state, pc).pc = pc
<1>1. Any \in Place
  BY Zenon DEF Any, Place
<1>2. Idle \in ClientState
  BY <1>1, Zenon DEF Idle, ClientState, PC
<1>3. state.ifaddr \in Place /\ state.cancel \in BOOLEAN
  BY Zenon DEF ClientState
<1> QED
  BY <1>2, <1>3, Zenon DEF Over, ClientState

\* The next message is one more try.
LEMMA TryType ==
  ASSUME NEW state \in ClientState, NEW pc \in PC
  PROVE  LET new == [state EXCEPT !.pc = pc, !.retries = @ + 1]
         IN  new \in ClientState /\ new.pc = pc /\ new.offer = state.offer
<1>1. state.retries + 1 \in Nat
  BY DEF ClientState
<1>2. \A n \in Nat : LET new == [state EXCEPT !.pc = pc, !.retries = n]
                     IN  new \in ClientState /\ new.pc = pc /\ new.offer = state.offer
  BY Zenon DEF ClientState
<1> QED
  BY <1>1, <1>2, Zenon

\* A step sets the state of its own client.
LEMMA SetClient ==
  ASSUME TypeInv, NEW c \in Mac, NEW state \in ClientState, Set(c, state)
  PROVE  /\ cl' \in [Mac -> ClientState]
         /\ cl'[c] = state
         /\ \A d \in Mac \ {c} : cl'[d] = cl[d]
BY Zenon DEF TypeInv, Set

\* A failed request ends the thread or starts the next transaction.
LEMMA FailedClient ==
  ASSUME TypeInv, NEW c \in Mac, NEW state \in ClientState, Failed(c, state)
  PROVE  /\ cl' \in [Mac -> ClientState]
         /\ cl'[c].pc \in {"none", "begin"}
         /\ \A d \in Mac \ {c} : cl'[d] = cl[d]
<1> DEFINE pc == IF state.cancel THEN "none" ELSE "begin"
<1>1. pc \in PC /\ pc \in {"none", "begin"}
  BY Zenon DEF PC
<1> HIDE DEF pc
<1>2. Set(c, Over(state, pc))
  BY Zenon DEF Failed, pc
<1>3. Over(state, pc) \in ClientState /\ Over(state, pc).pc = pc
  BY <1>1, OverType, Zenon
<1> QED
  BY <1>1, <1>2, <1>3, SetClient, Zenon

\* The transactions of the other clients do not notice.
LEMMA Others ==
  ASSUME NEW c \in Mac,
         \A d \in Mac : Transaction(d),
         \A d \in Mac \ {c} : /\ cl'[d] = cl[d] /\ held'[d] = held[d]
                              /\ Requests(d)' \subseteq Requests(d)
                              /\ Acks(d)' \subseteq Acks(d)
  PROVE  \A d \in Mac \ {c} : Transaction(d)'
<1> SUFFICES ASSUME NEW d \in Mac \ {c} PROVE Transaction(d)'
  BY Zenon
<1>1. Transaction(d)
  BY Zenon
<1>2. /\ cl'[d] = cl[d] /\ held'[d] = held[d]
      /\ Requests(d)' \subseteq Requests(d) /\ Acks(d)' \subseteq Acks(d)
  BY Zenon
<1> QED
  BY <1>1, <1>2 DEF Transaction

\* What a step of client c keeps: the tables and the clock, the types, its own
\* transaction, the other clients, and no ACK appears.
Own(c) ==
  /\ site' = site /\ lease' = lease /\ now' = now
  /\ NetInv'
  /\ cl' \in [Mac -> ClientState]
  /\ held' \in [Mac -> [at : Place, until : Nat]]
  /\ \A d \in Mac \ {c} : /\ cl'[d] = cl[d] /\ held'[d] = held[d]
                          /\ Requests(d)' \subseteq Requests(d)
  /\ \A d \in Mac : Acks(d)' \subseteq Acks(d)
  /\ held'[c] \in Promises(c)
  /\ Transaction(c)'

\* Steps that send nothing and are granted nothing leave what may be delivered
\* as it is.
LEMMA Unsent ==
  ASSUME TypeInv, UNCHANGED <<site, lease, now, net, held>>
  PROVE  /\ site' = site /\ lease' = lease /\ now' = now /\ NetInv'
         /\ held' \in [Mac -> [at : Place, until : Nat]]
         /\ \A d \in Mac : /\ held'[d] = held[d] /\ held'[d] \in Promises(d)
                           /\ Requests(d)' = Requests(d) /\ Acks(d)' = Acks(d)
<1>1. NetInv'
  BY Zenon DEF TypeInv, NetInv, IsReply
<1> QED
  BY <1>1, Zenon DEF TypeInv, Promises, Requests, Acks, Received

\* dhcpc_request begins.
LEMMA BeginOwn == ASSUME BaseInv, NEW c \in Mac, Begin(c) PROVE Own(c)
<1> DEFINE state == [cl[c] EXCEPT !.pc = "discover", !.retries = 0,
                                  !.oldaddr = cl[c].ifaddr]
<1>1. cl[c] \in ClientState /\ TypeInv
  BY Zenon DEF BaseInv, TypeInv
<1>2. state \in ClientState /\ state.pc = "discover" /\ Set(c, state)
  BY <1>1, Zenon DEF ClientState, PC, Begin
<1> HIDE DEF state
<1>3. cl' \in [Mac -> ClientState] /\ cl'[c] = state /\ \A d \in Mac \ {c} : cl'[d] = cl[d]
  BY <1>1, <1>2, SetClient, Zenon
<1>4. /\ NetInv'
      /\ Acks(c)' = {} /\ Requests(c)' = {}
      /\ \A d \in Mac \ {c} : Acks(d)' \subseteq Acks(d)
      /\ \A d \in Mac \ {c} : Requests(d)' \subseteq Requests(d)
  BY <1>1, BeginNet, Zenon DEF TypeInv
<1>5. Transaction(c)'
  BY <1>2, <1>3, <1>4, Zenon DEF Transaction
<1>6. site' = site /\ lease' = lease /\ now' = now /\ held' = held
  BY Zenon DEF Begin
<1> QED
  BY <1>1, <1>3, <1>4, <1>5, <1>6, Zenon DEF Own, TypeInv, Promises

\* A failed request sends nothing.
LEMMA FailedOwn ==
  ASSUME BaseInv, NEW c \in Mac, NEW state \in ClientState, Failed(c, state),
         UNCHANGED <<site, lease, now, net, held>>
  PROVE  Own(c)
<1>1. TypeInv
  BY Zenon DEF BaseInv
<1>2. /\ cl' \in [Mac -> ClientState]
      /\ cl'[c].pc \in {"none", "begin"}
      /\ \A d \in Mac \ {c} : cl'[d] = cl[d]
  BY <1>1, FailedClient, Zenon
<1>3. Transaction(c)'
  BY <1>2, Zenon DEF Transaction
<1> QED
  BY <1>1, <1>2, <1>3, Unsent, Zenon DEF Own

\* A step that stays within its phase of the transaction, or leaves it.
LEMMA SetOwn ==
  ASSUME BaseInv, NEW c \in Mac, NEW state \in ClientState, Set(c, state),
         UNCHANGED <<site, lease, now, net, held>>,
         \/ state.pc \in {"none", "begin"}
         \/ {state.pc, cl[c].pc} \subseteq {"discover", "offer?"}
         \/ /\ \/ {state.pc, cl[c].pc} \subseteq {"request", "ack?"}
               \/ {state.pc, cl[c].pc} \subseteq {"rest", "sleep"}
            /\ state.offer = cl[c].offer
  PROVE  Own(c)
<1>1. TypeInv /\ Transaction(c)
  BY Zenon DEF BaseInv
<1>2. cl' \in [Mac -> ClientState] /\ cl'[c] = state /\ \A d \in Mac \ {c} : cl'[d] = cl[d]
  BY <1>1, SetClient, Zenon
<1>3. held'[c] = held[c] /\ Requests(c)' = Requests(c) /\ Acks(c)' = Acks(c)
  BY <1>1, Unsent, Zenon
<1>4. Transaction(c)'
  BY <1>1, <1>2, <1>3, Zenon DEF Transaction
<1> QED
  BY <1>1, <1>2, <1>4, Unsent, Zenon DEF Own

\* A DISCOVER asks no server for a lease.
LEMMA SendDiscoverOwn == ASSUME BaseInv, NEW c \in Mac, SendDiscover(c) PROVE Own(c)
<1>1. TypeInv /\ cl[c] \in ClientState /\ Transaction(c) /\ cl[c].pc = "discover"
  BY Zenon DEF BaseInv, TypeInv, SendDiscover
<1>2. CASE Failed(c, cl[c]) /\ UNCHANGED net
  BY <1>1, <1>2, FailedOwn, Zenon DEF SendDiscover
<1>3. CASE ~(Failed(c, cl[c]) /\ UNCHANGED net)
  <2> DEFINE state == [cl[c] EXCEPT !.pc = "offer?", !.retries = @ + 1]
  <2>1. /\ Set(c, state) /\ Send(c, "DISCOVER", "all", NoServer, NoAddr)
        /\ UNCHANGED <<site, lease, now, held>>
    BY <1>3, Zenon DEF SendDiscover
  <2>2. state \in ClientState /\ state.pc = "offer?"
    BY <1>1, TryType, Zenon DEF PC
  <2> HIDE DEF state
  <2>3. cl' \in [Mac -> ClientState] /\ cl'[c] = state /\ \A d \in Mac \ {c} : cl'[d] = cl[d]
    BY <1>1, <2>1, <2>2, SetClient, Zenon
  <2>4. /\ NetInv'
        /\ \A d \in Mac : Acks(d)' = Acks(d)
        /\ \A d \in Mac \ {c} : Requests(d)' = Requests(d)
        /\ Requests(c)' \subseteq Requests(c)
    BY <1>1, <2>1, SendNet, Zenon DEF TypeInv
  <2>5. Transaction(c)'
    BY <1>1, <2>2, <2>3, <2>4, Zenon DEF Transaction
  <2> QED
    BY <1>1, <2>1, <2>3, <2>4, <2>5, Zenon DEF Own, TypeInv, Promises
<1> QED
  BY <1>2, <1>3, Zenon

\* A REQUEST goes to the server of the offer.
LEMMA SendRequestOwn == ASSUME BaseInv, NEW c \in Mac, SendRequest(c) PROVE Own(c)
<1>1. TypeInv /\ cl[c] \in ClientState /\ Transaction(c) /\ cl[c].pc = "request"
  BY Zenon DEF BaseInv, TypeInv, SendRequest
<1>2. CASE Failed(c, cl[c]) /\ UNCHANGED net
  BY <1>1, <1>2, FailedOwn, Zenon DEF SendRequest
<1>3. CASE ~(Failed(c, cl[c]) /\ UNCHANGED net)
  <2> DEFINE state == [cl[c] EXCEPT !.pc = "ack?", !.retries = @ + 1]
             offer == cl[c].offer
  <2>1. /\ Set(c, state) /\ Send(c, "REQUEST", "all", offer.server, offer.addr)
        /\ UNCHANGED <<site, lease, now, held>>
    BY <1>3, Zenon DEF SendRequest
  <2>2. /\ state \in ClientState /\ state.pc = "ack?" /\ state.offer = offer
        /\ offer.server \in Server \cup {NoServer} /\ offer.addr \in Addr \cup {NoAddr}
    <3>1. state \in ClientState /\ state.pc = "ack?" /\ state.offer = offer
      BY <1>1, TryType, Zenon DEF PC
    <3>2. offer \in Place
      BY <1>1, Zenon DEF ClientState
    <3> QED
      BY <3>1, <3>2, Zenon DEF Place
  <2>3. /\ offer.server \in Server
        /\ \A p \in Requests(c) : p.m.serverid = offer.server
        /\ \A p \in Acks(c) : p.at.server = offer.server
    BY <1>1, Zenon DEF Transaction
  <2> HIDE DEF state, offer
  <2>4. cl' \in [Mac -> ClientState] /\ cl'[c] = state /\ \A d \in Mac \ {c} : cl'[d] = cl[d]
    BY <1>1, <2>1, <2>2, SetClient, Zenon
  <2>5. /\ NetInv'
        /\ \A d \in Mac : Acks(d)' = Acks(d)
        /\ \A d \in Mac \ {c} : Requests(d)' = Requests(d)
        /\ \A q \in Requests(c)' : q \in Requests(c) \/ q.m.serverid = offer.server
    BY <1>1, <2>1, <2>2, SendNet, Zenon DEF TypeInv
  <2>6. Transaction(c)'
    BY <2>2, <2>3, <2>4, <2>5, Zenon DEF Transaction
  <2> QED
    BY <1>1, <2>1, <2>4, <2>5, <2>6, Zenon DEF Own, TypeInv, Promises
<1> QED
  BY <1>2, <1>3, Zenon

\* The client locks on to the server of the first OFFER.
LEMMA RecvOfferOwn == ASSUME BaseInv, NEW c \in Mac, RecvOffer(c) PROVE Own(c)
<1>1. TypeInv /\ cl[c] \in ClientState /\ Transaction(c) /\ cl[c].pc = "offer?"
  BY Zenon DEF BaseInv, TypeInv, RecvOffer
<1>2. PICK p \in Received(c) :
        /\ p.type = "OFFER"
        /\ Set(c, [cl[c] EXCEPT !.pc = "request", !.retries = 0,
                                !.offer = p.at, !.ifaddr = p.at])
  BY Zenon DEF RecvOffer
<1> DEFINE state == [cl[c] EXCEPT !.pc = "request", !.retries = 0,
                                  !.offer = p.at, !.ifaddr = p.at]
<1>3. IsReply(p)
  BY <1>1, Kinds, Zenon DEF TypeInv, Received
<1>4. p.at.server \in Server /\ p.at \in Place
  BY <1>2, <1>3, Zenon DEF IsReply, Place
<1>5. state \in ClientState /\ state.pc = "request" /\ state.offer = p.at /\ Set(c, state)
  BY <1>1, <1>2, <1>4, Zenon DEF ClientState, PC
<1> HIDE DEF state
<1>6. cl' \in [Mac -> ClientState] /\ cl'[c] = state /\ \A d \in Mac \ {c} : cl'[d] = cl[d]
  BY <1>1, <1>5, SetClient, Zenon
<1>7. UNCHANGED <<site, lease, now, net, held>>
  BY Zenon DEF RecvOffer
<1>8. Requests(c)' = {} /\ Acks(c)' = {}
  BY <1>1, <1>7, Unsent, Zenon DEF Transaction
<1>9. Transaction(c)'
  BY <1>4, <1>5, <1>6, <1>8, Zenon DEF Transaction
<1> QED
  BY <1>1, <1>6, <1>7, <1>9, Unsent, Zenon DEF Own

\* The ACK that dhcpc_request takes was promised before.
LEMMA RecvAckOwn == ASSUME BaseInv, NEW c \in Mac, RecvAck(c) PROVE Own(c)
<1>1. TypeInv /\ cl[c] \in ClientState /\ Transaction(c) /\ cl[c].pc = "ack?"
  BY Zenon DEF BaseInv, TypeInv, RecvAck
<1>2. PICK p \in Received(c) :
        /\ p.type = "ACK"
        /\ held' = [held EXCEPT ![c] = [at |-> p.at, until |-> p.until]]
        /\ Set(c, IF cl[c].cancel THEN Over(cl[c], "none")
                  ELSE [Over(cl[c], "rest") EXCEPT !.offer = cl[c].offer,
                                                   !.lease_time = p.time \div 2])
  BY Zenon DEF RecvAck
<1> DEFINE got == [at |-> p.at, until |-> p.until]
           rest == [Over(cl[c], "rest") EXCEPT !.offer = cl[c].offer,
                                               !.lease_time = p.time \div 2]
           state == IF cl[c].cancel THEN Over(cl[c], "none") ELSE rest
<1>3. IsReply(p) /\ p \in Acks(c)
  BY <1>1, <1>2, Kinds, Zenon DEF TypeInv, Received, Acks
<1>4. p.at \in Place /\ p.until \in Nat /\ p.time \div 2 \in Nat
  BY <1>2, <1>3 DEF IsReply, Place
<1>5. rest \in ClientState /\ rest.pc = "rest" /\ rest.offer = cl[c].offer
  <2>1. Over(cl[c], "rest") \in ClientState /\ Over(cl[c], "rest").pc = "rest"
    BY <1>1, OverType, Zenon DEF PC
  <2>2. cl[c].offer \in Place
    BY <1>1, Zenon DEF ClientState
  <2> QED
    BY <1>4, <2>1, <2>2, Zenon DEF ClientState
<1>6. Over(cl[c], "none") \in ClientState /\ Over(cl[c], "none").pc = "none"
  BY <1>1, OverType, Zenon DEF PC
<1> HIDE DEF rest
<1>7. /\ state \in ClientState
      /\ state.pc = "none" \/ (state.pc = "rest" /\ state.offer = cl[c].offer)
  BY <1>5, <1>6, Zenon
<1>8. Set(c, state)
  BY <1>2, Zenon DEF rest
<1> HIDE DEF state
<1>9. cl' \in [Mac -> ClientState] /\ cl'[c] = state /\ \A d \in Mac \ {c} : cl'[d] = cl[d]
  BY <1>1, <1>7, <1>8, SetClient, Zenon
<1>10. /\ held' \in [Mac -> [at : Place, until : Nat]]
       /\ held'[c] = got /\ got \in Promises(c)
       /\ \A d \in Mac \ {c} : held'[d] = held[d]
  BY <1>1, <1>2, <1>3, <1>4, Zenon DEF TypeInv, Promises
<1>11. got.at.server = cl[c].offer.server
  BY <1>1, <1>3, Zenon DEF Transaction
<1>12. Transaction(c)'
  BY <1>7, <1>9, <1>10, <1>11, Zenon DEF Transaction
<1>13. site' = site /\ lease' = lease /\ now' = now /\ net' = net
  BY Zenon DEF RecvAck
<1>14. NetInv' /\ \A d \in Mac : Requests(d)' = Requests(d) /\ Acks(d)' = Acks(d)
  BY <1>1, <1>13, Zenon DEF TypeInv, NetInv, IsReply, Requests, Acks, Received
<1> QED
  BY <1>9, <1>10, <1>12, <1>13, <1>14, Zenon DEF Own

\* A NAK ends the request, and the interface loses its address.
LEMMA RecvNakOwn == ASSUME BaseInv, NEW c \in Mac, RecvNak(c) PROVE Own(c)
<1>1. cl[c] \in ClientState /\ Any \in Place
  BY Zenon DEF BaseInv, TypeInv, Any, Place
<1>2. [cl[c] EXCEPT !.ifaddr = Any] \in ClientState
  BY <1>1, Zenon DEF ClientState
<1> QED
  BY <1>2, FailedOwn, Zenon DEF RecvNak

\* An error of recv ends it, with the previous address.
LEMMA RecvErrorOwn == ASSUME BaseInv, NEW c \in Mac, RecvError(c) PROVE Own(c)
<1>1. cl[c] \in ClientState
  BY Zenon DEF BaseInv, TypeInv
<1>2. [cl[c] EXCEPT !.ifaddr = cl[c].oldaddr] \in ClientState
  BY <1>1, Zenon DEF ClientState
<1>3. CASE Failed(c, cl[c])
  BY <1>1, <1>3, FailedOwn, Zenon DEF RecvError
<1>4. CASE Failed(c, [cl[c] EXCEPT !.ifaddr = cl[c].oldaddr])
  BY <1>2, <1>4, FailedOwn, Zenon DEF RecvError
<1> QED
  BY <1>3, <1>4, Zenon DEF RecvError

\* A DECLINE to another server is no REQUEST.
LEMMA RecvOtherOfferOwn == ASSUME BaseInv, NEW c \in Mac, RecvOtherOffer(c) PROVE Own(c)
<1>1. TypeInv /\ Transaction(c) /\ cl[c].pc = "ack?"
  BY Zenon DEF BaseInv, RecvOtherOffer
<1>2. PICK p \in Received(c) :
        /\ p.type = "OFFER"
        /\ Send(c, "DECLINE", p.at.server, p.at.server, NoAddr)
  BY Zenon DEF RecvOtherOffer
<1>3. p.at.server \in Server
  <2>1. IsReply(p)
    BY <1>1, Kinds, Zenon DEF TypeInv, Received
  <2> QED
    BY <1>2, <2>1, Zenon DEF IsReply
<1>4. /\ NetInv'
      /\ \A d \in Mac : Acks(d)' = Acks(d)
      /\ \A d \in Mac \ {c} : Requests(d)' = Requests(d)
      /\ Requests(c)' \subseteq Requests(c)
  BY <1>1, <1>2, <1>3, SendNet, Zenon DEF TypeInv
<1>5. UNCHANGED <<site, lease, now, cl, held>>
  BY Zenon DEF RecvOtherOffer
<1>6. Transaction(c)'
  BY <1>1, <1>4, <1>5, Zenon DEF Transaction
<1> QED
  BY <1>1, <1>4, <1>5, <1>6, Zenon DEF Own, TypeInv, Promises

\* After a timeout the client tries again in the same transaction, or gives up.
LEMMA TimeoutOwn == ASSUME BaseInv, NEW c \in Mac, Timeout(c) PROVE Own(c)
<1>1. cl[c] \in ClientState
  BY Zenon DEF BaseInv, TypeInv
<1>2. UNCHANGED <<site, lease, now, net, held>>
  BY Zenon DEF Timeout
<1>3. CASE Failed(c, cl[c])
  BY <1>1, <1>2, <1>3, FailedOwn, Zenon
<1>4. ASSUME NEW pc \in {"discover", "request"}
      PROVE  LET state == [cl[c] EXCEPT !.pc = pc]
             IN  state \in ClientState /\ state.pc = pc /\ state.offer = cl[c].offer
  BY <1>1, Zenon DEF ClientState, PC
<1>5. CASE cl[c].pc = "offer?" /\ Set(c, [cl[c] EXCEPT !.pc = "discover"])
  BY <1>2, <1>4, <1>5, SetOwn, Zenon
<1>6. CASE cl[c].pc = "ack?" /\ Set(c, [cl[c] EXCEPT !.pc = "request"])
  BY <1>2, <1>4, <1>6, SetOwn, Zenon
<1> QED
  BY <1>3, <1>5, <1>6, Zenon DEF Timeout

\* dhcpc_run sleeps, or begins again at once.
LEMMA RestOwn == ASSUME BaseInv, NEW c \in Mac, Rest(c) PROVE Own(c)
<1>1. cl[c] \in ClientState /\ cl[c].pc = "rest" /\ now \in Nat
  BY Zenon DEF BaseInv, TypeInv, Rest
<1>2. UNCHANGED <<site, lease, now, net, held>>
  BY Zenon DEF Rest
<1>3. CASE Set(c, Over(cl[c], "begin"))
  <2>1. Over(cl[c], "begin") \in ClientState /\ Over(cl[c], "begin").pc = "begin"
    BY <1>1, OverType, Zenon DEF PC
  <2> QED
    BY <1>2, <1>3, <2>1, SetOwn, Zenon
<1>4. CASE Set(c, [cl[c] EXCEPT !.pc = "sleep", !.wake = now + cl[c].lease_time])
  <2>1. now + cl[c].lease_time \in Nat
    BY <1>1 DEF ClientState
  <2>2. ASSUME NEW n \in Nat
        PROVE  LET state == [cl[c] EXCEPT !.pc = "sleep", !.wake = n]
               IN  state \in ClientState /\ state.pc = "sleep" /\ state.offer = cl[c].offer
    BY <1>1, Zenon DEF ClientState, PC
  <2> QED
    BY <1>1, <1>2, <1>4, <2>1, <2>2, SetOwn, Zenon
<1> QED
  BY <1>3, <1>4, Zenon DEF Rest

\* dhcpc_cancel does not touch the transaction.
LEMMA CancelOwn == ASSUME BaseInv, NEW c \in Mac, Cancel(c) PROVE Own(c)
<1> DEFINE stopping == [cl[c] EXCEPT !.cancel = TRUE]
<1>1. UNCHANGED <<site, lease, now, net, held>>
  BY Zenon DEF Cancel
<1>2. cl[c] \in ClientState
  BY Zenon DEF BaseInv, TypeInv
<1>3. stopping \in ClientState /\ stopping.pc = cl[c].pc /\ stopping.offer = cl[c].offer
  BY <1>2, Zenon DEF ClientState
<1>4. Set(c, stopping) \/ Set(c, Over(stopping, "none"))
  BY Zenon DEF Cancel
<1> HIDE DEF stopping
<1>5. cl[c].pc \in PC
  BY <1>2, Zenon DEF ClientState
<1>6. CASE Set(c, stopping)
  BY <1>1, <1>3, <1>5, <1>6, SetOwn, Zenon DEF PC
<1>7. CASE Set(c, Over(stopping, "none"))
  <2>1. Over(stopping, "none") \in ClientState /\ Over(stopping, "none").pc = "none"
    BY <1>3, OverType, Zenon DEF PC
  <2> QED
    BY <1>1, <1>7, <2>1, SetOwn, Zenon
<1> QED
  BY <1>4, <1>6, <1>7, Zenon

\* dhcpc_request_async is out of it.
LEMMA RequestAsyncOwn == ASSUME BaseInv, NEW c \in Mac, RequestAsync(c) PROVE Own(c)
<1> DEFINE state == [cl[c] EXCEPT !.pc = "begin", !.cancel = FALSE]
<1>1. cl[c] \in ClientState
  BY Zenon DEF BaseInv, TypeInv
<1>2. state \in ClientState /\ state.pc = "begin"
  BY <1>1, Zenon DEF ClientState, PC
<1> QED
  BY <1>2, SetOwn, Zenon DEF RequestAsync

\* Every step of a client.
LEMMA ClientOwn ==
  ASSUME BaseInv, NEW c \in Mac, ClientStep(c) \/ RequestAsync(c) \/ Cancel(c)
  PROVE  Own(c)
<1>1. CASE Wake(c)
  <2>1. cl[c] \in ClientState
    BY Zenon DEF BaseInv, TypeInv
  <2> QED
    BY <1>1, <2>1, FailedOwn, Zenon DEF Wake
<1> QED
  BY <1>1, BeginOwn, SendDiscoverOwn, SendRequestOwn, RecvOfferOwn, RecvAckOwn,
     RecvNakOwn, RecvErrorOwn, RecvOtherOfferOwn, TimeoutOwn, RestOwn, CancelOwn,
     RequestAsyncOwn, Zenon DEF ClientStep

\* A step of a client keeps the types and the transactions,
LEMMA ClientBase == ASSUME BaseInv, NEW c \in Mac, Own(c) PROVE BaseInv'
<1>1. \A d \in Mac \ {c} : Transaction(d)'
  BY Others, Zenon DEF BaseInv, Own
<1>2. \A d \in Mac : Transaction(d)'
  BY <1>1, Zenon DEF Own
<1>3. TypeInv'
  BY Zenon DEF BaseInv, TypeInv, Own
<1> QED
  BY <1>2, <1>3, Zenon DEF BaseInv

\* and promises nothing.
LEMMA ClientLease == ASSUME BaseInv, LeaseInv, NEW c \in Mac, Own(c) PROVE LeaseInv'
<1>1. ASSUME NEW d \in Mac PROVE Promises(d)' \subseteq Promises(d)
  <2>1. held'[d] \in Promises(d)
    BY Zenon DEF Own, Promises
  <2>2. Acks(d)' \subseteq Acks(d)
    BY Zenon DEF Own
  <2> QED
    BY <2>1, <2>2, Zenon DEF Promises
<1>2. lease' = lease /\ now' = now
  BY Zenon DEF Own
<1>3. RecordedInv'
  BY <1>1, <1>2 DEF LeaseInv, RecordedInv
<1>4. ApartInv'
  BY <1>1, <1>2, Zenon DEF LeaseInv, ApartInv
<1> QED
  BY <1>3, <1>4, Zenon DEF LeaseInv

-----------------------------------------------------------------------------
(* The clock and the servers. *)

\* What has not been delivered when the clock ticks is lost, and leases end.
LEMMA TickBase == BaseInv /\ Tick => BaseInv'
<1> SUFFICES ASSUME BaseInv, Tick PROVE BaseInv'
  BY Zenon
<1>1. TypeInv'
  BY DEF BaseInv, TypeInv, NetInv, Tick
<1>2. \A d \in Mac : Requests(d)' = {} /\ Acks(d)' = {}
  BY Zenon DEF Tick, Requests, Acks, Received
<1>3. \A d \in Mac : Transaction(d)'
  BY <1>2, Zenon DEF BaseInv, Transaction, Tick
<1> QED
  BY <1>1, <1>3, Zenon DEF BaseInv

\* The bounds on the leases that are not over move with the clock.
LEMMA TickLease == BaseInv /\ LeaseInv /\ Tick => LeaseInv'
<1> SUFFICES ASSUME BaseInv, LeaseInv, Tick PROVE LeaseInv'
  BY Zenon
<1>1. now \in Nat /\ now' = now + 1 /\ lease' = lease
  BY Zenon DEF BaseInv, TypeInv, Tick
<1>2. \A d \in Mac : Promises(d)' = {held[d]} /\ held[d] \in Promises(d)
  BY Zenon DEF Tick, Promises, Acks, Received
<1>3. \A d \in Mac : SafeUntil(held[d]) \in Int
  BY SafeType, Zenon DEF BaseInv, TypeInv
<1>4. RecordedInv'
  BY <1>1, <1>2, <1>3, ProtectedLeast DEF LeaseInv, RecordedInv
<1>5. ApartInv'
  BY <1>1, <1>2, <1>3 DEF LeaseInv, ApartInv
<1> QED
  BY <1>4, <1>5, Zenon DEF LeaseInv

\* A client asks for no lease time of its own.
LEMMA ClientAsks ==
  ASSUME NEW m \in ClientMessage
  PROVE  /\ Asks(m) /\ m.chaddr \in Mac /\ m.type # "RELEASE"
         /\ dhcpd_verifyreqleasetime(m, LeaseTime) = LeaseTime
<1>1. Asks(m) /\ m.chaddr \in Mac /\ m.type # "RELEASE" /\ m.leasetime = 0
  BY DEF ClientMessage, Asks
<1>2. ~(0 > MaxLeaseTime) /\ ~(0 \in 1..MaxLeaseTime)
  BY LeasesAssumption
<1> QED
  BY <1>1, <1>2, Zenon DEF dhcpd_verifyreqleasetime

\* The table of a server that handles a message stays a table.
LEMMA HandledTable ==
  ASSUME NEW L, Table(L), NEW m \in ClientMessage, now \in Nat, NEW me,
         NEW r \in Handle(L, m, now, me)
  PROVE  Table(r.lease)
<1>1. Asks(m) /\ m.chaddr \in Mac
  BY ClientAsks, Zenon
<1>2. Effect(L, m, now, r)
  BY <1>1, HandleEffect, Zenon
<1> QED
  BY <1>1, <1>2, GrantKeepsTable, DropKeepsTable, Zenon DEF Effect, Kept

\* An address that is offered or acknowledged is one of the table's.
LEMMA RepliedAddr ==
  ASSUME NEW L, Table(L), NEW m \in ClientMessage, now \in Nat, NEW me,
         NEW r \in Handle(L, m, now, me), r.reply.type \in {"OFFER", "ACK"}
  PROVE  r.reply.addr \in Addr
<1>1. Asks(m)
  BY ClientAsks, Zenon
<1>2. Effect(L, m, now, r)
  BY <1>1, HandleEffect, Zenon
<1> QED
  BY <1>2, Zenon DEF Effect, Kept, Grants, Drops

\* dhcpd_sendack records the lease that it acknowledges.
LEMMA AckRecorded ==
  ASSUME NEW L, Table(L), NEW m \in ClientMessage, now \in Nat, NEW me,
         NEW r \in Handle(L, m, now, me), r.reply.type = "ACK"
  PROVE  /\ r.lease[r.reply.addr].mac = m.chaddr
         /\ r.lease[r.reply.addr].expiry = now + LeaseTime
<1>1. Asks(m) /\ m.chaddr \in Mac
  BY ClientAsks, Zenon
<1>2. Effect(L, m, now, r)
  BY <1>1, HandleEffect, Zenon
<1>3. PICK a \in Addr, k \in Nat : Grants(L, m.chaddr, now, r, a, k)
  BY <1>2, Zenon DEF Effect, Kept, Drops
<1>4. r.reply.addr = a /\ k = r.reply.time
  BY <1>3, Zenon DEF Grants
<1>5. r.reply.time = LeaseTime
  BY <1>1, AckEffect, ClientAsks
<1>6. r.lease[a].mac = m.chaddr /\ r.lease[a].expiry = now + k
  BY <1>1, <1>3, GrantKeepsTable
<1> QED
  BY <1>4, <1>5, <1>6, Zenon

\* What a lease in its protected time looks like after its server has handled a message: the
\* entry is still the client's or nobody's and lasts as long, and the address is
\* acknowledged to nobody else.
LEMMA RunningKept ==
  ASSUME NEW L, Table(L), NEW m \in ClientMessage, now \in Nat, NEW me,
         NEW r \in Handle(L, m, now, me),
         NEW d \in Mac, NEW b \in Addr, NEW u \in Nat, now < u, u <= now + Protected,
         L[b].mac \in {d, NoMac}, L[b].expiry >= u
  PROVE  /\ r.lease[b].mac \in {d, NoMac} /\ r.lease[b].expiry >= u
         /\ r.reply.type = "ACK" /\ r.reply.addr = b => m.chaddr = d
<1>1. Asks(m) /\ m.chaddr \in Mac /\ m.type # "RELEASE"
  BY ClientAsks, Zenon
<1>2. Effect(L, m, now, r)
  BY <1>1, HandleEffect, Zenon
<1>3. L[b].expiry \in Nat
  BY Zenon DEF Table, Lease
<1>4. CASE Kept(L, r)
  BY <1>4, Zenon DEF Kept
<1>5. ASSUME NEW a \in Addr, NEW k \in Nat, Grants(L, m.chaddr, now, r, a, k)
      PROVE  /\ r.lease[b].mac \in {d, NoMac} /\ r.lease[b].expiry >= u
             /\ r.reply.addr = b => m.chaddr = d
  <2>1. /\ r.lease[a].mac = m.chaddr /\ r.lease[a].expiry = now + k
        /\ \A x \in Addr \ {a} : r.lease[x] = L[x]
    BY <1>1, <1>5, GrantKeepsTable
  <2>2. r.reply.addr = a
    BY <1>5, Zenon DEF Grants
  <2>3. CASE a # b
    BY <2>1, <2>2, <2>3, Zenon
  <2>4. CASE a = b
    <3>1. m.chaddr = d
      <4>1. L[b].mac = m.chaddr \/ L[b].expiry <= now
        BY <1>5, <2>4, Zenon DEF Grants, MayHave
      <4>2. L[b].mac = m.chaddr
        BY <1>3, <4>1
      <4> QED
        BY <1>1, <4>2, LeasesAssumption, Zenon
    <3>2. k >= Protected
      <4>1. CASE r.reply.type = "OFFER"
        BY <1>5, <4>1, ProtectedLeast, LeasesAssumption DEF Grants
      <4>2. CASE r.reply.type = "ACK"
        <5>1. k = LeaseTime
          BY <1>1, <1>5, <4>2, AckEffect, ClientAsks DEF Grants
        <5> QED
          BY <5>1, ProtectedLeast, LeasesAssumption
      <4> QED
        BY <1>5, <4>1, <4>2, Zenon DEF Grants
    <3>3. now + k >= u
      BY <3>2, ProtectedLeast
    <3> QED
      BY <2>1, <2>4, <3>1, <3>3, Zenon
  <2> QED
    BY <2>3, <2>4, Zenon
<1>6. ASSUME NEW a \in Addr, NEW e \in Lease, Drops(L, m, now, r, a, e)
      PROVE  /\ r.lease[b].mac \in {d, NoMac} /\ r.lease[b].expiry >= u
             /\ r.reply.type = "none"
  <2>1. r.lease[a] = e /\ e.mac = NoMac /\ \A x \in Addr \ {a} : r.lease[x] = L[x]
    BY <1>6, Zenon DEF Drops, Table
  <2>2. r.reply.type = "none"
    BY <1>6, Zenon DEF Drops
  <2>3. CASE a # b
    BY <2>1, <2>2, <2>3, Zenon
  <2>4. CASE a = b
    <3>1. ~(L[b].expiry <= now)
      BY <1>3
    <3>2. e.expiry = now + DeclineTime
      BY <1>1, <1>6, <2>4, <3>1, Zenon DEF Drops
    <3>3. e.expiry >= u
      BY <3>2, ProtectedLeast, LeasesAssumption
    <3> QED
      BY <2>1, <2>2, <2>4, <3>3, Zenon
  <2> QED
    BY <2>3, <2>4, Zenon
<1> QED
  BY <1>2, <1>4, <1>5, <1>6, Zenon DEF Effect

\* What the reply adds to the network: at most an ACK of the client's current
\* transaction, for a lease time from now.
LEMMA AnswerNet ==
  ASSUME TypeInv, NEW s \in Server, NEW p \in net, p \in Sent, p.m.chaddr = p.of,
         NEW r \in Handle(lease[s], p.m, now, s),
         net' = net \cup Answer(s, p, r.reply)
  PROVE  /\ NetInv'
         /\ \A d \in Mac : Requests(d)' = Requests(d)
         /\ \A d \in Mac : \A q \in Acks(d)' :
              \/ q \in Acks(d)
              \/ /\ d = p.of /\ p.xid = "current" /\ r.reply.type = "ACK"
                 /\ r.reply.addr \in Addr
                 /\ q.at = [server |-> s, addr |-> r.reply.addr]
                 /\ q.until = now + LeaseTime
<1> DEFINE time == IF r.reply.type = "ACK" THEN r.reply.time ELSE 0
           at == [server |-> s, addr |-> r.reply.addr]
           answer == [to |-> p.of, of |-> p.of, type |-> r.reply.type,
                      at |-> at, time |-> time, until |-> now + time]
<1>1. /\ p.m \in ClientMessage /\ p.of \in Mac /\ p.xid \in {"current", "earlier"}
      /\ now \in Nat /\ Table(lease[s]) /\ NetInv
  BY Zenon DEF TypeInv, Sent
<1>2. Asks(p.m)
  BY <1>1, ClientAsks, Zenon
<1>3. time \in Nat /\ (r.reply.type = "ACK" => time = LeaseTime)
  <2>1. r.reply.type = "ACK" => r.reply.time = LeaseTime
    BY <1>1, <1>2, AckEffect, ClientAsks
  <2> QED
    BY <2>1, LeasesAssumption, Zenon
<1>4. r.reply.type \in {"OFFER", "ACK"} => r.reply.addr \in Addr
  BY <1>1, RepliedAddr, Zenon
<1>5. /\ Answer(s, p, r.reply) \subseteq {answer}
      /\ p.xid # "current" => Answer(s, p, r.reply) = {}
  BY <1>1, Zenon DEF Answer
<1> HIDE DEF time
<1>6. /\ answer.to = p.of /\ answer.of = p.of /\ answer.type = r.reply.type
      /\ answer.at = at /\ answer.time = time /\ answer.until = now + time
  BY Zenon
<1>7. now + time \in Nat
  BY <1>1, <1>3
<1>8. r.reply.type \in {"OFFER", "ACK"} => at \in [server : Server, addr : Addr]
  BY <1>4, Zenon
<1> HIDE DEF answer
<1>9. IsReply(answer)
  BY <1>1, <1>3, <1>6, <1>7, <1>8, Zenon DEF IsReply
<1>10. NetInv'
  <2> SUFFICES ASSUME NEW q \in net'
               PROVE  (q \in Sent /\ q.m.chaddr = q.of) \/ IsReply(q)
    BY Zenon DEF NetInv, IsReply
  <2>1. q \in net \/ q = answer
    BY <1>5, Zenon
  <2> QED
    BY <1>1, <1>9, <2>1, Zenon DEF NetInv
<1>11. \A d \in Mac : Requests(d)' = Requests(d)
  BY <1>5, <1>6, Zenon DEF Requests
<1>12. ASSUME NEW d \in Mac, NEW q \in Acks(d)', q \notin Acks(d)
       PROVE  /\ d = p.of /\ p.xid = "current" /\ r.reply.type = "ACK"
              /\ r.reply.addr \in Addr /\ q.at = at /\ q.until = now + LeaseTime
  <2>1. q \in net' /\ q.to = d /\ q.type = "ACK"
    BY <1>12, Zenon DEF Acks, Received
  <2>2. q = answer /\ p.xid = "current"
    BY <1>5, <1>12, <2>1, Zenon DEF Acks, Received
  <2> QED
    BY <1>3, <1>4, <1>6, <2>1, <2>2, Zenon
<1> QED
  BY <1>10, <1>11, <1>12, Zenon

\* A server that handles a message, as its parts.
LEMMA ServeParts ==
  ASSUME TypeInv, NEW s \in Server, Serve(s)
  PROVE  \E p \in net : \E r \in Handle(lease[s], p.m, now, s) :
           /\ p \in Sent /\ p.m.chaddr = p.of /\ p.m \in ClientMessage
           /\ lease' = [lease EXCEPT ![s] = r.lease]
           /\ net' = net \cup Answer(s, p, r.reply)
           /\ UNCHANGED <<site, now, cl, held>>
<1>1. PICK p \in net :
        /\ p.to \in {"all", s}
        /\ \E r \in Handle(lease[s], p.m, now, s) :
             /\ lease' = [lease EXCEPT ![s] = r.lease]
             /\ net' = net \cup Answer(s, p, r.reply)
  BY Zenon DEF Serve
<1>2. p \in Sent /\ p.m.chaddr = p.of
  BY <1>1, Kinds, Zenon DEF TypeInv
<1>3. p.m \in ClientMessage
  BY <1>2, Zenon DEF Sent
<1> QED
  BY <1>1, <1>2, <1>3, Zenon DEF Serve

\* Only the server of the offer acknowledges a REQUEST.
LEMMA ServeBase == ASSUME BaseInv, NEW s \in Server, Serve(s) PROVE BaseInv'
<1>1. TypeInv /\ now \in Nat /\ Table(lease[s])
  BY Zenon DEF BaseInv, TypeInv
<1>p. PICK p \in net : \E r \in Handle(lease[s], p.m, now, s) :
        /\ p \in Sent /\ p.m.chaddr = p.of /\ p.m \in ClientMessage
        /\ lease' = [lease EXCEPT ![s] = r.lease]
        /\ net' = net \cup Answer(s, p, r.reply)
        /\ UNCHANGED <<site, now, cl, held>>
  BY <1>1, ServeParts, Zenon
<1>2. PICK r \in Handle(lease[s], p.m, now, s) :
        /\ p \in Sent /\ p.m.chaddr = p.of /\ p.m \in ClientMessage
        /\ lease' = [lease EXCEPT ![s] = r.lease]
        /\ net' = net \cup Answer(s, p, r.reply)
        /\ UNCHANGED <<site, now, cl, held>>
  BY <1>p, Zenon
<1>3. /\ NetInv'
      /\ \A d \in Mac : Requests(d)' = Requests(d)
      /\ \A d \in Mac : \A q \in Acks(d)' :
           \/ q \in Acks(d)
           \/ /\ d = p.of /\ p.xid = "current" /\ r.reply.type = "ACK"
              /\ q.at.server = s
  <2>1. [server |-> s, addr |-> r.reply.addr].server = s
    BY Zenon
  <2> QED
    BY <1>1, <1>2, <2>1, AnswerNet
<1>4. Table(r.lease)
  BY <1>1, <1>2, HandledTable, Zenon
<1>5. TypeInv'
  <2>1. lease' \in [Server -> [Addr -> Lease]] /\ \A x \in Server : Table(lease'[x])
    BY <1>1, <1>2, <1>4 DEF TypeInv, Table
  <2> QED
    BY <1>1, <1>2, <1>3, <2>1, Zenon DEF TypeInv
<1>6. ASSUME NEW d \in Mac PROVE Transaction(d)'
  <2>1. Transaction(d) /\ Requests(d)' = Requests(d) /\ cl'[d] = cl[d] /\ held'[d] = held[d]
    BY <1>2, <1>3, Zenon DEF BaseInv
  <2>2. CASE Acks(d)' \subseteq Acks(d)
    BY <2>1, <2>2, Zenon DEF Transaction
  <2>3. CASE ~(Acks(d)' \subseteq Acks(d))
    <3>1. /\ d = p.of /\ p.xid = "current" /\ r.reply.type = "ACK"
          /\ \A q \in Acks(d)' : q \in Acks(d) \/ q.at.server = s
      BY <1>3, <2>3, Zenon
    <3>2. Asks(p.m)
      BY <1>2, ClientAsks, Zenon
    <3>3. p.m.type = "REQUEST" /\ (p.m.serverid # NoServer => p.m.serverid = s)
      BY <1>2, <3>1, <3>2, AckEffect
    <3>4. p.to # d
      BY <1>2, DhcpAssumption, Zenon DEF Sent
    <3>5. p \in Requests(d)
      BY <3>1, <3>3, <3>4, Zenon DEF Requests
    <3>6. cl[d].pc \in {"request", "ack?"} => cl[d].offer.server = s
      BY <2>1, <3>3, <3>5, DhcpAssumption, Zenon DEF Transaction
    <3> QED
      BY <2>1, <3>1, <3>5, <3>6, Zenon DEF Transaction
  <2> QED
    BY <2>2, <2>3, Zenon
<1> QED
  BY <1>5, <1>6, Zenon DEF BaseInv

\* What a server is told does not disturb the leases in their protected time.
LEMMA ServeLease ==
  ASSUME BaseInv, LeaseInv, NEW s \in Server, Serve(s)
  PROVE  LeaseInv'
<1>1. TypeInv /\ now \in Nat /\ Table(lease[s])
  BY Zenon DEF BaseInv, TypeInv
<1>p. PICK p \in net : \E r \in Handle(lease[s], p.m, now, s) :
        /\ p \in Sent /\ p.m.chaddr = p.of /\ p.m \in ClientMessage
        /\ lease' = [lease EXCEPT ![s] = r.lease]
        /\ net' = net \cup Answer(s, p, r.reply)
        /\ UNCHANGED <<site, now, cl, held>>
  BY <1>1, ServeParts, Zenon
<1>2. PICK r \in Handle(lease[s], p.m, now, s) :
        /\ p \in Sent /\ p.m.chaddr = p.of /\ p.m \in ClientMessage
        /\ lease' = [lease EXCEPT ![s] = r.lease]
        /\ net' = net \cup Answer(s, p, r.reply)
        /\ UNCHANGED <<site, now, cl, held>>
  BY <1>p, Zenon
<1> DEFINE c == p.of
           New(x) == /\ r.reply.type = "ACK" /\ r.reply.addr \in Addr
                     /\ x.at = [server |-> s, addr |-> r.reply.addr]
                     /\ x.until = now + LeaseTime
<1>3. c \in Mac /\ lease'[s] = r.lease /\ \A x \in Server \ {s} : lease'[x] = lease[x]
  BY <1>1, <1>2, Zenon DEF Sent, TypeInv
<1>4. ASSUME NEW d \in Mac, NEW x \in Promises(d)'
      PROVE  x \in Promises(d) \/ (d = c /\ New(x))
  <2>1. CASE x = held'[d]
    BY <1>2, <2>1, Zenon DEF Promises
  <2>2. ASSUME NEW q \in Acks(d)', x = [at |-> q.at, until |-> q.until]
        PROVE  x \in Promises(d) \/ (d = c /\ New(x))
    <3>1. \/ q \in Acks(d)
          \/ /\ d = c /\ r.reply.type = "ACK" /\ r.reply.addr \in Addr
             /\ q.at = [server |-> s, addr |-> r.reply.addr]
             /\ q.until = now + LeaseTime
      BY <1>1, <1>2, AnswerNet, Zenon
    <3>2. x.at = q.at /\ x.until = q.until
      BY <2>2, Zenon
    <3>3. q \in Acks(d) => x \in Promises(d)
      BY <2>2, Zenon DEF Promises
    <3> QED
      BY <3>1, <3>2, <3>3, Zenon
  <2> QED
    BY <1>4, <2>1, <2>2, Zenon DEF Promises
<1>5. ASSUME NEW d \in Mac, NEW x \in Promises(d) PROVE SafeUntil(x) \in Int
  <2>1. held[d].until \in Nat
    BY <1>1, Zenon DEF TypeInv
  <2>2. \A q \in Acks(d) : q.until \in Nat
    BY <1>1, Kinds, Zenon DEF TypeInv, Acks, Received, IsReply
  <2>3. x.until \in Nat
    BY <2>1, <2>2 DEF Promises
  <2> QED
    BY <2>3, SafeType, Zenon
<1>6. ASSUME NEW d \in Mac, NEW a \in Addr, NEW x \in Promises(d),
             x.at = [server |-> s, addr |-> a], now < SafeUntil(x)
      PROVE  /\ r.lease[a].mac \in {d, NoMac} /\ r.lease[a].expiry >= SafeUntil(x)
             /\ SafeUntil(x) <= now + Protected
             /\ r.reply.type = "ACK" /\ r.reply.addr = a => c = d
  <2>1. /\ lease[s][a].mac \in {d, NoMac}
        /\ lease[s][a].expiry >= SafeUntil(x)
        /\ SafeUntil(x) <= now + Protected
    BY <1>6, Zenon DEF LeaseInv, RecordedInv
  <2>2. SafeUntil(x) \in Nat
    BY <1>1, <1>5, <1>6
  <2> QED
    BY <1>1, <1>2, <1>6, <2>1, <2>2, RunningKept
<1>7. ASSUME NEW x, New(x)
      PROVE  /\ r.lease[r.reply.addr].mac = c
             /\ r.lease[r.reply.addr].expiry = now + LeaseTime
  BY <1>1, <1>2, <1>7, AckRecorded
<1>8. ASSUME NEW d \in Mac, NEW z \in Server, NEW a \in Addr, NEW x \in Promises(d)',
             x.at = [server |-> z, addr |-> a], now' < SafeUntil(x)
      PROVE  /\ lease'[z][a].mac \in {d, NoMac}
             /\ lease'[z][a].expiry >= SafeUntil(x)
             /\ SafeUntil(x) <= now' + Protected
  <2>1. CASE d = c /\ New(x)
    <3>1. z = s /\ a = r.reply.addr /\ x.until = now + LeaseTime
      BY <1>8, <2>1
    <3>2. r.lease[a].mac = c /\ r.lease[a].expiry = now + LeaseTime
      BY <1>7, <2>1, <3>1, Zenon
    <3>3. SafeUntil(x) = now + Protected
      BY <1>1, <3>1, SafeFromGrant
    <3>4. now + LeaseTime >= now + Protected /\ now + Protected <= now + Protected
      BY <1>1, ProtectedLeast, LeasesAssumption
    <3> QED
      BY <1>2, <1>3, <2>1, <3>1, <3>2, <3>3, <3>4, Zenon
  <2>2. CASE x \in Promises(d) /\ z = s
    BY <1>2, <1>3, <1>6, <1>8, <2>2, Zenon
  <2>3. CASE x \in Promises(d) /\ z # s
    BY <1>2, <1>3, <1>8, <2>3, Zenon DEF LeaseInv, RecordedInv
  <2> QED
    BY <1>4, <1>8, <2>1, <2>2, <2>3, Zenon
<1>9. ASSUME NEW d \in Mac, NEW e \in Mac, NEW x \in Promises(d)', NEW y \in Promises(e)',
             x.at = y.at, now' < SafeUntil(x), now' < SafeUntil(y)
      PROVE  d = e
  <2>1. CASE x \in Promises(d) /\ y \in Promises(e)
    BY <1>2, <1>9, <2>1, Zenon DEF LeaseInv, ApartInv
  <2>2. CASE d = c /\ New(x) /\ y \in Promises(e)
    BY <1>2, <1>6, <1>9, <2>2, Zenon
  <2>3. CASE x \in Promises(d) /\ e = c /\ New(y)
    BY <1>2, <1>6, <1>9, <2>3, Zenon
  <2> QED
    BY <1>4, <1>9, <2>1, <2>2, <2>3, Zenon
<1> QED
  BY <1>8, <1>9, Zenon DEF LeaseInv, RecordedInv, ApartInv

-----------------------------------------------------------------------------
(* The theorems. *)

\* At first nothing is promised and nothing is sent.
LEMMA InitInv == Init => BaseInv /\ LeaseInv
<1> SUFFICES ASSUME Init PROVE BaseInv /\ LeaseInv
  BY Zenon
<1>1. Any \in Place /\ Cleared \in Lease /\ Cleared.mac = NoMac
  BY Zenon DEF Any, Place, Cleared, Lease
<1>2. Idle \in ClientState /\ Idle.pc = "none"
  BY <1>1, Zenon DEF Idle, ClientState, PC
<1>3. NoLease \in [at : Place, until : Nat] /\ NoLease.until = 0
  BY <1>1, Zenon DEF NoLease
<1>4. EmptyTable \in [Addr -> Lease] /\ Table(EmptyTable)
  BY <1>1, Zenon DEF EmptyTable, Table
<1>5. TypeInv
  BY <1>2, <1>3, <1>4, Zenon DEF Init, TypeInv, NetInv
<1>6. \A c \in Mac : Transaction(c)
  BY <1>2, Zenon DEF Init, Transaction
<1>7. \A c \in Mac : Promises(c) = {NoLease}
  BY Zenon DEF Init, Promises, Acks, Received
<1>8. ~(now < SafeUntil(NoLease))
  <2>1. now = 0
    BY Zenon DEF Init
  <2>2. SafeUntil(NoLease) \in Int /\ SafeUntil(NoLease) <= 0
    BY <1>3, SafeType
  <2> QED
    BY <2>1, <2>2
<1>9. LeaseInv
  BY <1>7, <1>8, Zenon DEF LeaseInv, RecordedInv, ApartInv
<1> QED
  BY <1>5, <1>6, <1>9, Zenon DEF BaseInv

\* The clients and the servers of a site are clients and servers.
LEMMA SiteType == BaseInv => site.clients \subseteq Mac /\ site.servers \subseteq Server
BY DhcpAssumption, Zenon DEF BaseInv, TypeInv

\* Every step keeps the types and the transactions,
LEMMA NextBase == BaseInv /\ [Next]_vars => BaseInv'
<1> SUFFICES ASSUME BaseInv, [Next]_vars PROVE BaseInv'
  BY Zenon
<1>1. CASE Tick
  BY <1>1, TickBase, Zenon
<1>2. CASE \E s \in site.servers : Serve(s)
  BY <1>2, SiteType, ServeBase, Zenon
<1>3. CASE \E c \in site.clients : ClientStep(c) \/ RequestAsync(c) \/ Cancel(c)
  <2>1. PICK c \in Mac : ClientStep(c) \/ RequestAsync(c) \/ Cancel(c)
    BY <1>3, SiteType, Zenon
  <2> QED
    BY <2>1, ClientOwn, ClientBase, Zenon
<1>4. CASE UNCHANGED vars
  <2>1. TypeInv /\ UNCHANGED <<site, lease, now, net, cl, held>>
    BY <1>4, Zenon DEF vars, BaseInv
  <2>2. \A d \in Mac : Requests(d)' = Requests(d) /\ Acks(d)' = Acks(d)
    BY <2>1, Zenon DEF Requests, Acks, Received
  <2>3. \A d \in Mac : Transaction(d)'
    BY <2>1, <2>2, Zenon DEF BaseInv, Transaction
  <2> QED
    BY <2>1, <2>3, Unsent, Zenon DEF BaseInv, TypeInv
<1> QED
  BY <1>1, <1>2, <1>3, <1>4, Zenon DEF Next

\* and what is known of the leases.
LEMMA NextLease == BaseInv /\ LeaseInv /\ [Next]_vars => LeaseInv'
<1> SUFFICES ASSUME BaseInv, LeaseInv, [Next]_vars PROVE LeaseInv'
  BY Zenon
<1>1. CASE Tick
  BY <1>1, TickLease, Zenon
<1>2. CASE \E s \in site.servers : Serve(s)
  BY <1>2, SiteType, ServeLease, Zenon
<1>3. CASE \E c \in site.clients : ClientStep(c) \/ RequestAsync(c) \/ Cancel(c)
  <2>1. PICK c \in Mac : ClientStep(c) \/ RequestAsync(c) \/ Cancel(c)
    BY <1>3, SiteType, Zenon
  <2> QED
    BY <2>1, ClientOwn, ClientLease, Zenon
<1>4. CASE UNCHANGED vars
  <2>1. lease' = lease /\ now' = now /\ \A d \in Mac : Promises(d)' = Promises(d)
    BY <1>4, Zenon DEF vars, Promises, Acks, Received
  <2> QED
    BY <2>1 DEF LeaseInv, RecordedInv, ApartInv
<1> QED
  BY <1>1, <1>2, <1>3, <1>4, Zenon DEF Next

\* The types and the transactions.
THEOREM Transactions == Spec => []BaseInv
BY InitInv, NextBase, PTL DEF Spec

\* dhcpc_request takes any ACK of its transaction, and still the lease that it
\* returns is of the server that it sent its REQUESTs to: dhcpd_request does not
\* answer a REQUEST that names another server.
THEOREM AcknowledgedByChosen == Spec => []AckOfOffer
<1>1. BaseInv => AckOfOffer
  BY Zenon DEF BaseInv, Transaction, AckOfOffer
<1> QED
  BY <1>1, Transactions, PTL

\* The leases in their protected time.
THEOREM Leases == Spec => []LeaseInv
<1>1. BaseInv /\ LeaseInv /\ [Next]_vars => (BaseInv /\ LeaseInv)'
  BY NextBase, NextLease, Zenon
<1> QED
  BY <1>1, InitInv, PTL DEF Spec

\* For the shortest of the lease, offer and decline times after the ACK, the
\* table of the server keeps a lease for its client, whatever DISCOVERs,
\* REQUESTs and DECLINEs of any client arrive, also late or twice: dhcpd_discover
\* and dhcpd_decline may shorten the lease, but not below that.
THEOREM LeaseKept == Spec => []HeldNotReassigned
<1>1. LeaseInv => HeldNotReassigned
  BY Zenon DEF LeaseInv, RecordedInv, HeldNotReassigned, Promises
<1> QED
  BY <1>1, Leases, PTL

\* No two clients that dhcpd has acknowledged an address within that time have
\* the same one.
THEOREM NeverSharedAtFirst == Spec => []ExclusiveAtFirst
<1>1. LeaseInv => ExclusiveAtFirst
  BY Zenon DEF LeaseInv, ApartInv, ExclusiveAtFirst, Holds, Promises
<1> QED
  BY <1>1, Leases, PTL
=============================================================================
