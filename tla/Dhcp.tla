-------------------------------- MODULE Dhcp --------------------------------
(* DHCP clients (netutils/dhcpc) and DHCP servers (netutils/dhcpd) on one    *)
(* network.  Each client runs dhcpc_run, the thread that dhcpc_request_async *)
(* creates, until the application calls dhcpc_cancel.                        *)
(*                                                                           *)
(* A datagram may be lost, repeated and overtaken by another one.  The clock *)
(* counts in units of lease times, hours, so what has not been delivered     *)
(* when it ticks is lost.  Transaction identifiers do not repeat while a     *)
(* datagram lives: it belongs to the current transaction of its client or to *)
(* an earlier one, and then no reply to it is accepted.                      *)
EXTENDS Integers, DhcpdLeases

CONSTANTS Server,   \* the servers, each with addresses of its own
          Sites,    \* the networks: which clients and which servers are there,
                    \* and MaxTime, a bound: the clock stops then
          Retries   \* CONFIG_NETUTILS_DHCPC_RETRIES

\* Hardware addresses, servers and the broadcast address differ.
ASSUME DhcpAssumption ==
  /\ NoServer \notin Server
  /\ Mac \cap (Server \cup {"all"}) = {}
  /\ Sites \subseteq [clients : SUBSET Mac, servers : SUBSET Server,
                      MaxTime : Nat]
  /\ Retries \in Nat \ {0}

VARIABLES site,   \* the network
          lease,  \* the table of each server
          now,    \* the time, for all of them
          net,    \* the datagrams that may be delivered
          cl,     \* struct dhcpc_state_s and the locals of each client
          held    \* the lease each client was granted last

vars == <<site, lease, now, net, cl, held>>

\* An address of one of the servers, and INADDR_ANY.
Any == [server |-> NoServer, addr |-> NoAddr]

NoLease == [at |-> Any, until |-> 0]

Idle == [pc |-> "none", retries |-> 0, offer |-> Any, ifaddr |-> Any,
         oldaddr |-> Any, lease_time |-> 0, wake |-> 0,
         cancel |-> FALSE]

Init ==
  /\ site \in Sites
  /\ lease = [s \in Server |-> EmptyTable]
  /\ now = 0
  /\ net = {}
  /\ cl = [c \in Mac |-> Idle]
  /\ held = [c \in Mac |-> NoLease]

Set(c, state) == cl' = [cl EXCEPT ![c] = state]

-----------------------------------------------------------------------------
(* The client. *)

\* A message of the current transaction; `to' is the broadcast address, or the
\* server a DECLINE is for.
Send(c, type, to, server, reqip) ==
  net' = net \cup {[to |-> to, of |-> c, xid |-> "current",
                    m |-> Message(type, c, server, reqip, NoAddr, 0)]}

\* Mutant: the transaction keeps its identifier.
Begin_same_xid(c) ==
  /\ cl[c].pc = "begin"
  /\ Set(c, [cl[c] EXCEPT !.pc = "discover", !.retries = 0,
                          !.oldaddr = cl[c].ifaddr])
  /\ UNCHANGED <<site, lease, now, net, held>>

\* dhcpc_request starts a new transaction; dhcpc_parsemsg will not accept the
\* replies of the earlier ones.
Begin(c) ==
  /\ cl[c].pc = "begin"
  /\ net' = {IF p.of = c THEN [p EXCEPT !.xid = "earlier"] ELSE p :
               p \in {q \in net : q.to # c}}
  /\ Set(c, [cl[c] EXCEPT !.pc = "discover", !.retries = 0,
                          !.oldaddr = cl[c].ifaddr])
  /\ UNCHANGED <<site, lease, now, held>>

\* A transaction is over: all that is used again is the interface's address.
Over(state, pc) ==
  [Idle EXCEPT !.pc = pc, !.ifaddr = state.ifaddr, !.cancel = state.cancel]

\* Mutant: `cancel' is not tested after a failure.
Failed_restarts(c, state) == Set(c, Over(state, "begin"))

\* dhcpc_request has failed: callback(NULL), then the test of `cancel', then
\* the next request at once, for the lease time is zero.
Failed(c, state) ==
  Set(c, Over(state, IF state.cancel THEN "none" ELSE "begin"))

\* The two loops begin with a test of `cancel', and sendto may fail.
SendDiscover(c) ==
  /\ cl[c].pc = "discover"
  /\ \/ /\ ~cl[c].cancel
        /\ Send(c, "DISCOVER", "all", NoServer, NoAddr)
        /\ Set(c, [cl[c] EXCEPT !.pc = "offer?", !.retries = @ + 1])
     \/ Failed(c, cl[c]) /\ UNCHANGED net
  /\ UNCHANGED <<site, lease, now, held>>

SendRequest(c) ==
  /\ cl[c].pc = "request"
  /\ \/ /\ ~cl[c].cancel
        /\ Send(c, "REQUEST", "all", cl[c].offer.server, cl[c].offer.addr)
        /\ Set(c, [cl[c] EXCEPT !.pc = "ack?", !.retries = @ + 1])
     \/ Failed(c, cl[c]) /\ UNCHANGED net
  /\ UNCHANGED <<site, lease, now, held>>

\* What dhcpc_parsemsg accepts.
Received(c) == {p \in net : p.to = c}

\* The first OFFER is taken, and its address used at once.
RecvOffer(c) ==
  /\ cl[c].pc = "offer?"
  /\ \E p \in Received(c) :
       /\ p.type = "OFFER"
       /\ Set(c, [cl[c] EXCEPT !.pc = "request", !.retries = 0,
                               !.offer = p.at, !.ifaddr = p.at])
  /\ UNCHANGED <<site, lease, now, net, held>>

\* Any ACK of the transaction is taken: callback(&result), then the test of
\* `cancel'.
RecvAck(c) ==
  /\ cl[c].pc = "ack?"
  /\ \E p \in Received(c) :
       /\ p.type = "ACK"
       /\ held' = [held EXCEPT ![c] = [at |-> p.at, until |-> p.until]]
       /\ Set(c, IF cl[c].cancel THEN Over(cl[c], "none")
                 ELSE [Over(cl[c], "rest") EXCEPT !.offer = cl[c].offer,
                                                  !.lease_time = p.time \div 2])
  /\ UNCHANGED <<site, lease, now, net>>

\* Any NAK of the transaction, too.
RecvNak(c) ==
  /\ cl[c].pc = "ack?"
  /\ \E p \in Received(c) : p.type = "NAK"
  /\ Failed(c, [cl[c] EXCEPT !.ifaddr = Any])
  /\ UNCHANGED <<site, lease, now, net, held>>

\* An OFFER of another server is declined.
RecvOtherOffer(c) ==
  /\ cl[c].pc = "ack?"
  /\ \E p \in Received(c) :
       /\ p.type = "OFFER" /\ p.at.server # cl[c].offer.server
       /\ Send(c, "DECLINE", p.at.server, p.at.server, NoAddr)
  /\ UNCHANGED <<site, lease, now, cl, held>>

\* Nothing that is waited for arrives in time: the next try, or failure.
Timeout(c) ==
  /\ \/ cl[c].pc = "offer?" /\ IF cl[c].retries < Retries
                                THEN Set(c, [cl[c] EXCEPT !.pc = "discover"])
                                ELSE Failed(c, cl[c])
     \/ cl[c].pc = "ack?" /\ IF cl[c].retries < Retries
                               THEN Set(c, [cl[c] EXCEPT !.pc = "request"])
                               ELSE Failed(c, cl[c])
  /\ UNCHANGED <<site, lease, now, net, held>>

\* recv fails otherwise.
RecvError(c) ==
  /\ \/ cl[c].pc = "offer?" /\ Failed(c, cl[c])
     \/ cl[c].pc = "ack?" /\ Failed(c, [cl[c] EXCEPT !.ifaddr = cl[c].oldaddr])
  /\ UNCHANGED <<site, lease, now, net, held>>

\* `cancel' has been tested; sleep for half of the lease time, if there is any.
Rest(c) ==
  /\ cl[c].pc = "rest"
  /\ Set(c, IF cl[c].lease_time = 0 THEN Over(cl[c], "begin")
            ELSE [cl[c] EXCEPT !.pc = "sleep", !.wake = now + cl[c].lease_time])
  /\ UNCHANGED <<site, lease, now, net, held>>

\* Half of the lease time is over; beyond its bound the clock does not matter.
Wake(c) ==
  /\ cl[c].pc = "sleep"
  /\ cl[c].wake <= now \/ now = site.MaxTime
  /\ Failed(c, cl[c])
  /\ UNCHANGED <<site, lease, now, net, held>>

\* dhcpc_request_async; dhcpc_cancel has joined the previous thread.
RequestAsync(c) ==
  /\ cl[c].pc = "none"
  /\ Set(c, [cl[c] EXCEPT !.pc = "begin", !.cancel = FALSE])
  /\ UNCHANGED <<site, lease, now, net, held>>

\* dhcpc_cancel: the signal may end the sleep, if the thread has reached it.
Cancel(c) ==
  /\ cl[c].pc # "none" /\ ~cl[c].cancel
  /\ LET stopping == [cl[c] EXCEPT !.cancel = TRUE]
     IN  \/ Set(c, stopping)
         \/ cl[c].pc = "sleep" /\ Set(c, Over(stopping, "none"))
  /\ UNCHANGED <<site, lease, now, net, held>>

ClientStep(c) ==
  \/ Begin(c) \/ SendDiscover(c) \/ SendRequest(c)
  \/ RecvOffer(c) \/ RecvAck(c) \/ RecvNak(c) \/ RecvOtherOffer(c)
  \/ Timeout(c) \/ RecvError(c) \/ Rest(c) \/ Wake(c)

-----------------------------------------------------------------------------
(* The servers and the clock. *)

\* The reply.  The client looks at the lease time of an ACK only.
Answer(s, p, reply) ==
  LET time == IF reply.type = "ACK" THEN reply.time ELSE 0
  IN  IF reply.type = "none" \/ p.xid = "earlier" THEN {}
      ELSE {[to |-> p.of, of |-> p.of, type |-> reply.type,
             at |-> [server |-> s, addr |-> reply.addr],
             time |-> time, until |-> now + time]}

Serve(s) ==
  /\ \E p \in net :
       /\ p.to \in {"all", s}
       /\ \E r \in Handle(lease[s], p.m, now, s) :
            /\ lease' = [lease EXCEPT ![s] = r.lease]
            /\ net' = net \cup Answer(s, p, r.reply)
  /\ UNCHANGED <<site, now, cl, held>>

Tick ==
  /\ now < site.MaxTime
  /\ now' = now + 1
  /\ net' = {}
  /\ UNCHANGED <<site, lease, cl, held>>

Next ==
  \/ Tick
  \/ \E s \in site.servers : Serve(s)
  \/ \E c \in site.clients : ClientStep(c) \/ RequestAsync(c) \/ Cancel(c)

Spec == Init /\ [][Next]_vars

\* Time passes, and the thread of a client runs: its waits end by timeouts.
LiveSpec == Spec /\ WF_vars(Tick) /\ \A c \in Mac : WF_vars(ClientStep(c))

-----------------------------------------------------------------------------
(* The properties. *)

\* What client c uses as its own: the interface has the address of the lease it
\* was granted last, and that lease is not over.
Holds(c, at) == held[c].at = at /\ cl[c].ifaddr = at /\ now < held[c].until

\* The shortest time for which a server reserves an address, and the time until
\* which it is sure to keep the lease x for its client: the DISCOVER with which
\* the client renews, or one of its messages that comes late, sets the expiry to
\* the offer time or the decline time from then on.
Protected ==
  IF LeaseTime <= OfferTime /\ LeaseTime <= DeclineTime THEN LeaseTime
  ELSE IF OfferTime <= DeclineTime THEN OfferTime ELSE DeclineTime

SafeUntil(x) == (x.until - LeaseTime) + Protected

\* Within the protected time after the ACK of the lease that a client was
\* granted last, no other client can be given the address: the server's entry
\* is the client's, or nobody's, and stays so for that time, whatever the
\* client and the others send meanwhile, and whether or not the client has lost
\* the address by a later request.
HeldNotReassigned ==
  \A c \in Mac, s \in Server, a \in Addr :
    held[c].at = [server |-> s, addr |-> a] /\ now < SafeUntil(held[c]) =>
      /\ lease[s][a].mac \in {c, NoMac}
      /\ lease[s][a].expiry >= SafeUntil(held[c])

\* Two clients that were both given an address within the protected time have
\* different ones, although an address that is only offered, or whose lease is
\* over, may be asked for and acknowledged again.
ExclusiveAtFirst ==
  \A c, d \in Mac, s \in Server, a \in Addr :
    /\ Holds(c, [server |-> s, addr |-> a]) /\ now < SafeUntil(held[c])
    /\ Holds(d, [server |-> s, addr |-> a]) /\ now < SafeUntil(held[d])
    => c = d

\* "verify that the lease has not already been taken or offered (unless the
\* lease/offer is expired, then the address is free game)": no two clients have
\* a lease of the same address at the same time.
NoSharedAddress ==
  \A c, d \in Mac, s \in Server, a \in Addr :
    Holds(c, [server |-> s, addr |-> a]) /\ Holds(d, [server |-> s, addr |-> a])
      => c = d

\* "continue waiting for the ACK from the server that we requested from": the
\* lease that dhcpc_request returns is from the server it locked on to, although
\* it takes any ACK.
AckOfOffer ==
  \A c \in Mac : cl[c].pc \in {"rest", "sleep"} =>
    held[c].at.server = cl[c].offer.server

\* dhcpc_cancel returns: the thread that it joins ends.
CancelReturns == \A c \in Mac : cl[c].cancel ~> cl[c].pc = "none"
=============================================================================
