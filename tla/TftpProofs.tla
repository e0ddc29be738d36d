----------------------------- MODULE TftpProofs ------------------------------
(* Proofs about TFTP transfers: whatever the network does, tftpget_cb writes  *)
(* the blocks of the file once and in order, and tftpput_cb returns success   *)
(* only when the server has them all, and gives up only when more packets are *)
(* lost than it has retries.                                                  *)
EXTENDS Tftp, TLAPS

\* Block numbers below 2^16 are their own remainders.
LEMMA Unwrapped ==
  ASSUME NEW n \in Nat, n < Wrap
  PROVE  n % Wrap = n
BY TftpAssumption

\* A file that is written block by block (Blocks).
LEMMA BlocksGrow ==
  ASSUME NEW k \in Nat
  PROVE  /\ Len(Blocks(k)) = k
         /\ Blocks(k) \in Seq(Nat)
         /\ Append(Blocks(k), k + 1) = Blocks(k + 1)
         /\ Blocks(0) = <<>>
BY DEF Blocks

\* The packets that are left when one is received were in transit before.
LEMMA TakenKept ==
  ASSUME NEW p \in net, NEW rest \in Taken(p)
  PROVE  rest \subseteq net
BY Zenon DEF Taken

\* A packet carries its block number modulo the size of the field.
LEMMA PacketFields ==
  ASSUME NEW from, NEW to, NEW op, NEW block, NEW data
  PROVE  LET p == Packet(from, to, op, block, data)
         IN  /\ p.from = from /\ p.to = to /\ p.op = op
             /\ p.block = block % Wrap /\ p.data = data
BY Zenon DEF Packet

\* What tftp_sendto sends: the packet, or nothing if sendto may fail.
LEMMA SendtoParts ==
  ASSUME NEW p, NEW sent \in tftp_sendto(p)
  PROVE  /\ sent = {p} \/ sent = {}
         /\ sent = {} => conf.fails
BY Zenon DEF tftp_sendto

\* The write request sent again: tftpput_cb goes on, or ends if sendto fails.
LEMMA ResendParts ==
  ASSUME NEW q, NEW rest, ResendRequest(q, rest)
  PROVE  \/ conf.fails /\ pc' = "error" /\ net' = rest
         \/ pc' = pc /\ net' = rest \cup {[Request EXCEPT !.to = q]}
<1>1. PICK sent \in tftp_sendto([Request EXCEPT !.to = q]) :
        /\ net' = rest \cup sent
        /\ pc' = IF sent = {} THEN "error" ELSE pc
  BY Zenon DEF ResendRequest
<1>2. /\ sent = {[Request EXCEPT !.to = q]} \/ sent = {}
      /\ sent = {} => conf.fails
  BY SendtoParts
<1>3. CASE sent = {}
  <2>1. rest \cup sent = rest
    BY <1>3
  <2> QED
    BY <1>1, <1>2, <1>3, <2>1, Zenon
<1> QED
  BY <1>1, <1>2, <1>3, Zenon

\* The next turn of tftpget_cb's loop: it waits for the block, with a request
\* sent before the first one, or gives up.
LEMMA TurnParts ==
  ASSUME NEW b, NEW n, NEW q, NEW rest, GetTurn(b, n, q, rest)
  PROVE  /\ net' = rest \/ net' = rest \cup {Request}
         /\ \/ pc' = "error"
            \/ pc' = pc /\ blockno' = b
<1>1. CASE GetEnds("error", rest)
  BY <1>1, Zenon DEF GetEnds
<1>2. CASE GetWaits(b, n, q, rest)
  BY <1>2, Zenon DEF GetWaits
<1>3. ASSUME NEW sent \in tftp_sendto(Request), sent # {},
             GetWaits(b, n, 0, rest \cup sent)
      PROVE  net' = rest \cup {Request} /\ pc' = pc /\ blockno' = b
  BY <1>3, SendtoParts, Zenon DEF GetWaits
<1> QED
  BY <1>1, <1>2, <1>3, Zenon DEF GetTurn

-----------------------------------------------------------------------------
(* The server's sessions. *)

Session == [open : BOOLEAN, blocks : Seq(Nat)]

\* The server's sessions are within their bound, the client has a sequence of
\* blocks, and every packet carries a number as its data.
Shape ==
  /\ conf \in Setup
  /\ session \in Seq(Session) /\ Len(session) <= conf.sessions
  /\ file \in Seq(Nat)
  /\ \A p \in net : p.data \in Nat

\* A session is closed (an acknowledgement of the last block, an error).
LEMMA SessionClosed ==
  ASSUME session \in Seq(Session), NEW s \in Sessions,
         session' = [session EXCEPT ![s].open = FALSE]
  PROVE  /\ session' \in Seq(Session) /\ Len(session') = Len(session)
         /\ \A t \in Sessions : session'[t].blocks = session[t].blocks
<1>1. session[s] \in Session
  BY DEF Sessions
<1>2. /\ [session[s] EXCEPT !.open = FALSE] \in Session
      /\ [session[s] EXCEPT !.open = FALSE].blocks = session[s].blocks
  BY <1>1, Zenon DEF Session
<1> HIDE DEF Session
<1> QED
  BY <1>2 DEF Sessions

\* A session has other blocks (a block, or an acknowledgement, is served).
LEMMA SessionServed ==
  ASSUME session \in Seq(Session), NEW s \in Sessions, NEW b \in Seq(Nat),
         session' = [session EXCEPT ![s].blocks = b]
  PROVE  /\ session' \in Seq(Session) /\ Len(session') = Len(session)
         /\ \A t \in Sessions :
              session'[t].blocks = IF t = s THEN b ELSE session[t].blocks
<1>1. session[s] \in Session
  BY DEF Sessions
<1>2. /\ [session[s] EXCEPT !.blocks = b] \in Session
      /\ [session[s] EXCEPT !.blocks = b].blocks = b
  BY <1>1, Zenon DEF Session
<1> HIDE DEF Session
<1> QED
  BY <1>2 DEF Sessions

\* A session is opened, by a request.
LEMMA SessionOpened ==
  ASSUME session \in Seq(Session), NEW b \in Seq(Nat),
         session' = Append(session, [open |-> TRUE, blocks |-> b])
  PROVE  /\ session' \in Seq(Session) /\ Len(session') = Len(session) + 1
         /\ session'[Len(session) + 1].blocks = b
         /\ \A t \in Sessions : session'[t].blocks = session[t].blocks
<1>1. [open |-> TRUE, blocks |-> b] \in Session
  BY Zenon DEF Session
<1>2. [open |-> TRUE, blocks |-> b].blocks = b
  BY Zenon
<1> HIDE DEF Session
<1> QED
  BY <1>1, <1>2 DEF Sessions

\* The configuration is one of SetupType.
LEMMA SetupTyped ==
  ASSUME conf \in Setup
  PROVE  /\ conf.op \in {"get", "put"} /\ conf.size \in Nat \ {0}
         /\ conf.sessions \in 0..MaxSessions
         /\ MaxSessions \in Nat
BY TftpAssumption, Zenon DEF SetupType

-----------------------------------------------------------------------------
(* Shape is kept. *)

\* The client's request carries no data.
LEMMA RequestData ==
  /\ Request.data = 0 /\ Request.to = WellKnown
  /\ Request.op \in {"RRQ", "WRQ"} /\ (Request.op = "WRQ" <=> conf.op # "get")
  /\ \A p : [Request EXCEPT !.to = p] = Packet(Client, p, Request.op, 0, 0)
BY DEF Request, FromClient, Packet

\* A packet to the client or to a session carries what it was made with.
LEMMA PacketData ==
  ASSUME NEW from, NEW to, NEW op, NEW block, NEW data \in Nat
  PROVE  Packet(from, to, op, block, data).data \in Nat
BY PacketFields

\* A packet received by the client keeps Shape (tftpget_cb).
LEMMA GetShape ==
  ASSUME Shape, (\E p \in net : GetRecv(p)) \/ GetTimeout
  PROVE  Shape'
<1>1. conf' = conf /\ session' = session
  BY Zenon DEF GetRecv, GetTimeout
<1>2. ASSUME NEW b, NEW n, NEW q, NEW rest,
             \A p \in rest : p.data \in Nat, GetTurn(b, n, q, rest)
      PROVE  \A p \in net' : p.data \in Nat
  BY <1>2, TurnParts, RequestData
<1>3. CASE GetTimeout
  <2>1. \A p \in net' : p.data \in Nat
    BY <1>2, <1>3, Zenon DEF GetTimeout, Shape
  <2> QED
    BY <1>1, <1>3, <2>1, Zenon DEF GetTimeout, Shape
<1>4. ASSUME NEW p \in net, GetRecv(p)
      PROVE  Shape'
  <2>1. PICK rest \in SUBSET net :
               \/ GetData(p, rest) \/ GetWriteFails(p, rest)
               \/ GetOtherPort(p, rest) \/ GetUnexpected(p, rest)
    BY <1>4, TakenKept, Zenon DEF GetRecv
  <2>2. ASSUME NEW op, NEW b,
               NEW sent \in tftp_sendto(FromClient(p.from, op, b, 0))
        PROVE  \A q \in rest \cup sent : q.data \in Nat
    <3>1. FromClient(p.from, op, b, 0).data \in Nat
      BY PacketData, Zenon DEF FromClient
    <3>2. sent = {FromClient(p.from, op, b, 0)} \/ sent = {}
      BY SendtoParts
    <3> QED
      BY <3>1, <3>2, Zenon DEF Shape
  <2>3. p.data \in Nat /\ file \in Seq(Nat) /\ \A q \in rest : q.data \in Nat
    BY Zenon DEF Shape
  <2>4. CASE GetData(p, rest)
    <3>1. \A q \in net' : q.data \in Nat
      BY <1>2, <2>2, <2>3, <2>4, Zenon DEF GetData, Written, GetEnds
    <3>2. file' \in Seq(Nat)
      BY <2>3, <2>4 DEF GetData
    <3> QED
      BY <1>1, <3>1, <3>2, Zenon DEF Shape
  <2>5. CASE GetWriteFails(p, rest)
    BY <1>1, <2>5, Zenon DEF GetWriteFails, End, Shape
  <2>6. CASE GetOtherPort(p, rest)
    <3>1. \A q \in net' : q.data \in Nat
      BY <1>2, <2>2, <2>6, Zenon DEF GetOtherPort
    <3> QED
      BY <1>1, <2>6, <3>1, Zenon DEF GetOtherPort, Shape
  <2>7. CASE GetUnexpected(p, rest)
    <3>1. \A q \in net' : q.data \in Nat
      BY <1>2, <2>3, <2>7, Zenon DEF GetUnexpected
    <3> QED
      BY <1>1, <2>7, <3>1, Zenon DEF GetUnexpected, Shape
  <2> QED
    BY <2>1, <2>4, <2>5, <2>6, <2>7, Zenon
<1> QED
  BY <1>3, <1>4, Zenon

\* The client's sends keep Shape (tftpput_cb).
LEMMA PutShape ==
  ASSUME Shape, (\E p \in net : PutRecv(p)) \/ PutTimeout
  PROVE  Shape'
<1>1. conf' = conf /\ session' = session
  BY Zenon DEF PutRecv, PutTimeout
<1>2. file \in Seq(Nat) /\ \A p \in net : p.data \in Nat
  BY Zenon DEF Shape
<1>3. Len(file) + 1 \in Nat /\ Len(file) + 2 \in Nat /\ Len(file) + 1 + 1 \in Nat
  BY <1>2
<1>4. ASSUME NEW q, NEW b, NEW data \in Nat, NEW rest \in SUBSET net,
             SendData(q, b, data, rest)
      PROVE  \A p \in net' : p.data \in Nat
  BY <1>2, <1>4, PacketData, Zenon DEF SendData, FromClient
<1>5. ASSUME NEW q, NEW rest \in SUBSET net, Resend(q, rest)
      PROVE  (\A p \in net' : p.data \in Nat) /\ file' \in Seq(Nat)
  <2>1. \A to : [Request EXCEPT !.to = to].data \in Nat
    BY RequestData, PacketData
  <2>2. /\ file' = file
        /\ \/ net' = rest
           \/ net' = rest \cup {[Request EXCEPT !.to = q]}
           \/ SendData(q, blockno, Len(file) + 1, rest)
    BY <1>5, ResendParts, Zenon DEF Resend
  <2> QED
    BY <1>2, <1>3, <1>4, <2>1, <2>2, Zenon
<1>6. ASSUME NEW q, NEW rest \in SUBSET net, NoAck(q, rest)
      PROVE  (\A p \in net' : p.data \in Nat) /\ file' \in Seq(Nat)
  BY <1>2, <1>5, <1>6, Zenon DEF NoAck
<1>7. ASSUME NEW q, NEW rest \in SUBSET net, RequestAcked(q, rest)
      PROVE  (\A p \in net' : p.data \in Nat) /\ file' \in Seq(Nat)
  BY <1>2, <1>4, <1>7, Zenon DEF RequestAcked, End
<1>8. ASSUME NEW q, NEW rest \in SUBSET net, DataAcked(q, rest)
      PROVE  (\A p \in net' : p.data \in Nat) /\ file' \in Seq(Nat)
  BY <1>2, <1>3, <1>4, <1>8 DEF DataAcked
<1>9. (\A p \in net' : p.data \in Nat) /\ file' \in Seq(Nat)
  <2>1. CASE PutTimeout
    <3>1. NoAck(port, net) /\ net \in SUBSET net
      BY <2>1, Zenon DEF PutTimeout
    <3> QED
      BY <1>6, <3>1, Zenon
  <2>2. ASSUME NEW p \in net, PutRecv(p)
        PROVE  (\A r \in net' : r.data \in Nat) /\ file' \in Seq(Nat)
    <3>1. \E q : \E rest \in SUBSET net :
            \/ NoAck(q, rest) \/ RequestAcked(q, rest)
            \/ DataAcked(q, rest) \/ Resend(q, rest)
      BY <2>2, TakenKept, Zenon DEF PutRecv
    <3> QED
      BY <1>5, <1>6, <1>7, <1>8, <3>1, Zenon
  <2> QED
    BY <2>1, <2>2, Zenon
<1> QED
  BY <1>1, <1>9, Zenon DEF Shape

\* The server, and the network that loses a packet, keep Shape.
LEMMA ServerShape ==
  ASSUME Shape, Server \/ \E p \in net : Lose(p)
  PROVE  Shape'
<1>1. conf' = conf /\ file' = file
  BY Zenon DEF Server, ServerRecv, ServerTimeout, ServerFails, Lose, client
<1>2. \A p \in net : p.data \in Nat
  BY Zenon DEF Shape
<1>3. session \in Seq(Session) /\ Len(session) \in Nat
  BY DEF Shape
<1>4. \A s \in Sessions : session[s].blocks \in Seq(Nat)
  <2>1. \A s \in Sessions : session[s] \in Session
    BY <1>3 DEF Sessions
  <2> QED
    BY <2>1, Zenon DEF Session
<1>5. ASSUME NEW s, NEW b \in Seq(Nat)
      PROVE  LastSent(s, b).data \in Nat
  BY PacketData DEF LastSent, Reply
<1>6. Blocks(1) \in Seq(Nat)
  BY BlocksGrow, Zenon
<1>7. ASSUME NEW p \in net, Open(p)
      PROVE  Shape'
  <2> DEFINE first == IF conf.op = "get" THEN Blocks(1) ELSE <<>>
  <2>1. first \in Seq(Nat)
    BY <1>6
  <2>2. /\ session' = Append(session, [open |-> TRUE, blocks |-> first])
        /\ \E rest \in SUBSET net :
              net' = rest \cup {LastSent(Len(session) + 1, first)}
    BY <1>7, TakenKept, Zenon DEF Open
  <2> HIDE DEF first
  <2>3. session' \in Seq(Session) /\ Len(session') = Len(session) + 1
    BY <1>3, <2>1, <2>2, SessionOpened, Zenon
  <2>4. \A q \in net' : q.data \in Nat
    BY <1>2, <1>5, <2>1, <2>2, Zenon
  <2>5. Len(session') <= conf.sessions
    BY <1>7, <1>3, <2>3, SetupTyped DEF Open, Shape
  <2> QED
    BY <1>1, <2>3, <2>4, <2>5, Zenon DEF Shape
<1>8. ASSUME NEW p \in net, Served(p)
      PROVE  Shape'
  <2> DEFINE had  == session[p.to].blocks
             next == Append(had, IF conf.op = "get" THEN Len(had) + 1
                                                    ELSE p.data)
  <2>1. p.to \in Sessions /\ had \in Seq(Nat)
    BY <1>4, <1>8, Zenon DEF Served
  <2>2. next \in Seq(Nat)
    BY <1>2, <2>1
  <2>3. \E rest \in SUBSET net :
          /\ \/ session' = session
             \/ session' = [session EXCEPT ![p.to].open = FALSE]
             \/ session' = [session EXCEPT ![p.to].blocks = next]
          /\ net' \subseteq rest \cup {LastSent(p.to, next), LastSent(p.to, had)}
    BY <1>8, TakenKept, Zenon DEF Served
  <2> HIDE DEF had, next
  <2>4. session' \in Seq(Session) /\ Len(session') = Len(session)
    BY <1>3, <2>1, <2>2, <2>3, SessionClosed, SessionServed, Zenon
  <2>5. \A q \in net' : q.data \in Nat
    BY <1>2, <1>5, <2>1, <2>2, <2>3, Zenon
  <2> QED
    BY <1>1, <2>4, <2>5, Zenon DEF Shape
<1>9. ASSUME NEW s \in Sessions, ServerTimeout(s)
      PROVE  Shape'
  BY <1>1, <1>2, <1>4, <1>5, <1>9, Zenon DEF ServerTimeout, Shape
<1>10. ASSUME NEW s \in Sessions, ServerFails(s)
       PROVE  Shape'
  <2>1. session' \in Seq(Session) /\ Len(session') = Len(session)
    BY <1>3, <1>10, SessionClosed, Zenon DEF ServerFails
  <2>2. \A q \in net' : q.data \in Nat
    BY <1>2, <1>10, PacketData, Zenon DEF ServerFails, Reply
  <2> QED
    BY <1>1, <2>1, <2>2, Zenon DEF Shape
<1>11. ASSUME NEW p \in net, Ignored(p) \/ Lose(p)
       PROVE  Shape'
  BY <1>1, <1>11, Zenon DEF Ignored, Lose, Shape
<1> QED
  BY <1>7, <1>8, <1>9, <1>10, <1>11, Zenon DEF Server, ServerRecv

-----------------------------------------------------------------------------
(* tftpget_cb *)

\* A packet of a read transfer: data from a session to the client, under its
\* own number; anything but data from the client.
GetPacket(p) ==
  \/ /\ p.to = Client /\ p.from \in Sessions
     /\ p.op = "DATA" => p.data \in 1..conf.size /\ p.block = p.data
  \/ p.to # Client /\ p.op # "DATA"

\* The client has the blocks before the one it waits for.
GetClient ==
  /\ file = Blocks(Len(file))
  /\ pc \in {"get", "ok", "error"}
  /\ pc = "get" => blockno = Len(file) + 1 /\ blockno <= conf.size
  /\ pc = "ok" => Len(file) = conf.size

GetServer ==
  \A s \in Sessions : \E k \in 1..conf.size : session[s].blocks = Blocks(k)

GetInv ==
  conf.op = "get" /\ Numbered =>
    (\A p \in net : GetPacket(p)) /\ GetClient /\ GetServer

\* The client's turn of the loop sends an acknowledgement, an error or a
\* request, and goes on with the block, or gives up.
LEMMA GetTurnEffect ==
  ASSUME Shape, conf.op = "get", Numbered, conf' = conf, session' = session,
         NEW b \in Nat, NEW n, NEW q, NEW rest, \A p \in rest : GetPacket(p),
         pc = "get", GetTurn(b, n, q, rest)
  PROVE  /\ \A p \in net' : GetPacket(p)'
         /\ pc' \in {"get", "error"}
         /\ pc' = "get" => blockno' = b
<1>1. Request.to # Client /\ Request.op # "DATA"
  BY PacketFields, SetupTyped
     DEF Request, FromClient, Client, WellKnown, Shape
<1>2. net' \subseteq rest \cup {Request}
  BY TurnParts, Zenon
<1>3. \A p \in rest \cup {Request} : GetPacket(p)'
  BY <1>1, Zenon DEF GetPacket, Client, Sessions
<1> QED
  BY <1>2, <1>3, TurnParts, Zenon

\* A packet received, or a timeout, keeps the client's file a prefix of the
\* file: the block that is appended is the one with the number it waits for.
LEMMA GetClientStep ==
  ASSUME Shape, conf.op = "get", Numbered,
         \A p \in net : GetPacket(p), GetClient, GetServer,
         (\E p \in net : GetRecv(p)) \/ GetTimeout
  PROVE  (\A p \in net' : GetPacket(p)') /\ GetClient' /\ GetServer'
<1>1. conf' = conf /\ session' = session /\ pc = "get"
  BY Zenon DEF GetRecv, GetTimeout
<1>2. GetServer'
  BY <1>1, Zenon DEF GetServer, Sessions
<1>3. /\ conf.size \in Nat \ {0} /\ conf.size < Wrap /\ Wrap \in Nat
      /\ conf.sessions \in 0..MaxSessions /\ MaxSessions \in Nat
  BY SetupTyped, TftpAssumption, Zenon DEF Shape, Numbered
<1>4. /\ file = Blocks(Len(file)) /\ Len(file) \in Nat
      /\ blockno = Len(file) + 1 /\ blockno <= conf.size /\ blockno \in Nat
  BY <1>1 DEF GetClient, Shape
<1>5. CASE GetTimeout
  <2>1. GetTurn(blockno, retry + 1, port, net) /\ file' = file
    BY <1>5, Zenon DEF GetTimeout
  <2>2. /\ \A p \in net' : GetPacket(p)'
        /\ pc' \in {"get", "error"} /\ (pc' = "get" => blockno' = blockno)
    BY <1>1, <1>4, <2>1, GetTurnEffect, Zenon
  <2>3. GetClient'
    BY <1>1, <1>4, <2>1, <2>2, Zenon DEF GetClient
  <2> QED
    BY <1>2, <2>2, <2>3, Zenon
<1>6. ASSUME NEW p \in net, GetRecv(p)
      PROVE  (\A q \in net' : GetPacket(q)') /\ GetClient'
  <2>1. p.to = Client /\ p.from \in Sessions
    BY <1>6, Zenon DEF GetRecv, GetPacket
  <2>2. p.from # Client
    BY <1>3, <2>1 DEF Shape, Sessions, Client
  <2>3. PICK rest \in SUBSET net :
               \/ GetData(p, rest) \/ GetWriteFails(p, rest)
               \/ GetOtherPort(p, rest) \/ GetUnexpected(p, rest)
    BY <1>6, TakenKept, Zenon DEF GetRecv
  <2>4. ASSUME NEW op, op # "DATA", NEW b,
               NEW sent \in tftp_sendto(FromClient(p.from, op, b, 0))
        PROVE  \A q \in rest \cup sent : GetPacket(q)
    <3>1. \A q : q = FromClient(p.from, op, b, 0) => q.to = p.from /\ q.op = op
      BY PacketFields DEF FromClient
    <3>2. \A q : q = FromClient(p.from, op, b, 0) => GetPacket(q)
      BY <2>2, <2>4, <3>1, Zenon DEF GetPacket
    <3>3. sent = {FromClient(p.from, op, b, 0)} \/ sent = {}
      BY SendtoParts
    <3> QED
      BY <3>2, <3>3, Zenon
  <2>5. CASE GetData(p, rest)
    <3>1. PICK sent \in tftp_sendto(FromClient(p.from, "ACK", blockno, 0)) :
            \/ sent = {} /\ GetEnds("error", rest)
            \/ sent # {} /\ Short(p.data) /\ GetEnds("ok", rest \cup sent)
            \/ /\ sent # {} /\ ~Short(p.data)
               /\ GetTurn((blockno + 1) % Wrap, 0, p.from, rest \cup sent)
      BY <2>5, Zenon DEF GetData, Written
    <3>2. \A q \in rest \cup sent : GetPacket(q)
      BY <2>4, Zenon
    <3>3. p.data = blockno /\ file' = Append(file, p.data)
      BY <2>1, <2>5, Zenon DEF GetData, GetPacket
    <3>4. file' = Blocks(blockno) /\ Len(file') = blockno
      <4>1. file' = Append(Blocks(Len(file)), Len(file) + 1)
        BY <1>4, <3>3, Zenon
      <4>2. file' = Blocks(blockno)
        BY <1>4, <4>1, BlocksGrow, Zenon
      <4> QED
        BY <1>4, <4>2, BlocksGrow, Zenon
    <3>5. CASE sent = {} /\ GetEnds("error", rest)
      <4>1. pc' = "error" /\ net' \subseteq rest \cup sent
        BY <3>5, Zenon DEF GetEnds
      <4>2. \A q \in net' : GetPacket(q)'
        BY <1>1, <3>2, <4>1, Zenon DEF GetPacket, Client, Sessions
      <4> QED
        BY <1>1, <3>4, <4>1, <4>2, Zenon DEF GetClient
    <3>6. CASE Short(p.data) /\ GetEnds("ok", rest \cup sent)
      <4>1. pc' = "ok" /\ net' = rest \cup sent
        BY <3>6, Zenon DEF GetEnds
      <4>2. \A q \in net' : GetPacket(q)'
        BY <1>1, <3>2, <4>1, Zenon DEF GetPacket, Client, Sessions
      <4>3. GetClient'
        BY <1>1, <3>3, <3>4, <3>6, <4>1, Zenon DEF GetClient, Short
      <4> QED
        BY <4>2, <4>3, Zenon
    <3>7. CASE /\ ~Short(p.data)
               /\ GetTurn((blockno + 1) % Wrap, 0, p.from, rest \cup sent)
      <4>1. blockno + 1 \in Nat /\ blockno + 1 <= conf.size
        BY <1>3, <1>4, <3>3, <3>7 DEF Short
      <4>2. (blockno + 1) % Wrap = blockno + 1
        BY <1>3, <4>1, Unwrapped
      <4>3. GetTurn(blockno + 1, 0, p.from, rest \cup sent)
        BY <3>7, <4>2, Zenon
      <4>4. /\ \A q \in net' : GetPacket(q)'
            /\ pc' \in {"get", "error"}
            /\ pc' = "get" => blockno' = blockno + 1
        BY <1>1, <3>2, <4>1, <4>3, GetTurnEffect, Zenon
      <4>5. GetClient'
        BY <1>1, <3>4, <4>1, <4>4, Zenon DEF GetClient
      <4> QED
        BY <4>4, <4>5, Zenon
    <3> QED
      BY <3>1, <3>5, <3>6, <3>7, Zenon
  <2>6. CASE GetWriteFails(p, rest)
    BY <1>1, <1>4, <2>6, Zenon
       DEF GetWriteFails, End, GetClient, GetPacket, Client, Sessions
  <2>7. CASE GetOtherPort(p, rest)
    <3>1. PICK sent \in tftp_sendto(FromClient(p.from, "ERR", 0, 0)) :
            GetTurn(blockno, retry, port, rest \cup sent) /\ file' = file
      BY <2>7, Zenon DEF GetOtherPort
    <3>2. \A q \in rest \cup sent : GetPacket(q)
      BY <2>4, Zenon
    <3>3. /\ \A q \in net' : GetPacket(q)'
          /\ pc' \in {"get", "error"} /\ (pc' = "get" => blockno' = blockno)
      BY <1>1, <1>4, <3>1, <3>2, GetTurnEffect, Zenon
    <3> QED
      BY <1>1, <1>4, <3>1, <3>3, Zenon DEF GetClient
  <2>8. CASE GetUnexpected(p, rest)
    <3>1. GetTurn(blockno, retry + 1, port, rest) /\ file' = file
      BY <2>8, Zenon DEF GetUnexpected
    <3>2. /\ \A q \in net' : GetPacket(q)'
          /\ pc' \in {"get", "error"} /\ (pc' = "get" => blockno' = blockno)
      BY <1>1, <1>4, <3>1, GetTurnEffect, Zenon
    <3> QED
      BY <1>1, <1>4, <3>1, <3>2, Zenon DEF GetClient
  <2> QED
    BY <2>3, <2>5, <2>6, <2>7, <2>8, Zenon
<1> QED
  BY <1>2, <1>5, <1>6, Zenon

\* The server sends the blocks of the file under their numbers, and the network
\* adds nothing.
LEMMA GetServerStep ==
  ASSUME Shape, conf.op = "get", Numbered,
         \A p \in net : GetPacket(p), GetClient, GetServer,
         Server \/ \E p \in net : Lose(p)
  PROVE  (\A p \in net' : GetPacket(p)') /\ GetClient' /\ GetServer'
<1>1. conf' = conf /\ UNCHANGED client
  BY Zenon DEF Server, ServerRecv, ServerTimeout, ServerFails, Lose, client
<1>2. GetClient'
  BY <1>1, Zenon DEF GetClient, client
<1>3. /\ conf.size \in Nat \ {0} /\ conf.size < Wrap /\ Wrap \in Nat
      /\ conf.sessions \in 0..MaxSessions /\ MaxSessions \in Nat
  BY SetupTyped, TftpAssumption, Zenon DEF Shape, Numbered
<1>4. session \in Seq(Session) /\ Len(session) \in Nat
  BY DEF Shape
<1>5. ASSUME NEW s \in Sessions', NEW k \in 1..conf.size, NEW q,
             q = LastSent(s, Blocks(k))
      PROVE  GetPacket(q)'
  <2>1. k \in Nat /\ k % Wrap = k /\ Len(Blocks(k)) = k
    <3>1. k \in Nat /\ k < Wrap
      BY <1>3
    <3> QED
      BY <3>1, Unwrapped, BlocksGrow, Zenon
  <2>2. LastSent(s, Blocks(k)) = Packet(s, Client, "DATA", k, k)
    BY <2>1, Zenon DEF LastSent, Reply
  <2>3. /\ q.to = Client /\ q.from = s /\ q.op = "DATA"
        /\ q.block = k /\ q.data = k
    BY <1>5, <2>1, <2>2, PacketFields
  <2> QED
    BY <1>1, <1>3, <1>5, <2>3, Zenon DEF GetPacket, Client
<1>6. ASSUME Len(session') \in Nat, Len(session) <= Len(session')
      PROVE  \A p \in net : GetPacket(p)'
  BY <1>1, <1>4, <1>6 DEF GetPacket, Sessions, Client
<1>7. ASSUME NEW p \in net, Open(p)
      PROVE  (\A q \in net' : GetPacket(q)') /\ GetServer'
  <2>1. /\ session' = Append(session, [open |-> TRUE, blocks |-> Blocks(1)])
        /\ \E rest \in SUBSET net :
              net' = rest \cup {LastSent(Len(session) + 1, Blocks(1))}
    BY <1>7, TakenKept, Zenon DEF Open
  <2>2. /\ Len(session') = Len(session) + 1
        /\ session'[Len(session) + 1].blocks = Blocks(1)
        /\ \A t \in Sessions : session'[t].blocks = session[t].blocks
    BY <1>4, <2>1, SessionOpened, BlocksGrow, Zenon
  <2>3. Len(session) + 1 \in Sessions' /\ 1 \in 1..conf.size
    BY <1>3, <1>4, <2>2 DEF Sessions
  <2>4. \A q \in net' : GetPacket(q)'
    <3>1. \A q \in net : GetPacket(q)'
      BY <1>4, <1>6, <2>2
    <3>2. \A q : q = LastSent(Len(session) + 1, Blocks(1)) => GetPacket(q)'
      BY <1>5, <2>3, Zenon
    <3> QED
      BY <2>1, <3>1, <3>2, Zenon
  <2>5. GetServer'
    BY <1>1, <1>3, <1>4, <2>2, <2>3 DEF GetServer, Sessions
  <2> QED
    BY <2>4, <2>5, Zenon
<1>8. ASSUME NEW p \in net, Served(p)
      PROVE  (\A q \in net' : GetPacket(q)') /\ GetServer'
  <2> DEFINE had == session[p.to].blocks
  <2>1. p.to \in Sessions /\ p.to # Client /\ p.op # "DATA"
    BY <1>3, <1>4, <1>8 DEF Served, Shape, Sessions, Client, GetPacket
  <2>2. PICK k \in 1..conf.size : had = Blocks(k)
    BY <2>1, Zenon DEF GetServer
  <2>3. Len(had) = k /\ Append(had, Len(had) + 1) = Blocks(k + 1)
    <3>1. k \in Nat
      BY <1>3
    <3> QED
      BY <2>2, <3>1, BlocksGrow, Zenon
  <2>4. PICK rest \in SUBSET net :
           \/ /\ k # conf.size
              /\ session' = [session EXCEPT ![p.to].blocks = Blocks(k + 1)]
              /\ net' = rest \cup {LastSent(p.to, Blocks(k + 1))}
           \/ /\ session' = [session EXCEPT ![p.to].open = FALSE]
              /\ net' = rest
    BY <1>8, <2>1, <2>3, TakenKept, Zenon DEF Served, Short
  <2> HIDE DEF had
  <2>5. CASE /\ k # conf.size
             /\ session' = [session EXCEPT ![p.to].blocks = Blocks(k + 1)]
             /\ net' = rest \cup {LastSent(p.to, Blocks(k + 1))}
    <3>1. k + 1 \in 1..conf.size
      BY <1>3, <2>5
    <3>2. /\ Len(session') = Len(session)
          /\ \A t \in Sessions : session'[t].blocks =
               IF t = p.to THEN Blocks(k + 1) ELSE session[t].blocks
      <4>1. Blocks(k + 1) \in Seq(Nat)
        BY <1>3, <3>1, BlocksGrow
      <4> HIDE DEF Session
      <4> QED
        BY <1>4, <2>1, <2>5, <4>1, SessionServed
    <3>3. GetServer'
      BY <1>1, <3>1, <3>2, Zenon DEF GetServer, Sessions
    <3>4. p.to \in Sessions'
      BY <2>1, <3>2, Zenon DEF Sessions
    <3> QED
      <4>1. \A q \in net : GetPacket(q)'
        BY <1>4, <1>6, <3>2
      <4>2. \A q : q = LastSent(p.to, Blocks(k + 1)) => GetPacket(q)'
        BY <1>5, <3>1, <3>4, Zenon
      <4> QED
        BY <2>5, <3>3, <4>1, <4>2, Zenon
  <2>6. CASE /\ session' = [session EXCEPT ![p.to].open = FALSE]
             /\ net' = rest
    <3>1. /\ Len(session') = Len(session)
          /\ \A t \in Sessions : session'[t].blocks = session[t].blocks
      BY <1>4, <2>1, <2>6, SessionClosed, Zenon
    <3>2. GetServer'
      BY <1>1, <3>1, Zenon DEF GetServer, Sessions
    <3> QED
      BY <1>4, <1>6, <2>6, <3>1, <3>2
  <2> QED
    BY <2>4, <2>5, <2>6, Zenon
<1>9. ASSUME NEW s \in Sessions, ServerTimeout(s)
      PROVE  (\A q \in net' : GetPacket(q)') /\ GetServer'
  <2>1. session' = session /\ s \in Sessions'
    BY <1>9, Zenon DEF ServerTimeout, Sessions
  <2>2. GetServer' /\ \A p \in net : GetPacket(p)'
    BY <1>1, <1>4, <1>6, <2>1 DEF GetServer, Sessions
  <2>3. \A q : q = LastSent(s, session[s].blocks) => GetPacket(q)'
    BY <1>5, <2>1, Zenon DEF GetServer
  <2> QED
    BY <1>9, <2>2, <2>3, Zenon DEF ServerTimeout
<1>10. ASSUME NEW s \in Sessions, ServerFails(s)
       PROVE  (\A q \in net' : GetPacket(q)') /\ GetServer'
  <2>1. /\ Len(session') = Len(session)
        /\ \A t \in Sessions : session'[t].blocks = session[t].blocks
    BY <1>4, <1>10, SessionClosed, Zenon DEF ServerFails
  <2>2. GetServer' /\ \A p \in net : GetPacket(p)'
    BY <1>1, <1>4, <1>6, <2>1 DEF GetServer, Sessions
  <2>3. LET q == Reply(s, "ERR", 0, 0)
        IN  q.to = Client /\ q.from = s /\ q.op = "ERR"
    BY PacketFields DEF Reply
  <2>4. \A q : q = Reply(s, "ERR", 0, 0) => GetPacket(q)'
    BY <2>1, <2>3, Zenon DEF GetPacket, Client, Sessions
  <2> QED
    BY <1>10, <2>2, <2>4, Zenon DEF ServerFails
<1>11. ASSUME NEW p \in net, Ignored(p) \/ Lose(p), session' = session
       PROVE  (\A q \in net' : GetPacket(q)') /\ GetServer'
  BY <1>1, <1>4, <1>6, <1>11 DEF Ignored, Lose, GetServer, Sessions
<1>12. \A p : Ignored(p) \/ Lose(p) => session' = session
  BY Zenon DEF Ignored, Lose
<1> QED
  BY <1>2, <1>7, <1>8, <1>9, <1>10, <1>11, <1>12, Zenon DEF Server, ServerRecv

-----------------------------------------------------------------------------
(* tftpput_cb *)

\* The blocks that a session has.
Has(s) == Len(session[s].blocks)

\* A packet of a write transfer.  To the client: an acknowledgement of a block
\* that the session has.  From the client: data, to the session it sends to,
\* under its own number and no further than the block it sends now.
PutPacket(p) ==
  \/ /\ p.to = Client /\ p.from \in Sessions
     /\ p.op \in {"ACK", "ERR"}
     /\ p.op = "ACK" => p.block \in 0..Has(p.from)
  \/ /\ p.to # Client /\ p.op = "DATA"
     /\ p.to = port /\ port \in Sessions
     /\ p.block = p.data /\ p.data \in 1..Len(file) + 1 /\ p.data <= conf.size
  \/ p.to # Client /\ p.op \in {"WRQ", "ERR"}

\* Only the session that the client sends to has blocks; it has those that were
\* acknowledged and at most the one that is sent now.
PutServer ==
  \A s \in Sessions :
    /\ session[s].blocks = Blocks(Has(s))
    /\ s # port => Has(s) = 0
    /\ s = port => Has(s) \in {Len(file), Len(file) + 1} /\ Has(s) <= conf.size

PutClient ==
  /\ pc \in {"wrq", "data", "ok", "error", "fault"}
  /\ port \in Sessions \cup {0}
  /\ pc = "wrq" => /\ Len(file) = 0
                   /\ \A p \in net : p.op # "DATA"
                   /\ \A s \in Sessions : Has(s) = 0
  /\ pc = "data" => /\ port \in Sessions
                    /\ blockno = Len(file) + 1 /\ blockno <= conf.size
  /\ pc = "ok" => port \in Sessions /\ Len(file) = conf.size
  /\ port = 0 => Len(file) = 0

PutInv ==
  conf.op = "put" /\ Numbered =>
    (\A p \in net : PutPacket(p)) /\ PutServer /\ PutClient

\* A transfer of fewer blocks than block numbers, as the lemmas need it.
LEMMA PutTyped ==
  ASSUME Shape, Numbered
  PROVE  /\ conf.size \in Nat \ {0} /\ conf.size < Wrap /\ Wrap \in Nat
         /\ conf.sessions \in 0..MaxSessions /\ MaxSessions \in Nat
         /\ Len(session) \in Nat /\ Len(file) \in Nat
         /\ 0 \notin Sessions /\ Client \notin Sessions
         /\ \A s \in Sessions : session[s].blocks \in Seq(Nat) /\ Has(s) \in Nat
<1>1. /\ conf.size \in Nat \ {0} /\ conf.size < Wrap /\ Wrap \in Nat
      /\ conf.sessions \in 0..MaxSessions /\ MaxSessions \in Nat
  BY SetupTyped, TftpAssumption, Zenon DEF Shape, Numbered
<1>2. /\ session \in Seq(Session) /\ Len(session) \in Nat
      /\ Len(session) <= conf.sessions /\ Len(file) \in Nat
  BY DEF Shape
<1>3. 0 \notin Sessions /\ Client \notin Sessions
  BY <1>1, <1>2 DEF Sessions, Client
<1>4. \A s \in Sessions : session[s] \in Session
  BY <1>2 DEF Sessions
<1>5. \A s \in Sessions : session[s].blocks \in Seq(Nat) /\ Has(s) \in Nat
  BY <1>4 DEF Session, Has
<1> QED
  BY <1>1, <1>2, <1>3, <1>5, Zenon

\* The port that tftp_rcvack learns from the first packet is a session without
\* blocks, and afterwards it does not change: what is known stays true.
LEMMA PortLearned ==
  ASSUME Shape, Numbered, \A p \in net : PutPacket(p), PutServer, PutClient,
         conf' = conf, session' = session, file' = file,
         port' \in Sessions \cup {0}, port # 0 => port' = port
  PROVE  PutServer' /\ \A p \in net : PutPacket(p)'
<1>1. Sessions' = Sessions /\ \A s : Has(s)' = Has(s)
  BY Zenon DEF Sessions, Has
<1>2. port \in Sessions \cup {0} /\ 0 \notin Sessions
  BY PutTyped, Zenon DEF PutClient
<1>3. PutServer'
  <2>1. /\ \A s \in Sessions : s # port' => Has(s) = 0
        /\ \A s \in Sessions : session'[s].blocks = Blocks(Has(s))
    BY <1>2, Zenon DEF PutServer
  <2>2. /\ conf.size \in Nat \ {0} /\ Len(file) \in Nat
        /\ port = 0 => Len(file) = 0
    BY PutTyped, Zenon DEF PutClient
  <2>3. ASSUME NEW s \in Sessions, s = port'
        PROVE  Has(s) \in {Len(file), Len(file) + 1} /\ Has(s) <= conf.size
    BY <1>2, <2>2, <2>3 DEF PutServer
  <2> QED
    BY <1>1, <2>1, <2>3, Zenon DEF PutServer
<1>4. ASSUME NEW p \in net
      PROVE  PutPacket(p)'
  BY <1>1, <1>2, Zenon DEF PutPacket, Client
<1> QED
  BY <1>3, <1>4, Zenon

\* The block or the request is sent again (Resend), or the client waits on
\* (NoAck): nothing else is sent than before.
LEMMA PutResend ==
  ASSUME Shape, conf.op = "put", Numbered,
         \A p \in net : PutPacket(p), PutServer, PutClient,
         conf' = conf, session' = session, pc \in {"wrq", "data"},
         NEW q \in Sessions \cup {0}, port # 0 => q = port,
         NEW rest \in SUBSET net, Resend(q, rest) \/ NoAck(q, rest)
  PROVE  (\A p \in net' : PutPacket(p)') /\ PutServer' /\ PutClient'
<1>1. port' = q /\ file' = file /\ blockno' = blockno
  BY Zenon DEF Resend, NoAck
<1>2. PutServer' /\ \A p \in net : PutPacket(p)'
  BY <1>1, PortLearned, Zenon
<1>3. /\ conf.size \in Nat \ {0} /\ conf.size < Wrap /\ Len(file) \in Nat
      /\ 0 \notin Sessions /\ Client \notin Sessions
      /\ Client \in Nat \ {0} /\ Wrap \in Nat
  BY PutTyped DEF Client
<1>4. Sessions' = Sessions /\ \A s : Has(s)' = Has(s)
  BY Zenon DEF Sessions, Has
<1>5. PICK again : /\ net' \subseteq rest \cup again
                   /\ \/ pc' \in {pc, "error"} /\ again = {}
                      \/ /\ pc = "wrq" /\ pc' = pc
                         /\ again = {[Request EXCEPT !.to = q]}
                      \/ /\ pc = "data" /\ pc' \in {"data", "error"}
                         /\ again = {FromClient(q, "DATA", blockno, Len(file) + 1)}
  BY ResendParts, Zenon DEF Resend, NoAck, SendData
<1>6. ASSUME NEW p \in again
      PROVE  /\ PutPacket(p)'
             /\ pc = "wrq" => p.op # "DATA"
  <2>1. CASE pc = "wrq" /\ p = [Request EXCEPT !.to = q]
    <3>1. p.to = q /\ p.op = "WRQ"
      BY <2>1, RequestData, PacketFields
    <3> QED
      BY <1>3, <3>1, Zenon DEF PutPacket, Client
  <2>2. CASE pc = "data" /\ p = FromClient(q, "DATA", blockno, Len(file) + 1)
    <3>1. /\ port \in Sessions /\ q = port
          /\ blockno = Len(file) + 1 /\ blockno <= conf.size
      BY <1>3, <2>2, Zenon DEF PutClient
    <3>2. blockno % Wrap = blockno
      BY <1>3, <3>1, Unwrapped
    <3>3. /\ p.to = port /\ p.op = "DATA"
          /\ p.block = blockno /\ p.data = Len(file) + 1
      BY <2>2, <3>1, <3>2, PacketFields DEF FromClient
    <3>4. p.data \in 1..Len(file) + 1
      BY <1>3, <3>3
    <3>5. p.to # Client'
      BY <1>3, <3>1, <3>3, Zenon DEF Client
    <3> QED
      BY <1>1, <1>4, <2>2, <3>1, <3>3, <3>4, <3>5, Zenon DEF PutPacket
  <2> QED
    BY <1>5, <2>1, <2>2, Zenon
<1>7. \A p \in net' : PutPacket(p)'
  BY <1>2, <1>5, <1>6, Zenon
<1>8. pc' \in {pc, "error"}
  BY <1>5, Zenon
<1>9. PutClient'
  BY <1>1, <1>3, <1>4, <1>5, <1>6, <1>8, Zenon DEF PutClient
<1> QED
  BY <1>2, <1>7, <1>9, Zenon

\* The request is acknowledged (RequestAcked): the first block is sent.
LEMMA PutRequestAcked ==
  ASSUME Shape, conf.op = "put", Numbered,
         \A p \in net : PutPacket(p), PutServer, PutClient,
         conf' = conf, session' = session, pc = "wrq",
         NEW q \in Sessions, port # 0 => q = port,
         NEW rest \in SUBSET net, RequestAcked(q, rest)
  PROVE  (\A p \in net' : PutPacket(p)') /\ PutServer' /\ PutClient'
<1>1. /\ conf.size \in Nat \ {0} /\ conf.size < Wrap /\ Wrap \in Nat
      /\ 0 \notin Sessions /\ Client \notin Sessions
  BY PutTyped, Zenon
<1>2. Sessions' = Sessions /\ \A s : Has(s)' = Has(s)
  BY Zenon DEF Sessions, Has
<1>3. Len(file) = 0 /\ file' = file
  BY Zenon DEF PutClient, RequestAcked, End
<1>4. CASE End("fault") /\ net' = rest
  <2>1. port' = port /\ pc' = "fault"
    BY <1>4, Zenon DEF End
  <2>2. PutServer' /\ \A p \in net : PutPacket(p)'
    BY <1>3, <2>1, PortLearned, Zenon DEF PutClient
  <2>3. PutClient'
    BY <1>2, <1>3, <2>1, Zenon DEF PutClient
  <2> QED
    BY <1>4, <2>2, <2>3, Zenon
<1>5. CASE SendData(q, 1, 1, rest) /\ blockno' = 1 /\ port' = q
  <2>1. PutServer' /\ \A p \in net : PutPacket(p)'
    BY <1>3, <1>5, PortLearned, Zenon
  <2>2. ASSUME NEW p, p = FromClient(q, "DATA", 1, 1)
        PROVE  PutPacket(p)'
    <3>1. 1 % Wrap = 1
      BY <1>1, Unwrapped
    <3>2. p.to = q /\ p.op = "DATA" /\ p.block = 1 /\ p.data = 1
      BY <2>2, <3>1, PacketFields DEF FromClient
    <3>3. 1 \in 1..Len(file') + 1 /\ 1 <= conf'.size
      BY <1>1, <1>3
    <3>4. q # Client'
      BY <1>1, Zenon DEF Client
    <3> QED
      BY <1>2, <1>5, <3>2, <3>3, <3>4, Zenon DEF PutPacket
  <2>3. \A p \in net' : PutPacket(p)'
    BY <1>5, <2>1, <2>2, Zenon DEF SendData
  <2>4. pc' \in {"data", "error"}
    BY <1>5, Zenon DEF SendData
  <2>5. PutClient'
    BY <1>1, <1>2, <1>3, <1>5, <2>4 DEF PutClient
  <2> QED
    BY <2>1, <2>3, <2>5, Zenon
<1> QED
  BY <1>4, <1>5, Zenon DEF RequestAcked

\* The block is acknowledged (DataAcked): only the session that has it can have
\* done so, and the next block is sent, or it was the last.
LEMMA PutDataAcked ==
  ASSUME Shape, conf.op = "put", Numbered,
         \A p \in net : PutPacket(p), PutServer, PutClient,
         conf' = conf, session' = session, pc = "data",
         NEW ack \in net, ack.to = Client, ack.op = "ACK", ack.block = blockno,
         NEW rest \in SUBSET net, DataAcked(port, rest)
  PROVE  (\A p \in net' : PutPacket(p)') /\ PutServer' /\ PutClient'
<1>1. /\ conf.size \in Nat \ {0} /\ conf.size < Wrap /\ Wrap \in Nat
      /\ 0 \notin Sessions /\ Client \notin Sessions /\ Len(file) \in Nat
      /\ \A s \in Sessions : Has(s) \in Nat
  BY PutTyped, Zenon
<1>2. Sessions' = Sessions /\ \A s : Has(s)' = Has(s)
  BY Zenon DEF Sessions, Has
<1>3. /\ port \in Sessions /\ port' = port
      /\ blockno = Len(file) + 1 /\ blockno <= conf.size
  BY Zenon DEF PutClient, DataAcked
<1>4. ack.from \in Sessions /\ blockno <= Has(ack.from)
  BY <1>1 DEF PutPacket
<1>5. ack.from = port
  BY <1>1, <1>3, <1>4 DEF PutServer
<1>6. Has(port) = Len(file) + 1
  BY <1>1, <1>3, <1>4, <1>5 DEF PutServer
<1>7. file' = Append(file, Len(file) + 1) /\ Len(file') = Len(file) + 1
  BY DEF DataAcked, Shape
<1>8. PutServer'
  BY <1>1, <1>2, <1>3, <1>6, <1>7, Zenon DEF PutServer
<1>9. \A p \in net : PutPacket(p)'
  BY <1>1, <1>2, <1>3, <1>7 DEF PutPacket, Client
<1>10. CASE Short(Len(file) + 1)
  <2>1. pc' = "ok" /\ net' = rest
    BY <1>10, Zenon DEF DataAcked
  <2>2. PutClient'
    BY <1>1, <1>2, <1>3, <1>7, <1>10, <2>1, Zenon DEF PutClient, Short
  <2> QED
    BY <1>8, <1>9, <2>1, <2>2, Zenon
<1>11. CASE ~Short(Len(file) + 1)
  <2>1. blockno + 1 <= conf.size /\ blockno + 1 \in Nat
    BY <1>1, <1>3, <1>11 DEF Short
  <2>2. (blockno + 1) % Wrap = blockno + 1
    BY <1>1, <2>1, Unwrapped
  <2>3. /\ blockno' = blockno + 1
        /\ SendData(port, blockno + 1, Len(file) + 1 + 1, rest)
    BY <1>11, <2>2, Zenon DEF DataAcked
  <2>4. ASSUME NEW p, p = FromClient(port, "DATA", blockno + 1, Len(file) + 1 + 1)
        PROVE  PutPacket(p)'
    <3>1. /\ p.to = port /\ p.op = "DATA" /\ p.block = blockno + 1
          /\ p.data = Len(file) + 1 + 1
      BY <2>2, <2>4, PacketFields DEF FromClient
    <3>2. /\ p.data \in 1..Len(file') + 1 /\ p.data <= conf'.size
          /\ p.block = p.data
      BY <1>1, <1>3, <1>7, <2>1, <3>1
    <3>3. p.to # Client'
      BY <1>1, <1>3, <3>1, Zenon DEF Client
    <3> QED
      BY <1>2, <1>3, <3>1, <3>2, <3>3, Zenon DEF PutPacket
  <2>5. \A p \in net' : PutPacket(p)'
    BY <1>9, <2>3, <2>4, Zenon DEF SendData
  <2>6. pc' \in {"data", "error"}
    BY <2>3, Zenon DEF SendData
  <2>7. PutClient'
    BY <1>1, <1>2, <1>3, <1>7, <2>1, <2>3, <2>6, Zenon DEF PutClient
  <2> QED
    BY <1>8, <2>5, <2>7, Zenon
<1> QED
  BY <1>10, <1>11, Zenon

\* The steps of the client that writes.
LEMMA PutClientStep ==
  ASSUME Shape, conf.op = "put", Numbered,
         \A p \in net : PutPacket(p), PutServer, PutClient,
         (\E p \in net : PutRecv(p)) \/ PutTimeout
  PROVE  (\A p \in net' : PutPacket(p)') /\ PutServer' /\ PutClient'
<1>1. conf' = conf /\ session' = session /\ pc \in {"wrq", "data"}
  BY Zenon DEF PutRecv, PutTimeout
<1>2. CASE PutTimeout
  <2>1. /\ NoAck(port, net) /\ net \in SUBSET net
        /\ port \in Sessions \cup {0}
    BY <1>2, Zenon DEF PutTimeout, PutClient
  <2> QED
    BY <1>1, <2>1, PutResend, Zenon
<1>3. ASSUME NEW p \in net, PutRecv(p)
      PROVE  (\A r \in net' : PutPacket(r)') /\ PutServer' /\ PutClient'
  <2> DEFINE known == IF port = 0 THEN p.from ELSE port
  <2>1. p.to = Client /\ p.from \in Sessions
    BY <1>3, Zenon DEF PutRecv, PutPacket
  <2>2. known \in Sessions /\ (port # 0 => known = port)
    BY <2>1, Zenon DEF PutClient
  <2>3. pc = "data" => known = port
    BY PutTyped, Zenon DEF PutClient
  <2>4. PICK rest \in SUBSET net :
           \/ NoAck(known, rest) \/ Resend(known, rest)
           \/ pc = "wrq" /\ RequestAcked(known, rest)
           \/ /\ p.op = "ACK" /\ pc = "data" /\ p.block = blockno
              /\ DataAcked(known, rest)
    BY <1>3, TakenKept, Zenon DEF PutRecv
  <2> HIDE DEF known
  <2>5. CASE NoAck(known, rest) \/ Resend(known, rest)
    BY <1>1, <2>2, <2>5, PutResend, Zenon
  <2>6. CASE pc = "wrq" /\ RequestAcked(known, rest)
    BY <1>1, <2>2, <2>6, PutRequestAcked, Zenon
  <2>7. CASE /\ p.op = "ACK" /\ pc = "data" /\ p.block = blockno
             /\ DataAcked(known, rest)
    BY <1>1, <2>1, <2>3, <2>7, PutDataAcked, Zenon
  <2> QED
    BY <2>4, <2>5, <2>6, <2>7, Zenon
<1> QED
  BY <1>2, <1>3, Zenon

\* Sessions that have more blocks than before leave every packet as it is.
LEMMA PutPacketsKept ==
  ASSUME Shape, Numbered, \A p \in net : PutPacket(p),
         conf' = conf, port' = port, file' = file,
         Len(session') \in Nat, Len(session) <= Len(session'),
         \A s \in Sessions : Has(s)' \in Nat /\ Has(s) <= Has(s)'
  PROVE  \A p \in net : PutPacket(p)'
<1>1. Len(session) \in Nat /\ \A s \in Sessions : Has(s) \in Nat
  BY PutTyped, Zenon
<1>2. Sessions \subseteq Sessions'
  BY <1>1 DEF Sessions
<1> SUFFICES ASSUME NEW p \in net
             PROVE  PutPacket(p)'
  BY Zenon
<1>3. CASE p.to = Client /\ p.from \in Sessions /\ p.op = "ACK"
  <2>1. /\ p.block \in 0..Has(p.from) /\ Has(p.from) \in Nat
        /\ Has(p.from)' \in Nat /\ Has(p.from) <= Has(p.from)'
    BY <1>1, <1>3, PutTyped, Zenon DEF PutPacket
  <2>2. p.block \in 0..Has(p.from)'
    BY <2>1
  <2> QED
    BY <1>2, <1>3, <2>1, <2>2, Zenon DEF PutPacket, Client
<1>4. CASE p.to = Client /\ p.op = "ERR"
  BY <1>2, <1>4, Zenon DEF PutPacket, Client
<1>5. CASE p.to # Client
  BY <1>2, <1>5, Zenon DEF PutPacket, Client
<1> QED
  BY <1>3, <1>4, <1>5, Zenon DEF PutPacket

\* An acknowledgement of the last block that a session has (LastSent) is a
\* packet of the transfer.
LEMMA AckSent ==
  ASSUME Shape, conf.op = "put", Numbered, conf' = conf,
         NEW s \in Sessions', NEW k \in Nat, k <= conf.size, k <= Has(s)',
         Has(s)' \in Nat, NEW b \in Seq(Nat), Len(b) = k,
         NEW q, q = LastSent(s, b)
  PROVE  PutPacket(q)' /\ q.op = "ACK"
<1>1. k % Wrap = k
  BY PutTyped, Unwrapped
<1>2. q = Packet(s, Client, "ACK", k, 0)
  BY Zenon DEF LastSent, Reply
<1>3. q.to = Client /\ q.from = s /\ q.op = "ACK" /\ q.block = k
  BY <1>1, <1>2, PacketFields
<1> QED
  BY <1>3 DEF PutPacket, Client

\* The server keeps the blocks that come in order, and acknowledges those it
\* has; the network adds nothing.
LEMMA PutServerStep ==
  ASSUME Shape, conf.op = "put", Numbered,
         \A p \in net : PutPacket(p), PutServer, PutClient,
         Server \/ \E p \in net : Lose(p)
  PROVE  (\A p \in net' : PutPacket(p)') /\ PutServer' /\ PutClient'
<1>1. conf' = conf /\ UNCHANGED client
  BY Zenon DEF Server, ServerRecv, ServerTimeout, ServerFails, Lose, client
<1>2. /\ port' = port /\ file' = file /\ pc' = pc /\ blockno' = blockno
  BY <1>1, Zenon DEF client
<1>3. /\ conf.size \in Nat \ {0} /\ conf.size < Wrap /\ Wrap \in Nat
      /\ Len(session) \in Nat /\ Len(file) \in Nat
      /\ 0 \notin Sessions /\ Client \notin Sessions
      /\ \A s \in Sessions : session[s].blocks \in Seq(Nat) /\ Has(s) \in Nat
  BY PutTyped, Zenon
<1>4. session \in Seq(Session) /\ port \in Sessions \cup {0}
  BY Zenon DEF Shape, PutClient
<1>5. \A s \in Sessions : Has(s) <= conf.size
  BY <1>3 DEF PutServer
\* The sessions stay as they are, but for being closed.
<1>6. ASSUME Len(session') = Len(session),
             \A t \in Sessions : session'[t].blocks = session[t].blocks,
             \A p \in net' : p \in net \/ (PutPacket(p)' /\ p.op # "DATA")
      PROVE  (\A p \in net' : PutPacket(p)') /\ PutServer' /\ PutClient'
  <2>1. Sessions' = Sessions /\ \A t \in Sessions : Has(t)' = Has(t)
    BY <1>6, Zenon DEF Sessions, Has
  <2>2. \A p \in net : PutPacket(p)'
    <3>1. \A t \in Sessions : Has(t)' \in Nat /\ Has(t) <= Has(t)'
      BY <1>3, <2>1
    <3> QED
      BY <1>1, <1>2, <1>3, <1>6, <3>1, PutPacketsKept
  <2>3. PutServer'
    BY <1>1, <1>2, <1>6, <2>1, Zenon DEF PutServer
  <2>4. PutClient'
    BY <1>1, <1>2, <1>6, <2>1, Zenon DEF PutClient
  <2> QED
    BY <1>6, <2>2, <2>3, <2>4, Zenon
<1>7. ASSUME NEW p \in net, Open(p)
      PROVE  (\A q \in net' : PutPacket(q)') /\ PutServer' /\ PutClient'
  <2>0. PICK s : s = Len(session) + 1
    BY Zenon
  <2>1. /\ session' = Append(session, [open |-> TRUE, blocks |-> <<>>])
        /\ \E rest \in SUBSET net : net' = rest \cup {LastSent(s, <<>>)}
    BY <1>7, <2>0, TakenKept, Zenon DEF Open
  <2>2. /\ Len(session') = Len(session) + 1
        /\ session'[s].blocks = <<>>
        /\ \A t \in Sessions : session'[t].blocks = session[t].blocks
    <3>1. <<>> \in Seq(Nat)
      OBVIOUS
    <3> QED
      BY <1>4, <2>0, <2>1, <3>1, SessionOpened, Zenon
  <2>3. Sessions' = Sessions \cup {s} /\ s \notin Sessions /\ s # 0
    BY <1>3, <2>0, <2>2 DEF Sessions
  <2>4. Has(s)' = 0 /\ \A t \in Sessions : Has(t)' = Has(t)
    BY <2>2, Zenon DEF Has
  <2>5. s # port
    BY <1>4, <2>3, Zenon
  <2>6. \A q \in net : PutPacket(q)'
    <3>1. \A t \in Sessions : Has(t)' \in Nat /\ Has(t) <= Has(t)'
      BY <1>3, <2>4
    <3>2. Len(session') \in Nat /\ Len(session) <= Len(session')
      BY <1>3, <2>2
    <3> QED
      BY <1>1, <1>2, <3>1, <3>2, PutPacketsKept, Zenon
  <2>7. \A q : q = LastSent(s, <<>>) => PutPacket(q)' /\ q.op = "ACK"
    <3>1. s \in Sessions' /\ 0 <= conf.size /\ 0 <= Has(s)' /\ Has(s)' \in Nat
      BY <1>3, <2>3, <2>4
    <3>2. <<>> \in Seq(Nat) /\ Len(<<>>) = 0
      OBVIOUS
    <3> QED
      BY <1>1, <3>1, <3>2, AckSent, Zenon
  <2>8. PutServer'
    <3>1. session'[s].blocks = Blocks(Has(s)')
      BY <2>2, <2>4, BlocksGrow, Zenon
    <3>2. ASSUME NEW t \in Sessions
          PROVE  /\ session'[t].blocks = Blocks(Has(t)')
                 /\ t # port => Has(t)' = 0
                 /\ t = port => /\ Has(t)' \in {Len(file), Len(file) + 1}
                                /\ Has(t)' <= conf.size
      BY <2>2, <2>4, Zenon DEF PutServer
    <3> QED
      BY <1>1, <1>2, <2>3, <2>4, <2>5, <3>1, <3>2, Zenon DEF PutServer
  <2>9. PutClient'
    <3>1. \A q \in net' : q \in net \/ q.op = "ACK"
      BY <2>1, <2>7, Zenon
    <3> QED
      BY <1>1, <1>2, <2>3, <2>4, <3>1, Zenon DEF PutClient
  <2> QED
    BY <2>1, <2>6, <2>7, <2>8, <2>9, Zenon
<1>8. ASSUME NEW p \in net, Served(p)
      PROVE  (\A q \in net' : PutPacket(q)') /\ PutServer' /\ PutClient'
  <2> DEFINE s == p.to
             had == session[s].blocks
  <2>1. s \in Sessions /\ s # Client /\ had \in Seq(Nat) /\ Len(had) = Has(s)
    BY <1>3, <1>8, Zenon DEF Served, Has
  <2>2. p.op # "ACK"
    BY <2>1, Zenon DEF PutPacket
  <2>3. PICK rest \in SUBSET net :
          \/ /\ p.op = "DATA" /\ p.block = (Len(had) + 1) % Wrap
             /\ session' = [session EXCEPT ![s].blocks = Append(had, p.data)]
             /\ net' = rest \cup {LastSent(s, Append(had, p.data))}
          \/ session' = session /\ net' = rest \cup {LastSent(s, had)}
          \/ session' = [session EXCEPT ![s].open = FALSE] /\ net' = rest
    BY <1>8, <2>2, TakenKept, Zenon DEF Served
  <2> HIDE DEF had, s
  <2>4. CASE session' = session /\ net' = rest \cup {LastSent(s, had)}
    <3>1. /\ s \in Sessions' /\ Has(s)' = Has(s) /\ Has(s) \in Nat
          /\ Has(s) <= conf.size
      BY <1>3, <1>5, <2>1, <2>4, Zenon DEF Sessions, Has
    <3>2. \A q \in {LastSent(s, had)} : PutPacket(q)' /\ q.op # "DATA"
      BY <1>1, <2>1, <3>1, AckSent
    <3> QED
      BY <1>6, <2>4, <3>2, Zenon
  <2>5. CASE session' = [session EXCEPT ![s].open = FALSE] /\ net' = rest
    <3>1. /\ Len(session') = Len(session)
          /\ \A t \in Sessions : session'[t].blocks = session[t].blocks
      BY <1>4, <2>1, <2>5, SessionClosed, Zenon
    <3> QED
      BY <1>6, <2>5, <3>1, Zenon
  <2>6. CASE /\ p.op = "DATA" /\ p.block = (Len(had) + 1) % Wrap
             /\ session' = [session EXCEPT ![s].blocks = Append(had, p.data)]
             /\ net' = rest \cup {LastSent(s, Append(had, p.data))}
    <3>1. /\ s = port /\ p.block = p.data /\ p.data \in 1..Len(file) + 1
          /\ p.data <= conf.size
      BY <2>1, <2>6, Zenon DEF PutPacket, s
    <3>2. /\ had = Blocks(Has(s)) /\ Has(s) \in {Len(file), Len(file) + 1}
          /\ Has(s) <= conf.size /\ Has(s) \in Nat
      BY <1>3, <2>1, <3>1, Zenon DEF PutServer, had
    <3>3. p.data = Has(s) + 1
      <4>1. CASE Has(s) + 1 < Wrap
        BY <2>1, <2>6, <3>1, <3>2, <4>1, Unwrapped
      <4>2. CASE Has(s) + 1 = Wrap
        <5>1. Wrap % Wrap = 0
          BY <1>3
        <5> QED
          BY <1>3, <2>1, <2>6, <3>1, <4>2, <5>1
      <4> QED
        BY <1>3, <3>2, <4>1, <4>2
    <3>4. Has(s) = Len(file) /\ Has(s) + 1 <= conf.size
      BY <1>3, <3>1, <3>2, <3>3
    <3>5. Append(had, p.data) = Blocks(Has(s) + 1)
      BY <3>2, <3>3, BlocksGrow, Zenon
    <3>6. Blocks(Has(s) + 1) \in Seq(Nat) /\ Len(Blocks(Has(s) + 1)) = Has(s) + 1
      <4>1. Has(s) + 1 \in Nat
        BY <3>2
      <4> QED
        BY <4>1, BlocksGrow, Zenon
    <3>7. /\ Len(session') = Len(session)
          /\ \A t \in Sessions : session'[t].blocks =
               IF t = s THEN Blocks(Has(s) + 1) ELSE session[t].blocks
      BY <1>4, <2>1, <2>6, <3>5, <3>6, SessionServed, Zenon
    <3>8. /\ Sessions' = Sessions /\ Has(s)' = Has(s) + 1
          /\ \A t \in Sessions : t # s => Has(t)' = Has(t)
      BY <2>1, <3>6, <3>7, Zenon DEF Sessions, Has
    <3>9. \A q \in net : PutPacket(q)'
      <4>1. \A t \in Sessions : Has(t)' \in Nat /\ Has(t) <= Has(t)'
        BY <1>3, <3>8
      <4> QED
        BY <1>1, <1>2, <1>3, <3>7, <4>1, PutPacketsKept
    <3>10. \A q \in net' : q \in net \/ (PutPacket(q)' /\ q.op = "ACK")
      <4>1. /\ s \in Sessions' /\ Has(s) + 1 \in Nat /\ Has(s) + 1 <= Has(s)'
            /\ Has(s)' \in Nat
        BY <2>1, <3>2, <3>8
      <4>2. \A q : q = LastSent(s, Blocks(Has(s) + 1)) =>
                     PutPacket(q)' /\ q.op = "ACK"
        BY <1>1, <3>4, <3>6, <4>1, AckSent, Zenon
      <4> QED
        BY <2>6, <3>5, <4>2, Zenon
    <3>11. PutServer'
      <4>1. ASSUME NEW t \in Sessions
            PROVE  /\ session'[t].blocks = Blocks(Has(t)')
                   /\ t # port => Has(t)' = 0
                   /\ t = port => /\ Has(t)' \in {Len(file), Len(file) + 1}
                                  /\ Has(t)' <= conf.size
        BY <3>1, <3>4, <3>7, <3>8, Zenon DEF PutServer
      <4> QED
        BY <1>1, <1>2, <3>8, <4>1, Zenon DEF PutServer
    <3>12. pc # "wrq"
      BY <2>6, Zenon DEF PutClient
    <3>13. PutClient'
      BY <1>1, <1>2, <3>8, <3>12, Zenon DEF PutClient
    <3> QED
      BY <3>9, <3>10, <3>11, <3>13, Zenon
  <2> QED
    BY <2>3, <2>4, <2>5, <2>6, Zenon
<1>9. ASSUME NEW s \in Sessions, ServerTimeout(s)
      PROVE  (\A q \in net' : PutPacket(q)') /\ PutServer' /\ PutClient'
  <2>1. session' = session /\ s \in Sessions' /\ Has(s)' = Has(s)
    BY <1>9, Zenon DEF ServerTimeout, Sessions, Has
  <2>2. session[s].blocks \in Seq(Nat) /\ Len(session[s].blocks) = Has(s)
    BY <1>3, Zenon DEF Has
  <2>3. \A q \in {LastSent(s, session[s].blocks)} :
          PutPacket(q)' /\ q.op # "DATA"
    BY <1>1, <1>3, <1>5, <2>1, <2>2, AckSent
  <2>4. net' = net \cup {LastSent(s, session[s].blocks)}
    BY <1>9, Zenon DEF ServerTimeout
  <2> QED
    BY <1>6, <2>1, <2>3, <2>4, Zenon
<1>10. ASSUME NEW s \in Sessions, ServerFails(s)
       PROVE  (\A q \in net' : PutPacket(q)') /\ PutServer' /\ PutClient'
  <2>1. /\ Len(session') = Len(session)
        /\ \A t \in Sessions : session'[t].blocks = session[t].blocks
    BY <1>4, <1>10, SessionClosed, Zenon DEF ServerFails
  <2>2. LET q == Reply(s, "ERR", 0, 0)
        IN  q.to = Client /\ q.from = s /\ q.op = "ERR"
    BY PacketFields DEF Reply
  <2>3. \A q \in {Reply(s, "ERR", 0, 0)} : PutPacket(q)' /\ q.op # "DATA"
    BY <2>1, <2>2, Zenon DEF PutPacket, Client, Sessions
  <2>4. net' = net \cup {Reply(s, "ERR", 0, 0)}
    BY <1>10, Zenon DEF ServerFails
  <2> QED
    BY <1>6, <2>1, <2>3, <2>4, Zenon
<1>11. ASSUME NEW p \in net, Ignored(p) \/ Lose(p)
       PROVE  (\A q \in net' : PutPacket(q)') /\ PutServer' /\ PutClient'
  <2>1. session' = session /\ net' \subseteq net
    BY <1>11, Zenon DEF Ignored, Lose
  <2> QED
    BY <1>6, <2>1, Zenon
<1> QED
  BY <1>7, <1>8, <1>9, <1>10, <1>11, Zenon DEF Server, ServerRecv

-----------------------------------------------------------------------------
(* tftpput_cb over a network that only loses packets. *)

\* An acknowledgement that is not the one of the block that is sent now.
Stale(p) == pc = "data" /\ p.to = Client /\ p.block # blockno

\* The packets that are in transit while the client waits: one at most, which is
\* the request, the block that is sent now, or an acknowledgement.
OnePacket ==
  /\ \A p, q \in net : p = q
  /\ \A p \in net : p.to = Client => p.op = "ACK"
  /\ \A p \in net : p.to # Client =>
       \/ /\ pc = "wrq" /\ p.op = "WRQ" /\ p.to = WellKnown
          /\ Len(session) <= retry
       \/ pc = "data" /\ p.op = "DATA" /\ p.data = Len(file) + 1

\* The client counts a retry for a packet that was lost, and no more.
LossInv ==
  /\ lost \in Nat
  /\ pc = "error" => lost > Retries
  /\ pc \in {"wrq", "data"} =>
       /\ OnePacket
       /\ \A s \in Sessions : session[s].open
       /\ pc = "wrq" => port = 0 /\ Len(session) <= retry + 1
       /\ retry \in 0..Retries /\ retry <= lost
       /\ net = {} \/ (\E p \in net : Stale(p)) => retry < lost

ToleranceInv == OnlyLoss => LossInv

\* What is known of the numbers, and of the constants, of such a transfer.
LEMMA LossTyped ==
  ASSUME Shape, OnlyLoss, LossInv
  PROVE  /\ conf.op = "put" /\ Numbered /\ conf.late = FALSE /\ conf.fails = FALSE
         /\ conf.size \in Nat \ {0} /\ conf.size < Wrap /\ Wrap \in Nat
         /\ conf.sessions \in Nat /\ conf.sessions > Retries /\ Retries \in Nat
         /\ Len(session) \in Nat /\ Len(file) \in Nat /\ lost \in Nat
         /\ 0 \notin Sessions /\ Client \notin Sessions /\ Client # 0
<1>1. conf.op = "put" /\ Numbered /\ ~conf.late /\ ~conf.fails
      /\ conf.sessions > Retries
  BY Zenon DEF OnlyLoss
<1>2. conf.late \in BOOLEAN /\ conf.fails \in BOOLEAN
  BY TftpAssumption, Zenon DEF Shape, SetupType
<1>3. conf.late = FALSE /\ conf.fails = FALSE
  BY <1>1, <1>2, Zenon
<1>4. /\ conf.size \in Nat \ {0} /\ conf.size < Wrap /\ Wrap \in Nat
      /\ conf.sessions \in Nat /\ Retries \in Nat /\ MaxSessions \in Nat
      /\ Len(session) \in Nat /\ Len(file) \in Nat
      /\ 0 \notin Sessions /\ Client \notin Sessions
  BY <1>1, PutTyped, TftpAssumption
<1>5. Client # 0
  BY <1>4 DEF Client
<1> QED
  BY <1>1, <1>3, <1>4, <1>5, Zenon DEF LossInv

\* A client that has ended has nothing more to lose.
LEMMA LossEnded ==
  ASSUME LossInv, lost' \in Nat, pc' \notin {"wrq", "data"},
         pc' = "error" => lost' > Retries
  PROVE  LossInv'
BY Zenon DEF LossInv

\* The client sends the request or the block again (Resend) after a packet was
\* lost that it has not counted yet.
LEMMA LossResend ==
  ASSUME Shape, OnlyLoss, LossInv, PutClient,
         conf' = conf, session' = session, lost' = lost,
         pc \in {"wrq", "data"}, retry < lost,
         NEW q \in Nat, pc = "wrq" => q = 0, pc = "data" => q \in Sessions,
         NEW rest, rest = {}, Resend(q, rest)
  PROVE  LossInv'
<1>1. /\ conf.op = "put" /\ conf.fails = FALSE /\ Wrap \in Nat
      /\ Retries \in Nat /\ Len(session) \in Nat /\ Len(file) \in Nat
      /\ lost \in Nat /\ Client \notin Sessions /\ Client # 0
  BY LossTyped, Zenon
<1>2. retry \in 0..Retries
  BY Zenon DEF LossInv
<1>3. Sessions' = Sessions
  BY Zenon DEF Sessions
<1>4. CASE retry + 1 > Retries
  <2>1. pc' = "error" /\ lost' > Retries
    BY <1>1, <1>2, <1>4 DEF Resend
  <2> QED
    BY <1>1, <2>1, LossEnded, Zenon
<1>5. CASE ~(retry + 1 > Retries)
  <2>1. retry' = retry + 1 /\ retry' \in 0..Retries /\ retry' <= lost'
    BY <1>1, <1>2, <1>5 DEF Resend
  <2>2. file' = file /\ blockno' = blockno /\ port' = q
    BY Zenon DEF Resend
  <2>3. PICK r : /\ net' = {r} /\ pc' = pc
                 /\ \/ pc = "wrq" /\ r = [Request EXCEPT !.to = q]
                    \/ /\ pc = "data"
                       /\ r = FromClient(q, "DATA", blockno, Len(file) + 1)
    <3>1. \A r : rest \cup {r} = {r}
      OBVIOUS
    <3>2. \/ pc = "wrq" /\ ResendRequest(q, rest)
          \/ pc = "data" /\ SendData(q, blockno, Len(file) + 1, rest)
      BY <1>1, <1>5, Zenon DEF Resend
    <3>3. ASSUME ResendRequest(q, rest)
          PROVE  pc' = pc /\ net' = {[Request EXCEPT !.to = q]}
      BY <1>1, <3>1, <3>3, ResendParts, Zenon
    <3> QED
      BY <1>1, <3>1, <3>2, <3>3, Zenon DEF SendData
  <2>4. \/ pc = "wrq" /\ r.to = 0 /\ r.op = "WRQ"
        \/ /\ pc = "data" /\ r.to = q /\ r.op = "DATA"
           /\ r.data = Len(file) + 1
    <3>1. CASE pc = "wrq" /\ r = [Request EXCEPT !.to = q]
      BY <1>1, <3>1, RequestData, PacketFields
    <3>2. CASE pc = "data" /\ r = FromClient(q, "DATA", blockno, Len(file) + 1)
      BY <3>2, PacketFields DEF FromClient
    <3> QED
      BY <2>3, <3>1, <3>2, Zenon
  <2>5. r.to # Client
    BY <1>1, <2>3, <2>4, Zenon
  <2>6. pc = "wrq" => Len(session) <= retry'
    BY <1>2, <2>1, Zenon DEF LossInv
  <2>7. OnePacket'
    BY <2>2, <2>3, <2>4, <2>5, <2>6, Zenon DEF OnePacket, WellKnown, Client
  <2>8. ~(net' = {} \/ (\E p \in net' : Stale(p)'))
    BY <2>3, <2>5, Zenon DEF Stale, Client
  <2>9. pc' = "wrq" => port' = 0 /\ Len(session') <= retry' + 1
    BY <1>1, <2>1, <2>2, <2>3, <2>6
  <2>10. \A s \in Sessions' : session'[s].open
    BY <1>3, Zenon DEF LossInv
  <2> QED
    BY <1>1, <2>1, <2>3, <2>7, <2>8, <2>9, <2>10, Zenon DEF LossInv
<1> QED
  BY <1>4, <1>5, Zenon

\* A block is sent for the first time (RequestAcked, DataAcked).
LEMMA LossSend ==
  ASSUME Shape, OnlyLoss, LossInv, pc \in {"wrq", "data"},
         conf' = conf, session' = session, lost' = lost, retry' = 0,
         NEW q \in Sessions, NEW b, NEW rest, rest = {},
         SendData(q, b, Len(file') + 1, rest)
  PROVE  LossInv'
<1>1. /\ conf.fails = FALSE /\ Retries \in Nat /\ lost \in Nat
      /\ Client \notin Sessions
  BY LossTyped, Zenon
<1>2. Sessions' = Sessions
  BY Zenon DEF Sessions
<1>3. PICK r : net' = {r} /\ r = FromClient(q, "DATA", b, Len(file') + 1)
  BY <1>1, Zenon DEF SendData
<1>4. pc' = "data"
  BY <1>1, Zenon DEF SendData
<1>5. r.to = q /\ r.op = "DATA" /\ r.data = Len(file') + 1
  BY <1>3, PacketFields DEF FromClient
<1>6. r.to # Client
  BY <1>1, <1>5, Zenon
<1>7. OnePacket'
  BY <1>3, <1>4, <1>5, <1>6, Zenon DEF OnePacket, Client
<1>8. ~(net' = {} \/ (\E p \in net' : Stale(p)'))
  BY <1>3, <1>6, Zenon DEF Stale, Client
<1>9. retry' \in 0..Retries /\ retry' <= lost'
  BY <1>1
<1>10. \A s \in Sessions' : session'[s].open
  BY <1>2, Zenon DEF LossInv
<1> QED
  BY <1>1, <1>4, <1>7, <1>8, <1>9, <1>10, Zenon DEF LossInv

\* The steps of the client: a timeout comes only when nothing is in transit, and
\* an acknowledgement that is not expected only after a packet was lost.
LEMMA LossClientStep ==
  ASSUME Shape, OnlyLoss, LossInv,
         \A p \in net : PutPacket(p), PutServer, PutClient,
         (\E p \in net : PutRecv(p)) \/ PutTimeout
  PROVE  LossInv'
<1>1. /\ conf' = conf /\ session' = session /\ lost' = lost
      /\ pc \in {"wrq", "data"}
  BY Zenon DEF PutRecv, PutTimeout
<1>2. /\ conf.late = FALSE /\ Retries \in Nat /\ Len(session) \in Nat
      /\ lost \in Nat
  BY LossTyped, Zenon
<1>3. /\ OnePacket /\ retry \in 0..Retries
      /\ net = {} \/ (\E p \in net : Stale(p)) => retry < lost
      /\ pc = "wrq" => port = 0
      /\ pc = "data" => port \in Sessions
      /\ port \in Sessions \cup {0} /\ Sessions \subseteq Nat
  BY <1>1 DEF LossInv, PutClient, Sessions
<1>4. CASE PutTimeout
  <2>1. net = {} /\ NoAck(port, net) /\ retry < lost
    BY <1>2, <1>3, <1>4, Zenon DEF PutTimeout, NothingComes
  <2>2. CASE tries + 1 < Retries
    <3>1. UNCHANGED <<pc, blockno, retry, file, port, net>>
      BY <2>1, <2>2, Zenon DEF NoAck
    <3> QED
      BY <1>1, <3>1, Zenon
      DEF LossInv, OnePacket, Stale, Sessions, Client, WellKnown
  <2>3. CASE ~(tries + 1 < Retries)
    <3>1. Resend(port, net) /\ port \in Nat
      BY <1>3, <2>1, <2>3 DEF NoAck
    <3> QED
      BY <1>1, <1>3, <2>1, <3>1, LossResend, Zenon
  <2> QED
    BY <2>2, <2>3, Zenon
<1>5. ASSUME NEW p \in net, PutRecv(p)
      PROVE  LossInv'
  <2>1. p.to = Client /\ p.op = "ACK" /\ p.from \in Sessions
    BY <1>3, <1>5, Zenon DEF PutRecv, OnePacket, PutPacket
  <2>2. PICK rest : rest = net \ {p}
    BY Zenon
  <2>3. rest = {} /\ Taken(p) = {rest}
    BY <1>2, <1>3, <2>2, Zenon DEF OnePacket, Taken
  <2>4. CASE pc = "wrq"
    <3>1. port = 0 /\ RequestAcked(p.from, rest)
      BY <1>3, <1>5, <2>1, <2>3, <2>4, Zenon DEF PutRecv
    <3>2. CASE End("fault") /\ net' = rest
      BY <1>1, <1>2, <3>2, LossEnded, Zenon DEF End
    <3>3. CASE SendData(p.from, 1, 1, rest) /\ retry' = 0 /\ UNCHANGED file
      <4>1. Len(file') + 1 = 1
        BY <2>4, <3>3 DEF PutClient
      <4> QED
        BY <1>1, <2>1, <2>3, <3>3, <4>1, LossSend
    <3> QED
      BY <3>1, <3>2, <3>3, Zenon DEF RequestAcked
  <2>5. CASE pc = "data" /\ p.block = blockno
    <3>1. port \in Sessions /\ port # 0
      BY <1>3, <2>5, LossTyped, Zenon
    <3>2. DataAcked(port, rest)
      BY <1>5, <2>1, <2>3, <2>5, <3>1, Zenon DEF PutRecv
    <3>3. file' = Append(file, Len(file) + 1) /\ Len(file') = Len(file) + 1
      BY <3>2 DEF DataAcked, Shape
    <3>4. CASE Short(Len(file) + 1)
      <4>1. pc' = "ok"
        BY <3>2, <3>4, Zenon DEF DataAcked
      <4> QED
        BY <1>1, <1>2, <4>1, LossEnded, Zenon
    <3>5. CASE ~Short(Len(file) + 1)
      <4>1. PICK b : b = (blockno + 1) % Wrap
        BY Zenon
      <4>2. retry' = 0 /\ SendData(port, b, Len(file') + 1, rest)
        BY <3>2, <3>3, <3>5, <4>1, Zenon DEF DataAcked
      <4> QED
        BY <1>1, <2>3, <3>1, <4>2, LossSend, Zenon
    <3> QED
      BY <3>4, <3>5, Zenon
  <2>6. CASE pc = "data" /\ p.block # blockno
    <3>1. port \in Sessions /\ port # 0 /\ port \in Nat
      BY <1>3, <2>6, LossTyped, Zenon
    <3>2. Resend(port, rest)
      BY <1>5, <2>1, <2>3, <2>6, <3>1, Zenon DEF PutRecv
    <3>3. retry < lost
      BY <1>3, <2>1, <2>6, Zenon DEF Stale
    <3> QED
      BY <1>1, <2>3, <2>6, <3>1, <3>2, <3>3, LossResend, Zenon
  <2> QED
    BY <1>1, <2>4, <2>5, <2>6, Zenon
<1> QED
  BY <1>4, <1>5, Zenon

\* A session sends an acknowledgement, and nothing else is in transit.
LEMMA LossAnswer ==
  ASSUME LossInv, pc \in {"wrq", "data"},
         lost' = lost, UNCHANGED client,
         NEW r, net' = {r}, r.to = Client, r.op = "ACK",
         \A s \in Sessions' : session'[s].open,
         pc = "wrq" => Len(session') <= retry + 1,
         pc = "data" /\ r.block # blockno => retry < lost
  PROVE  LossInv'
<1>1. pc' = pc /\ blockno' = blockno /\ retry' = retry /\ port' = port
  BY Zenon DEF client
<1>2. OnePacket'
  BY Zenon DEF OnePacket, Client
<1>3. net' = {} \/ (\E p \in net' : Stale(p)') => retry' < lost'
  BY <1>1, Zenon DEF Stale, Client
<1> QED
  BY <1>1, <1>2, <1>3, Zenon DEF LossInv

\* What a session of a write sends (LastSent) acknowledges the blocks it has.
LEMMA LastAck ==
  ASSUME conf.op = "put", NEW s, NEW b
  PROVE  \A r : r = LastSent(s, b) =>
           r.to = Client /\ r.op = "ACK" /\ r.block = Len(b) % Wrap
BY PacketFields DEF LastSent, Reply

\* The request is answered by a session of its own (Open).
LEMMA LossOpen ==
  ASSUME Shape, OnlyLoss, LossInv, pc \in {"wrq", "data"},
         lost' = lost, UNCHANGED client,
         NEW p \in net, Open(p)
  PROVE  LossInv'
<1>1. /\ conf.op = "put" /\ conf.late = FALSE /\ Len(session) \in Nat
      /\ Client # 0 /\ Retries \in Nat /\ session \in Seq(Session)
  BY LossTyped, Zenon DEF Shape
<1>2. OnePacket /\ retry \in 0..Retries /\ \A s \in Sessions : session[s].open
  BY Zenon DEF LossInv
<1>3. pc = "wrq" /\ Len(session) <= retry
  BY <1>1, <1>2, Zenon DEF OnePacket, Open, WellKnown
<1>4. PICK s : s = Len(session) + 1
  BY Zenon
<1>5. /\ session' = Append(session, [open |-> TRUE, blocks |-> <<>>])
      /\ net' = (net \ {p}) \cup {LastSent(s, <<>>)}
  BY <1>1, <1>4, Zenon DEF Open, Taken
<1>6. PICK r : r = LastSent(s, <<>>) /\ net' = {r}
  BY <1>2, <1>5, Zenon DEF OnePacket
<1>7. r.to = Client /\ r.op = "ACK"
  BY <1>1, <1>6, LastAck, Zenon
<1>8. /\ Len(session') = Len(session) + 1
      /\ \A t \in Sessions' : session'[t].open
  <2>1. \A new : session' = Append(session, new) /\ new.open =>
          /\ Len(session') = Len(session) + 1
          /\ \A t \in 1..Len(session') : session'[t].open
    BY <1>1, <1>2 DEF Sessions
  <2>2. [open |-> TRUE, blocks |-> <<>>].open
    BY Zenon
  <2> QED
    BY <1>5, <2>1, <2>2, Zenon DEF Sessions
<1>9. Len(session') <= retry + 1
  BY <1>1, <1>2, <1>3, <1>8
<1> QED
  BY <1>3, <1>6, <1>7, <1>8, <1>9, LossAnswer, Zenon

\* The session that is sent the current block acknowledges just that block,
\* whether it had the block before or not (Served).
LEMMA LossServed ==
  ASSUME Shape, OnlyLoss, LossInv, pc \in {"wrq", "data"},
         \A p \in net : PutPacket(p), PutServer, PutClient,
         lost' = lost, UNCHANGED client,
         NEW p \in net, Served(p)
  PROVE  LossInv'
<1>1. /\ conf.op = "put" /\ conf.late = FALSE /\ Len(file) \in Nat
      /\ 0 \notin Sessions /\ Client \notin Sessions
      /\ conf.size \in Nat \ {0} /\ conf.size < Wrap /\ Wrap \in Nat
      /\ session \in Seq(Session) /\ Numbered
  BY LossTyped, Zenon DEF Shape
<1>2. OnePacket /\ \A s \in Sessions : session[s].open
  BY Zenon DEF LossInv
<1>3. PICK s \in Sessions : s = p.to
  BY Zenon DEF Served
<1>4. PICK had \in Seq(Nat) : had = session[s].blocks
  BY <1>1, PutTyped, Zenon
<1>5. pc = "data" /\ p.op = "DATA" /\ p.data = Len(file) + 1
  BY <1>1, <1>2, <1>3, Zenon DEF OnePacket, WellKnown
<1>6. s = port /\ p.block = p.data
  BY <1>1, <1>3, <1>5, Zenon DEF PutPacket
<1>7. blockno = Len(file) + 1 /\ blockno <= conf.size
  BY <1>5, Zenon DEF PutClient
<1>8. Len(had) \in {Len(file), Len(file) + 1}
  BY <1>4, <1>6, Zenon DEF PutServer, Has
<1>9. (net \ {p}) = {} /\ Taken(p) = {net \ {p}}
  BY <1>1, <1>2, Zenon DEF OnePacket, Taken
<1>10. blockno \in Nat /\ blockno < Wrap /\ blockno % Wrap = blockno
  <2>1. blockno \in Nat /\ blockno < Wrap
    BY <1>1, <1>7
  <2> QED
    BY <2>1, Unwrapped, Zenon
<1>11. CASE p.block = (Len(had) + 1) % Wrap
  <2>1. Len(had) = Len(file)
    <3>1. \A n \in Nat : n < Wrap /\ n > 0 => n # (n + 1) % Wrap
      <4>1. ASSUME NEW n \in Nat, n > 0, n + 1 < Wrap
            PROVE  n # (n + 1) % Wrap
        BY <4>1, Unwrapped
      <4>2. Wrap % Wrap = 0
        BY <1>1
      <4>3. ASSUME NEW n \in Nat, n > 0, n < Wrap
            PROVE  n + 1 < Wrap \/ n + 1 = Wrap
        BY <1>1, <4>3
      <4> QED
        BY <4>1, <4>2, <4>3
    <3> QED
      BY <1>1, <1>5, <1>6, <1>7, <1>8, <1>10, <1>11, <3>1
  <2>2. PICK next : next = Append(had, p.data)
    BY Zenon
  <2>3. Len(next) = blockno
    BY <1>7, <2>1, <2>2
  <2>4. /\ session' = [session EXCEPT ![s].blocks = next]
        /\ net' = {LastSent(s, next)}
    BY <1>1, <1>3, <1>4, <1>5, <1>9, <1>11, <2>2, Zenon DEF Served
  <2>5. PICK r : r = LastSent(s, next) /\ net' = {r}
    BY <2>4, Zenon
  <2>6. r.to = Client /\ r.op = "ACK" /\ r.block = blockno
    BY <1>1, <1>10, <2>3, <2>5, LastAck, Zenon
  <2>7. \A t \in Sessions' : session'[t].open
    <3>1. session[s] \in Session /\ session[s].open
      BY <1>1, <1>2, <1>3 DEF Sessions
    <3>2. [session[s] EXCEPT !.blocks = next].open
      BY <3>1, Zenon DEF Session
    <3> QED
      BY <1>1, <1>2, <2>4, <3>2 DEF Sessions
  <2> QED
    BY <1>5, <2>5, <2>6, <2>7, LossAnswer, Zenon
<1>12. CASE p.block # (Len(had) + 1) % Wrap
  <2>1. Len(had) = blockno
    BY <1>5, <1>6, <1>7, <1>8, <1>10, <1>12, Zenon
  <2>2. session' = session /\ net' = {LastSent(s, had)}
    BY <1>3, <1>4, <1>5, <1>9, <1>12, Zenon DEF Served
  <2>3. PICK r : r = LastSent(s, had) /\ net' = {r}
    BY <2>2, Zenon
  <2>4. r.to = Client /\ r.op = "ACK" /\ r.block = blockno
    BY <1>1, <1>10, <2>1, <2>3, LastAck, Zenon
  <2>5. \A t \in Sessions' : session'[t].open
    BY <1>2, <2>2, Zenon DEF Sessions
  <2> QED
    BY <1>5, <2>3, <2>4, <2>5, LossAnswer, Zenon
<1> QED
  BY <1>11, <1>12, Zenon

\* The steps of the server and of the network. No packet is ignored, and a
\* session repeats an acknowledgement only when something was lost.
LEMMA LossServerStep ==
  ASSUME Shape, OnlyLoss, LossInv,
         \A p \in net : PutPacket(p), PutServer, PutClient,
         Server \/ \E p \in net : Lose(p)
  PROVE  LossInv'
<1>1. /\ conf.op = "put" /\ conf.late = FALSE /\ conf.fails = FALSE
      /\ lost \in Nat /\ Retries \in Nat /\ Len(session) \in Nat
      /\ conf.sessions \in Nat /\ conf.sessions > Retries
      /\ 0 \notin Sessions
  BY LossTyped, Zenon
<1>2. UNCHANGED client /\ lost' \in {lost, lost + 1}
  BY Zenon DEF Server, ServerRecv, ServerTimeout, ServerFails, Lose
<1>3. /\ pc' = pc /\ blockno' = blockno /\ retry' = retry /\ port' = port
      /\ file' = file
  BY <1>2, Zenon DEF client
<1>4. CASE pc \notin {"wrq", "data"}
  <2>1. lost' \in Nat /\ (pc' = "error" => lost' > Retries)
    BY <1>1, <1>2, <1>3 DEF LossInv
  <2> QED
    BY <1>3, <1>4, <2>1, LossEnded, Zenon
<1>5. CASE pc \in {"wrq", "data"}
  <2>1. /\ OnePacket /\ retry \in 0..Retries /\ retry <= lost
        /\ \A s \in Sessions : session[s].open
        /\ net = {} => retry < lost
        /\ pc = "wrq" => Len(session) <= retry + 1
    BY <1>5, Zenon DEF LossInv
  <2>2. ASSUME NEW p \in net, ServerRecv(p)
        PROVE  LossInv'
    <3>1. lost' = lost /\ (Open(p) \/ Served(p) \/ Ignored(p))
      BY <2>2, Zenon DEF ServerRecv
    <3>2. ~Ignored(p)
      <4>1. p.to # Client => p.op \in {"WRQ", "DATA"}
        BY <2>1, Zenon DEF OnePacket
      <4>2. p.to # Client /\ p.to = WellKnown => Len(session) < conf.sessions
        BY <1>1, <2>1 DEF OnePacket, PutPacket, WellKnown
      <4>3. p.to \in Sessions => p.op # "WRQ"
        BY <1>1, <2>1, LossTyped, Zenon DEF OnePacket, WellKnown
      <4> QED
        BY <1>1, <2>1, <4>1, <4>2, <4>3 DEF Ignored
    <3> QED
      BY <1>2, <1>5, <3>1, <3>2, LossOpen, LossServed, Zenon
  <2>3. ASSUME NEW s \in Sessions, ServerTimeout(s)
        PROVE  LossInv'
    <3>1. net = {} /\ retry < lost
      BY <1>1, <2>1, <2>3, Zenon DEF ServerTimeout, NothingComes
    <3>2. PICK r : net' = {r} /\ r = LastSent(s, session[s].blocks)
      BY <2>3, <3>1, Zenon DEF ServerTimeout
    <3>3. r.to = Client /\ r.op = "ACK"
      BY <1>1, <3>2, LastAck
    <3>4. session' = session /\ lost' = lost
      BY <2>3, Zenon DEF ServerTimeout
    <3>5. \A t \in Sessions' : session'[t].open
      BY <2>1, <3>4, Zenon DEF Sessions
    <3> QED
      BY <1>2, <1>5, <2>1, <3>1, <3>2, <3>3, <3>4, <3>5, LossAnswer, Zenon
  <2>4. ASSUME NEW p \in net, Lose(p)
        PROVE  LossInv'
    <3>1. net' = {} /\ session' = session /\ lost' = lost + 1
      BY <2>1, <2>4, Zenon DEF Lose, OnePacket
    <3>2. retry' <= lost' /\ retry' < lost' /\ lost' \in Nat
      BY <1>1, <1>3, <2>1, <3>1
    <3>3. OnePacket'
      BY <3>1, Zenon DEF OnePacket
    <3> QED
      BY <1>3, <1>5, <3>1, <3>2, <3>3, Zenon DEF LossInv, Sessions
  <2>5. ASSUME NEW s \in Sessions
        PROVE  ~ServerFails(s)
    BY <1>1, Zenon DEF ServerFails
  <2> QED
    BY <2>2, <2>3, <2>4, <2>5, Zenon DEF Server
<1> QED
  BY <1>4, <1>5, Zenon

-----------------------------------------------------------------------------
(* The theorems. *)

IInv == Shape /\ GetInv /\ PutInv /\ ToleranceInv

\* Every state of a transfer satisfies IInv: the request that was sent does,
\* and every step of the client, of the server and of the network keeps it.
THEOREM Invariance == Spec => []IInv
<1>1. Init => IInv
  <2> SUFFICES ASSUME Init
               PROVE  IInv
    BY Zenon
  <2>1. /\ conf \in Setup /\ session = <<>> /\ file = <<>>
        /\ net \subseteq {Request} /\ (net = {} => conf.fails /\ pc = "error")
        /\ net # {} => net = {Request} /\ pc = IF conf.op = "get" THEN "get" ELSE "wrq"
    BY SendtoParts, Zenon DEF Init
  <2>2. /\ conf.op \in {"get", "put"} /\ conf.size \in Nat \ {0}
        /\ conf.sessions \in 0..MaxSessions /\ MaxSessions \in Nat
    BY <2>1, SetupTyped, Zenon
  <2>3. Shape
    <3>1. <<>> \in Seq(Session) /\ Len(session) = 0 /\ <<>> \in Seq(Nat)
      BY <2>1
    <3> QED
      BY <2>1, <2>2, <3>1, RequestData DEF Shape
  <2>4. Sessions = {} /\ Len(file) = 0
    BY <2>1 DEF Sessions
  <2>5. /\ Request.to # Client
        /\ conf.op = "get" => Request.op = "RRQ"
        /\ conf.op = "put" => Request.op = "WRQ"
    BY <2>2, RequestData DEF Client, WellKnown
  <2>6. GetInv
    <3>1. file = Blocks(Len(file))
      BY <2>1, <2>4, BlocksGrow, Zenon
    <3>2. conf.op = "get" => GetClient
      BY <2>2, <2>4, <3>1 DEF GetClient, Init
    <3> QED
      BY <2>1, <2>4, <2>5, <3>2, Zenon DEF GetInv, GetPacket, GetServer
  <2>7. PutInv
    <3>1. conf.op = "put" => PutClient
      BY <2>1, <2>4, <2>5, Zenon DEF PutClient, Init
    <3> QED
      BY <2>1, <2>4, <2>5, <3>1, Zenon DEF PutInv, PutPacket, PutServer
  <2>8. ToleranceInv
    <3> SUFFICES ASSUME OnlyLoss
                 PROVE  LossInv
      BY Zenon DEF ToleranceInv
    <3>1. /\ pc = "wrq" /\ retry = 0 /\ lost = 0 /\ port = 0
          /\ Len(session) = 0 /\ net = {Request}
      BY <2>1, Zenon DEF OnlyLoss, Init
    <3>2. Request.op = "WRQ" /\ Request.to = WellKnown
      BY <2>5, RequestData, Zenon DEF OnlyLoss
    <3>3. OnePacket /\ ~\E p \in net : Stale(p)
      BY <2>1, <2>5, <3>1, <3>2 DEF OnePacket, Stale
    <3> QED
      BY <2>1, <2>4, <3>1, <3>3, TftpAssumption DEF LossInv
  <2> QED
    BY <2>3, <2>6, <2>7, <2>8, Zenon DEF IInv
<1>2. IInv /\ [Next]_vars => IInv'
  <2> SUFFICES ASSUME IInv, [Next]_vars
               PROVE  IInv'
    BY Zenon
  <2>1. CASE (\E p \in net : GetRecv(p)) \/ GetTimeout
    <3>1. conf' = conf /\ pc = "get"
      BY <2>1, Zenon DEF GetRecv, GetTimeout
    <3>2. ~(conf.op = "put" /\ Numbered)
      BY <3>1, Zenon DEF IInv, PutInv, PutClient
    <3>3. Shape'
      BY <2>1, GetShape, Zenon DEF IInv
    <3>4. GetInv'
      BY <2>1, <3>1, GetClientStep, Zenon DEF IInv, GetInv, Numbered
    <3> QED
      BY <3>1, <3>2, <3>3, <3>4, Zenon
      DEF IInv, PutInv, Numbered, ToleranceInv, OnlyLoss
  <2>2. CASE (\E p \in net : PutRecv(p)) \/ PutTimeout
    <3>1. conf' = conf /\ pc \in {"wrq", "data"}
      BY <2>2, Zenon DEF PutRecv, PutTimeout
    <3>2. ~(conf.op = "get" /\ Numbered)
      BY <3>1, Zenon DEF IInv, GetInv, GetClient
    <3>3. Shape'
      BY <2>2, PutShape, Zenon DEF IInv
    <3>4. PutInv'
      BY <2>2, <3>1, PutClientStep, Zenon DEF IInv, PutInv, Numbered
    <3>5. ToleranceInv'
      BY <2>2, <3>1, LossClientStep, Zenon
         DEF IInv, PutInv, ToleranceInv, OnlyLoss, Numbered
    <3> QED
      BY <3>1, <3>2, <3>3, <3>4, <3>5, Zenon DEF IInv, GetInv, Numbered
  <2>3. CASE Server \/ \E p \in net : Lose(p)
    <3>1. conf' = conf
      BY <2>3, Zenon DEF Server, ServerRecv, ServerTimeout, ServerFails, Lose
    <3>2. Shape'
      BY <2>3, ServerShape, Zenon DEF IInv
    <3>3. GetInv'
      BY <2>3, <3>1, GetServerStep, Zenon DEF IInv, GetInv, Numbered
    <3>4. PutInv'
      BY <2>3, <3>1, PutServerStep, Zenon DEF IInv, PutInv, Numbered
    <3>5. ToleranceInv'
      BY <2>3, <3>1, LossServerStep, Zenon
         DEF IInv, PutInv, ToleranceInv, OnlyLoss, Numbered
    <3> QED
      BY <3>2, <3>3, <3>4, <3>5, Zenon DEF IInv
  <2>4. CASE UNCHANGED vars
    <3>1. Shape' /\ GetInv'
      BY <2>4, Zenon DEF IInv, Shape, GetInv, GetPacket, GetClient, GetServer,
           Numbered, Sessions, Client, vars, client
    <3>2. PutInv'
      BY <2>4, Zenon DEF IInv, PutInv, PutPacket, PutClient, PutServer, Has,
           Numbered, Sessions, Client, vars, client
    <3>3. ToleranceInv'
      BY <2>4, Zenon
      DEF IInv, ToleranceInv, OnlyLoss, LossInv, OnePacket, Stale,
           Numbered, Sessions, Client, WellKnown, vars, client
    <3> QED
      BY <3>1, <3>2, <3>3, Zenon DEF IInv
  <2> QED
    BY <2>1, <2>2, <2>3, <2>4, Zenon DEF Next, Receive, Timeout
<1> QED
  BY <1>1, <1>2, PTL DEF Spec

\* tftpget_cb writes the blocks of the file, each once and in order, and
\* returns success with the whole file only: for files of any size below the
\* number of block numbers, any number of sessions, and a network that loses,
\* delays, repeats and reorders as it likes.
THEOREM GetCorrect == Spec => []GetsFile
<1>1. IInv => GetsFile
  BY Zenon DEF IInv, GetInv, GetClient, GetsFile
<1> QED
  BY <1>1, Invariance, PTL

\* tftpput_cb returns success only when the session it sends to has the whole
\* file, under the same conditions.
THEOREM PutCorrect == Spec => []PutsFile
<1>1. IInv => PutsFile
  <2> SUFFICES ASSUME IInv, conf.op = "put", Numbered
               PROVE  PutsFile
    BY Zenon DEF PutsFile
  <2>1. PutServer /\ PutClient /\ Shape
    BY Zenon DEF IInv, PutInv
  <2>2. \A s \in Sessions : session[s].blocks = Blocks(Len(session[s].blocks))
    BY <2>1, Zenon DEF PutServer, Has
  <2>3. port \in Sessions =>
          Len(session[port].blocks) \in {Len(file), Len(file) + 1}
    BY <2>1, Zenon DEF PutServer, Has
  <2>4. ASSUME pc = "ok"
        PROVE  session[port].blocks = Blocks(conf.size)
    <3>1. port \in Sessions /\ Len(file) = conf.size
      BY <2>1, <2>4, Zenon DEF PutClient
    <3>2. Has(port) \in {Len(file), Len(file) + 1} /\ Has(port) <= conf.size
      BY <2>1, <3>1, Zenon DEF PutServer
    <3>3. Has(port) = conf.size
      BY <2>1, <3>1, <3>2, PutTyped
    <3> QED
      BY <2>2, <3>1, <3>3, Zenon DEF Has
  <2> QED
    BY <2>2, <2>3, <2>4, Zenon DEF PutsFile
<1> QED
  BY <1>1, Invariance, PTL

\* As long as no more than Retries packets are lost, and nothing else goes
\* wrong, tftpput_cb does not give up: a retry is only spent on a loss.
THEOREM PutTolerant == Spec => []PutToleratesLoss
<1>1. IInv => PutToleratesLoss
  <2> SUFFICES ASSUME IInv, OnlyLoss, lost <= Retries
               PROVE  pc # "error"
    BY Zenon DEF PutToleratesLoss
  <2> QED
    BY TftpAssumption DEF IInv, ToleranceInv, LossInv
<1> QED
  BY <1>1, Invariance, PTL
=============================================================================
