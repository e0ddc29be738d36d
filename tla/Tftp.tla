-------------------------------- MODULE Tftp --------------------------------
(* One transfer of the TFTP client, netutils/tftpc: tftpget_cb or tftpput_cb *)
(* and a server of RFC 1350, over a network that may lose, delay, duplicate  *)
(* and reorder packets. A block of data is its place in the file; the last   *)
(* block is the short one.                                                   *)
EXTENDS Naturals, Sequences, FiniteSets

CONSTANTS Setup,       \* the transfers, see SetupType
          Retries,     \* TFTP_RETRIES
          Wrap,        \* the number of block numbers, 2^16 in the code
          MaxSessions  \* bounds the sessions of every transfer

SetupType ==
  [op    : {"get", "put"},
   size  : Nat \ {0},   \* the blocks of the file
   late  : BOOLEAN,     \* packets may be delayed and duplicated
   fails : BOOLEAN,     \* the file, sendto and the server may fail
   losses : Nat,        \* bounds the packets that are lost
   sessions : 0..MaxSessions]  \* bounds the sessions that the server opens

ASSUME TftpAssumption ==
  /\ Setup \subseteq SetupType
  /\ Retries \in Nat \ {0} /\ Wrap \in Nat \ {0, 1} /\ MaxSessions \in Nat

VARIABLES conf,    \* the transfer
          pc,      \* where the client waits, or how it ended
          blockno, \* the block number the client is at
          retry,   \* its retry counter
          tries,   \* tftp_rcvack's own retry counter
          port,    \* the server's port it knows, 0 if none
          file,    \* the blocks the client has: written, or still to be sent
          session, \* the server's sessions
          net,     \* the packets in transit
          lost     \* how many packets were lost

client == <<pc, blockno, retry, tries, port, file>>
vars == <<conf, client, session, net, lost>>

Client    == MaxSessions + 1
WellKnown == 0       \* the port that requests are sent to

Packet(from, to, op, block, data) ==
  [from |-> from, to |-> to, op |-> op, block |-> block % Wrap, data |-> data]

FromClient(to, op, block, data) == Packet(Client, to, op, block, data)

Short(data) == data = conf.size

Blocks(k) == [i \in 1..k |-> i]

Request == FromClient(WellKnown, IF conf.op = "get" THEN "RRQ" ELSE "WRQ", 0, 0)

\* tftp_sendto: what comes onto the network, nothing when sendto fails.
tftp_sendto(p) == IF conf.fails THEN {{p}, {}} ELSE {{p}}

\* The client has sent its first request, or has failed to.
Init ==
  /\ conf \in Setup
  /\ net \in tftp_sendto(Request)
  /\ pc = IF net = {} THEN "error" ELSE IF conf.op = "get" THEN "get" ELSE "wrq"
  /\ blockno = 1 /\ retry = 0 /\ tries = 0 /\ port = 0
  /\ file = <<>>
  /\ session = <<>>
  /\ lost = 0

\* A packet that is received may stay in transit: it was duplicated.
Taken(p) == IF conf.late THEN {net, net \ {p}} ELSE {net \ {p}}

\* recvfrom times out: when nothing is on its way, or what is comes late.
NothingComes == conf.late \/ net = {}

End(result) ==
  /\ pc' = result
  /\ UNCHANGED <<blockno, retry, tries, port, file>>

-----------------------------------------------------------------------------
(* tftpget_cb *)

\* tftpget_cb returns, or waits for block b with n retries made.
GetEnds(result, rest) ==
  /\ pc' = result /\ net' = rest
  /\ UNCHANGED <<blockno, retry, port>>

GetWaits(b, n, p, rest) ==
  /\ blockno' = b /\ retry' = n /\ port' = p /\ net' = rest
  /\ UNCHANGED pc

\* The next turn of the loop for block b, with n retries made.
GetTurn(b, n, p, rest) ==
  \/ n = Retries /\ GetEnds("error", rest)
  \/ n # Retries /\ b # 1 /\ GetWaits(b, n, p, rest)
  \/ /\ n # Retries /\ b = 1
     /\ \E sent \in tftp_sendto(Request) :
          \/ sent = {} /\ GetEnds("error", rest)
          \/ sent # {} /\ GetWaits(b, n, 0, rest \cup sent)

\* The block has been written: it is acknowledged, and the next one is waited
\* for unless it was the last.
Written(p, rest) ==
  \E sent \in tftp_sendto(FromClient(p.from, "ACK", blockno, 0)) :
    \/ sent = {} /\ GetEnds("error", rest)
    \/ sent # {} /\ Short(p.data) /\ GetEnds("ok", rest \cup sent)
    \/ /\ sent # {} /\ ~Short(p.data)
       /\ GetTurn((blockno + 1) % Wrap, 0, p.from, rest \cup sent)

\* Mutant: the block number of the DATA packet is not compared.
GetData_any(p, rest) ==
  /\ p.op = "DATA"
  /\ port \in {0, p.from}
  /\ file' = Append(file, p.data)
  /\ Written(p, rest)

GetData(p, rest) ==
  /\ p.op = "DATA" /\ p.block = blockno
  /\ port \in {0, p.from}
  /\ file' = Append(file, p.data)
  /\ Written(p, rest)

GetWriteFails(p, rest) ==
  /\ conf.fails
  /\ p.op = "DATA" /\ p.block = blockno
  /\ port \in {0, p.from}
  /\ End("error")
  /\ net' = rest

\* A packet of another session is refused, and does not count as a try.
GetOtherPort(p, rest) ==
  /\ port \notin {0, p.from}
  /\ \E sent \in tftp_sendto(FromClient(p.from, "ERR", 0, 0)) :
       GetTurn(blockno, retry, port, rest \cup sent)
  /\ UNCHANGED file

GetUnexpected(p, rest) ==
  /\ port \in {0, p.from}
  /\ ~(p.op = "DATA" /\ p.block = blockno)
  /\ GetTurn(blockno, retry + 1, port, rest)
  /\ UNCHANGED file

GetRecv(p) ==
  /\ pc = "get" /\ p.to = Client
  /\ \E rest \in Taken(p) :
       \/ GetData(p, rest) \/ GetWriteFails(p, rest)
       \/ GetOtherPort(p, rest) \/ GetUnexpected(p, rest)
  /\ UNCHANGED <<conf, tries, session, lost>>

\* Mutant: a timeout is not counted.
GetTimeout_uncounted ==
  /\ pc = "get" /\ NothingComes
  /\ GetTurn(blockno, retry, port, net)
  /\ UNCHANGED <<conf, tries, file, session, lost>>

GetTimeout ==
  /\ pc = "get" /\ NothingComes
  /\ GetTurn(blockno, retry + 1, port, net)
  /\ UNCHANGED <<conf, tries, file, session, lost>>

-----------------------------------------------------------------------------
(* tftpput_cb. It reads block Len(file) + 1 of its file until it is          *)
(* acknowledged.                                                             *)

\* A block is read from the file and sent; either may fail.
SendData(p, b, data, rest) ==
  \/ /\ pc' = "data"
     /\ net' = rest \cup {FromClient(p, "DATA", b, data)}
  \/ /\ conf.fails
     /\ pc' = "error" /\ net' = rest

ResendRequest(p, rest) ==
  \E sent \in tftp_sendto([Request EXCEPT !.to = p]) :
    /\ net' = rest \cup sent
    /\ pc' = IF sent = {} THEN "error" ELSE pc

\* Mutant: one retry less.
Resend_less(p, rest) ==
  /\ port' = p
  /\ tries' = 0
  /\ UNCHANGED <<blockno, file>>
  /\ IF retry + 1 >= Retries
       THEN pc' = "error" /\ net' = rest /\ UNCHANGED retry
       ELSE /\ retry' = retry + 1
            /\ \/ pc = "wrq" /\ ResendRequest(p, rest)
               \/ /\ pc = "data"
                  /\ SendData(p, blockno, Len(file) + 1, rest)

\* The request or the block is sent again, unless it was sent too often.
Resend(p, rest) ==
  /\ port' = p
  /\ tries' = 0
  /\ UNCHANGED <<blockno, file>>
  /\ IF retry + 1 > Retries
       THEN pc' = "error" /\ net' = rest /\ UNCHANGED retry
       ELSE /\ retry' = retry + 1
            /\ \/ pc = "wrq" /\ ResendRequest(p, rest)
               \/ /\ pc = "data"
                  /\ SendData(p, blockno, Len(file) + 1, rest)

\* tftp_rcvack received nothing, or something else: it tries again or gives up.
NoAck(p, rest) ==
  IF tries + 1 < Retries
    THEN /\ tries' = tries + 1 /\ port' = p /\ net' = rest
         /\ UNCHANGED <<pc, blockno, retry, file>>
    ELSE Resend(p, rest)

\* The request is acknowledged, by any block number: tftp_rcvack stores it
\* through a null pointer, and the task may fault.
RequestAcked(p, rest) ==
  \/ /\ SendData(p, 1, 1, rest)
     /\ blockno' = 1 /\ retry' = 0 /\ tries' = 0 /\ port' = p
     /\ UNCHANGED file
  \/ End("fault") /\ net' = rest

DataAcked(p, rest) ==
  LET sent == Len(file) + 1
      next == (blockno + 1) % Wrap
  IN  /\ file' = Append(file, sent)
      /\ tries' = 0 /\ port' = p
      /\ IF Short(sent)
           THEN pc' = "ok" /\ net' = rest /\ UNCHANGED <<blockno, retry>>
           ELSE /\ blockno' = next /\ retry' = 0
                /\ SendData(p, next, sent + 1, rest)

\* Mutant: any acknowledgement is taken for the one of the block sent.
PutRecv_any(p) ==
  LET known == IF port = 0 THEN p.from ELSE port
  IN  /\ pc \in {"wrq", "data"} /\ p.to = Client
      /\ \E rest \in Taken(p) :
           \/ p.op # "ACK" /\ NoAck(known, rest)
           \/ p.op = "ACK" /\ pc = "wrq" /\ RequestAcked(known, rest)
           \/ p.op = "ACK" /\ pc = "data" /\ DataAcked(known, rest)
      /\ UNCHANGED <<conf, session, lost>>

\* The first packet that comes tells the port; later ones are not checked.
PutRecv(p) ==
  LET known == IF port = 0 THEN p.from ELSE port
  IN  /\ pc \in {"wrq", "data"} /\ p.to = Client
      /\ \E rest \in Taken(p) :
           \/ p.op # "ACK" /\ NoAck(known, rest)
           \/ p.op = "ACK" /\ pc = "wrq" /\ RequestAcked(known, rest)
           \/ p.op = "ACK" /\ pc = "data" /\ p.block = blockno
              /\ DataAcked(known, rest)
           \/ p.op = "ACK" /\ pc = "data" /\ p.block # blockno
              /\ Resend(known, rest)
      /\ UNCHANGED <<conf, session, lost>>

PutTimeout ==
  /\ pc \in {"wrq", "data"} /\ NothingComes
  /\ NoAck(port, net)
  /\ UNCHANGED <<conf, session, lost>>

-----------------------------------------------------------------------------
(* The server, which is no part of the repository. It opens a session, with  *)
(* a port of its own, for every request; a session has the blocks it was     *)
(* sent, or has sent.                                                        *)

Sessions == 1..Len(session)

Reply(s, op, block, data) == Packet(s, Client, op, block, data)

\* What a session with the blocks k sends last, and when it times out.
LastSent(s, blocks) ==
  IF conf.op = "get" THEN Reply(s, "DATA", Len(blocks), Len(blocks))
                     ELSE Reply(s, "ACK", Len(blocks), 0)

Open(p) ==
  /\ p.op \in {"RRQ", "WRQ"} /\ p.to = WellKnown
  /\ Len(session) < conf.sessions
  /\ LET s     == Len(session) + 1
         first == IF conf.op = "get" THEN Blocks(1) ELSE <<>>
     IN  /\ session' = Append(session, [open |-> TRUE, blocks |-> first])
         /\ \E rest \in Taken(p) : net' = rest \cup {LastSent(s, first)}

\* The block, or the acknowledgement, that a session waits for; for an earlier
\* block it repeats its acknowledgement.
Served(p) ==
  /\ p.to \in Sessions /\ session[p.to].open
  /\ LET s    == p.to
         had  == session[s].blocks
         next == Append(had, IF conf.op = "get" THEN Len(had) + 1 ELSE p.data)
     IN  \E rest \in Taken(p) :
           \/ /\ p.op = "ACK" /\ p.block = Len(had) % Wrap
              /\ IF Short(Len(had))
                   THEN /\ session' = [session EXCEPT ![s].open = FALSE]
                        /\ net' = rest
                   ELSE /\ session' = [session EXCEPT ![s].blocks = next]
                        /\ net' = rest \cup {LastSent(s, next)}
           \/ /\ p.op = "DATA" /\ p.block = (Len(had) + 1) % Wrap
              /\ session' = [session EXCEPT ![s].blocks = next]
              /\ net' = rest \cup {LastSent(s, next)}
           \/ /\ p.op = "DATA" /\ p.block # (Len(had) + 1) % Wrap
              /\ net' = rest \cup {LastSent(s, had)}
              /\ UNCHANGED session
           \/ /\ p.op = "ERR"
              /\ session' = [session EXCEPT ![s].open = FALSE]
              /\ net' = rest

\* A packet that no session waits for.
Ignored(p) ==
  /\ p.to # Client
  /\ \/ p.to = WellKnown /\ Len(session) = conf.sessions
     \/ p.to \in Sessions /\ p.op \in {"RRQ", "WRQ"}
     \/ p.to \in Sessions /\ ~session[p.to].open
     \/ p.to \in Sessions /\ p.op = "ACK"
        /\ p.block # Len(session[p.to].blocks) % Wrap
  /\ net' = net \ {p}
  /\ UNCHANGED session

ServerRecv(p) ==
  /\ Open(p) \/ Served(p) \/ Ignored(p)
  /\ UNCHANGED <<conf, client, lost>>

ServerTimeout(s) ==
  /\ session[s].open /\ NothingComes
  /\ net' = net \cup {LastSent(s, session[s].blocks)}
  /\ UNCHANGED <<conf, client, session, lost>>

\* The server gives up a session, and says so.
ServerFails(s) ==
  /\ conf.fails /\ session[s].open
  /\ session' = [session EXCEPT ![s].open = FALSE]
  /\ net' = net \cup {Reply(s, "ERR", 0, 0)}
  /\ UNCHANGED <<conf, client, lost>>

Lose(p) ==
  /\ lost < conf.losses
  /\ net' = net \ {p}
  /\ lost' = lost + 1
  /\ UNCHANGED <<conf, client, session>>

-----------------------------------------------------------------------------
Server ==
  \/ \E p \in net : ServerRecv(p)
  \/ \E s \in Sessions : ServerTimeout(s) \/ ServerFails(s)

Receive == \E p \in net : GetRecv(p) \/ PutRecv(p)

Timeout == GetTimeout \/ PutTimeout

Next == Receive \/ Timeout \/ Server \/ (\E p \in net : Lose(p))

Spec == Init /\ [][Next]_vars

\* recvfrom ends, by a packet or by its timeout, and packets that are neither
\* lost nor late arrive.
LiveSpec ==
  /\ Spec
  /\ WF_vars(Receive) /\ WF_vars(Timeout)
  /\ WF_vars(\E p \in net : ServerRecv(p))

-----------------------------------------------------------------------------
(* Properties. *)

\* Block numbers do not repeat in the transfer.
Numbered == conf.size < Wrap

\* tftpget_cb writes the blocks of the file, each once and in order, whatever
\* is lost, late or repeated and however many sessions its requests opened; it
\* returns success with the whole file only.
GetsFile ==
  conf.op = "get" /\ Numbered =>
    /\ file = Blocks(Len(file))
    /\ pc = "ok" => Len(file) = conf.size

\* tftpput_cb returns success only when the session it sends to has the whole
\* file, and that session is never more than a block ahead of it.
PutsFile ==
  conf.op = "put" /\ Numbered =>
    /\ \A s \in Sessions : session[s].blocks = Blocks(Len(session[s].blocks))
    /\ port \in Sessions =>
         Len(session[port].blocks) \in {Len(file), Len(file) + 1}
    /\ pc = "ok" => session[port].blocks = Blocks(conf.size)

\* A write over a network that only loses packets, to a server that opens a
\* session for every request.
OnlyLoss ==
  /\ conf.op = "put" /\ Numbered
  /\ ~conf.late /\ ~conf.fails
  /\ conf.sessions > Retries

\* "UDP is inherently unreliable and packets may be lost normally": as long as
\* no more than Retries packets are lost, and nothing else goes wrong,
\* tftpput_cb does not give up.
PutToleratesLoss == OnlyLoss /\ lost <= Retries => pc # "error"

\* tftpget_cb and tftpput_cb return (or the task faults), whatever is lost.
TransferEnds == <>(pc \in {"ok", "error", "fault"})
=============================================================================
