---------------------------- MODULE Reservations ----------------------------
(* What a DHCP server promises about its addresses, without messages,        *)
(* offers or lease times: an address is reserved for one client until a      *)
(* point in time, a client has one address at most, and a reservation that   *)
(* has not run out is changed only when its own client is served.            *)
EXTENDS Naturals

CONSTANTS Place, Client, Nobody

VARIABLES res,    \* who has each place, and until when
          clock,
          client  \* who is being served

vars == <<res, clock, client>>

Vacant == [who |-> Nobody, until |-> 0]

Init ==
  /\ res = [p \in Place |-> Vacant]
  /\ clock = 0
  /\ client = Nobody

\* Client c gets, renews, gives up or loses place p: one that is its own, or
\* whose reservation has run out.
Change(c, p) ==
  /\ res[p].who = c \/ res[p].until <= clock
  /\ \A q \in Place \ {p} : res'[q] = res[q]
  /\ res'[p].who \in {c, Nobody}
  /\ res'[p].who = c => /\ res'[p].until >= clock
                        /\ \A q \in Place \ {p} : res[q].who # c

Serve(c) ==
  /\ client' = c
  /\ res' = res \/ \E p \in Place : Change(c, p)
  /\ UNCHANGED clock

Tick ==
  /\ clock' = clock + 1
  /\ UNCHANGED <<res, client>>

\* The server starts again, without its table.
Restart ==
  /\ res' = [p \in Place |-> Vacant]
  /\ client' = Nobody
  /\ UNCHANGED clock

Next == Tick \/ Restart \/ \E c \in Client : Serve(c)

Spec == Init /\ [][Next]_vars
=============================================================================
