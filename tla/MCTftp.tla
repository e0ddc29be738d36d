------------------------------- MODULE MCTftp -------------------------------
(* Instances of Tftp for TLC. *)
EXTENDS Tftp

\* Transfers of one and of two blocks over a network that delays and
\* duplicates, with files and servers that fail.
Late ==
  [op : {"get", "put"}, size : 1..2, late : {TRUE}, fails : {TRUE},
   losses : {0}, sessions : {2}]

\* Transfers of three blocks over a network that only loses packets, one more
\* than TFTP_RETRIES; every request that is sent may open a session.
Lossy ==
  [op : {"get", "put"}, size : {3}, late : {FALSE}, fails : {FALSE},
   losses : {4}, sessions : {4}]

\* Transfers whose block numbers wrap around.
Long ==
  [op : {"get", "put"}, size : {6}, late : {FALSE}, fails : {FALSE},
   losses : {1}, sessions : {4}]

Transfers == Late \cup Lossy \cup Long
=============================================================================
