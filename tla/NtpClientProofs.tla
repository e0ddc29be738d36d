--------------------------- MODULE NtpClientProofs ---------------------------
(* Proofs about the NTP client: the callers exclude each other, one daemon   *)
(* polls at a time, and none does when ntpc_stop returns.                    *)
EXTENDS NtpClient, TLAPS

NeverStopped == "stop" \notin use.Calls

StopPlaces == {"stop_lock", "stop_check", "stop_set", "stop_kill", "stop_wait",
               "stop_test", "stop_unlock"}

\* A daemon that may still write the state: it polls, or it is about to end.
Live == Active \cup {"end"}

\* The samples of a round are among its queries.
SamplesCounted == \A d \in Daemon : round[d].nsamples <= round[d].i

\* Without an answer no daemon has a sample, and so none waits for the lock.
NothingToSave ==
  Unanswered => \A d \in Daemon : round[d].nsamples = 0 /\ dpc[d] # "lock"

\* Without ntpc_stop there are no signals.
NoSignals ==
  NeverStopped => woken = {} /\ \A c \in Caller : cpc[c] \notin StopPlaces

\* The daemon that may write the state is the one whose task ID is recorded.
\* Until it has announced itself its starter waits, with the lock; after that
\* it runs, or a task that stops it waits, with the lock.
DaemonRecorded ==
  \A d \in Daemon :
    /\ dpc[d] \in Live => pid = d
    /\ dpc[d] \in {"init", "announce"} =>
         /\ state = "STARTED"
         /\ \E c \in Caller : cpc[c] \in {"start_wait", "start_test"}
    /\ dpc[d] \in Live \ {"init", "announce"} =>
         \/ state = "RUNNING"
         \/ /\ state = "STOP_REQUESTED"
            /\ \E c \in Caller : cpc[c] \in {"stop_kill", "stop_wait",
                                             "stop_test"}

\* What a caller that has the lock knows of the state and of the daemons.
CallerKnows ==
  \A c \in Caller :
    /\ cpc[c] = "start_set" => state \in {"NOT_RUNNING", "STOPPED"}
    /\ cpc[c] = "start_create" => state = "STARTED"
    /\ cpc[c] \in {"start_create", "start_fail", "stop_unlock"} =>
         \A d \in Daemon : dpc[d] \notin Live
    /\ cpc[c] \in {"stop_kill", "stop_wait", "stop_test"} =>
         state \in {"STOP_REQUESTED", "STOPPED"}

\* Only the tasks that use the client call it.
UsersCall == \A c \in Caller : cpc[c] # "idle" => c \in use.callers

\* What is known of the daemons as long as the lock is not disturbed, or there
\* is only one task to be excluded.
OInv == Undisturbed \/ Alone => DaemonRecorded /\ CallerKnows

\* A client that is running has a daemon, as long as the lock is not disturbed or
\* has a single user; one that is started has the task that starts it.
StartedHasDaemon ==
  /\ Undisturbed \/ Alone =>
       (state = "RUNNING" => \E d \in Daemon : dpc[d] \in Live)
  /\ state = "STARTED" =>
       \E c \in Caller : cpc[c] \in {"start_create", "start_fail", "start_wait",
                                     "start_test"}

IInv ==
  /\ use \in Uses /\ TypeOK /\ SamplesCounted
  /\ NothingToSave /\ NoSignals
  /\ UsersCall /\ LockExcludes /\ OInv
  /\ StartedHasDaemon /\ StatusOfOneRound

-----------------------------------------------------------------------------
(* What a step of a daemon does to its place and its round. *)

\* The local variables of a daemon in the configuration u.
Rounds(u) == [i : 0..u.NumSamples - 1, nsamples : 0..u.NumSamples,
              eintr : BOOLEAN, retries : 0..Retries]

\* Daemon d goes to p with the local variables x.
Moves(d, p, x) ==
  /\ DGoto(d, p)
  /\ round' = [round EXCEPT ![d] = x]

\* A configuration is one of UseType.
LEMMA UseTyped ==
  ASSUME use \in Uses
  PROVE  use \in UseType /\ use.NumSamples \in Nat \ {0}
BY NtpAssumption, Zenon DEF UseType

\* A round begins without queries and without samples (Fresh).
LEMMA FreshRound ==
  ASSUME NEW u \in UseType, NEW r \in 0..Retries
  PROVE  /\ Fresh(r) \in Rounds(u)
         /\ Fresh(r).i = 0 /\ Fresh(r).nsamples = 0 /\ Fresh(r).retries = r
<1>1. 0 \in 0..u.NumSamples - 1 /\ 0 \in 0..u.NumSamples
  BY DEF UseType
<1>2. FALSE \in BOOLEAN
  BY Zenon
<1> QED
  BY <1>1, <1>2, Zenon DEF Fresh, Rounds

\* Leaving the loop (Leave) ends the round.
LEMMA LeaveMoves ==
  ASSUME use \in UseType, NEW d \in Daemon, Leave(d)
  PROVE  \E x \in Rounds(use) : x.i = 0 /\ x.nsamples = 0 /\ Moves(d, "end", x)
<1>1. 0 \in 0..Retries
  BY NtpAssumption
<1> QED
  BY <1>1, FreshRound, Zenon DEF Leave, Moves

\* The loop condition (Enter) leads to a query or out of the loop.
LEMMA EnterMoves ==
  ASSUME use \in UseType, NEW d \in Daemon, NEW r \in 0..Retries, Enter(d, r)
  PROVE  \E x \in Rounds(use), p \in {"query", "end"} :
           x.i = 0 /\ x.nsamples = 0 /\ Moves(d, p, x)
BY LeaveMoves, FreshRound, Zenon DEF Enter, Moves

\* Storing the samples (Saved) changes them, and is followed by a sleep, a
\* query or the end of the loop.
LEMMA SavedMoves ==
  ASSUME use \in UseType, TypeOK, SamplesCounted, NEW d \in Daemon, Saved(d)
  PROVE  /\ last' = 1 - last
         /\ \E x \in Rounds(use), p \in {"query", "end", "sleep_poll"} :
              x.nsamples <= x.i /\ Moves(d, p, x)
<1>1. round[d] \in Rounds(use) /\ round[d].nsamples <= round[d].i
  BY Zenon DEF TypeOK, Rounds, SamplesCounted
<1>2. round[d].retries \in 0..Retries
  BY <1>1, Zenon DEF Rounds
<1>3. CASE Leave(d)
  BY <1>3, LeaveMoves DEF Saved, Rounds
<1>4. CASE Enter(d, round[d].retries)
  BY <1>4, <1>2, EnterMoves DEF Saved, Rounds
<1>5. CASE DGoto(d, "sleep_poll") /\ UNCHANGED round
  <2>1. round = [round EXCEPT ![d] = round[d]]
    BY Zenon DEF TypeOK
  <2> QED
    BY <1>5, <1>1, <2>1, Zenon DEF Saved, Moves
<1> QED
  BY <1>3, <1>4, <1>5, Zenon DEF Saved

\* A round without samples (Failed) is followed by a sleep, a query or the end
\* of the loop.
LEMMA FailedMoves ==
  ASSUME use \in UseType, TypeOK, NEW d \in Daemon, NEW e \in BOOLEAN,
         Failed(d, e)
  PROVE  \E x \in Rounds(use), p \in {"query", "end", "sleep_retry"} :
           x.i = 0 /\ x.nsamples = 0 /\ Moves(d, p, x)
<1>1. round[d] \in Rounds(use)
  BY Zenon DEF TypeOK, Rounds
<1>2. round[d].retries \in 0..Retries
  BY <1>1, Zenon DEF Rounds
<1>3. round[d].retries < Retries => round[d].retries + 1 \in 0..Retries
  BY <1>2, NtpAssumption
<1>4. CASE Leave(d)
  BY <1>4, LeaveMoves, Zenon
<1>5. CASE round[d].retries < Retries /\ Enter(d, round[d].retries + 1)
  BY <1>5, <1>3, EnterMoves, Zenon
<1>6. CASE /\ round[d].retries < Retries
           /\ DGoto(d, "sleep_retry")
           /\ round' = [round EXCEPT ![d] = Fresh(round[d].retries + 1)]
  BY <1>6, <1>3, FreshRound, Zenon DEF Moves
<1> QED
  BY <1>4, <1>5, <1>6, Zenon DEF Failed

\* The end of a query (Sampled): the samples are stored only when the lock is
\* free, and a daemon that has had no answer neither stores any nor waits for
\* the lock.
LEMMA SampledMoves ==
  ASSUME use \in UseType, TypeOK, SamplesCounted, NEW d \in Daemon,
         dpc[d] = "query", NEW ok \in BOOLEAN, NEW signal \in BOOLEAN,
         Sampled(d, ok, signal)
  PROVE  /\ last' = last \/ (last' = 1 - last /\ lock > 0)
         /\ \E x \in Rounds(use), p \in Blocking \cup {"end"} :
              /\ x.nsamples <= x.i /\ Moves(d, p, x)
              /\ round[d].nsamples = 0 /\ ~ok =>
                   x.nsamples = 0 /\ p # "lock" /\ last' = last
<1> DEFINE i == round[d].i + 1
           n == round[d].nsamples + (IF ok THEN 1 ELSE 0)
           e == IF ok THEN round[d].eintr ELSE signal
<1>1. round[d] \in Rounds(use) /\ round[d].nsamples <= round[d].i
  BY Zenon DEF TypeOK, Rounds, SamplesCounted
<1>2. /\ round[d].retries \in 0..Retries
      /\ round[d].i \in 0..use.NumSamples - 1
      /\ round[d].nsamples \in 0..use.NumSamples
      /\ round[d].eintr \in BOOLEAN
  BY <1>1, Zenon DEF Rounds
<1>3. e \in BOOLEAN
  BY <1>2, Zenon
<1>4. /\ n \in 0..use.NumSamples /\ n <= i
      /\ round[d].nsamples = 0 /\ ~ok => n = 0
  BY <1>1, <1>2 DEF UseType
<1>5. CASE /\ i < use.NumSamples
           /\ round' = [round EXCEPT ![d] = [i |-> i, nsamples |-> n,
                                             eintr |-> e,
                                             retries |-> round[d].retries]]
           /\ UNCHANGED <<dpc, last>>
  <2> DEFINE x == [i |-> i, nsamples |-> n, eintr |-> e,
                   retries |-> round[d].retries]
  <2>1. i \in 0..use.NumSamples - 1
    BY <1>5, <1>2 DEF UseType
  <2>2. x \in Rounds(use) /\ x.nsamples = n /\ x.i = i
    BY <2>1, <1>2, <1>3, <1>4, Zenon DEF Rounds
  <2>3. Moves(d, "query", x)
    BY <1>5, Zenon DEF Moves, DGoto, TypeOK
  <2>4. x.nsamples <= x.i /\ (round[d].nsamples = 0 /\ ~ok => x.nsamples = 0)
    BY <2>2, <1>4, Zenon
  <2>5. last' = last
    BY <1>5, Zenon
  <2> HIDE DEF x
  <2>6. /\ x.nsamples <= x.i /\ Moves(d, "query", x)
        /\ round[d].nsamples = 0 /\ ~ok =>
             x.nsamples = 0 /\ "query" # "lock" /\ last' = last
    BY <2>3, <2>4, <2>5, Zenon
  <2> QED
    BY <2>2, <2>5, <2>6, Zenon DEF Blocking
<1>6. CASE n = 0 /\ Failed(d, e) /\ UNCHANGED last
  <2>1. PICK x \in Rounds(use), p \in {"query", "end", "sleep_retry"} :
               x.i = 0 /\ x.nsamples = 0 /\ Moves(d, p, x)
    BY <1>6, <1>3, FailedMoves, Zenon
  <2>2. x.nsamples <= x.i /\ p # "lock" /\ last' = last
    BY <1>6, <2>1
  <2> QED
    BY <2>1, <2>2, Zenon DEF Blocking
<1>7. CASE n > 0 /\ lock > 0 /\ Saved(d)
  <2>1. ~(round[d].nsamples = 0 /\ ~ok)
    BY <1>4, <1>7
  <2> QED
    BY <1>7, <2>1, SavedMoves, Zenon DEF Blocking
<1>8. CASE /\ n > 0 /\ DGoto(d, "lock")
           /\ round' = [round EXCEPT ![d] = Fresh(round[d].retries)]
           /\ UNCHANGED last
  <2>1. ~(round[d].nsamples = 0 /\ ~ok)
    BY <1>4, <1>8
  <2>2. /\ Fresh(round[d].retries) \in Rounds(use)
        /\ Fresh(round[d].retries).nsamples <= Fresh(round[d].retries).i
    BY <1>2, FreshRound
  <2>3. Moves(d, "lock", Fresh(round[d].retries))
    BY <1>8, Zenon DEF Moves
  <2> QED
    BY <1>8, <2>1, <2>2, <2>3, Zenon DEF Blocking
<1> QED
  BY <1>5, <1>6, <1>7, <1>8, Zenon DEF Sampled

-----------------------------------------------------------------------------
(* The types, and what holds without a server or without ntpc_stop. *)

BInv ==
  use \in Uses /\ TypeOK /\ SamplesCounted /\ NothingToSave /\ NoSignals

DaemonPlaces == Active \cup {"none", "end", "end_post", "end_free"}

\* A move changes the place and the round of one daemon, and keeps them typed.
LEMMA MovesTyped ==
  ASSUME TypeOK, SamplesCounted, use' = use, NEW d \in Daemon,
         NEW p \in DaemonPlaces, NEW x \in Rounds(use), x.nsamples <= x.i,
         Moves(d, p, x)
  PROVE  /\ dpc' \in [Daemon -> DaemonPlaces]
         /\ round' \in [Daemon -> Rounds(use')]
         /\ SamplesCounted'
         /\ dpc'[d] = p /\ round'[d] = x
         /\ \A e \in Daemon : e # d => dpc'[e] = dpc[e] /\ round'[e] = round[e]
<1>1. dpc \in [Daemon -> DaemonPlaces] /\ round \in [Daemon -> Rounds(use)]
  BY Zenon DEF TypeOK, DaemonPlaces, Rounds
<1>2. \A e \in Daemon : round[e].nsamples <= round[e].i
  BY Zenon DEF SamplesCounted
<1>3. /\ dpc' = [dpc EXCEPT ![d] = p]
      /\ round' = [round EXCEPT ![d] = x]
  BY Zenon DEF Moves, DGoto
<1> HIDE DEF Rounds
<1>4. /\ dpc' \in [Daemon -> DaemonPlaces]
      /\ round' \in [Daemon -> Rounds(use')]
      /\ dpc'[d] = p /\ round'[d] = x
      /\ \A e \in Daemon : e # d => dpc'[e] = dpc[e] /\ round'[e] = round[e]
  BY <1>1, <1>3, Zenon
<1>5. SamplesCounted'
  BY <1>2, <1>4, Zenon DEF SamplesCounted
<1> QED
  BY <1>4, <1>5, Zenon

\* A move of a blocked daemon that keeps the callers, and forgets the signal if
\* the daemon does not stay blocked, keeps BInv.
LEMMA MoveBasic ==
  ASSUME BInv, NEW d \in Daemon, NEW p \in Blocking \cup {"end"},
         NEW x \in Rounds(use), x.nsamples <= x.i, Moves(d, p, x),
         Unanswered => x.nsamples = 0 /\ p # "lock",
         woken' = woken \ {d},
         lock' \in Nat, last' \in {0, 1},
         UNCHANGED <<use, state, sync, pid, callers>>
  PROVE  BInv'
<1>1. p \in DaemonPlaces
  BY Zenon DEF DaemonPlaces, Active
<1>2. /\ dpc' \in [Daemon -> DaemonPlaces]
      /\ round' \in [Daemon -> Rounds(use')]
      /\ SamplesCounted'
      /\ dpc'[d] = p /\ round'[d] = x
      /\ \A e \in Daemon : e # d => dpc'[e] = dpc[e] /\ round'[e] = round[e]
  BY <1>1, MovesTyped, Zenon DEF BInv
<1>3. woken' \subseteq {e \in Daemon : dpc'[e] \in Blocking}
  BY <1>2, Zenon DEF BInv, TypeOK
<1>4. TypeOK'
  BY <1>2, <1>3, Zenon DEF BInv, TypeOK, DaemonPlaces, Rounds, callers
<1>5. NothingToSave'
  BY <1>2, Zenon DEF BInv, NothingToSave, Unanswered
<1>6. NoSignals'
  BY Zenon DEF BInv, NoSignals, NeverStopped, callers
<1> QED
  BY <1>2, <1>4, <1>5, <1>6, Zenon DEF BInv

\* A step of a daemon that is not blocked, to a place where it is not, that
\* keeps the rounds and the callers, keeps BInv.
LEMMA PlaceBasic ==
  ASSUME BInv, NEW d \in Daemon, dpc[d] \notin Blocking,
         NEW p \in DaemonPlaces \ Blocking, DGoto(d, p),
         state' \in {state, "RUNNING", "STOPPED"}, sync' \in {sync, sync + 1},
         UNCHANGED <<use, lock, pid, last, callers, round, woken>>
  PROVE  BInv'
<1>1. dpc \in [Daemon -> DaemonPlaces] /\ dpc' = [dpc EXCEPT ![d] = p]
  BY Zenon DEF BInv, TypeOK, DaemonPlaces, DGoto
<1>2. /\ dpc' \in [Daemon -> DaemonPlaces] /\ dpc'[d] = p
      /\ \A e \in Daemon : e # d => dpc'[e] = dpc[e]
  BY <1>1, Zenon
<1>3. woken' \subseteq {e \in Daemon : dpc'[e] \in Blocking}
  BY <1>2, Zenon DEF BInv, TypeOK
<1>4. state' \in {"NOT_RUNNING", "STARTED", "RUNNING", "STOP_REQUESTED",
                  "STOPPED"}
  BY Zenon DEF BInv, TypeOK
<1>5. sync' \in Nat
  BY DEF BInv, TypeOK
<1>6. TypeOK'
  BY <1>2, <1>3, <1>4, <1>5, Zenon DEF BInv, TypeOK, DaemonPlaces, callers
<1>7. SamplesCounted' /\ use' \in Uses
  BY Zenon DEF BInv, SamplesCounted
<1>8. NothingToSave'
  BY <1>2, Zenon DEF BInv, NothingToSave, Unanswered, Blocking
<1>9. NoSignals'
  BY Zenon DEF BInv, NoSignals, NeverStopped, callers
<1> QED
  BY <1>6, <1>7, <1>8, <1>9, Zenon DEF BInv

\* The steps of a daemon keep BInv.
LEMMA DaemonBasic ==
  ASSUME BInv, NEW d \in Daemon, DaemonStep(d) \/ DaemonSave(d)
  PROVE  BInv'
<1>1. use \in UseType
  BY UseTyped, Zenon DEF BInv
<1>2. last' = last \/ last' = 1 - last => last' \in {0, 1}
  BY DEF BInv, TypeOK
<1>3. d \notin woken => woken = woken \ {d}
  BY Zenon
<1>4. lock \in Nat /\ lock + 1 \in Nat
  BY DEF BInv, TypeOK
<1>5. round[d].retries \in 0..Retries /\ 0 \in 0..Retries
  BY NtpAssumption DEF BInv, TypeOK
<1>6. Unanswered => round[d].nsamples = 0 /\ dpc[d] # "lock"
  BY Zenon DEF BInv, NothingToSave
<1>7. dpc[d] \notin Blocking => d \notin woken
  BY Zenon DEF BInv, TypeOK
<1>a. CASE DaemonInit(d)
  BY <1>a, PlaceBasic, Zenon
  DEF DaemonInit, DaemonPlaces, Active, Blocking, shared
<1>b. CASE DaemonAnnounce(d)
  BY <1>b, PlaceBasic, Zenon DEF DaemonAnnounce, DaemonPlaces, Active, Blocking
<1>c. CASE DaemonAnnouncePost(d)
  BY <1>c, PlaceBasic, Zenon
  DEF DaemonAnnouncePost, DaemonPlaces, Active, Blocking
<1>d. CASE DaemonLoop(d)
  <2>1. PICK x \in Rounds(use), p \in {"query", "end"} :
               x.i = 0 /\ x.nsamples = 0 /\ Moves(d, p, x)
    BY <1>d, <1>1, <1>5, EnterMoves, Zenon DEF DaemonLoop
  <2>2. woken' = woken \ {d} /\ lock' = lock /\ last' = last
    BY <1>d, <1>3, <1>7, Zenon DEF DaemonLoop, shared, Blocking
  <2>3. UNCHANGED <<use, state, sync, pid, callers>>
    BY <1>d, Zenon DEF DaemonLoop, shared
  <2> QED
    BY <1>2, <1>4, <2>1, <2>2, <2>3, MoveBasic DEF Blocking
<1>e. CASE DaemonQuery(d)
  <2>1. PICK ok \in use.Answered : Sampled(d, ok, FALSE)
    BY <1>e, Zenon DEF DaemonQuery
  <2>2. ok \in BOOLEAN /\ (Unanswered => ~ok)
    BY <1>1, <2>1, Zenon DEF UseType, Unanswered
  <2>3. dpc[d] = "query"
    BY <1>e, Zenon DEF DaemonQuery
  <2>4. /\ last' = last \/ last' = 1 - last
        /\ \E x \in Rounds(use), p \in Blocking \cup {"end"} :
              /\ x.nsamples <= x.i /\ Moves(d, p, x)
              /\ round[d].nsamples = 0 /\ ~ok => x.nsamples = 0 /\ p # "lock"
    BY <1>1, <2>1, <2>2, <2>3, SampledMoves, Zenon DEF BInv
  <2>5. PICK x \in Rounds(use), p \in Blocking \cup {"end"} :
              /\ x.nsamples <= x.i /\ Moves(d, p, x)
              /\ round[d].nsamples = 0 /\ ~ok => x.nsamples = 0 /\ p # "lock"
    BY <2>4, Zenon
  <2>6. /\ woken' = woken \ {d} /\ lock' = lock
        /\ UNCHANGED <<use, state, sync, pid, callers>>
    BY <1>e, <1>3, Zenon DEF DaemonQuery
  <2> QED
    BY <1>2, <1>4, <1>6, <2>2, <2>4, <2>5, <2>6, MoveBasic, Zenon
<1>f. CASE DaemonSleep(d)
  <2>1. PICK x \in Rounds(use), p \in {"query", "end"} :
               x.i = 0 /\ x.nsamples = 0 /\ Moves(d, p, x)
    BY <1>f, <1>1, <1>5, EnterMoves, Zenon DEF DaemonSleep
  <2>2. woken' = woken \ {d} /\ lock' = lock /\ last' = last
    BY <1>f, Zenon DEF DaemonSleep, shared
  <2>3. UNCHANGED <<use, state, sync, pid, callers>>
    BY <1>f, Zenon DEF DaemonSleep, shared
  <2> QED
    BY <1>2, <1>4, <2>1, <2>2, <2>3, MoveBasic DEF Blocking
<1>g. CASE DaemonInterrupted(d)
  <2>1. /\ woken' = woken \ {d}
        /\ UNCHANGED <<use, state, sync, pid, callers>>
    BY <1>g, Zenon DEF DaemonInterrupted
  <2>2. CASE dpc[d] = "query" /\ Sampled(d, FALSE, TRUE) /\ UNCHANGED lock
    <3>1. /\ last' = last \/ last' = 1 - last
          /\ \E x \in Rounds(use), p \in Blocking \cup {"end"} :
                /\ x.nsamples <= x.i /\ Moves(d, p, x)
                /\ round[d].nsamples = 0 => x.nsamples = 0 /\ p # "lock"
      BY <1>1, <2>2, SampledMoves, Zenon DEF BInv
    <3> QED
      BY <1>2, <1>4, <1>6, <2>1, <2>2, <3>1, MoveBasic, Zenon
  <2>3. CASE dpc[d] = "lock" /\ Saved(d) /\ lock' = lock + 1
    <3>1. /\ last' = 1 - last
          /\ \E x \in Rounds(use), p \in {"query", "end", "sleep_poll"} :
               x.nsamples <= x.i /\ Moves(d, p, x)
      BY <1>1, <2>3, SavedMoves, Zenon DEF BInv
    <3> QED
      BY <1>2, <1>4, <1>6, <2>1, <2>3, <3>1, MoveBasic, Zenon DEF Blocking
  <2> QED
    BY <1>g, <2>2, <2>3, Zenon DEF DaemonInterrupted
<1>h. CASE DaemonSave(d)
  <2>1. /\ last' = 1 - last
        /\ \E x \in Rounds(use), p \in {"query", "end", "sleep_poll"} :
             x.nsamples <= x.i /\ Moves(d, p, x)
    BY <1>h, <1>1, SavedMoves, Zenon DEF BInv, DaemonSave
  <2>2. /\ woken' = woken \ {d} /\ lock' = lock /\ dpc[d] = "lock"
        /\ UNCHANGED <<use, state, sync, pid, callers>>
    BY <1>h, <1>3, Zenon DEF DaemonSave
  <2> QED
    BY <1>2, <1>4, <1>6, <2>1, <2>2, MoveBasic, Zenon DEF Blocking
<1>i. CASE DaemonStopped(d)
  BY <1>i, PlaceBasic, Zenon DEF DaemonStopped, DaemonPlaces, Active, Blocking
<1>j. CASE DaemonStoppedPost(d)
  BY <1>j, PlaceBasic, Zenon
  DEF DaemonStoppedPost, DaemonPlaces, Active, Blocking
<1>k. CASE DaemonExit(d)
  BY <1>k, PlaceBasic, Zenon
  DEF DaemonExit, DaemonPlaces, Active, Blocking, shared
<1> QED
  BY <1>a, <1>b, <1>c, <1>d, <1>e, <1>f, <1>g, <1>h, <1>i, <1>j, <1>k, Zenon
     DEF DaemonStep

CallerPlaces ==
  StopPlaces \cup
  {"idle", "unlock", "start_lock", "start_check", "start_set", "start_create",
   "start_fail", "start_wait", "start_test", "start_unlock", "status_lock",
   "status_count", "status_copy", "family_lock"}

States == {"NOT_RUNNING", "STARTED", "RUNNING", "STOP_REQUESTED", "STOPPED"}

\* A caller that goes to q keeps the type of the callers, and stays out of
\* ntpc_stop if it is never called.
LEMMA GotoBasic ==
  ASSUME BInv, use' = use, NEW c \in Caller, NEW q \in CallerPlaces, Goto(c, q),
         q \in StopPlaces => cpc[c] \in StopPlaces \/ "stop" \in use.Calls
  PROVE  /\ cpc' \in [Caller -> CallerPlaces]
         /\ NeverStopped' => \A b \in Caller : cpc'[b] \notin StopPlaces
         /\ cpc'[c] = q /\ \A b \in Caller : b # c => cpc'[b] = cpc[b]
<1>1. cpc \in [Caller -> CallerPlaces] /\ cpc' = [cpc EXCEPT ![c] = q]
  BY Zenon DEF BInv, TypeOK, CallerPlaces, StopPlaces, Goto
<1>2. /\ cpc' \in [Caller -> CallerPlaces] /\ cpc'[c] = q
      /\ \A b \in Caller : b # c => cpc'[b] = cpc[b]
  BY <1>1, Zenon
<1> QED
  BY <1>2, Zenon DEF BInv, NoSignals, NeverStopped

\* A step of a caller that keeps the daemons keeps BInv.
LEMMA CallerMoveBasic ==
  ASSUME BInv, NEW c \in Caller, NEW q \in CallerPlaces, Goto(c, q),
         q \in StopPlaces => cpc[c] \in StopPlaces \/ "stop" \in use.Calls,
         state' \in States, lock' \in Nat, sync' \in Nat,
         seen' \in [Caller -> {0, 1}],
         UNCHANGED <<use, pid, last, daemons>>
  PROVE  BInv'
<1>1. /\ cpc' \in [Caller -> CallerPlaces]
      /\ NeverStopped' => \A b \in Caller : cpc'[b] \notin StopPlaces
  BY GotoBasic, Zenon
<1>2. TypeOK'
  BY <1>1, Zenon DEF BInv, TypeOK, States, CallerPlaces, StopPlaces, daemons
<1>3. SamplesCounted' /\ NothingToSave' /\ use' \in Uses
  BY Zenon DEF BInv, SamplesCounted, NothingToSave, Unanswered, daemons
<1>4. NoSignals'
  BY <1>1, Zenon DEF BInv, NoSignals, NeverStopped, daemons
<1> QED
  BY <1>2, <1>3, <1>4, Zenon DEF BInv

\* The steps of a caller keep BInv.
LEMMA CallerBasic ==
  ASSUME BInv, NEW c \in Caller,
         Acquire(c) \/ Call(c) \/ AwaitSync(c) \/ CallerStep(c)
  PROVE  BInv'
<1> USE DEF CallerPlaces, StopPlaces, States
<1>1. /\ state \in States /\ lock \in Nat /\ sync \in Nat
      /\ seen \in [Caller -> {0, 1}] /\ last \in {0, 1}
  BY Zenon DEF BInv, TypeOK
<1>a. CASE Acquire(c)
  <2>1. lock' \in Nat
    BY <1>a, <1>1 DEF Acquire
  <2> QED
    BY <1>a, <1>1, <2>1, CallerMoveBasic, Zenon DEF Acquire
<1>b. CASE Call(c)
  BY <1>b, <1>1, CallerMoveBasic, Zenon DEF Call, shared
<1>c. CASE AwaitSync(c)
  <2>1. sync' \in Nat
    BY <1>c, <1>1 DEF AwaitSync
  <2> QED
    BY <1>c, <1>1, <2>1, CallerMoveBasic, Zenon DEF AwaitSync
<1>d. CASE Release(c)
  <2>1. lock' \in Nat /\ seen' \in [Caller -> {0, 1}]
    BY <1>d, <1>1 DEF Release
  <2> QED
    BY <1>d, <1>1, <2>1, CallerMoveBasic, Zenon DEF Release
<1>e. CASE StartCheck(c)
  BY <1>e, <1>1, CallerMoveBasic, Zenon DEF StartCheck, shared
<1>f. CASE StartSet(c)
  BY <1>f, <1>1, CallerMoveBasic, Zenon DEF StartSet
<1>g. CASE StartFail(c)
  BY <1>g, <1>1, CallerMoveBasic, Zenon DEF StartFail
<1>h. CASE StartTest(c)
  BY <1>h, <1>1, CallerMoveBasic, Zenon DEF StartTest, shared
<1>i. CASE StopCheck(c)
  BY <1>i, <1>1, CallerMoveBasic, Zenon DEF StopCheck, shared
<1>j. CASE StopSet(c)
  BY <1>j, <1>1, CallerMoveBasic, Zenon DEF StopSet
<1>k. CASE StopTest(c)
  BY <1>k, <1>1, CallerMoveBasic, Zenon DEF StopTest, shared
<1>l. CASE StatusCount(c)
  <2>1. seen' \in [Caller -> {0, 1}]
    BY <1>l, <1>1, Zenon DEF StatusCount
  <2> QED
    BY <1>l, <1>1, <2>1, CallerMoveBasic, Zenon DEF StatusCount, shared
<1>m. CASE StatusCopy(c)
  BY <1>m, <1>1, CallerMoveBasic, Zenon DEF StatusCopy, shared
<1>n. CASE StartCreate(c)
  <2>1. /\ cpc' \in [Caller -> CallerPlaces]
        /\ NeverStopped' => \A b \in Caller : cpc'[b] \notin StopPlaces
        /\ UNCHANGED <<use, state, lock, sync, last, seen, round, woken>>
    BY <1>n, GotoBasic, Zenon DEF StartCreate
  <2>2. /\ pid' \in Daemon \cup {NoPid}
        /\ \/ dpc' = dpc
           \/ \E d \in Daemon : dpc[d] = "none" /\ DGoto(d, "init")
    BY <1>n, Zenon DEF StartCreate
  <2>3. dpc \in [Daemon -> DaemonPlaces] /\ "init" \in DaemonPlaces
    BY Zenon DEF BInv, TypeOK, DaemonPlaces, Active
  <2>4. /\ dpc' \in [Daemon -> DaemonPlaces]
        /\ \A d \in Daemon :
             \/ dpc'[d] = dpc[d]
             \/ dpc[d] \notin Blocking /\ dpc'[d] = "init"
    BY <2>2, <2>3, Zenon DEF DGoto, Blocking
  <2>5. woken' \subseteq {d \in Daemon : dpc'[d] \in Blocking}
    BY <2>1, <2>4, Zenon DEF BInv, TypeOK
  <2>6. TypeOK'
    BY <2>1, <2>2, <2>4, <2>5, Zenon DEF BInv, TypeOK, DaemonPlaces
  <2>7. SamplesCounted' /\ NothingToSave' /\ NoSignals'
    BY <2>1, <2>4, Zenon DEF BInv, SamplesCounted, NothingToSave, NoSignals,
         Unanswered, NeverStopped
  <2> QED
    BY <2>1, <2>6, <2>7, Zenon DEF BInv
<1>o. CASE StopKill(c)
  <2>1. /\ cpc' \in [Caller -> CallerPlaces]
        /\ NeverStopped' => \A b \in Caller : cpc'[b] \notin StopPlaces
        /\ UNCHANGED <<use, shared, seen, dpc, round>>
    BY <1>o, GotoBasic, Zenon DEF StopKill
  <2>2. woken' \subseteq {d \in Daemon : dpc[d] \in Blocking}
    BY <1>o DEF StopKill, BInv, TypeOK
  <2>3. ~NeverStopped
    BY <1>o, Zenon DEF StopKill, BInv, NoSignals
  <2>4. TypeOK'
    BY <2>1, <2>2, Zenon DEF BInv, TypeOK, shared
  <2>5. SamplesCounted' /\ NothingToSave' /\ NoSignals'
    BY <2>1, <2>3, Zenon DEF BInv, SamplesCounted, NothingToSave, NoSignals,
         Unanswered, NeverStopped
  <2> QED
    BY <2>1, <2>4, <2>5, Zenon DEF BInv
<1> QED
  BY <1>a, <1>b, <1>c, <1>d, <1>e, <1>f, <1>g, <1>h, <1>i, <1>j, <1>k, <1>l,
     <1>m, <1>n, <1>o, Zenon DEF CallerStep

-----------------------------------------------------------------------------
(* What the steps of a daemon mean to the callers. *)

Polled == Live \ {"init", "announce"}

\* The life of a daemon: it starts, announces itself, polls, and ends; it writes
\* the state when it announces itself and when it ends.
Ages(d) ==
  \/ dpc[d] = "init" /\ dpc'[d] = "announce" /\ state' = state
  \/ dpc[d] = "init" /\ dpc'[d] = "none" /\ state' = state /\ use.Exhausted
  \/ dpc[d] = "announce" /\ dpc'[d] \in Polled /\ state' = "RUNNING"
  \/ dpc[d] \in Polled /\ dpc'[d] \in Polled /\ state' = state
  \/ dpc[d] = "end" /\ dpc'[d] = "end_post" /\ state' = "STOPPED"
  \/ dpc[d] \notin Live /\ dpc'[d] \notin Live /\ state' = state

\* A daemon that moves while it polls ages.
LEMMA MovesAges ==
  ASSUME BInv, NEW d \in Daemon, dpc[d] \in Polled,
         \E p \in Polled, x \in Rounds(use) : Moves(d, p, x), state' = state
  PROVE  Ages(d) /\ \A e \in Daemon : e # d => dpc'[e] = dpc[e]
<1>1. PICK p \in Polled : dpc' = [dpc EXCEPT ![d] = p]
  BY Zenon DEF Moves, DGoto
<1>2. dpc'[d] = p /\ \A e \in Daemon : e # d => dpc'[e] = dpc[e]
  BY <1>1, Zenon DEF BInv, TypeOK
<1> QED
  BY <1>2, Zenon DEF Ages

\* Every step of a daemon is a step of its life, and of its own only; it keeps
\* the callers and the task ID.  Undisturbed, it keeps the lock, and stores
\* samples only when the lock is free.
LEMMA DaemonEffect ==
  ASSUME BInv, NEW d \in Daemon, DaemonStep(d) \/ DaemonSave(d)
  PROVE  /\ Ages(d) /\ \A e \in Daemon : e # d => dpc'[e] = dpc[e]
         /\ UNCHANGED <<use, pid, callers>>
         /\ Undisturbed => lock' = lock /\ (last' = last \/ lock > 0)
<1>1. use \in UseType
  BY UseTyped, Zenon DEF BInv
<1>2. dpc \in [Daemon -> DaemonPlaces]
  BY Zenon DEF BInv, TypeOK, DaemonPlaces
<1>3. round[d].retries \in 0..Retries /\ 0 \in 0..Retries
  BY NtpAssumption DEF BInv, TypeOK
<1>4. Blocking \cup {"end"} \subseteq Polled
  BY Zenon DEF Blocking, Polled, Live, Active
<1>a. CASE DaemonInit(d)
  BY <1>a, <1>2, Zenon DEF DaemonInit, Ages, DGoto, shared
<1>b. CASE DaemonAnnounce(d)
  BY <1>b, <1>2, Zenon DEF DaemonAnnounce, Ages, DGoto, Polled, Live, Active
<1>c. CASE DaemonAnnouncePost(d)
  BY <1>c, <1>2, Zenon
  DEF DaemonAnnouncePost, Ages, DGoto, Polled, Live, Active
<1>d. CASE DaemonLoop(d)
  <2>1. \E p \in Polled, x \in Rounds(use) : Moves(d, p, x)
    BY <1>d, <1>1, <1>3, <1>4, EnterMoves, Zenon DEF DaemonLoop, Blocking
  <2>2. dpc[d] \in Polled /\ UNCHANGED <<use, shared, callers>>
    BY <1>d, Zenon DEF DaemonLoop, Polled, Live, Active
  <2> QED
    BY <2>1, <2>2, MovesAges, Zenon DEF shared
<1>e. CASE DaemonQuery(d)
  <2>1. PICK ok \in use.Answered : Sampled(d, ok, FALSE)
    BY <1>e, Zenon DEF DaemonQuery
  <2>2. ok \in BOOLEAN /\ dpc[d] = "query"
    BY <1>e, <1>1, <2>1, Zenon DEF UseType, DaemonQuery
  <2>3. /\ last' = last \/ lock > 0
        /\ \E p \in Polled, x \in Rounds(use) : Moves(d, p, x)
    BY <1>1, <1>4, <2>1, <2>2, SampledMoves, Zenon DEF BInv
  <2>4. dpc[d] \in Polled
    BY <2>2, <1>4, Zenon DEF Blocking
  <2> QED
    BY <1>e, <2>3, <2>4, MovesAges, Zenon DEF DaemonQuery
<1>f. CASE DaemonSleep(d)
  <2>1. \E p \in Polled, x \in Rounds(use) : Moves(d, p, x)
    BY <1>f, <1>1, <1>3, <1>4, EnterMoves, Zenon DEF DaemonSleep, Blocking
  <2>2. dpc[d] \in Polled /\ UNCHANGED <<use, shared, callers>>
    BY <1>f, <1>4, Zenon DEF DaemonSleep, Blocking
  <2> QED
    BY <2>1, <2>2, MovesAges, Zenon DEF shared
<1>g. CASE DaemonInterrupted(d)
  <2>1. d \in woken /\ UNCHANGED <<use, state, sync, pid, callers>>
    BY <1>g, Zenon DEF DaemonInterrupted
  <2>2. CASE dpc[d] = "query" /\ Sampled(d, FALSE, TRUE) /\ UNCHANGED lock
    <3>1. /\ last' = last \/ lock > 0
          /\ \E p \in Polled, x \in Rounds(use) : Moves(d, p, x)
      BY <1>1, <1>4, <2>2, SampledMoves, Zenon DEF BInv
    <3>2. dpc[d] \in Polled
      BY <2>2, <1>4, Zenon DEF Blocking
    <3> QED
      BY <2>1, <2>2, <3>1, <3>2, MovesAges, Zenon
  <2>3. CASE dpc[d] = "lock" /\ Saved(d)
    <3>1. \E p \in Polled, x \in Rounds(use) : Moves(d, p, x)
      BY <1>1, <1>4, <2>3, SavedMoves, Zenon DEF BInv, Blocking
    <3>2. dpc[d] \in Polled
      BY <2>3, <1>4, Zenon DEF Blocking
    <3>3. ~Undisturbed
      BY <2>1, <2>3, Zenon
      DEF Undisturbed, BInv, NothingToSave, NoSignals, NeverStopped
    <3> QED
      BY <2>1, <3>1, <3>2, <3>3, MovesAges, Zenon
  <2> QED
    BY <1>g, <2>2, <2>3, Zenon DEF DaemonInterrupted
<1>h. CASE DaemonSave(d)
  <2>1. \E p \in Polled, x \in Rounds(use) : Moves(d, p, x)
    BY <1>h, <1>1, <1>4, SavedMoves, Zenon DEF BInv, DaemonSave, Blocking
  <2>2. dpc[d] \in Polled
    BY <1>h, <1>4, Zenon DEF DaemonSave, Blocking
  <2> QED
    BY <1>h, <2>1, <2>2, MovesAges, Zenon DEF DaemonSave
<1>i. CASE DaemonStopped(d)
  BY <1>i, <1>2, Zenon DEF DaemonStopped, Ages, DGoto
<1>j. CASE DaemonStoppedPost(d)
  BY <1>j, <1>2, Zenon
  DEF DaemonStoppedPost, Ages, DGoto, Live, Active, Blocking
<1>k. CASE DaemonExit(d)
  BY <1>k, <1>2, Zenon
  DEF DaemonExit, Ages, DGoto, shared, Live, Active, Blocking
<1> QED
  BY <1>a, <1>b, <1>c, <1>d, <1>e, <1>f, <1>g, <1>h, <1>i, <1>j, <1>k, Zenon
     DEF DaemonStep

-----------------------------------------------------------------------------
(* The lock. *)

Outside == {"idle", "start_lock", "stop_lock", "status_lock", "family_lock"}

\* What a step of a caller does to its place: it takes the lock, posts it, or
\* leaves it alone and stays on its side of it.
LEMMA CallerPlace ==
  ASSUME BInv, NEW c \in Caller,
         Acquire(c) \/ Call(c) \/ AwaitSync(c) \/ CallerStep(c)
  PROVE  /\ use' = use
         /\ \A b \in Caller : b # c => cpc'[b] = cpc[b]
         /\ \/ /\ lock > 0 /\ lock' = lock - 1
               /\ cpc[c] \in Outside /\ cpc'[c] \notin Outside
            \/ /\ lock' = lock + 1
               /\ cpc[c] \notin Outside /\ cpc'[c] \in Outside
            \/ /\ lock' = lock
               /\ cpc[c] \in Outside <=> cpc'[c] \in Outside
<1>1. cpc \in [Caller -> CallerPlaces]
  BY Zenon DEF BInv, TypeOK, CallerPlaces, StopPlaces
<1>a. CASE Acquire(c)
  BY <1>a, <1>1, Zenon DEF Acquire, Goto, Outside
<1>b. CASE Call(c)
  BY <1>b, <1>1, Zenon DEF Call, Goto, Outside, shared
<1>c. CASE AwaitSync(c)
  BY <1>c, <1>1, Zenon DEF AwaitSync, Goto, Outside
<1>d. CASE Release(c)
  BY <1>d, <1>1, Zenon DEF Release, Goto, Outside
<1>e. CASE StartCheck(c) \/ StartSet(c) \/ StartFail(c) \/ StartTest(c)
  BY <1>e, <1>1, Zenon
  DEF StartCheck, StartSet, StartFail, StartTest, Goto, Outside,
       shared
<1>f. CASE StartCreate(c)
  BY <1>f, <1>1, Zenon DEF StartCreate, Goto, Outside
<1>g. CASE StopCheck(c) \/ StopSet(c) \/ StopKill(c) \/ StopTest(c)
  BY <1>g, <1>1, Zenon
  DEF StopCheck, StopSet, StopKill, StopTest, Goto, Outside, shared
<1>h. CASE StatusCount(c) \/ StatusCopy(c)
  BY <1>h, <1>1, Zenon DEF StatusCount, StatusCopy, Goto, Outside, shared
<1> QED
  BY <1>a, <1>b, <1>c, <1>d, <1>e, <1>f, <1>g, <1>h, Zenon DEF CallerStep

\* A caller's step keeps the lock to one caller.
LEMMA CallerLock ==
  ASSUME BInv, LockExcludes, NEW c \in Caller,
         Acquire(c) \/ Call(c) \/ AwaitSync(c) \/ CallerStep(c)
  PROVE  LockExcludes'
<1> SUFFICES ASSUME Undisturbed'
             PROVE  /\ lock' = (IF Inside' = {} THEN 1 ELSE 0)
                    /\ \A a, b \in Inside' : a = b
  BY Zenon DEF LockExcludes
<1>1. /\ use' = use
      /\ \A b \in Caller : b # c => cpc'[b] = cpc[b]
      /\ \/ /\ lock > 0 /\ lock' = lock - 1
            /\ cpc[c] \in Outside /\ cpc'[c] \notin Outside
         \/ /\ lock' = lock + 1
            /\ cpc[c] \notin Outside /\ cpc'[c] \in Outside
         \/ /\ lock' = lock
            /\ cpc[c] \in Outside <=> cpc'[c] \in Outside
  BY CallerPlace, Zenon
<1>2. /\ lock = (IF Inside = {} THEN 1 ELSE 0)
      /\ \A a, b \in Inside : a = b
  BY <1>1, Zenon DEF LockExcludes, Undisturbed, Unanswered
<1>3. \A b \in Caller : /\ b \in Inside <=> cpc[b] \notin Outside
                        /\ b \in Inside' <=> cpc'[b] \notin Outside
  BY Zenon DEF Inside, Outside
<1>4. Inside \subseteq Caller /\ Inside' \subseteq Caller
  BY Zenon DEF Inside
<1>5. CASE lock > 0 /\ lock' = lock - 1 /\ cpc'[c] \notin Outside
  <2>1. Inside = {} /\ lock = 1
    BY <1>2, <1>5
  <2>2. Inside' = {c}
    BY <1>1, <1>3, <1>4, <1>5, <2>1, Zenon
  <2> QED
    BY <1>5, <2>1, <2>2
<1>6. CASE /\ lock' = lock + 1
           /\ cpc[c] \notin Outside /\ cpc'[c] \in Outside
  <2>1. Inside = {c} /\ lock = 0
    BY <1>2, <1>3, <1>6, Zenon
  <2>2. Inside' = {}
    BY <1>1, <1>3, <1>4, <1>6, <2>1, Zenon
  <2> QED
    BY <1>6, <2>1, <2>2
<1>7. CASE lock' = lock /\ (cpc[c] \in Outside <=> cpc'[c] \in Outside)
  <2>1. Inside' = Inside
    BY <1>1, <1>3, <1>4, <1>7, Zenon
  <2> QED
    BY <1>2, <1>7, <2>1, Zenon
<1> QED
  BY <1>1, <1>5, <1>6, <1>7, Zenon

\* A daemon's step keeps the lock as it is, if the lock is not disturbed.
LEMMA DaemonLock ==
  ASSUME BInv, LockExcludes, NEW d \in Daemon, DaemonStep(d) \/ DaemonSave(d)
  PROVE  LockExcludes'
<1>1. /\ UNCHANGED <<use, callers>>
      /\ Undisturbed => lock' = lock
  BY DaemonEffect, Zenon
<1> QED
  BY <1>1, Zenon DEF LockExcludes, Undisturbed, Unanswered, Inside, callers

-----------------------------------------------------------------------------
(* The daemons and the state. *)

\* A call is begun by a task that uses the client, and nobody else takes part.
LEMMA CallerUses ==
  ASSUME BInv, UsersCall, NEW c \in Caller,
         Acquire(c) \/ Call(c) \/ AwaitSync(c) \/ CallerStep(c)
  PROVE  UsersCall'
<1>1. use' = use /\ \A b \in Caller : b # c => cpc'[b] = cpc[b]
  BY CallerPlace, Zenon
<1>2. cpc[c] # "idle" \/ c \in use.callers
  BY Zenon
  DEF Acquire, Call, AwaitSync, CallerStep, Release, StartCheck, StartSet,
      StartCreate, StartFail, StartTest, StopCheck, StopSet, StopKill, StopTest,
      StatusCount, StatusCopy
<1> QED
  BY <1>1, <1>2, Zenon DEF UsersCall

\* A daemon's step keeps what is known of the daemons: only the one that is
\* recorded writes the state, and a caller that waits for it does not mistake it.
LEMMA DaemonOwner ==
  ASSUME BInv, UsersCall, LockExcludes, OInv, NEW d \in Daemon,
         DaemonStep(d) \/ DaemonSave(d)
  PROVE  OInv'
<1> SUFFICES ASSUME Undisturbed' \/ Alone'
             PROVE  DaemonRecorded' /\ CallerKnows'
  BY Zenon DEF OInv
<1>1. /\ Ages(d) /\ \A e \in Daemon : e # d => dpc'[e] = dpc[e]
      /\ use' = use /\ pid' = pid /\ cpc' = cpc
  BY DaemonEffect, Zenon DEF callers
<1>2. Undisturbed \/ Alone
  BY <1>1, Zenon DEF Undisturbed, Unanswered, Alone
<1>3. \A a, b \in Caller : cpc[a] \notin Outside /\ cpc[b] \notin Outside => a = b
  BY <1>2, Zenon DEF LockExcludes, Inside, Outside, UsersCall, Alone
<1>4. \A e \in Daemon :
        /\ dpc[e] \in Live => pid = e
        /\ dpc[e] \in {"init", "announce"} =>
             /\ state = "STARTED"
             /\ \E c \in Caller : cpc[c] \in {"start_wait", "start_test"}
        /\ dpc[e] \in Polled =>
             \/ state = "RUNNING"
             \/ /\ state = "STOP_REQUESTED"
                /\ \E c \in Caller : cpc[c] \in {"stop_kill", "stop_wait",
                                                 "stop_test"}
  BY <1>2, Zenon DEF OInv, DaemonRecorded, Polled
<1>5. \A c \in Caller :
        /\ cpc[c] = "start_set" => state \in {"NOT_RUNNING", "STOPPED"}
        /\ cpc[c] = "start_create" => state = "STARTED"
        /\ cpc[c] \in {"start_create", "start_fail", "stop_unlock"} =>
             \A e \in Daemon : dpc[e] \notin Live
        /\ cpc[c] \in {"stop_kill", "stop_wait", "stop_test"} =>
             state \in {"STOP_REQUESTED", "STOPPED"}
  BY <1>2, Zenon DEF OInv, CallerKnows
<1>6. Polled \subseteq Live /\ {"init", "announce", "end"} \subseteq Live
      /\ {"init", "announce"} \cap Polled = {} /\ "end" \in Polled
      /\ Live \subseteq Polled \cup {"init", "announce"}
      /\ {"end_post", "none"} \cap Live = {}
  BY Zenon DEF Polled, Live, Active, Blocking
<1> HIDE DEF Polled, Live
<1>7. \A e \in Daemon : dpc'[e] \in Live => dpc[e] \in Live
  BY <1>1, <1>6, Zenon DEF Ages
<1>8. \A e \in Daemon : dpc[d] \in Live /\ dpc'[e] \in Live => e = d
  BY <1>4, <1>7, Zenon
<1>9. \A e \in Daemon : dpc'[e] \in {"init", "announce"} =>
             /\ state' = "STARTED"
             /\ \E c \in Caller : cpc[c] \in {"start_wait", "start_test"}
  BY <1>1, <1>4, <1>6, <1>8, Zenon DEF Ages
<1>10. \A e \in Daemon : dpc'[e] \in Polled =>
             \/ state' = "RUNNING"
             \/ /\ state' = "STOP_REQUESTED"
                /\ \E c \in Caller : cpc[c] \in {"stop_kill", "stop_wait",
                                                 "stop_test"}
  BY <1>1, <1>4, <1>6, <1>8, Zenon DEF Ages
<1>11. DaemonRecorded'
  BY <1>1, <1>4, <1>7, <1>9, <1>10, Zenon DEF DaemonRecorded, Polled
<1>12. ASSUME NEW c \in Caller
       PROVE  /\ cpc[c] = "start_set" => state' \in {"NOT_RUNNING", "STOPPED"}
              /\ cpc[c] = "start_create" => state' = "STARTED"
              /\ cpc[c] \in {"stop_kill", "stop_wait", "stop_test"} =>
                   state' \in {"STOP_REQUESTED", "STOPPED"}
  <2>1. CASE dpc[d] = "announce" /\ state' = "RUNNING"
    <3>1. PICK b \in Caller : cpc[b] \in {"start_wait", "start_test"}
      BY <1>4, <2>1, Zenon
    <3> QED
      BY <1>3, <3>1, Zenon DEF Outside
  <2>2. CASE dpc[d] = "end" /\ state' = "STOPPED"
    BY <1>5, <1>6, <2>2, Zenon
  <2>3. CASE state' = state
    BY <1>5, <2>3, Zenon
  <2> QED
    BY <1>1, <2>1, <2>2, <2>3, Zenon DEF Ages
<1>13. CallerKnows'
  BY <1>1, <1>5, <1>7, <1>12, Zenon DEF CallerKnows
<1> QED
  BY <1>11, <1>13, Zenon

\* A caller's step keeps what is known of the daemons: it alone has the lock
\* when it writes the state or creates a daemon.
LEMMA CallerOwner ==
  ASSUME BInv, UsersCall, LockExcludes, OInv, NEW c \in Caller,
         Acquire(c) \/ Call(c) \/ AwaitSync(c) \/ CallerStep(c)
  PROVE  OInv'
<1> SUFFICES ASSUME Undisturbed' \/ Alone'
             PROVE  DaemonRecorded' /\ CallerKnows'
  BY Zenon DEF OInv
<1>1. use' = use /\ \A b \in Caller : b # c => cpc'[b] = cpc[b]
  BY CallerPlace, Zenon
<1>2. Undisturbed \/ Alone
  BY <1>1, Zenon DEF Undisturbed, Unanswered, Alone
<1>3. \A a, b \in Caller : cpc[a] \notin Outside /\ cpc[b] \notin Outside => a = b
  BY <1>2, Zenon DEF LockExcludes, Inside, Outside, UsersCall, Alone
<1>4. DaemonRecorded /\ CallerKnows
  BY <1>2, Zenon DEF OInv
<1>5. cpc \in [Caller -> CallerPlaces] /\ dpc \in [Daemon -> DaemonPlaces]
  BY Zenon DEF BInv, TypeOK, CallerPlaces, StopPlaces, DaemonPlaces
<1>6. {"init", "announce"} \subseteq Live /\ "none" \notin Live
  BY Zenon DEF Live, Active, Blocking
<1> HIDE DEF Live
<1> USE DEF DaemonRecorded, CallerKnows
<1>a. CASE Acquire(c)
  BY <1>a, <1>4, <1>5, Zenon DEF Acquire, Goto, daemons
<1>b. CASE Call(c)
  BY <1>b, <1>4, <1>5, Zenon DEF Call, Goto, daemons, shared
<1>c. CASE AwaitSync(c)
  BY <1>c, <1>4, <1>5, Zenon DEF AwaitSync, Goto, daemons
<1>d. CASE Release(c)
  BY <1>d, <1>4, <1>5, Zenon DEF Release, Goto, daemons
<1>e. CASE StartCheck(c)
  BY <1>e, <1>4, <1>5, Zenon DEF StartCheck, Goto, daemons, shared
<1>f. CASE StartSet(c)
  <2>1. \A d \in Daemon : dpc[d] \notin Live
    BY <1>f, <1>4, Zenon DEF StartSet
  <2> QED
    BY <1>f, <1>3, <1>4, <1>5, <1>6, <2>1, Zenon
    DEF StartSet, Goto, daemons, Outside
<1>g. CASE StartFail(c)
  BY <1>g, <1>3, <1>4, <1>5, <1>6, Zenon DEF StartFail, Goto, daemons, Outside
<1>h. CASE StartTest(c)
  BY <1>h, <1>4, <1>5, Zenon DEF StartTest, Goto, daemons, shared
<1>i. CASE StopCheck(c)
  BY <1>i, <1>3, <1>4, <1>5, Zenon
  DEF StopCheck, Goto, daemons, shared, Outside
<1>j. CASE StopSet(c)
  BY <1>j, <1>3, <1>4, <1>5, Zenon DEF StopSet, Goto, daemons, Outside
<1>k. CASE StopTest(c)
  BY <1>k, <1>4, <1>5, Zenon DEF StopTest, Goto, daemons, shared
<1>l. CASE StatusCount(c) \/ StatusCopy(c)
  BY <1>l, <1>4, <1>5, Zenon DEF StatusCount, StatusCopy, Goto, daemons, shared
<1>m. CASE StartCreate(c)
  BY <1>m, <1>3, <1>4, <1>5, <1>6, Zenon DEF StartCreate, Goto, DGoto, Outside
<1>n. CASE StopKill(c)
  BY <1>n, <1>4, <1>5, <1>6, Zenon DEF StopKill, Goto, shared
<1> QED
  BY <1>a, <1>b, <1>c, <1>d, <1>e, <1>f, <1>g, <1>h, <1>i, <1>j, <1>k, <1>l,
     <1>m, <1>n, Zenon DEF CallerStep

-----------------------------------------------------------------------------
(* The state and the daemons. *)

\* A daemon's step keeps StartedHasDaemon: a daemon that ends says so, and one
\* that ends in silence has not yet said that it runs.
LEMMA DaemonStarted ==
  ASSUME BInv, OInv, StartedHasDaemon, NEW d \in Daemon,
         DaemonStep(d) \/ DaemonSave(d)
  PROVE  StartedHasDaemon'
<1>1. /\ Ages(d) /\ \A e \in Daemon : e # d => dpc'[e] = dpc[e]
      /\ use' = use /\ cpc' = cpc
  BY DaemonEffect, Zenon DEF callers
<1>2. Polled \subseteq Live /\ "announce" \in Live
  BY Zenon DEF Polled, Live, Active, Blocking
<1> HIDE DEF Polled, Live
<1>3. ASSUME Undisturbed' \/ Alone', state' = "RUNNING"
      PROVE  \E e \in Daemon : dpc'[e] \in Live
  <2>1. Undisturbed \/ Alone
    BY <1>1, <1>3, Zenon DEF Undisturbed, Unanswered, Alone
  <2>2. state = "RUNNING" => \E e \in Daemon : dpc[e] \in Live
    BY <2>1, Zenon DEF StartedHasDaemon
  <2>3. dpc[d] = "init" => state = "STARTED"
    BY <2>1, Zenon DEF OInv, DaemonRecorded
  <2> QED
    BY <1>1, <1>2, <1>3, <2>2, <2>3, Zenon DEF Ages
<1>4. state' = "STARTED" => state = "STARTED"
  BY <1>1, Zenon DEF Ages
<1> QED
  BY <1>1, <1>3, <1>4, Zenon DEF StartedHasDaemon

\* A caller's step keeps StartedHasDaemon: ntpc_start does not return while the
\* client is started, and no caller says that it runs or ends a daemon.
LEMMA CallerStarted ==
  ASSUME BInv, StartedHasDaemon, NEW c \in Caller,
         Acquire(c) \/ Call(c) \/ AwaitSync(c) \/ CallerStep(c)
  PROVE  StartedHasDaemon'
<1> DEFINE Starts == {"start_create", "start_fail", "start_wait", "start_test"}
<1>1. use' = use /\ \A b \in Caller : b # c => cpc'[b] = cpc[b]
  BY CallerPlace, Zenon
<1>2. cpc \in [Caller -> CallerPlaces] /\ dpc \in [Daemon -> DaemonPlaces]
  BY Zenon DEF BInv, TypeOK, CallerPlaces, StopPlaces, DaemonPlaces
<1>3. "none" \notin Live
  BY Zenon DEF Live, Active, Blocking
<1> HIDE DEF Live
<1>4. ASSUME state' = "RUNNING" => state = "RUNNING",
             \A d \in Daemon : dpc[d] \in Live => dpc'[d] \in Live,
             state' = "STARTED" => \/ cpc'[c] \in Starts
                                   \/ state = "STARTED" /\ cpc[c] \notin Starts
      PROVE  StartedHasDaemon'
  BY <1>1, <1>4, Zenon DEF StartedHasDaemon, Undisturbed, Unanswered, Alone
<1>a. CASE Acquire(c) \/ Call(c) \/ AwaitSync(c) \/ Release(c)
  BY <1>a, <1>2, <1>4, Zenon
  DEF Acquire, Call, AwaitSync, Release, Goto, daemons, shared
<1>b. CASE StartCheck(c) \/ StartSet(c) \/ StartFail(c) \/ StartTest(c)
  BY <1>b, <1>2, <1>4, Zenon
  DEF StartCheck, StartSet, StartFail, StartTest, Goto, daemons, shared
<1>c. CASE StartCreate(c)
  <2>1. \A d \in Daemon : dpc[d] \in Live => dpc'[d] \in Live
    BY <1>c, <1>2, <1>3, Zenon DEF StartCreate, DGoto
  <2> QED
    BY <1>c, <1>2, <1>4, <2>1, Zenon DEF StartCreate, Goto
<1>d. CASE StopCheck(c) \/ StopSet(c) \/ StopKill(c) \/ StopTest(c)
  BY <1>d, <1>4, Zenon DEF StopCheck, StopSet, StopKill, StopTest, daemons, shared
<1>e. CASE StatusCount(c) \/ StatusCopy(c)
  BY <1>e, <1>4, Zenon DEF StatusCount, StatusCopy, daemons, shared
<1> QED
  BY <1>a, <1>b, <1>c, <1>d, <1>e, Zenon DEF CallerStep

\* A daemon stores its samples only when no caller copies them.
LEMMA DaemonStatus ==
  ASSUME BInv, LockExcludes, StatusOfOneRound, NEW d \in Daemon,
         DaemonStep(d) \/ DaemonSave(d)
  PROVE  StatusOfOneRound'
<1>1. /\ use' = use /\ cpc' = cpc /\ seen' = seen
      /\ Undisturbed => last' = last \/ lock > 0
  BY DaemonEffect, Zenon DEF callers
<1>2. ASSUME "stop" \notin use.Calls, lock > 0, NEW c \in Caller
      PROVE  cpc[c] # "status_copy"
  BY <1>2 DEF LockExcludes, Undisturbed, Inside
<1> QED
  BY <1>1, <1>2, Zenon DEF StatusOfOneRound, Undisturbed

\* A caller's step keeps what the callers have copied.
LEMMA CallerStatus ==
  ASSUME BInv, LockExcludes, StatusOfOneRound, NEW c \in Caller,
         Acquire(c) \/ Call(c) \/ AwaitSync(c) \/ CallerStep(c)
  PROVE  StatusOfOneRound'
<1>1. use' = use /\ \A b \in Caller : b # c => cpc'[b] = cpc[b]
  BY CallerPlace, Zenon
<1>2. /\ cpc \in [Caller -> CallerPlaces] /\ seen \in [Caller -> {0, 1}]
  BY Zenon DEF BInv, TypeOK, CallerPlaces, StopPlaces
<1>a. CASE StatusCount(c)
  BY <1>a, <1>1, <1>2, Zenon DEF StatusCount, Goto, StatusOfOneRound, shared
<1>b. CASE Release(c)
  BY <1>b, <1>1, <1>2, Zenon DEF Release, Goto, StatusOfOneRound
<1>c. CASE cpc'[c] # "status_copy" /\ seen' = seen /\ last' = last
  BY <1>c, <1>1, Zenon DEF StatusOfOneRound
<1>d. CASE Acquire(c) \/ Call(c) \/ AwaitSync(c) \/ StatusCopy(c)
  BY <1>c, <1>d, <1>2, Zenon
  DEF Acquire, Call, AwaitSync, StatusCopy, Goto, shared
<1>e. CASE StartCheck(c) \/ StartTest(c) \/ StartSet(c) \/ StartFail(c)
  BY <1>c, <1>e, <1>2, Zenon
  DEF StartCheck, StartTest, StartSet, StartFail, Goto,
       shared
<1>f. CASE StartCreate(c)
  BY <1>c, <1>f, <1>2, Zenon DEF StartCreate, Goto
<1>g. CASE StopCheck(c) \/ StopSet(c) \/ StopKill(c) \/ StopTest(c)
  BY <1>c, <1>g, <1>2, Zenon
  DEF StopCheck, StopSet, StopKill, StopTest, Goto, shared
<1> QED
  BY <1>a, <1>b, <1>d, <1>e, <1>f, <1>g, Zenon DEF CallerStep

-----------------------------------------------------------------------------
(* The theorems. *)

\* Every state of the client satisfies IInv: it holds when the program starts
\* (g_ntpc_daemon as initialised) and every step of a caller and of a daemon
\* keeps it.
THEOREM Invariance == Spec => []IInv
<1>1. Init => IInv
  <2> SUFFICES ASSUME Init
               PROVE  IInv
    BY Zenon
  <2>1. use \in Uses /\ use \in UseType
    BY NtpAssumption, Zenon DEF Init
  <2>2. 0 \in 0..Retries
    BY NtpAssumption
  <2>3. Fresh(0) \in Rounds(use) /\ Fresh(0).i = 0 /\ Fresh(0).nsamples = 0
    BY <2>1, <2>2, FreshRound, Zenon
  <2>4. TypeOK
    BY <2>3, Zenon DEF Init, TypeOK, Rounds
  <2>5. SamplesCounted /\ NothingToSave /\ NoSignals
    BY <2>3 DEF Init, SamplesCounted, NothingToSave, NoSignals, StopPlaces
  <2>6. LockExcludes /\ OInv /\ UsersCall
    BY Zenon
    DEF Init, UsersCall, LockExcludes, Inside, OInv, DaemonRecorded, CallerKnows, Live,
         Active, Blocking
  <2>7. StartedHasDaemon /\ StatusOfOneRound
    BY Zenon DEF Init, StartedHasDaemon, StatusOfOneRound
  <2> QED
    BY <2>1, <2>4, <2>5, <2>6, <2>7, Zenon DEF IInv
<1>2. IInv /\ [Next]_vars => IInv'
  <2> SUFFICES ASSUME IInv, [Next]_vars
               PROVE  IInv'
    BY Zenon
  <2>1. BInv /\ UsersCall /\ LockExcludes /\ OInv /\ StartedHasDaemon
        /\ StatusOfOneRound
    BY Zenon DEF IInv, BInv
  <2> SUFFICES BInv' /\ UsersCall' /\ LockExcludes' /\ OInv' /\ StartedHasDaemon'
               /\ StatusOfOneRound'
    BY Zenon DEF IInv, BInv
  <2>2. ASSUME NEW c \in Caller,
               Acquire(c) \/ Call(c) \/ AwaitSync(c) \/ CallerStep(c)
        PROVE  BInv' /\ UsersCall' /\ LockExcludes' /\ OInv'
               /\ StartedHasDaemon' /\ StatusOfOneRound'
    BY <2>1, <2>2, CallerBasic, CallerUses, CallerLock, CallerOwner, CallerStarted,
       CallerStatus, Zenon
  <2>3. ASSUME NEW d \in Daemon, DaemonStep(d) \/ DaemonSave(d)
        PROVE  BInv' /\ UsersCall' /\ LockExcludes' /\ OInv'
               /\ StartedHasDaemon' /\ StatusOfOneRound'
    <3>1. UsersCall'
      BY <2>1, <2>3, DaemonEffect, Zenon DEF UsersCall, callers
    <3> QED
      BY <2>1, <2>3, <3>1, DaemonBasic, DaemonLock, DaemonOwner, DaemonStarted,
         DaemonStatus, Zenon
  <2>4. CASE UNCHANGED vars
    <3>1. BInv'
      BY <2>1, <2>4, Zenon
      DEF BInv, TypeOK, SamplesCounted, NothingToSave, NoSignals,
           NeverStopped, Unanswered, vars
    <3>2. LockExcludes' /\ StatusOfOneRound'
      BY <2>1, <2>4, Zenon DEF LockExcludes, Undisturbed, Unanswered, Inside,
           StatusOfOneRound, vars
    <3>3. OInv' /\ StartedHasDaemon' /\ UsersCall'
      BY <2>1, <2>4, Zenon
      DEF OInv, UsersCall, Alone, DaemonRecorded, CallerKnows, StartedHasDaemon,
           Undisturbed, Unanswered, NeverStopped, vars
    <3> QED
      BY <3>1, <3>2, <3>3, Zenon
  <2> QED
    BY <2>2, <2>3, <2>4, Zenon DEF Next
<1> QED
  BY <1>1, <1>2, PTL DEF Spec

\* Type correctness: whatever the tasks call and the servers do, the record
\* stays well formed, only a blocked daemon is interrupted, and a daemon gives
\* up within CONFIG_NETUTILS_NTPCLIENT_RETRIES rounds.
THEOREM TypeCorrect == Spec => []TypeOK
BY Invariance, PTL DEF IInv

\* The lock protects the structure: one caller at most is between sem_wait and
\* sem_post, as long as no server answers or ntpc_stop is not called.
THEOREM MutualExclusion == Spec => []LockExcludes
BY Invariance, PTL DEF IInv

\* "Only one instance of the NTP daemon is permitted": no two daemons poll at
\* the same time, under the same condition or if one task uses the client.
THEOREM AtMostOneDaemon == Spec => []OneDaemon
<1>1. IInv => OneDaemon
  BY Zenon DEF IInv, OInv, DaemonRecorded, OneDaemon, Polling, Live
<1> QED
  BY <1>1, Invariance, PTL

\* When ntpc_stop returns no daemon polls, as long as no server answers or one
\* task uses the client.
THEOREM StopMeansStopped == Spec => []StopStops
<1>1. IInv => StopStops
  BY Zenon DEF IInv, OInv, CallerKnows, StopStops, Undisturbed, Polling, Live
<1> QED
  BY <1>1, Invariance, PTL

\* ntpc_status reports the samples of one round, if ntpc_stop is not called,
\* although the daemon stores them at any time the lock is free.
THEOREM StatusConsistent == Spec => []StatusOfOneRound
BY Invariance, PTL DEF IInv

\* When ntpc_start finds the client running, and returns the task ID it finds,
\* that daemon has not announced its end, although the daemon ends by itself at
\* any time: as long as no server answers, or ntpc_stop is not called, or one
\* task uses the client.
THEOREM RunningMeansDaemon == Spec => []RunningHasDaemon
<1>1. IInv => RunningHasDaemon
  <2> SUFFICES ASSUME IInv, Undisturbed \/ Alone,
                      NEW c \in Caller, cpc[c] = "start_check",
                      state \in {"STARTED", "RUNNING"}
               PROVE  \E d \in Daemon : d = pid /\ dpc[d] \in Active \cup {"end"}
    BY Zenon DEF RunningHasDaemon
  <2>1. \A b \in Caller : cpc[b] \notin Outside => b = c
    BY Zenon DEF IInv, LockExcludes, Inside, Outside, UsersCall, Alone
  <2>2. state = "RUNNING"
    BY <2>1, Zenon DEF IInv, StartedHasDaemon, Outside
  <2>3. PICK d \in Daemon : dpc[d] \in Live
    BY <2>2, Zenon DEF IInv, StartedHasDaemon
  <2>4. d = pid
    BY <2>3, Zenon DEF IInv, OInv, DaemonRecorded
  <2> QED
    BY <2>3, <2>4, Zenon DEF Live
<1> QED
  BY <1>1, Invariance, PTL
=============================================================================
