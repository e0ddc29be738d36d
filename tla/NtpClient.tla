------------------------------ MODULE NtpClient ------------------------------
(* The NTP client of netutils/ntpclient: the tasks that call ntpc_start,     *)
(* ntpc_stop, ntpc_status and ntpc_dualstack_family, and the daemon they     *)
(* start and stop.  They share g_ntpc_daemon: a state, a semaphore `lock'    *)
(* that protects it and a semaphore `sync' that announces its changes.       *)
(*                                                                           *)
(* A caller may be preempted between any two statements, so each access to   *)
(* the shared data is a step.  The daemon's loop runs with the scheduler     *)
(* locked: it is preempted only where it blocks, and what it does from one   *)
(* blocking call to the next is one step.                                    *)
EXTENDS Naturals

CONSTANTS Caller,     \* the tasks that use the client
          Daemon,     \* the task IDs a daemon may get
          Uses,       \* the configurations and how the client is used
          Retries,    \* CONFIG_NETUTILS_NTPCLIENT_RETRIES
          PostBound   \* bound: the posts of a semaphore beyond its waits

UseType ==
  [callers    : SUBSET Caller,  \* the tasks that call
   Calls      : SUBSET {"start", "stop", "status", "family"},
   NumSamples : Nat \ {0},      \* CONFIG_NETUTILS_NTPCLIENT_NUM_SAMPLES
   StayOn     : BOOLEAN,        \* CONFIG_NETUTILS_NTPCLIENT_STAY_ON
   Answered   : SUBSET BOOLEAN, \* may a query be answered, may it fail
   Exhausted  : BOOLEAN]        \* may memory be exhausted when a daemon starts

ASSUME NtpAssumption ==
  /\ Uses \subseteq UseType
  /\ Retries \in Nat
  /\ PostBound \in Nat \ {0}

VARIABLES use,     \* the configuration
          state,   \* g_ntpc_daemon.state
          lock,    \* the value of g_ntpc_daemon.lock
          sync,    \* the value of g_ntpc_daemon.sync
          pid,     \* g_ntpc_daemon.pid
          cpc,     \* what each caller does next
          dpc,     \* what each daemon does next, or the call it is blocked in
          round,   \* the local variables of each daemon
          woken,   \* daemons whose blocking call was interrupted by the signal
          last,    \* which of two successive rounds g_last_samples comes from
          seen     \* what ntpc_status has copied

vars == <<use, state, lock, sync, pid, cpc, dpc, round, woken, last, seen>>

NoPid == "-1"

\* The calls a daemon blocks in: a query, a lock that is taken, two sleeps.
Blocking == {"query", "lock", "sleep_poll", "sleep_retry"}

\* The places where a daemon counts as running: it polls, or it is about to.
Active == {"init", "announce", "announce_post", "loop"} \cup Blocking

Fresh(r) == [i |-> 0, nsamples |-> 0, eintr |-> FALSE, retries |-> r]

Init ==
  /\ use \in Uses
  /\ state = "NOT_RUNNING"
  /\ lock = 1 /\ sync = 0
  /\ pid = NoPid
  /\ cpc = [c \in Caller |-> "idle"]
  /\ dpc = [d \in Daemon |-> "none"]
  /\ round = [d \in Daemon |-> Fresh(0)]
  /\ woken = {}
  /\ last = 0
  /\ seen = [c \in Caller |-> 0]

shared == <<state, lock, sync, pid, last>>
callers == <<cpc, seen>>
daemons == <<dpc, round, woken>>

-----------------------------------------------------------------------------
(* The daemon. *)

DGoto(d, p) == dpc' = [dpc EXCEPT ![d] = p]

\* Allocation of the work buffers; when it fails the task ends in silence.
DaemonInit(d) ==
  /\ dpc[d] = "init"
  /\ \/ DGoto(d, "announce")
     \/ use.Exhausted /\ DGoto(d, "none")
  /\ UNCHANGED <<use, shared, callers, round, woken>>

DaemonAnnounce(d) ==
  /\ dpc[d] = "announce"
  /\ state' = "RUNNING"
  /\ DGoto(d, "announce_post")
  /\ UNCHANGED <<use, lock, sync, pid, last, callers, round, woken>>

DaemonAnnouncePost(d) ==
  /\ dpc[d] = "announce_post"
  /\ sync' = sync + 1
  /\ DGoto(d, "loop")
  /\ UNCHANGED <<use, state, lock, pid, last, callers, round, woken>>

\* The loop is left: sched_unlock.
Leave(d) ==
  /\ DGoto(d, "end")
  /\ round' = [round EXCEPT ![d] = Fresh(0)]

\* The loop condition, and the start of a round after `r' failed ones.
Enter(d, r) ==
  IF state = "STOP_REQUESTED"
    THEN Leave(d)
    ELSE /\ DGoto(d, "query")
         /\ round' = [round EXCEPT ![d] = Fresh(r)]

DaemonLoop(d) ==
  /\ dpc[d] = "loop"
  /\ Enter(d, 0)
  /\ UNCHANGED <<use, shared, callers, woken>>

\* The samples of the round are stored, and what follows up to the next call
\* that blocks.
Saved(d) ==
  /\ last' = 1 - last
  /\ \/ ~use.StayOn /\ Leave(d)
     \/ /\ use.StayOn /\ state = "RUNNING"
        /\ DGoto(d, "sleep_poll")
        /\ UNCHANGED round
     \/ /\ use.StayOn /\ state # "RUNNING"
        /\ Enter(d, round[d].retries)

Failed_late(d, eintr) ==
  LET r == round[d].retries
  IN  \/ r > Retries /\ Leave(d)
      \/ r <= Retries /\ eintr /\ Enter(d, r + 1)
      \/ /\ r <= Retries /\ ~eintr
         /\ DGoto(d, "sleep_retry")
         /\ round' = [round EXCEPT ![d] = Fresh(r + 1)]

\* A round without samples.
Failed(d, eintr) ==
  LET r == round[d].retries
  IN  \/ r >= Retries /\ Leave(d)
      \/ r < Retries /\ eintr /\ Enter(d, r + 1)
      \/ /\ r < Retries /\ ~eintr
         /\ DGoto(d, "sleep_retry")
         /\ round' = [round EXCEPT ![d] = Fresh(r + 1)]

\* ntpc_get_ntp_sample returns.  errval is the error of the last failure.
Sampled(d, ok, signal) ==
  LET i == round[d].i + 1
      n == round[d].nsamples + (IF ok THEN 1 ELSE 0)
      e == IF ok THEN round[d].eintr ELSE signal
  IN  \/ /\ i < use.NumSamples
         /\ round' = [round EXCEPT ![d] = [i |-> i, nsamples |-> n, eintr |-> e,
                                           retries |-> @.retries]]
         /\ UNCHANGED <<dpc, last>>
      \/ /\ i >= use.NumSamples /\ n = 0
         /\ Failed(d, e)
         /\ UNCHANGED last
      \/ /\ i >= use.NumSamples /\ n > 0 /\ lock > 0
         /\ Saved(d)
      \/ /\ i >= use.NumSamples /\ n > 0 /\ lock = 0
         /\ DGoto(d, "lock")
         /\ round' = [round EXCEPT ![d] = Fresh(@.retries)]
         /\ UNCHANGED last

\* An answer, a timeout or an error.
DaemonQuery(d) ==
  /\ dpc[d] = "query" /\ d \notin woken
  /\ \E ok \in use.Answered : Sampled(d, ok, FALSE)
  /\ UNCHANGED <<use, state, lock, sync, pid, callers, woken>>

DaemonSave_unlocked(d) ==
  /\ dpc[d] = "lock" /\ d \notin woken
  /\ Saved(d)
  /\ UNCHANGED <<use, state, lock, sync, pid, callers, woken>>

\* The daemon was blocked in sem_wait and gets the lock; it posts it again
\* before anything else runs.
DaemonSave(d) ==
  /\ dpc[d] = "lock" /\ d \notin woken
  /\ lock > 0
  /\ Saved(d)
  /\ UNCHANGED <<use, state, lock, sync, pid, callers, woken>>

DaemonSleep(d) ==
  /\ \/ dpc[d] = "sleep_poll" /\ Enter(d, 0)
     \/ dpc[d] = "sleep_retry" /\ Enter(d, round[d].retries)
  /\ woken' = woken \ {d}
  /\ UNCHANGED <<use, shared, callers>>

\* The signal ends a blocking call: a query fails with EINTR; sem_wait fails
\* too, but its result is not looked at and the lock is posted all the same.
DaemonInterrupted(d) ==
  /\ d \in woken
  /\ \/ dpc[d] = "query" /\ Sampled(d, FALSE, TRUE) /\ UNCHANGED lock
     \/ dpc[d] = "lock" /\ Saved(d) /\ lock' = lock + 1
  /\ woken' = woken \ {d}
  /\ UNCHANGED <<use, state, sync, pid, callers>>

DaemonStopped_silent(d) ==
  /\ dpc[d] = "end"
  /\ DGoto(d, "end_post")
  /\ UNCHANGED <<use, shared, callers, round, woken>>

DaemonStopped(d) ==
  /\ dpc[d] = "end"
  /\ state' = "STOPPED"
  /\ DGoto(d, "end_post")
  /\ UNCHANGED <<use, lock, sync, pid, last, callers, round, woken>>

DaemonStoppedPost(d) ==
  /\ dpc[d] = "end_post"
  /\ sync' = sync + 1
  /\ DGoto(d, "end_free")
  /\ UNCHANGED <<use, state, lock, pid, last, callers, round, woken>>

DaemonExit(d) ==
  /\ dpc[d] = "end_free"
  /\ DGoto(d, "none")
  /\ UNCHANGED <<use, shared, callers, round, woken>>

DaemonStep(d) ==
  \/ DaemonInit(d) \/ DaemonAnnounce(d) \/ DaemonAnnouncePost(d)
  \/ DaemonLoop(d) \/ DaemonQuery(d) \/ DaemonSleep(d)
  \/ DaemonInterrupted(d)
  \/ DaemonStopped(d) \/ DaemonStoppedPost(d) \/ DaemonExit(d)

-----------------------------------------------------------------------------
(* The callers. *)

Goto(c, p) == cpc' = [cpc EXCEPT ![c] = p]

\* A task calls one of the functions.
Call(c) ==
  /\ c \in use.callers /\ cpc[c] = "idle"
  /\ \/ "start" \in use.Calls /\ sync <= PostBound /\ Goto(c, "start_lock")
     \/ "stop" \in use.Calls /\ lock <= PostBound /\ Goto(c, "stop_lock")
     \/ "status" \in use.Calls /\ Goto(c, "status_lock")
     \/ "family" \in use.Calls /\ Goto(c, "family_lock")
  /\ UNCHANGED <<use, shared, seen, daemons>>

\* sem_wait(&g_ntpc_daemon.lock), the first statement of each function.
Acquire(c) ==
  /\ lock > 0
  /\ lock' = lock - 1
  /\ \/ cpc[c] = "start_lock" /\ Goto(c, "start_check")
     \/ cpc[c] = "stop_lock" /\ Goto(c, "stop_check")
     \/ cpc[c] = "status_lock" /\ Goto(c, "status_count")
     \/ cpc[c] = "family_lock" /\ Goto(c, "unlock")
  /\ UNCHANGED <<use, state, sync, pid, last, seen, daemons>>

\* sem_post(&g_ntpc_daemon.lock), the last one.
Release(c) ==
  /\ cpc[c] \in {"start_unlock", "stop_unlock", "unlock"}
  /\ lock' = lock + 1
  /\ Goto(c, "idle")
  /\ seen' = [seen EXCEPT ![c] = 0]
  /\ UNCHANGED <<use, state, sync, pid, last, daemons>>

StartCheck(c) ==
  /\ cpc[c] = "start_check"
  /\ Goto(c, IF state \in {"NOT_RUNNING", "STOPPED"}
               THEN "start_set" ELSE "start_unlock")
  /\ UNCHANGED <<use, shared, seen, daemons>>

StartSet_late(c) ==
  /\ cpc[c] = "start_set"
  /\ Goto(c, "start_create")
  /\ UNCHANGED <<use, shared, seen, daemons>>

StartSet(c) ==
  /\ cpc[c] = "start_set"
  /\ state' = "STARTED"
  /\ Goto(c, "start_create")
  /\ UNCHANGED <<use, lock, sync, pid, last, seen, daemons>>

\* task_create.  A task ID is free once the task that had it has ended.
StartCreate(c) ==
  /\ cpc[c] = "start_create"
  /\ \/ \E d \in Daemon :
          /\ dpc[d] = "none"
          /\ pid' = d
          /\ DGoto(d, "init")
          /\ Goto(c, "start_wait")
     \/ /\ use.Exhausted
        /\ pid' = NoPid
        /\ Goto(c, "start_fail")
        /\ UNCHANGED dpc
  /\ UNCHANGED <<use, state, lock, sync, last, seen, round, woken>>

StartFail(c) ==
  /\ cpc[c] = "start_fail"
  /\ state' = "STOPPED"
  /\ Goto(c, "start_unlock")
  /\ UNCHANGED <<use, lock, sync, pid, last, seen, daemons>>

\* sem_wait(&g_ntpc_daemon.sync) of ntpc_start and of ntpc_stop.
AwaitSync(c) ==
  /\ sync > 0
  /\ sync' = sync - 1
  /\ \/ cpc[c] = "start_wait" /\ Goto(c, "start_test")
     \/ cpc[c] = "stop_wait" /\ Goto(c, "stop_test")
  /\ UNCHANGED <<use, state, lock, pid, last, seen, daemons>>

StartTest_running(c) ==
  /\ cpc[c] = "start_test"
  /\ Goto(c, IF state = "RUNNING" THEN "start_unlock" ELSE "start_test")
  /\ UNCHANGED <<use, shared, seen, daemons>>

StartTest(c) ==
  /\ cpc[c] = "start_test"
  /\ Goto(c, IF state = "STARTED" THEN "start_wait" ELSE "start_unlock")
  /\ UNCHANGED <<use, shared, seen, daemons>>

StopCheck(c) ==
  /\ cpc[c] = "stop_check"
  /\ Goto(c, IF state \in {"STARTED", "RUNNING"}
               THEN "stop_set" ELSE "stop_unlock")
  /\ UNCHANGED <<use, shared, seen, daemons>>

StopSet(c) ==
  /\ cpc[c] = "stop_set"
  /\ state' = "STOP_REQUESTED"
  /\ Goto(c, "stop_kill")
  /\ UNCHANGED <<use, lock, sync, pid, last, seen, daemons>>

StopKill_leaks(c) ==
  /\ cpc[c] = "stop_kill"
  /\ \/ /\ pid \in Daemon /\ dpc[pid] # "none"
        /\ woken' = IF dpc[pid] \in Blocking THEN woken \cup {pid} ELSE woken
        /\ Goto(c, "stop_wait")
     \/ /\ pid \in Daemon => dpc[pid] = "none"
        /\ Goto(c, "idle")
        /\ UNCHANGED woken
  /\ UNCHANGED <<use, shared, seen, dpc, round>>

\* kill fails when the task is gone.  Otherwise the signal, for which there is
\* no handler, ends the call the daemon is blocked in, if it is.
StopKill(c) ==
  /\ cpc[c] = "stop_kill"
  /\ \/ /\ pid \in Daemon /\ dpc[pid] # "none"
        /\ woken' = IF dpc[pid] \in Blocking THEN woken \cup {pid} ELSE woken
        /\ Goto(c, "stop_wait")
     \/ /\ pid \in Daemon => dpc[pid] = "none"
        /\ Goto(c, "stop_unlock")
        /\ UNCHANGED woken
  /\ UNCHANGED <<use, shared, seen, dpc, round>>

StopTest_once(c) ==
  /\ cpc[c] = "stop_test"
  /\ Goto(c, "stop_unlock")
  /\ UNCHANGED <<use, shared, seen, daemons>>


StopTest(c) ==
  /\ cpc[c] = "stop_test"
  /\ Goto(c, IF state = "STOP_REQUESTED" THEN "stop_kill" ELSE "stop_unlock")
  /\ UNCHANGED <<use, shared, seen, daemons>>

\* ntpc_status: the number of samples, then the samples.
StatusCount(c) ==
  /\ cpc[c] = "status_count"
  /\ seen' = [seen EXCEPT ![c] = last]
  /\ Goto(c, "status_copy")
  /\ UNCHANGED <<use, shared, daemons>>

StatusCopy(c) ==
  /\ cpc[c] = "status_copy"
  /\ Goto(c, "unlock")
  /\ UNCHANGED <<use, shared, seen, daemons>>

\* The steps of a call that has begun.
CallerStep(c) ==
  \/ Release(c)
  \/ StartCheck(c) \/ StartSet(c) \/ StartCreate(c) \/ StartFail(c)
  \/ StartTest(c)
  \/ StopCheck(c) \/ StopSet(c) \/ StopKill(c) \/ StopTest(c)
  \/ StatusCount(c) \/ StatusCopy(c)

-----------------------------------------------------------------------------
\* sem_post has found the daemon waiting for the lock.  The lock goes to one of
\* its waiters at once: no other task can take it in between.
Handover == lock > 0 /\ \E d \in Daemon : dpc[d] = "lock" /\ d \notin woken

Next ==
  \/ \E c \in Caller : Acquire(c)
  \/ \E d \in Daemon : DaemonSave(d)
  \/ ~Handover /\ \E c \in Caller : Call(c) \/ AwaitSync(c) \/ CallerStep(c)
  \/ ~Handover /\ \E d \in Daemon : DaemonStep(d)

Spec == Init /\ [][Next]_vars

\* Every task that can run does: queries and sleeps end by their timeouts, and
\* the waiters of a semaphore are queued, so that none is passed over for ever.
Fairness ==
  /\ \A c \in Caller : /\ WF_vars(CallerStep(c))
                       /\ SF_vars(Acquire(c))
                       /\ SF_vars(AwaitSync(c))
  /\ \A d \in Daemon : WF_vars(DaemonStep(d)) /\ SF_vars(DaemonSave(d))

LiveSpec == Spec /\ Fairness

-----------------------------------------------------------------------------
(* The properties. *)

\* The shared record, the callers and the daemons stay well formed; only a
\* blocked daemon is interrupted, and the retries stay within their limit.
TypeOK ==
  /\ state \in {"NOT_RUNNING", "STARTED", "RUNNING", "STOP_REQUESTED",
                "STOPPED"}
  /\ lock \in Nat /\ sync \in Nat
  /\ pid \in Daemon \cup {NoPid}
  /\ cpc \in [Caller ->
       {"idle", "unlock", "start_lock", "start_check", "start_set",
        "start_create", "start_fail", "start_wait", "start_test",
        "start_unlock", "stop_lock", "stop_check", "stop_set",
        "stop_kill", "stop_wait", "stop_test", "stop_unlock", "status_lock",
        "status_count", "status_copy", "family_lock"}]
  /\ dpc \in [Daemon -> Active \cup {"none", "end", "end_post", "end_free"}]
  /\ round \in [Daemon -> [i : 0..use.NumSamples - 1,
                           nsamples : 0..use.NumSamples,
                           eintr : BOOLEAN, retries : 0..Retries]]
  /\ woken \subseteq {d \in Daemon : dpc[d] \in Blocking}
  /\ last \in {0, 1} /\ seen \in [Caller -> {0, 1}]

Polling(d) == dpc[d] \in Active

\* No query is answered: the daemon then never takes the lock.
Unanswered == use.Answered = {FALSE}

\* No daemon is interrupted while it waits for the lock, and posts the lock it
\* does not have: no server answers, or ntpc_stop is not called.
Undisturbed == Unanswered \/ "stop" \notin use.Calls

\* One task uses the client.
Alone == \A a, b \in use.callers : a = b

\* "Only one instance of the NTP daemon is permitted in this implementation":
\* as long as the lock is not disturbed, or has a single user, no two daemons
\* poll, or are about to, at the same time.
OneDaemon ==
  Undisturbed \/ Alone =>
    \A d, e \in Daemon : Polling(d) /\ Polling(e) => d = e

\* As long as no server answers, or one task uses the client, no daemon polls
\* when ntpc_stop returns, whatever way it takes.
StopStops ==
  Unanswered \/ Alone =>
    \A c \in Caller : cpc[c] = "stop_unlock" => \A d \in Daemon : ~Polling(d)

\* The callers between sem_wait and sem_post of the lock.
Inside ==
  {c \in Caller : cpc[c] \notin {"idle", "start_lock", "stop_lock",
                                "status_lock", "family_lock"}}

\* The lock "used to protect the whole structure": one caller at most is
\* between sem_wait and sem_post, and the lock is free when none is, as long as
\* no daemon disturbs it.
LockExcludes ==
  Undisturbed => /\ lock = (IF Inside = {} THEN 1 ELSE 0)
                 /\ \A a, b \in Inside : a = b

\* When ntpc_start finds the client started or running, and returns the task ID
\* it finds, that daemon has not announced its end, as long as the lock is not
\* disturbed or has a single user: daemons that give up, or that another task has
\* stopped meanwhile, are not taken for running.
RunningHasDaemon ==
  Undisturbed \/ Alone =>
    \A c \in Caller :
      cpc[c] = "start_check" /\ state \in {"STARTED", "RUNNING"} =>
        \E d \in Daemon : d = pid /\ dpc[d] \in Active \cup {"end"}

\* ntpc_status reports the number of samples and the samples of one round, if
\* ntpc_stop is not called.
StatusOfOneRound ==
  "stop" \notin use.Calls =>
    \A c \in Caller : cpc[c] = "status_copy" => seen[c] = last

\* Every call of ntpc_start returns, if ntpc_stop is not called and memory is
\* not exhausted.
StartReturns ==
  "stop" \notin use.Calls /\ ~use.Exhausted =>
    \A c \in Caller : cpc[c] = "start_lock" ~> cpc[c] = "idle"

\* Every call of ntpc_stop returns.
StopReturns ==
  \A c \in Caller : cpc[c] = "stop_lock" ~> cpc[c] = "idle"

\* No daemon announces its end between the check and the assignment of ntpc_stop,
\* which would overwrite it.
EndNoticed == \A c \in Caller : cpc[c] = "stop_set" => state # "STOPPED"

=============================================================================
