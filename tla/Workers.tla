------------------------------ MODULE Workers ------------------------------
(***************************************************************************)
(* The master process, its workers and the accept mutex they share         *)
(* (ngx_process_cycle.c, ngx_process.c, ngx_event.c, ngx_event_accept.c,   *)
(* ngx_shmtx.c), with the publish timer that the plugin module keeps in    *)
(* every worker (ngx_http_qkplugin_module.c).                              *)
(*                                                                         *)
(* The master sleeps in sigsuspend with its signals blocked elsewhere, so  *)
(* one iteration of its loop is: Wake (the signal handlers, reaping), then *)
(* one of the actions that follow.  A worker's iteration is Enter (the     *)
(* head of its loop up to epoll_wait) and one of the actions that leave    *)
(* epoll_wait; between the two it may hold the accept mutex.               *)
(*                                                                         *)
(* Not modelled: the change of binary, the reopening of logs, cache and    *)
(* other helper processes, the semaphore of ngx_shmtx (the accept mutex    *)
(* only uses trylock), failing epoll_ctl calls (they change nothing), and  *)
(* reuse_port (every worker has sockets and a queue of its own).           *)
(***************************************************************************)
EXTENDS Integers, FiniteSets, Sequences

CONSTANTS
    Confs,            \* per cycle, worker_processes and accept_mutex: [n, mutex]
    ConnectionN,      \* worker_connections
    OtherConnections, \* connections of a worker that are not clients' (listening, nodes)
    Orders,           \* the sequences of signals an administrator may send
    KillDelay,        \* the delay, in units of 50 ms, after which TERM becomes KILL
    MaxPid,           \* bound: processes ever started
    MaxClients,       \* bound: clients that connect
    MaxFaults         \* bound: crashes, failed initialisations, forks and accepts

ASSUME WorkersAssumption ==
    /\ Orders \subseteq Seq({"HUP", "QUIT", "TERM"}) /\ KillDelay \in Nat \ {0}
    /\ Confs \subseteq Seq([n : 1 .. MaxPid, mutex : BOOLEAN]) \ {<<>>}
    /\ ConnectionN \in Nat /\ OtherConnections \in 0 .. ConnectionN
    /\ MaxPid \in Nat /\ MaxClients \in Nat /\ MaxFaults \in Nat

VARIABLES
    master,  \* the master's own state
    signals, \* signals pending for the master
    table,   \* ngx_processes
    last,    \* ngx_last_process
    proc,    \* per process id: the process
    started, \* processes started so far, which is also the last process id
    lock,    \* *ngx_accept_mutex.lock: a process id, or 0
    conf,    \* the configuration of each cycle
    backlog, \* clients in the queue of the listening sockets
    clients, \* clients that have connected
    orders,  \* the administrator's signals to come
    faults   \* faults so far

vars == <<master, signals, table, last, proc, started, lock, conf, backlog, clients, orders, faults>>

Pid == 1 .. MaxPid
Slot == 0 .. MaxPid - 1
Cycle == DOMAIN conf
Clients == ConnectionN - OtherConnections

NoSlot == [pid |-> 0, exiting |-> FALSE, exited |-> FALSE, respawn |-> FALSE, just |-> FALSE]
Spawned(pid, just) == [NoSlot EXCEPT !.pid = pid, !.respawn = TRUE, !.just = just]

\* A process as fork() leaves it, and one that has ended (until the master waits for it).
NoProc == [st |-> "none", fatal |-> FALSE, cycle |-> 0, exiting |-> FALSE, chan |-> {},
           held |-> FALSE, acc |-> "off", dis |-> 0, conns |-> 0, timer |-> FALSE, at |-> "top"]
Forked(cycle) == [NoProc EXCEPT !.st = "init", !.cycle = cycle]
Zombie(fatal) == [NoProc EXCEPT !.st = "zombie", !.fatal = fatal]

\* ngx_use_accept_mutex (ngx_event_process_init, ngx_close_listening_sockets).
UseMutex(r) == conf[r.cycle].n > 1 /\ conf[r.cycle].mutex /\ ~r.exiting

Alive(p) == proc[p].st \in {"init", "run", "hung"}

TypeOK ==
    /\ master \in [up : BOOLEAN, at : {"suspend", "act", "sleep"}, reap : BOOLEAN, quit : BOOLEAN,
                   term : BOOLEAN, hup : BOOLEAN, alrm : BOOLEAN, live : BOOLEAN,
                   delay : 0 .. 2 * KillDelay, sigio : BOOLEAN,
                   cycle : Cycle]
    /\ signals \subseteq {"CHLD", "HUP", "QUIT", "TERM", "ALRM"}
    /\ table \in [Slot -> [pid : 0 .. MaxPid, exiting : BOOLEAN, exited : BOOLEAN,
                           respawn : BOOLEAN, just : BOOLEAN]]
    /\ last \in 0 .. MaxPid /\ started \in 0 .. MaxPid /\ lock \in 0 .. MaxPid
    /\ proc \in [Pid -> [st : {"none", "init", "run", "hung", "zombie", "gone"}, fatal : BOOLEAN,
                         cycle : {0} \cup Cycle, exiting : BOOLEAN,
                         chan : SUBSET {"QUIT", "TERM"}, held : BOOLEAN,
                         acc : {"on", "off", "timer"}, dis : Int, conns : 0 .. Clients,
                         timer : BOOLEAN, at : {"top", "poll", "overloaded"}]]
    /\ conf \in Confs /\ backlog \in 0 .. MaxClients /\ clients \in 0 .. MaxClients
    /\ orders \in Seq({"HUP", "QUIT", "TERM"}) /\ faults \in 0 .. MaxFaults

Fault == faults < MaxFaults /\ faults' = faults + 1

-----------------------------------------------------------------------------
(* Starting. *)

\* ngx_master_process_cycle up to its loop: the first cycle's workers.
Init ==
    /\ conf \in Confs
    /\ master = [up |-> TRUE, at |-> "suspend", reap |-> FALSE, quit |-> FALSE, term |-> FALSE,
                 hup |-> FALSE, alrm |-> FALSE, live |-> TRUE, delay |-> 0, sigio |-> FALSE, cycle |-> 1]
    /\ signals = {}
    /\ table = [i \in Slot |-> IF i < conf[1].n THEN Spawned(i + 1, FALSE) ELSE NoSlot]
    /\ last = conf[1].n /\ started = conf[1].n
    /\ proc = [p \in Pid |-> IF p <= conf[1].n THEN Forked(1) ELSE NoProc]
    /\ lock = 0 /\ backlog = 0 /\ clients = 0 /\ orders \in Orders /\ faults = 0

\* Process ids are given to the slots in the order of the slots.
NewPid(slots, i) == started + 1 + Cardinality({j \in slots : j < i})
NewPids(slots) == started + 1 .. started + Cardinality(slots)
Forks(slots, procs) == [p \in Pid |-> IF p \in NewPids(slots) THEN Forked(master.cycle) ELSE procs[p]]

-----------------------------------------------------------------------------
(* The master. *)

\* An administrator's signal, and the alarm the master has set itself.
Signal ==
    /\ master.up /\ orders # <<>> /\ Head(orders) \notin signals
    /\ signals' = signals \cup {Head(orders)} /\ orders' = Tail(orders)
    /\ UNCHANGED <<master, table, last, proc, started, lock, conf, backlog, clients, faults>>

Alarm ==
    /\ master.up /\ master.delay # 0 /\ master.at = "suspend" /\ "ALRM" \notin signals
    /\ signals' = signals \cup {"ALRM"}
    /\ UNCHANGED <<master, table, last, proc, started, lock, conf, backlog, clients, orders, faults>>

\* Fault: the mutexes of a process that has ended are left alone.
KeepMutexes == lock

\* ngx_process_get_status and ngx_unlock_mutexes, for every process that has ended.
Ended == IF "CHLD" \in signals THEN {p \in Pid : proc[p].st = "zombie"} ELSE {}
Waited ==
    [i \in Slot |-> IF i < last /\ table[i].pid \in Ended
                      THEN [table[i] EXCEPT !.exited = TRUE,
                                            !.respawn = @ /\ ~proc[table[i].pid].fatal]
                      ELSE table[i]]
UnlockMutexes == IF lock \in Ended THEN 0 ELSE lock

\* ngx_signal_handler: the flags the pending signals set.
Handled ==
    [master EXCEPT !.quit = @ \/ "QUIT" \in signals, !.term = @ \/ "TERM" \in signals,
                   !.hup = @ \/ "HUP" \in signals, !.alrm = @ \/ "ALRM" \in signals,
                   !.reap = @ \/ "CHLD" \in signals]

\* ngx_reap_children on the table t: the slots that are freed, and those that are
\* respawned, of which some fork may fail and leave its slot as it is.
Exited(t) == {i \in Slot : i < last /\ t[i].pid # 0 /\ t[i].exited}
Respawns(t, m) ==
    {i \in Exited(t) : t[i].respawn /\ ~t[i].exiting /\ ~m.term /\ ~m.quit}
Reaped(t, m, forked) ==
    [i \in Slot |->
        IF i \in forked THEN [t[i] EXCEPT !.pid = NewPid(forked, i), !.exited = FALSE]
        ELSE IF i \in Exited(t) \ Respawns(t, m) THEN NoSlot
        ELSE t[i]]
\* Fault: processes that are exiting do not count.
LiveCurrent(t, forked) ==
    forked # {} \/ \E i \in Slot : i < last /\ t[i].pid # 0 /\ ~t[i].exited /\ ~t[i].exiting
Live(t, forked) == forked # {} \/ \E i \in Slot : i < last /\ t[i].pid # 0 /\ ~t[i].exited

\* Fault: the delay is not doubled.
SuspendNoDelay(m) == [m EXCEPT !.at = "suspend", !.alrm = FALSE, !.sigio = m.sigio /\ ~m.alrm]

\* The head of the loop: an alarm lets the next command out and doubles the delay.
Suspend(m) ==
    IF m.delay # 0 /\ m.alrm
      THEN [m EXCEPT !.at = "suspend", !.alrm = FALSE, !.sigio = FALSE,
                     !.delay = IF @ > KillDelay THEN @ ELSE 2 * @]
      ELSE [m EXCEPT !.at = "suspend"]

\* What follows the reaping: exit if nothing is left of a process that is to end, a
\* command to the workers, a reconfiguration, or the next iteration.
Acts(m) ==
    IF ~m.live /\ (m.term \/ m.quit) THEN [m EXCEPT !.up = FALSE]
    ELSE IF m.term \/ m.quit \/ m.hup THEN [m EXCEPT !.at = "act"]
    ELSE Suspend(m)

\* sigsuspend returns: the handlers have run; ngx_reap_children if a child has ended.
Wake ==
    LET m == Handled
        t == Waited
        zombies == [p \in Pid |-> IF p \in Ended THEN [NoProc EXCEPT !.st = "gone"] ELSE proc[p]]
    IN
    /\ master.up /\ master.at = "suspend" /\ signals # {}
    /\ signals' = {} /\ lock' = UnlockMutexes
    /\ IF m.reap
         THEN \E forked \in SUBSET Respawns(t, m) :
                /\ \/ forked = Respawns(t, m) /\ UNCHANGED faults
                   \/ Cardinality(Respawns(t, m) \ forked) = 1 /\ Fault
                /\ started + Cardinality(forked) <= MaxPid
                /\ table' = Reaped(t, m, forked) /\ proc' = Forks(forked, zombies)
                /\ started' = started + Cardinality(forked)
                /\ last' = IF last - 1 \in Exited(t) \ Respawns(t, m) THEN last - 1 ELSE last
                /\ LET live == Live(t, forked) IN
                   master' = Acts([m EXCEPT !.reap = FALSE, !.live = live])
         ELSE /\ master' = Acts(m)
              /\ table' = t /\ proc' = zombies
              /\ UNCHANGED <<last, started, faults>>
    /\ UNCHANGED <<conf, backlog, clients, orders>>

\* Fault: the new cycle's workers are not left out.
ToldJustSpawned(cmd) ==
    {i \in Slot : i < last /\ table[i].pid # 0 /\ ~(table[i].exiting /\ cmd = "QUIT")}

\* ngx_signal_worker_processes: a command through the channel, or SIGKILL.  A process of
\* the cycle that has just been started is left alone once; a slot whose process could not
\* be respawned is marked to be reaped again.
Told(cmd) ==
    {i \in Slot : /\ i < last /\ table[i].pid # 0 /\ ~table[i].just
                  /\ ~(table[i].exiting /\ cmd = "QUIT")}
ToldTable(cmd) ==
    [i \in Slot |-> IF i \in Told(cmd) THEN [table[i] EXCEPT !.exiting = ~table[i].exited]
                    ELSE IF i < last THEN [table[i] EXCEPT !.just = FALSE]
                    ELSE table[i]]
ToldProc(cmd) ==
    [p \in Pid |-> IF Alive(p) /\ \E i \in Told(cmd) : table[i].pid = p
                     THEN IF cmd = "KILL" THEN Zombie(FALSE)
                          ELSE [proc[p] EXCEPT !.chan = @ \cup {cmd}]
                     ELSE proc[p]]
SignalWorkerProcesses(cmd) ==
    /\ table' = ToldTable(cmd) /\ proc' = ToldProc(cmd)
    /\ signals' = IF cmd = "KILL" /\ \E p \in Pid : Alive(p) /\ proc'[p].st = "zombie"
                    THEN signals \cup {"CHLD"} ELSE signals
    /\ UNCHANGED <<last, started, lock, conf, backlog, clients, orders, faults>>
LostChild(cmd) == \E i \in Told(cmd) : table[i].exited

\* ngx_terminate: TERM, and KILL once the delay has grown.  sigio is whether the count of
\* that name is positive: each command is followed by some wake-ups that only count it
\* down, until it is zero or an alarm makes it so.
Terminate ==
    /\ master.up /\ master.at = "act" /\ master.term
    /\ LET m == [master EXCEPT !.delay = IF @ = 0 THEN 1 ELSE @]
           cmd == IF m.delay > KillDelay THEN "KILL" ELSE "TERM"
       IN \/ /\ master.sigio
             /\ \E s \in BOOLEAN : master' = Suspend([m EXCEPT !.sigio = s])
             /\ UNCHANGED <<signals, table, last, proc, started, lock, conf, backlog, clients, orders, faults>>
          \/ /\ ~master.sigio
             /\ SignalWorkerProcesses(cmd)
             /\ master' = Suspend([m EXCEPT !.sigio = TRUE, !.reap = @ \/ LostChild(cmd)])

\* ngx_quit.
Quit ==
    /\ master.up /\ master.at = "act" /\ master.quit /\ ~master.term
    /\ SignalWorkerProcesses("QUIT")
    /\ master' = Suspend([master EXCEPT !.reap = @ \/ LostChild("QUIT")])

\* ngx_reconfigure: a new cycle, unless its configuration is wrong; its workers, in the
\* first free slots (a fork may fail).
FreeSlots == {i \in Slot : i >= last \/ table[i].pid = 0}
FirstFree(n) == {i \in FreeSlots : Cardinality({j \in FreeSlots : j < i}) < n}
StartWorkerProcesses(n) ==
    /\ started + n <= MaxPid
    /\ table' = [i \in Slot |-> IF i \in FirstFree(n) THEN Spawned(NewPid(FirstFree(n), i), TRUE)
                                ELSE table[i]]
    /\ proc' = [p \in Pid |-> IF p \in started + 1 .. started + n
                                THEN Forked(master.cycle + 1) ELSE proc[p]]
    /\ started' = started + n
    /\ last' = CHOOSE k \in last .. MaxPid :
                  /\ \A i \in FirstFree(n) : i < k
                  /\ k = last \/ k - 1 \in FirstFree(n)
Reconfigure ==
    /\ master.up /\ master.at = "act" /\ ~master.quit /\ ~master.term /\ master.hup
    /\ \/ /\ master' = Suspend([master EXCEPT !.hup = FALSE])
          /\ UNCHANGED <<table, last, proc, started, faults>>
       \/ /\ master.cycle + 1 \in Cycle
          /\ \/ StartWorkerProcesses(conf[master.cycle + 1].n) /\ UNCHANGED faults
             \/ StartWorkerProcesses(conf[master.cycle + 1].n - 1) /\ Fault
          /\ master' = [master EXCEPT !.hup = FALSE, !.cycle = @ + 1, !.at = "sleep", !.live = TRUE]
    /\ UNCHANGED <<signals, lock, conf, backlog, clients, orders>>

\* After ngx_msleep(100): the workers of the earlier cycles are told to quit.
ShutOldDown ==
    /\ master.up /\ master.at = "sleep"
    /\ SignalWorkerProcesses("QUIT")
    /\ master' = Suspend([master EXCEPT !.reap = @ \/ LostChild("QUIT")])

Master == Wake \/ Terminate \/ Quit \/ Reconfigure \/ ShutOldDown

-----------------------------------------------------------------------------
(* A worker. *)

Ends(p, fatal) ==
    /\ proc' = [proc EXCEPT ![p] = Zombie(fatal)]
    /\ signals' = signals \cup {"CHLD"}

\* ngx_worker_process_init: the listening sockets' events are added at once unless the
\* accept mutex is used; the plugin is loaded and its publish timer set.
StartProcess(p) ==
    /\ proc[p].st = "init"
    /\ proc' = [proc EXCEPT ![p].st = "run", ![p].timer = TRUE,
                            ![p].acc = IF UseMutex(proc[p]) THEN "off" ELSE "on",
                            ![p].at = IF UseMutex(proc[p]) THEN "top" ELSE "poll"]
    /\ UNCHANGED <<master, signals, table, last, started, lock, conf, backlog, clients, orders, faults>>

\* The plugin cannot be loaded or initialised: exit(2).
InitFails(p) ==
    /\ proc[p].st = "init" /\ Fault /\ Ends(p, TRUE)
    /\ UNCHANGED <<master, table, last, started, lock, conf, backlog, clients, orders>>

\* Any signal that ends a process, at any time.
Crash(p) ==
    /\ Alive(p) /\ Fault /\ Ends(p, FALSE)
    /\ UNCHANGED <<master, table, last, started, lock, conf, backlog, clients, orders>>

\* Fault: a worker that fails to get the lock keeps its accept events.
TryLockKeepsEvents(p) ==
    \/ /\ lock = 0 /\ lock' = p
       /\ proc' = [proc EXCEPT ![p].held = TRUE, ![p].acc = "on", ![p].at = "poll"]
    \/ /\ lock # 0 /\ UNCHANGED lock
       /\ proc' = [proc EXCEPT ![p].held = FALSE, ![p].at = "poll"]
\* Fault: the accept events are not added again.
TryLockNoEvents(p) ==
    \/ lock = 0 /\ lock' = p /\ proc' = [proc EXCEPT ![p].held = TRUE, ![p].at = "poll"]
    \/ lock # 0 /\ UNCHANGED lock /\ proc' = [proc EXCEPT ![p].held = FALSE, ![p].at = "poll"]

\* ngx_trylock_accept_mutex.
TryLock(p) ==
    \/ /\ lock = 0 /\ lock' = p
       /\ proc' = [proc EXCEPT ![p].held = TRUE, ![p].acc = "on", ![p].at = "poll"]
    \/ /\ lock # 0 /\ UNCHANGED lock
       /\ proc' = [proc EXCEPT ![p].acc = IF proc[p].held THEN "off" ELSE @,
                               ![p].held = FALSE, ![p].at = "poll"]

\* The head of ngx_process_events_and_timers, in a worker that uses the mutex.
Enter(p) ==
    /\ proc[p].st = "run" /\ proc[p].at = "top"
    /\ \/ proc[p].dis <= 0 /\ TryLock(p)
       \/ /\ proc[p].dis > 0 /\ UNCHANGED lock
          /\ proc' = [proc EXCEPT ![p].dis = @ - 1, ![p].at = "overloaded"]
    /\ UNCHANGED <<master, signals, table, last, started, conf, backlog, clients, orders, faults>>

\* ngx_event_accept: one connection, unless none is free; or too many open files.
Ready(p) == proc[p].acc = "on" /\ backlog > 0
Accepted(r) ==
    [r EXCEPT !.dis = (ConnectionN \div 8) - (Clients - r.conns),
              !.conns = IF r.conns < Clients THEN @ + 1 ELSE @]
NoFiles(r) ==
    IF UseMutex(r) THEN [r EXCEPT !.acc = "off", !.held = FALSE, !.dis = 1] ELSE [r EXCEPT !.acc = "timer"]

\* Fault: the publish handler always sets its timer again.
ExpiredRearms(r, fin, pub) ==
    [r EXCEPT !.conns = IF fin THEN @ - 1 ELSE @,
              !.acc = IF @ = "timer" /\ pub THEN (IF r.exiting THEN "off" ELSE "on") ELSE @]
\* Expired timers: of a client's request, which ends it, of the listening sockets after a
\* failed accept, and ngx_http_qkplugin_publish_handler, which sets its timer again
\* unless the worker is exiting.
Expired(r, fin, pub) ==
    [r EXCEPT !.conns = IF fin THEN @ - 1 ELSE @,
              !.acc = IF @ = "timer" /\ pub THEN (IF r.exiting THEN "off" ELSE "on") ELSE @,
              !.timer = @ /\ ~(pub /\ r.exiting)]

\* ngx_channel_handler, ngx_quit: the listening sockets are closed.
CloseListening(r) ==
    IF "QUIT" \in r.chan /\ ~r.exiting
      THEN [r EXCEPT !.exiting = TRUE, !.held = FALSE, !.acc = IF @ = "timer" THEN @ ELSE "off",
                     !.chan = {}]
      ELSE [r EXCEPT !.chan = {}]

\* ngx_shmtx_unlock: only the process whose id is in the lock can clear it.
Unlock(p) == IF lock = p THEN 0 ELSE lock

\* The timer tree is empty: a client's request has a timer of its own.
NoTimers(r) == ~r.timer /\ r.conns = 0 /\ r.acc # "timer"

\* The end of an iteration, and the head of the next in a worker that does not use the
\* mutex (it touches nothing that is shared): an exiting worker without timers exits.
Iterate(p, r) ==
    IF r.exiting /\ NoTimers(r)
      THEN Ends(p, FALSE)
      ELSE /\ proc' = [proc EXCEPT ![p] = [r EXCEPT !.at = IF UseMutex(r) THEN "top" ELSE "poll"]]
           /\ UNCHANGED signals

\* ngx_process_events_and_timers from epoll_wait on, and the rest of the worker's loop.
\* What woke it up: a client, a command, a timer (fin, pub), or the delay of a worker that
\* waits for the mutex.  A handler that runs after the accepts may block for good: the
\* calls to the access-control service and the loading of the map and the scripts.
Events(p, fin, pub) ==
    LET r == proc[p]
        next(s) == Iterate(p, CloseListening(Expired(s, fin, pub)))
    IN
    /\ r.st = "run" /\ r.at # "top"
    /\ fin => r.conns > 0
    /\ pub => r.timer \/ r.acc = "timer"
    /\ Ready(p) \/ r.chan # {} \/ fin \/ pub \/ (r.at = "poll" /\ UseMutex(r) /\ ~r.held)
    /\ lock' = IF r.held THEN Unlock(p) ELSE lock
    /\ \/ /\ "TERM" \in r.chan /\ Ends(p, FALSE) /\ UNCHANGED faults
          /\ backlog' = IF Ready(p) THEN backlog - 1 ELSE backlog
       \/ /\ "TERM" \notin r.chan
          /\ \/ ~Ready(p) /\ next(r) /\ UNCHANGED <<backlog, faults>>
             \/ Ready(p) /\ next(Accepted(r)) /\ backlog' = backlog - 1 /\ UNCHANGED faults
             \/ Ready(p) /\ next(NoFiles(r)) /\ UNCHANGED backlog /\ Fault
       \/ /\ proc' = [proc EXCEPT ![p].st = "hung"] /\ Fault /\ UNCHANGED signals
          /\ backlog' = IF Ready(p) /\ r.held THEN backlog - 1 ELSE backlog
    /\ UNCHANGED <<master, table, last, started, conf, clients, orders>>

Worker(p) == StartProcess(p) \/ Enter(p) \/ \E fin, pub \in BOOLEAN : Events(p, fin, pub)

-----------------------------------------------------------------------------
\* A client connects: the sockets stay open in the master while it runs.
Connect ==
    /\ master.up /\ ~master.quit /\ ~master.term /\ clients < MaxClients
    /\ clients' = clients + 1 /\ backlog' = backlog + 1
    /\ UNCHANGED <<master, signals, table, last, proc, started, lock, conf, orders, faults>>

Next ==
    \/ Signal \/ Alarm \/ Master \/ Connect
    \/ \E p \in Pid : Worker(p) \/ InitFails(p) \/ Crash(p)

Spec == Init /\ [][Next]_vars

-----------------------------------------------------------------------------
(* Properties. *)

\* The accept mutex belongs to a worker inside its poll, or to one that has ended and that
\* the master has not waited for yet: no path, an exit in the middle of a poll, a full
\* descriptor table or a shutdown, leaves it with a process that will not release it
\* (ngx_shmtx_unlock, ngx_unlock_mutexes).
LockOwner ==
    lock # 0 => \/ proc[lock].st = "run" /\ proc[lock].at = "poll" /\ proc[lock].held
                \/ proc[lock].st = "zombie" /\ "CHLD" \in signals

\* With the accept mutex, a worker that polls the listening sockets without having tried
\* the lock is one that found itself overloaded: all others accept by turn
\* (ngx_trylock_accept_mutex, ngx_accept_disabled).
AcceptsByTurn ==
    LET InTurn(p) == /\ proc[p].st = "run" /\ UseMutex(proc[p])
                     /\ proc[p].at = "poll" /\ proc[p].acc = "on"
    IN \A p, q \in Pid : InTurn(p) /\ InTurn(q) => p = q

\* The master knows all its children, each in one slot, and does not exit before them
\* (ngx_spawn_process, ngx_reap_children, ngx_master_process_exit).
NoOrphan ==
    \A p \in Pid : proc[p].st \in {"init", "run", "hung", "zombie"} =>
        /\ master.up
        /\ \E i \in Slot : i < last /\ \A j \in Slot : j < last /\ table[j].pid = p <=> j = i

\* Unless everything is to end, exactly the workers of earlier cycles are told to quit:
\* a crash, a respawn or a failed fork during a reload neither leaves an old worker
\* running nor stops a new one (ngx_signal_worker_processes, just_spawn).
ReloadSplits ==
    master.up /\ ~master.quit /\ ~master.term /\ master.at # "sleep" =>
        \A i \in Slot : i < last /\ table[i].pid # 0 /\ Alive(table[i].pid) =>
            (table[i].exiting <=> proc[table[i].pid].cycle < master.cycle)

-----------------------------------------------------------------------------
(* Liveness. *)

\* The master and the kernel's timers always get to run; so do the workers, a request's
\* timers and the publish timer expire again and again in a worker that polls.
MasterFair == WF_vars(Master) /\ WF_vars(Alarm)
WorkerFair ==
    \A p \in Pid :
        /\ WF_vars(StartProcess(p) \/ Enter(p) \/ Events(p, FALSE, FALSE))
        /\ SF_vars(Events(p, proc[p].conns > 0, proc[p].timer \/ proc[p].acc = "timer"))

FairSpec == Spec /\ MasterFair /\ WorkerFair

Hung == \E p \in Pid : proc[p].st = "hung"

\* QUIT ends everything once the workers have drained, and TERM a worker that is blocked
\* for good as well: the delay grows until SIGKILL is sent (ngx_master_process_cycle).
Shuts == master.quit \/ master.term ~> ~master.up \/ (Hung /\ ~master.term)

\* A worker that is told to quit ends, unless it is blocked: its requests end by their
\* timers, and the publish timer is not set again (ngx_http_qkplugin_publish_handler).
Draining == \E p \in Pid : proc[p].st = "run" /\ proc[p].exiting
Drains == Draining ~> ~Draining

\* A client in the queue is accepted, or refused for want of connections, unless every
\* worker is blocked or was given up: neither the end of a worker, which is replaced and
\* whose mutex is released, nor one that is blocked, nor a reload, leaves the client there
\* (ngx_reap_children, ngx_process_events_and_timers).
Abandoned ==
    \A i \in Slot : i < last /\ table[i].pid # 0 =>
        table[i].exited \/ proc[table[i].pid].st = "hung"
Served == backlog > 0 ~> backlog = 0 \/ master.quit \/ master.term \/ Abandoned
=============================================================================
