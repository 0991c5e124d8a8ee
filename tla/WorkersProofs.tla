--------------------------- MODULE WorkersProofs ---------------------------
(***************************************************************************)
(* The accept mutex and the table of processes, for any number of workers, *)
(* reloads and faults: the mutex is never left with a process that will    *)
(* not release it (LockOwner), the workers that are not overloaded accept  *)
(* by turn (AcceptsByTurn), the master knows every child by one slot       *)
(* (NoOrphan) and a reload tells exactly the old workers to quit           *)
(* (ReloadSplits).                                                         *)
(*                                                                         *)
(* None is inductive.  MutexInv adds what the event loop keeps between the *)
(* first two: the flag ngx_accept_mutex_held stays set after the unlock,   *)
(* so it means the lock only inside the poll; accept events are only       *)
(* active with the flag; process ids are fresh.  TableInv adds what the    *)
(* master keeps between the last two: an exited slot's process is gone, no *)
(* slot from ngx_last_process on is in use, live is set while there is a   *)
(* child, and just_spawn means the current cycle exactly until the old     *)
(* workers have been told.                                                 *)
(***************************************************************************)
EXTENDS Workers, FiniteSetTheorems, WellFoundedInduction, TLAPS

\* The records of the processes and of the master, without bounds.
PRec == [st : {"none", "init", "run", "hung", "zombie", "gone"}, fatal : BOOLEAN,
         cycle : Nat, exiting : BOOLEAN, chan : SUBSET {"QUIT", "TERM"}, held : BOOLEAN,
         acc : {"on", "off", "timer"}, dis : Int, conns : Int,
         timer : BOOLEAN, at : {"top", "poll", "overloaded"}]

MRec == [up : BOOLEAN, at : {"suspend", "act", "sleep"}, reap : BOOLEAN, quit : BOOLEAN,
         term : BOOLEAN, hup : BOOLEAN, alrm : BOOLEAN, live : BOOLEAN,
         delay : Nat, sigio : BOOLEAN, cycle : Nat]

Types ==
    /\ master \in MRec /\ proc \in [Pid -> PRec] /\ started \in Nat
    /\ lock \in {0} \cup Pid /\ conf \in Confs

\* What a process's record must be, given that it has the lock or not.
Fit(r, owns) ==
    /\ r.st = "init" => ~r.held
    /\ r.st = "run" /\ r.at = "poll" /\ r.held => owns
    /\ r.st = "run" /\ (r.held \/ r.at = "top") => UseMutex(r)
    /\ r.st = "run" /\ UseMutex(r) /\ r.acc # "off" => r.acc = "on" /\ r.held

\* A process that may have the lock.
Owns(r, pending) ==
    \/ r.st = "run" /\ r.at = "poll" /\ r.held
    \/ r.st = "zombie" /\ pending

\* The inductive invariant.
MutexInv ==
    /\ Types
    /\ \A p \in Pid : p > started => proc[p].st = "none"
    /\ \A p \in Pid : Fit(proc[p], lock = p)
    /\ lock # 0 => Owns(proc[lock], "CHLD" \in signals)

-----------------------------------------------------------------------------
(* The records. *)

\* A new process (ngx_spawn_process) does not have the flag; one that has ended is just that.
LEMMA FreshRecords ==
    /\ NoProc \in PRec
    /\ \A c \in Nat : Forked(c) \in PRec /\ Forked(c).st = "init" /\ Forked(c).held = FALSE
    /\ \A b \in BOOLEAN : Zombie(b) \in PRec /\ Zombie(b).st = "zombie"
    /\ [NoProc EXCEPT !.st = "gone"] \in PRec /\ [NoProc EXCEPT !.st = "gone"].st = "gone"
<1>1. NoProc \in PRec /\ NoProc.held = FALSE
  BY DEF NoProc, PRec
<1>2. ASSUME NEW c \in Nat
      PROVE  Forked(c) \in PRec /\ Forked(c).st = "init" /\ Forked(c).held = FALSE
  BY <1>1, Zenon DEF Forked, PRec
<1>3. ASSUME NEW b \in BOOLEAN
      PROVE  Zombie(b) \in PRec /\ Zombie(b).st = "zombie"
  BY <1>1, Zenon DEF Zombie, PRec
<1>4. [NoProc EXCEPT !.st = "gone"] \in PRec /\ [NoProc EXCEPT !.st = "gone"].st = "gone"
  BY <1>1 DEF PRec
<1> QED
  BY <1>1, <1>2, <1>3, <1>4, Zenon

\* Accepting a connection changes the connections and ngx_accept_disabled only.
LEMMA AcceptedRecord ==
    ASSUME NEW r \in PRec
    PROVE  /\ Accepted(r) \in PRec
           /\ Accepted(r).st = r.st /\ Accepted(r).at = r.at /\ Accepted(r).held = r.held
           /\ Accepted(r).acc = r.acc /\ Accepted(r).exiting = r.exiting
           /\ Accepted(r).cycle = r.cycle
<1>1. (ConnectionN \div 8) - (Clients - r.conns) \in Int
  BY WorkersAssumption DEF Clients, PRec
<1> DEFINE d == (ConnectionN \div 8) - (Clients - r.conns)
           c == IF r.conns < Clients THEN r.conns + 1 ELSE r.conns
<1>2. c \in Int
  BY WorkersAssumption DEF Clients, PRec
<1>3. Accepted(r) = [r EXCEPT !.dis = d, !.conns = c]
  BY DEF Accepted
<1> HIDE DEF d, c
<1>4. d \in Int
  BY <1>1 DEF d
<1> QED
  BY <1>2, <1>3, <1>4, ZenonT(40) DEF PRec

\* Too many open files: a worker that uses the mutex drops its accept events and the flag.
LEMMA NoFilesRecord ==
    ASSUME NEW r \in PRec
    PROVE  /\ NoFiles(r) \in PRec
           /\ NoFiles(r).st = r.st /\ NoFiles(r).at = r.at
           /\ NoFiles(r).exiting = r.exiting /\ NoFiles(r).cycle = r.cycle
           /\ UseMutex(r) => NoFiles(r).acc = "off" /\ NoFiles(r).held = FALSE
           /\ ~UseMutex(r) => NoFiles(r).held = r.held
<1>1. CASE UseMutex(r)
  <2> DEFINE s == [r EXCEPT !.acc = "off", !.held = FALSE]
  <2>1. NoFiles(r) = [s EXCEPT !.dis = 1]
    BY <1>1 DEF NoFiles
  <2>2. /\ s \in PRec
        /\ s.st = r.st /\ s.at = r.at /\ s.exiting = r.exiting /\ s.cycle = r.cycle
        /\ s.acc = "off" /\ s.held = FALSE
    BY Zenon DEF PRec
  <2> HIDE DEF s
  <2>3. /\ NoFiles(r) \in PRec
        /\ NoFiles(r).st = r.st /\ NoFiles(r).at = r.at
        /\ NoFiles(r).exiting = r.exiting /\ NoFiles(r).cycle = r.cycle
        /\ NoFiles(r).acc = "off" /\ NoFiles(r).held = FALSE
    BY <2>1, <2>2 DEF PRec
  <2> QED
    BY <1>1, <2>3, Zenon
<1>2. CASE ~UseMutex(r)
  <2>1. NoFiles(r) = [r EXCEPT !.acc = "timer"]
    BY <1>2 DEF NoFiles
  <2>2. /\ NoFiles(r) \in PRec
        /\ NoFiles(r).st = r.st /\ NoFiles(r).at = r.at
        /\ NoFiles(r).exiting = r.exiting /\ NoFiles(r).cycle = r.cycle
        /\ NoFiles(r).held = r.held
    BY <2>1 DEF PRec
  <2> QED
    BY <1>2, <2>2, Zenon
<1> QED
  BY <1>1, <1>2, Zenon

\* Expired timers change the accept events only where they were off for a while.
LEMMA ExpiredRecord ==
    ASSUME NEW r \in PRec, NEW fin \in BOOLEAN, NEW pub \in BOOLEAN
    PROVE  LET s == Expired(r, fin, pub) IN
           /\ s \in PRec
           /\ s.st = r.st /\ s.at = r.at /\ s.held = r.held
           /\ s.exiting = r.exiting /\ s.cycle = r.cycle
           /\ r.acc # "timer" => s.acc = r.acc
<1> DEFINE c == IF fin THEN r.conns - 1 ELSE r.conns
           a == IF r.acc = "timer" /\ pub THEN (IF r.exiting THEN "off" ELSE "on") ELSE r.acc
           t == r.timer /\ ~(pub /\ r.exiting)
<1>1. c \in Int /\ a \in {"on", "off", "timer"} /\ t \in BOOLEAN /\ (r.acc # "timer" => a = r.acc)
  BY DEF PRec
<1>2. Expired(r, fin, pub) = [r EXCEPT !.conns = c, !.acc = a, !.timer = t]
  BY DEF Expired
<1> HIDE DEF c, a, t
<1> QED
  BY <1>1, <1>2, ZenonT(40) DEF PRec

\* The worker goes on as it was, or is exiting and without the flag (ngx_close_listening_sockets).
LEMMA CloseListeningRecord ==
    ASSUME NEW r \in PRec
    PROVE  LET s == CloseListening(r) IN
           /\ s \in PRec
           /\ s.st = r.st /\ s.at = r.at /\ s.cycle = r.cycle
           /\ \/ s.exiting = r.exiting /\ s.held = r.held /\ s.acc = r.acc
              \/ s.exiting = TRUE /\ s.held = FALSE
<1>1. CASE "QUIT" \in r.chan /\ ~r.exiting
  <2> DEFINE a == IF r.acc = "timer" THEN r.acc ELSE "off"
  <2>1. CloseListening(r) = [r EXCEPT !.exiting = TRUE, !.held = FALSE, !.acc = a, !.chan = {}]
    BY <1>1 DEF CloseListening
  <2>2. a \in {"on", "off", "timer"}
    BY DEF PRec
  <2> HIDE DEF a
  <2> QED
    BY <2>1, <2>2, Zenon DEF PRec
<1>2. CASE ~("QUIT" \in r.chan /\ ~r.exiting)
  <2>1. CloseListening(r) = [r EXCEPT !.chan = {}]
    BY <1>2 DEF CloseListening
  <2> QED
    BY <2>1 DEF PRec
<1> QED
  BY <1>1, <1>2, Zenon

\* The head of the master's loop keeps its record well formed.
LEMMA SuspendRecord ==
    ASSUME NEW m \in MRec
    PROVE  Suspend(m) \in MRec
<1> DEFINE d == IF m.delay > KillDelay THEN m.delay ELSE 2 * m.delay
<1>1. d \in Nat
  BY WorkersAssumption DEF MRec
<1>2. \/ Suspend(m) = [m EXCEPT !.at = "suspend", !.alrm = FALSE, !.sigio = FALSE, !.delay = d]
      \/ Suspend(m) = [m EXCEPT !.at = "suspend"]
  BY DEF Suspend
<1> HIDE DEF d
<1> QED
  BY <1>1, <1>2, ZenonT(40) DEF MRec

\* So do the signal handlers,
LEMMA HandledRecord ==
    ASSUME master \in MRec
    PROVE  Handled \in MRec
<1> DEFINE q == master.quit \/ "QUIT" \in signals
           t == master.term \/ "TERM" \in signals
           h == master.hup \/ "HUP" \in signals
           a == master.alrm \/ "ALRM" \in signals
           c == master.reap \/ "CHLD" \in signals
<1>1. q \in BOOLEAN /\ t \in BOOLEAN /\ h \in BOOLEAN /\ a \in BOOLEAN /\ c \in BOOLEAN
  BY Zenon
<1> DEFINE m == [master EXCEPT !.quit = q, !.term = t]
           n == [m EXCEPT !.hup = h, !.alrm = a]
<1>2. Handled = [n EXCEPT !.reap = c]
  BY DEF Handled
<1> HIDE DEF q, t, h, a, c
<1>3. m \in MRec
  BY <1>1, Zenon DEF MRec
<1> HIDE DEF m
<1>4. n \in MRec
  BY <1>1, <1>3, Zenon DEF MRec
<1> HIDE DEF n
<1> QED
  BY <1>1, <1>2, <1>4 DEF MRec

\* a new cycle,
LEMMA NewCycleRecord ==
    ASSUME NEW m \in MRec
    PROVE  [m EXCEPT !.hup = FALSE, !.cycle = @ + 1, !.at = "sleep", !.live = TRUE] \in MRec
<1> DEFINE c == m.cycle + 1
           n == [m EXCEPT !.hup = FALSE, !.cycle = c]
<1>1. c \in Nat
  BY DEF MRec
<1>2. [m EXCEPT !.hup = FALSE, !.cycle = @ + 1, !.at = "sleep", !.live = TRUE]
        = [n EXCEPT !.at = "sleep", !.live = TRUE]
  OBVIOUS
<1> HIDE DEF c
<1>3. n \in MRec
  BY <1>1, Zenon DEF MRec
<1> HIDE DEF n
<1> QED
  BY <1>2, <1>3, Zenon DEF MRec

\* and the choice of what follows the reaping.
LEMMA ActsRecord ==
    ASSUME NEW m \in MRec
    PROVE  Acts(m) \in MRec
<1>1. \/ Acts(m) = [m EXCEPT !.up = FALSE] \/ Acts(m) = [m EXCEPT !.at = "act"]
      \/ Acts(m) = Suspend(m)
  BY DEF Acts
<1> QED
  BY <1>1, SuspendRecord, ZenonT(30) DEF MRec

-----------------------------------------------------------------------------
(* The steps. *)

\* A step of one process that has been started: the others are as they were, and the
\* lock changes only to or from that process.
LEMMA OneProcess ==
    ASSUME MutexInv,
           NEW p \in Pid, NEW r \in PRec, proc[p].st # "none",
           proc' = [proc EXCEPT ![p] = r],
           UNCHANGED <<master, started, conf>>, signals \subseteq signals',
           lock' = lock \/ (lock = 0 /\ lock' = p) \/ (lock = p /\ lock' = 0),
           Fit(r, lock' = p),
           lock' = p => Owns(r, "CHLD" \in signals')
    PROVE  MutexInv'
<1> USE DEF MutexInv, Types
<1>1. /\ proc' \in [Pid -> PRec] /\ proc'[p] = r
      /\ \A q \in Pid : q # p => proc'[q] = proc[q]
  OBVIOUS
<1>2. Types'
  BY <1>1
<1>3. \A q \in Pid : q > started' => proc'[q].st = "none"
  BY <1>1
<1>4. ASSUME NEW q \in Pid
      PROVE  Fit(proc[q], lock = q)'
  <2>1. CASE q = p
    BY <2>1, <1>1 DEF Fit, UseMutex
  <2>2. CASE q # p
    <3>1. proc'[q] = proc[q] /\ (lock = q => lock' = q) /\ Fit(proc[q], lock = q)
      BY <2>2, <1>1 DEF Pid
    <3> QED
      BY <3>1, Zenon DEF Fit, UseMutex
  <2> QED
    BY <2>1, <2>2
<1>5. lock' # 0 => Owns(proc'[lock'], "CHLD" \in signals')
  <2>1. CASE lock' = p
    BY <2>1, <1>1
  <2>2. CASE lock' # p /\ lock' # 0
    <3>1. lock' = lock /\ lock \in Pid /\ proc'[lock] = proc[lock]
      BY <2>2, <1>1
    <3> QED
      BY <2>2, <3>1 DEF Owns
  <2> QED
    BY <2>1, <2>2
<1> QED
  BY <1>2, <1>3, <1>4, <1>5 DEF Owns

\* A command to the workers: it ends them or is put into their channels.
LEMMA SignalWorkersStep ==
    ASSUME MutexInv, NEW cmd \in {"QUIT", "TERM", "KILL"},
           SignalWorkerProcesses(cmd), master' \in MRec
    PROVE  MutexInv'
<1> USE DEF MutexInv, Types
<1>1. UNCHANGED <<started, lock, conf>> /\ signals \subseteq signals'
  BY DEF SignalWorkerProcesses
<1>2. ASSUME NEW q \in Pid
      PROVE  /\ proc'[q] \in PRec
             /\ \/ proc'[q] = proc[q]
                \/ /\ Alive(q) /\ proc'[q].st = "zombie" /\ "CHLD" \in signals'
                \/ /\ Alive(q)
                   /\ proc'[q] = [proc[q] EXCEPT !.chan = @ \cup {cmd}] /\ cmd # "KILL"
  <2>1. proc'[q] = IF Alive(q) /\ \E i \in Told(cmd) : table[i].pid = q
                     THEN IF cmd = "KILL" THEN Zombie(FALSE)
                          ELSE [proc[q] EXCEPT !.chan = @ \cup {cmd}]
                     ELSE proc[q]
    BY DEF SignalWorkerProcesses, ToldProc
  <2>2. proc[q] \in PRec
    OBVIOUS
  <2>3. cmd # "KILL" => [proc[q] EXCEPT !.chan = @ \cup {cmd}] \in PRec
    BY <2>2 DEF PRec
  <2>4. Zombie(FALSE) \in PRec /\ Zombie(FALSE).st = "zombie"
    BY FreshRecords, Zenon
  <2>5. cmd = "KILL" /\ Alive(q) /\ proc'[q].st = "zombie" => "CHLD" \in signals'
    BY DEF SignalWorkerProcesses
  <2> QED
    BY <2>1, <2>2, <2>3, <2>4, <2>5, Zenon
<1>3. proc' \in [Pid -> PRec]
  <2>1. proc' = [q \in Pid |-> proc'[q]]
    BY DEF SignalWorkerProcesses, ToldProc
  <2> QED
    BY <1>2, <2>1
<1>4. \A q \in Pid : q > started' => proc'[q].st = "none"
  BY <1>1, <1>2, Zenon DEF Alive, PRec
<1>5. ASSUME NEW q \in Pid
      PROVE  Fit(proc[q], lock = q)'
  <2>1. Fit(proc[q], lock = q) /\ proc[q] \in PRec
    OBVIOUS
  <2>2. CASE proc'[q] = proc[q]
    BY <2>1, <2>2, <1>1, Zenon DEF Fit, UseMutex
  <2>3. CASE proc'[q].st = "zombie"
    BY <2>3 DEF Fit
  <2>4. CASE proc'[q] = [proc[q] EXCEPT !.chan = @ \cup {cmd}]
    <3>1. /\ proc'[q].st = proc[q].st /\ proc'[q].at = proc[q].at /\ proc'[q].held = proc[q].held
          /\ proc'[q].acc = proc[q].acc /\ proc'[q].exiting = proc[q].exiting
          /\ proc'[q].cycle = proc[q].cycle
      BY <2>1, <2>4 DEF PRec
    <3> QED
      BY <2>1, <3>1, <1>1, Zenon DEF Fit, UseMutex
  <2> QED
    BY <1>2, <2>2, <2>3, <2>4
<1>6. lock' # 0 => Owns(proc'[lock'], "CHLD" \in signals')
  <2> SUFFICES ASSUME lock # 0
               PROVE  Owns(proc'[lock], "CHLD" \in signals')
    BY <1>1
  <2>1. lock \in Pid /\ Owns(proc[lock], "CHLD" \in signals) /\ proc[lock] \in PRec
    OBVIOUS
  <2>2. CASE proc'[lock] = proc[lock]
    BY <1>1, <2>1, <2>2 DEF Owns
  <2>3. CASE proc'[lock].st = "zombie" /\ "CHLD" \in signals'
    BY <2>3 DEF Owns
  <2>4. CASE proc'[lock] = [proc[lock] EXCEPT !.chan = @ \cup {cmd}]
    <3>1. /\ proc'[lock].st = proc[lock].st /\ proc'[lock].at = proc[lock].at
          /\ proc'[lock].held = proc[lock].held
      BY <2>1, <2>4 DEF PRec
    <3> QED
      BY <1>1, <2>1, <3>1 DEF Owns
  <2> QED
    BY <1>2, <2>1, <2>2, <2>3, <2>4
<1> QED
  BY <1>1, <1>3, <1>4, <1>5, <1>6 DEF Owns

\* Any set of slots has a size.
LEMMA FiniteSlots ==
    ASSUME NEW s \in SUBSET Slot
    PROVE  Cardinality(s) \in Nat
<1>1. IsFiniteSet(Slot)
  BY FS_Interval, WorkersAssumption DEF Slot
<1>2. IsFiniteSet(s)
  BY <1>1, FS_Subset, Zenon
<1> QED
  BY <1>2, FS_CardinalityType

\* The master wakes up: those that have ended are gone, with their mutex released, and
\* the new ones have process ids that nobody has had.
LEMMA WakeStep ==
    ASSUME MutexInv, Wake
    PROVE  MutexInv'
<1> USE DEF MutexInv, Types
<1>1. UNCHANGED conf /\ lock' = UnlockMutexes
  BY Zenon DEF Wake
<1>2. PICK k \in Nat :
        /\ started' = started + k /\ master' \in MRec
        /\ proc' = [p \in Pid |-> IF p \in started + 1 .. started + k THEN Forked(master.cycle)
                                  ELSE IF p \in Ended THEN [NoProc EXCEPT !.st = "gone"]
                                  ELSE proc[p]]
  <2> DEFINE z == [p \in Pid |-> IF p \in Ended THEN [NoProc EXCEPT !.st = "gone"] ELSE proc[p]]
  <2>1. CASE Handled.reap
    <3>1. PICK f \in SUBSET Respawns(Waited, Handled) :
            /\ started' = started + Cardinality(f) /\ proc' = Forks(f, z)
            /\ master' = Acts([Handled EXCEPT !.reap = FALSE, !.live = Live(Waited, f)])
      BY <2>1, Zenon DEF Wake
    <3>2. Cardinality(f) \in Nat
      BY FiniteSlots DEF Respawns, Exited
    <3> DEFINE v == Live(Waited, f)
    <3>3. v \in BOOLEAN
      BY Zenon DEF Live
    <3> HIDE DEF v
    <3>4. [Handled EXCEPT !.reap = FALSE, !.live = v] \in MRec
      BY <3>3, HandledRecord, Zenon DEF MRec
    <3>5. master' \in MRec
      BY <3>1, <3>4, ActsRecord DEF v
    <3>6. proc' = [p \in Pid |-> IF p \in started + 1 .. started + Cardinality(f)
                                   THEN Forked(master.cycle)
                                 ELSE IF p \in Ended THEN [NoProc EXCEPT !.st = "gone"]
                                 ELSE proc[p]]
      BY <3>1 DEF Forks, NewPids
    <3> QED
      BY <3>1, <3>2, <3>5, <3>6, Zenon
  <2>2. CASE ~Handled.reap
    <3>1. started' = started /\ proc' = z /\ master' = Acts(Handled)
      BY <2>2 DEF Wake
    <3>2. proc' = [p \in Pid |-> IF p \in started + 1 .. started + 0 THEN Forked(master.cycle)
                                 ELSE IF p \in Ended THEN [NoProc EXCEPT !.st = "gone"]
                                 ELSE proc[p]]
      BY <3>1
    <3> QED
      BY <3>1, <3>2, HandledRecord, ActsRecord
  <2> QED
    BY <2>1, <2>2
<1> DEFINE new == started + 1 .. started + k
<1>3. ASSUME NEW p \in Pid
      PROVE  /\ proc'[p] \in PRec
             /\ p \in new => proc'[p].st = "init" /\ proc'[p].held = FALSE /\ proc[p].st = "none"
             /\ p \notin new /\ p \in Ended => proc'[p].st = "gone"
             /\ p \notin new /\ p \notin Ended => proc'[p] = proc[p]
  <2>1. master.cycle \in Nat
    BY DEF MRec
  <2>2. p \in new => proc[p].st = "none"
    BY DEF Pid
  <2> QED
    BY <1>2, <2>1, <2>2, FreshRecords
<1>4. Types'
  <2>1. proc' \in [Pid -> PRec]
    <3>1. proc' = [p \in Pid |-> proc'[p]]
      BY <1>2
    <3> QED
      BY <1>3, <3>1, Zenon
  <2> QED
    BY <1>1, <1>2, <2>1 DEF UnlockMutexes
<1>5. \A p \in Pid : p > started' => proc'[p].st = "none"
  <2> SUFFICES ASSUME NEW p \in Pid, p > started' PROVE proc'[p].st = "none"
    OBVIOUS
  <2>1. p \notin new /\ proc[p].st = "none"
    BY <1>2 DEF Pid
  <2>2. p \notin Ended
    BY <2>1 DEF Ended
  <2> QED
    BY <1>3, <2>1, <2>2, Zenon
<1>6. ASSUME NEW p \in Pid
      PROVE  Fit(proc[p], lock = p)'
  <2>1. CASE p \in new
    BY <1>3, <2>1, ZenonT(30) DEF Fit
  <2>2. CASE p \notin new /\ p \in Ended
    BY <1>3, <2>2, ZenonT(30) DEF Fit
  <2>3. CASE p \notin new /\ p \notin Ended
    <3>1. proc'[p] = proc[p] /\ (lock = p => lock' = p)
      BY <1>1, <1>3, <2>3, ZenonT(30) DEF UnlockMutexes
    <3>2. Fit(proc[p], lock = p)
      OBVIOUS
    <3> QED
      BY <1>1, <3>1, <3>2, Zenon DEF Fit, UseMutex
  <2> QED
    BY <2>1, <2>2, <2>3
<1>7. lock' # 0 => Owns(proc'[lock'], "CHLD" \in signals')
  <2> SUFFICES ASSUME lock' # 0
               PROVE  Owns(proc'[lock'], "CHLD" \in signals')
    OBVIOUS
  <2>1. lock' = lock /\ lock \in Pid /\ lock \notin Ended /\ Owns(proc[lock], "CHLD" \in signals)
    BY <1>1 DEF UnlockMutexes
  <2>2. proc[lock].st = "run" /\ proc[lock].at = "poll" /\ proc[lock].held
    BY <2>1 DEF Owns, Ended
  <2>3. proc'[lock] = proc[lock]
    BY <1>3, <2>1, <2>2, Zenon
  <2> QED
    BY <2>1, <2>2, <2>3 DEF Owns
<1> HIDE DEF new
<1> QED
  BY <1>4, <1>5, <1>6, <1>7 DEF Owns

\* A reload starts processes with fresh ids; a refused one changes the master only.
LEMMA ReconfigureStep ==
    ASSUME MutexInv, Reconfigure
    PROVE  MutexInv'
<1> USE DEF MutexInv, Types
<1>1. UNCHANGED <<signals, lock, conf>>
  BY DEF Reconfigure
<1>2. CASE UNCHANGED <<proc, started>> /\ master' = Suspend([master EXCEPT !.hup = FALSE])
  <2>1. [master EXCEPT !.hup = FALSE] \in MRec
    BY Zenon DEF MRec
  <2>2. master' \in MRec
    BY <1>2, <2>1, SuspendRecord
  <2> QED
    BY <1>1, <1>2, <2>2 DEF Fit, Owns, UseMutex
<1>3. ASSUME master.cycle + 1 \in Cycle,
             NEW n \in {conf[master.cycle + 1].n, conf[master.cycle + 1].n - 1},
             StartWorkerProcesses(n),
             master' = [master EXCEPT !.hup = FALSE, !.cycle = @ + 1, !.at = "sleep", !.live = TRUE]
      PROVE  MutexInv'
  <2>1. n \in Nat
    <3> HIDE DEF MutexInv
    <3> DEFINE C == [n : 1 .. MaxPid, mutex : BOOLEAN]
               i == master.cycle + 1
    <3>1. conf \in Seq(C) /\ i \in DOMAIN conf
      BY <1>3, WorkersAssumption, Zenon DEF Cycle, MutexInv
    <3> HIDE DEF C, i
    <3>2. conf[i] \in C
      BY <3>1
    <3>3. conf[i].n \in 1 .. MaxPid
      BY <3>2 DEF C
    <3> QED
      BY <3>3, WorkersAssumption DEF i
  <2>2. master' \in MRec
    BY <1>3, NewCycleRecord, Zenon
  <2>3. /\ started' = started + n
        /\ proc' = [p \in Pid |-> IF p \in started + 1 .. started + n
                                     THEN Forked(master.cycle + 1) ELSE proc[p]]
    BY <1>3 DEF StartWorkerProcesses
  <2> DEFINE new == started + 1 .. started + n
  <2>4. ASSUME NEW p \in Pid
        PROVE  /\ proc'[p] \in PRec
               /\ p \in new => proc'[p].st = "init" /\ proc'[p].held = FALSE /\ proc[p].st = "none"
               /\ p \notin new => proc'[p] = proc[p]
    <3>1. master.cycle + 1 \in Nat
      BY DEF MRec
    <3>2. p \in new => proc[p].st = "none"
      BY <2>1 DEF Pid
    <3> QED
      BY <2>3, <3>1, <3>2, FreshRecords
  <2>5. Types'
    <3>1. proc' = [p \in Pid |-> proc'[p]]
      BY <2>3
    <3>2. proc' \in [Pid -> PRec]
      BY <2>4, <3>1, Zenon
    <3> QED
      BY <1>1, <2>1, <2>2, <2>3, <3>2
  <2>6. \A p \in Pid : p > started' => proc'[p].st = "none"
    BY <2>1, <2>3, <2>4 DEF Pid
  <2>7. ASSUME NEW p \in Pid
        PROVE  Fit(proc[p], lock = p)'
    <3>1. CASE p \in new
      BY <2>4, <3>1, ZenonT(30) DEF Fit
    <3>2. CASE p \notin new
      <4>1. proc'[p] = proc[p] /\ Fit(proc[p], lock = p)
        BY <2>4, <3>2, ZenonT(30)
      <4> QED
        BY <1>1, <4>1, ZenonT(30) DEF Fit, UseMutex
    <3> QED
      BY <3>1, <3>2, Zenon
  <2>8. lock # 0 => proc'[lock] = proc[lock]
    BY <2>4, Zenon DEF Owns
  <2> QED
    BY <1>1, <2>5, <2>6, <2>7, <2>8, Zenon DEF Owns
<1>4. \/ UNCHANGED <<proc, started>> /\ master' = Suspend([master EXCEPT !.hup = FALSE])
      \/ /\ master.cycle + 1 \in Cycle
         /\ \E n \in {conf[master.cycle + 1].n, conf[master.cycle + 1].n - 1} :
               StartWorkerProcesses(n)
         /\ master' = [master EXCEPT !.hup = FALSE, !.cycle = @ + 1, !.at = "sleep", !.live = TRUE]
  BY DEF Reconfigure
<1> QED
  BY <1>2, <1>3, <1>4

\* A process that ends in the middle of its poll keeps the lock until it is waited for.
LEMMA EndsStep ==
    ASSUME MutexInv, NEW p \in Pid, NEW b \in BOOLEAN, Ends(p, b), proc[p].st # "none",
           UNCHANGED <<master, started, conf>>,
           lock' = lock \/ (lock = p /\ lock' = 0)
    PROVE  MutexInv'
<1>1. /\ proc' = [proc EXCEPT ![p] = Zombie(b)] /\ signals \subseteq signals' /\ "CHLD" \in signals'
      /\ Zombie(b) \in PRec /\ Zombie(b).st = "zombie"
  BY FreshRecords DEF Ends
<1>2. Fit(Zombie(b), lock' = p) /\ Owns(Zombie(b), "CHLD" \in signals')
  BY <1>1, ZenonT(30) DEF Fit, Owns
<1> QED
  BY <1>1, <1>2, OneProcess, ZenonT(30)

\* ngx_worker_process_init sets no accept event in a worker that uses the mutex.
LEMMA StartProcessStep ==
    ASSUME MutexInv, NEW p \in Pid, StartProcess(p)
    PROVE  MutexInv'
<1> DEFINE a == IF UseMutex(proc[p]) THEN "off" ELSE "on"
           t == IF UseMutex(proc[p]) THEN "top" ELSE "poll"
           s == [proc[p] EXCEPT !.st = "run", !.timer = TRUE]
           r == [s EXCEPT !.acc = a, !.at = t]
<1>1. /\ proc[p] \in PRec /\ proc[p].st = "init" /\ proc[p].held = FALSE /\ lock # p
  <2>1. proc[p] \in PRec /\ proc[p].st = "init"
    BY DEF MutexInv, Types, StartProcess
  <2>2. ~proc[p].held /\ lock # p
    BY <2>1 DEF MutexInv, Types, Fit, Owns, Pid
  <2> QED
    BY <2>1, <2>2, Zenon DEF PRec
<1>2. proc' = [proc EXCEPT ![p] = r] /\ UNCHANGED <<master, signals, started, lock, conf>>
  BY ZenonT(30) DEF StartProcess, MutexInv, Types
<1>3. UseMutex(proc[p]) => a = "off" /\ t = "top"
  BY Zenon
<1>4. ~UseMutex(proc[p]) => a = "on" /\ t = "poll"
  BY Zenon
<1> HIDE DEF a, t
<1>5. /\ s \in PRec /\ s.st = "run" /\ s.held = FALSE
      /\ s.cycle = proc[p].cycle /\ s.exiting = proc[p].exiting
  BY <1>1, Zenon DEF PRec
<1> HIDE DEF s
<1>6. a \in {"on", "off"} /\ t \in {"top", "poll"}
  BY <1>3, <1>4, Zenon
<1>7. /\ r \in PRec /\ r.st = "run" /\ r.held = FALSE /\ r.acc = a /\ r.at = t
      /\ r.cycle = proc[p].cycle /\ r.exiting = proc[p].exiting
  BY <1>5, <1>6, ZenonT(30) DEF PRec
<1> HIDE DEF r
<1>8. UseMutex(r) <=> UseMutex(proc[p])
  BY <1>7 DEF UseMutex
<1>9. Fit(r, lock' = p)
  BY <1>3, <1>4, <1>7, <1>8, Zenon DEF Fit
<1> QED
  BY <1>1, <1>2, <1>7, <1>9, OneProcess, Zenon

\* The head of the loop: a worker that gets the lock sets the flag and its accept events,
\* one that does not drops both.
LEMMA EnterStep ==
    ASSUME MutexInv, NEW p \in Pid, Enter(p)
    PROVE  MutexInv'
<1>1. /\ proc[p] \in PRec /\ proc[p].st = "run" /\ proc[p].at = "top" /\ lock # p
      /\ Fit(proc[p], lock = p) /\ UseMutex(proc[p])
      /\ UNCHANGED <<master, signals, started, conf>> /\ p # 0 /\ lock \in {0} \cup Pid
  <2>1. proc[p] \in PRec /\ proc[p].st = "run" /\ proc[p].at = "top"
    BY DEF MutexInv, Types, Enter
  <2>2. lock # p /\ Fit(proc[p], lock = p) /\ p # 0
    BY <2>1 DEF MutexInv, Owns, Pid
  <2> QED
    BY <2>1, <2>2 DEF Enter, Fit, MutexInv, Types
<1>2. ASSUME NEW r \in PRec, proc' = [proc EXCEPT ![p] = r],
             r.st = "run", r.at # "top", r.cycle = proc[p].cycle, r.exiting = proc[p].exiting,
             \/ lock = 0 /\ lock' = p /\ r.held = TRUE /\ r.acc = "on" /\ r.at = "poll"
             \/ lock' = lock /\ r.held = FALSE /\ r.acc = "off"
             \/ lock' = lock /\ r.held = proc[p].held /\ r.acc = proc[p].acc /\ r.at = "overloaded"
      PROVE  MutexInv'
  <2>1. UseMutex(r)
    BY <1>1, <1>2, ZenonT(30) DEF UseMutex
  <2>2. Fit(r, lock' = p)
    BY <1>1, <1>2, <2>1, Zenon DEF Fit
  <2>3. lock' = p => Owns(r, "CHLD" \in signals')
    BY <1>1, <1>2, ZenonT(30) DEF Owns
  <2> QED
    BY <1>1, <1>2, <2>2, <2>3, OneProcess, Zenon
<1>3. CASE lock = 0 /\ TryLock(p)
  <2> DEFINE r == [proc[p] EXCEPT !.held = TRUE, !.acc = "on", !.at = "poll"]
  <2>1. proc' = [proc EXCEPT ![p] = r] /\ lock' = p
    BY <1>3, Zenon DEF TryLock, MutexInv, Types
  <2>2. /\ r \in PRec /\ r.st = "run" /\ r.at = "poll" /\ r.cycle = proc[p].cycle
        /\ r.exiting = proc[p].exiting /\ r.held = TRUE /\ r.acc = "on"
    BY <1>1, Zenon DEF PRec
  <2> HIDE DEF r
  <2> QED
    BY <1>2, <1>3, <2>1, <2>2, Zenon
<1>4. CASE lock # 0 /\ TryLock(p)
  <2> DEFINE a == IF proc[p].held THEN "off" ELSE proc[p].acc
             r == [proc[p] EXCEPT !.acc = a, !.held = FALSE, !.at = "poll"]
  <2>1. proc' = [proc EXCEPT ![p] = r] /\ lock' = lock
    BY <1>4, Zenon DEF TryLock, MutexInv, Types
  <2>2. a = "off"
    BY <1>1, Zenon DEF Fit
  <2> HIDE DEF a
  <2>3. /\ r \in PRec /\ r.st = "run" /\ r.at = "poll" /\ r.cycle = proc[p].cycle
        /\ r.exiting = proc[p].exiting /\ r.held = FALSE /\ r.acc = a
    BY <1>1, <2>2, Zenon DEF PRec
  <2> HIDE DEF r
  <2> QED
    BY <1>2, <2>1, <2>2, <2>3, Zenon
<1>5. CASE proc' = [proc EXCEPT ![p].dis = @ - 1, ![p].at = "overloaded"] /\ UNCHANGED lock
  <2> DEFINE d == proc[p].dis - 1
             r == [proc[p] EXCEPT !.dis = d, !.at = "overloaded"]
  <2>1. proc' = [proc EXCEPT ![p] = r] /\ lock' = lock
    BY <1>5, Zenon DEF MutexInv, Types
  <2>2. d \in Int
    BY <1>1 DEF PRec
  <2> HIDE DEF d
  <2>3. /\ r \in PRec /\ r.st = "run" /\ r.at = "overloaded" /\ r.cycle = proc[p].cycle
        /\ r.exiting = proc[p].exiting /\ r.held = proc[p].held /\ r.acc = proc[p].acc
    BY <1>1, <2>2, ZenonT(30) DEF PRec
  <2> HIDE DEF r
  <2> QED
    BY <1>2, <2>1, <2>3, ZenonT(30)
<1> QED
  BY <1>3, <1>4, <1>5 DEF Enter

\* What the handlers of one iteration keep of a worker's record.
Kept(r) ==
    /\ r \in PRec /\ r.st = "run"
    /\ r.held => UseMutex(r)
    /\ UseMutex(r) /\ r.acc # "off" => r.acc = "on" /\ r.held

\* The accepts, the timers and the channel keep that.
LEMMA Handlers ==
    ASSUME NEW r, Kept(r), NEW s \in {r, Accepted(r), NoFiles(r)},
           NEW fin \in BOOLEAN, NEW pub \in BOOLEAN
    PROVE  Kept(CloseListening(Expired(s, fin, pub)))
<1> USE DEF Kept
<1>1. /\ s \in PRec /\ s.st = "run" /\ (s.held => UseMutex(s))
      /\ (UseMutex(s) /\ s.acc # "off" => s.acc = "on" /\ s.held)
  <2>1. CASE s = r
    BY <2>1
  <2>2. CASE s = Accepted(r)
    <3>1. UseMutex(s) <=> UseMutex(r)
      BY <2>2, AcceptedRecord, Zenon DEF UseMutex
    <3> QED
      BY <2>2, <3>1, AcceptedRecord, ZenonT(30)
  <2>3. CASE s = NoFiles(r)
    <3>1. UseMutex(s) <=> UseMutex(r)
      BY <2>3, NoFilesRecord, ZenonT(30) DEF UseMutex
    <3>2. CASE UseMutex(r)
      BY <2>3, <3>1, <3>2, NoFilesRecord, Zenon
    <3>3. CASE ~UseMutex(r)
      BY <2>3, <3>1, <3>3, NoFilesRecord, ZenonT(30)
    <3> QED
      BY <3>2, <3>3, Zenon
  <2> QED
    BY <2>1, <2>2, <2>3
<1> DEFINE e == Expired(s, fin, pub)
           n == CloseListening(e)
<1>2. /\ e \in PRec /\ e.st = s.st /\ e.held = s.held /\ e.exiting = s.exiting
      /\ e.cycle = s.cycle /\ (s.acc # "timer" => e.acc = s.acc)
  BY <1>1, ExpiredRecord, SMTT(30)
<1> HIDE DEF e
<1>3. UseMutex(e) <=> UseMutex(s)
  BY <1>2, Zenon DEF UseMutex
<1>4. /\ e.st = "run" /\ (e.held => UseMutex(e))
      /\ (UseMutex(e) /\ e.acc # "off" => e.acc = "on" /\ e.held)
  BY <1>1, <1>2, <1>3
<1>5. /\ n \in PRec /\ n.st = e.st /\ n.cycle = e.cycle
      /\ \/ n.exiting = e.exiting /\ n.held = e.held /\ n.acc = e.acc
         \/ n.exiting = TRUE /\ n.held = FALSE
  BY <1>2, CloseListeningRecord, Zenon
<1> HIDE DEF n
<1>6. /\ n.held => UseMutex(n)
      /\ UseMutex(n) /\ n.acc # "off" => n.acc = "on" /\ n.held
  <2>1. CASE n.exiting = e.exiting /\ n.held = e.held /\ n.acc = e.acc
    <3>1. UseMutex(n) <=> UseMutex(e)
      BY <1>5, <2>1 DEF UseMutex
    <3> QED
      BY <1>4, <2>1, <3>1
  <2>2. CASE n.exiting = TRUE /\ n.held = FALSE
    BY <2>2 DEF UseMutex
  <2> QED
    BY <1>5, <2>1, <2>2, Zenon
<1> QED
  BY <1>4, <1>5, <1>6, Zenon DEF n, e

\* The rest of an iteration: the lock is released whatever the handlers did.
LEMMA EventsStep ==
    ASSUME MutexInv, NEW p \in Pid, NEW fin \in BOOLEAN, NEW pub \in BOOLEAN,
           Events(p, fin, pub)
    PROVE  MutexInv'
<1>1. /\ proc[p] \in PRec /\ proc[p].st = "run" /\ Fit(proc[p], lock = p) /\ p # 0
      /\ UNCHANGED <<master, started, conf>>
      /\ lock = p => proc[p].held
  BY DEF MutexInv, Types, Events, Owns, Pid
<1>2. /\ lock' # p
      /\ lock' = lock \/ (lock = p /\ lock' = 0)
  BY <1>1 DEF Events, Unlock
<1>3. ASSUME NEW b \in BOOLEAN, Ends(p, b)
      PROVE  MutexInv'
  BY <1>1, <1>2, <1>3, EndsStep
<1>4. ASSUME NEW s \in {proc[p], Accepted(proc[p]), NoFiles(proc[p])},
             Iterate(p, CloseListening(Expired(s, fin, pub)))
      PROVE  MutexInv'
  <2> DEFINE n == CloseListening(Expired(s, fin, pub))
             t == IF UseMutex(n) THEN "top" ELSE "poll"
             r == [n EXCEPT !.at = t]
  <2>1. /\ n \in PRec /\ n.st = "run" /\ (n.held => UseMutex(n))
        /\ (UseMutex(n) /\ n.acc # "off" => n.acc = "on" /\ n.held)
    <3>1. Kept(proc[p])
      BY <1>1 DEF Fit, Kept
    <3>2. Kept(n)
      BY <3>1, Handlers
    <3> QED
      BY <3>2 DEF Kept
  <2>2. CASE Ends(p, FALSE)
    BY <1>3, <2>2, Zenon
  <2>3. CASE proc' = [proc EXCEPT ![p] = r] /\ UNCHANGED signals
    <3> HIDE DEF n
    <3>1. (UseMutex(n) => t = "top") /\ (~UseMutex(n) => t = "poll") /\ t \in {"top", "poll"}
      BY Zenon
    <3> HIDE DEF t
    <3>2. /\ r \in PRec /\ r.st = "run" /\ r.at = t /\ r.held = n.held /\ r.acc = n.acc
          /\ r.cycle = n.cycle /\ r.exiting = n.exiting
      BY <2>1, <3>1 DEF PRec
    <3> HIDE DEF r
    <3>3. UseMutex(r) <=> UseMutex(n)
      BY <3>2 DEF UseMutex
    <3>4. Fit(r, lock' = p)
      BY <2>1, <3>1, <3>2, <3>3 DEF Fit
    <3> QED
      BY <1>1, <1>2, <2>3, <3>2, <3>4, OneProcess, Zenon
  <2> QED
    BY <1>4, <2>2, <2>3, Zenon DEF Iterate
<1>5. CASE proc' = [proc EXCEPT ![p].st = "hung"] /\ UNCHANGED signals
  <2> DEFINE r == [proc[p] EXCEPT !.st = "hung"]
  <2>1. proc' = [proc EXCEPT ![p] = r] /\ r \in PRec /\ r.st = "hung"
    BY <1>1, <1>5 DEF PRec, MutexInv, Types
  <2> HIDE DEF r
  <2>2. Fit(r, lock' = p)
    BY <2>1 DEF Fit
  <2> QED
    BY <1>1, <1>2, <1>5, <2>1, <2>2, OneProcess, Zenon
<1>6. \/ Ends(p, FALSE)
      \/ \E s \in {proc[p], Accepted(proc[p]), NoFiles(proc[p])} :
            Iterate(p, CloseListening(Expired(s, fin, pub)))
      \/ proc' = [proc EXCEPT ![p].st = "hung"] /\ UNCHANGED signals
  BY Zenon DEF Events
<1> QED
  BY <1>3, <1>4, <1>5, <1>6, Zenon

-----------------------------------------------------------------------------
(* The theorems. *)

\* The first cycle's workers do not hold the mutex.
LEMMA InitHolds == Init => MutexInv
<1> SUFFICES ASSUME Init PROVE MutexInv
  OBVIOUS
<1>1. conf[1].n \in 1 .. MaxPid
  <2> DEFINE C == [n : 1 .. MaxPid, mutex : BOOLEAN]
  <2>1. conf \in Seq(C) /\ conf # <<>>
    BY WorkersAssumption, Zenon DEF Init
  <2> HIDE DEF C
  <2>2. conf[1] \in C
    BY <2>1
  <2> QED
    BY <2>2 DEF C
<1>2. ASSUME NEW p \in Pid
      PROVE  proc[p] \in PRec /\ ~proc[p].held
             /\ proc[p].st = IF p <= conf[1].n THEN "init" ELSE "none"
  <2>1. NoProc.st = "none" /\ ~NoProc.held
    BY DEF NoProc
  <2> QED
    BY <1>1, <2>1, FreshRecords DEF Init, Pid
<1>3. proc \in [Pid -> PRec]
  <2>1. proc = [p \in Pid |-> proc[p]]
    BY DEF Init
  <2> QED
    BY <1>2, <2>1
<1>4. master \in MRec /\ started \in Nat /\ started = conf[1].n /\ lock = 0 /\ conf \in Confs
  BY <1>1 DEF Init, MRec
<1>5. \A p \in Pid : p > started => proc[p].st = "none"
  BY <1>1, <1>2, <1>4 DEF Pid
<1>6. \A p \in Pid : Fit(proc[p], lock = p)
  BY <1>2 DEF Fit
<1> QED
  BY <1>3, <1>4, <1>5, <1>6 DEF MutexInv, Types

\* Every step keeps the inductive invariant.
LEMMA StepHolds == MutexInv /\ [Next]_vars => MutexInv'
<1> SUFFICES ASSUME MutexInv, [Next]_vars PROVE MutexInv'
  OBVIOUS
<1>1. CASE UNCHANGED <<master, proc, started, lock, conf>> /\ signals \subseteq signals'
  BY <1>1 DEF MutexInv, Types, Fit, Owns, UseMutex
<1>2. CASE Wake
  BY <1>2, WakeStep
<1>3. CASE Terminate
  <2> DEFINE d == IF master.delay = 0 THEN 1 ELSE master.delay
             m == [master EXCEPT !.delay = d]
  <2>1. d \in Nat /\ master \in MRec
    BY DEF MutexInv, Types, MRec
  <2> HIDE DEF d
  <2>2. m \in MRec
    BY <2>1 DEF MRec
  <2> HIDE DEF m
  <2>3. ASSUME NEW s \in BOOLEAN, master' = Suspend([m EXCEPT !.sigio = s]),
               UNCHANGED <<signals, proc, started, lock, conf>>
        PROVE  MutexInv'
    <3>1. [m EXCEPT !.sigio = s] \in MRec
      BY <2>2 DEF MRec
    <3>2. master' \in MRec
      BY <2>3, <3>1, SuspendRecord
    <3> QED
      BY <2>3, <3>2 DEF MutexInv, Types, Fit, Owns, UseMutex
  <2>4. ASSUME NEW cmd \in {"TERM", "KILL"}, SignalWorkerProcesses(cmd),
               master' = Suspend([m EXCEPT !.sigio = TRUE, !.reap = @ \/ LostChild(cmd)])
        PROVE  MutexInv'
    <3> DEFINE b == m.reap \/ LostChild(cmd)
    <3>1. b \in BOOLEAN
      BY Zenon
    <3> HIDE DEF b
    <3>2. [m EXCEPT !.sigio = TRUE, !.reap = b] \in MRec
      BY <2>2, <3>1, Zenon DEF MRec
    <3>3. master' \in MRec
      BY <2>4, <3>2, SuspendRecord DEF b
    <3> QED
      BY <2>4, <3>3, SignalWorkersStep
  <2> QED
    BY <1>3, <2>3, <2>4, Zenon DEF Terminate, m, d
<1>4. CASE Quit \/ ShutOldDown
  <2> DEFINE b == master.reap \/ LostChild("QUIT")
  <2>1. b \in BOOLEAN
    BY Zenon
  <2>2. /\ SignalWorkerProcesses("QUIT") /\ master \in MRec
        /\ master' = Suspend([master EXCEPT !.reap = b])
    BY <1>4 DEF Quit, ShutOldDown, MutexInv, Types
  <2> HIDE DEF b
  <2>3. [master EXCEPT !.reap = b] \in MRec
    BY <2>1, <2>2 DEF MRec
  <2>4. master' \in MRec
    BY <2>2, <2>3, SuspendRecord
  <2> QED
    BY <2>2, <2>4, SignalWorkersStep
<1>5. CASE Reconfigure
  BY <1>5, ReconfigureStep
<1>6. ASSUME NEW p \in Pid, StartProcess(p)
      PROVE  MutexInv'
  BY <1>6, StartProcessStep
<1>7. ASSUME NEW p \in Pid, Enter(p)
      PROVE  MutexInv'
  BY <1>7, EnterStep
<1>8. ASSUME NEW p \in Pid, NEW fin \in BOOLEAN, NEW pub \in BOOLEAN, Events(p, fin, pub)
      PROVE  MutexInv'
  BY <1>8, EventsStep
<1>9. ASSUME NEW p \in Pid, InitFails(p) \/ Crash(p)
      PROVE  MutexInv'
  BY <1>9, EndsStep, Zenon DEF InitFails, Crash, Alive
<1>10. Signal \/ Alarm \/ Connect \/ UNCHANGED vars
         => UNCHANGED <<master, proc, started, lock, conf>> /\ signals \subseteq signals'
  BY DEF Signal, Alarm, Connect, vars
<1> QED
  BY <1>1, <1>2, <1>3, <1>4, <1>5, <1>6, <1>7, <1>8, <1>9, <1>10 DEF Next, Master, Worker

\* Whatever the numbers of workers, reloads and faults, the accept mutex is only ever with
\* a worker inside its poll or with one the master is about to wait for.
THEOREM MutexIsReleased == Spec => []LockOwner
<1>1. MutexInv => LockOwner
  BY ZenonT(40) DEF MutexInv, Owns, LockOwner
<1> QED
  BY <1>1, InitHolds, StepHolds, PTL DEF Spec

\* Whatever those numbers, no two workers that have tried the lock poll the listening
\* sockets at once.
THEOREM WorkersTakeTurns == Spec => []AcceptsByTurn
<1>1. MutexInv => AcceptsByTurn
  BY DEF MutexInv, Fit, AcceptsByTurn
<1> QED
  BY <1>1, InitHolds, StepHolds, PTL DEF Spec

-----------------------------------------------------------------------------
(* Process ids are given to the slots in their order. *)

\* A set of natural numbers has a least one.
LEMMA LeastNumber ==
    ASSUME NEW T, T \subseteq Nat, T # {}
    PROVE  \E x \in T : \A y \in T : x <= y
<1> DEFINE Less == {ss \in Nat \X Nat : ss[1] < ss[2]}
<1>1. IsWellFoundedOn(Less, Nat)
  BY NatLessThanWellFounded, Zenon DEF OpToRel
<1> HIDE DEF Less
<1>2. PICK x \in T : \A y \in T : ~(<<y, x>> \in Less)
  BY <1>1, WFMin, Zenon
<1>3. ASSUME NEW y \in T PROVE x <= y
  <2>1. ~(y < x)
    BY <1>2, Zenon DEF Less
  <2> QED BY <2>1
<1> QED BY <1>3

\* How many slots of S come before i.
Rank(S, i) == Cardinality({j \in S : j < i})

\* Sets of slots are finite.
LEMMA SlotsFinite ==
    ASSUME NEW S \in SUBSET Slot
    PROVE  IsFiniteSet(S) /\ Cardinality(S) \in Nat /\ S \subseteq Nat
<1>1. IsFiniteSet(Slot) /\ Slot \subseteq Nat
  BY FS_Interval, WorkersAssumption DEF Slot
<1>2. IsFiniteSet(S)
  BY <1>1, FS_Subset, Zenon
<1> QED BY <1>1, <1>2, FS_CardinalityType

\* A proper subset has fewer elements.
LEMMA Fewer ==
    ASSUME NEW B, IsFiniteSet(B), NEW A \in SUBSET B, NEW x \in B, x \notin A
    PROVE  Cardinality(A) < Cardinality(B)
<1>1. IsFiniteSet(A) /\ Cardinality(A) <= Cardinality(B) /\ Cardinality(A) # Cardinality(B)
  BY FS_Subset
<1>2. Cardinality(A) \in Nat /\ Cardinality(B) \in Nat
  BY <1>1, FS_CardinalityType
<1> QED BY <1>1, <1>2

\* The rank of a slot: different for each, and below the size.
LEMMA RankOrder ==
    ASSUME NEW S \in SUBSET Slot, NEW i \in S
    PROVE  /\ Rank(S, i) \in 0 .. Cardinality(S) - 1
           /\ \A j \in S : i < j => Rank(S, i) < Rank(S, j)
           /\ \A j \in S : Rank(S, i) = Rank(S, j) => i = j
<1>1. ASSUME NEW j \in S, j < i PROVE Rank(S, j) < Rank(S, i)
  <2> DEFINE A == {k \in S : k < j}
             B == {k \in S : k < i}
  <2>1. A \in SUBSET Slot /\ B \in SUBSET Slot /\ A \subseteq B /\ j \in B /\ j \notin A /\ S \subseteq Nat
    BY <1>1, SlotsFinite
  <2>2. IsFiniteSet(B) /\ IsFiniteSet(A)
    BY <2>1, SlotsFinite
  <2> HIDE DEF A, B
  <2>3. Cardinality(A) < Cardinality(B)
    BY <2>1, <2>2, Fewer, Zenon
  <2> QED BY <2>3 DEF A, B, Rank
<1>2. ASSUME NEW j \in S, i < j PROVE Rank(S, i) < Rank(S, j)
  <2> DEFINE A == {k \in S : k < i}
             B == {k \in S : k < j}
  <2>1. A \in SUBSET Slot /\ B \in SUBSET Slot /\ A \subseteq B /\ i \in B /\ i \notin A /\ S \subseteq Nat
    BY <1>2, SlotsFinite
  <2>2. IsFiniteSet(B) /\ IsFiniteSet(A)
    BY <2>1, SlotsFinite
  <2> HIDE DEF A, B
  <2>3. Cardinality(A) < Cardinality(B)
    BY <2>1, <2>2, Fewer, Zenon
  <2> QED BY <2>3 DEF A, B, Rank
<1>3. Rank(S, i) \in 0 .. Cardinality(S) - 1
  <2> DEFINE A == {k \in S : k < i}
  <2>1. A \in SUBSET Slot /\ A \subseteq S /\ i \notin A /\ S \subseteq Nat
    BY SlotsFinite
  <2>2. IsFiniteSet(S) /\ Cardinality(S) \in Nat /\ Cardinality(A) \in Nat
    BY <2>1, SlotsFinite
  <2> HIDE DEF A
  <2>3. Cardinality(A) < Cardinality(S)
    BY <2>1, <2>2, Fewer, Zenon
  <2> QED BY <2>2, <2>3 DEF A, Rank
<1>4. \A j \in S : Rank(S, j) \in Nat /\ j \in Nat
  <2> SUFFICES ASSUME NEW j \in S PROVE Rank(S, j) \in Nat /\ j \in Nat
    OBVIOUS
  <2>1. {k \in S : k < j} \in SUBSET Slot
    OBVIOUS
  <2> QED BY <2>1, SlotsFinite DEF Rank
<1>5. ASSUME NEW j \in S, Rank(S, i) = Rank(S, j) PROVE i = j
  <2>1. i < j \/ j < i \/ i = j
    BY <1>4
  <2> QED BY <1>1, <1>2, <1>4, <1>5, <2>1
<1> QED BY <1>2, <1>3, <1>5

\* The ranks are all the numbers below the size.
LEMMA RankOnto ==
    ASSUME NEW S \in SUBSET Slot, NEW k \in 0 .. Cardinality(S) - 1
    PROVE  \E i \in S : Rank(S, i) = k
<1> DEFINE T == 0 .. Cardinality(S) - 1
           f == [i \in S |-> Rank(S, i)]
<1>1. f \in Injection(S, T)
  BY RankOrder DEF Injection, IsInjective
<1>2. IsFiniteSet(T) /\ Cardinality(T) = Cardinality(S)
  <2>1. Cardinality(S) \in Nat
    BY SlotsFinite
  <2> QED BY <2>1, FS_Interval
<1> HIDE DEF T
<1>3. f \in Surjection(S, T)
  BY <1>1, <1>2, FS_Injection
<1>4. k \in T
  BY DEF T
<1> QED BY <1>3, <1>4, Zenon DEF Surjection

\* The forked slots get the new process ids, one each.
LEMMA NewPidsFit ==
    ASSUME NEW S \in SUBSET Slot, started \in Nat
    PROVE  /\ \A i \in S : NewPid(S, i) \in NewPids(S)
           /\ \A i, j \in S : NewPid(S, i) = NewPid(S, j) => i = j
           /\ \A p \in NewPids(S) : \E i \in S : NewPid(S, i) = p
<1>1. \A i \in S : NewPid(S, i) = started + 1 + Rank(S, i) /\ Rank(S, i) \in 0 .. Cardinality(S) - 1
  BY RankOrder DEF NewPid, Rank
<1>2. Cardinality(S) \in Nat
  BY SlotsFinite
<1>3. \A i \in S : NewPid(S, i) \in NewPids(S)
  BY <1>1, <1>2 DEF NewPids
<1>4. ASSUME NEW i \in S, NEW j \in S, NewPid(S, i) = NewPid(S, j) PROVE i = j
  <2>1. Rank(S, i) = Rank(S, j)
    BY <1>1, <1>2, <1>4
  <2> QED BY <2>1, RankOrder
<1>5. ASSUME NEW p \in NewPids(S) PROVE \E i \in S : NewPid(S, i) = p
  <2>1. p - started - 1 \in 0 .. Cardinality(S) - 1
    BY <1>2 DEF NewPids
  <2>2. PICK i \in S : Rank(S, i) = p - started - 1
    BY <2>1, RankOnto
  <2> QED BY <1>1, <2>1, <2>2 DEF NewPids
<1> QED BY <1>3, <1>4, <1>5

-----------------------------------------------------------------------------
(* The table of processes. *)

\* A process the master has not waited for, and one that has not ended.
Child(r) == r.st \in {"init", "run", "hung", "zombie"}
Runs(r) == r.st \in {"init", "run", "hung"}

\* The records of the table, without bounds.
SRec == [pid : Nat, exiting : BOOLEAN, exited : BOOLEAN, respawn : BOOLEAN, just : BOOLEAN]

\* Every slot has a process of its own; an exited one is gone, and the
\* slots from ngx_last_process on are free.
Slots ==
    /\ table \in [Slot -> SRec] /\ last \in 0 .. MaxPid /\ started <= MaxPid
    /\ \A i \in Slot : i >= last => table[i] = NoSlot
    /\ \A i \in Slot : table[i].pid <= started
    /\ \A i, j \in Slot : table[i].pid = table[j].pid /\ table[i].pid # 0 => i = j
    /\ \A i \in Slot : table[i].pid # 0 /\ table[i].exited => ~Child(proc[table[i].pid])

\* Every child is in the table; without children the master may exit.
Known ==
    \A p \in Pid :
        Child(proc[p]) => master.up /\ master.live /\ \E i \in Slot : table[i].pid = p

\* Which cycle the process of a slot is of, between reloads and within one.
Split(s, r, m) ==
    Runs(r) =>
        /\ r.cycle <= m.cycle
        /\ IF m.at = "sleep"
             THEN (s.just <=> r.cycle = m.cycle) /\ ~(s.just /\ s.exiting)
             ELSE s.exiting <=> r.cycle < m.cycle

Splits ==
    ~master.quit /\ ~master.term =>
        \A i \in Slot :
            /\ master.at # "sleep" => ~table[i].just
            /\ table[i].pid # 0 => Split(table[i], proc[table[i].pid], master)

\* The inductive invariant, with MutexInv.
TableInv == Slots /\ Known /\ Splits

\* There is room for the workers of a cycle: ids are given to slots once.
LEMMA RoomForWorkers ==
    ASSUME Slots, started \in Nat, NEW n \in Nat, started + n <= MaxPid
    PROVE  /\ FirstFree(n) \in SUBSET Slot /\ Cardinality(FirstFree(n)) = n
           /\ \A i \in FirstFree(n) : table[i].pid = 0
<1> DEFINE Used == {i \in Slot : table[i].pid # 0}
           F == FirstFree(n)
<1>0. MaxPid \in Nat /\ NoSlot.pid = 0
  BY WorkersAssumption DEF NoSlot
<1>1. FreeSlots = Slot \ Used /\ FreeSlots \in SUBSET Slot /\ Used \in SUBSET Slot
  BY <1>0 DEF FreeSlots, Slots, Slot
<1>2. Cardinality(Used) <= started
  <2> DEFINE g == [i \in Used |-> table[i].pid]
             T == 1 .. started
  <2>1. \A i \in Used : table[i].pid \in T
    BY DEF Slots, SRec
  <2>2. g \in Injection(Used, T)
    BY <2>1 DEF Injection, IsInjective, Slots
  <2>3. IsFiniteSet(T) /\ Cardinality(T) = started
    BY FS_Interval
  <2> HIDE DEF T, g, Used
  <2> QED BY <2>2, <2>3, FS_Injection
<1> HIDE DEF Used
<1>3. Cardinality(FreeSlots) \in Nat /\ n <= Cardinality(FreeSlots)
  <2>1. IsFiniteSet(Slot) /\ Cardinality(Slot) = MaxPid
    BY <1>0, FS_Interval, SMTT(30) DEF Slot
  <2>2. Cardinality(Slot \ Used) = Cardinality(Slot) - Cardinality(Slot \cap Used)
    BY <1>1, <2>1, SlotsFinite, FS_Difference, Zenon
  <2>3. Slot \cap Used = Used
    BY <1>1
  <2>4. Cardinality(Used) \in Nat /\ Cardinality(FreeSlots) \in Nat
    BY <1>1, SlotsFinite
  <2>5. Cardinality(FreeSlots) = MaxPid - Cardinality(Used)
    BY <1>1, <2>1, <2>2, <2>3
  <2> QED BY <1>0, <1>2, <2>4, <2>5
<1>4. F = {i \in FreeSlots : Rank(FreeSlots, i) < n}
  BY DEF FirstFree, Rank
<1>5. F \in SUBSET Slot
  BY <1>1, <1>4
<1> HIDE DEF F
<1>6. Cardinality(F) = n
  <2> DEFINE T == 0 .. n - 1
             f == [i \in F |-> Rank(FreeSlots, i)]
  <2>1. \A i \in F : i \in FreeSlots /\ Rank(FreeSlots, i) \in T
    BY <1>1, <1>3, <1>4, RankOrder
  <2>2. f \in Injection(F, T)
    BY <1>1, <2>1, RankOrder DEF Injection, IsInjective
  <2>3. \A k \in T : \E i \in F : f[i] = k
    <3> SUFFICES ASSUME NEW k \in T PROVE \E i \in F : f[i] = k
      OBVIOUS
    <3>1. k \in 0 .. Cardinality(FreeSlots) - 1
      BY <1>3
    <3>2. PICK i \in FreeSlots : Rank(FreeSlots, i) = k
      BY <1>1, <3>1, RankOnto
    <3>3. i \in F
      BY <1>4, <3>2
    <3> QED BY <3>2, <3>3
  <2>4. f \in Surjection(F, T)
    BY <2>1, <2>3 DEF Surjection
  <2>5. IsFiniteSet(T) /\ Cardinality(T) = n
    BY FS_Interval
  <2> HIDE DEF T, f
  <2> QED BY <2>2, <2>4, <2>5, FS_Injection
<1>7. \A i \in F : table[i].pid = 0
  BY <1>1, <1>4 DEF Used
<1> QED BY <1>5, <1>6, <1>7 DEF F

\* ngx_last_process grows as far as the slots that are taken.
LEMMA LastGrows ==
    ASSUME last \in 0 .. MaxPid, NEW F \in SUBSET Slot,
           NEW l, l = CHOOSE k \in last .. MaxPid :
                         /\ \A i \in F : i < k
                         /\ k = last \/ k - 1 \in F
    PROVE  l \in last .. MaxPid /\ \A i \in F : i < l
<1> DEFINE T == {k \in last .. MaxPid : \A i \in F : i < k}
<1>1. MaxPid \in Nat /\ F \subseteq 0 .. MaxPid - 1
  BY WorkersAssumption DEF Slot
<1>2. MaxPid \in T /\ T \subseteq Nat
  BY <1>1
<1>3. PICK k \in T : \A j \in T : k <= j
  <2> HIDE DEF T
  <2> QED BY <1>2, LeastNumber, Zenon
<1>4. k = last \/ k - 1 \in F
  <2> SUFFICES ASSUME k # last PROVE k - 1 \in F
    OBVIOUS
  <2>1. k - 1 \in last .. MaxPid /\ k - 1 \notin T
    BY <1>1, <1>3
  <2>2. PICK i \in F : ~(i < k - 1)
    BY <2>1
  <2>3. i < k /\ i \in Nat /\ k \in Nat
    BY <1>1, <1>3
  <2>4. i = k - 1
    BY <2>2, <2>3
  <2> QED BY <2>4
<1> QED BY <1>3, <1>4

\* The fields of the master that the table is about.
Agree(m, n) ==
    n.up = m.up /\ n.live = m.live /\ n.quit = m.quit /\ n.term = m.term /\ n.cycle = m.cycle

\* None of them changes at the head of the loop,
LEMMA SuspendKeeps ==
    ASSUME NEW m \in MRec
    PROVE  Agree(m, Suspend(m)) /\ Suspend(m).at = "suspend"
<1> DEFINE d == IF m.delay > KillDelay THEN m.delay ELSE 2 * m.delay
<1>1. \/ Suspend(m) = [m EXCEPT !.at = "suspend", !.alrm = FALSE, !.sigio = FALSE, !.delay = d]
      \/ Suspend(m) = [m EXCEPT !.at = "suspend"]
  BY DEF Suspend
<1> HIDE DEF d
<1> QED BY <1>1, Zenon DEF MRec, Agree

\* the exit of the master needs that nothing is live,
LEMMA ActsKeeps ==
    ASSUME NEW m \in MRec, m.at = "suspend"
    PROVE  LET n == Acts(m)
           IN  /\ n.at # "sleep" /\ n.live = m.live /\ n.quit = m.quit /\ n.term = m.term
               /\ n.cycle = m.cycle /\ (m.up /\ m.live => n.up)
<1>1. CASE ~m.live /\ (m.term \/ m.quit)
  <2>1. Acts(m) = [m EXCEPT !.up = FALSE]
    BY <1>1 DEF Acts
  <2> QED BY <1>1, <2>1 DEF MRec
<1>2. CASE ~(~m.live /\ (m.term \/ m.quit))
  <2>1. Acts(m) = [m EXCEPT !.at = "act"] \/ Acts(m) = Suspend(m)
    BY <1>2 DEF Acts
  <2>2. CASE Acts(m) = [m EXCEPT !.at = "act"]
    BY <2>2 DEF MRec
  <2>3. CASE Acts(m) = Suspend(m)
    BY <2>3, SuspendKeeps DEF Agree
  <2> QED BY <2>1, <2>2, <2>3
<1> QED BY <1>1, <1>2

\* and the handlers only add to the flags.
LEMMA HandledKeeps ==
    ASSUME master \in MRec
    PROVE  /\ Handled.up = master.up /\ Handled.live = master.live /\ Handled.cycle = master.cycle
           /\ Handled.at = master.at
           /\ (master.quit => Handled.quit) /\ (master.term => Handled.term)
<1> DEFINE q == master.quit \/ "QUIT" \in signals
           t == master.term \/ "TERM" \in signals
           h == master.hup \/ "HUP" \in signals
           a == master.alrm \/ "ALRM" \in signals
           c == master.reap \/ "CHLD" \in signals
<1>1. Handled = [master EXCEPT !.quit = q, !.term = t, !.hup = h, !.alrm = a, !.reap = c]
  BY DEF Handled
<1>2. (master.quit => q) /\ (master.term => t)
  OBVIOUS
<1> HIDE DEF q, t, h, a, c
<1>3. /\ Handled.up = master.up /\ Handled.live = master.live /\ Handled.cycle = master.cycle
      /\ Handled.at = master.at /\ Handled.quit = q /\ Handled.term = t
  BY <1>1, Zenon DEF MRec
<1> QED BY <1>2, <1>3

\* The slots that are in use have process ids.
LEMMA SlotPid ==
    ASSUME Slots, started \in Nat, NEW i \in Slot
    PROVE  table[i] \in SRec /\ table[i].pid \in Nat /\ (table[i].pid # 0 => table[i].pid \in Pid /\ i < last)
<1>1. table[i] \in SRec /\ table[i].pid \in Nat /\ table[i].pid <= started /\ started <= MaxPid
  BY DEF Slots, SRec
<1>2. i \in Int /\ last \in Int /\ MaxPid \in Nat /\ NoSlot.pid = 0
  BY WorkersAssumption DEF Slot, Slots, NoSlot
<1>3. ~(i < last) => table[i].pid = 0
  BY <1>2 DEF Slots
<1> QED BY <1>1, <1>2, <1>3 DEF Pid

\* A step of one child.
LEMMA ChildStep ==
    ASSUME MutexInv, TableInv, NEW p \in Pid, NEW r \in PRec, proc' = [proc EXCEPT ![p] = r],
           Child(proc[p]), Runs(r) => Runs(proc[p]) /\ r.cycle = proc[p].cycle,
           UNCHANGED <<master, table, last, started>>
    PROVE  TableInv'
<1>1. proc'[p] = r /\ \A q \in Pid : q # p => proc'[q] = proc[q]
  BY DEF MutexInv, Types
<1>2. \A i \in Slot : table[i].pid # 0 => table[i].pid \in Pid
  BY SlotPid DEF TableInv, MutexInv, Types
<1>3. \A q \in Pid : Child(proc'[q]) => Child(proc[q])
  BY <1>1
<1>4. Slots'
  BY <1>2, <1>3 DEF TableInv, Slots
<1>5. Known'
  BY <1>3, ZenonT(40) DEF TableInv, Known
<1>6. ASSUME NEW i \in Slot, table[i].pid # 0, Split(table[i], proc[table[i].pid], master)
      PROVE  Split(table[i], proc'[table[i].pid], master)
  BY <1>1, <1>2, <1>6, ZenonT(40) DEF Split
<1>7. Splits'
  BY <1>6 DEF TableInv, Splits
<1> QED BY <1>4, <1>5, <1>7 DEF TableInv

\* An exit or a crash is such a step.
LEMMA ChildEnds ==
    ASSUME MutexInv, TableInv, NEW p \in Pid, NEW b \in BOOLEAN, Ends(p, b), Child(proc[p]),
           UNCHANGED <<master, table, last, started>>
    PROVE  TableInv'
<1>1. proc' = [proc EXCEPT ![p] = Zombie(b)] /\ Zombie(b) \in PRec /\ ~Runs(Zombie(b))
  BY FreshRecords DEF Ends, Runs
<1> QED BY <1>1, ChildStep, Zenon

\* A worker that goes on stays in its cycle.
LEMMA WorkerStep ==
    ASSUME MutexInv, TableInv, NEW p \in Pid,
           StartProcess(p) \/ Enter(p) \/ \E fin, pub \in BOOLEAN : Events(p, fin, pub)
    PROVE  TableInv'
<1>1. proc \in [Pid -> PRec] /\ proc[p] \in PRec /\ UNCHANGED <<master, table, last, started>>
  BY Zenon DEF MutexInv, Types, StartProcess, Enter, Events
<1>2. proc[p].st \in {"init", "run"}
  BY Zenon DEF StartProcess, Enter, Events
<1>3. ASSUME NEW r \in PRec, proc' = [proc EXCEPT ![p] = r], r.cycle = proc[p].cycle
      PROVE  TableInv'
  BY <1>1, <1>2, <1>3, ChildStep, Zenon DEF Child, Runs
<1>4. CASE StartProcess(p)
  <2> DEFINE a == IF UseMutex(proc[p]) THEN "off" ELSE "on"
             t == IF UseMutex(proc[p]) THEN "top" ELSE "poll"
             r == [proc[p] EXCEPT !.st = "run", !.timer = TRUE, !.acc = a, !.at = t]
  <2>1. a \in {"on", "off"} /\ t \in {"top", "poll"}
    BY Zenon
  <2>2. proc' = [proc EXCEPT ![p] = r]
    BY <1>1, <1>4, Zenon DEF StartProcess
  <2> HIDE DEF a, t
  <2>3. r \in PRec /\ r.cycle = proc[p].cycle
    BY <1>1, <2>1, Zenon DEF PRec
  <2> HIDE DEF r
  <2> QED BY <1>3, <2>2, <2>3, Zenon
<1>5. CASE Enter(p)
  <2>1. CASE proc' = [proc EXCEPT ![p].held = TRUE, ![p].acc = "on", ![p].at = "poll"]
    <3> DEFINE r == [proc[p] EXCEPT !.held = TRUE, !.acc = "on", !.at = "poll"]
    <3>1. proc' = [proc EXCEPT ![p] = r] /\ r \in PRec /\ r.cycle = proc[p].cycle
      BY <1>1, <2>1, Zenon DEF PRec
    <3> HIDE DEF r
    <3> QED BY <1>3, <3>1, Zenon
  <2>2. CASE proc' = [proc EXCEPT ![p].acc = IF proc[p].held THEN "off" ELSE @,
                                  ![p].held = FALSE, ![p].at = "poll"]
    <3> DEFINE a == IF proc[p].held THEN "off" ELSE proc[p].acc
               r == [proc[p] EXCEPT !.acc = a, !.held = FALSE, !.at = "poll"]
    <3>1. a \in {"on", "off", "timer"}
      BY <1>1 DEF PRec
    <3>2. proc' = [proc EXCEPT ![p] = r]
      BY <1>1, <2>2, Zenon
    <3> HIDE DEF a
    <3>3. r \in PRec /\ r.cycle = proc[p].cycle
      BY <1>1, <3>1, Zenon DEF PRec
    <3> HIDE DEF r
    <3> QED BY <1>3, <3>2, <3>3, Zenon
  <2>3. CASE proc' = [proc EXCEPT ![p].dis = @ - 1, ![p].at = "overloaded"]
    <3> DEFINE d == proc[p].dis - 1
               r == [proc[p] EXCEPT !.dis = d, !.at = "overloaded"]
    <3>1. d \in Int
      BY <1>1 DEF PRec
    <3>2. proc' = [proc EXCEPT ![p] = r]
      BY <1>1, <2>3, Zenon
    <3> HIDE DEF d
    <3>3. r \in PRec /\ r.cycle = proc[p].cycle
      BY <1>1, <3>1, Zenon DEF PRec
    <3> HIDE DEF r
    <3> QED BY <1>3, <3>2, <3>3, Zenon
  <2> QED BY <1>5, <2>1, <2>2, <2>3, Zenon DEF Enter, TryLock
<1>6. ASSUME NEW fin \in BOOLEAN, NEW pub \in BOOLEAN, Events(p, fin, pub) PROVE TableInv'
  <2>1. CASE Ends(p, FALSE)
    BY <1>1, <1>2, <2>1, ChildEnds, Zenon DEF Child
  <2>2. ASSUME NEW s \in {proc[p], Accepted(proc[p]), NoFiles(proc[p])},
               Iterate(p, CloseListening(Expired(s, fin, pub)))
        PROVE  TableInv'
    <3> DEFINE n == CloseListening(Expired(s, fin, pub))
               t == IF UseMutex(n) THEN "top" ELSE "poll"
               r == [n EXCEPT !.at = t]
    <3>1. s \in PRec /\ s.cycle = proc[p].cycle
      <4>1. CASE s = proc[p]
        BY <1>1, <4>1
      <4>2. CASE s = Accepted(proc[p])
        BY <1>1, <4>2, AcceptedRecord
      <4>3. CASE s = NoFiles(proc[p])
        BY <1>1, <4>3, NoFilesRecord, Zenon
      <4> QED BY <4>1, <4>2, <4>3
    <3>2. Expired(s, fin, pub) \in PRec /\ Expired(s, fin, pub).cycle = proc[p].cycle
      BY <3>1, ExpiredRecord
    <3>3. n \in PRec /\ n.cycle = proc[p].cycle
      BY <3>2, CloseListeningRecord, Zenon
    <3>4. CASE proc' = [proc EXCEPT ![p] = r]
      <4> HIDE DEF n
      <4>1. t \in {"top", "poll"}
        BY Zenon
      <4> HIDE DEF t
      <4>2. r \in PRec /\ r.cycle = proc[p].cycle
        BY <3>3, <4>1 DEF PRec
      <4> HIDE DEF r
      <4> QED BY <1>3, <3>4, <4>2, Zenon
    <3> QED BY <2>1, <2>2, <3>4, Zenon DEF Iterate
  <2>3. CASE proc' = [proc EXCEPT ![p].st = "hung"]
    <3> DEFINE r == [proc[p] EXCEPT !.st = "hung"]
    <3>1. proc' = [proc EXCEPT ![p] = r] /\ r \in PRec /\ r.cycle = proc[p].cycle
      BY <1>1, <2>3 DEF PRec
    <3> HIDE DEF r
    <3> QED BY <1>3, <3>1, Zenon
  <2> QED BY <1>6, <2>1, <2>2, <2>3, Zenon DEF Events
<1> QED BY <1>4, <1>5, <1>6

\* ngx_signal_worker_processes: either everything is to end, or the new
\* workers are spared and the old ones told.
LEMMA ToldStep ==
    ASSUME MutexInv, TableInv, NEW cmd \in {"QUIT", "TERM", "KILL"}, SignalWorkerProcesses(cmd),
           Agree(master, master'), master'.at = "suspend",
           master.quit \/ master.term \/ (cmd = "QUIT" /\ master.at = "sleep")
    PROVE  TableInv'
<1>1. /\ table' = ToldTable(cmd) /\ UNCHANGED <<last, started>> /\ started \in Nat /\ Slots
      /\ proc \in [Pid -> PRec]
  BY DEF SignalWorkerProcesses, MutexInv, Types, TableInv
<1>2. \A q \in Pid : /\ Child(proc'[q]) => Child(proc[q])
                     /\ Runs(proc'[q]) => Runs(proc[q]) /\ proc'[q].cycle = proc[q].cycle
  <2> SUFFICES ASSUME NEW q \in Pid
               PROVE  /\ Child(proc'[q]) => Child(proc[q])
                      /\ Runs(proc'[q]) => Runs(proc[q]) /\ proc'[q].cycle = proc[q].cycle
    OBVIOUS
  <2>1. \/ proc'[q] = proc[q]
        \/ Alive(q) /\ proc'[q] = Zombie(FALSE)
        \/ Alive(q) /\ proc'[q] = [proc[q] EXCEPT !.chan = @ \cup {cmd}]
    BY Zenon DEF SignalWorkerProcesses, ToldProc
  <2>2. proc[q] \in PRec
    BY <1>1
  <2>3. CASE proc'[q] = proc[q]
    BY <2>3
  <2>4. CASE Alive(q) /\ proc'[q] = Zombie(FALSE)
    BY <2>4, FreshRecords, Zenon DEF Alive, Child, Runs
  <2>5. CASE Alive(q) /\ proc'[q] = [proc[q] EXCEPT !.chan = @ \cup {cmd}]
    <3>1. proc'[q].st = proc[q].st /\ proc'[q].cycle = proc[q].cycle
      BY <2>2, <2>5 DEF PRec
    <3> QED BY <3>1 DEF Child, Runs
  <2> QED BY <2>1, <2>3, <2>4, <2>5, Zenon
<1>3. \A i \in Slot : table[i] \in SRec /\ (table[i].pid # 0 => table[i].pid \in Pid /\ i < last)
  BY <1>1, SlotPid, ZenonT(40)
<1>4. ASSUME NEW i \in Slot
      PROVE  /\ table'[i] \in SRec /\ table'[i].pid = table[i].pid /\ table'[i].exited = table[i].exited
             /\ i >= last => table'[i] = table[i]
             /\ i < last /\ cmd = "QUIT" /\ master.at = "sleep" =>
                  /\ ~table'[i].just \/ i \in Told(cmd)
                  /\ i \in Told(cmd) => (table'[i].exiting <=> ~table[i].exited) /\ table'[i].just = table[i].just
                  /\ i \notin Told(cmd) => table'[i].exiting = table[i].exiting
  <2>1. /\ i \in Told(cmd) => table'[i] = [table[i] EXCEPT !.exiting = ~table[i].exited]
        /\ i \notin Told(cmd) /\ i < last => table'[i] = [table[i] EXCEPT !.just = FALSE]
        /\ i \notin Told(cmd) /\ ~(i < last) => table'[i] = table[i]
    BY <1>1, Zenon DEF ToldTable
  <2>2. table[i] \in SRec /\ i \in Int /\ last \in Int
    BY <1>1, <1>3 DEF Slot, Slots
  <2>3. i \in Told(cmd) => i < last
    BY DEF Told
  <2>4. CASE i \in Told(cmd)
    <3> DEFINE b == ~table[i].exited
               s == [table[i] EXCEPT !.exiting = b]
    <3>1. table'[i] = s /\ b \in BOOLEAN
      BY <2>1, <2>4, Zenon
    <3> HIDE DEF b
    <3>2. s \in SRec /\ s.pid = table[i].pid /\ s.exited = table[i].exited /\ s.exiting = b
          /\ s.just = table[i].just
      BY <2>2, <3>1 DEF SRec
    <3> HIDE DEF s
    <3>3. b <=> ~table[i].exited
      BY Zenon DEF b
    <3>4. ~(i >= last)
      BY <2>2, <2>3, <2>4
    <3> QED BY <2>4, <3>1, <3>2, <3>3, <3>4
  <2>5. CASE i \notin Told(cmd) /\ i < last
    <3> DEFINE s == [table[i] EXCEPT !.just = FALSE]
    <3>1. table'[i] = s
      BY <2>1, <2>5
    <3>2. s \in SRec /\ s.pid = table[i].pid /\ s.exited = table[i].exited /\ ~s.just
          /\ s.exiting = table[i].exiting
      BY <2>2, Zenon DEF SRec
    <3> HIDE DEF s
    <3>3. ~(i >= last)
      BY <2>2, <2>5
    <3> QED BY <2>5, <3>1, <3>2, <3>3
  <2>6. CASE i \notin Told(cmd) /\ ~(i < last)
    BY <2>1, <2>2, <2>6, ZenonT(40)
  <2> QED BY <2>4, <2>5, <2>6
<1>5. Slots'
  <2>1. table' \in [Slot -> SRec]
    <3>1. table' = [i \in Slot |-> table'[i]]
      BY <1>1 DEF ToldTable
    <3> QED BY <1>4, <3>1
  <2> QED BY <1>1, <1>2, <1>3, <1>4, <2>1 DEF Slots
<1>6. Known'
  BY <1>2, <1>4 DEF TableInv, Known, Agree
<1>7. Splits'
  <2> SUFFICES ASSUME ~master.quit, ~master.term, NEW i \in Slot
               PROVE  ~table'[i].just /\ (table[i].pid # 0 => Split(table'[i], proc'[table[i].pid], master'))
    BY <1>4, SMTT(30) DEF Splits, Agree
  <2>1. cmd = "QUIT" /\ master.at = "sleep" /\ table[i].pid # 0 => Split(table[i], proc[table[i].pid], master)
    BY DEF TableInv, Splits
  <2>2. i \in Told(cmd) <=> i < last /\ table[i].pid # 0 /\ ~table[i].just /\ ~table[i].exiting
    BY <2>1 DEF Told
  <2>3. ~table'[i].just
    <3>1. CASE i < last
      BY <1>4, <2>1, <2>2, <3>1
    <3>2. CASE ~(i < last)
      <4>1. table'[i] = NoSlot
        BY <1>1, <1>4, <3>2 DEF Slots, Slot
      <4> QED BY <4>1 DEF NoSlot
    <3> QED BY <3>1, <3>2
  <2>4. ASSUME table[i].pid # 0, Runs(proc'[table[i].pid])
        PROVE  /\ proc'[table[i].pid].cycle <= master.cycle
               /\ table'[i].exiting <=> proc'[table[i].pid].cycle < master.cycle
    <3> DEFINE r == proc[table[i].pid]
    <3>1. table[i].pid \in Pid /\ i < last /\ r \in PRec /\ master.cycle \in Nat
      BY <1>1, <1>3, <2>4, ZenonT(40) DEF MutexInv, Types, MRec
    <3>2. Runs(r) /\ proc'[table[i].pid].cycle = r.cycle /\ r.cycle \in Nat
      BY <1>2, <2>4, <3>1, SMTT(30) DEF PRec
    <3>3. ~table[i].exited
      BY <1>1, <2>4, <3>2, ZenonT(40) DEF Slots, Child, Runs
    <3>4. /\ r.cycle <= master.cycle /\ (table[i].just <=> r.cycle = master.cycle)
          /\ ~(table[i].just /\ table[i].exiting)
      BY <2>1, <2>4, <3>2, SMTT(30) DEF Split
    <3>5. CASE i \in Told(cmd)
      <4>1. table'[i].exiting
        BY <1>4, <3>1, <3>3, <3>5, Zenon
      <4>2. ~(r.cycle = master.cycle)
        BY <2>2, <3>4, <3>5, Zenon
      <4>3. r.cycle < master.cycle
        BY <3>1, <3>2, <3>4, <4>2
      <4> QED BY <3>2, <3>4, <4>1, <4>3, Zenon
    <3>6. CASE i \notin Told(cmd)
      <4>1. table'[i].exiting <=> table[i].exiting
        BY <1>4, <3>1, <3>6, Zenon
      <4>2. table[i].exiting <=> ~table[i].just
        BY <2>2, <2>4, <3>1, <3>4, <3>6, Zenon
      <4>3. r.cycle < master.cycle <=> ~(r.cycle = master.cycle)
        BY <3>1, <3>2, <3>4
      <4> QED BY <3>2, <3>4, <4>1, <4>2, <4>3, Zenon
    <3> QED BY <3>5, <3>6, Zenon
  <2> QED BY <2>3, <2>4, SMTT(30) DEF Split, Agree
<1> QED BY <1>5, <1>6, <1>7 DEF TableInv

\* What waitpid() leaves.
WaitedProc == [p \in Pid |-> IF p \in Ended THEN [NoProc EXCEPT !.st = "gone"] ELSE proc[p]]

\* Waiting marks the slots of the processes that are gone, and no others.
LEMMA WaitedTable ==
    ASSUME MutexInv, TableInv
    PROVE  /\ \A p \in Pid : Child(WaitedProc[p]) => Child(proc[p]) /\ WaitedProc[p] = proc[p]
           /\ Waited = [i \in Slot |-> Waited[i]]
           /\ \A i \in Slot :
                /\ Waited[i] \in SRec /\ Waited[i].pid = table[i].pid
                /\ Waited[i].exiting = table[i].exiting /\ Waited[i].just = table[i].just
                /\ i >= last => Waited[i] = NoSlot
                /\ table[i].pid # 0 /\ Waited[i].exited => ~Child(WaitedProc[table[i].pid])
<1>1. ASSUME NEW p \in Pid
      PROVE  /\ Child(WaitedProc[p]) => Child(proc[p]) /\ WaitedProc[p] = proc[p]
             /\ p \in Ended => ~Child(WaitedProc[p])
  <2>1. p \in Ended => WaitedProc[p].st = "gone"
    BY DEF WaitedProc, NoProc
  <2>2. p \notin Ended => WaitedProc[p] = proc[p]
    BY ZenonT(40) DEF WaitedProc
  <2> QED BY <2>1, <2>2 DEF Child
<1>2. ASSUME NEW i \in Slot
      PROVE  /\ Waited[i] \in SRec /\ Waited[i].pid = table[i].pid
             /\ Waited[i].exiting = table[i].exiting /\ Waited[i].just = table[i].just
             /\ i >= last => Waited[i] = NoSlot
             /\ table[i].pid # 0 /\ Waited[i].exited => ~Child(WaitedProc[table[i].pid])
  <2>1. /\ table[i] \in SRec /\ (table[i].pid # 0 => table[i].pid \in Pid) /\ i \in Int /\ last \in Int
        /\ i >= last => table[i] = NoSlot
        /\ table[i].pid # 0 /\ table[i].exited => ~Child(proc[table[i].pid])
    BY SlotPid, SMTT(30) DEF TableInv, MutexInv, Types, Slots, Slot
  <2>2. CASE i < last /\ table[i].pid \in Ended
    <3> DEFINE b == table[i].respawn /\ ~proc[table[i].pid].fatal
               s == [table[i] EXCEPT !.exited = TRUE, !.respawn = b]
    <3>1. Waited[i] = s /\ b \in BOOLEAN /\ table[i].pid \in Pid
      BY <2>2, Zenon DEF Waited, Ended
    <3> HIDE DEF b
    <3>2. s \in SRec /\ s.pid = table[i].pid /\ s.exiting = table[i].exiting /\ s.just = table[i].just
      BY <2>1, <3>1, Zenon DEF SRec
    <3> HIDE DEF s
    <3> QED BY <1>1, <2>1, <2>2, <3>1, <3>2
  <2>3. CASE ~(i < last /\ table[i].pid \in Ended)
    <3>1. Waited[i] = table[i]
      BY <2>3 DEF Waited
    <3> QED BY <1>1, <2>1, <3>1
  <2> QED BY <2>2, <2>3
<1> QED BY <1>1, <1>2, Zenon DEF Waited

\* What becomes of slot i when the slots of f are forked: forked, freed or left.
ReapedSlot(f, i, s) ==
    \/ /\ i \in f /\ Waited[i].pid # 0 /\ Waited[i].exited
       /\ s \in SRec /\ s.pid = NewPid(f, i) /\ ~s.exited /\ ~s.exiting /\ s.just = table[i].just
    \/ i \notin f /\ Waited[i].exited /\ s = NoSlot
    \/ i \notin f /\ s = Waited[i]

\* sigsuspend returns: what Wake does, slot by slot, whether or not it reaps.
LEMMA WakeTable ==
    ASSUME MutexInv, TableInv, Wake
    PROVE  \E f \in SUBSET Slot :
             /\ table' = [i \in Slot |-> table'[i]] /\ \A i \in Slot : ReapedSlot(f, i, table'[i])
             /\ proc' = Forks(f, WaitedProc)
             /\ started' = started + Cardinality(f) /\ started' <= MaxPid
             /\ last' \in 0 .. MaxPid
             /\ \A i \in Slot : i >= last' /\ i < last => table'[i] = NoSlot
             /\ last' <= last
             /\ master'.at # "sleep" /\ master'.cycle = master.cycle
             /\ (~master'.quit => ~master.quit) /\ (~master'.term => ~master.term)
             /\ (\/ f # {}
                 \/ /\ master.live
                    /\ \E i \in Slot : i < last /\ table[i].pid # 0 /\ ~Waited[i].exited) =>
                  master'.up /\ master'.live
<1> DEFINE h == Handled
           t == Waited
<1>1. /\ h \in MRec /\ h.up /\ h.live = master.live /\ h.cycle = master.cycle /\ h.at = "suspend"
      /\ (~h.quit => ~master.quit) /\ (~h.term => ~master.term) /\ started \in Nat
      /\ started <= MaxPid /\ last \in 0 .. MaxPid /\ MaxPid \in Nat
  BY HandledKeeps, HandledRecord, WorkersAssumption, Zenon DEF Wake, MutexInv, Types, TableInv, Slots
<1>2. ASSUME NEW i \in Slot
      PROVE  /\ t[i] \in SRec /\ t[i].pid = table[i].pid /\ t[i].just = table[i].just
             /\ i >= last => t[i] = NoSlot
  BY WaitedTable
<1>3. CASE ~h.reap
  <2> DEFINE f == {}
  <2>1. /\ master' = Acts(h) /\ table' = t /\ proc' = WaitedProc /\ UNCHANGED <<last, started>>
    BY <1>3 DEF Wake, WaitedProc
  <2>2. Cardinality(f) = 0
    BY FS_EmptySet
  <2>3. proc' = Forks(f, WaitedProc)
    <3>1. NewPids(f) = {}
      BY <1>1, <2>2 DEF NewPids
    <3> QED BY <2>1, <3>1 DEF Forks, WaitedProc
  <2>4. \A i \in Slot : ReapedSlot(f, i, table'[i])
    BY <2>1 DEF ReapedSlot
  <2>5. /\ master'.at # "sleep" /\ master'.live = h.live /\ master'.quit = h.quit /\ master'.term = h.term
        /\ master'.cycle = h.cycle /\ (h.up /\ h.live => master'.up)
    BY <1>1, <2>1, ActsKeeps
  <2>6. table' = [i \in Slot |-> table'[i]]
    BY <2>1, WaitedTable
  <2>7. \A i \in Slot : ~(i >= last /\ i < last)
    BY <1>1 DEF Slot
  <2> HIDE DEF h, t
  <2>8. WITNESS f \in SUBSET Slot
  <2> QED BY <1>1, <2>1, <2>2, <2>3, <2>4, <2>5, <2>6, <2>7
<1>4. CASE h.reap
  <2>1. PICK f \in SUBSET Respawns(t, h) :
          /\ started + Cardinality(f) <= MaxPid
          /\ table' = Reaped(t, h, f) /\ proc' = Forks(f, WaitedProc)
          /\ started' = started + Cardinality(f)
          /\ last' = IF last - 1 \in Exited(t) \ Respawns(t, h) THEN last - 1 ELSE last
          /\ master' = Acts([h EXCEPT !.reap = FALSE, !.live = Live(t, f)])
    BY <1>4, Zenon DEF Wake, WaitedProc
  <2> HIDE DEF h, t
  <2>2. /\ f \in SUBSET Slot
        /\ \A i \in f : i < last /\ t[i].pid # 0 /\ t[i].exited /\ ~t[i].exiting
    BY DEF Respawns, Exited
  <2>3. ASSUME NEW i \in Slot PROVE ReapedSlot(f, i, table'[i])
    <3>1. CASE i \in f
      <4> DEFINE n == NewPid(f, i)
                 s == [t[i] EXCEPT !.pid = n, !.exited = FALSE]
      <4>1. table'[i] = s
        BY <2>1, <3>1, Zenon DEF Reaped
      <4>2. n \in Nat
        <5>1. n \in NewPids(f) /\ Cardinality(f) \in Nat
          BY <1>1, <2>2, <3>1, NewPidsFit, SlotsFinite
        <5> QED BY <1>1, <5>1 DEF NewPids
      <4> HIDE DEF n
      <4>3. s \in SRec /\ s.pid = n /\ ~s.exited /\ s.exiting = t[i].exiting /\ s.just = t[i].just
        BY <1>2, <4>2, Zenon DEF SRec
      <4> HIDE DEF s
      <4> QED BY <1>2, <2>2, <3>1, <4>1, <4>3 DEF ReapedSlot, n, t
    <3>2. CASE i \notin f /\ i \in Exited(t) \ Respawns(t, h)
      BY <2>1, <3>2, Zenon DEF Reaped, ReapedSlot, Exited, t
    <3>3. CASE i \notin f /\ i \notin Exited(t) \ Respawns(t, h)
      BY <2>1, <3>3, Zenon DEF Reaped, ReapedSlot, t
    <3> QED BY <3>1, <3>2, <3>3, ZenonT(40)
  <2>4. table' = [i \in Slot |-> table'[i]]
    BY <2>1, Zenon DEF Reaped
  <2>5. /\ last' \in 0 .. MaxPid /\ last' <= last
        /\ \A i \in Slot : i >= last' /\ i < last => table'[i] = NoSlot
    <3>1. CASE last - 1 \in Exited(t) \ Respawns(t, h)
      <4>1. last' = last - 1 /\ last - 1 \in Slot
        BY <2>1, <3>1 DEF Exited
      <4>2. last - 1 \notin f
        BY <2>1, <3>1
      <4>3. table'[last - 1] = NoSlot
        BY <2>1, <3>1, <4>1, <4>2, Zenon DEF Reaped
      <4>4. \A i \in Slot : i >= last - 1 /\ i < last => i = last - 1
        BY <1>1 DEF Slot
      <4> QED BY <1>1, <4>1, <4>3, <4>4 DEF Slot
    <3>2. CASE ~(last - 1 \in Exited(t) \ Respawns(t, h))
      <4>1. last' = last
        BY <2>1, <3>2, ZenonT(40)
      <4> QED BY <1>1, <4>1 DEF Slot
    <3> QED BY <3>1, <3>2
  <2>6. /\ master'.at # "sleep" /\ master'.cycle = master.cycle
        /\ (~master'.quit => ~master.quit) /\ (~master'.term => ~master.term)
        /\ Live(t, f) => master'.up /\ master'.live
    <3> DEFINE v == Live(t, f)
               m == [h EXCEPT !.reap = FALSE, !.live = v]
    <3>1. v \in BOOLEAN
      BY Zenon DEF Live
    <3>2. master' = Acts(m)
      BY <2>1
    <3> HIDE DEF v
    <3>3. /\ m \in MRec /\ m.live = v /\ m.up = h.up /\ m.at = h.at /\ m.cycle = h.cycle
          /\ m.quit = h.quit /\ m.term = h.term
      BY <1>1, <3>1, Zenon DEF MRec
    <3> HIDE DEF m
    <3>4. /\ master'.at # "sleep" /\ master'.live = m.live /\ master'.quit = m.quit /\ master'.term = m.term
          /\ master'.cycle = m.cycle /\ (m.up /\ m.live => master'.up)
      BY <1>1, <3>2, <3>3, ActsKeeps, Zenon
    <3> QED BY <1>1, <3>3, <3>4 DEF v
  <2>7. (\/ f # {}
         \/ \E i \in Slot : i < last /\ table[i].pid # 0 /\ ~Waited[i].exited) => Live(t, f)
    BY <1>2 DEF Live, t
  <2> QED BY <1>1, <2>1, <2>2, <2>3, <2>4, <2>5, <2>6, <2>7, ZenonT(40)
<1> QED BY <1>3, <1>4

\* Reaping and respawning keep every child in a slot of its own, of the right cycle.
LEMMA WakeKeepsTable ==
    ASSUME MutexInv, TableInv, Wake
    PROVE  TableInv'
<1>0. PICK f \in SUBSET Slot :
        /\ table' = [i \in Slot |-> table'[i]] /\ \A i \in Slot : ReapedSlot(f, i, table'[i])
        /\ proc' = Forks(f, WaitedProc)
        /\ started' = started + Cardinality(f) /\ started' <= MaxPid
        /\ last' \in 0 .. MaxPid
        /\ \A i \in Slot : i >= last' /\ i < last => table'[i] = NoSlot
        /\ last' <= last
        /\ master'.at # "sleep" /\ master'.cycle = master.cycle
        /\ (~master'.quit => ~master.quit) /\ (~master'.term => ~master.term)
        /\ (\/ f # {}
            \/ /\ master.live
               /\ \E i \in Slot : i < last /\ table[i].pid # 0 /\ ~Waited[i].exited) =>
             master'.up /\ master'.live
  BY WakeTable
<1>1. /\ Slots /\ Known /\ Splits /\ started \in Nat /\ master \in MRec /\ proc \in [Pid -> PRec]
      /\ Cardinality(f) \in Nat /\ last \in 0 .. MaxPid /\ MaxPid \in Nat
  BY SlotsFinite, WorkersAssumption DEF MutexInv, Types, TableInv, Slots
<1>2. ASSUME NEW p \in Pid
      PROVE  /\ p \in NewPids(f) => proc'[p] = Forked(master.cycle)
             /\ p \notin NewPids(f) => proc'[p] = WaitedProc[p]
  BY <1>0 DEF Forks
<1>3. \A p \in NewPids(f) : p \in Pid /\ p > started /\ p <= started'
  BY <1>0, <1>1 DEF NewPids, Pid
<1>4. ASSUME NEW i \in Slot
      PROVE  /\ i \in Int /\ table[i].pid \in Nat /\ table[i].pid <= started
             /\ table[i].pid # 0 => table[i].pid \in Pid /\ table[i].pid \notin NewPids(f) /\ i < last
             /\ Waited[i] \in SRec /\ Waited[i].pid = table[i].pid
             /\ Waited[i].exiting = table[i].exiting /\ Waited[i].just = table[i].just
             /\ i >= last => Waited[i] = NoSlot
             /\ table[i].pid # 0 /\ Waited[i].exited => ~Child(WaitedProc[table[i].pid])
  <2>1. table[i].pid \in Nat /\ table[i].pid <= started
        /\ (table[i].pid # 0 => table[i].pid \in Pid /\ i < last)
    BY <1>1, SlotPid DEF Slots
  <2>2. table[i].pid \notin NewPids(f)
    BY <1>1, <2>1 DEF NewPids
  <2> QED BY <2>1, <2>2, WaitedTable DEF Slot
<1>5. /\ NoSlot \in SRec /\ NoSlot.pid = 0 /\ ~NoSlot.just /\ ~NoSlot.exited
      /\ Forked(master.cycle).cycle = master.cycle /\ Forked(master.cycle).st = "init"
  BY DEF NoSlot, SRec, Forked, NoProc
<1>6. ASSUME NEW i \in Slot
      PROVE  \/ /\ i \in f /\ table'[i] \in SRec /\ table'[i].pid = NewPid(f, i)
                /\ NewPid(f, i) \in NewPids(f) /\ NewPid(f, i) # 0
                /\ ~table'[i].exited /\ ~table'[i].exiting /\ table'[i].just = table[i].just
             \/ i \notin f /\ Waited[i].exited /\ table'[i] = NoSlot
             \/ i \notin f /\ table'[i] = Waited[i]
  <2>1. i \in f => NewPid(f, i) \in NewPids(f) /\ NewPid(f, i) # 0
    BY <1>1, <1>3, NewPidsFit, SMTT(30)
  <2> QED BY <1>0, <2>1 DEF ReapedSlot
<1>7. Slots'
  <2>1. table' \in [Slot -> SRec]
    BY <1>0, <1>4, <1>5, <1>6
  <2>2. ASSUME NEW i \in Slot, i >= last' PROVE table'[i] = NoSlot
    <3>1. CASE i < last
      BY <1>0, <2>2, <3>1, ZenonT(40)
    <3>2. CASE ~(i < last)
      <4>1. Waited[i] = NoSlot /\ i \notin f
        <5>1. Waited[i] = NoSlot
          BY <1>1, <1>4, <3>2
        <5>2. i \in f => Waited[i].pid # 0
          BY <1>0, ZenonT(40) DEF ReapedSlot
        <5> QED BY <1>5, <5>1, <5>2, ZenonT(40)
      <4> QED BY <1>6, <4>1
    <3> QED BY <3>1, <3>2
  <2>3. ASSUME NEW i \in Slot PROVE table'[i].pid <= started'
    BY <1>0, <1>1, <1>3, <1>4, <1>5, <1>6, SMTT(30)
  <2>4. ASSUME NEW i \in Slot, NEW j \in Slot, table'[i].pid = table'[j].pid, table'[i].pid # 0
        PROVE  i = j
    <3>1. CASE i \in f /\ j \in f
      BY <1>1, <1>6, <2>4, <3>1, NewPidsFit
    <3>2. CASE i \notin f /\ j \notin f
      <4>1. table[i].pid = table'[i].pid /\ table[j].pid = table'[j].pid
        BY <1>4, <1>5, <1>6, <2>4, <3>2, ZenonT(40)
      <4> QED BY <1>1, <2>4, <4>1, Zenon DEF Slots
    <3>3. CASE (i \in f /\ j \notin f) \/ (i \notin f /\ j \in f)
      <4>1. ASSUME NEW g \in f, NEW h \in Slot \ f PROVE ~(table'[g].pid = table'[h].pid /\ table'[g].pid # 0)
        <5>1. table'[g].pid \in NewPids(f)
          BY <1>6, Zenon
        <5>2. table'[h].pid = 0 \/ table'[h].pid \notin NewPids(f)
          BY <1>4, <1>5, <1>6, Zenon
        <5> QED BY <5>1, <5>2, Zenon
      <4> QED BY <2>4, <3>3, <4>1, Zenon
    <3> QED BY <3>1, <3>2, <3>3, ZenonT(40)
  <2>5. ASSUME NEW i \in Slot, table'[i].pid # 0, table'[i].exited PROVE ~Child(proc'[table'[i].pid])
    <3>1. CASE Waited[i].exited /\ table'[i] = Waited[i]
      <4>1. /\ table'[i].pid = table[i].pid /\ table[i].pid \in Pid /\ table[i].pid \notin NewPids(f)
            /\ ~Child(WaitedProc[table[i].pid])
        BY <1>4, <2>5, <3>1
      <4>2. proc'[table[i].pid] = WaitedProc[table[i].pid]
        BY <1>2, <4>1, Zenon
      <4> QED BY <4>1, <4>2, ZenonT(40)
    <3> QED BY <1>5, <1>6, <2>5, <3>1, Zenon
  <2> QED BY <1>0, <2>1, <2>2, <2>3, <2>4, <2>5, ZenonT(40) DEF Slots
<1>8. Known'
  <2> SUFFICES ASSUME NEW p \in Pid, Child(proc'[p])
               PROVE  master'.up /\ master'.live /\ \E i \in Slot : table'[i].pid = p
    BY DEF Known
  <2>1. CASE p \in NewPids(f)
    <3>1. PICK i \in f : NewPid(f, i) = p
      BY <1>1, <2>1, NewPidsFit, ZenonT(40)
    <3>2. i \in Slot /\ table'[i].pid = p /\ f # {}
      BY <1>6, <3>1
    <3> QED BY <1>0, <3>2
  <2>2. CASE p \notin NewPids(f)
    <3>1. Child(WaitedProc[p]) /\ Child(proc[p])
      BY <1>2, <2>2, WaitedTable
    <3>2. PICK i \in Slot : table[i].pid = p
      BY <1>1, <3>1, ZenonT(40) DEF Known
    <3>3. p # 0 /\ ~Waited[i].exited /\ i < last /\ master.live
      BY <1>1, <1>4, <3>1, <3>2 DEF Known, Pid
    <3>4. i \notin f
      BY <1>0, <3>3, ZenonT(40) DEF ReapedSlot
    <3>5. table'[i].pid = p
      BY <1>4, <1>6, <3>2, <3>3, <3>4, ZenonT(40)
    <3> QED BY <1>0, <3>2, <3>3, <3>5
  <2> QED BY <2>1, <2>2
<1>9. Splits'
  <2> SUFFICES ASSUME ~master'.quit, ~master'.term, NEW i \in Slot
               PROVE  /\ ~table'[i].just
                      /\ table'[i].pid # 0 => Split(table'[i], proc'[table'[i].pid], master')
    BY DEF Splits
  <2>1. master.at = "suspend" /\ ~master.quit /\ ~master.term /\ master.cycle \in Nat
    BY <1>0, <1>1, Zenon DEF Wake, MRec
  <2>2. /\ ~table[i].just
        /\ table[i].pid # 0 => Split(table[i], proc[table[i].pid], master)
    BY <1>1, <2>1 DEF Splits
  <2>3. ~table'[i].just
    BY <1>4, <1>5, <1>6, <2>2, Zenon
  <2>4. CASE i \in f
    <3>1. proc'[table'[i].pid] = Forked(master.cycle) /\ ~table'[i].exiting
      BY <1>2, <1>3, <1>6, <2>4, ZenonT(40)
    <3> QED BY <1>0, <1>5, <2>1, <2>3, <3>1, SMTT(30) DEF Split
  <2>5. CASE i \notin f /\ table'[i] = NoSlot
    BY <1>5, <2>3, <2>5, ZenonT(40)
  <2>6. CASE i \notin f /\ table'[i] = Waited[i]
    <3> SUFFICES ASSUME table[i].pid # 0, Runs(proc'[table[i].pid])
                 PROVE  /\ proc'[table[i].pid].cycle <= master.cycle
                        /\ table'[i].exiting <=> proc'[table[i].pid].cycle < master.cycle
      BY <1>0, <1>4, <2>3, <2>6 DEF Split
    <3>1. proc'[table[i].pid] = WaitedProc[table[i].pid] /\ table[i].pid \in Pid
      BY <1>2, <1>4, Zenon
    <3>2. proc'[table[i].pid] = proc[table[i].pid]
      BY <3>1, WaitedTable DEF Child, Runs
    <3> QED BY <1>4, <2>1, <2>2, <2>6, <3>2, ZenonT(40) DEF Split
  <2> QED BY <1>6, <2>4, <2>5, <2>6, Zenon
<1> QED BY <1>7, <1>8, <1>9 DEF TableInv

\* An iteration that only changes the master.
LEMMA MasterStep ==
    ASSUME TableInv, Agree(master, master'), master.at # "sleep", master'.at # "sleep",
           UNCHANGED <<table, last, proc, started>>
    PROVE  TableInv'
<1>1. Slots' /\ Known'
  BY Zenon DEF TableInv, Slots, Known, Agree
<1>2. Splits'
  BY Zenon DEF TableInv, Splits, Split, Agree
<1> QED BY <1>1, <1>2 DEF TableInv

\* A new cycle: its workers are the just_spawn ones.
LEMMA NewCycleTable ==
    ASSUME MutexInv, TableInv, NEW n \in Nat, StartWorkerProcesses(n), master.at = "act", master.up,
           ~master.quit, ~master.term,
           master' = [master EXCEPT !.hup = FALSE, !.cycle = @ + 1, !.at = "sleep", !.live = TRUE]
    PROVE  TableInv'
<1> DEFINE F == FirstFree(n)
           new == started + 1 .. started + n
<1>1. /\ Slots /\ Known /\ Splits /\ started \in Nat /\ proc \in [Pid -> PRec] /\ master.cycle \in Nat
      /\ last \in 0 .. MaxPid /\ MaxPid \in Nat /\ started + n <= MaxPid /\ started' = started + n
  BY WorkersAssumption, ZenonT(40) DEF MutexInv, Types, MRec, TableInv, Slots, StartWorkerProcesses
<1>2. F \in SUBSET Slot /\ Cardinality(F) = n /\ \A i \in F : table[i].pid = 0
  BY <1>1, RoomForWorkers
<1>3. NewPids(F) = new
  BY <1>2 DEF NewPids
<1>4. last' \in last .. MaxPid /\ \A i \in F : i < last'
  BY <1>1, <1>2, LastGrows DEF StartWorkerProcesses
<1>5. /\ master'.up /\ master'.live /\ master'.cycle = master.cycle + 1 /\ master'.at = "sleep"
  <2> DEFINE c == master.cycle + 1
  <2>1. master' = [master EXCEPT !.hup = FALSE, !.cycle = c, !.at = "sleep", !.live = TRUE]
    OBVIOUS
  <2> HIDE DEF c
  <2>2. master'.up /\ master'.live /\ master'.cycle = c /\ master'.at = "sleep"
    BY <2>1, Zenon DEF MutexInv, Types, MRec
  <2> QED BY <2>2 DEF c
<1>6. /\ table' = [i \in Slot |-> IF i \in F THEN Spawned(NewPid(F, i), TRUE) ELSE table[i]]
      /\ proc' = [p \in Pid |-> IF p \in new THEN Forked(master.cycle + 1) ELSE proc[p]]
  BY DEF StartWorkerProcesses
<1> HIDE DEF F, new
<1>7. new \subseteq Pid /\ \A p \in new : p > started /\ p <= started' /\ p # 0
  BY <1>1 DEF new, Pid
<1>8. ASSUME NEW i \in F
      PROVE  /\ table'[i] \in SRec /\ table'[i].pid = NewPid(F, i) /\ NewPid(F, i) \in new
             /\ ~table'[i].exited /\ ~table'[i].exiting /\ table'[i].just
  <2>1. NewPid(F, i) \in new /\ NewPid(F, i) \in Nat /\ i \in Slot
    BY <1>1, <1>2, <1>3, <1>7, NewPidsFit DEF Pid
  <2>2. table'[i] = Spawned(NewPid(F, i), TRUE)
    BY <1>6, <2>1
  <2> QED BY <2>1, <2>2, Zenon DEF Spawned, NoSlot, SRec
<1>9. ASSUME NEW i \in Slot
      PROVE  /\ i \in Int /\ table[i] \in SRec /\ table[i].pid \in Nat /\ table[i].pid <= started
             /\ table[i].pid # 0 => table[i].pid \in Pid /\ table[i].pid \notin new
             /\ i \notin F => table'[i] = table[i]
  <2>1. table[i].pid \in Nat /\ table[i].pid <= started /\ (table[i].pid # 0 => table[i].pid \in Pid)
        /\ table[i] \in SRec
    BY <1>1, SlotPid DEF Slots
  <2>2. table[i].pid \notin new
    BY <1>1, <1>7, <2>1
  <2>3. i \notin F => table'[i] = table[i]
    BY <1>6
  <2>4. i \in Int
    BY DEF Slot
  <2> QED BY <2>1, <2>2, <2>3, <2>4
<1>10. /\ \A p \in new : proc'[p] = Forked(master.cycle + 1)
       /\ \A p \in Pid : p \notin new => proc'[p] = proc[p]
  BY <1>6, <1>7
<1>11. Slots'
  <2>1. table' \in [Slot -> SRec]
    <3>1. table' = [i \in Slot |-> table'[i]]
      BY <1>6
    <3> QED BY <1>8, <1>9, <3>1
  <2>2. ASSUME NEW i \in Slot, i >= last' PROVE table'[i] = NoSlot
    <3>1. i \notin F /\ i >= last
      BY <1>1, <1>4, <1>9, <2>2
    <3> QED BY <1>1, <1>9, <3>1 DEF Slots
  <2>3. ASSUME NEW i \in Slot PROVE table'[i].pid <= started'
    BY <1>1, <1>7, <1>8, <1>9
  <2>4. ASSUME NEW i \in Slot, NEW j \in Slot, table'[i].pid = table'[j].pid, table'[i].pid # 0
        PROVE  i = j
    <3>1. CASE i \in F /\ j \in F
      BY <1>1, <1>2, <1>8, <2>4, <3>1, NewPidsFit
    <3>2. CASE i \notin F /\ j \notin F
      BY <1>1, <1>9, <2>4, <3>2 DEF Slots
    <3>3. CASE (i \in F /\ j \notin F) \/ (i \notin F /\ j \in F)
      BY <1>8, <1>9, <2>4, <3>3
    <3> QED BY <3>1, <3>2, <3>3
  <2>5. ASSUME NEW i \in Slot, table'[i].pid # 0, table'[i].exited PROVE ~Child(proc'[table'[i].pid])
    BY <1>1, <1>8, <1>9, <1>10, <2>5 DEF Slots
  <2>6. last' \in 0 .. MaxPid /\ started' <= MaxPid
    BY <1>1, <1>4
  <2> QED BY <2>1, <2>2, <2>3, <2>4, <2>5, <2>6 DEF Slots
<1>12. Known'
  <2> SUFFICES ASSUME NEW p \in Pid, Child(proc'[p]) PROVE \E i \in Slot : table'[i].pid = p
    BY <1>5 DEF Known
  <2>1. CASE p \in new
    <3>1. PICK i \in F : NewPid(F, i) = p
      BY <1>1, <1>2, <1>3, <2>1, NewPidsFit
    <3> QED BY <1>2, <1>8, <3>1
  <2>2. CASE p \notin new
    <3>1. PICK i \in Slot : table[i].pid = p
      BY <1>1, <1>10, <2>2 DEF Known
    <3>2. i \notin F
      BY <1>2, <3>1 DEF Pid
    <3> QED BY <1>9, <3>1, <3>2
  <2> QED BY <2>1, <2>2
<1>13. Splits'
  <2> SUFFICES ASSUME NEW i \in Slot, table'[i].pid # 0, Runs(proc'[table'[i].pid])
               PROVE  /\ proc'[table'[i].pid].cycle <= master'.cycle
                      /\ table'[i].just <=> proc'[table'[i].pid].cycle = master'.cycle
                      /\ ~(table'[i].just /\ table'[i].exiting)
    BY <1>5 DEF Splits, Split
  <2>1. CASE i \in F
    <3>1. proc'[table'[i].pid] = Forked(master.cycle + 1)
      BY <1>8, <1>10, <2>1
    <3>2. Forked(master.cycle + 1).cycle = master.cycle + 1
      BY DEF Forked, NoProc
    <3> QED BY <1>1, <1>5, <1>8, <2>1, <3>1, <3>2
  <2>2. CASE i \notin F
    <3>1. table'[i] = table[i] /\ proc'[table'[i].pid] = proc[table[i].pid] /\ table[i].pid \in Pid
      BY <1>9, <1>10, <2>2
    <3>2. ~table[i].just /\ Split(table[i], proc[table[i].pid], master)
      BY <1>1, <3>1 DEF Splits
    <3>3. proc[table[i].pid].cycle <= master.cycle /\ proc[table[i].pid].cycle \in Nat
      BY <1>1, <3>1, <3>2 DEF Split, PRec
    <3>4. proc[table[i].pid].cycle < master.cycle + 1
      BY <1>1, <3>3
    <3> QED BY <1>1, <1>5, <3>1, <3>2, <3>3, <3>4
  <2> QED BY <2>1, <2>2
<1> QED BY <1>11, <1>12, <1>13 DEF TableInv

\* A reload, refused or not.
LEMMA ReconfigureTable ==
    ASSUME MutexInv, TableInv, Reconfigure
    PROVE  TableInv'
<1>1. CASE UNCHANGED <<table, last, proc, started>> /\ master' = Suspend([master EXCEPT !.hup = FALSE])
  <2> DEFINE m == [master EXCEPT !.hup = FALSE]
  <2>1. m \in MRec /\ Agree(master, m)
    BY Zenon DEF MutexInv, Types, MRec, Agree
  <2> HIDE DEF m
  <2>2. Agree(m, master') /\ master'.at = "suspend"
    BY <1>1, <2>1, SuspendKeeps DEF m
  <2> QED BY <1>1, <2>1, <2>2, MasterStep DEF Agree, Reconfigure
<1>2. ASSUME master.cycle + 1 \in Cycle,
             NEW n \in {conf[master.cycle + 1].n, conf[master.cycle + 1].n - 1},
             StartWorkerProcesses(n),
             master' = [master EXCEPT !.hup = FALSE, !.cycle = @ + 1, !.at = "sleep", !.live = TRUE]
      PROVE  TableInv'
  <2>1. n \in Nat
    <3> DEFINE C == [n : 1 .. MaxPid, mutex : BOOLEAN]
               i == master.cycle + 1
    <3>1. conf \in Seq(C) /\ i \in DOMAIN conf
      BY <1>2, WorkersAssumption, Zenon DEF Cycle, MutexInv, Types
    <3> HIDE DEF C, i
    <3>2. conf[i] \in C
      BY <3>1
    <3>3. conf[i].n \in 1 .. MaxPid
      BY <3>2 DEF C
    <3> QED
      BY <3>3, WorkersAssumption DEF i
  <2> QED BY <1>2, <2>1, NewCycleTable DEF Reconfigure
<1> QED BY <1>1, <1>2 DEF Reconfigure

-----------------------------------------------------------------------------

\* The first cycle's workers.
LEMMA TableInit == Init => TableInv
<1> SUFFICES ASSUME Init PROVE TableInv
  OBVIOUS
<1> DEFINE n == conf[1].n
<1>1. n \in 1 .. MaxPid /\ MaxPid \in Nat
  <2> DEFINE C == [n : 1 .. MaxPid, mutex : BOOLEAN]
  <2>1. conf \in Seq(C) /\ conf # <<>>
    BY WorkersAssumption, Zenon DEF Init
  <2> HIDE DEF C
  <2>2. conf[1] \in C
    BY <2>1
  <2> QED
    BY <2>2, WorkersAssumption, ZenonT(40) DEF C
<1>2. /\ table = [i \in Slot |-> IF i < n THEN Spawned(i + 1, FALSE) ELSE NoSlot]
      /\ proc = [p \in Pid |-> IF p <= n THEN Forked(1) ELSE NoProc] /\ last = n /\ started = n
      /\ master.up /\ master.live /\ master.at = "suspend" /\ master.cycle = 1
  BY ZenonT(40) DEF Init
<1> HIDE DEF n
<1>3. ASSUME NEW i \in Slot
      PROVE  /\ i \in Nat /\ table[i] \in SRec /\ ~table[i].just /\ ~table[i].exited /\ ~table[i].exiting
             /\ i < n => table[i].pid = i + 1 /\ i + 1 \in Pid
             /\ ~(i < n) => table[i] = NoSlot /\ table[i].pid = 0
  <2>1. i \in Nat /\ i + 1 \in Nat /\ (i < n => i + 1 \in Pid)
    BY <1>1 DEF Slot, Pid
  <2>2. CASE i < n
    <3>1. table[i] = Spawned(i + 1, FALSE)
      BY <1>2, <2>2
    <3> QED BY <2>1, <2>2, <3>1, Zenon DEF Spawned, NoSlot, SRec
  <2>3. CASE ~(i < n)
    <3>1. table[i] = NoSlot
      BY <1>2, <2>3
    <3> QED BY <2>1, <2>3, <3>1 DEF NoSlot, SRec
  <2> QED BY <2>2, <2>3
<1>4. ASSUME NEW p \in Pid
      PROVE  p \in Nat /\ p > 0 /\ (p <= n => proc[p] = Forked(1)) /\ (~(p <= n) => ~Child(proc[p]))
  <2>1. p \in Nat /\ p > 0
    BY <1>1 DEF Pid
  <2>2. ~(p <= n) => ~Child(proc[p])
    BY <1>2 DEF Child, NoProc
  <2> QED BY <1>2, <2>1, <2>2
<1>5. Slots
  <2>1. table \in [Slot -> SRec]
    <3>1. table = [i \in Slot |-> table[i]]
      BY <1>2
    <3> QED BY <1>3, <3>1
  <2>2. ASSUME NEW i \in Slot PROVE (i >= last => table[i] = NoSlot) /\ table[i].pid <= started
    <3>1. i \in Nat /\ n \in Nat /\ last = n /\ started = n
      <4>1. last = n /\ started = n
        BY <1>2, Zenon
      <4>2. i \in Nat /\ n \in Nat
        BY <1>1 DEF Slot
      <4> QED BY <4>1, <4>2
    <3>2. CASE i < n
      <4>1. table[i].pid = i + 1 /\ ~(i >= n) /\ i + 1 <= n
        BY <1>3, <3>1, <3>2
      <4> QED BY <3>1, <4>1
    <3>3. CASE ~(i < n)
      <4>1. table[i] = NoSlot /\ table[i].pid = 0 /\ 0 <= n
        BY <1>3, <3>1, <3>3
      <4> QED BY <3>1, <4>1
    <3> QED BY <3>2, <3>3
  <2>3. ASSUME NEW i \in Slot, NEW j \in Slot, table[i].pid = table[j].pid, table[i].pid # 0
        PROVE  i = j
    <3>1. table[i].pid = i + 1 /\ table[j].pid = j + 1 /\ i \in Nat /\ j \in Nat
      BY <1>3, <2>3
    <3>2. i + 1 = j + 1
      BY <2>3, <3>1, Zenon
    <3> QED BY <3>1, <3>2
  <2>4. last \in 0 .. MaxPid /\ started <= MaxPid
    BY <1>1, <1>2
  <2> QED BY <1>3, <2>1, <2>2, <2>3, <2>4 DEF Slots
<1>6. Known
  <2> SUFFICES ASSUME NEW p \in Pid, Child(proc[p]) PROVE \E i \in Slot : table[i].pid = p
    BY <1>2, Zenon DEF Known
  <2>1. p - 1 \in Slot /\ p - 1 < n
    BY <1>1, <1>4 DEF Slot, Pid
  <2>2. table[p - 1].pid = p
    BY <1>3, <1>4, <2>1
  <2> QED BY <2>1, <2>2
<1>7. Splits
  <2>1. Forked(1).cycle = 1
    BY DEF Forked, NoProc
  <2>2. ASSUME NEW i \in Slot, table[i].pid # 0 PROVE proc[table[i].pid] = Forked(1)
    BY <1>1, <1>3, <1>4, <2>2
  <2>3. ASSUME NEW i \in Slot, table[i].pid # 0
        PROVE  Split(table[i], proc[table[i].pid], master)
    <3>1. proc[table[i].pid].cycle = 1 /\ ~table[i].exiting
      BY <1>3, <2>1, <2>2, <2>3
    <3>2. 1 <= 1 /\ ~(1 < 1)
      OBVIOUS
    <3> QED BY <1>2, <3>1, <3>2, Zenon DEF Split
  <2> QED BY <1>2, <1>3, <2>3, Zenon DEF Splits
<1> QED BY <1>5, <1>6, <1>7 DEF TableInv

\* Every step keeps the table.
LEMMA TableStep == MutexInv /\ TableInv /\ [Next]_vars => TableInv'
<1> SUFFICES ASSUME MutexInv, TableInv, [Next]_vars PROVE TableInv'
  OBVIOUS
<1>0. master \in MRec
  BY DEF MutexInv, Types
<1>1. CASE UNCHANGED <<master, table, last, proc, started>>
  BY <1>1 DEF TableInv, Slots, Known, Splits
<1>2. CASE Wake
  BY <1>2, WakeKeepsTable
<1>3. CASE Terminate
  <2> DEFINE d == IF master.delay = 0 THEN 1 ELSE master.delay
             m == [master EXCEPT !.delay = d]
  <2>1. d \in Nat
    BY <1>0 DEF MRec
  <2> HIDE DEF d
  <2>2. m \in MRec /\ Agree(master, m)
    BY <1>0, <2>1 DEF MRec, Agree
  <2> HIDE DEF m
  <2>3. ASSUME NEW s \in BOOLEAN, master' = Suspend([m EXCEPT !.sigio = s]),
               UNCHANGED <<table, last, proc, started>>
        PROVE  TableInv'
    <3> DEFINE k == [m EXCEPT !.sigio = s]
    <3>1. k \in MRec /\ Agree(m, k)
      BY <2>2 DEF MRec, Agree
    <3> HIDE DEF k
    <3>2. Agree(k, master') /\ master'.at = "suspend"
      BY <2>3, <3>1, SuspendKeeps DEF k
    <3>3. Agree(master, master') /\ master.at # "sleep"
      BY <1>3, <2>2, <3>1, <3>2, Zenon DEF Agree, Terminate
    <3> QED BY <2>3, <3>2, <3>3, MasterStep
  <2>4. ASSUME NEW cmd \in {"TERM", "KILL"}, SignalWorkerProcesses(cmd),
               master' = Suspend([m EXCEPT !.sigio = TRUE, !.reap = @ \/ LostChild(cmd)])
        PROVE  TableInv'
    <3> DEFINE b == m.reap \/ LostChild(cmd)
               k == [m EXCEPT !.sigio = TRUE, !.reap = b]
    <3>1. b \in BOOLEAN /\ master' = Suspend(k)
      BY <2>4, Zenon
    <3> HIDE DEF b
    <3>2. k \in MRec /\ Agree(m, k)
      BY <2>2, <3>1, Zenon DEF MRec, Agree
    <3> HIDE DEF k
    <3>3. Agree(k, master') /\ master'.at = "suspend"
      BY <3>1, <3>2, SuspendKeeps
    <3>4. Agree(master, master') /\ master.term
      BY <1>3, <2>2, <3>2, <3>3, Zenon DEF Agree, Terminate
    <3> QED BY <2>4, <3>3, <3>4, ToldStep
  <2> QED
    BY <1>3, <2>3, <2>4, Zenon DEF Terminate, m, d
<1>4. CASE Quit \/ ShutOldDown
  <2> DEFINE b == master.reap \/ LostChild("QUIT")
             k == [master EXCEPT !.reap = b]
  <2>1. b \in BOOLEAN
    BY Zenon
  <2>2. SignalWorkerProcesses("QUIT") /\ master' = Suspend(k) /\ (master.quit \/ master.at = "sleep")
    BY <1>4 DEF Quit, ShutOldDown
  <2> HIDE DEF b
  <2>3. k \in MRec /\ Agree(master, k)
    BY <1>0, <2>1 DEF MRec, Agree
  <2> HIDE DEF k
  <2>4. Agree(k, master') /\ master'.at = "suspend"
    BY <2>2, <2>3, SuspendKeeps
  <2>5. Agree(master, master')
    BY <2>3, <2>4 DEF Agree
  <2> QED BY <2>2, <2>4, <2>5, ToldStep
<1>5. CASE Reconfigure
  BY <1>5, ReconfigureTable
<1>6. ASSUME NEW p \in Pid, Worker(p)
      PROVE  TableInv'
  BY <1>6, WorkerStep DEF Worker
<1>7. ASSUME NEW p \in Pid, InitFails(p) \/ Crash(p)
      PROVE  TableInv'
  BY <1>7, ChildEnds, Zenon DEF InitFails, Crash, Alive, Child
<1>8. Signal \/ Alarm \/ Connect \/ UNCHANGED vars => UNCHANGED <<master, table, last, proc, started>>
  BY DEF Signal, Alarm, Connect, vars
<1> QED
  BY <1>1, <1>2, <1>3, <1>4, <1>5, <1>6, <1>7, <1>8 DEF Next, Master

\* Whatever the numbers of workers, reloads and faults, the master knows each of its
\* children by one slot and does not exit before them.
THEOREM ChildrenAreKnown == Spec => []NoOrphan
<1>1. MutexInv /\ TableInv => NoOrphan
  <2> SUFFICES ASSUME MutexInv, TableInv, NEW p \in Pid, Child(proc[p])
               PROVE  /\ master.up
                      /\ \E i \in Slot : i < last /\ \A j \in Slot : j < last /\ table[j].pid = p <=> j = i
    BY DEF NoOrphan, Child
  <2>1. PICK i \in Slot : table[i].pid = p
    BY DEF TableInv, Known
  <2>2. p # 0 /\ i < last
    <3>1. p # 0
      BY DEF Pid
    <3>2. Slots /\ started \in Nat
      BY DEF TableInv, MutexInv, Types
    <3> QED BY <2>1, <3>1, <3>2, SlotPid, Zenon
  <2>3. \A j \in Slot : table[j].pid = p => j = i
    BY <2>1, <2>2 DEF TableInv, Slots
  <2> QED BY <2>1, <2>2, <2>3 DEF TableInv, Known
<1> QED
  BY <1>1, InitHolds, StepHolds, TableInit, TableStep, PTL DEF Spec

\* Whatever those numbers, a reload tells exactly the workers of the earlier cycles to quit.
THEOREM ReloadsSplit == Spec => []ReloadSplits
<1>1. TableInv => ReloadSplits
  BY DEF TableInv, Splits, Split, ReloadSplits, Alive, Runs
<1> QED
  BY <1>1, InitHolds, StepHolds, TableInit, TableStep, PTL DEF Spec
=============================================================================
