----------------------------- MODULE ClusterMap -----------------------------
(***************************************************************************)
(* How a worker learns which node serves which slot: RedisCluster reads    *)
(* CLUSTER NODES from the first seed that answers, turns its lines into a  *)
(* slot map, keeps that map for its life and corrects it by MOVED replies. *)
(*                                                                         *)
(* The cluster (external) has masters that own slots, a slave, at most one *)
(* slot in migration, and an opinion about failed or unlinked masters and  *)
(* masters whose address it does not know.                                 *)
(***************************************************************************)
EXTENDS Integers, FiniteSets, SequencesExt

CONSTANTS
    Masters, Slaves,  \* nodes, named by their addresses
    MaxSlot,          \* the slots are 0 .. MaxSlot
    Lists             \* route_t: the seed lists, each a sequence of masters

Slots == 0 .. MaxSlot
Nodes == Masters \cup Slaves
None == "none"

ASSUME ClusterAssumption ==
    /\ Masters \cap Slaves = {} /\ None \notin Nodes /\ IsFiniteSet(Nodes)
    /\ MaxSlot \in Nat /\ Lists \in Seq(Seq(Masters))

VARIABLES
    owner,     \* the master of each slot
    moving,    \* the master a slot is being moved to, or None
    suspect,   \* masters flagged fail?
    unlinked,  \* masters the others are not connected to
    noaddr,    \* masters the others know no address of
    status,    \* masters: "up", "down", "loading" (a restart), "breaking" (closes)
    alive,     \* the worker process
    cluster    \* map_cluster_: whether the cluster has an entry, and its slots

world == <<owner, moving, suspect, unlinked, noaddr, status>>
vars == <<world, alive, cluster>>

NoCluster == [loaded |-> FALSE, slot |-> <<>>]

TypeOK ==
    /\ owner \in [Slots -> Masters] /\ moving \in [Slots -> Masters \cup {None}]
    /\ suspect \subseteq Masters /\ unlinked \subseteq Masters /\ noaddr \subseteq Masters
    /\ status \in [Masters -> {"up", "down", "loading", "breaking"}]
    /\ alive \in BOOLEAN /\ cluster.loaded \in BOOLEAN
    /\ DOMAIN cluster.slot \subseteq Slots
    /\ \A s \in DOMAIN cluster.slot : cluster.slot[s] \in Masters

Init ==
    /\ owner \in [Slots -> Masters]
    /\ moving \in {[s \in Slots |-> IF s = t THEN n ELSE None] :
                     t \in Slots, n \in Masters \cup {None}}
    /\ \A s \in Slots : moving[s] # owner[s]
    /\ suspect \in SUBSET Masters /\ unlinked \in SUBSET Masters /\ noaddr \in SUBSET Masters
    /\ status \in [Masters -> {"up", "down", "loading", "breaking"}]
    /\ alive = TRUE /\ cluster = NoCluster

(***************************************************************************)
(* The reply to CLUSTER NODES (external).  A node lists its own migrations *)
(* after its slots; a node that loads its data answers with an error line  *)
(* of eight words.                                                         *)
(***************************************************************************)
Ranges(S) == {r \in S \X S : /\ r[1] .. r[2] \subseteq S /\ r[1] <= r[2]
                             /\ r[1] - 1 \notin S /\ r[2] + 1 \notin S}

Tokens(seed, n) ==
    {[min |-> r[1], max |-> r[2], dash |-> r[1] # r[2], bracket |-> FALSE] :
       r \in Ranges({s \in Slots : owner[s] = n})}
    \cup {[min |-> s, max |-> s, dash |-> TRUE, bracket |-> TRUE] :
            s \in {t \in Slots : n = seed /\ moving[t] # None /\ n \in {owner[t], moving[t]}}}

\* What the others flag a node with, behind its kind.
Marks(n) == (IF n \in suspect THEN <<"fail?">> ELSE <<>>)
            \o (IF n \in noaddr THEN <<"noaddr">> ELSE <<>>)

Line(seed, n) ==
    [ addr |-> n,
      flags |-> LET kind == IF n \in Masters THEN "master" ELSE "slave"
                IN  IF n = seed THEN <<"myself", kind>> ELSE <<kind>> \o Marks(n),
      connected |-> n = seed \/ n \notin unlinked,
      slots |-> Tokens(seed, n) ]

LoadingLine == [addr |-> "Redis", flags |-> <<"is">>, connected |-> FALSE, slots |-> {}]

\* The lines come in any order.
Reply(seed, order) ==
    IF status[seed] = "loading" THEN <<LoadingLine>>
    ELSE [i \in DOMAIN order |-> Line(seed, order[i])]

(***************************************************************************)
(* RedisCluster.                                                           *)
(***************************************************************************)
\* Fault: a range ends before its last slot.
ShortRange(t) ==
    IF t.bracket THEN {0} ELSE IF t.dash THEN t.min .. t.max - 1 ELSE {t.min}

\* AddSlotRange: the text around the first dash goes through atol, and atol of
\* "[93" and of ">-node]" is 0.
AddSlotRange(t) ==
    IF t.bracket THEN {0} ELSE IF t.dash THEN t.min .. t.max ELSE {t.min}

\* What follows the first comma of the flags.
Role(flags) == IF Len(flags) = 1 THEN flags ELSE Tail(flags)

\* Fault: the text before the comma is compared.
HasSlotsFirst(line) == line.flags[1] \in {"master", "handshake"}

HasSlots(line) == Role(line.flags) \in {<<"master">>, <<"handshake">>}

SlotsOf(line) ==
    IF HasSlots(line) /\ line.connected THEN UNION {AddSlotRange(t) : t \in line.slots} ELSE {}

\* GetNode(line) and SetMemNode: the map after one line.
SetMemNode(m, line) ==
    LET new == SlotsOf(line)
    IN  [s \in new \cup DOMAIN m |-> IF s \in new THEN line.addr ELSE m[s]]

\* The maps after the first lines, and after all of them.
SlotMaps(lines) ==
    LET slot[i \in 0 .. Len(lines)] ==
          IF i = 0 THEN <<>> ELSE SetMemNode(slot[i - 1], lines[i])
    IN  slot
UpdateClusterNodes(lines) == [loaded |-> TRUE, slot |-> SlotMaps(lines)[Len(lines)]]

\* UpdateRouteNodeList: the first seed of a list that accepts a connection.
Seed(list) ==
    LET up == SelectInSeq(list, LAMBDA n : status[n] # "down")
    IN  IF up = 0 THEN None ELSE list[up]

\* The first request of the cluster loads the map (GetNode(request, route)) from
\* one list after another, until one fails; the entry of the first list stays.
\* A connection that breaks after it was made gives a NULL reply, which is used:
\* the process ends.
GetNode ==
    LET seed == [i \in DOMAIN Lists |-> Seed(Lists[i])]
        Fails(n) == IF n = None THEN TRUE ELSE status[n] = "breaking"
        stop == SelectInSeq(seed, Fails)
    IN  /\ alive /\ ~cluster.loaded
        /\ alive' = (stop = 0 \/ seed[stop] = None)
        /\ IF Lists = <<>> \/ stop = 1 \/ ~alive' THEN cluster' = NoCluster
           ELSE \E order \in SetToSeqs(Nodes) :
                  cluster' = UpdateClusterNodes(Reply(seed[1], order))
        /\ UNCHANGED world

\* Fault: a redirect is followed without being remembered.
MovedForgotten(s) ==
    /\ alive /\ cluster.loaded /\ s \in DOMAIN cluster.slot
    /\ cluster.slot[s] # owner[s] /\ status[cluster.slot[s]] = "up"
    /\ UNCHANGED vars

\* A request reaches a node that does not own the slot, which answers MOVED.
\* ProcessMoved fails, and writes nothing, when that names no IPv4 address and port.
ProcessMoved(s) ==
    /\ alive /\ cluster.loaded /\ s \in DOMAIN cluster.slot
    /\ cluster.slot[s] # owner[s] /\ status[cluster.slot[s]] = "up"
    /\ cluster' = IF owner[s] \in noaddr THEN cluster
                  ELSE [cluster EXCEPT !.slot[s] = owner[s]]
    /\ UNCHANGED <<world, alive>>

(***************************************************************************)
(* The world (external).                                                   *)
(***************************************************************************)
FinishMigration(s) ==
    /\ moving[s] # None
    /\ owner' = [owner EXCEPT ![s] = moving[s]]
    /\ moving' = [moving EXCEPT ![s] = None]
    /\ UNCHANGED <<suspect, unlinked, noaddr, status, alive, cluster>>

Recover(n) ==
    /\ status[n] # "up"
    /\ status' = [status EXCEPT ![n] = "up"]
    /\ UNCHANGED <<owner, moving, suspect, unlinked, noaddr, alive, cluster>>

\* The others learn the address of a master.
LearnAddress(n) ==
    /\ n \in noaddr
    /\ noaddr' = noaddr \ {n}
    /\ UNCHANGED <<owner, moving, suspect, unlinked, status, alive, cluster>>

\* The master process starts a new worker.
Respawn ==
    /\ ~alive /\ alive' = TRUE
    /\ UNCHANGED <<world, cluster>>

Next ==
    \/ GetNode \/ Respawn
    \/ \E s \in Slots : ProcessMoved(s) \/ FinishMigration(s)
    \/ \E n \in Masters : Recover(n) \/ LearnAddress(n)

Spec == Init /\ [][Next]_vars

\* Requests of a slot keep coming, nodes that are down come back, and a master
\* announces its address to the others.
Fairness ==
    /\ \A s \in Slots : WF_vars(ProcessMoved(s))
    /\ \A n \in Masters : WF_vars(Recover(n)) /\ WF_vars(LearnAddress(n))

FairSpec == Spec /\ Fairness

(***************************************************************************)
(* Properties.                                                             *)
(***************************************************************************)
Loads == ~cluster.loaded /\ cluster'.loaded

\* What the first load maps: no slot but 0 goes to a node that does not own it,
\* and a slot is left out only if the seed did not trust its master, had no
\* address of it or was loading itself.
LoadsOwners ==
    [][Loads =>
         \A s \in Slots \ {0} :
           IF s \in DOMAIN cluster'.slot THEN cluster'.slot[s] = owner[s]
           ELSE \/ owner[s] \in suspect \cup unlinked \cup noaddr
                \/ status[Seed(Lists[1])] = "loading"]_vars

\* A cluster at rest is mapped exactly as it is, in whatever order its lines
\* come and whichever seed answers.
LoadsSettled ==
    [][Loads /\ suspect \cup unlinked \cup noaddr = {} /\ (\A s \in Slots : moving[s] = None)
         /\ (\A n \in Masters : status[n] # "loading")
         => cluster'.slot = owner]_vars

\* A mapped slot that is wrong, because it moved or was loaded wrong, is
\* corrected by the redirects of the requests that use it, once these name its
\* owner by an address ProcessMoved can read.
Heals ==
    \A s \in Slots :
      (cluster.loaded /\ s \in DOMAIN cluster.slot)
        ~> (s \in DOMAIN cluster.slot /\ cluster.slot[s] = owner[s])

\* From the key to the slot to the node that serves it (redis_cluster.cc:130): a
\* slot that is not being moved goes to its owner.
RoutesToOwner ==
    [][Loads => \A s \in DOMAIN cluster'.slot :
                  moving[s] = None => cluster'.slot[s] = owner[s]]_vars

\* The map that is kept was taken from the information of a node
\* (redis_cluster.cc:65): with every master trusted it has every slot.
LoadedIsComplete ==
    cluster.loaded /\ suspect \cup unlinked \cup noaddr = {} => DOMAIN cluster.slot = Slots
=============================================================================
