----------------------------- MODULE MpiForwarder -----------------------------
(***************************************************************************)
(* A parallel section over several machines: the thread that forwards the  *)
(* messages of a rank and detects, with those of the other ranks, that the *)
(* section has come to an end (MpiForwarder, divine/toolkit/mpi.h), on top *)
(* of the Mpi topology (divine/toolkit/parallel.h).                        *)
(*                                                                         *)
(* A rank has one worker here.  What matters of the states it searches is  *)
(* where they are: in its queue, in its inbox, or on their way to another  *)
(* rank.  Of the barrier of a rank, what Barrier.tla shows is used: the    *)
(* forwarder is the last man awake only if the worker sleeps and nothing   *)
(* waits.                                                                  *)
(***************************************************************************)
EXTENDS Integers, Sequences, FiniteSets

CONSTANTS
  N,        \* how many ranks there are
  MaxEdges  \* a bound on the edges that are searched

ASSUME MpiAssumption == N \in Nat \ {0, 1} /\ MaxEdges \in Nat

Ranks == 0 .. N - 1
Master == 0
Slaves == Ranks \ {Master}

VARIABLES
  queue,     \* how many states the worker of each rank has to expand
  inbox,     \* how many messages wait for it
  edges,     \* how many edges may still be found
  worker,    \* is it awake, asleep, or has it left?
  section,   \* is the parallel section before each rank, entered, or over?
  outgoing,  \* the fifos from each rank to each other: how many messages
  request,   \* MpiForwarder::requests, with what isend makes of them
  sent, recv,
  net,       \* what MPI carries from each rank to each other, in order
  replies,   \* TAG_GIVE_COUNTS: the answers that are on their way
  monitors,  \* the ranks that have registered their monitors
  awaited,   \* accumCounts: whose answers are still to come
  total,     \* and what they amount to, with its own
  first,     \* the result of the first call of accumCounts
  pc         \* the next step of each forwarder

searchVars == <<queue, edges>>
sendVars == <<outgoing, request, sent>>
countVars == <<replies, awaited, total, first>>
vars == <<searchVars, inbox, worker, section, sendVars, recv, net, monitors, countVars, pc>>

None == <<>>
NotYet == -1
Data(n) == [tag |-> "id", messages |-> n]
Tag(t) == [tag |-> t, messages |-> 0]
Counts(v, r, s) == [valid |-> v, recv |-> r, sent |-> s]

\* Some rank owns the initial state.
Init ==
  /\ \E p \in Ranks : queue = [q \in Ranks |-> IF q = p THEN 1 ELSE 0]
  /\ inbox = [p \in Ranks |-> 0]
  /\ edges = MaxEdges
  /\ worker = [p \in Ranks |-> "awake"]
  /\ section = [p \in Ranks |-> "before"]
  /\ outgoing = [p \in Ranks |-> [q \in Ranks |-> 0]]
  /\ request = [p \in Ranks |-> [q \in Ranks |-> "none"]]
  /\ sent = [p \in Ranks |-> 0]
  /\ recv = [p \in Ranks |-> 0]
  /\ net = [p \in Ranks |-> [q \in Ranks |-> <<>>]]
  /\ replies = [p \in Ranks |-> None]
  /\ monitors = {}
  /\ awaited = {}
  /\ total = Counts(TRUE, 0, 0)
  /\ first = NotYet
  /\ pc = [p \in Ranks |-> "off"]

Goto(p, a, b) == /\ pc[p] = a
                 /\ pc' = [pc EXCEPT ![p] = b]

\* notifySlaves
NotifySlaves(t) == net' = [net EXCEPT ![Master] =
                             [q \in Ranks |-> IF q = Master THEN @[q] ELSE Append(@[q], Tag(t))]]

-----------------------------------------------------------------------------
(* The section begins: Mpi::parallel, on the master and then on the slaves *)

Begin(p) == /\ section[p] = "before"
            /\ section' = [section EXCEPT ![p] = "in"]
            /\ Goto(p, "off", "start")

Parallel ==
  /\ Begin(Master)
  /\ NotifySlaves("parallel")
  /\ UNCHANGED <<searchVars, inbox, worker, sendVars, recv, monitors, countVars>>

Register(p) ==
  /\ Goto(p, "start", "loop")
  /\ monitors' = monitors \cup {p}
  /\ UNCHANGED <<searchVars, inbox, worker, section, sendVars, recv, net, countVars>>

-----------------------------------------------------------------------------
(* The worker: Partitioned::run, of which only the messages matter.        *)

Working(p) == section[p] = "in" /\ worker[p] = "awake"

\* A message is an edge to a state that is new, or is not.
Take(p) ==
  /\ Working(p)
  /\ inbox[p] > 0
  /\ inbox' = [inbox EXCEPT ![p] = @ - 1]
  /\ queue' \in {queue, [queue EXCEPT ![p] = @ + 1]}
  /\ UNCHANGED <<edges, worker, section, sendVars, recv, net, monitors, countVars, pc>>

\* An edge leads to a state of this rank, or of another.
Edge(p) ==
  /\ Working(p)
  /\ queue[p] > 0 /\ edges > 0
  /\ edges' = edges - 1
  /\ \/ queue' = [queue EXCEPT ![p] = @ + 1] /\ UNCHANGED outgoing
     \/ \E q \in Ranks \ {p} : /\ outgoing' = [outgoing EXCEPT ![p][q] = @ + 1]
                               /\ UNCHANGED queue
  /\ UNCHANGED <<inbox, worker, section, request, sent, recv, net, monitors, countVars, pc>>

Expanded(p) ==
  /\ Working(p)
  /\ queue[p] > 0
  /\ queue' = [queue EXCEPT ![p] = @ - 1]
  /\ UNCHANGED <<edges, inbox, worker, section, sendVars, recv, net, monitors, countVars, pc>>

OutgoingEmpty(p) == \A q \in Ranks : outgoing[p][q] = 0

\* The barrier wakes up a sleeping forwarder that has work waiting.  The worker
\* goes to bed, unless it is the last one awake.
GoIdle(p) ==
  /\ Working(p)
  /\ queue[p] = 0 /\ inbox[p] = 0
  /\ IF pc[p] # "asleep"
     THEN worker' = [worker EXCEPT ![p] = "asleep"] /\ UNCHANGED pc
     ELSE ~OutgoingEmpty(p) /\ Goto(p, "asleep", "loop") /\ UNCHANGED worker
  /\ UNCHANGED <<searchVars, inbox, section, sendVars, recv, net, monitors, countVars>>

-----------------------------------------------------------------------------
(* The barrier, as the forwarder sees it.                                  *)

Quiet(p) == worker[p] = "asleep" /\ inbox[p] = 0 /\ OutgoingEmpty(p)

LastMan(p) == section[p] = "in" /\ Quiet(p)

\* A wrong variant: nobody is woken up.
Woken_Nobody(p) == worker

\* When it is not all over, a worker that sleeps with a message waiting is
\* notified.
Woken(p) == IF section[p] = "in" /\ worker[p] = "asleep" /\ inbox[p] > 0
            THEN [worker EXCEPT ![p] = "awake"] ELSE worker

\* idle( this ): the section is over, or the forwarder goes to bed if it has
\* nothing to send and the worker is awake.
Idle(p, from) ==
  /\ pc[p] = from
  /\ IF LastMan(p)
     THEN /\ section' = [section EXCEPT ![p] = "over"]
          /\ worker' = [worker EXCEPT ![p] = "left"]
          /\ pc' = [pc EXCEPT ![p] = "done"]
     ELSE /\ worker' = Woken(p)
          /\ pc' = [pc EXCEPT ![p] = IF section[p] # "in" THEN @
                                     ELSE IF OutgoingEmpty(p) /\ worker[p] = "awake"
                                          THEN "asleep" ELSE "loop"]
          /\ UNCHANGED section

-----------------------------------------------------------------------------
(* Mpi::loop: messages are received as long as there are any.  Outside the *)
(* section, the main thread of a slave receives them.                      *)

Listening(p) == IF section[p] = "in" THEN pc[p] = "loop" ELSE p # Master

\* The messages of each rank are received in order.
Deliver(p, q, t) == /\ Listening(p)
                    /\ net[q][p] # <<>>
                    /\ Head(net[q][p]).tag = t
                    /\ net' = [net EXCEPT ![q][p] = Tail(@)]

ReceiveParallel(p) ==
  /\ Deliver(p, Master, "parallel")
  /\ Begin(p)
  /\ UNCHANGED <<searchVars, inbox, worker, sendVars, recv, monitors, countVars>>

\* receiveDataMessage: everything in the message is submitted, nobody is woken.
ReceiveData(p) ==
  /\ p \in monitors
  /\ \E q \in Ranks : /\ Deliver(p, q, "id")
                      /\ inbox' = [inbox EXCEPT ![p] = @ + Head(net[q][p]).messages]
  /\ recv' = [recv EXCEPT ![p] = @ + 1]
  /\ UNCHANGED <<searchVars, worker, section, sendVars, monitors, countVars, pc>>

Answer(p) == Counts(OutgoingEmpty(p) /\ LastMan(p), recv[p], sent[p])

ReceiveGetCounts(p) ==
  /\ p \in monitors
  /\ Deliver(p, Master, "get counts")
  /\ replies' = [replies EXCEPT ![p] = Answer(p)]
  /\ worker' = IF OutgoingEmpty(p) THEN Woken(p) ELSE worker
  /\ UNCHANGED <<searchVars, inbox, section, sendVars, recv, monitors, awaited, total, first, pc>>

ReceiveTerminated(p) ==
  /\ p \in monitors
  /\ Deliver(p, Master, "terminated")
  /\ Idle(p, pc[p])
  /\ UNCHANGED <<searchVars, inbox, sendVars, recv, monitors, countVars>>

Receive(p) == ReceiveParallel(p) \/ ReceiveData(p) \/ ReceiveGetCounts(p) \/ ReceiveTerminated(p)

-----------------------------------------------------------------------------
(* MpiForwarder::progress                                                  *)

\* MPI is done with the buffer of a message.
Complete(p, q) ==
  /\ request[p][q] = "busy"
  /\ request' = [request EXCEPT ![p][q] = "complete"]
  /\ UNCHANGED <<searchVars, inbox, worker, section, outgoing, sent, recv, net, monitors,
                 countVars, pc>>

\* A wrong variant: a buffer with nothing in it but the addresses is sent, too.
ToSend_Empty(p) == {q \in Ranks \ {p} : request[p][q] = "none"}

\* What each fifo holds is put into a buffer and sent, unless the buffer is in
\* flight; a buffer that is not any more can be filled the next time.
ToSend(p) == {q \in Ranks : request[p][q] = "none" /\ outgoing[p][q] > 0}

Flush(p) ==
  /\ Goto(p, "loop", "check")
  /\ net' = [net EXCEPT ![p] = [q \in Ranks |-> IF q \in ToSend(p)
                                                THEN Append(@[q], Data(outgoing[p][q])) ELSE @[q]]]
  /\ outgoing' = [outgoing EXCEPT ![p] = [q \in Ranks |-> IF q \in ToSend(p) THEN 0 ELSE @[q]]]
  /\ request' = [request EXCEPT ![p] = [q \in Ranks |-> IF q \in ToSend(p) THEN "busy" ELSE
                                          IF @[q] = "complete" THEN "none" ELSE @[q]]]
  /\ sent' = [sent EXCEPT ![p] = @ + Cardinality(ToSend(p))]
  /\ UNCHANGED <<searchVars, inbox, worker, section, recv, monitors, countVars>>

\* accumCounts: the slaves are asked, and the own counts are read at once.
AccumCounts ==
  /\ NotifySlaves("get counts")
  /\ awaited' = Slaves
  /\ total' = Counts(TRUE, recv[Master], sent[Master])

\* lastMan() comes first, since it wakes up the worker.
Check(p) ==
  /\ LET try == p = Master /\ LastMan(p) IN
       /\ Goto(p, "check", IF try THEN "count" ELSE "loop")
       /\ worker' = Woken(p)
       /\ IF try THEN AccumCounts /\ first' = NotYet
                 ELSE UNCHANGED <<net, awaited, total, first>>
  /\ UNCHANGED <<searchVars, inbox, section, sendVars, recv, monitors, replies>>

-----------------------------------------------------------------------------
(* termination: the master asks all the others twice.                      *)

\* An answer, from anyone.  Its `valid' takes the place of those before it.
Collect(p) ==
  /\ p \in awaited
  /\ replies[p] # None
  /\ total' = Counts(replies[p].valid, total.recv + replies[p].recv, total.sent + replies[p].sent)
  /\ awaited' = awaited \ {p}
  /\ replies' = [replies EXCEPT ![p] = None]
  /\ UNCHANGED <<searchVars, inbox, worker, section, sendVars, recv, net, monitors, first, pc>>

\* A wrong variant: messages on their way are not missed.
Balanced_Uncounted == total.valid

Balanced == total.valid /\ total.recv = total.sent

Counted == pc[Master] = "count" /\ awaited = {}

GiveUp ==
  /\ Counted
  /\ ~Balanced \/ first \notin {NotYet, total.recv}
  /\ Goto(Master, "count", "loop")
  /\ first' = NotYet
  /\ total' = Counts(TRUE, 0, 0)
  /\ UNCHANGED <<searchVars, inbox, worker, section, sendVars, recv, net, monitors, replies,
                 awaited>>

Again ==
  /\ Counted /\ Balanced
  /\ first = NotYet
  /\ first' = total.recv
  /\ AccumCounts
  /\ UNCHANGED <<searchVars, inbox, worker, section, sendVars, recv, monitors, replies, pc>>

\* The same count of messages twice, all of them received: it is over.
Terminate ==
  /\ Counted /\ Balanced
  /\ first = total.recv
  /\ NotifySlaves("terminated")
  /\ first' = NotYet
  /\ total' = Counts(TRUE, 0, 0)
  /\ Idle(Master, "count")
  /\ UNCHANGED <<searchVars, inbox, sendVars, recv, monitors, replies, awaited>>

-----------------------------------------------------------------------------
WorkerStep(p) == Take(p) \/ Edge(p) \/ Expanded(p) \/ GoIdle(p)
ForwarderStep(p) == Register(p) \/ Flush(p) \/ Check(p)
MasterStep == Parallel \/ (\E p \in Slaves : Collect(p)) \/ GiveUp \/ Again \/ Terminate

Done == (\A p \in Ranks : section[p] = "over") /\ UNCHANGED vars

Next ==
  \/ MasterStep \/ Done
  \/ \E p \in Ranks : \/ WorkerStep(p) \/ ForwarderStep(p) \/ Receive(p)
                      \/ \E q \in Ranks : Complete(p, q)

Spec == Init /\ [][Next]_vars

\* Every thread goes on; a message that is sent is found by a probe some day, and
\* its buffer is given back.
Fairness ==
  /\ WF_vars(MasterStep)
  /\ \A p \in Ranks : /\ WF_vars(WorkerStep(p))
                      /\ WF_vars(ForwarderStep(p))
                      /\ SF_vars(Receive(p))
                      /\ \A q \in Ranks : WF_vars(Complete(p, q))

FairSpec == Spec /\ Fairness

-----------------------------------------------------------------------------
Messages == [tag : {"id", "parallel", "get counts", "terminated"}, messages : 0 .. MaxEdges]

TypeOK ==
  /\ queue \in [Ranks -> 0 .. MaxEdges + 1]
  /\ inbox \in [Ranks -> 0 .. MaxEdges]
  /\ edges \in 0 .. MaxEdges
  /\ worker \in [Ranks -> {"awake", "asleep", "left"}]
  /\ section \in [Ranks -> {"before", "in", "over"}]
  /\ outgoing \in [Ranks -> [Ranks -> 0 .. MaxEdges]]
  /\ request \in [Ranks -> [Ranks -> {"none", "busy", "complete"}]]
  /\ sent \in [Ranks -> 0 .. MaxEdges] /\ recv \in [Ranks -> 0 .. MaxEdges]
  /\ \A p, q \in Ranks : \A i \in DOMAIN net[p][q] : net[p][q][i] \in Messages
  /\ \A p \in Ranks : replies[p] # None => replies[p].valid \in BOOLEAN
  /\ monitors \subseteq Ranks
  /\ awaited \subseteq Slaves
  /\ first \in 0 .. MaxEdges \cup {NotYet}
  /\ pc \in [Ranks -> {"off", "start", "loop", "check", "count", "asleep", "done"}]

\* When the master leaves the section, nobody has work and no data is on its way.
EndIsQuiet ==
  section[Master] = "over" =>
     \A p \in Ranks : /\ queue[p] = 0 /\ inbox[p] = 0 /\ OutgoingEmpty(p)
                      /\ \A q \in Ranks : \A i \in DOMAIN net[p][q] : net[p][q][i].tag # "id"

\* The section comes to an end on every rank.
EveryoneLeaves == \A p \in Ranks : <>(section[p] = "over")
=============================================================================
