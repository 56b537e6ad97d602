-------------------------- MODULE CampaignRuntime --------------------------
(***************************************************************************)
(* One WhatsApp sequence (a WhatsAppFlow row), its enrollments, and the    *)
(* executions that worker processes take from a Redis list.                *)
(*                                                                         *)
(* A step of this module is one database transaction, one Redis command or *)
(* one call of the message service: what the code awaits.  Every local     *)
(* value that survives an await is a per-process variable.                 *)
(*                                                                         *)
(* Data left out: organizations and access checks, template contents,      *)
(* compliance events.  Edges whose condition can't match the only context  *)
(* the runtime ever passes ({lastStatus: "SENT"}) are not in a graph.      *)
(***************************************************************************)
EXTENDS Naturals, Sequences, FiniteSets

CONSTANTS
    Workers,        \* worker processes, each running one campaign loop
    Requests,       \* request slots: API handlers, inbound hooks, rule actions
    Conversations,
    Enrollments,    \* primary keys that enrollment rows may take
    Executions,     \* primary keys that execution rows may take
    Nodes,          \* node keys a flow may use
    TypeOf,         \* the type of each node
    Graphs,         \* the graphs a client may submit
    Operations,     \* the requests that may arrive
    Faults,         \* the faults that may happen
    Nobody          \* "no id"

AllOperations == {"enroll", "stopEnrollment", "pause", "resume", "stopFlow",
                  "updateFlow", "deleteFlow"}

AllFaults == {"throw", "replyLost", "crash"}

NodeTypes == {"SEND_TEMPLATE", "SEND_TEXT", "DELAY", "STOP"}

FlowStatus == {"DRAFT", "ACTIVE", "PAUSED", "ARCHIVED"}

GraphType == [nodes : SUBSET Nodes, edges : SUBSET (Nodes \X Nodes)]

Actors == Workers \cup Requests

ASSUME CampaignAssumption ==
    /\ Workers \cap Requests = {}
    /\ TypeOf \in [Nodes -> NodeTypes]
    /\ Graphs \subseteq GraphType
    /\ Operations \subseteq AllOperations
    /\ Faults \subseteq AllFaults
    /\ Nobody \notin Executions \cup Enrollments \cup Nodes \cup Conversations

VARIABLES
    flow,        \* the flow's status; "DELETED" once its row is gone
    graph,       \* its nodes and edges
    enrollment,  \* enrollment rows; status "none": not created
    execution,   \* execution rows; status "none": not created
    queue,       \* the Redis list of jobs, one execution id each
    due,         \* executions whose dueAt has passed
    lock,        \* executions whose lock key exists in Redis
    pc,          \* what each worker or request does next
    job,         \* the job a worker has taken
    subject,     \* the enrollment an actor works on
    plan,        \* what an actor decided from the rows it read
    child,       \* the execution an actor created and hasn't pushed yet
    asked,       \* the conversation of an enroll request
    victims,     \* the enrollments a stop request has read
    sends,          \* history: calls of the message service, per execution
    lateSends,      \* history: calls per worker since the flow left ACTIVE
    sendsAfterEnd,  \* history: calls per enrollment that isn't ACTIVE
    stranded        \* history: enrollments a fault or a guard left without a job

db     == <<flow, graph, enrollment, execution>>
redis  == <<queue, due, lock>>
locals == <<pc, job, subject, plan, child, asked, victims>>
ghosts == <<sends, lateSends, sendsAfterEnd, stranded>>
vars   == <<db, redis, locals, ghosts>>

Plan(mark, outcome, next, caught, delayed) ==
    [mark |-> mark, outcome |-> outcome, next |-> next,
     caught |-> caught, delayed |-> delayed]

NoPlan == Plan("none", "KEEP", Nobody, FALSE, FALSE)

\* The catch block of a template node: both rows become FAILED.
FailurePlan == Plan("FAILED", "FAILED", Nobody, FALSE, FALSE)

Gone == flow = "DELETED"

Active(e) == enrollment[e].status = "ACTIVE"

ActiveIn(c) == {e \in Enrollments : Active(e) /\ enrollment[e].conversation = c}

\* The primary key of the next row, if one is left: which one doesn't matter.
Fresh(table) ==
    LET unused == {k \in DOMAIN table : table[k].status = "none"}
    IN IF unused = {} THEN {} ELSE {CHOOSE k \in unused : TRUE}

\* pickEntryNode: a node without inbound edge, else the first one.
EntryNodes(g) ==
    LET roots == {n \in g.nodes : \A m \in Nodes : <<m, n>> \notin g.edges}
    IN IF roots = {} THEN g.nodes ELSE roots

\* pickNextNodeKey: edges are rows of one insert, so their order is not fixed.
NextKeys(g, n) == {m \in Nodes : <<n, m>> \in g.edges}

Init ==
    /\ flow \in {"DRAFT", "ACTIVE"}
    /\ graph \in Graphs
    /\ enrollment = [e \in Enrollments |->
           [status |-> "none", conversation |-> Nobody, node |-> Nobody]]
    /\ execution = [x \in Executions |->
           [status |-> "none", enrollment |-> Nobody, node |-> Nobody]]
    /\ queue = <<>>
    /\ due = {}
    /\ lock = {}
    /\ pc = [a \in Actors |-> "idle"]
    /\ job = [a \in Actors |-> Nobody]
    /\ subject = [a \in Actors |-> Nobody]
    /\ plan = [a \in Actors |-> NoPlan]
    /\ child = [a \in Actors |-> Nobody]
    /\ asked = [a \in Actors |-> Nobody]
    /\ victims = [a \in Actors |-> {}]
    /\ sends = [x \in Executions |-> 0]
    /\ lateSends = [w \in Workers |-> 0]
    /\ sendsAfterEnd = [e \in Enrollments |-> 0]
    /\ stranded = {}

-----------------------------------------------------------------------------
(* Requests that change the flow *)

Goto(a, where) == pc' = [pc EXCEPT ![a] = where]

\* The function returns, or its process dies: its locals are gone.
Leave(a) ==
    /\ Goto(a, "idle")
    /\ job' = [job EXCEPT ![a] = Nobody]
    /\ subject' = [subject EXCEPT ![a] = Nobody]
    /\ plan' = [plan EXCEPT ![a] = NoPlan]
    /\ child' = [child EXCEPT ![a] = Nobody]
    /\ asked' = [asked EXCEPT ![a] = Nobody]
    /\ victims' = [victims EXCEPT ![a] = {}]

Arrives(r, op) == op \in Operations /\ pc[r] = "idle" /\ ~Gone

\* The status read of pauseWhatsAppFlow and resumeWhatsAppFlow.
BeginPauseOrResume(r) ==
    \E op \in {"pause", "resume"} :
        /\ Arrives(r, op)
        /\ flow # "ARCHIVED"
        /\ Goto(r, op)
        /\ UNCHANGED <<db, redis, job, subject, plan, child, asked, victims, ghosts>>

\* A worker's late sends are counted from the last time the flow was ACTIVE.
SetFlow(status) ==
    /\ flow' = status
    /\ lateSends' = IF status = "ACTIVE" THEN [w \in Workers |-> 0] ELSE lateSends

\* Their write, unconditional; it throws when the row is gone.
WritePauseOrResume(r) ==
    /\ pc[r] \in {"pause", "resume"}
    /\ IF Gone
         THEN UNCHANGED <<flow, lateSends>>
         ELSE SetFlow(IF pc[r] = "pause" THEN "PAUSED" ELSE "ACTIVE")
    /\ Leave(r)
    /\ UNCHANGED <<graph, enrollment, execution, redis, sends, sendsAfterEnd, stranded>>

\* updateWhatsAppFlow: one transaction; nodes and edges may come one without
\* the other, and only when both come is the graph validated.
UpdateFlow(r) ==
    /\ Arrives(r, "updateFlow")
    /\ \E s \in FlowStatus : SetFlow(s)
    /\ \E g \in Graphs :
           graph' \in {graph, g, [graph EXCEPT !.nodes = g.nodes],
                       [graph EXCEPT !.edges = g.edges]}
    /\ UNCHANGED <<enrollment, execution, redis, locals, sends, sendsAfterEnd, stranded>>

\* deleteWhatsAppFlow: the foreign keys cascade to every row of the flow.
DeleteFlow(r) ==
    /\ Arrives(r, "deleteFlow")
    /\ SetFlow("DELETED")
    /\ UNCHANGED <<graph, enrollment, execution, redis, locals, sends, sendsAfterEnd, stranded>>

\* stopWhatsAppFlow reads the active enrollments before its transaction.
BeginStopFlow(r) ==
    /\ Arrives(r, "stopFlow")
    /\ victims' = [victims EXCEPT ![r] = {e \in Enrollments : Active(e)}]
    /\ Goto(r, "stopFlow")
    /\ UNCHANGED <<db, redis, job, subject, plan, child, asked, ghosts>>

\* stopEnrollmentByConversation: findFirst picks one of them.
BeginStopEnrollment(r) ==
    /\ Arrives(r, "stopEnrollment")
    /\ \E c \in Conversations : \E e \in ActiveIn(c) :
           victims' = [victims EXCEPT ![r] = {e}]
    /\ Goto(r, "stopEnrollment")
    /\ UNCHANGED <<db, redis, job, subject, plan, child, asked, ghosts>>

StopRows(stopped) ==
    /\ enrollment' = [e \in Enrollments |->
           IF e \in stopped THEN [enrollment[e] EXCEPT !.status = "STOPPED"]
                            ELSE enrollment[e]]
    /\ execution' = [x \in Executions |->
           IF execution[x].enrollment \in stopped /\ execution[x].status = "QUEUED"
             THEN [execution[x] EXCEPT !.status = "STOPPED"]
             ELSE execution[x]]

\* The transaction of either stop; a missing row rolls it back.
CommitStop(r) ==
    /\ pc[r] \in {"stopFlow", "stopEnrollment"}
    /\ IF Gone
         THEN UNCHANGED <<flow, enrollment, execution>>
         ELSE /\ flow' = IF pc[r] = "stopFlow" THEN "ARCHIVED" ELSE flow
              /\ StopRows(victims[r])
    /\ Leave(r)
    /\ UNCHANGED <<graph, redis, ghosts>>

-----------------------------------------------------------------------------
(* Enrolling a conversation: by hand, on an incoming chat, or by a rule *)

\* The flow is read with its graph; the graph is not read again.
BeginEnroll(r) ==
    /\ Arrives(r, "enroll")
    /\ flow = "ACTIVE"
    /\ \E c \in Conversations : asked' = [asked EXCEPT ![r] = c]
    /\ \E n \in EntryNodes(graph) :
           plan' = [plan EXCEPT ![r] = Plan("none", "ADVANCE", n, FALSE, FALSE)]
    /\ Goto(r, "check")
    /\ UNCHANGED <<db, redis, job, subject, child, victims, ghosts>>

CheckExisting(r) ==
    /\ pc[r] = "check"
    /\ IF ActiveIn(asked[r]) # {}
         THEN Leave(r)
         ELSE /\ Goto(r, "enroll")
              /\ UNCHANGED <<job, subject, plan, child, asked, victims>>
    /\ UNCHANGED <<db, redis, ghosts>>

CreateEnrollment(r) ==
    /\ pc[r] = "enroll"
    /\ ~Gone
    /\ \E e \in Fresh(enrollment) :
           /\ enrollment' = [enrollment EXCEPT ![e] =
                  [status |-> "ACTIVE", conversation |-> asked[r], node |-> plan[r].next]]
           /\ subject' = [subject EXCEPT ![r] = e]
    /\ Goto(r, "create")
    /\ UNCHANGED <<flow, graph, execution, redis, job, plan, child, asked, victims, ghosts>>

-----------------------------------------------------------------------------
(* enqueueExecution, shared by requests and workers *)

CreateExecution(a) ==
    /\ pc[a] = "create"
    /\ ~Gone
    /\ \E x \in Fresh(execution) :
           /\ execution' = [execution EXCEPT ![x] =
                  [status |-> "QUEUED", enrollment |-> subject[a], node |-> plan[a].next]]
           /\ child' = [child EXCEPT ![a] = x]
           /\ due' = IF plan[a].delayed THEN due ELSE due \cup {x}
    /\ Goto(a, "push")
    /\ UNCHANGED <<flow, graph, enrollment, queue, lock, job, subject, plan, asked,
                   victims, ghosts>>

\* Mutant: pushes twice (a retried RPUSH).
PushTwice(a) ==
    /\ pc[a] = "push"
    /\ queue' = queue \o <<child[a], child[a]>>
    /\ IF a \in Requests
         THEN Leave(a)
         ELSE /\ Goto(a, "release")
              /\ child' = [child EXCEPT ![a] = Nobody]
              /\ UNCHANGED <<job, subject, plan, asked, victims>>
    /\ UNCHANGED <<db, due, lock, ghosts>>

PushJob(a) ==
    /\ pc[a] = "push"
    /\ queue' = Append(queue, child[a])
    /\ IF a \in Requests
         THEN Leave(a)
         ELSE /\ Goto(a, "release")
              /\ child' = [child EXCEPT ![a] = Nobody]
              /\ UNCHANGED <<job, subject, plan, asked, victims>>
    /\ UNCHANGED <<db, due, lock, ghosts>>

\* dueAt passes.
TimePasses(x) ==
    /\ execution[x].status # "none"
    /\ x \notin due
    /\ due' = due \cup {x}
    /\ UNCHANGED <<db, queue, lock, locals, ghosts>>

-----------------------------------------------------------------------------
(* The worker loop *)

\* BLPOP removes the job before anything is done about it.
Dequeue(w) ==
    /\ pc[w] = "idle"
    /\ queue # <<>>
    /\ job' = [job EXCEPT ![w] = Head(queue)]
    /\ queue' = Tail(queue)
    /\ subject' = [subject EXCEPT ![w] = execution[Head(queue)].enrollment]
    /\ Goto(w, "got")
    /\ UNCHANGED <<db, due, lock, plan, child, asked, victims, ghosts>>

\* Mutant: a job that isn't due is forgotten.
RequeueForgotten(w) ==
    /\ pc[w] = "got"
    /\ job[w] \notin due
    /\ Leave(w)
    /\ UNCHANGED <<db, redis, ghosts>>

Requeue(w) ==
    /\ pc[w] = "got"
    /\ job[w] \notin due
    /\ queue' = Append(queue, job[w])
    /\ Leave(w)
    /\ UNCHANGED <<db, due, lock, ghosts>>

\* SET NX: a worker that doesn't get the lock drops the job.
AcquireLock(w) ==
    /\ pc[w] = "got"
    /\ job[w] \in due
    /\ lock' = lock \cup {job[w]}
    /\ IF job[w] \in lock
         THEN Leave(w)
         ELSE /\ Goto(w, "read")
              /\ UNCHANGED <<job, subject, plan, child, asked, victims>>
    /\ UNCHANGED <<db, queue, due, ghosts>>

\* What follows a node that ended well, in graph g.
AfterNode(g, n, mark, caught, delayed) ==
    IF NextKeys(g, n) = {} THEN {Plan(mark, "COMPLETED", Nobody, caught, delayed)}
    ELSE {IF m \in g.nodes THEN Plan(mark, "ADVANCE", m, caught, delayed)
                           ELSE Plan(mark, "FAILED", Nobody, caught, delayed)
             : m \in NextKeys(g, n)}

\* Mutants: without the flow's, or the enrollment's, status check.
PlansIgnoringFlow(x) ==
    IF ~Active(execution[x].enrollment) \/ execution[x].node \notin graph.nodes
      THEN {Plan("STOPPED", "KEEP", Nobody, FALSE, FALSE)}
    ELSE AfterNode(graph, execution[x].node, "SENT", TRUE, FALSE)

PlansIgnoringEnrollment(x) ==
    IF flow # "ACTIVE" \/ execution[x].node \notin graph.nodes
      THEN {Plan("STOPPED", "KEEP", Nobody, FALSE, FALSE)}
    ELSE AfterNode(graph, execution[x].node, "SENT", TRUE, FALSE)

\* The plans the worker may form from the snapshot of execution x.  A template
\* node with a bad config or no actor fails both rows without a send.  (Flows
\* are created with isTemplateOnly, and nothing clears it: a SEND_TEXT node is
\* always skipped, and what the code would send for it is never reached.)
PlansFor(x) ==
    LET n == execution[x].node IN
    IF flow # "ACTIVE" \/ ~Active(execution[x].enrollment)
      THEN {Plan("STOPPED", "KEEP", Nobody, FALSE, FALSE)}
    ELSE IF n \notin graph.nodes
      THEN {Plan("FAILED", "KEEP", Nobody, FALSE, FALSE)}
    ELSE CASE TypeOf[n] = "SEND_TEXT" -> {Plan("SKIPPED", "KEEP", Nobody, FALSE, FALSE)}
           [] TypeOf[n] = "STOP" -> {Plan("STOPPED", "COMPLETED", Nobody, FALSE, FALSE)}
           [] TypeOf[n] = "DELAY" -> AfterNode(graph, n, "SENT", FALSE, TRUE)
           [] OTHER -> AfterNode(graph, n, "SENT", TRUE, FALSE) \cup {FailurePlan}

\* One query loads the execution, its enrollment, the flow and the graph.
ReadExecution(w) ==
    /\ pc[w] = "read"
    /\ IF Gone \/ execution[job[w]].status # "QUEUED"
         THEN Goto(w, "release") /\ UNCHANGED plan
         ELSE \E p \in PlansFor(job[w]) :
                /\ plan' = [plan EXCEPT ![w] = p]
                /\ Goto(w, IF p.caught THEN "send" ELSE "mark")
    /\ UNCHANGED <<db, redis, job, subject, child, asked, victims, ghosts>>

\* sendOutboundMessage returns, or throws (whatever the provider did).
SendMessage(w) ==
    /\ pc[w] = "send"
    /\ sends' = [sends EXCEPT ![job[w]] = @ + 1]
    /\ lateSends' = IF flow = "ACTIVE" THEN lateSends ELSE [lateSends EXCEPT ![w] = @ + 1]
    /\ sendsAfterEnd' = IF Active(subject[w]) THEN sendsAfterEnd
                        ELSE [sendsAfterEnd EXCEPT ![subject[w]] = @ + 1]
    /\ plan' \in {plan, [plan EXCEPT ![w] = FailurePlan]}
    /\ Goto(w, "mark")
    /\ UNCHANGED <<db, redis, job, subject, child, asked, victims, stranded>>

\* Mutant: the status is written only when the node failed or was refused.
MarkOnlyFailures(w) ==
    /\ pc[w] = "mark"
    /\ ~Gone
    /\ execution' = IF plan[w].mark = "SENT" THEN execution
                    ELSE [execution EXCEPT ![job[w]].status = plan[w].mark]
    /\ IF plan[w].outcome = "KEEP"
         THEN Goto(w, "release") /\ stranded' = stranded \cup {subject[w]}
         ELSE Goto(w, "advance") /\ UNCHANGED stranded
    /\ UNCHANGED <<flow, graph, enrollment, redis, job, subject, plan, child, asked,
                   victims, sends, lateSends, sendsAfterEnd>>

\* markExecutionStatus: unconditional.
MarkExecution(w) ==
    /\ pc[w] = "mark"
    /\ ~Gone
    /\ execution' = [execution EXCEPT ![job[w]].status = plan[w].mark]
    /\ IF plan[w].outcome = "KEEP"
         THEN Goto(w, "release") /\ stranded' = stranded \cup {subject[w]}
         ELSE Goto(w, "advance") /\ UNCHANGED stranded
    /\ UNCHANGED <<flow, graph, enrollment, redis, job, subject, plan, child, asked,
                   victims, sends, lateSends, sendsAfterEnd>>

\* Mutant: writes the status of the snapshot back along with the node.
UpdateEnrollmentFromSnapshot(w) ==
    /\ pc[w] = "advance"
    /\ ~Gone
    /\ enrollment' =
           [enrollment EXCEPT
               ![subject[w]].status = IF plan[w].outcome = "ADVANCE" THEN "ACTIVE"
                                      ELSE plan[w].outcome,
               ![subject[w]].node = IF plan[w].outcome = "ADVANCE" THEN plan[w].next
                                    ELSE execution[job[w]].node]
    /\ Goto(w, IF plan[w].outcome = "ADVANCE" THEN "create" ELSE "release")
    /\ UNCHANGED <<flow, graph, execution, redis, job, subject, plan, child, asked,
                   victims, ghosts>>

\* The enrollment's update, by id: it doesn't look at the status it replaces.
UpdateEnrollment(w) ==
    /\ pc[w] = "advance"
    /\ ~Gone
    /\ enrollment' =
           IF plan[w].outcome = "ADVANCE"
             THEN [enrollment EXCEPT ![subject[w]].node = plan[w].next]
             ELSE [enrollment EXCEPT ![subject[w]].status = plan[w].outcome,
                                     ![subject[w]].node = execution[job[w]].node]
    /\ Goto(w, CASE plan[w].outcome = "ADVANCE" -> "create"
                 [] plan[w].outcome = "COMPLETED" -> "rules"
                 [] OTHER -> "release")
    /\ UNCHANGED <<flow, graph, execution, redis, job, subject, plan, child, asked,
                   victims, ghosts>>

\* processFlowRulesForEvent on COMPLETED_SEQUENCE: what a rule does to this flow
\* is a request of its own.
RunRules(w) ==
    /\ pc[w] = "rules"
    /\ Goto(w, "release")
    /\ UNCHANGED <<db, redis, job, subject, plan, child, asked, victims, ghosts>>

\* DEL without looking at who holds the lock; an error of DEL is swallowed.
Release(w) ==
    /\ pc[w] = "release"
    /\ lock' \in {lock \ {job[w]}} \cup (IF "throw" \in Faults THEN {lock} ELSE {})
    /\ Leave(w)
    /\ UNCHANGED <<db, queue, due, ghosts>>

\* The lock's 90 seconds are over.
LockExpires(x) ==
    /\ x \in lock
    /\ lock' = lock \ {x}
    /\ UNCHANGED <<db, queue, due, locals, ghosts>>

-----------------------------------------------------------------------------
(* Faults *)

\* Where an await of the database or of Redis may throw.
Fallible == {"got", "read", "mark", "advance", "rules", "create", "push"}

\* Steps that write a row of the flow: they throw once the rows are gone.
NeedsRow == {"mark", "advance", "create", "enroll"}

\* The template branch catches and writes its failure; any other branch leaves
\* through `finally`; before the lock there is neither.  The job isn't put back.
Unwind(w) ==
    \/ /\ plan[w].caught
       /\ Goto(w, "mark")
       /\ plan' = [plan EXCEPT ![w] = FailurePlan]
       /\ child' = [child EXCEPT ![w] = Nobody]
       /\ UNCHANGED <<job, subject, asked, victims, stranded>>
    \/ /\ ~plan[w].caught /\ pc[w] # "got"
       /\ Goto(w, "release")
       /\ child' = [child EXCEPT ![w] = Nobody]
       /\ stranded' = stranded \cup {subject[w]}
       /\ UNCHANGED <<job, subject, plan, asked, victims>>
    \/ /\ pc[w] = "got"
       /\ Leave(w)
       /\ stranded' = stranded \cup {subject[w]}

\* Mutant: the job is put back for a retry, as the Meta event worker does.
WorkerThrowsAndRequeues(w) ==
    /\ "throw" \in Faults
    /\ pc[w] \in Fallible
    /\ queue' = Append(queue, job[w])
    /\ Unwind(w)
    /\ UNCHANGED <<db, due, lock, sends, lateSends, sendsAfterEnd>>

\* An await of a worker throws.
WorkerThrows(w) ==
    /\ \/ "throw" \in Faults /\ pc[w] \in Fallible
       \/ Gone /\ pc[w] \in NeedsRow
    /\ Unwind(w)
    /\ UNCHANGED <<db, redis, sends, lateSends, sendsAfterEnd>>

\* The same after RPUSH took effect: the reply was lost.
PushReplyLost(w) ==
    /\ "replyLost" \in Faults
    /\ pc[w] = "push"
    /\ queue' = Append(queue, child[w])
    /\ Unwind(w)
    /\ UNCHANGED <<db, due, lock, sends, lateSends, sendsAfterEnd>>

\* A worker process dies and restarts; Redis keeps its lock until it expires.
WorkerCrashes(w) ==
    /\ "crash" \in Faults
    /\ pc[w] # "idle"
    /\ Leave(w)
    /\ stranded' = stranded \cup {subject[w]}
    /\ UNCHANGED <<db, redis, sends, lateSends, sendsAfterEnd>>

\* A request throws or its process dies between two steps.  (A request whose
\* RPUSH took effect before it threw has done what PushJob does.)
RequestDies(r) ==
    /\ \/ Faults \cap {"throw", "crash"} # {} /\ pc[r] # "idle"
       \/ Gone /\ pc[r] \in NeedsRow
    /\ Leave(r)
    /\ stranded' = IF pc[r] \in {"create", "push"} THEN stranded \cup {subject[r]}
                   ELSE stranded
    /\ UNCHANGED <<db, redis, sends, lateSends, sendsAfterEnd>>

-----------------------------------------------------------------------------

RequestStep(r) ==
    \/ WritePauseOrResume(r) \/ CommitStop(r)
    \/ CheckExisting(r) \/ CreateEnrollment(r) \/ CreateExecution(r) \/ PushJob(r)

WorkerStep(w) ==
    \/ Dequeue(w) \/ Requeue(w) \/ AcquireLock(w) \/ ReadExecution(w) \/ SendMessage(w)
    \/ MarkExecution(w) \/ UpdateEnrollment(w) \/ RunRules(w)
    \/ CreateExecution(w) \/ PushJob(w) \/ Release(w)

Arrival(r) ==
    \/ BeginPauseOrResume(r) \/ UpdateFlow(r) \/ DeleteFlow(r)
    \/ BeginStopFlow(r) \/ BeginStopEnrollment(r) \/ BeginEnroll(r)

Next ==
    \/ \E r \in Requests : Arrival(r) \/ RequestStep(r) \/ RequestDies(r)
    \/ \E w \in Workers :
           WorkerStep(w) \/ WorkerThrows(w) \/ PushReplyLost(w) \/ WorkerCrashes(w)
    \/ \E x \in Executions : TimePasses(x) \/ LockExpires(x)

Spec == Init /\ [][Next]_vars

\* Processes that were started keep running, and clocks advance.  Requests
\* need not arrive, and faults need not happen.
Fairness ==
    /\ \A w \in Workers : WF_vars(WorkerStep(w))
    /\ \A r \in Requests : WF_vars(RequestStep(r))
    /\ \A x \in Executions : WF_vars(TimePasses(x))

FairSpec == Spec /\ Fairness
-----------------------------------------------------------------------------
(* Properties *)

EnrollmentStatus == {"none", "ACTIVE", "COMPLETED", "STOPPED", "FAILED"}

ExecutionStatus == {"none", "QUEUED", "SENT", "FAILED", "STOPPED", "SKIPPED"}

WorkerPC == {"idle", "got", "read", "send", "mark", "advance", "rules", "create",
             "push", "release"}

RequestPC == {"idle", "pause", "resume", "stopFlow", "stopEnrollment", "check",
              "enroll", "create", "push"}

PlanType == [mark : ExecutionStatus,
             outcome : {"KEEP", "ADVANCE", "COMPLETED", "FAILED"},
             next : Nodes \cup {Nobody}, caught : BOOLEAN, delayed : BOOLEAN]

DatabaseTyped ==
    /\ flow \in FlowStatus \cup {"DELETED"}
    /\ graph \in GraphType
    /\ enrollment \in [Enrollments -> [status : EnrollmentStatus,
                                       conversation : Conversations \cup {Nobody},
                                       node : Nodes \cup {Nobody}]]
    /\ execution \in [Executions -> [status : ExecutionStatus,
                                     enrollment : Enrollments \cup {Nobody},
                                     node : Nodes \cup {Nobody}]]

RedisTyped ==
    /\ queue \in Seq(Executions)
    /\ due \subseteq Executions
    /\ lock \subseteq Executions

LocalsTyped ==
    /\ pc \in [Actors -> WorkerPC \cup RequestPC]
    /\ \A w \in Workers : pc[w] \in WorkerPC
    /\ \A r \in Requests : pc[r] \in RequestPC
    /\ job \in [Actors -> Executions \cup {Nobody}]
    /\ subject \in [Actors -> Enrollments \cup {Nobody}]
    /\ plan \in [Actors -> PlanType]
    /\ child \in [Actors -> Executions \cup {Nobody}]
    /\ asked \in [Actors -> Conversations \cup {Nobody}]
    /\ victims \in [Actors -> SUBSET Enrollments]

GhostsTyped ==
    /\ sends \in [Executions -> Nat]
    /\ lateSends \in [Workers -> Nat]
    /\ sendsAfterEnd \in [Enrollments -> Nat]
    /\ stranded \subseteq Enrollments

\* The type of every variable: rows, Redis keys and the locals of the
\* processes hold only values the schema and the code allow.
TypeOK == DatabaseTyped /\ RedisTyped /\ LocalsTyped /\ GhostsTyped

\* Where the job of an execution stands, as OneShotJobs sees it.
JobState(x) ==
    CASE execution[x].status = "none" -> "unborn"
      [] execution[x].status # "none" /\ sends[x] > 0 -> "over"
      [] OTHER ->
           IF (\E i \in 1..Len(queue) : queue[i] = x) \/ (\E a \in Actors : child[a] = x)
             THEN "waiting"
           ELSE IF \E w \in Workers : job[w] = x /\ pc[w] \in {"got", "read", "send"}
             THEN "taken"
           ELSE "over"

OneShot == INSTANCE OneShotJobs
           WITH Jobs <- Executions,
                state <- [x \in Executions |-> JobState(x)],
                shots <- sends

\* The list of jobs keeps the promise of OneShotJobs: a job is with one holder
\* at a time, is put back only untouched, and calls the message service only
\* while it is held and never after it was called for.
JobsAreOneShot == OneShot!Spec

\* However many workers poll the list, and whether locks expire, workers die
\* or awaits throw, the message service is called at most once for an
\* execution (processWhatsAppCampaignExecutionJob).
AtMostOneSend == \A x \in Executions : sends[x] <= 1

\* An enrollment walks its graph one node at a time: it never has two
\* executions waiting, although nothing in the schema says so.
OneLiveExecution ==
    \A x, y \in Executions :
        /\ execution[x].status = "QUEUED"
        /\ execution[y].status = "QUEUED"
        /\ execution[x].enrollment = execution[y].enrollment
        => x = y

\* After a pause or a stop of the flow, each worker sends at most the one
\* message it had already decided on when it loaded its execution.
LateSendsBounded == \A w \in Workers : lateSends[w] <= 1

\* A conversation that was stopped, has completed or has failed gets at most
\* one more message of that enrollment, however many workers are busy.
SendsAfterEndBounded == \A e \in Enrollments : sendsAfterEnd[e] <= 1

\* Somebody is going to do something about enrollment e.
Driven(e) ==
    \/ \E i \in 1..Len(queue) : /\ execution[queue[i]].enrollment = e
                                /\ execution[queue[i]].status = "QUEUED"
    \/ \E a \in Actors : subject[a] = e /\ pc[a] \notin {"idle", "release"}

\* An ACTIVE enrollment blocks its conversation from being enrolled again, so
\* it must not be left without a job.  That happens only after a fault, or
\* when its execution was refused (flow not ACTIVE, node missing or not
\* allowed), which ends the execution and leaves the enrollment ACTIVE.
NoSilentStall ==
    \A e \in Enrollments : Active(e) /\ e \notin stranded /\ ~Gone => Driven(e)

\* Enrolling reads before it writes and no unique key backs it: concurrent
\* requests can enroll a conversation twice, but never more often than there
\* are requests that overlap.
DuplicatesBounded ==
    \A c \in Conversations : Cardinality(ActiveIn(c)) <= Cardinality(Requests)

\* A worker's stale write never brings a finished enrollment back.
EndedStaysEnded ==
    [][\A e \in Enrollments :
          enrollment[e].status \notin {"none", "ACTIVE"} =>
              enrollment'[e].status \notin {"none", "ACTIVE"}]_vars

\* "Archived flow cannot be resumed." (resumeWhatsAppFlow): a flow that was
\* stopped becomes ACTIVE again only when its status is edited.  The code's
\* guard and its write are two awaits apart.
ArchivedIsNotResumed == [][flow = "ARCHIVED" => flow' # "ACTIVE"]_vars

\* While clocks advance and processes run, every ACTIVE enrollment of an
\* acyclic flow comes to an end, unless it is one of the stranded ones.
EnrollmentSettles ==
    \A e \in Enrollments :
        Active(e) ~> (~Active(e) \/ e \in stranded \/ Gone)

=============================================================================
