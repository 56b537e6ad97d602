----------------------- MODULE CampaignRuntime_proofs -----------------------
(***************************************************************************)
(* Proofs about CampaignRuntime, for any number of workers, requests, rows *)
(* and nodes.                                                              *)
(***************************************************************************)
EXTENDS CampaignRuntime, FiniteSetTheorems, TLAPS

-----------------------------------------------------------------------------
(* Lemmas about the operators *)

\* A fresh key is a key of its table that no row uses.
LEMMA FreshIsUnused ==
    ASSUME NEW table, NEW k \in Fresh(table)
    PROVE  k \in DOMAIN table /\ table[k].status = "none"
BY DEF Fresh

\* A plan made of legal parts is a plan.
LEMMA PlanTyped ==
    ASSUME NEW mark \in ExecutionStatus, NEW next \in Nodes \cup {Nobody},
           NEW outcome \in {"KEEP", "ADVANCE", "COMPLETED", "FAILED"},
           NEW caught \in BOOLEAN, NEW delayed \in BOOLEAN
    PROVE  /\ Plan(mark, outcome, next, caught, delayed) \in PlanType
           /\ Plan(mark, outcome, next, caught, delayed).mark = mark
           /\ Plan(mark, outcome, next, caught, delayed).outcome = outcome
           /\ Plan(mark, outcome, next, caught, delayed).caught = caught
BY DEF Plan, PlanType

LEMMA FailurePlanTyped ==
    /\ FailurePlan \in PlanType
    /\ FailurePlan.mark = "FAILED" /\ FailurePlan.outcome = "FAILED" /\ ~FailurePlan.caught
BY DEF FailurePlan, Plan, PlanType, ExecutionStatus

\* The plans formed after a node are plans, and always do something to the
\* enrollment.
LEMMA AfterNodePlans ==
    ASSUME NEW g \in GraphType, NEW n \in Nodes,
           NEW mark \in ExecutionStatus, NEW caught \in BOOLEAN, NEW delayed \in BOOLEAN,
           NEW p \in AfterNode(g, n, mark, caught, delayed)
    PROVE  p \in PlanType /\ p.outcome # "KEEP" /\ p.mark = mark /\ p.caught = caught
<1>1. CASE p = Plan(mark, "COMPLETED", Nobody, caught, delayed)
  <2>1. Nobody \in Nodes \cup {Nobody}
    OBVIOUS
  <2> QED
    BY <1>1, <2>1 DEF Plan, PlanType
<1>2. ASSUME NEW m \in Nodes, p = Plan(mark, "ADVANCE", m, caught, delayed)
      PROVE  p \in PlanType /\ p.outcome # "KEEP" /\ p.mark = mark /\ p.caught = caught
  BY <1>2 DEF Plan, PlanType
<1>3. CASE p = Plan(mark, "FAILED", Nobody, caught, delayed)
  BY <1>3 DEF Plan, PlanType
<1>4. \/ p = Plan(mark, "COMPLETED", Nobody, caught, delayed)
      \/ \E m \in Nodes : \/ p = Plan(mark, "ADVANCE", m, caught, delayed)
                          \/ p = Plan(mark, "FAILED", Nobody, caught, delayed)
  BY Zenon DEF AfterNode, NextKeys
<1> QED
  BY <1>1, <1>2, <1>3, <1>4

\* A plan formed from a snapshot is a plan; it ends the execution, and only the
\* plan of a template, which the catch block protects, marks it SENT after a call.
LEMMA PlansForType ==
    ASSUME CampaignAssumption, TypeOK, NEW x \in Executions, NEW p \in PlansFor(x)
    PROVE  /\ p \in PlanType
           /\ p.mark \notin {"none", "QUEUED"}
           /\ p.caught => flow = "ACTIVE" /\ Active(execution[x].enrollment)
<1> DEFINE n == execution[x].node
<1>1. CASE ~(flow = "ACTIVE" /\ Active(execution[x].enrollment))
  <2>1. p = Plan("STOPPED", "KEEP", Nobody, FALSE, FALSE)
    BY <1>1 DEF PlansFor
  <2> QED
    BY <2>1 DEF Plan, PlanType, ExecutionStatus
<1>2. CASE /\ flow = "ACTIVE" /\ Active(execution[x].enrollment)
           /\ n \notin graph.nodes
  <2>1. p = Plan("FAILED", "KEEP", Nobody, FALSE, FALSE)
    BY <1>2 DEF PlansFor
  <2> QED
    BY <2>1 DEF Plan, PlanType, ExecutionStatus
<1>3. CASE /\ flow = "ACTIVE" /\ Active(execution[x].enrollment)
           /\ n \in graph.nodes
  <2>1. n \in Nodes /\ graph \in GraphType
    BY <1>3 DEF TypeOK, DatabaseTyped, GraphType
  <2>2. \/ p = Plan("SKIPPED", "KEEP", Nobody, FALSE, FALSE)
        \/ p = Plan("STOPPED", "COMPLETED", Nobody, FALSE, FALSE)
        \/ p = FailurePlan
        \/ p \in AfterNode(graph, n, "SENT", FALSE, TRUE)
        \/ p \in AfterNode(graph, n, "SENT", TRUE, FALSE)
    BY <1>3, <2>1 DEF PlansFor, CampaignAssumption, NodeTypes
  <2>3. CASE p \in AfterNode(graph, n, "SENT", FALSE, TRUE)
    <3>1. "SENT" \in ExecutionStatus /\ FALSE \in BOOLEAN /\ TRUE \in BOOLEAN
      BY DEF ExecutionStatus
    <3>2. p \in PlanType /\ p.mark = "SENT"
      BY <2>1, <2>3, <3>1, AfterNodePlans
    <3> QED
      BY <1>3, <3>2
  <2>4. CASE p \in AfterNode(graph, n, "SENT", TRUE, FALSE)
    <3>1. "SENT" \in ExecutionStatus /\ FALSE \in BOOLEAN /\ TRUE \in BOOLEAN
      BY DEF ExecutionStatus
    <3>2. p \in PlanType /\ p.mark = "SENT"
      BY <2>1, <2>4, <3>1, AfterNodePlans
    <3> QED
      BY <1>3, <3>2
  <2>5. CASE p = Plan("SKIPPED", "KEEP", Nobody, FALSE, FALSE)
    BY <2>5 DEF Plan, PlanType, ExecutionStatus
  <2>6. CASE p = Plan("STOPPED", "COMPLETED", Nobody, FALSE, FALSE)
    BY <2>6 DEF Plan, PlanType, ExecutionStatus
  <2>7. CASE p = FailurePlan
    BY <2>7 DEF FailurePlan, Plan, PlanType, ExecutionStatus
  <2> QED
    BY <2>2, <2>3, <2>4, <2>5, <2>6, <2>7
<1> QED
  BY <1>1, <1>2, <1>3

-----------------------------------------------------------------------------
(* Effects of the shared parts of actions, in terms of single processes *)

\* A process that leaves forgets its locals and disturbs no other process.
LEMMA LeaveEffect ==
    ASSUME LocalsTyped, NEW a \in Actors, Leave(a)
    PROVE  /\ LocalsTyped'
           /\ pc'[a] = "idle" /\ job'[a] = Nobody /\ child'[a] = Nobody
           /\ \A b \in Actors \ {a} :
                 /\ pc'[b] = pc[b] /\ job'[b] = job[b] /\ subject'[b] = subject[b]
                 /\ plan'[b] = plan[b] /\ child'[b] = child[b]
<1>1. NoPlan \in PlanType
  BY DEF NoPlan, Plan, PlanType, ExecutionStatus
<1> QED
  BY <1>1 DEF Leave, Goto, LocalsTyped, Actors, WorkerPC, RequestPC

\* The same for a worker whose await throws.
LEMMA UnwindEffect ==
    ASSUME CampaignAssumption, LocalsTyped, NEW w \in Workers, Unwind(w)
    PROVE  /\ LocalsTyped'
           /\ child'[w] = Nobody
           /\ \/ pc'[w] = "idle" /\ job'[w] = Nobody
              \/ /\ pc'[w] = "mark" /\ job'[w] = job[w] /\ subject'[w] = subject[w]
                 /\ plan'[w] = FailurePlan /\ plan[w].caught
              \/ pc'[w] = "release" /\ job'[w] = job[w] /\ subject'[w] = subject[w]
           /\ stranded' \subseteq stranded \cup {subject[w]}
           /\ pc'[w] # "mark" => subject[w] \in stranded'
           /\ \A b \in Actors \ {w} :
                 /\ pc'[b] = pc[b] /\ job'[b] = job[b] /\ subject'[b] = subject[b]
                 /\ plan'[b] = plan[b] /\ child'[b] = child[b]
<1>1. w \in Actors
  BY DEF Actors
<1>2. CASE pc[w] = "got" /\ Leave(w) /\ stranded' = stranded \cup {subject[w]}
  BY <1>1, <1>2, LeaveEffect
<1>3. CASE /\ plan[w].caught
           /\ Goto(w, "mark")
           /\ plan' = [plan EXCEPT ![w] = FailurePlan]
           /\ child' = [child EXCEPT ![w] = Nobody]
           /\ UNCHANGED <<job, subject, asked, victims, stranded>>
  BY <1>1, <1>3, FailurePlanTyped
  DEF Goto, LocalsTyped, WorkerPC, RequestPC, CampaignAssumption
<1>4. CASE /\ Goto(w, "release")
           /\ child' = [child EXCEPT ![w] = Nobody]
           /\ stranded' = stranded \cup {subject[w]}
           /\ UNCHANGED <<job, subject, plan, asked, victims>>
  BY <1>1, <1>4 DEF Goto, LocalsTyped, WorkerPC, RequestPC, CampaignAssumption
<1> QED
  BY <1>2, <1>3, <1>4 DEF Unwind

\* Stopping keeps the types of the rows, makes none, and moves none.
LEMMA StopRowsEffect ==
    ASSUME DatabaseTyped, NEW S, StopRows(S)
    PROVE  /\ enrollment' \in [Enrollments -> [status : EnrollmentStatus,
                                               conversation : Conversations \cup {Nobody},
                                               node : Nodes \cup {Nobody}]]
           /\ execution' \in [Executions -> [status : ExecutionStatus,
                                             enrollment : Enrollments \cup {Nobody},
                                             node : Nodes \cup {Nobody}]]
           /\ \A x \in Executions :
                 /\ execution'[x].status = "none" <=> execution[x].status = "none"
                 /\ execution'[x].enrollment = execution[x].enrollment
<1>1. enrollment' \in [Enrollments -> [status : EnrollmentStatus,
                                       conversation : Conversations \cup {Nobody},
                                       node : Nodes \cup {Nobody}]]
  <2>1. ASSUME NEW e \in Enrollments
        PROVE  /\ enrollment[e] \in [status : EnrollmentStatus,
                                     conversation : Conversations \cup {Nobody},
                                     node : Nodes \cup {Nobody}]
               /\ [enrollment[e] EXCEPT !.status = "STOPPED"] \in
                      [status : EnrollmentStatus,
                       conversation : Conversations \cup {Nobody},
                       node : Nodes \cup {Nobody}]
    BY DEF DatabaseTyped, EnrollmentStatus
  <2> QED
    BY <2>1 DEF StopRows
<1>2. \A x \in Executions :
          \/ execution'[x] = execution[x]
          \/ /\ execution'[x] = [execution[x] EXCEPT !.status = "STOPPED"]
             /\ execution[x].status = "QUEUED"
  BY DEF StopRows, DatabaseTyped
<1>3. DOMAIN execution' = Executions /\ execution' = [x \in Executions |-> execution'[x]]
  BY DEF StopRows
<1>4. ASSUME NEW x \in Executions
      PROVE  /\ execution'[x] \in [status : ExecutionStatus,
                                   enrollment : Enrollments \cup {Nobody},
                                   node : Nodes \cup {Nobody}]
             /\ execution'[x].status = "none" <=> execution[x].status = "none"
             /\ execution'[x].enrollment = execution[x].enrollment
  <2>1. execution[x] \in [status : ExecutionStatus, enrollment : Enrollments \cup {Nobody},
                          node : Nodes \cup {Nobody}]
    BY DEF DatabaseTyped
  <2>2. \/ execution'[x] = execution[x]
        \/ /\ execution'[x] = [execution[x] EXCEPT !.status = "STOPPED"]
           /\ execution[x].status = "QUEUED"
    BY <1>2
  <2> QED
    BY <2>1, <2>2 DEF ExecutionStatus
<1> QED
  BY <1>1, <1>3, <1>4

-----------------------------------------------------------------------------
(* Type correctness *)

\* Ids that are passed on name rows that exist: an execution's enrollment, the
\* jobs on the list, in the hands of a worker, or about to be pushed.
ReferencesOK ==
    /\ \A x \in Executions :
           execution[x].status # "none" => execution[x].enrollment \in Enrollments
    /\ \A i \in 1..Len(queue) : execution[queue[i]].status # "none"
    /\ \A a \in Actors :
           pc[a] = "push" => child[a] \in Executions /\ execution[child[a]].status # "none"
    /\ \A a \in Actors : pc[a] \in {"create", "push"} => subject[a] \in Enrollments
    /\ \A w \in Workers :
           pc[w] # "idle" => /\ job[w] \in Executions
                             /\ execution[job[w]].status # "none"
                             /\ subject[w] \in Enrollments

\* A plan that is about to be carried out ends its execution.
PlansOK ==
    \A w \in Workers :
        /\ pc[w] \in {"send", "mark", "advance"} => plan[w].mark \notin {"none", "QUEUED"}
        /\ pc[w] = "advance" => plan[w].outcome # "KEEP"

TypeInv == TypeOK /\ ReferencesOK /\ PlansOK

LEMMA InitTypeInv == ASSUME CampaignAssumption, Init PROVE TypeInv
BY DEF CampaignAssumption, Init, TypeInv, TypeOK, DatabaseTyped, RedisTyped, LocalsTyped,
       GhostsTyped, ReferencesOK, PlansOK, NoPlan, Plan, PlanType, FlowStatus, GraphType,
       EnrollmentStatus, ExecutionStatus, WorkerPC, RequestPC, Actors

LEMMA NextTypeInv == ASSUME CampaignAssumption, TypeInv, [Next]_vars PROVE TypeInv'
<1> USE DEF TypeInv, TypeOK, Actors, WorkerPC, RequestPC, FlowStatus,
        EnrollmentStatus, ExecutionStatus, db, redis, locals, ghosts, CampaignAssumption
<1>1. ASSUME NEW r \in Requests, BeginPauseOrResume(r) PROVE TypeInv'
  <2>1. DatabaseTyped' /\ RedisTyped' /\ GhostsTyped'
    BY <1>1
    DEF BeginPauseOrResume, Arrives, Goto, DatabaseTyped, RedisTyped, GhostsTyped
  <2>2. LocalsTyped'
    BY <1>1
    DEF BeginPauseOrResume, Arrives, Goto, LocalsTyped
  <2>3. ReferencesOK' /\ PlansOK'
    BY <1>1
    DEF BeginPauseOrResume, Arrives, Goto, ReferencesOK, PlansOK, LocalsTyped, RedisTyped, DatabaseTyped
  <2> QED
    BY <2>1, <2>2, <2>3
<1>2. ASSUME NEW r \in Requests, UpdateFlow(r) PROVE TypeInv'
  <2>1. flow' \in FlowStatus /\ lateSends' \in [Workers -> Nat]
    BY <1>2 DEF UpdateFlow, SetFlow, GhostsTyped
  <2>2. graph' \in GraphType
    <3>1. PICK g \in Graphs : graph' \in {graph, g, [graph EXCEPT !.nodes = g.nodes],
                                          [graph EXCEPT !.edges = g.edges]}
      BY <1>2 DEF UpdateFlow
    <3>2. g \in GraphType /\ graph \in GraphType
      BY DEF DatabaseTyped
    <3> QED
      BY <3>1, <3>2 DEF GraphType
  <2>3. DatabaseTyped' /\ RedisTyped' /\ GhostsTyped'
    BY <1>2, <2>1, <2>2 DEF UpdateFlow, DatabaseTyped, RedisTyped, GhostsTyped
  <2>4. LocalsTyped' /\ ReferencesOK' /\ PlansOK'
    BY <1>2 DEF UpdateFlow, LocalsTyped, ReferencesOK, PlansOK
  <2> QED
    BY <2>3, <2>4
<1>3. ASSUME NEW r \in Requests, DeleteFlow(r) PROVE TypeInv'
  <2>1. DatabaseTyped' /\ RedisTyped' /\ GhostsTyped'
    BY <1>3
    DEF DeleteFlow, Arrives, SetFlow, DatabaseTyped, RedisTyped, GhostsTyped
  <2>2. LocalsTyped'
    BY <1>3
    DEF DeleteFlow, Arrives, SetFlow, LocalsTyped
  <2>3. ReferencesOK' /\ PlansOK'
    BY <1>3
    DEF DeleteFlow, Arrives, SetFlow, ReferencesOK, PlansOK, LocalsTyped, RedisTyped, DatabaseTyped
  <2> QED
    BY <2>1, <2>2, <2>3
<1>4. ASSUME NEW r \in Requests, BeginStopFlow(r) PROVE TypeInv'
  <2>1. DatabaseTyped' /\ RedisTyped' /\ GhostsTyped'
    BY <1>4
    DEF BeginStopFlow, Arrives, Goto, DatabaseTyped, RedisTyped, GhostsTyped
  <2>2. LocalsTyped'
    BY <1>4
    DEF BeginStopFlow, Arrives, Goto, LocalsTyped
  <2>3. ReferencesOK' /\ PlansOK'
    BY <1>4
    DEF BeginStopFlow, Arrives, Goto, ReferencesOK, PlansOK, LocalsTyped, RedisTyped, DatabaseTyped
  <2> QED
    BY <2>1, <2>2, <2>3
<1>5. ASSUME NEW r \in Requests, BeginStopEnrollment(r) PROVE TypeInv'
  <2>1. DatabaseTyped' /\ RedisTyped' /\ GhostsTyped'
    BY <1>5
    DEF BeginStopEnrollment, Arrives, Goto, ActiveIn, DatabaseTyped, RedisTyped, GhostsTyped
  <2>2. LocalsTyped'
    BY <1>5
    DEF BeginStopEnrollment, Arrives, Goto, ActiveIn, LocalsTyped
  <2>3. ReferencesOK' /\ PlansOK'
    BY <1>5
    DEF BeginStopEnrollment, Arrives, Goto, ActiveIn, ReferencesOK, PlansOK, LocalsTyped, RedisTyped, DatabaseTyped
  <2> QED
    BY <2>1, <2>2, <2>3
<1>6. ASSUME NEW r \in Requests, BeginEnroll(r) PROVE TypeInv'
  <2>1. DatabaseTyped' /\ RedisTyped' /\ GhostsTyped'
    BY <1>6 DEF BeginEnroll, DatabaseTyped, RedisTyped, GhostsTyped
  <2>2. /\ pc' \in [Actors -> WorkerPC \cup RequestPC]
        /\ \A w \in Workers : pc'[w] = pc[w]
        /\ pc'[r] = "check"
        /\ \A b \in Actors \ {r} : pc'[b] = pc[b]
    BY <1>6 DEF BeginEnroll, Goto, LocalsTyped
  <2>3. /\ plan' \in [Actors -> PlanType]
        /\ \A w \in Workers : plan'[w] = plan[w]
    <3>1. PICK n \in EntryNodes(graph) :
              plan' = [plan EXCEPT ![r] = Plan("none", "ADVANCE", n, FALSE, FALSE)]
      BY <1>6 DEF BeginEnroll
    <3>2. n \in Nodes
      BY DEF EntryNodes, DatabaseTyped, GraphType
    <3>3. Plan("none", "ADVANCE", n, FALSE, FALSE) \in PlanType
      BY <3>2 DEF Plan, PlanType
    <3> QED
      BY <3>1, <3>3 DEF LocalsTyped
  <2>4. LocalsTyped'
    <3>1. \A s \in Requests : pc'[s] \in RequestPC
      BY <2>2 DEF LocalsTyped
    <3>2. asked' \in [Actors -> Conversations \cup {Nobody}]
      BY <1>6 DEF BeginEnroll, LocalsTyped
    <3> QED
      BY <1>6, <2>2, <2>3, <3>1, <3>2 DEF BeginEnroll, LocalsTyped
  <2>5. ReferencesOK' /\ PlansOK'
    BY <1>6, <2>2, <2>3 DEF BeginEnroll, ReferencesOK, PlansOK
  <2> QED
    BY <2>1, <2>4, <2>5
<1>7. ASSUME NEW r \in Requests, WritePauseOrResume(r) PROVE TypeInv'
  <2>1. DatabaseTyped' /\ RedisTyped' /\ GhostsTyped'
    BY <1>7, LeaveEffect
    DEF WritePauseOrResume, SetFlow, DatabaseTyped, RedisTyped, GhostsTyped
  <2>2. LocalsTyped'
    BY <1>7, LeaveEffect
    DEF WritePauseOrResume, SetFlow, LocalsTyped
  <2>3. ReferencesOK' /\ PlansOK'
    BY <1>7, LeaveEffect
    DEF WritePauseOrResume, SetFlow, ReferencesOK, PlansOK
  <2> QED
    BY <2>1, <2>2, <2>3
<1>8. ASSUME NEW r \in Requests, CommitStop(r) PROVE TypeInv'
  <2>1. r \in Actors /\ Leave(r)
    BY <1>8 DEF CommitStop, Actors
  <2>2. \/ UNCHANGED <<flow, enrollment, execution>>
        \/ flow' \in FlowStatus \cup {"DELETED"} /\ StopRows(victims[r])
    BY <1>8 DEF CommitStop, DatabaseTyped
  <2>3. DatabaseTyped' /\ RedisTyped' /\ GhostsTyped'
    BY <1>8, <2>2, StopRowsEffect DEF CommitStop, DatabaseTyped, RedisTyped, GhostsTyped
  <2>4. \A x \in Executions :
            /\ execution'[x].status = "none" <=> execution[x].status = "none"
            /\ execution'[x].enrollment = execution[x].enrollment
    BY <2>2, StopRowsEffect
  <2>5. ReferencesOK'
    <3>1. queue' = queue /\ \A i \in 1..Len(queue) : queue[i] \in Executions
      BY <1>8 DEF CommitStop, RedisTyped
    <3>2. \A b \in Actors : job[b] \in Executions \cup {Nobody}
      BY DEF LocalsTyped
    <3> QED
      BY <2>1, <2>4, <3>1, <3>2, LeaveEffect DEF ReferencesOK
  <2>6. PlansOK' /\ LocalsTyped'
    BY <2>1, LeaveEffect DEF PlansOK
  <2> QED
    BY <2>3, <2>5, <2>6
<1>9. ASSUME NEW r \in Requests, CheckExisting(r) PROVE TypeInv'
  <2>1. DatabaseTyped' /\ RedisTyped' /\ GhostsTyped'
    BY <1>9 DEF CheckExisting, DatabaseTyped, RedisTyped, GhostsTyped
  <2>2. CASE Leave(r)
    BY <1>9, <2>1, <2>2, LeaveEffect DEF CheckExisting, ReferencesOK, PlansOK
  <2>3. CASE Goto(r, "enroll") /\ UNCHANGED <<job, subject, plan, child, asked, victims>>
    BY <1>9, <2>1, <2>3 DEF CheckExisting, Goto, LocalsTyped, ReferencesOK, PlansOK
  <2> QED
    BY <1>9, <2>2, <2>3 DEF CheckExisting
<1>10. ASSUME NEW r \in Requests, CreateEnrollment(r) PROVE TypeInv'
  <2>1. DatabaseTyped' /\ RedisTyped' /\ GhostsTyped'
    BY <1>10
    DEF CreateEnrollment, Fresh, Goto, PlanType, DatabaseTyped, RedisTyped, GhostsTyped, LocalsTyped
  <2>2. LocalsTyped'
    BY <1>10
    DEF CreateEnrollment, Fresh, Goto, PlanType, LocalsTyped, ReferencesOK, RedisTyped, DatabaseTyped
  <2>3. ReferencesOK' /\ PlansOK'
    BY <1>10
    DEF CreateEnrollment, Fresh, Goto, PlanType, ReferencesOK, PlansOK, LocalsTyped, RedisTyped, DatabaseTyped
  <2> QED
    BY <2>1, <2>2, <2>3
<1>11. ASSUME NEW a \in Actors, CreateExecution(a) PROVE TypeInv'
  <2>1. DatabaseTyped' /\ RedisTyped' /\ GhostsTyped'
    BY <1>11
    DEF CreateExecution, Fresh, Goto, PlanType, DatabaseTyped, RedisTyped, GhostsTyped, ReferencesOK, LocalsTyped
  <2>2. LocalsTyped'
    BY <1>11
    DEF CreateExecution, Fresh, Goto, PlanType, LocalsTyped, ReferencesOK, RedisTyped, DatabaseTyped
  <2>3. ReferencesOK' /\ PlansOK'
    BY <1>11
    DEF CreateExecution, Fresh, Goto, PlanType, ReferencesOK, PlansOK, LocalsTyped, RedisTyped, DatabaseTyped
  <2> QED
    BY <2>1, <2>2, <2>3
<1>12. ASSUME NEW a \in Actors, PushJob(a) PROVE TypeInv'
  <2>1. queue' \in Seq(Executions) /\ \A i \in 1..Len(queue') : execution[queue'[i]].status # "none"
    BY <1>12 DEF PushJob, RedisTyped, ReferencesOK
  <2>2. DatabaseTyped' /\ RedisTyped' /\ GhostsTyped'
    BY <1>12, <2>1 DEF PushJob, DatabaseTyped, RedisTyped, GhostsTyped
  <2>3. CASE Leave(a)
    BY <1>12, <2>1, <2>2, <2>3, LeaveEffect DEF PushJob, ReferencesOK, PlansOK
  <2>4. CASE /\ a \in Workers /\ Goto(a, "release")
             /\ child' = [child EXCEPT ![a] = Nobody]
             /\ UNCHANGED <<job, subject, plan, asked, victims>>
    <3>1. LocalsTyped'
      BY <2>4 DEF Goto, LocalsTyped
    <3>2. ReferencesOK' /\ PlansOK'
      BY <1>12, <2>1, <2>4 DEF PushJob, Goto, LocalsTyped, ReferencesOK, PlansOK
    <3> QED
      BY <2>2, <3>1, <3>2
  <2> QED
    BY <1>12, <2>3, <2>4 DEF PushJob
<1>13. ASSUME NEW w \in Workers, Dequeue(w) PROVE TypeInv'
  <2>1. DatabaseTyped' /\ RedisTyped' /\ GhostsTyped'
    BY <1>13
    DEF Dequeue, Goto, DatabaseTyped, RedisTyped, GhostsTyped, ReferencesOK
  <2>2. LocalsTyped'
    BY <1>13
    DEF Dequeue, Goto, LocalsTyped, ReferencesOK, RedisTyped, DatabaseTyped
  <2>3. ReferencesOK' /\ PlansOK'
    BY <1>13
    DEF Dequeue, Goto, ReferencesOK, PlansOK, LocalsTyped, RedisTyped, DatabaseTyped
  <2> QED
    BY <2>1, <2>2, <2>3
<1>14. ASSUME NEW w \in Workers, Requeue(w) PROVE TypeInv'
  <2>1. queue' \in Seq(Executions) /\ \A i \in 1..Len(queue') : execution[queue'[i]].status # "none"
    BY <1>14 DEF Requeue, RedisTyped, ReferencesOK
  <2>2. DatabaseTyped' /\ RedisTyped' /\ GhostsTyped'
    BY <1>14, <2>1 DEF Requeue, DatabaseTyped, RedisTyped, GhostsTyped
  <2>3. Leave(w)
    BY <1>14 DEF Requeue
  <2> QED
    BY <1>14, <2>1, <2>2, <2>3, LeaveEffect DEF Requeue, ReferencesOK, PlansOK
<1>15. ASSUME NEW w \in Workers, AcquireLock(w) PROVE TypeInv'
  <2>1. DatabaseTyped' /\ RedisTyped' /\ GhostsTyped'
    BY <1>15 DEF AcquireLock, DatabaseTyped, RedisTyped, GhostsTyped
  <2>2. CASE Leave(w)
    BY <1>15, <2>1, <2>2, LeaveEffect DEF AcquireLock, ReferencesOK, PlansOK
  <2>3. CASE Goto(w, "read") /\ UNCHANGED <<job, subject, plan, child, asked, victims>>
    BY <1>15, <2>1, <2>3 DEF AcquireLock, Goto, LocalsTyped, ReferencesOK, PlansOK
  <2> QED
    BY <1>15, <2>2, <2>3 DEF AcquireLock
<1>16. ASSUME NEW w \in Workers, ReadExecution(w) PROVE TypeInv'
  <2>1. DatabaseTyped' /\ RedisTyped' /\ GhostsTyped'
    BY <1>16 DEF ReadExecution, DatabaseTyped, RedisTyped, GhostsTyped
  <2>2. CASE Goto(w, "release") /\ UNCHANGED plan
    BY <1>16, <2>1, <2>2 DEF ReadExecution, Goto, LocalsTyped, ReferencesOK, PlansOK
  <2>3. ASSUME NEW p \in PlansFor(job[w]),
               plan' = [plan EXCEPT ![w] = p],
               Goto(w, IF p.caught THEN "send" ELSE "mark")
        PROVE  TypeInv'
    <3>1. job[w] \in Executions
      BY <1>16 DEF ReadExecution, ReferencesOK
    <3>2. p \in PlanType /\ p.mark \notin {"none", "QUEUED"}
      BY <3>1, PlansForType
    <3>3. LocalsTyped'
      BY <1>16, <2>3, <3>2 DEF ReadExecution, Goto, LocalsTyped
    <3>4. ReferencesOK' /\ PlansOK'
      BY <1>16, <2>3, <3>2 DEF ReadExecution, Goto, LocalsTyped, ReferencesOK, PlansOK
    <3> QED
      BY <2>1, <3>3, <3>4
  <2> QED
    BY <1>16, <2>2, <2>3 DEF ReadExecution
<1>17. ASSUME NEW w \in Workers, SendMessage(w) PROVE TypeInv'
  <2>1. DatabaseTyped' /\ RedisTyped' /\ GhostsTyped'
    BY <1>17, FailurePlanTyped
    DEF SendMessage, Goto, DatabaseTyped, RedisTyped, GhostsTyped, ReferencesOK
  <2>2. LocalsTyped'
    BY <1>17, FailurePlanTyped
    DEF SendMessage, Goto, LocalsTyped
  <2>3. ReferencesOK' /\ PlansOK'
    BY <1>17, FailurePlanTyped
    DEF SendMessage, Goto, ReferencesOK, PlansOK, LocalsTyped, RedisTyped, DatabaseTyped
  <2> QED
    BY <2>1, <2>2, <2>3
<1>18. ASSUME NEW w \in Workers, MarkExecution(w) PROVE TypeInv'
  <2>1. job[w] \in Executions /\ subject[w] \in Enrollments
        /\ plan[w].mark \in ExecutionStatus \ {"none", "QUEUED"}
    BY <1>18 DEF MarkExecution, ReferencesOK, PlansOK, LocalsTyped, PlanType
  <2>2. /\ execution' \in [Executions -> [status : ExecutionStatus,
                                          enrollment : Enrollments \cup {Nobody},
                                          node : Nodes \cup {Nobody}]]
        /\ \A x \in Executions :
              /\ execution[x].status # "none" => execution'[x].status # "none"
              /\ execution'[x].enrollment = execution[x].enrollment
              /\ execution'[x].status # "none" => execution[x].status # "none"
    BY <1>18, <2>1 DEF MarkExecution, DatabaseTyped, ReferencesOK
  <2>3. DatabaseTyped' /\ RedisTyped' /\ GhostsTyped'
    BY <1>18, <2>1, <2>2 DEF MarkExecution, DatabaseTyped, RedisTyped, GhostsTyped
  <2>4. LocalsTyped'
    BY <1>18 DEF MarkExecution, Goto, LocalsTyped
  <2>5. ReferencesOK' /\ PlansOK'
    BY <1>18, <2>2 DEF MarkExecution, Goto, LocalsTyped, RedisTyped, ReferencesOK, PlansOK
  <2> QED
    BY <2>3, <2>4, <2>5
<1>19. ASSUME NEW w \in Workers, UpdateEnrollment(w) PROVE TypeInv'
  <2>1. /\ subject[w] \in Enrollments
        /\ execution[job[w]].node \in Nodes \cup {Nobody}
        /\ plan[w].next \in Nodes \cup {Nobody}
        /\ plan[w].outcome \in {"ADVANCE", "COMPLETED", "FAILED"}
    BY <1>19 DEF UpdateEnrollment, ReferencesOK, PlansOK, DatabaseTyped, LocalsTyped, PlanType
  <2>2. enrollment' \in [Enrollments -> [status : EnrollmentStatus,
                                         conversation : Conversations \cup {Nobody},
                                         node : Nodes \cup {Nobody}]]
    <3>1. CASE plan[w].outcome = "ADVANCE"
      BY <1>19, <2>1, <3>1 DEF UpdateEnrollment, DatabaseTyped
    <3>2. CASE plan[w].outcome # "ADVANCE"
      BY <1>19, <2>1, <3>2 DEF UpdateEnrollment, DatabaseTyped
    <3> QED
      BY <3>1, <3>2
  <2>3. DatabaseTyped' /\ RedisTyped' /\ GhostsTyped'
    BY <1>19, <2>2 DEF UpdateEnrollment, DatabaseTyped, RedisTyped, GhostsTyped
  <2>4. LocalsTyped'
    BY <1>19 DEF UpdateEnrollment, Goto, LocalsTyped
  <2>5. ReferencesOK' /\ PlansOK'
    BY <1>19 DEF UpdateEnrollment, Goto, LocalsTyped, ReferencesOK, PlansOK
  <2> QED
    BY <2>3, <2>4, <2>5
<1>20. ASSUME NEW w \in Workers, RunRules(w) PROVE TypeInv'
  <2>1. DatabaseTyped' /\ RedisTyped' /\ GhostsTyped'
    BY <1>20
    DEF RunRules, Goto, DatabaseTyped, RedisTyped, GhostsTyped
  <2>2. LocalsTyped'
    BY <1>20
    DEF RunRules, Goto, LocalsTyped
  <2>3. ReferencesOK' /\ PlansOK'
    BY <1>20
    DEF RunRules, Goto, ReferencesOK, PlansOK, LocalsTyped, RedisTyped, DatabaseTyped
  <2> QED
    BY <2>1, <2>2, <2>3
<1>21. ASSUME NEW w \in Workers, Release(w) PROVE TypeInv'
  <2>1. DatabaseTyped' /\ RedisTyped' /\ GhostsTyped'
    BY <1>21, LeaveEffect
    DEF Release, DatabaseTyped, RedisTyped, GhostsTyped
  <2>2. LocalsTyped'
    BY <1>21, LeaveEffect
    DEF Release, LocalsTyped
  <2>3. ReferencesOK' /\ PlansOK'
    BY <1>21, LeaveEffect
    DEF Release, ReferencesOK, PlansOK
  <2> QED
    BY <2>1, <2>2, <2>3
<1>22. ASSUME NEW w \in Workers, WorkerThrows(w) PROVE TypeInv'
  <2>1. subject[w] \in Enrollments /\ job[w] \in Executions
    BY <1>22 DEF WorkerThrows, Fallible, NeedsRow, ReferencesOK
  <2>2. Unwind(w)
    BY <1>22 DEF WorkerThrows
  <2>3. DatabaseTyped' /\ RedisTyped' /\ GhostsTyped'
    BY <1>22, <2>1, <2>2, UnwindEffect DEF WorkerThrows, DatabaseTyped, RedisTyped, GhostsTyped
  <2>4. ReferencesOK' /\ PlansOK'
    BY <1>22, <2>1, <2>2, UnwindEffect, FailurePlanTyped
    DEF WorkerThrows, Fallible, NeedsRow, ReferencesOK, PlansOK
  <2> QED
    BY <2>2, <2>3, <2>4, UnwindEffect
<1>23. ASSUME NEW w \in Workers, PushReplyLost(w) PROVE TypeInv'
  <2>1. /\ subject[w] \in Enrollments /\ job[w] \in Executions
        /\ child[w] \in Executions /\ execution[child[w]].status # "none"
    BY <1>23 DEF PushReplyLost, ReferencesOK
  <2>2. Unwind(w)
    BY <1>23 DEF PushReplyLost
  <2>3. queue' \in Seq(Executions) /\ \A i \in 1..Len(queue') : execution[queue'[i]].status # "none"
    BY <1>23, <2>1 DEF PushReplyLost, RedisTyped, ReferencesOK
  <2>4. DatabaseTyped' /\ RedisTyped' /\ GhostsTyped'
    BY <1>23, <2>1, <2>2, <2>3, UnwindEffect
    DEF PushReplyLost, DatabaseTyped, RedisTyped, GhostsTyped
  <2>5. ReferencesOK' /\ PlansOK'
    BY <1>23, <2>1, <2>2, <2>3, UnwindEffect, FailurePlanTyped
    DEF PushReplyLost, ReferencesOK, PlansOK
  <2> QED
    BY <2>2, <2>4, <2>5, UnwindEffect
<1>24. ASSUME NEW w \in Workers, WorkerCrashes(w) PROVE TypeInv'
  <2>1. DatabaseTyped' /\ RedisTyped' /\ GhostsTyped'
    BY <1>24, LeaveEffect
    DEF WorkerCrashes, DatabaseTyped, RedisTyped, GhostsTyped, ReferencesOK, LocalsTyped
  <2>2. LocalsTyped'
    BY <1>24, LeaveEffect
    DEF WorkerCrashes, LocalsTyped
  <2>3. ReferencesOK' /\ PlansOK'
    BY <1>24, LeaveEffect
    DEF WorkerCrashes, ReferencesOK, PlansOK
  <2> QED
    BY <2>1, <2>2, <2>3
<1>25. ASSUME NEW r \in Requests, RequestDies(r) PROVE TypeInv'
  <2>1. DatabaseTyped' /\ RedisTyped' /\ GhostsTyped'
    BY <1>25, LeaveEffect
    DEF RequestDies, DatabaseTyped, RedisTyped, GhostsTyped, ReferencesOK, LocalsTyped
  <2>2. LocalsTyped'
    BY <1>25, LeaveEffect
    DEF RequestDies, LocalsTyped
  <2>3. ReferencesOK' /\ PlansOK'
    BY <1>25, LeaveEffect
    DEF RequestDies, ReferencesOK, PlansOK
  <2> QED
    BY <2>1, <2>2, <2>3
<1>26. ASSUME NEW x \in Executions, TimePasses(x) PROVE TypeInv'
  <2>1. DatabaseTyped' /\ RedisTyped' /\ GhostsTyped'
    BY <1>26
    DEF TimePasses, DatabaseTyped, RedisTyped, GhostsTyped
  <2>2. LocalsTyped'
    BY <1>26
    DEF TimePasses, LocalsTyped
  <2>3. ReferencesOK' /\ PlansOK'
    BY <1>26
    DEF TimePasses, ReferencesOK, PlansOK, LocalsTyped, RedisTyped, DatabaseTyped
  <2> QED
    BY <2>1, <2>2, <2>3
<1>27. ASSUME NEW x \in Executions, LockExpires(x) PROVE TypeInv'
  <2>1. DatabaseTyped' /\ RedisTyped' /\ GhostsTyped'
    BY <1>27
    DEF LockExpires, DatabaseTyped, RedisTyped, GhostsTyped
  <2>2. LocalsTyped'
    BY <1>27
    DEF LockExpires, LocalsTyped
  <2>3. ReferencesOK' /\ PlansOK'
    BY <1>27
    DEF LockExpires, ReferencesOK, PlansOK, LocalsTyped, RedisTyped, DatabaseTyped
  <2> QED
    BY <2>1, <2>2, <2>3
<1>28. ASSUME UNCHANGED vars PROVE TypeInv'
  BY <1>28 DEF vars, DatabaseTyped, RedisTyped, LocalsTyped, GhostsTyped, ReferencesOK, PlansOK
<1> QED
  BY <1>1, <1>2, <1>3, <1>4, <1>5, <1>6, <1>7, <1>8, <1>9, <1>10, <1>11, <1>12, <1>13, <1>14, <1>15, <1>16, <1>17, <1>18, <1>19, <1>20, <1>21, <1>22, <1>23, <1>24, <1>25, <1>26, <1>27, <1>28
  DEF Next, Arrival, RequestStep, WorkerStep

\* Every variable has its type in every reachable state.
THEOREM TypeCorrect == ASSUME CampaignAssumption PROVE Spec => []TypeOK
<1>1. Init => TypeInv
  BY InitTypeInv
<1>2. TypeInv /\ [Next]_vars => TypeInv'
  BY NextTypeInv
<1>3. TypeInv => TypeOK
  BY DEF TypeInv
<1> QED
  BY <1>1, <1>2, <1>3, PTL DEF Spec

-----------------------------------------------------------------------------
(* One send per execution *)

InQueue(x) == \E i \in 1..Len(queue) : queue[i] = x

Holds(w) == pc[w] # "idle"

Pushes(a) == pc[a] = "push"

\* The job of an execution is in one place: once on the list, with one worker,
\* or with the one process that is about to push it.
OnePlace ==
    /\ \A i, j \in 1..Len(queue) : queue[i] = queue[j] => i = j
    /\ \A v, w \in Workers : Holds(v) /\ Holds(w) /\ job[v] = job[w] => v = w
    /\ \A a, b \in Actors : Pushes(a) /\ Pushes(b) /\ child[a] = child[b] => a = b
    /\ \A w \in Workers : Holds(w) => ~InQueue(job[w])
    /\ \A a \in Actors : Pushes(a) => ~InQueue(child[a])
    /\ \A w \in Workers, a \in Actors : Holds(w) /\ Pushes(a) => job[w] # child[a]

\* Once its message was sent, its job is nowhere it could be taken from, and
\* whoever holds it is past the send.
SentOnce ==
    \A x \in Executions :
        sends[x] # 0 =>
            /\ sends[x] = 1
            /\ execution[x].status # "none"
            /\ ~InQueue(x)
            /\ \A a \in Actors : Pushes(a) => child[a] # x
            /\ \A w \in Workers : job[w] = x => pc[w] \notin {"got", "read", "send"}

TokenInv == OnePlace /\ SentOnce

\* Most steps only move a process on with the job or the child it has.
LEMMA QuietStep ==
    ASSUME TokenInv, UNCHANGED <<queue, sends>>,
           \A x \in Executions :
               execution[x].status # "none" => execution'[x].status # "none",
           \A a \in Actors : pc'[a] = "push" => pc[a] = "push" /\ child'[a] = child[a],
           \A w \in Workers : pc'[w] # "idle" =>
               /\ pc[w] # "idle" /\ job'[w] = job[w]
               /\ pc'[w] \in {"got", "read", "send"} => pc[w] \in {"got", "read", "send"}
    PROVE  TokenInv'
<1>1. OnePlace'
  BY DEF TokenInv, OnePlace, InQueue, Holds, Pushes
<1>2. SentOnce'
  BY DEF TokenInv, SentOnce, InQueue, Pushes
<1> QED
  BY <1>1, <1>2 DEF TokenInv

Distinct(q) == \A i, j \in 1..Len(q) : q[i] = q[j] => i = j

\* Appending a job that isn't on the list keeps the list free of duplicates.
LEMMA AppendOnce ==
    ASSUME queue \in Seq(Executions), NEW x \in Executions, ~InQueue(x), Distinct(queue),
           queue' = Append(queue, x)
    PROVE  Distinct(queue') /\ \A y : InQueue(y)' => InQueue(y) \/ y = x
BY DEF InQueue, Distinct

\* The job taken from the head is not on the list any more.
LEMMA TakeHead ==
    ASSUME queue \in Seq(Executions), queue # <<>>, Distinct(queue), queue' = Tail(queue),
           NEW h, h = Head(queue)
    PROVE  /\ Distinct(queue')
           /\ h \in Executions /\ InQueue(h) /\ ~InQueue(h)'
           /\ \A y : InQueue(y)' => InQueue(y)
<1>1. /\ Len(queue) \in Nat /\ Len(queue') = Len(queue) - 1
      /\ \A i \in 1..Len(queue') : i + 1 \in 1..Len(queue) /\ queue'[i] = queue[i + 1]
  OBVIOUS
<1>2. 1 \in 1..Len(queue) /\ h = queue[1] /\ h \in Executions
  OBVIOUS
<1>3. Distinct(queue')
  <2> SUFFICES ASSUME NEW i \in 1..Len(queue'), NEW j \in 1..Len(queue'),
                      queue'[i] = queue'[j]
               PROVE  i = j
    BY DEF Distinct
  <2>1. queue[i + 1] = queue[j + 1]
    BY <1>1
  <2> QED
    BY <1>1, <2>1 DEF Distinct
<1>4. \A i \in 1..Len(queue') : queue'[i] # h
  <2> SUFFICES ASSUME NEW i \in 1..Len(queue'), queue'[i] = h PROVE FALSE
    OBVIOUS
  <2>1. queue[i + 1] = queue[1]
    BY <1>1, <1>2
  <2> QED
    BY <1>1, <1>2, <2>1 DEF Distinct
<1> QED
  BY <1>1, <1>2, <1>3, <1>4 DEF InQueue

LEMMA NextTokenInv ==
    ASSUME CampaignAssumption, TypeInv, TokenInv, [Next]_vars PROVE TokenInv'
<1> USE DEF Actors, db, redis, locals, ghosts
<1>0. /\ queue \in Seq(Executions) /\ Distinct(queue)
      /\ LocalsTyped /\ ReferencesOK /\ sends \in [Executions -> Nat]
  BY DEF TypeInv, TypeOK, RedisTyped, GhostsTyped, TokenInv, OnePlace, Distinct
<1>1. ASSUME NEW r \in Requests, Arrival(r) PROVE TokenInv'
  BY <1>0, <1>1, QuietStep
  DEF Arrival, BeginPauseOrResume, UpdateFlow, DeleteFlow, BeginStopFlow,
      BeginStopEnrollment, BeginEnroll, Arrives, Goto, LocalsTyped, CampaignAssumption
<1>2. ASSUME NEW r \in Requests,
             WritePauseOrResume(r) \/ CheckExisting(r) \/ RequestDies(r)
      PROVE  TokenInv'
  BY <1>0, <1>2, QuietStep, LeaveEffect
  DEF WritePauseOrResume, CheckExisting, RequestDies, Goto, LocalsTyped, CampaignAssumption
<1>3. ASSUME NEW r \in Requests, CommitStop(r) PROVE TokenInv'
  <2>1. \A x \in Executions : execution[x].status # "none" => execution'[x].status # "none"
    BY <1>3, StopRowsEffect DEF CommitStop, TypeInv, TypeOK
  <2> QED
    BY <1>0, <1>3, <2>1, QuietStep, LeaveEffect DEF CommitStop
<1>4. ASSUME NEW r \in Requests, CreateEnrollment(r) PROVE TokenInv'
  BY <1>0, <1>4, QuietStep DEF CreateEnrollment, Goto, LocalsTyped, CampaignAssumption
<1>5. ASSUME NEW a \in Actors, CreateExecution(a) PROVE TokenInv'
  <2>1. PICK x \in Fresh(execution) :
            /\ execution' = [execution EXCEPT ![x] =
                   [status |-> "QUEUED", enrollment |-> subject[a], node |-> plan[a].next]]
            /\ child' = [child EXCEPT ![a] = x]
    BY <1>5 DEF CreateExecution
  <2>2. x \in Executions /\ execution[x].status = "none"
    BY FreshIsUnused DEF TypeInv, TypeOK, DatabaseTyped
  <2>3. /\ ~InQueue(x) /\ sends[x] = 0
        /\ \A w \in Workers : Holds(w) => job[w] # x
        /\ \A b \in Actors : Pushes(b) => child[b] # x
    BY <1>0, <2>2 DEF ReferencesOK, InQueue, Holds, Pushes, TokenInv, SentOnce
  <2>4. /\ pc' = [pc EXCEPT ![a] = "push"] /\ pc[a] = "create"
        /\ UNCHANGED <<queue, sends, job>>
    BY <1>5 DEF CreateExecution, Goto
  <2>5. /\ \A b \in Actors : Pushes(b)' <=> b = a \/ Pushes(b)
        /\ \A b \in Actors : child'[b] = IF b = a THEN x ELSE child[b]
        /\ \A w \in Workers : Holds(w)' <=> Holds(w)
        /\ \A y : InQueue(y)' <=> InQueue(y)
    BY <1>0, <2>1, <2>4 DEF LocalsTyped, Pushes, Holds, InQueue
  <2>6. OnePlace'
    BY <2>3, <2>4, <2>5 DEF TokenInv, OnePlace, Pushes
  <2>7. SentOnce'
    BY <1>0, <2>1, <2>2, <2>3, <2>4, <2>5
    DEF TokenInv, SentOnce, LocalsTyped, TypeInv, TypeOK, DatabaseTyped
  <2> QED
    BY <2>6, <2>7 DEF TokenInv
<1>6. ASSUME NEW a \in Actors, NEW x \in Executions,
             ~InQueue(x), queue' = Append(queue, x),
             \A w \in Workers : Holds(w)' => Holds(w) /\ job'[w] = job[w] /\ job[w] # x,
             \A b \in Actors : Pushes(b)' => Pushes(b) /\ child'[b] = child[b] /\ child[b] # x,
             \A w \in Workers : pc'[w] \in {"got", "read", "send"} => pc'[w] = pc[w],
             sends[x] = 0, UNCHANGED <<sends, execution>>
      PROVE  TokenInv'
  <2>1. Distinct(queue') /\ \A y : InQueue(y)' => InQueue(y) \/ y = x
    BY <1>0, <1>6, AppendOnce
  <2>2. OnePlace'
    BY <1>6, <2>1 DEF TokenInv, OnePlace, Distinct
  <2>3. SentOnce'
    BY <1>6, <2>1 DEF TokenInv, SentOnce, Pushes, Holds
  <2> QED
    BY <2>2, <2>3 DEF TokenInv
<1>7. ASSUME NEW a \in Actors, PushJob(a) PROVE TokenInv'
  <2>1. child[a] \in Executions /\ Pushes(a) /\ ~InQueue(child[a]) /\ sends[child[a]] = 0
    BY <1>0, <1>7 DEF PushJob, ReferencesOK, Pushes, TokenInv, OnePlace, SentOnce
  <2>2. /\ \A w \in Workers : Holds(w)' => Holds(w) /\ job'[w] = job[w]
        /\ \A b \in Actors : Pushes(b)' => Pushes(b) /\ child'[b] = child[b] /\ b # a
        /\ \A w \in Workers : pc'[w] \in {"got", "read", "send"} => pc'[w] = pc[w]
    BY <1>0, <1>7, LeaveEffect DEF PushJob, Goto, Holds, Pushes, LocalsTyped
  <2> QED
    BY <1>6, <1>7, <2>1, <2>2 DEF PushJob, TokenInv, OnePlace
<1>8. ASSUME NEW w \in Workers, Requeue(w) PROVE TokenInv'
  <2>1. job[w] \in Executions /\ Holds(w) /\ ~InQueue(job[w]) /\ sends[job[w]] = 0
    BY <1>0, <1>8 DEF Requeue, ReferencesOK, Holds, TokenInv, OnePlace, SentOnce
  <2>2. /\ \A v \in Workers : Holds(v)' => Holds(v) /\ job'[v] = job[v] /\ v # w
        /\ \A b \in Actors : Pushes(b)' => Pushes(b) /\ child'[b] = child[b]
        /\ \A v \in Workers : pc'[v] \in {"got", "read", "send"} => pc'[v] = pc[v]
    BY <1>0, <1>8, LeaveEffect DEF Requeue, Holds, Pushes
  <2> QED
    BY <1>6, <1>8, <2>1, <2>2 DEF Requeue, TokenInv, OnePlace
<1>9. ASSUME NEW w \in Workers, PushReplyLost(w) PROVE TokenInv'
  <2>1. child[w] \in Executions /\ Pushes(w) /\ ~InQueue(child[w]) /\ sends[child[w]] = 0
    BY <1>0, <1>9 DEF PushReplyLost, ReferencesOK, Pushes, TokenInv, OnePlace, SentOnce
  <2>2. /\ \A v \in Workers : Holds(v)' => Holds(v) /\ job'[v] = job[v]
        /\ \A b \in Actors : Pushes(b)' => Pushes(b) /\ child'[b] = child[b] /\ b # w
        /\ \A v \in Workers : pc'[v] \in {"got", "read", "send"} => pc'[v] = pc[v]
    BY <1>0, <1>9, UnwindEffect DEF PushReplyLost, Holds, Pushes
  <2> QED
    BY <1>6, <1>9, <2>1, <2>2 DEF PushReplyLost, TokenInv, OnePlace
<1>10. ASSUME NEW w \in Workers, Dequeue(w) PROVE TokenInv'
  <2>1. PICK h : h = Head(queue)
    OBVIOUS
  <2>2. /\ h \in Executions /\ InQueue(h) /\ ~InQueue(h)' /\ Distinct(queue')
        /\ \A y : InQueue(y)' => InQueue(y)
    BY <1>0, <1>10, <2>1, TakeHead DEF Dequeue
  <2>3. /\ \A v \in Workers : Holds(v)' <=> v = w \/ Holds(v)
        /\ \A v \in Workers : job'[v] = IF v = w THEN h ELSE job[v]
        /\ \A v \in Workers \ {w} : pc'[v] = pc[v]
        /\ \A b \in Actors : Pushes(b)' <=> Pushes(b)
        /\ UNCHANGED <<child, sends, execution>>
    BY <1>0, <1>10, <2>1 DEF Dequeue, Goto, Holds, Pushes, LocalsTyped
  <2>4. OnePlace'
    <3>1. \A v \in Workers : Holds(v) => job[v] # h
      BY <2>2 DEF TokenInv, OnePlace
    <3>2. \A b \in Actors : Pushes(b) => child[b] # h
      BY <2>2 DEF TokenInv, OnePlace
    <3>3. \A v \in Workers : (Holds(v) => ~InQueue(job[v]))'
      <4> SUFFICES ASSUME NEW v \in Workers, Holds(v)' PROVE ~InQueue(job[v])'
        OBVIOUS
      <4>1. PICK y : y = job'[v]
        OBVIOUS
      <4>2. ~InQueue(y)'
        BY <2>2, <2>3, <4>1 DEF TokenInv, OnePlace
      <4> QED
        BY <4>1, <4>2 DEF InQueue
    <3> QED
      BY <2>2, <2>3, <3>1, <3>2, <3>3 DEF TokenInv, OnePlace, Distinct
  <2>5. SentOnce'
    BY <2>2, <2>3 DEF TokenInv, SentOnce
  <2> QED
    BY <2>4, <2>5 DEF TokenInv
<1>11. ASSUME NEW w \in Workers, SendMessage(w) PROVE TokenInv'
  <2>1. job[w] \in Executions /\ Holds(w) /\ sends[job[w]] = 0
        /\ execution[job[w]].status # "none"
    BY <1>0, <1>11 DEF SendMessage, ReferencesOK, Holds, TokenInv, SentOnce
  <2>2. /\ sends' = [sends EXCEPT ![job[w]] = 1]
        /\ pc' = [pc EXCEPT ![w] = "mark"] /\ pc[w] = "send"
        /\ UNCHANGED <<queue, execution, job, child>>
    BY <1>0, <1>11, <2>1 DEF SendMessage, Goto
  <2>3. /\ \A v \in Workers : Holds(v)' <=> Holds(v)
        /\ \A b \in Actors : Pushes(b)' <=> Pushes(b)
        /\ \A v \in Workers : pc'[v] = IF v = w THEN "mark" ELSE pc[v]
        /\ \A y : InQueue(y)' <=> InQueue(y)
    BY <1>0, <2>2 DEF Holds, Pushes, LocalsTyped, InQueue
  <2>4. OnePlace'
    BY <2>2, <2>3 DEF TokenInv, OnePlace
  <2>5. SentOnce'
    BY <1>0, <2>1, <2>2, <2>3 DEF TokenInv, SentOnce, OnePlace, Holds
  <2> QED
    BY <2>4, <2>5 DEF TokenInv
<1>12. ASSUME NEW w \in Workers,
              \/ ReadExecution(w) \/ UpdateEnrollment(w) \/ RunRules(w)
       PROVE  TokenInv'
  BY <1>0, <1>12, QuietStep
  DEF ReadExecution, UpdateEnrollment, RunRules, Goto, LocalsTyped
<1>13. ASSUME NEW w \in Workers, MarkExecution(w) PROVE TokenInv'
  <2>1. \A x \in Executions : execution[x].status # "none" => execution'[x].status # "none"
    BY <1>13 DEF MarkExecution, TypeInv, TypeOK, DatabaseTyped, PlansOK
  <2> QED
    BY <1>0, <1>13, <2>1, QuietStep DEF MarkExecution, Goto, LocalsTyped
<1>14. ASSUME NEW w \in Workers, AcquireLock(w) PROVE TokenInv'
  <2>1. CASE Leave(w)
    BY <1>0, <1>14, <2>1, QuietStep, LeaveEffect DEF AcquireLock
  <2>2. CASE Goto(w, "read") /\ UNCHANGED <<job, child>>
    BY <1>0, <1>14, <2>2, QuietStep DEF AcquireLock, Goto, LocalsTyped
  <2> QED
    BY <1>14, <2>1, <2>2 DEF AcquireLock
<1>15. ASSUME NEW w \in Workers, Release(w) \/ WorkerCrashes(w) PROVE TokenInv'
  BY <1>0, <1>15, QuietStep, LeaveEffect DEF Release, WorkerCrashes
<1>16. ASSUME NEW w \in Workers, WorkerThrows(w) PROVE TokenInv'
  BY <1>0, <1>16, QuietStep, UnwindEffect DEF WorkerThrows, Fallible, NeedsRow
<1>17. ASSUME \/ \E x \in Executions : TimePasses(x) \/ LockExpires(x)
              \/ UNCHANGED vars
       PROVE  TokenInv'
  BY <1>17, QuietStep DEF TimePasses, LockExpires, vars
<1> QED
  BY <1>1, <1>2, <1>3, <1>4, <1>5, <1>7, <1>8, <1>9, <1>10, <1>11, <1>12, <1>13, <1>14,
     <1>15, <1>16, <1>17
  DEF Next, RequestStep, WorkerStep

\* No execution is ever sent twice, whatever the workers, the lock and the
\* faults do.
THEOREM OneSend == ASSUME CampaignAssumption PROVE Spec => []AtMostOneSend
<1>1. Init => TypeInv /\ TokenInv
  <2>1. Init => TokenInv
    BY DEF CampaignAssumption, Init, TokenInv, OnePlace, SentOnce, Holds, Pushes, InQueue, Actors
  <2> QED
    BY <2>1, InitTypeInv
<1>2. TypeInv /\ TokenInv /\ [Next]_vars => TypeInv' /\ TokenInv'
  BY NextTypeInv, NextTokenInv
<1>3. TypeInv /\ TokenInv => AtMostOneSend
  BY DEF TypeInv, TypeOK, GhostsTyped, TokenInv, SentOnce, AtMostOneSend
<1> QED
  BY <1>1, <1>2, <1>3, PTL DEF Spec

-----------------------------------------------------------------------------
(* Late sends *)

\* While the flow is ACTIVE nobody has a late send, nor has a worker that read
\* the flow as ACTIVE and is about to send.
LateInv ==
    \A w \in Workers :
        /\ lateSends[w] \in {0, 1}
        /\ flow = "ACTIVE" \/ pc[w] = "send" => lateSends[w] = 0

\* A step that neither starts the flow nor brings a worker to a send.
LEMMA NotLate ==
    ASSUME LateInv, lateSends' = lateSends,
           flow' = "ACTIVE" => flow = "ACTIVE",
           \A w \in Workers : pc'[w] = "send" => pc[w] = "send"
    PROVE  LateInv'
BY DEF LateInv

\* A step that sets the flow's status.
LEMMA FlowSet ==
    ASSUME LateInv, NEW s, SetFlow(s),
           \A w \in Workers : pc'[w] = "send" => pc[w] = "send"
    PROVE  LateInv'
BY DEF LateInv, SetFlow

LEMMA NextLateInv ==
    ASSUME CampaignAssumption, TypeInv, LateInv, [Next]_vars PROVE LateInv'
<1> USE DEF Actors, db, redis, locals, ghosts
<1>0. LocalsTyped /\ ReferencesOK /\ lateSends \in [Workers -> Nat]
  BY DEF TypeInv, TypeOK, GhostsTyped
<1>1. ASSUME NEW r \in Requests,
             \/ BeginPauseOrResume(r) \/ BeginStopFlow(r) \/ BeginStopEnrollment(r)
             \/ BeginEnroll(r) \/ CreateEnrollment(r)
      PROVE  LateInv'
  BY <1>0, <1>1, NotLate
  DEF BeginPauseOrResume, BeginStopFlow, BeginStopEnrollment, BeginEnroll,
      CreateEnrollment, Goto, LocalsTyped, CampaignAssumption
<1>2. ASSUME NEW r \in Requests, UpdateFlow(r) \/ DeleteFlow(r) PROVE LateInv'
  BY <1>2, FlowSet DEF UpdateFlow, DeleteFlow
<1>3. ASSUME NEW r \in Requests, WritePauseOrResume(r) PROVE LateInv'
  <2>1. \A w \in Workers : pc'[w] = "send" => pc[w] = "send"
    BY <1>0, <1>3, LeaveEffect DEF WritePauseOrResume
  <2> QED
    BY <1>3, <2>1, NotLate, FlowSet DEF WritePauseOrResume
<1>4. ASSUME NEW r \in Requests, CommitStop(r) \/ CheckExisting(r) \/ RequestDies(r)
      PROVE  LateInv'
  <2>1. \A w \in Workers : pc'[w] = "send" => pc[w] = "send"
    BY <1>0, <1>4, LeaveEffect DEF CommitStop, CheckExisting, RequestDies, Goto, LocalsTyped
  <2> QED
    BY <1>4, <2>1, NotLate DEF CommitStop, CheckExisting, RequestDies
<1>5. ASSUME NEW a \in Actors, CreateExecution(a) \/ PushJob(a) PROVE LateInv'
  BY <1>0, <1>5, NotLate, LeaveEffect DEF CreateExecution, PushJob, Goto, LocalsTyped
<1>6. ASSUME NEW w \in Workers,
             \/ Dequeue(w) \/ MarkExecution(w) \/ UpdateEnrollment(w) \/ RunRules(w)
      PROVE  LateInv'
  BY <1>0, <1>6, NotLate
  DEF Dequeue, MarkExecution, UpdateEnrollment, RunRules, Goto, LocalsTyped
<1>7. ASSUME NEW w \in Workers,
             Requeue(w) \/ AcquireLock(w) \/ Release(w) \/ WorkerCrashes(w)
      PROVE  LateInv'
  <2>1. \A v \in Workers : pc'[v] = "send" => pc[v] = "send"
    BY <1>0, <1>7, LeaveEffect
    DEF Requeue, AcquireLock, Release, WorkerCrashes, Goto, LocalsTyped
  <2> QED
    BY <1>7, <2>1, NotLate DEF Requeue, AcquireLock, Release, WorkerCrashes
<1>8. ASSUME NEW w \in Workers, ReadExecution(w) PROVE LateInv'
  <2>1. job[w] \in Executions
    BY <1>0, <1>8 DEF ReadExecution, ReferencesOK
  <2>2. pc'[w] = "send" => flow = "ACTIVE"
    BY <1>0, <1>8, <2>1, PlansForType DEF ReadExecution, Goto, LocalsTyped, TypeInv
  <2>3. \A v \in Workers \ {w} : pc'[v] = pc[v]
    BY <1>0, <1>8 DEF ReadExecution, Goto, LocalsTyped
  <2> QED
    BY <1>8, <2>2, <2>3 DEF ReadExecution, LateInv
<1>9. ASSUME NEW w \in Workers, SendMessage(w) PROVE LateInv'
  <2>1. pc[w] = "send" /\ pc' = [pc EXCEPT ![w] = "mark"] /\ flow' = flow
    BY <1>9 DEF SendMessage, Goto
  <2>2. lateSends' = IF flow = "ACTIVE" THEN lateSends ELSE [lateSends EXCEPT ![w] = @ + 1]
    BY <1>9 DEF SendMessage
  <2> QED
    BY <1>0, <2>1, <2>2 DEF LateInv, LocalsTyped
<1>10. ASSUME NEW w \in Workers, WorkerThrows(w) \/ PushReplyLost(w) PROVE LateInv'
  <2>1. Unwind(w)
    BY <1>10 DEF WorkerThrows, PushReplyLost
  <2>2. \A v \in Workers : pc'[v] = "send" => pc[v] = "send"
    BY <1>0, <2>1, UnwindEffect
  <2> QED
    BY <1>10, <2>2, NotLate DEF WorkerThrows, PushReplyLost
<1>11. ASSUME \/ \E x \in Executions : TimePasses(x) \/ LockExpires(x)
              \/ UNCHANGED vars
       PROVE  LateInv'
  BY <1>11, NotLate DEF TimePasses, LockExpires, vars
<1> QED
  BY <1>1, <1>2, <1>3, <1>4, <1>5, <1>6, <1>7, <1>8, <1>9, <1>10, <1>11
  DEF Next, Arrival, RequestStep, WorkerStep

\* After a pause or a stop of the flow a worker sends at most the message it
\* had decided on before, for any number of workers and requests.
THEOREM FewLateSends == ASSUME CampaignAssumption PROVE Spec => []LateSendsBounded
<1>1. Init => TypeInv /\ LateInv
  <2>1. Init => LateInv
    BY DEF Init, LateInv
  <2> QED
    BY <2>1, InitTypeInv
<1>2. TypeInv /\ LateInv /\ [Next]_vars => TypeInv' /\ LateInv'
  BY NextTypeInv, NextLateInv
<1>3. LateInv => LateSendsBounded
  BY DEF LateInv, LateSendsBounded
<1> QED
  BY <1>1, <1>2, <1>3, PTL DEF Spec

-----------------------------------------------------------------------------
(* An enrollment that has ended *)

\* What a step may do to the enrollments, whoever takes it.
LEMMA NextEndedStaysEnded ==
    ASSUME CampaignAssumption, TypeInv, [Next]_vars,
           NEW e \in Enrollments, enrollment[e].status \notin {"none", "ACTIVE"}
    PROVE  enrollment'[e].status \notin {"none", "ACTIVE"}
<1>0. DatabaseTyped /\ LocalsTyped /\ PlansOK /\ ReferencesOK
  BY DEF TypeInv, TypeOK
<1>1. CASE enrollment' = enrollment
  BY <1>1
<1>2. ASSUME NEW r \in Requests, CommitStop(r)
      PROVE  enrollment'[e].status \notin {"none", "ACTIVE"}
  BY <1>0, <1>2 DEF CommitStop, StopRows, DatabaseTyped
<1>3. ASSUME NEW r \in Requests, CreateEnrollment(r)
      PROVE  enrollment'[e].status \notin {"none", "ACTIVE"}
  <2>1. PICK k \in Fresh(enrollment) :
            enrollment' = [enrollment EXCEPT ![k] =
                [status |-> "ACTIVE", conversation |-> asked[r], node |-> plan[r].next]]
    BY <1>3 DEF CreateEnrollment
  <2>2. k # e
    BY FreshIsUnused
  <2> QED
    BY <1>0, <2>1, <2>2 DEF DatabaseTyped
<1>4. ASSUME NEW w \in Workers, UpdateEnrollment(w)
      PROVE  enrollment'[e].status \notin {"none", "ACTIVE"}
  <2>1. w \in Actors /\ plan[w] \in PlanType /\ plan[w].outcome # "KEEP"
    BY <1>0, <1>4 DEF UpdateEnrollment, LocalsTyped, PlansOK, Actors
  <2>2. CASE plan[w].outcome = "ADVANCE"
    BY <1>0, <1>4, <2>2 DEF UpdateEnrollment, DatabaseTyped
  <2>3. CASE plan[w].outcome \in {"COMPLETED", "FAILED"}
    BY <1>0, <1>4, <2>3 DEF UpdateEnrollment, DatabaseTyped
  <2> QED
    BY <2>1, <2>2, <2>3 DEF PlanType
<1>5. \/ enrollment' = enrollment
      \/ \E r \in Requests : CommitStop(r) \/ CreateEnrollment(r)
      \/ \E w \in Workers : UpdateEnrollment(w)
  BY DEF Next, Arrival, RequestStep, WorkerStep, vars, db, redis, locals, ghosts,
         BeginPauseOrResume, UpdateFlow, DeleteFlow, BeginStopFlow, BeginStopEnrollment,
         BeginEnroll, WritePauseOrResume, CheckExisting, CreateExecution, PushJob,
         RequestDies, Dequeue, Requeue, AcquireLock, ReadExecution, SendMessage,
         MarkExecution, RunRules, Release, WorkerThrows, PushReplyLost, WorkerCrashes,
         TimePasses, LockExpires
<1> QED
  BY <1>1, <1>2, <1>3, <1>4, <1>5

\* No stale write of a worker ever revives an enrollment that has ended.
THEOREM EndedForGood == ASSUME CampaignAssumption PROVE Spec => EndedStaysEnded
<1>1. Init => TypeInv
  BY InitTypeInv
<1>2. TypeInv /\ [Next]_vars => TypeInv'
  BY NextTypeInv
<1>3. TypeInv /\ [Next]_vars =>
          [\A e \in Enrollments :
              enrollment[e].status \notin {"none", "ACTIVE"} =>
                  enrollment'[e].status \notin {"none", "ACTIVE"}]_vars
  BY NextEndedStaysEnded
<1> QED
  BY <1>1, <1>2, <1>3, PTL DEF Spec, EndedStaysEnded

-----------------------------------------------------------------------------
(* How often a conversation is enrolled at once *)

\* The requests that have found no enrollment in c and will create one.
Pending(c) == {r \in Requests : pc[r] = "enroll" /\ asked[r] = c}

\* Each of them counts as the enrollment it will create.
DuplicatesInv ==
    \A c \in Conversations :
        /\ IsFiniteSet(ActiveIn(c))
        /\ Cardinality(ActiveIn(c)) + Cardinality(Pending(c)) <= Cardinality(Requests)

\* Only CheckExisting lets a request go on to create an enrollment.
LEMMA NoNewPending ==
    ASSUME CampaignAssumption, TypeInv, [Next]_vars,
           NEW r \in Requests, pc'[r] = "enroll"
    PROVE  \/ pc[r] = "enroll" /\ asked'[r] = asked[r]
           \/ CheckExisting(r)
<1>0. LocalsTyped /\ r \in Actors /\ \A w \in Workers : w # r
  BY DEF TypeInv, TypeOK, CampaignAssumption, Actors
<1>1. CASE UNCHANGED <<pc, asked>>
  BY <1>1
<1>2. ASSUME NEW s \in Requests, Arrival(s)
      PROVE  pc[r] = "enroll" /\ asked'[r] = asked[r]
  BY <1>0, <1>2 DEF Arrival, BeginPauseOrResume, UpdateFlow, DeleteFlow, BeginStopFlow,
         BeginStopEnrollment, BeginEnroll, Goto, LocalsTyped, locals
<1>3. ASSUME NEW s \in Requests, RequestStep(s) \/ RequestDies(s)
      PROVE  (pc[r] = "enroll" /\ asked'[r] = asked[r]) \/ CheckExisting(r)
  <2>1. CASE CheckExisting(s) /\ s # r
    BY <1>0, <2>1 DEF CheckExisting, Leave, Goto, LocalsTyped
  <2>2. CASE CreateEnrollment(s) \/ CreateExecution(s)
    BY <1>0, <2>2 DEF CreateEnrollment, CreateExecution, Goto, LocalsTyped
  <2>3. CASE WritePauseOrResume(s) \/ CommitStop(s) \/ PushJob(s) \/ RequestDies(s)
    BY <1>0, <2>3 DEF WritePauseOrResume, CommitStop, PushJob, RequestDies, Leave, Goto,
           LocalsTyped
  <2> QED
    BY <1>3, <2>1, <2>2, <2>3 DEF RequestStep
<1>4. ASSUME NEW w \in Workers,
             WorkerStep(w) \/ WorkerThrows(w) \/ PushReplyLost(w) \/ WorkerCrashes(w)
      PROVE  pc[r] = "enroll" /\ asked'[r] = asked[r]
  <2>1. CASE WorkerStep(w)
    BY <1>0, <2>1 DEF WorkerStep, Dequeue, Requeue, AcquireLock, ReadExecution, SendMessage,
           MarkExecution, UpdateEnrollment, RunRules, CreateExecution, PushJob, Release,
           Leave, Goto, LocalsTyped
  <2>2. CASE WorkerThrows(w) \/ PushReplyLost(w) \/ WorkerCrashes(w)
    BY <1>0, <2>2 DEF WorkerThrows, PushReplyLost, WorkerCrashes, Unwind, Leave, Goto,
           LocalsTyped
  <2> QED
    BY <1>4, <2>1, <2>2
<1>5. ASSUME NEW x \in Executions, TimePasses(x) \/ LockExpires(x)
      PROVE  UNCHANGED <<pc, asked>>
  BY <1>5 DEF TimePasses, LockExpires, locals
<1> QED
  BY <1>1, <1>2, <1>3, <1>4, <1>5 DEF Next, vars, locals

\* Only CreateEnrollment makes an enrollment ACTIVE, and none moves from one
\* conversation to another.
LEMMA NoNewActive ==
    ASSUME CampaignAssumption, TypeInv, [Next]_vars,
           NEW c, NEW e \in ActiveIn(c)', e \notin ActiveIn(c)
    PROVE  \E r \in Requests : CreateEnrollment(r)
<1>0. DatabaseTyped /\ LocalsTyped /\ PlansOK
  BY DEF TypeInv, TypeOK
<1>1. CASE enrollment' = enrollment
  BY <1>1 DEF ActiveIn, Active
<1>2. ASSUME NEW r \in Requests, CommitStop(r)
      PROVE  FALSE
  BY <1>0, <1>2 DEF CommitStop, StopRows, DatabaseTyped, ActiveIn, Active
<1>3. ASSUME NEW w \in Workers, UpdateEnrollment(w)
      PROVE  FALSE
  <2>1. plan[w].outcome \in {"ADVANCE", "COMPLETED", "FAILED"}
    BY <1>0, <1>3 DEF UpdateEnrollment, LocalsTyped, PlansOK, PlanType, Actors
  <2>2. CASE plan[w].outcome = "ADVANCE"
    BY <1>0, <1>3, <2>2 DEF UpdateEnrollment, DatabaseTyped, ActiveIn, Active
  <2>3. CASE plan[w].outcome \in {"COMPLETED", "FAILED"}
    BY <1>0, <1>3, <2>3 DEF UpdateEnrollment, DatabaseTyped, ActiveIn, Active
  <2> QED
    BY <2>1, <2>2, <2>3
<1>4. \/ enrollment' = enrollment
      \/ \E r \in Requests : CommitStop(r) \/ CreateEnrollment(r)
      \/ \E w \in Workers : UpdateEnrollment(w)
  BY DEF Next, Arrival, RequestStep, WorkerStep, vars, db, redis, locals, ghosts,
         BeginPauseOrResume, UpdateFlow, DeleteFlow, BeginStopFlow, BeginStopEnrollment,
         BeginEnroll, WritePauseOrResume, CheckExisting, CreateExecution, PushJob,
         RequestDies, Dequeue, Requeue, AcquireLock, ReadExecution, SendMessage,
         MarkExecution, RunRules, Release, WorkerThrows, PushReplyLost, WorkerCrashes,
         TimePasses, LockExpires
<1> QED
  BY <1>1, <1>2, <1>3, <1>4

\* Smaller sets of finite size: the two counts and their sum.
LEMMA SumShrinks ==
    ASSUME NEW A, NEW P, IsFiniteSet(A), IsFiniteSet(P),
           NEW A1 \in SUBSET A, NEW P1 \in SUBSET P
    PROVE  /\ IsFiniteSet(A1)
           /\ Cardinality(A1) + Cardinality(P1) <= Cardinality(A) + Cardinality(P)
<1>1. /\ IsFiniteSet(A1) /\ Cardinality(A1) <= Cardinality(A)
      /\ IsFiniteSet(P1) /\ Cardinality(P1) <= Cardinality(P)
  BY FS_Subset
<1>2. /\ Cardinality(A) \in Nat /\ Cardinality(P) \in Nat
      /\ Cardinality(A1) \in Nat /\ Cardinality(P1) \in Nat
  BY <1>1, FS_CardinalityType
<1> QED
  BY <1>1, <1>2

LEMMA NextDuplicatesInv ==
    ASSUME CampaignAssumption, IsFiniteSet(Requests), TypeInv, DuplicatesInv, [Next]_vars,
           NEW c \in Conversations
    PROVE  /\ IsFiniteSet(ActiveIn(c)')
           /\ Cardinality(ActiveIn(c)') + Cardinality(Pending(c)') <= Cardinality(Requests)
<1>0. LocalsTyped /\ DatabaseTyped /\ Requests \subseteq Actors
  BY DEF TypeInv, TypeOK, Actors
<1>1. /\ IsFiniteSet(ActiveIn(c)) /\ IsFiniteSet(Pending(c))
      /\ Cardinality(ActiveIn(c)) + Cardinality(Pending(c)) <= Cardinality(Requests)
      /\ Pending(c)' \in SUBSET Requests
      /\ Cardinality(Requests) \in Nat
  BY FS_Subset, FS_CardinalityType DEF DuplicatesInv, Pending
<1>2. /\ Cardinality(ActiveIn(c)) \in Nat /\ Cardinality(Pending(c)) \in Nat
  BY <1>1, FS_CardinalityType
\* A request creates its enrollment: it is no longer pending.
<1>3. ASSUME NEW r \in Requests, CreateEnrollment(r)
      PROVE  /\ IsFiniteSet(ActiveIn(c)')
             /\ Cardinality(ActiveIn(c)') + Cardinality(Pending(c)') <= Cardinality(Requests)
  <2>1. PICK k \in Fresh(enrollment) :
            enrollment' = [enrollment EXCEPT ![k] =
                [status |-> "ACTIVE", conversation |-> asked[r], node |-> plan[r].next]]
    BY <1>3 DEF CreateEnrollment
  <2>2. /\ pc[r] = "enroll" /\ pc' = [pc EXCEPT ![r] = "create"]
        /\ asked' = asked
    BY <1>3 DEF CreateEnrollment, Goto
  <2>3. Pending(c)' \subseteq Pending(c) \ {r}
    BY <1>0, <2>2 DEF Pending, LocalsTyped
  <2>4. CASE asked[r] = c
    <3>1. r \in Pending(c)
      BY <2>2, <2>4 DEF Pending
    <3>2. ActiveIn(c)' \subseteq ActiveIn(c) \cup {k}
      BY <1>0, <2>1 DEF ActiveIn, Active, DatabaseTyped
    <3>3. /\ IsFiniteSet(ActiveIn(c) \cup {k})
          /\ Cardinality(ActiveIn(c) \cup {k}) <= Cardinality(ActiveIn(c)) + 1
      <4>1. CASE k \in ActiveIn(c)
        <5>1. ActiveIn(c) \cup {k} = ActiveIn(c)
          BY <4>1
        <5> QED
          BY <1>1, <1>2, <5>1
      <4>2. CASE k \notin ActiveIn(c)
        <5>1. Cardinality(ActiveIn(c) \cup {k}) = Cardinality(ActiveIn(c)) + 1
          BY <1>1, <4>2, FS_AddElement
        <5> QED
          BY <1>1, <1>2, <5>1, FS_AddElement
      <4> QED
        BY <4>1, <4>2
    <3>4. /\ IsFiniteSet(Pending(c) \ {r})
          /\ Cardinality(Pending(c) \ {r}) = Cardinality(Pending(c)) - 1
      BY <1>1, <3>1, FS_RemoveElement
    <3>5. /\ IsFiniteSet(ActiveIn(c)')
          /\ Cardinality(ActiveIn(c)') + Cardinality(Pending(c)')
               <= Cardinality(ActiveIn(c) \cup {k}) + Cardinality(Pending(c) \ {r})
      BY <2>3, <3>2, <3>3, <3>4, SumShrinks
    <3>6. /\ Cardinality(ActiveIn(c)') \in Nat /\ Cardinality(Pending(c)') \in Nat
          /\ Cardinality(ActiveIn(c) \cup {k}) \in Nat
      BY <1>1, <3>3, <3>5, FS_CardinalityType, FS_Subset
    <3> QED
      BY <1>1, <1>2, <3>3, <3>4, <3>5, <3>6
  <2>5. CASE asked[r] # c
    <3>1. ActiveIn(c)' \subseteq ActiveIn(c)
      BY <1>0, <2>1, <2>5 DEF ActiveIn, Active, DatabaseTyped
    <3>2. /\ IsFiniteSet(ActiveIn(c)')
          /\ Cardinality(ActiveIn(c)') + Cardinality(Pending(c)')
               <= Cardinality(ActiveIn(c)) + Cardinality(Pending(c))
      BY <1>1, <2>3, <3>1, SumShrinks
    <3>3. Cardinality(ActiveIn(c)') \in Nat /\ Cardinality(Pending(c)') \in Nat
      BY <1>1, <3>2, FS_CardinalityType, FS_Subset
    <3> QED
      BY <1>1, <1>2, <3>2, <3>3
  <2> QED
    BY <2>4, <2>5
\* A request finds no enrollment in c: there are none, and all may be pending.
<1>4. ASSUME NEW r \in Requests, CheckExisting(r), asked[r] = c, pc'[r] = "enroll"
      PROVE  /\ IsFiniteSet(ActiveIn(c)')
             /\ Cardinality(ActiveIn(c)') + Cardinality(Pending(c)') <= Cardinality(Requests)
  <2>1. ActiveIn(c) = {} /\ enrollment' = enrollment
    BY <1>0, <1>4 DEF CheckExisting, Leave, Goto, LocalsTyped, db
  <2>2. ActiveIn(c)' = {}
    BY <2>1 DEF ActiveIn, Active
  <2>3. IsFiniteSet(Pending(c)') /\ Cardinality(Pending(c)') <= Cardinality(Requests)
    BY <1>1, FS_Subset
  <2> QED
    BY <1>1, <2>2, <2>3, FS_EmptySet, FS_CardinalityType
\* Any other step adds to neither.
<1>5. CASE /\ \A r \in Requests : ~ CreateEnrollment(r)
           /\ \A r \in Requests :
                 ~ (CheckExisting(r) /\ asked[r] = c /\ pc'[r] = "enroll")
  <2>1. ActiveIn(c)' \subseteq ActiveIn(c)
    BY <1>5, NoNewActive
  <2>2. Pending(c)' \subseteq Pending(c)
    <3>1. SUFFICES ASSUME NEW r \in Requests, pc'[r] = "enroll", asked'[r] = c
                   PROVE  pc[r] = "enroll" /\ asked[r] = c
      BY DEF Pending
    <3>2. CASE CheckExisting(r)
      <4>1. asked'[r] = asked[r]
        BY <1>0, <3>1, <3>2 DEF CheckExisting, Leave, Goto, LocalsTyped
      <4> QED
        BY <1>5, <3>1, <3>2, <4>1
    <3> QED
      BY <3>1, <3>2, NoNewPending
  <2>3. /\ IsFiniteSet(ActiveIn(c)')
        /\ Cardinality(ActiveIn(c)') + Cardinality(Pending(c)')
             <= Cardinality(ActiveIn(c)) + Cardinality(Pending(c))
    BY <1>1, <2>1, <2>2, SumShrinks
  <2>4. Cardinality(ActiveIn(c)') \in Nat /\ Cardinality(Pending(c)') \in Nat
    BY <1>1, <2>3, FS_CardinalityType, FS_Subset
  <2> QED
    BY <1>1, <1>2, <2>3, <2>4
<1> QED
  BY <1>3, <1>4, <1>5

\* autoEnrollOrKeepActive looks for an ACTIVE enrollment before it creates one,
\* and no unique key backs that: but for any number of requests, a conversation
\* is enrolled at most once per request that is at it.
THEOREM FewDuplicates ==
    ASSUME CampaignAssumption, IsFiniteSet(Requests)
    PROVE  Spec => []DuplicatesBounded
<1>1. Init => TypeInv /\ DuplicatesInv
  <2>1. SUFFICES ASSUME Init, NEW c \in Conversations
                 PROVE  /\ IsFiniteSet(ActiveIn(c))
                        /\ Cardinality(ActiveIn(c)) + Cardinality(Pending(c))
                             <= Cardinality(Requests)
    BY InitTypeInv DEF DuplicatesInv
  <2>2. ActiveIn(c) = {} /\ Pending(c) = {}
    BY <2>1 DEF Init, ActiveIn, Active, Pending, Actors
  <2> QED
    BY <2>2, FS_EmptySet, FS_CardinalityType
<1>2. TypeInv /\ DuplicatesInv /\ [Next]_vars => TypeInv' /\ DuplicatesInv'
  BY NextTypeInv, NextDuplicatesInv DEF DuplicatesInv
<1>3. DuplicatesInv => DuplicatesBounded
  <2>1. SUFFICES ASSUME DuplicatesInv, NEW c \in Conversations
                 PROVE  Cardinality(ActiveIn(c)) <= Cardinality(Requests)
    BY DEF DuplicatesBounded
  <2>2. IsFiniteSet(ActiveIn(c)) /\ IsFiniteSet(Pending(c))
    BY <2>1, FS_Subset DEF DuplicatesInv, Pending
  <2> QED
    BY <2>1, <2>2, FS_CardinalityType DEF DuplicatesInv
<1> QED
  BY <1>1, <1>2, <1>3, PTL DEF Spec

-----------------------------------------------------------------------------
(* Rows that refer to each other *)

\* Executions and processes refer to enrollments that exist, and a process
\* works for the enrollment of its job, or of the child it is about to push.
RowsExist ==
    /\ \A x \in Executions :
           execution[x].status # "none" => enrollment[execution[x].enrollment].status # "none"
    /\ \A w \in Workers : pc[w] # "idle" => subject[w] = execution[job[w]].enrollment
    /\ \A r \in Requests :
           pc[r] \in {"create", "push"} => enrollment[subject[r]].status # "none"
    /\ \A a \in Actors : pc[a] = "push" => execution[child[a]].enrollment = subject[a]

\* The ids of existing rows that processes have are ids.
LEMMA IdsTyped ==
    ASSUME TypeInv
    PROVE  /\ \A x \in Executions :
                  execution[x].status # "none" => execution[x].enrollment \in Enrollments
           /\ \A w \in Workers : pc[w] # "idle" =>
                  /\ job[w] \in Executions /\ execution[job[w]].status # "none"
                  /\ subject[w] \in Enrollments
           /\ \A a \in Actors : pc[a] \in {"create", "push"} => subject[a] \in Enrollments
           /\ \A a \in Actors : pc[a] = "push" =>
                  child[a] \in Executions /\ execution[child[a]].status # "none"
           /\ DatabaseTyped /\ LocalsTyped
BY DEF TypeInv, TypeOK, ReferencesOK

\* A step that creates no row and gives no process a new one.
LEMMA RowsStay ==
    ASSUME TypeInv, RowsExist,
           \A x \in Executions : /\ execution'[x].status # "none" => execution[x].status # "none"
                                 /\ execution'[x].enrollment = execution[x].enrollment,
           \A e \in Enrollments : enrollment[e].status # "none" => enrollment'[e].status # "none",
           \A w \in Workers : pc'[w] # "idle" =>
               pc[w] # "idle" /\ job'[w] = job[w] /\ subject'[w] = subject[w],
           \A r \in Requests : pc'[r] \in {"create", "push"} =>
               pc[r] \in {"create", "push"} /\ subject'[r] = subject[r],
           \A a \in Actors : pc'[a] = "push" =>
               pc[a] = "push" /\ child'[a] = child[a] /\ subject'[a] = subject[a]
    PROVE  RowsExist'
<1>1. \A x \in Executions :
          execution'[x].status # "none" => enrollment'[execution'[x].enrollment].status # "none"
  BY IdsTyped DEF RowsExist
<1>2. \A w \in Workers : pc'[w] # "idle" => subject'[w] = execution'[job'[w]].enrollment
  BY IdsTyped DEF RowsExist
<1>3. \A r \in Requests :
          pc'[r] \in {"create", "push"} => enrollment'[subject'[r]].status # "none"
  BY IdsTyped DEF RowsExist, Actors
<1>4. \A a \in Actors : pc'[a] = "push" => execution'[child'[a]].enrollment = subject'[a]
  BY IdsTyped DEF RowsExist
<1> QED
  BY <1>1, <1>2, <1>3, <1>4 DEF RowsExist

LEMMA NextRowsExist ==
    ASSUME CampaignAssumption, TypeInv, RowsExist, [Next]_vars PROVE RowsExist'
<1> USE DEF Actors, db, redis, locals, ghosts
<1>0. DatabaseTyped /\ LocalsTyped /\ ReferencesOK /\ PlansOK
  BY DEF TypeInv, TypeOK
<1>1. ASSUME NEW r \in Requests, Arrival(r) PROVE RowsExist'
  BY <1>0, <1>1, RowsStay
  DEF Arrival, BeginPauseOrResume, UpdateFlow, DeleteFlow, BeginStopFlow,
      BeginStopEnrollment, BeginEnroll, Arrives, Goto, LocalsTyped, CampaignAssumption
<1>2. ASSUME NEW r \in Requests,
             WritePauseOrResume(r) \/ CheckExisting(r) \/ RequestDies(r)
      PROVE  RowsExist'
  <2>1. CASE Leave(r) /\ UNCHANGED <<enrollment, execution>>
    BY <1>0, <2>1, RowsStay, LeaveEffect
  <2>2. CASE CheckExisting(r) /\ Goto(r, "enroll") /\ UNCHANGED <<job, subject, child>>
    BY <1>0, <2>2, RowsStay DEF CheckExisting, Goto, LocalsTyped, CampaignAssumption
  <2> QED
    BY <1>2, <2>1, <2>2 DEF WritePauseOrResume, CheckExisting, RequestDies
<1>3. ASSUME NEW r \in Requests, CommitStop(r) PROVE RowsExist'
  <2>1. /\ \A x \in Executions : /\ execution'[x].status # "none" => execution[x].status # "none"
                                 /\ execution'[x].enrollment = execution[x].enrollment
        /\ \A e \in Enrollments :
               enrollment[e].status # "none" => enrollment'[e].status # "none"
    <3>1. CASE UNCHANGED <<enrollment, execution>>
      BY <3>1
    <3>2. CASE StopRows(victims[r])
      BY <1>0, <3>2, StopRowsEffect DEF StopRows, DatabaseTyped
    <3> QED
      BY <1>3, <3>1, <3>2 DEF CommitStop
  <2> QED
    BY <1>0, <1>3, <2>1, RowsStay, LeaveEffect DEF CommitStop
<1>4. ASSUME NEW r \in Requests, CreateEnrollment(r) PROVE RowsExist'
  <2>1. PICK k \in Fresh(enrollment) :
            /\ enrollment' = [enrollment EXCEPT ![k] =
                   [status |-> "ACTIVE", conversation |-> asked[r], node |-> plan[r].next]]
            /\ subject' = [subject EXCEPT ![r] = k]
    BY <1>4 DEF CreateEnrollment
  <2>2. k \in Enrollments /\ \A e \in Enrollments :
            enrollment[e].status # "none" => enrollment'[e] = enrollment[e]
    BY <1>0, <2>1, FreshIsUnused DEF DatabaseTyped
  <2>3. /\ enrollment'[k].status = "ACTIVE" /\ subject'[r] = k /\ pc'[r] = "create"
        /\ \A b \in Actors \ {r} : subject'[b] = subject[b] /\ pc'[b] = pc[b]
        /\ UNCHANGED <<execution, job, child>>
    BY <1>0, <1>4, <2>1, <2>2 DEF CreateEnrollment, Goto, LocalsTyped, DatabaseTyped
  <2> QED
    BY <2>2, <2>3, IdsTyped DEF RowsExist, CampaignAssumption
<1>5. ASSUME NEW a \in Actors, CreateExecution(a) PROVE RowsExist'
  <2>1. PICK x \in Fresh(execution) :
            /\ execution' = [execution EXCEPT ![x] =
                   [status |-> "QUEUED", enrollment |-> subject[a], node |-> plan[a].next]]
            /\ child' = [child EXCEPT ![a] = x]
    BY <1>5 DEF CreateExecution
  <2>2. x \in Executions /\ execution[x].status = "none"
    BY <1>0, <2>1, FreshIsUnused DEF DatabaseTyped
  <2>3. /\ execution'[x].enrollment = subject[a] /\ child'[a] = x
        /\ pc[a] = "create" /\ pc'[a] = "push"
        /\ \A y \in Executions \ {x} : execution'[y] = execution[y]
        /\ \A b \in Actors \ {a} : child'[b] = child[b] /\ pc'[b] = pc[b]
        /\ UNCHANGED <<enrollment, job, subject>>
    BY <1>0, <1>5, <2>1, <2>2 DEF CreateExecution, Goto, LocalsTyped, DatabaseTyped
  <2>4. enrollment[subject[a]].status # "none"
    BY <2>3, IdsTyped DEF RowsExist
  <2> QED
    BY <2>2, <2>3, <2>4, IdsTyped DEF RowsExist, CampaignAssumption
<1>6. ASSUME NEW a \in Actors, PushJob(a) PROVE RowsExist'
  BY <1>0, <1>6, RowsStay, LeaveEffect DEF PushJob, Goto, LocalsTyped
<1>7. ASSUME NEW w \in Workers, Dequeue(w) PROVE RowsExist'
  <2>1. Head(queue) \in Executions
    BY <1>7 DEF Dequeue, TypeInv, TypeOK, RedisTyped
  <2>2. /\ job'[w] = Head(queue) /\ subject'[w] = execution[Head(queue)].enrollment
        /\ pc'[w] = "got"
        /\ \A b \in Actors \ {w} : /\ job'[b] = job[b] /\ subject'[b] = subject[b]
                                   /\ pc'[b] = pc[b]
        /\ UNCHANGED <<enrollment, execution, child>>
    BY <1>0, <1>7 DEF Dequeue, Goto, LocalsTyped
  <2> QED
    BY <2>1, <2>2 DEF RowsExist, CampaignAssumption
<1>8. ASSUME NEW w \in Workers,
             Requeue(w) \/ AcquireLock(w) \/ Release(w) \/ WorkerCrashes(w)
      PROVE  RowsExist'
  <2>1. CASE Leave(w)
    BY <1>0, <1>8, <2>1, RowsStay, LeaveEffect
    DEF Requeue, AcquireLock, Release, WorkerCrashes
  <2>2. CASE AcquireLock(w) /\ Goto(w, "read") /\ UNCHANGED <<job, subject, child>>
    BY <1>0, <2>2, RowsStay DEF AcquireLock, Goto, LocalsTyped, CampaignAssumption
  <2> QED
    BY <1>8, <2>1, <2>2 DEF Requeue, AcquireLock, Release, WorkerCrashes
<1>9. ASSUME NEW w \in Workers, ReadExecution(w) \/ SendMessage(w) \/ RunRules(w)
      PROVE  RowsExist'
  BY <1>0, <1>9, RowsStay
  DEF ReadExecution, SendMessage, RunRules, Goto, LocalsTyped, CampaignAssumption
<1>10. ASSUME NEW w \in Workers, MarkExecution(w) PROVE RowsExist'
  <2>1. \A x \in Executions : /\ execution'[x].status # "none" => execution[x].status # "none"
                              /\ execution'[x].enrollment = execution[x].enrollment
    BY <1>0, <1>10, IdsTyped DEF MarkExecution, DatabaseTyped
  <2> QED
    BY <1>0, <1>10, <2>1, RowsStay DEF MarkExecution, Goto, LocalsTyped, CampaignAssumption
<1>11. ASSUME NEW w \in Workers, UpdateEnrollment(w) PROVE RowsExist'
  <2>1. w \in Actors /\ plan[w] \in PlanType /\ plan[w].outcome # "KEEP"
    BY <1>0, <1>11 DEF UpdateEnrollment, LocalsTyped, PlansOK
  <2>2. \A e \in Enrollments : enrollment[e].status # "none" => enrollment'[e].status # "none"
    BY <1>0, <1>11, <2>1 DEF UpdateEnrollment, DatabaseTyped, PlanType
  <2> QED
    BY <1>0, <1>11, <2>2, RowsStay DEF UpdateEnrollment, Goto, LocalsTyped, CampaignAssumption
<1>12. ASSUME NEW w \in Workers, WorkerThrows(w) \/ PushReplyLost(w) PROVE RowsExist'
  <2>1. Unwind(w) /\ UNCHANGED <<enrollment, execution>>
    BY <1>12 DEF WorkerThrows, PushReplyLost
  <2>2. pc[w] # "idle"
    BY <1>12 DEF WorkerThrows, PushReplyLost, Fallible, NeedsRow
  <2> QED
    BY <1>0, <2>1, <2>2, RowsStay, UnwindEffect DEF CampaignAssumption
<1>13. ASSUME \/ \E x \in Executions : TimePasses(x) \/ LockExpires(x)
              \/ UNCHANGED vars
       PROVE  RowsExist'
  BY <1>13, RowsStay DEF TimePasses, LockExpires, vars
<1> QED
  BY <1>1, <1>2, <1>3, <1>4, <1>5, <1>6, <1>7, <1>8, <1>9, <1>10, <1>11, <1>12, <1>13
  DEF Next, RequestStep, WorkerStep

-----------------------------------------------------------------------------
(* One node at a time *)

\* Process a has the walk of its enrollment in hand: it will, or may still,
\* create the enrollment's next execution.
Walks(a) ==
    \/ pc[a] \in {"send", "create"}
    \/ pc[a] \in {"mark", "advance"} /\ plan[a].outcome = "ADVANCE"

\* An enrollment's walk is in one place: with one process, or with its one
\* execution that waits.  The two are together only until the process marks it.
WalkInv ==
    /\ \A a, b \in Actors : Walks(a) /\ Walks(b) /\ subject[a] = subject[b] => a = b
    /\ \A a \in Actors, x \in Executions :
           /\ Walks(a)
           /\ execution[x].status = "QUEUED"
           /\ execution[x].enrollment = subject[a]
           => pc[a] \in {"send", "mark"} /\ job[a] = x
    /\ OneLiveExecution

\* A step that starts no walk and creates no execution.
LEMMA WalkStays ==
    ASSUME WalkInv,
           \A x \in Executions : execution'[x].status = "QUEUED" =>
               /\ execution[x].status = "QUEUED"
               /\ execution'[x].enrollment = execution[x].enrollment,
           \A a \in Actors : Walks(a)' =>
               /\ Walks(a) /\ subject'[a] = subject[a]
               /\ pc[a] \in {"send", "mark"} =>
                      pc'[a] \in {"send", "mark"} /\ job'[a] = job[a]
    PROVE  WalkInv'
<1>1. (\A a, b \in Actors : Walks(a) /\ Walks(b) /\ subject[a] = subject[b] => a = b)'
  BY DEF WalkInv
<1>2. (\A a \in Actors, x \in Executions :
           /\ Walks(a)
           /\ execution[x].status = "QUEUED"
           /\ execution[x].enrollment = subject[a]
           => pc[a] \in {"send", "mark"} /\ job[a] = x)'
  BY DEF WalkInv
<1>3. OneLiveExecution'
  BY DEF WalkInv, OneLiveExecution
<1> QED
  BY <1>1, <1>2, <1>3 DEF WalkInv

LEMMA NextWalkInv ==
    ASSUME CampaignAssumption, TypeInv, RowsExist, TokenInv, WalkInv, [Next]_vars
    PROVE  WalkInv'
<1> USE DEF Actors, db, redis, locals, ghosts
<1>0. DatabaseTyped /\ LocalsTyped /\ ReferencesOK /\ PlansOK
  BY DEF TypeInv, TypeOK
<1>1. ASSUME NEW r \in Requests, Arrival(r) PROVE WalkInv'
  <2>1. UNCHANGED <<execution, subject, job>>
    BY <1>1 DEF Arrival, BeginPauseOrResume, UpdateFlow, DeleteFlow, BeginStopFlow,
           BeginStopEnrollment, BeginEnroll
  <2>2. CASE UpdateFlow(r) \/ DeleteFlow(r)
    BY <2>1, <2>2, WalkStays DEF UpdateFlow, DeleteFlow, Walks
  <2>3. CASE BeginPauseOrResume(r) \/ BeginStopFlow(r) \/ BeginStopEnrollment(r) \/ BeginEnroll(r)
    <3>1. /\ pc'[r] \notin {"send", "create", "mark", "advance"}
          /\ \A b \in Actors \ {r} : pc'[b] = pc[b] /\ plan'[b] = plan[b]
      BY <1>0, <2>3 DEF BeginPauseOrResume, BeginStopFlow, BeginStopEnrollment, BeginEnroll,
             Goto, LocalsTyped
    <3> QED
      BY <2>1, <3>1, WalkStays DEF Walks
  <2> QED
    BY <1>1, <2>2, <2>3 DEF Arrival
<1>2. ASSUME NEW a \in Actors, Leave(a), UNCHANGED execution PROVE WalkInv'
  <2>1. /\ pc'[a] = "idle"
        /\ \A b \in Actors \ {a} : /\ pc'[b] = pc[b] /\ job'[b] = job[b]
                                   /\ plan'[b] = plan[b] /\ subject'[b] = subject[b]
    BY <1>0, <1>2, LeaveEffect
  <2> QED
    BY <1>2, <2>1, WalkStays DEF Walks
<1>3. ASSUME NEW a \in Actors, NEW where,
             Goto(a, where), where \notin {"send", "create", "mark", "advance"},
             UNCHANGED <<execution, job, subject, plan>>
      PROVE  WalkInv'
  <2>1. pc'[a] = where /\ \A b \in Actors \ {a} : pc'[b] = pc[b]
    BY <1>0, <1>3 DEF Goto, LocalsTyped
  <2> QED
    BY <1>3, <2>1, WalkStays DEF Walks
<1>4. ASSUME NEW r \in Requests,
             \/ WritePauseOrResume(r) \/ CheckExisting(r) \/ RequestDies(r)
             \/ PushJob(r)
      PROVE  WalkInv'
  BY <1>2, <1>3, <1>4 DEF WritePauseOrResume, CheckExisting, RequestDies, PushJob
<1>5. ASSUME NEW r \in Requests, CommitStop(r) PROVE WalkInv'
  <2>1. \A x \in Executions : execution'[x].status = "QUEUED" =>
               /\ execution[x].status = "QUEUED"
               /\ execution'[x].enrollment = execution[x].enrollment
    BY <1>0, <1>5 DEF CommitStop, StopRows, DatabaseTyped
  <2>2. /\ pc'[r] = "idle"
        /\ \A b \in Actors \ {r} : /\ pc'[b] = pc[b] /\ job'[b] = job[b]
                                   /\ plan'[b] = plan[b] /\ subject'[b] = subject[b]
    BY <1>0, <1>5, LeaveEffect DEF CommitStop
  <2> QED
    BY <2>1, <2>2, WalkStays DEF Walks
\* The enrollment is new: nobody walks it, and it has no execution.
<1>6. ASSUME NEW r \in Requests, CreateEnrollment(r) PROVE WalkInv'
  <2>1. PICK k \in Fresh(enrollment) :
            subject' = [subject EXCEPT ![r] = k]
    BY <1>6 DEF CreateEnrollment
  <2>2. k \in Enrollments /\ enrollment[k].status = "none"
    BY <1>0, <2>1, FreshIsUnused DEF DatabaseTyped
  <2>3. /\ subject'[r] = k /\ pc'[r] = "create"
        /\ \A b \in Actors \ {r} : subject'[b] = subject[b] /\ pc'[b] = pc[b]
        /\ UNCHANGED <<execution, job, plan>>
    BY <1>0, <1>6, <2>1, <2>2 DEF CreateEnrollment, Goto, LocalsTyped
  <2>4. \A x \in Executions : execution[x].status = "QUEUED" => execution[x].enrollment # k
    BY <2>2 DEF RowsExist
  <2>5. \A b \in Actors \ {r} : Walks(b) => subject[b] # k
    <3>1. ASSUME NEW b \in Requests, Walks(b) PROVE subject[b] # k
      BY <1>0, <2>2, <3>1 DEF Walks, RowsExist, LocalsTyped, RequestPC
    <3>2. ASSUME NEW b \in Workers, Walks(b) PROVE subject[b] # k
      BY <2>2, <3>2, IdsTyped DEF Walks, RowsExist
    <3> QED
      BY <3>1, <3>2
  <2>6. \A b \in Actors \ {r} : Walks(b)' <=> Walks(b)
    BY <2>3 DEF Walks
  <2>7. OneLiveExecution'
    BY <2>3 DEF WalkInv, OneLiveExecution
  <2> QED
    BY <2>3, <2>4, <2>5, <2>6, <2>7 DEF WalkInv
\* The walk passes from the process to the new execution.
<1>7. ASSUME NEW a \in Actors, CreateExecution(a) PROVE WalkInv'
  <2>1. PICK x \in Fresh(execution) :
            execution' = [execution EXCEPT ![x] =
                   [status |-> "QUEUED", enrollment |-> subject[a], node |-> plan[a].next]]
    BY <1>7 DEF CreateExecution
  <2>2. x \in Executions
    BY <1>0, <2>1, FreshIsUnused DEF DatabaseTyped
  <2>3. /\ execution'[x].enrollment = subject[a]
        /\ pc[a] = "create" /\ pc'[a] = "push"
        /\ \A y \in Executions \ {x} : execution'[y] = execution[y]
        /\ \A b \in Actors \ {a} : pc'[b] = pc[b]
        /\ UNCHANGED <<job, subject, plan>>
    BY <1>0, <1>7, <2>1, <2>2 DEF CreateExecution, Goto, LocalsTyped, DatabaseTyped
  <2>4. Walks(a) /\ ~Walks(a)' /\ \A b \in Actors \ {a} : Walks(b)' <=> Walks(b)
    BY <2>3 DEF Walks
  <2>5. \A y \in Executions \ {x} :
            execution[y].status = "QUEUED" => execution[y].enrollment # subject[a]
    BY <2>3, <2>4 DEF WalkInv
  <2>6. \A b \in Actors \ {a} : Walks(b) => subject[b] # subject[a]
    BY <2>4 DEF WalkInv
  <2>7. OneLiveExecution'
    BY <2>3, <2>5 DEF WalkInv, OneLiveExecution
  <2> QED
    BY <2>3, <2>4, <2>6, <2>7 DEF WalkInv
<1>8. ASSUME NEW w \in Workers, PushJob(w) \/ Release(w) \/ WorkerCrashes(w)
      PROVE  WalkInv'
  BY <1>2, <1>8, WalkStays, <1>3 DEF PushJob, Release, WorkerCrashes
<1>9. ASSUME NEW w \in Workers, Dequeue(w) PROVE WalkInv'
  <2>1. /\ pc'[w] = "got" /\ UNCHANGED <<execution, plan>>
        /\ \A b \in Actors \ {w} : /\ job'[b] = job[b] /\ subject'[b] = subject[b]
                                   /\ pc'[b] = pc[b]
    BY <1>0, <1>9 DEF Dequeue, Goto, LocalsTyped
  <2> QED
    BY <2>1, WalkStays DEF Walks
<1>10. ASSUME NEW w \in Workers, Requeue(w) \/ AcquireLock(w) \/ RunRules(w) PROVE WalkInv'
  BY <1>2, <1>3, <1>10 DEF Requeue, AcquireLock, RunRules
\* A worker that finds an execution waiting is the only one to have its walk.
<1>11. ASSUME NEW w \in Workers, ReadExecution(w) PROVE WalkInv'
  <2>1. CASE Goto(w, "release") /\ UNCHANGED plan
    BY <1>3, <1>11, <2>1 DEF ReadExecution
  <2>2. CASE execution[job[w]].status = "QUEUED"
    <3>1. /\ \A b \in Actors \ {w} : pc'[b] = pc[b] /\ plan'[b] = plan[b]
          /\ pc'[w] \in {"send", "mark", "release"} /\ pc[w] = "read"
          /\ UNCHANGED <<execution, job, subject>>
      BY <1>0, <1>11 DEF ReadExecution, Goto, LocalsTyped
    <3>2. job[w] \in Executions /\ subject[w] = execution[job[w]].enrollment
      BY <3>1, IdsTyped DEF RowsExist
    <3>3. \A b \in Actors \ {w} : Walks(b)' <=> Walks(b)
      BY <3>1 DEF Walks
    <3>4. \A b \in Actors \ {w} : Walks(b) => subject[b] # subject[w]
      <4>1. SUFFICES ASSUME NEW b \in Actors \ {w}, Walks(b), subject[b] = subject[w]
                     PROVE  FALSE
        OBVIOUS
      <4>2. pc[b] \in {"send", "mark"} /\ job[b] = job[w]
        BY <2>2, <3>2, <4>1 DEF WalkInv
      <4>3. b \in Workers
        BY <1>0, <4>2 DEF LocalsTyped, RequestPC
      <4> QED
        BY <3>1, <4>1, <4>2, <4>3 DEF TokenInv, OnePlace, Holds
    <3>5. \A x \in Executions :
              execution[x].status = "QUEUED" /\ execution[x].enrollment = subject[w] => x = job[w]
      BY <2>2, <3>2 DEF WalkInv, OneLiveExecution
    <3>6. OneLiveExecution'
      BY <3>1 DEF WalkInv, OneLiveExecution
    <3>7. Walks(w)' => pc'[w] \in {"send", "mark"}
      BY <3>1 DEF Walks
    <3>8. \A a, b \in Actors : Walks(a)' /\ Walks(b)' /\ subject[a] = subject[b] => a = b
      BY <3>3, <3>4 DEF WalkInv
    <3>9. \A a \in Actors, x \in Executions :
              /\ Walks(a)'
              /\ execution[x].status = "QUEUED"
              /\ execution[x].enrollment = subject[a]
              => pc'[a] \in {"send", "mark"} /\ job[a] = x
      BY <3>1, <3>3, <3>5, <3>7 DEF WalkInv
    <3> QED
      BY <3>1, <3>6, <3>8, <3>9 DEF WalkInv
  <2> QED
    BY <1>11, <2>1, <2>2 DEF ReadExecution
<1>12. ASSUME NEW w \in Workers, SendMessage(w) PROVE WalkInv'
  <2>1. /\ pc[w] = "send" /\ pc'[w] = "mark"
        /\ \A b \in Actors \ {w} : pc'[b] = pc[b] /\ plan'[b] = plan[b]
        /\ UNCHANGED <<execution, job, subject>>
    BY <1>0, <1>12 DEF SendMessage, Goto, LocalsTyped
  <2> QED
    BY <2>1, WalkStays DEF Walks
\* The execution doesn't wait any more: from here the walk is the worker's alone.
<1>13. ASSUME NEW w \in Workers, MarkExecution(w) PROVE WalkInv'
  <2>1. /\ pc[w] = "mark" /\ pc'[w] \in {"advance", "release"}
        /\ \A b \in Actors \ {w} : pc'[b] = pc[b]
        /\ UNCHANGED <<job, subject, plan>>
    BY <1>0, <1>13 DEF MarkExecution, Goto, LocalsTyped
  <2>2. /\ job[w] \in Executions
        /\ execution'[job[w]].status # "QUEUED"
        /\ \A y \in Executions \ {job[w]} : execution'[y] = execution[y]
    BY <1>0, <1>13, <2>1, IdsTyped DEF MarkExecution, DatabaseTyped, PlansOK
  <2>3. /\ \A b \in Actors : Walks(b)' => Walks(b)
        /\ \A b \in Actors \ {w} : Walks(b)' => pc'[b] = pc[b]
    BY <2>1 DEF Walks
  <2>4. OneLiveExecution'
    BY <2>2 DEF WalkInv, OneLiveExecution
  <2>5. \A a \in Actors, x \in Executions :
            /\ Walks(a)'
            /\ execution'[x].status = "QUEUED"
            /\ execution'[x].enrollment = subject'[a]
            => pc'[a] \in {"send", "mark"} /\ job'[a] = x
    BY <2>1, <2>2, <2>3 DEF WalkInv
  <2> QED
    BY <2>1, <2>3, <2>4, <2>5 DEF WalkInv
<1>14. ASSUME NEW w \in Workers, UpdateEnrollment(w) PROVE WalkInv'
  <2>1. /\ pc[w] = "advance"
        /\ pc'[w] = "create" => plan[w].outcome = "ADVANCE"
        /\ pc'[w] \in {"create", "rules", "release"}
        /\ \A b \in Actors \ {w} : pc'[b] = pc[b]
        /\ UNCHANGED <<execution, job, subject, plan>>
    BY <1>0, <1>14 DEF UpdateEnrollment, Goto, LocalsTyped
  <2> QED
    BY <2>1, WalkStays DEF Walks
<1>15. ASSUME NEW w \in Workers, WorkerThrows(w) \/ PushReplyLost(w) PROVE WalkInv'
  <2>1. Unwind(w) /\ UNCHANGED execution
    BY <1>15 DEF WorkerThrows, PushReplyLost
  <2>2. \A b \in Actors \ {w} : /\ pc'[b] = pc[b] /\ job'[b] = job[b]
                                /\ plan'[b] = plan[b] /\ subject'[b] = subject[b]
    BY <1>0, <2>1, UnwindEffect
  <2>3. \/ pc'[w] \in {"idle", "release"}
        \/ pc'[w] = "mark" /\ plan'[w] = FailurePlan
    BY <1>0, <2>1, UnwindEffect
  <2>4. ~Walks(w)'
    BY <2>3, FailurePlanTyped DEF Walks
  <2> QED
    BY <2>1, <2>2, <2>4, WalkStays DEF Walks
<1>16. ASSUME \/ \E x \in Executions : TimePasses(x) \/ LockExpires(x)
              \/ UNCHANGED vars
       PROVE  WalkInv'
  BY <1>16, WalkStays DEF TimePasses, LockExpires, vars, Walks
<1> QED
  BY <1>1, <1>4, <1>5, <1>6, <1>7, <1>8, <1>9, <1>10, <1>11, <1>12, <1>13, <1>14, <1>15,
     <1>16
  DEF Next, RequestStep, WorkerStep

LEMMA InitWalk ==
    ASSUME CampaignAssumption, Init PROVE RowsExist /\ TokenInv /\ WalkInv
BY DEF CampaignAssumption, Init, RowsExist, WalkInv, Walks, OneLiveExecution, Actors,
       TokenInv, OnePlace, SentOnce, Holds, Pushes, InQueue

LEMMA WalkCorrect ==
    ASSUME CampaignAssumption
    PROVE  Spec => [](TypeInv /\ RowsExist /\ TokenInv /\ WalkInv)
<1>1. Init => TypeInv /\ RowsExist /\ TokenInv /\ WalkInv
  BY InitTypeInv, InitWalk
<1>2. TypeInv /\ RowsExist /\ TokenInv /\ WalkInv /\ [Next]_vars
      => (TypeInv /\ RowsExist /\ TokenInv /\ WalkInv)'
  BY NextTypeInv, NextRowsExist, NextTokenInv, NextWalkInv
<1> QED
  BY <1>1, <1>2, PTL DEF Spec

\* An enrollment never has two executions waiting, for any number of workers and
\* overlapping requests, although no key of the schema forbids it.
THEOREM OneAtATime == ASSUME CampaignAssumption PROVE Spec => []OneLiveExecution
<1>1. WalkInv => OneLiveExecution
  BY DEF WalkInv
<1> QED
  BY <1>1, WalkCorrect, PTL

-----------------------------------------------------------------------------
(* Messages of an enrollment that has ended *)

\* Nothing has been sent too late for an enrollment that hasn't ended, nor for
\* one whose worker found it ACTIVE and is about to send.
EndInv ==
    \A e \in Enrollments :
        /\ sendsAfterEnd[e] \in {0, 1}
        /\ \/ enrollment[e].status \in {"none", "ACTIVE"}
           \/ \E w \in Workers : pc[w] = "send" /\ subject[w] = e
           => sendsAfterEnd[e] = 0

\* A step that sends nothing and brings no worker to a send.
LEMMA EndStays ==
    ASSUME CampaignAssumption, TypeInv, EndInv, [Next]_vars,
           sendsAfterEnd' = sendsAfterEnd,
           \A w \in Workers : pc'[w] = "send" => pc[w] = "send" /\ subject'[w] = subject[w]
    PROVE  EndInv'
<1>1. \A e \in Enrollments : enrollment'[e].status \in {"none", "ACTIVE"}
                                 => enrollment[e].status \in {"none", "ACTIVE"}
  BY NextEndedStaysEnded
<1> QED
  BY <1>1 DEF EndInv

LEMMA NextEndInv ==
    ASSUME CampaignAssumption, TypeInv, RowsExist, TokenInv, WalkInv, EndInv, [Next]_vars
    PROVE  EndInv'
<1> USE DEF Actors, db, redis, locals, ghosts
<1>0. LocalsTyped /\ sendsAfterEnd \in [Enrollments -> Nat]
  BY DEF TypeInv, TypeOK, GhostsTyped
<1>1. ASSUME NEW r \in Requests, Arrival(r) PROVE EndInv'
  BY <1>0, <1>1, EndStays
  DEF Arrival, BeginPauseOrResume, UpdateFlow, DeleteFlow, BeginStopFlow,
      BeginStopEnrollment, BeginEnroll, Goto, LocalsTyped, CampaignAssumption
<1>2. ASSUME NEW a \in Actors, Leave(a), sendsAfterEnd' = sendsAfterEnd PROVE EndInv'
  BY <1>0, <1>2, LeaveEffect, EndStays
<1>3. ASSUME NEW a \in Actors, NEW where, Goto(a, where), where # "send",
             UNCHANGED <<subject, sendsAfterEnd>>
      PROVE  EndInv'
  BY <1>0, <1>3, EndStays DEF Goto, LocalsTyped
<1>4. ASSUME NEW r \in Requests,
             \/ WritePauseOrResume(r) \/ CheckExisting(r) \/ RequestDies(r)
             \/ CommitStop(r)
      PROVE  EndInv'
  BY <1>2, <1>3, <1>4 DEF WritePauseOrResume, CheckExisting, RequestDies, CommitStop
<1>5. ASSUME NEW r \in Requests, CreateEnrollment(r) PROVE EndInv'
  BY <1>0, <1>5, EndStays DEF CreateEnrollment, Goto, LocalsTyped, CampaignAssumption
<1>6. ASSUME NEW a \in Actors, CreateExecution(a) \/ PushJob(a) PROVE EndInv'
  BY <1>2, <1>3, <1>6 DEF CreateExecution, PushJob
<1>7. ASSUME NEW w \in Workers, Dequeue(w) PROVE EndInv'
  BY <1>0, <1>7, EndStays DEF Dequeue, Goto, LocalsTyped
<1>8. ASSUME NEW w \in Workers,
             \/ Requeue(w) \/ AcquireLock(w) \/ MarkExecution(w) \/ RunRules(w) \/ Release(w)
             \/ WorkerCrashes(w)
      PROVE  EndInv'
  BY <1>2, <1>3, <1>8
  DEF Requeue, AcquireLock, MarkExecution, RunRules, Release, WorkerCrashes
<1>9. ASSUME NEW w \in Workers, UpdateEnrollment(w) PROVE EndInv'
  <2>1. /\ \A v \in Workers : pc'[v] = "send" => pc[v] = "send"
        /\ UNCHANGED <<subject, sendsAfterEnd>>
    BY <1>0, <1>9 DEF UpdateEnrollment, Goto, LocalsTyped
  <2> QED
    BY <2>1, EndStays
\* Who comes to a send has found the enrollment ACTIVE.
<1>10. ASSUME NEW w \in Workers, ReadExecution(w) PROVE EndInv'
  <2>1. job[w] \in Executions /\ subject[w] = execution[job[w]].enrollment
    BY <1>10, IdsTyped DEF ReadExecution, RowsExist
  <2>2. pc'[w] = "send" => Active(subject[w])
    BY <1>0, <1>10, <2>1, PlansForType DEF ReadExecution, Goto, LocalsTyped, TypeInv
  <2>3. /\ \A v \in Workers \ {w} : pc'[v] = pc[v]
        /\ UNCHANGED <<subject, enrollment, sendsAfterEnd>>
    BY <1>0, <1>10 DEF ReadExecution, Goto, LocalsTyped
  <2> QED
    BY <2>2, <2>3 DEF EndInv, Active
\* Who sends has the walk, so that nobody else is about to.
<1>11. ASSUME NEW w \in Workers, SendMessage(w) PROVE EndInv'
  <2>1. /\ pc[w] = "send" /\ pc'[w] = "mark"
        /\ \A v \in Workers \ {w} : pc'[v] = pc[v]
        /\ UNCHANGED <<subject, enrollment>>
    BY <1>0, <1>11 DEF SendMessage, Goto, LocalsTyped
  <2>2. subject[w] \in Enrollments /\ sendsAfterEnd[subject[w]] = 0
    BY <2>1, IdsTyped DEF EndInv
  <2>3. \A v \in Workers \ {w} : pc[v] = "send" => subject[v] # subject[w]
    BY <2>1 DEF WalkInv, Walks
  <2>4. CASE Active(subject[w])
    BY <1>11, <2>1, <2>4 DEF SendMessage, EndInv
  <2>5. CASE ~Active(subject[w])
    <3>1. enrollment[subject[w]].status # "none"
      BY <2>1, IdsTyped DEF RowsExist
    <3>2. sendsAfterEnd' = [sendsAfterEnd EXCEPT ![subject[w]] = 1]
      BY <1>0, <1>11, <2>2, <2>5 DEF SendMessage
    <3>3. /\ sendsAfterEnd'[subject[w]] = 1
          /\ \A e \in Enrollments \ {subject[w]} : sendsAfterEnd'[e] = sendsAfterEnd[e]
      BY <1>0, <2>2, <3>2
    <3> QED
      BY <2>1, <2>3, <2>5, <3>1, <3>3 DEF EndInv, Active
  <2> QED
    BY <2>4, <2>5
<1>12. ASSUME NEW w \in Workers, WorkerThrows(w) \/ PushReplyLost(w) PROVE EndInv'
  <2>1. Unwind(w) /\ sendsAfterEnd' = sendsAfterEnd
    BY <1>12 DEF WorkerThrows, PushReplyLost
  <2>2. pc'[w] # "send" /\ \A v \in Workers \ {w} : pc'[v] = pc[v] /\ subject'[v] = subject[v]
    BY <1>0, <2>1, UnwindEffect
  <2> QED
    BY <2>1, <2>2, EndStays
<1>13. ASSUME \/ \E x \in Executions : TimePasses(x) \/ LockExpires(x)
              \/ UNCHANGED vars
       PROVE  EndInv'
  BY <1>13, EndStays DEF TimePasses, LockExpires, vars
<1> QED
  BY <1>1, <1>4, <1>5, <1>6, <1>7, <1>8, <1>9, <1>10, <1>11, <1>12, <1>13
  DEF Next, RequestStep, WorkerStep

\* A conversation gets at most one more message of an enrollment that has ended,
\* for any number of workers: that two of them might be about to send for the
\* same enrollment is what the walk excludes.
THEOREM FewSendsAfterEnd == ASSUME CampaignAssumption PROVE Spec => []SendsAfterEndBounded
<1>1. Init => EndInv
  BY DEF Init, EndInv
<1>2. TypeInv /\ RowsExist /\ TokenInv /\ WalkInv /\ EndInv /\ [Next]_vars => EndInv'
  BY NextEndInv
<1>3. EndInv => SendsAfterEndBounded
  BY DEF EndInv, SendsAfterEndBounded
<1> QED
  BY <1>1, <1>2, <1>3, WalkCorrect, PTL DEF Spec

-----------------------------------------------------------------------------
(* Nobody is left without a job *)

\* A step of process a.
ActorStep(a) ==
    \/ a \in Requests /\ (Arrival(a) \/ RequestStep(a) \/ RequestDies(a))
    \/ a \in Workers /\ (WorkerStep(a) \/ WorkerThrows(a) \/ PushReplyLost(a) \/ WorkerCrashes(a))

\* A step of nobody.
ClockStep == \E x \in Executions : TimePasses(x) \/ LockExpires(x)

LEMMA StepsOfActors ==
    ASSUME [Next]_vars PROVE ClockStep \/ UNCHANGED vars \/ \E a \in Actors : ActorStep(a)
BY DEF Next, ActorStep, ClockStep, Actors

\* What a process remembers changes by its own steps only.
LEMMA OthersRest ==
    ASSUME CampaignAssumption, TypeInv, NEW a \in Actors, ActorStep(a), NEW b \in Actors, b # a
    PROVE  pc'[b] = pc[b] /\ job'[b] = job[b] /\ subject'[b] = subject[b] /\ child'[b] = child[b]
<1> USE DEF Actors, db, redis, locals, ghosts
<1>0. LocalsTyped
  BY DEF TypeInv, TypeOK
<1>1. CASE Leave(a)
  BY <1>0, <1>1, LeaveEffect
<1>2. CASE a \in Workers /\ Unwind(a)
  BY <1>0, <1>2, UnwindEffect
<1>3. CASE a \in Requests /\ (Arrival(a) \/ RequestStep(a))
  BY <1>0, <1>1, <1>3
  DEF Arrival, BeginPauseOrResume, UpdateFlow, DeleteFlow, BeginStopFlow, BeginStopEnrollment,
      BeginEnroll, RequestStep, WritePauseOrResume, CommitStop, CheckExisting, CreateEnrollment,
      CreateExecution, PushJob, Goto, LocalsTyped
<1>4. CASE a \in Workers /\ WorkerStep(a)
  BY <1>0, <1>1, <1>4
  DEF WorkerStep, Dequeue, Requeue, AcquireLock, ReadExecution, SendMessage, MarkExecution,
      UpdateEnrollment, RunRules, CreateExecution, PushJob, Release, Goto, LocalsTyped
<1> QED
  BY <1>1, <1>2, <1>3, <1>4
  DEF ActorStep, RequestDies, WorkerThrows, PushReplyLost, WorkerCrashes

\* Nothing more is due to enrollment e.
Over(e) == ~Active(e) \/ e \in stranded \/ Gone

\* Nothing more is due to execution x.
Settled(x) == execution[x].status # "QUEUED" \/ Over(execution[x].enrollment)

LEMMA OverStays ==
    ASSUME CampaignAssumption, TypeInv, [Next]_vars,
           NEW e \in Enrollments, enrollment[e].status # "none", Over(e)
    PROVE  Over(e)'
<1> USE DEF db, redis, locals, ghosts
<1>1. CASE ~Active(e)
  BY <1>1, NextEndedStaysEnded DEF Over, Active
<1>2. CASE e \in stranded
  <2>1. stranded \subseteq stranded'
    <3>1. ASSUME NEW r \in Requests, Arrival(r) \/ RequestStep(r) \/ RequestDies(r)
          PROVE  stranded \subseteq stranded'
      BY <3>1
      DEF Arrival, BeginPauseOrResume, UpdateFlow, DeleteFlow, BeginStopFlow,
          BeginStopEnrollment, BeginEnroll, RequestStep, WritePauseOrResume, CommitStop,
          CheckExisting, CreateEnrollment, CreateExecution, PushJob, RequestDies
    <3>2. ASSUME NEW w \in Workers, WorkerStep(w)
          PROVE  stranded \subseteq stranded'
      BY <3>2
      DEF WorkerStep, Dequeue, Requeue, AcquireLock, ReadExecution, SendMessage,
          MarkExecution, UpdateEnrollment, RunRules, CreateExecution, PushJob, Release
    <3>3. ASSUME NEW w \in Workers, WorkerThrows(w) \/ PushReplyLost(w) \/ WorkerCrashes(w)
          PROVE  stranded \subseteq stranded'
      BY <3>3 DEF WorkerThrows, PushReplyLost, WorkerCrashes, Unwind
    <3>4. ClockStep \/ UNCHANGED vars => UNCHANGED stranded
      BY DEF ClockStep, TimePasses, LockExpires, vars
    <3> QED
      BY <3>1, <3>2, <3>3, <3>4, StepsOfActors DEF ActorStep
  <2> QED
    BY <1>2, <2>1 DEF Over
<1>3. CASE Gone
  <2>1. Gone'
    BY <1>3
    DEF Gone, Next, Arrival, Arrives, RequestStep, WorkerStep, vars,
        BeginPauseOrResume, UpdateFlow, DeleteFlow, BeginStopFlow, BeginStopEnrollment,
        BeginEnroll, WritePauseOrResume, CommitStop, CheckExisting, CreateEnrollment,
        CreateExecution, PushJob, RequestDies, Dequeue, Requeue, AcquireLock,
        ReadExecution, SendMessage, UpdateEnrollment, MarkExecution, RunRules, Release,
        WorkerThrows, PushReplyLost, WorkerCrashes, TimePasses, LockExpires
  <2> QED
    BY <2>1 DEF Over
<1> QED
  BY <1>1, <1>2, <1>3 DEF Over

\* What a step may do to an execution that exists: it stays with its enrollment,
\* doesn't wait again, and ceases to wait when its enrollment or it is over.
LEMMA ExecutionStays ==
    ASSUME CampaignAssumption, TypeInv, [Next]_vars,
           NEW x \in Executions, execution[x].status # "none"
    PROVE  /\ execution'[x].status # "none"
           /\ execution'[x].enrollment = execution[x].enrollment
           /\ execution[x].status # "QUEUED" => execution'[x].status # "QUEUED"
           /\ execution[x].status = "QUEUED" =>
                  \/ execution'[x].status = "QUEUED"
                  \/ Over(execution[x].enrollment)'
                  \/ \E w \in Workers : MarkExecution(w) /\ job[w] = x
<1> USE DEF db, redis, locals, ghosts
<1>0. DatabaseTyped /\ LocalsTyped /\ PlansOK /\ ReferencesOK
  BY DEF TypeInv, TypeOK
<1>1. CASE execution' = execution
  BY <1>1
<1>2. ASSUME NEW r \in Requests, CommitStop(r), StopRows(victims[r])
      PROVE  /\ execution'[x].status # "none"
             /\ execution'[x].enrollment = execution[x].enrollment
             /\ execution[x].status # "QUEUED" => execution'[x].status # "QUEUED"
             /\ execution[x].status = "QUEUED" =>
                    execution'[x].status = "QUEUED" \/ Over(execution[x].enrollment)'
  <2>1. CASE execution[x].enrollment \in victims[r] /\ execution[x].status = "QUEUED"
    <3>1. execution'[x] = [execution[x] EXCEPT !.status = "STOPPED"]
      BY <1>2, <2>1 DEF StopRows
    <3>2. execution[x].enrollment \in Enrollments
      BY <1>0 DEF ReferencesOK
    <3>3. enrollment'[execution[x].enrollment].status = "STOPPED"
      BY <1>0, <1>2, <2>1, <3>2 DEF StopRows, DatabaseTyped
    <3>4. /\ execution'[x].enrollment = execution[x].enrollment
          /\ execution'[x].status = "STOPPED"
      BY <1>0, <3>1 DEF DatabaseTyped
    <3> QED
      BY <2>1, <3>3, <3>4 DEF Over, Active
  <2>2. CASE ~(execution[x].enrollment \in victims[r] /\ execution[x].status = "QUEUED")
    BY <1>2, <2>2 DEF StopRows
  <2> QED
    BY <2>1, <2>2
<1>3. ASSUME NEW a \in Actors, CreateExecution(a) PROVE execution'[x] = execution[x]
  <2>1. PICK y \in Fresh(execution) :
            execution' = [execution EXCEPT ![y] =
                   [status |-> "QUEUED", enrollment |-> subject[a], node |-> plan[a].next]]
    BY <1>3 DEF CreateExecution
  <2>2. y # x
    BY FreshIsUnused
  <2> QED
    BY <1>0, <2>1, <2>2 DEF DatabaseTyped
<1>4. ASSUME NEW w \in Workers, MarkExecution(w)
      PROVE  /\ execution'[x].enrollment = execution[x].enrollment
             /\ \/ execution'[x].status \notin {"none", "QUEUED"} /\ job[w] = x
                \/ execution'[x] = execution[x]
  BY <1>0, <1>4 DEF MarkExecution, DatabaseTyped, PlansOK
<1>5. \/ execution' = execution
      \/ \E r \in Requests : CommitStop(r) /\ StopRows(victims[r])
      \/ \E a \in Actors : CreateExecution(a)
      \/ \E w \in Workers : MarkExecution(w)
  BY DEF Next, Arrival, RequestStep, WorkerStep, vars, Actors,
         BeginPauseOrResume, UpdateFlow, DeleteFlow, BeginStopFlow, BeginStopEnrollment,
         BeginEnroll, WritePauseOrResume, CommitStop, CheckExisting, CreateEnrollment, PushJob,
         RequestDies, Dequeue, Requeue, AcquireLock, ReadExecution, SendMessage,
         UpdateEnrollment, RunRules, Release, WorkerThrows, PushReplyLost, WorkerCrashes,
         TimePasses, LockExpires
<1> QED
  BY <1>1, <1>2, <1>3, <1>4, <1>5

LEMMA SettledStays ==
    ASSUME CampaignAssumption, TypeInv, RowsExist, [Next]_vars,
           NEW x \in Executions, execution[x].status # "none", Settled(x)
    PROVE  Settled(x)'
<1>1. CASE execution[x].status # "QUEUED"
  BY <1>1, ExecutionStays DEF Settled
<1>2. CASE Over(execution[x].enrollment)
  <2>1. /\ execution[x].enrollment \in Enrollments
        /\ enrollment[execution[x].enrollment].status # "none"
    BY IdsTyped DEF RowsExist
  <2>2. Over(execution[x].enrollment)'
    <3>1. PICK e \in Enrollments : e = execution[x].enrollment
      BY <2>1
    <3>2. Over(e)' /\ execution'[x].enrollment = e
      BY <1>2, <2>1, <3>1, OverStays, ExecutionStays
    <3> QED
      BY <3>2 DEF Over, Active
  <2> QED
    BY <2>2 DEF Settled
<1> QED
  BY <1>1, <1>2 DEF Settled

\* Process a will do something about enrollment e.
Drives(a, e) ==
    /\ subject[a] = e
    /\ \/ pc[a] \in {"got", "read"} /\ execution[job[a]].status = "QUEUED"
       \/ pc[a] \in {"send", "mark", "advance", "create"}
       \/ pc[a] = "push" /\ execution[child[a]].status = "QUEUED"

\* A job of enrollment e is on the list, and whoever takes it will.
Waits(e) ==
    \E i \in 1..Len(queue) : /\ execution[queue[i]].status = "QUEUED"
                             /\ execution[queue[i]].enrollment = e

\* A worker that has marked its execution, or passes it over, owes it nothing.
PastOK ==
    \A w \in Workers :
        pc[w] \in {"advance", "rules", "create", "push", "release"} => Settled(job[w])

Busy(w) == pc[w] \in {"read", "send", "mark"}

\* A lock that outlives its holder doesn't block an execution that waits.
LockOK ==
    \A x \in lock :
        /\ execution[x].status # "none"
        /\ Settled(x) \/ \E w \in Workers : job[w] = x /\ Busy(w)

DrivenOK == \A e \in Enrollments : Over(e) \/ Waits(e) \/ \E a \in Actors : Drives(a, e)

StallInv == PastOK /\ LockOK /\ DrivenOK

\* A worker that is busy with an execution stays so until it is settled.
LEMMA HolderMoves ==
    ASSUME CampaignAssumption, TypeInv, RowsExist, [Next]_vars,
           NEW w \in Workers, Busy(w), ActorStep(w), NEW x, x = job[w]
    PROVE  /\ Settled(x)' \/ Busy(w)'
           /\ pc'[w] = "idle" \/ job'[w] = x
<1> USE DEF db, redis, locals, ghosts, Actors
<1>0. /\ DatabaseTyped /\ LocalsTyped /\ PlansOK
      /\ x \in Executions /\ execution[x].status # "none"
      /\ subject[w] = execution[x].enrollment /\ subject[w] \in Enrollments
      /\ execution'[x].enrollment = subject[w]
  BY IdsTyped, ExecutionStays DEF TypeInv, TypeOK, RowsExist, Busy
<1>1. w \notin Requests
  BY DEF CampaignAssumption
<1>2. subject[w] \in stranded' => Settled(x)'
  BY <1>0 DEF Settled, Over
<1>3. CASE ReadExecution(w)
  BY <1>0, <1>3 DEF ReadExecution, Goto, LocalsTyped, Busy, Settled, Over, Gone
<1>4. CASE SendMessage(w)
  BY <1>0, <1>4 DEF SendMessage, Goto, LocalsTyped, Busy
<1>5. CASE MarkExecution(w)
  <2>1. execution'[x].status # "QUEUED"
    BY <1>0, <1>5 DEF MarkExecution, DatabaseTyped, PlansOK
  <2> QED
    BY <1>5, <2>1 DEF MarkExecution, Settled
<1>6. CASE WorkerThrows(w) \/ PushReplyLost(w)
  <2>1. Unwind(w)
    BY <1>6 DEF WorkerThrows, PushReplyLost
  <2> QED
    BY <1>0, <1>2, <2>1, UnwindEffect DEF Busy
<1>7. CASE WorkerCrashes(w)
  BY <1>0, <1>2, <1>7, LeaveEffect DEF WorkerCrashes
<1> QED
  BY <1>1, <1>3, <1>4, <1>5, <1>6, <1>7
  DEF ActorStep, WorkerStep, Busy, Dequeue, Requeue, AcquireLock, UpdateEnrollment, RunRules,
      CreateExecution, PushJob, Release

\* So that whoever is past an execution has settled it.
LEMMA NextPastOK ==
    ASSUME CampaignAssumption, TypeInv, RowsExist, PastOK, [Next]_vars PROVE PastOK'
<1> USE DEF db, redis, locals, ghosts, Actors
<1> DEFINE Past == {"advance", "rules", "create", "push", "release"}
<1>0. LocalsTyped /\ \A v \in Workers : pc[v] # "idle" =>
          job[v] \in Executions /\ execution[job[v]].status # "none"
  BY IdsTyped
<1>1. SUFFICES ASSUME NEW w \in Workers, pc'[w] \in Past PROVE Settled(job[w])'
  BY DEF PastOK
<1>2. ASSUME pc[w] \in Past, job'[w] = job[w] PROVE Settled(job[w])'
  <2>1. PICK x \in Executions : x = job[w] /\ execution[x].status # "none" /\ Settled(x)
    BY <1>0, <1>2 DEF PastOK
  <2>2. Settled(x)'
    BY <2>1, SettledStays
  <2> QED
    BY <1>2, <2>1, <2>2 DEF Settled
<1>3. CASE UNCHANGED <<pc, job>>
  BY <1>1, <1>2, <1>3
<1>4. ASSUME NEW a \in Actors, a # w, ActorStep(a) PROVE Settled(job[w])'
  BY <1>1, <1>2, <1>4, OthersRest
<1>5. CASE Busy(w) /\ ActorStep(w)
  <2>1. PICK x : x = job[w]
    OBVIOUS
  <2>2. Settled(x)' /\ job'[w] = x
    BY <1>1, <1>5, <2>1, HolderMoves DEF Busy
  <2> QED
    BY <2>2 DEF Settled
<1>6. CASE ~Busy(w) /\ ActorStep(w)
  <2>1. w \notin Requests
    BY DEF CampaignAssumption
  <2>2. CASE Leave(w)
    BY <1>0, <1>1, <2>2, LeaveEffect
  <2>3. CASE WorkerThrows(w) \/ PushReplyLost(w)
    <3>1. Unwind(w) /\ pc[w] \in Past \cup {"got"}
      BY <1>0, <1>6, <2>3
      DEF WorkerThrows, PushReplyLost, Fallible, NeedsRow, Busy, LocalsTyped, WorkerPC
    <3>2. CASE pc[w] = "got" /\ Leave(w)
      BY <2>2, <3>2
    <3>3. CASE pc[w] \in Past
      BY <1>0, <1>1, <1>2, <3>1, <3>3, UnwindEffect
    <3>4. CASE pc[w] = "got" /\ Goto(w, "mark")
      BY <1>0, <1>1, <3>4 DEF Goto, LocalsTyped
    <3> QED
      BY <3>1, <3>2, <3>3, <3>4 DEF Unwind
  <2>4. CASE UpdateEnrollment(w) \/ RunRules(w) \/ CreateExecution(w) \/ PushJob(w)
    <3>1. pc[w] \in Past /\ (job'[w] = job[w] \/ Leave(w))
      BY <2>4 DEF UpdateEnrollment, RunRules, CreateExecution, PushJob
    <3> QED
      BY <1>2, <2>2, <3>1
  <2>5. CASE Dequeue(w) \/ Requeue(w) \/ AcquireLock(w) \/ Release(w)
    BY <1>0, <1>1, <2>2, <2>5 DEF Dequeue, Requeue, AcquireLock, Release, Goto, LocalsTyped
  <2>6. ~(ReadExecution(w) \/ SendMessage(w) \/ MarkExecution(w))
    BY <1>6 DEF ReadExecution, SendMessage, MarkExecution, Busy
  <2> QED
    BY <1>6, <2>1, <2>2, <2>3, <2>4, <2>5, <2>6 DEF ActorStep, WorkerStep, WorkerCrashes
<1> QED
  BY <1>3, <1>4, <1>5, <1>6, StepsOfActors DEF ClockStep, TimePasses, LockExpires, vars

LEMMA NextLockOK ==
    ASSUME CampaignAssumption, TypeInv, RowsExist, LockOK, [Next]_vars PROVE LockOK'
<1> USE DEF db, redis, locals, ghosts, Actors
<1>0. /\ LocalsTyped /\ lock \subseteq Executions
      /\ \A v \in Workers : pc[v] # "idle" =>
             job[v] \in Executions /\ execution[job[v]].status # "none"
  BY IdsTyped DEF TypeInv, TypeOK, RedisTyped
<1>1. SUFFICES ASSUME NEW x \in lock'
               PROVE  /\ execution'[x].status # "none"
                      /\ Settled(x)' \/ \E w \in Workers : job'[w] = x /\ Busy(w)'
  BY DEF LockOK, Settled, Over
<1>2. CASE x \in lock
  <2>1. x \in Executions /\ execution[x].status # "none"
    BY <1>0, <1>2 DEF LockOK
  <2>2. execution'[x].status # "none"
    BY <2>1, ExecutionStays
  <2>3. CASE Settled(x)
    BY <2>1, <2>2, <2>3, SettledStays
  <2>4. ASSUME NEW w \in Workers, job[w] = x, Busy(w)
        PROVE  Settled(x)' \/ \E v \in Workers : job'[v] = x /\ Busy(v)'
    <3>1. CASE UNCHANGED <<pc, job>>
      BY <2>4, <3>1 DEF Busy
    <3>2. ASSUME NEW a \in Actors, a # w, ActorStep(a) PROVE job'[w] = x /\ Busy(w)'
      BY <2>4, <3>2, OthersRest DEF Busy
    <3>3. ASSUME ActorStep(w)
          PROVE  (job'[w] = x /\ Busy(w)') \/ Settled(x)'
      BY <2>4, <3>3, HolderMoves DEF Busy
    <3> QED
      BY <3>1, <3>2, <3>3, StepsOfActors DEF ClockStep, TimePasses, LockExpires, vars
  <2> QED
    BY <1>2, <2>2, <2>3, <2>4 DEF LockOK
<1>3. CASE x \notin lock
  <2>1. PICK w \in Workers : AcquireLock(w) /\ x = job[w] /\ job[w] \notin lock
    <3>1. ASSUME NEW r \in Requests, Arrival(r) \/ RequestStep(r) \/ RequestDies(r)
          PROVE  UNCHANGED lock
      BY <3>1
      DEF Arrival, BeginPauseOrResume, UpdateFlow, DeleteFlow, BeginStopFlow,
          BeginStopEnrollment, BeginEnroll, RequestStep, WritePauseOrResume, CommitStop,
          CheckExisting, CreateEnrollment, CreateExecution, PushJob, RequestDies
    <3>2. ASSUME NEW w \in Workers, WorkerStep(w)
          PROVE  lock' \subseteq lock \/ AcquireLock(w)
      BY <3>2
      DEF WorkerStep, Dequeue, Requeue, ReadExecution, SendMessage, MarkExecution,
          UpdateEnrollment, RunRules, CreateExecution, PushJob, Release
    <3>3. ASSUME NEW w \in Workers, WorkerThrows(w) \/ PushReplyLost(w) \/ WorkerCrashes(w)
          PROVE  UNCHANGED lock
      BY <3>3 DEF WorkerThrows, PushReplyLost, WorkerCrashes
    <3>4. ClockStep \/ UNCHANGED vars => lock' \subseteq lock
      BY DEF ClockStep, TimePasses, LockExpires, vars
    <3>5. PICK w \in Workers : AcquireLock(w)
      BY <1>1, <1>3, <3>1, <3>2, <3>3, <3>4, StepsOfActors DEF ActorStep
    <3> QED
      BY <1>1, <1>3, <3>5 DEF AcquireLock
  <2>2. pc'[w] = "read" /\ job'[w] = x /\ UNCHANGED execution /\ pc[w] = "got"
    BY <1>0, <2>1 DEF AcquireLock, Goto, LocalsTyped
  <2> QED
    BY <1>0, <2>1, <2>2 DEF Busy
<1> QED
  BY <1>2, <1>3

\* Nobody but the worker that holds an execution marks it.
LEMMA StillQueued ==
    ASSUME CampaignAssumption, TypeInv, [Next]_vars,
           NEW x \in Executions, execution[x].status = "QUEUED",
           ~ Over(execution[x].enrollment)',
           \A w \in Workers : MarkExecution(w) => job[w] # x
    PROVE  /\ execution'[x].status = "QUEUED"
           /\ execution'[x].enrollment = execution[x].enrollment
BY ExecutionStays

\* An enrollment whose job is on the list is taken care of by whoever takes it.
LEMMA WaiterDriven ==
    ASSUME CampaignAssumption, TypeInv, TokenInv, [Next]_vars,
           NEW e \in Enrollments, Waits(e), ~ Over(e)'
    PROVE  Waits(e)' \/ \E a \in Actors : Drives(a, e)'
<1> USE DEF db, redis, locals, ghosts, Actors
<1>0. LocalsTyped /\ queue \in Seq(Executions)
  BY DEF TypeInv, TypeOK, RedisTyped
<1>1. PICK i \in 1..Len(queue) : /\ execution[queue[i]].status = "QUEUED"
                                 /\ execution[queue[i]].enrollment = e
  BY DEF Waits
<1>2. PICK x \in Executions : x = queue[i]
  BY <1>0, <1>1
<1>3. /\ execution'[x].status = "QUEUED"
      /\ execution'[x].enrollment = e
  <2>1. \A w \in Workers : MarkExecution(w) => job[w] # x
    BY <1>2 DEF MarkExecution, TokenInv, OnePlace, Holds, InQueue
  <2>2. ~ Over(execution[x].enrollment)'
    <3>1. execution'[x].enrollment = e
      BY <1>1, <1>2, ExecutionStays
    <3> QED
      BY <3>1 DEF Over, Active, Gone
  <2> QED
    BY <1>1, <1>2, <2>1, <2>2, StillQueued
<1>4. CASE queue' = queue
  BY <1>1, <1>2, <1>3, <1>4 DEF Waits
<1>5. ASSUME NEW y, queue' = Append(queue, y) PROVE Waits(e)'
  <2>1. i \in 1..Len(queue') /\ queue'[i] = x
    BY <1>0, <1>2, <1>5
  <2> QED
    BY <1>3, <2>1 DEF Waits
<1>6. ASSUME NEW w \in Workers, Dequeue(w) PROVE Waits(e)' \/ Drives(w, e)'
  <2>1. /\ Len(queue) \in Nat /\ Len(queue') = Len(queue) - 1
        /\ \A j \in 1..Len(queue') : queue'[j] = queue[j + 1]
        /\ Head(queue) = queue[1]
    BY <1>0, <1>6 DEF Dequeue
  <2>2. CASE i = 1
    <3>1. job'[w] = x /\ subject'[w] = e /\ pc'[w] = "got"
      BY <1>0, <1>1, <1>2, <1>6, <2>1, <2>2 DEF Dequeue, Goto, LocalsTyped
    <3> QED
      BY <1>3, <3>1 DEF Drives
  <2>3. CASE i # 1
    <3>1. i - 1 \in 1..Len(queue') /\ queue'[i - 1] = x
      BY <1>2, <2>1, <2>3
    <3> QED
      BY <1>3, <3>1 DEF Waits
  <2> QED
    BY <2>2, <2>3
<1>7. \/ queue' = queue
      \/ \E y : queue' = Append(queue, y)
      \/ \E w \in Workers : Dequeue(w)
  BY DEF Next, Arrival, RequestStep, WorkerStep, vars,
         BeginPauseOrResume, UpdateFlow, DeleteFlow, BeginStopFlow, BeginStopEnrollment,
         BeginEnroll, WritePauseOrResume, CommitStop, CheckExisting, CreateEnrollment,
         CreateExecution, PushJob, RequestDies, Requeue, AcquireLock, ReadExecution,
         SendMessage, UpdateEnrollment, MarkExecution, RunRules, Release, WorkerThrows,
         PushReplyLost, WorkerCrashes, TimePasses, LockExpires
<1> QED
  BY <1>4, <1>5, <1>6, <1>7

\* A process that drives an enrollment keeps the execution it needs for that.
LEMMA DriverKeeps ==
    ASSUME CampaignAssumption, TypeInv, RowsExist, TokenInv, [Next]_vars,
           NEW a \in Actors, NEW e \in Enrollments, Drives(a, e), ~ Over(e)'
    PROVE  /\ pc[a] \in {"got", "read"} => execution'[job[a]].status = "QUEUED"
           /\ pc[a] = "push" => execution'[child[a]].status = "QUEUED"
<1>0. LocalsTyped
  BY DEF TypeInv, TypeOK
<1>1. ASSUME NEW x \in Executions, execution[x].status = "QUEUED", execution[x].enrollment = e,
             \A w \in Workers : MarkExecution(w) => job[w] # x
      PROVE  execution'[x].status = "QUEUED"
  <2>1. execution'[x].enrollment = e
    BY <1>1, ExecutionStays
  <2>2. ~ Over(execution[x].enrollment)'
    BY <2>1 DEF Over, Active, Gone
  <2> QED
    BY <1>1, <2>2, StillQueued
<1>2. CASE pc[a] \in {"got", "read"}
  <2>1. a \in Workers
    BY <1>0, <1>2 DEF LocalsTyped, RequestPC, Actors
  <2>2. job[a] \in Executions /\ execution[job[a]].status = "QUEUED" /\ execution[job[a]].enrollment = e
    BY <1>2, <2>1, IdsTyped DEF Drives, RowsExist
  <2>3. \A w \in Workers : MarkExecution(w) => job[w] # job[a]
    BY <1>2, <2>1 DEF MarkExecution, TokenInv, OnePlace, Holds
  <2> QED
    BY <1>1, <1>2, <2>2, <2>3
<1>3. CASE pc[a] = "push"
  <2>1. child[a] \in Executions /\ execution[child[a]].status = "QUEUED" /\ execution[child[a]].enrollment = e
    BY <1>3, IdsTyped DEF Drives, RowsExist
  <2>2. \A w \in Workers : MarkExecution(w) => job[w] # child[a]
    BY <1>3 DEF MarkExecution, TokenInv, OnePlace, Holds, Pushes
  <2> QED
    BY <1>1, <1>3, <2>1, <2>2
<1> QED
  BY <1>2, <1>3

\* What a process that drives an enrollment does next: it goes on, puts a job on
\* the list, or ends the enrollment, unless it leaves it stranded.
LEMMA DriverMoves ==
    ASSUME CampaignAssumption, TypeInv, RowsExist, TokenInv, LockOK, [Next]_vars,
           NEW a \in Actors, ActorStep(a), NEW e \in Enrollments, Drives(a, e), ~ Over(e)'
    PROVE  Waits(e)' \/ Drives(a, e)'
<1> USE DEF db, redis, locals, ghosts, Actors
<1>0. /\ DatabaseTyped /\ LocalsTyped /\ PlansOK /\ queue \in Seq(Executions)
      /\ subject[a] = e /\ Active(e)' /\ e \notin stranded' /\ ~Gone'
  BY DEF TypeInv, TypeOK, RedisTyped, Drives, Over
<1>1. ASSUME NEW x \in Executions, queue' = Append(queue, x),
             execution'[x].status = "QUEUED", execution'[x].enrollment = e
      PROVE  Waits(e)'
  <2>1. Len(queue') \in 1..Len(queue') /\ queue'[Len(queue')] = x
    BY <1>0, <1>1
  <2> QED
    BY <1>1, <2>1 DEF Waits
<1>2. CASE CreateExecution(a)
  <2>1. PICK x \in Fresh(execution) :
            /\ execution' = [execution EXCEPT ![x] =
                   [status |-> "QUEUED", enrollment |-> subject[a], node |-> plan[a].next]]
            /\ child' = [child EXCEPT ![a] = x]
    BY <1>2 DEF CreateExecution
  <2>2. x \in Executions
    BY <1>0, <2>1, FreshIsUnused DEF DatabaseTyped
  <2>3. execution'[x].status = "QUEUED" /\ child'[a] = x /\ pc'[a] = "push" /\ subject'[a] = e
    BY <1>0, <1>2, <2>1, <2>2 DEF CreateExecution, Goto, LocalsTyped, DatabaseTyped
  <2> QED
    BY <2>3 DEF Drives
<1>3. CASE PushJob(a)
  <2>1. pc[a] = "push" /\ queue' = Append(queue, child[a]) /\ UNCHANGED execution
    BY <1>3 DEF PushJob
  <2>2. /\ child[a] \in Executions /\ execution[child[a]].status = "QUEUED"
        /\ execution[child[a]].enrollment = e
    BY <1>0, <2>1, IdsTyped DEF Drives, RowsExist
  <2> QED
    BY <1>1, <2>1, <2>2
<1>4. CASE a \in Requests
  <2>1. pc[a] \in {"create", "push"}
    BY <1>0, <1>4 DEF Drives, LocalsTyped, RequestPC
  <2>2. ~ RequestDies(a)
    BY <1>0, <2>1 DEF RequestDies
  <2>3. CreateExecution(a) \/ PushJob(a)
    BY <1>4, <2>1, <2>2
    DEF ActorStep, CampaignAssumption, Arrival, Arrives, RequestStep, BeginPauseOrResume,
        UpdateFlow, DeleteFlow, BeginStopFlow, BeginStopEnrollment, BeginEnroll,
        WritePauseOrResume, CommitStop, CheckExisting, CreateEnrollment
  <2> QED
    BY <1>2, <1>3, <2>3
<1>5. CASE a \in Workers
  <2>0. a \notin Requests
    BY <1>5 DEF CampaignAssumption
  <2>1. CASE Requeue(a)
    <3>1. /\ job[a] \in Executions /\ execution[job[a]].status = "QUEUED"
          /\ execution[job[a]].enrollment = e
          /\ queue' = Append(queue, job[a]) /\ UNCHANGED execution
      BY <1>0, <1>5, <2>1, IdsTyped DEF Requeue, Drives, RowsExist
    <3> QED
      BY <1>1, <3>1
  <2>2. CASE AcquireLock(a)
    <3>1. /\ job[a] \in Executions /\ execution[job[a]].status = "QUEUED" /\ pc[a] = "got"
          /\ execution[job[a]].enrollment = e /\ enrollment[e].status # "none"
      BY <1>0, <1>5, <2>2, IdsTyped DEF AcquireLock, Drives, RowsExist
    <3>2. ~ Over(e)
      BY <3>1, OverStays
    <3>3. job[a] \notin lock
      <4>1. SUFFICES ASSUME job[a] \in lock PROVE FALSE
        OBVIOUS
      <4>2. PICK w \in Workers : job[w] = job[a] /\ Busy(w)
        BY <3>1, <3>2, <4>1 DEF LockOK, Settled
      <4> QED
        BY <1>5, <3>1, <4>2 DEF Busy, TokenInv, OnePlace, Holds
    <3> QED
      BY <1>0, <2>2, <3>1, <3>3 DEF AcquireLock, Goto, LocalsTyped, Drives
  <2>3. CASE ReadExecution(a)
    <3>1. execution[job[a]].status = "QUEUED" /\ ~Gone
      BY <1>0, <2>3 DEF ReadExecution, Drives, Gone
    <3> QED
      BY <1>0, <2>3, <3>1 DEF ReadExecution, Goto, LocalsTyped, Drives
  <2>4. CASE SendMessage(a)
    BY <1>0, <2>4 DEF SendMessage, Goto, LocalsTyped, Drives
  <2>5. CASE MarkExecution(a)
    BY <1>0, <2>5 DEF MarkExecution, Goto, LocalsTyped, Drives
  <2>6. CASE UpdateEnrollment(a)
    <3>1. plan[a] \in PlanType /\ plan[a].outcome # "KEEP"
      BY <1>0, <1>5, <2>6 DEF UpdateEnrollment, LocalsTyped, PlansOK
    <3>2. plan[a].outcome = "ADVANCE"
      <4>1. CASE plan[a].outcome \in {"COMPLETED", "FAILED"}
        <5>1. enrollment'[e].status = plan[a].outcome
          BY <1>0, <2>6, <4>1 DEF UpdateEnrollment, DatabaseTyped
        <5> QED
          BY <1>0, <4>1, <5>1 DEF Active
      <4> QED
        BY <3>1, <4>1 DEF PlanType
    <3> QED
      BY <1>0, <2>6, <3>2 DEF UpdateEnrollment, Goto, LocalsTyped, Drives
  <2>7. CASE WorkerThrows(a) \/ PushReplyLost(a)
    <3>1. Unwind(a)
      BY <2>7 DEF WorkerThrows, PushReplyLost
    <3>2. pc'[a] = "mark" /\ subject'[a] = e
      BY <1>0, <1>5, <3>1, UnwindEffect
    <3> QED
      BY <3>2 DEF Drives
  <2>8. ~ WorkerCrashes(a)
    BY <1>0 DEF WorkerCrashes
  <2>9. ~ (Dequeue(a) \/ RunRules(a) \/ Release(a))
    BY DEF Dequeue, RunRules, Release, Drives
  <2> QED
    BY <1>2, <1>3, <2>0, <2>1, <2>2, <2>3, <2>4, <2>5, <2>6, <2>7, <2>8, <2>9
    DEF ActorStep, WorkerStep
<1> QED
  BY <1>4, <1>5

LEMMA NextDrivenOK ==
    ASSUME CampaignAssumption, TypeInv, RowsExist, TokenInv, LockOK, DrivenOK, [Next]_vars
    PROVE  DrivenOK'
<1> USE DEF db, redis, locals, ghosts, Actors
<1>0. LocalsTyped /\ DatabaseTyped
  BY DEF TypeInv, TypeOK
<1>1. SUFFICES ASSUME NEW e \in Enrollments, ~ Over(e)'
               PROVE  Waits(e)' \/ \E a \in Actors : Drives(a, e)'
  BY DEF DrivenOK
\* An enrollment that is ACTIVE now was before, or was just created.
<1>2. CASE Over(e)
  <2>1. enrollment[e].status = "none"
    BY <1>1, <1>2, OverStays
  <2>2. PICK r \in Requests : CreateEnrollment(r)
    <3>1. enrollment'[e].status = "ACTIVE"
      BY <1>1 DEF Over, Active
    <3>2. ~ \E r \in Requests : CommitStop(r)
      BY <1>0, <2>1, <3>1 DEF CommitStop, StopRows, DatabaseTyped
    <3>3. ~ \E w \in Workers : UpdateEnrollment(w)
      <4>1. SUFFICES ASSUME NEW w \in Workers, UpdateEnrollment(w) PROVE FALSE
        OBVIOUS
      <4>2. subject[w] \in Enrollments /\ enrollment[subject[w]].status # "none"
        BY <4>1, IdsTyped DEF UpdateEnrollment, RowsExist
      <4>3. enrollment'[e].status = enrollment[e].status
        BY <1>0, <2>1, <4>1, <4>2 DEF UpdateEnrollment, DatabaseTyped
      <4> QED
        BY <2>1, <3>1, <4>3
    <3>4. enrollment' # enrollment
      BY <2>1, <3>1
    <3> QED
      BY <3>2, <3>3, <3>4
      DEF Next, Arrival, RequestStep, WorkerStep, vars,
         BeginPauseOrResume, UpdateFlow, DeleteFlow, BeginStopFlow, BeginStopEnrollment,
         BeginEnroll, WritePauseOrResume, CheckExisting, CreateExecution, PushJob,
         RequestDies, Dequeue, Requeue, AcquireLock, ReadExecution, SendMessage,
         MarkExecution, RunRules, Release, WorkerThrows, PushReplyLost, WorkerCrashes,
         TimePasses, LockExpires
  <2>3. PICK k \in Fresh(enrollment) :
            /\ enrollment' = [enrollment EXCEPT ![k] =
                   [status |-> "ACTIVE", conversation |-> asked[r], node |-> plan[r].next]]
            /\ subject' = [subject EXCEPT ![r] = k]
    BY <2>2 DEF CreateEnrollment
  <2>4. k = e
    BY <1>0, <1>1, <2>1, <2>3 DEF Over, Active, DatabaseTyped
  <2> QED
    BY <1>0, <2>2, <2>3, <2>4 DEF CreateEnrollment, Goto, LocalsTyped, Drives
<1>3. CASE Waits(e)
  BY <1>1, <1>3, WaiterDriven
<1>4. ASSUME NEW a \in Actors, Drives(a, e)
      PROVE  Waits(e)' \/ \E b \in Actors : Drives(b, e)'
  <2>1. CASE ActorStep(a)
    BY <1>1, <1>4, <2>1, DriverMoves
  <2>2. ASSUME pc'[a] = pc[a], job'[a] = job[a], subject'[a] = subject[a], child'[a] = child[a]
        PROVE  Drives(a, e)'
    BY <1>1, <1>4, <2>2, DriverKeeps DEF Drives
  <2>3. ASSUME NEW b \in Actors, b # a, ActorStep(b) PROVE Drives(a, e)'
    BY <2>2, <2>3, OthersRest
  <2>4. CASE UNCHANGED <<pc, job, subject, child>>
    BY <2>2, <2>4
  <2> QED
    BY <2>1, <2>3, <2>4, StepsOfActors DEF ClockStep, TimePasses, LockExpires, vars
<1> QED
  BY <1>2, <1>3, <1>4 DEF DrivenOK

\* An ACTIVE enrollment is never left without a job or a process that goes on with
\* it, for any number of workers and requests and with locks that expire or
\* outlive their holder, except by a fault, a refusal or the deletion of the flow.
THEOREM NobodyForgotten == ASSUME CampaignAssumption PROVE Spec => []NoSilentStall
<1>1. Init => StallInv
  BY DEF CampaignAssumption, Init, StallInv, PastOK, LockOK, DrivenOK, Over, Active, Actors
<1>2. TypeInv /\ RowsExist /\ TokenInv /\ WalkInv /\ StallInv /\ [Next]_vars => StallInv'
  BY NextPastOK, NextLockOK, NextDrivenOK DEF StallInv
<1>3. TypeInv /\ StallInv => NoSilentStall
  <2>1. SUFFICES ASSUME TypeInv, StallInv, NEW e \in Enrollments, ~ Over(e) PROVE Driven(e)
    BY DEF NoSilentStall, Over
  <2>2. CASE Waits(e)
    BY <2>2 DEF Waits, Driven
  <2>3. ASSUME NEW a \in Actors, Drives(a, e) PROVE Driven(e)
    BY <2>3 DEF Drives, Driven
  <2> QED
    BY <2>1, <2>2, <2>3 DEF StallInv, DrivenOK
<1> QED
  BY <1>1, <1>2, <1>3, WalkCorrect, PTL DEF Spec

-----------------------------------------------------------------------------
(* The list of jobs is a list of one-shot jobs *)

\* An execution that is still to be pushed is only known to the process that
\* created it.
ChildOK == \A a \in Actors : child[a] # Nobody => pc[a] = "push"

LEMMA NextChildOK ==
    ASSUME CampaignAssumption, TypeInv, ChildOK, [Next]_vars PROVE ChildOK'
<1> USE DEF Actors, db, redis, locals, ghosts
<1>0. LocalsTyped
  BY DEF TypeInv, TypeOK
<1>1. CASE UNCHANGED <<pc, child>>
  BY <1>1 DEF ChildOK
<1>2. ASSUME NEW a \in Actors, ActorStep(a) PROVE ChildOK'
  <2>1. \A b \in Actors \ {a} : pc'[b] = pc[b] /\ child'[b] = child[b]
    BY <1>2, OthersRest
  <2>2. child'[a] = Nobody \/ (child'[a] = child[a] /\ pc[a] # "push") \/ pc'[a] = "push"
    <3>1. CASE Leave(a)
      BY <1>0, <3>1, LeaveEffect
    <3>2. CASE a \in Workers /\ Unwind(a)
      BY <1>0, <3>2, UnwindEffect
    <3>3. CASE a \in Requests /\ (Arrival(a) \/ RequestStep(a) \/ RequestDies(a))
      BY <1>0, <3>1, <3>3
      DEF Arrival, BeginPauseOrResume, UpdateFlow, DeleteFlow, BeginStopFlow,
          BeginStopEnrollment, BeginEnroll, Arrives, RequestStep, WritePauseOrResume, CommitStop,
          CheckExisting, CreateEnrollment, CreateExecution, PushJob, RequestDies, Goto,
          LocalsTyped, CampaignAssumption
    <3>4. CASE a \in Workers /\ WorkerStep(a)
      BY <1>0, <3>1, <3>4
      DEF WorkerStep, Dequeue, Requeue, AcquireLock, ReadExecution, SendMessage, MarkExecution,
          UpdateEnrollment, RunRules, CreateExecution, PushJob, Release, Goto, LocalsTyped
    <3> QED
      BY <1>2, <3>1, <3>2, <3>3, <3>4 DEF ActorStep, WorkerThrows, PushReplyLost, WorkerCrashes
  <2> QED
    BY <2>1, <2>2 DEF ChildOK
<1> QED
  BY <1>1, <1>2, StepsOfActors DEF ClockStep, TimePasses, LockExpires, vars

Born(x) == execution[x].status # "none"

\* The two ways an execution waits: on the list, or in the hands of its creator.
Waiting(x) == InQueue(x) \/ \E a \in Actors : child[a] = x

AtWork == {"got", "read", "send"}

Taken(x) == \E w \in Workers : job[w] = x /\ pc[w] \in AtWork

\* What OneShotJobs sees of the state.
Jobs == [x \in Executions |-> JobState(x)]

\* The cases of JobState, before and after a step.
LEMMA JobStates ==
    \A x \in Executions :
        /\ ~ Born(x) => JobState(x) = "unborn"
        /\ Born(x) /\ sends[x] > 0 => JobState(x) = "over"
        /\ Born(x) /\ ~(sends[x] > 0) /\ Waiting(x) => JobState(x) = "waiting"
        /\ Born(x) /\ ~(sends[x] > 0) /\ ~Waiting(x) /\ Taken(x) => JobState(x) = "taken"
        /\ Born(x) /\ ~(sends[x] > 0) /\ ~Waiting(x) /\ ~Taken(x) => JobState(x) = "over"
BY DEF JobState, Born, Waiting, Taken, AtWork, InQueue

LEMMA JobStatesNext ==
    \A x \in Executions :
        /\ ~ Born(x)' => JobState(x)' = "unborn"
        /\ Born(x)' /\ sends'[x] > 0 => JobState(x)' = "over"
        /\ Born(x)' /\ ~(sends'[x] > 0) /\ Waiting(x)' => JobState(x)' = "waiting"
        /\ Born(x)' /\ ~(sends'[x] > 0) /\ ~Waiting(x)' /\ Taken(x)' => JobState(x)' = "taken"
        /\ Born(x)' /\ ~(sends'[x] > 0) /\ ~Waiting(x)' /\ ~Taken(x)' => JobState(x)' = "over"
BY DEF JobState, Born, Waiting, Taken, AtWork, InQueue

\* A step that moves at most one job, as OneShotJobs allows, implements it.
LEMMA OneMove ==
    ASSUME NEW j \in Executions,
           \A x \in Executions \ {j} : JobState(x)' = JobState(x),
           \/ sends' = sends /\ <<JobState(j), JobState(j)'>> \in
                  {<<"unborn", "waiting">>, <<"waiting", "taken">>, <<"taken", "waiting">>,
                   <<"waiting", "over">>, <<"taken", "over">>}
           \/ sends' = [sends EXCEPT ![j] = @ + 1] /\ JobState(j) = "taken"
                                                   /\ JobState(j)' = "over"
    PROVE  OneShot!Next
<1>1. Jobs' = [Jobs EXCEPT ![j] = JobState(j)'] /\ Jobs[j] = JobState(j)
  BY DEF Jobs
<1>2. CASE JobState(j) = "unborn" /\ JobState(j)' = "waiting" /\ sends' = sends
  BY <1>1, <1>2 DEF Jobs, OneShot!Next, OneShot!Add, OneShot!Move
<1>3. CASE JobState(j) = "waiting" /\ JobState(j)' = "taken" /\ sends' = sends
  BY <1>1, <1>3 DEF Jobs, OneShot!Next, OneShot!Take, OneShot!Move
<1>4. CASE JobState(j) = "taken" /\ JobState(j)' = "waiting" /\ sends' = sends
  BY <1>1, <1>4 DEF Jobs, OneShot!Next, OneShot!PutBack, OneShot!Move
<1>5. CASE JobState(j) \in {"waiting", "taken"} /\ JobState(j)' = "over" /\ sends' = sends
  BY <1>1, <1>5 DEF Jobs, OneShot!Next, OneShot!Lose, OneShot!Move
<1>6. CASE sends' = [sends EXCEPT ![j] = @ + 1] /\ JobState(j) = "taken" /\ JobState(j)' = "over"
  BY <1>1, <1>6 DEF Jobs, OneShot!Next, OneShot!Fire, OneShot!Move
<1> QED
  BY <1>2, <1>3, <1>4, <1>5, <1>6

\* Nothing about a job changes.
JobStays(x) == (Born(x)' <=> Born(x)) /\ (Waiting(x)' <=> Waiting(x)) /\ (Taken(x)' <=> Taken(x))

LEMMA StateStays ==
    ASSUME NEW x \in Executions, JobStays(x), sends'[x] = sends[x]
    PROVE  JobState(x)' = JobState(x)
BY JobStates, JobStatesNext DEF JobStays

OneShotStep == OneShot!Next \/ (Jobs' = Jobs /\ sends' = sends)

LEMMA NothingMoves ==
    ASSUME \A x \in Executions : JobStays(x), sends' = sends PROVE OneShotStep
BY StateStays DEF OneShotStep, Jobs

\* A held or waiting job is in one place.
LEMMA OnePlaceOfAJob ==
    ASSUME CampaignAssumption, TypeInv, TokenInv, ChildOK, NEW x \in Executions
    PROVE  ~(Waiting(x) /\ Taken(x))
<1>1. SUFFICES ASSUME NEW w \in Workers, job[w] = x, Holds(w), Waiting(x) PROVE FALSE
  BY DEF Taken, AtWork, Holds
<1>2. ~ InQueue(x)
  BY <1>1 DEF TokenInv, OnePlace
<1>3. \A a \in Actors : ~(Pushes(a) /\ child[a] = x)
  BY <1>1 DEF TokenInv, OnePlace
<1>4. x # Nobody
  BY DEF CampaignAssumption
<1> QED
  BY <1>1, <1>2, <1>3, <1>4 DEF Waiting, ChildOK, Pushes

\* A job may only be lost.
LEMMA JobLost ==
    ASSUME CampaignAssumption, TypeInv, TokenInv, ChildOK, NEW j \in Executions,
           \A x \in Executions \ {j} : JobStays(x), sends' = sends,
           Born(j)' <=> Born(j), Waiting(j)' => Waiting(j), Taken(j)' => Taken(j)
    PROVE  OneShotStep
<1>1. \A x \in Executions \ {j} : JobState(x)' = JobState(x)
  BY StateStays
<1>2. CASE JobState(j)' = JobState(j)
  BY <1>1, <1>2 DEF OneShotStep, Jobs
<1>3. CASE JobState(j)' # JobState(j)
  <2>1. JobState(j) \in {"waiting", "taken"} /\ JobState(j)' = "over"
    BY <1>3, JobStates, JobStatesNext, OnePlaceOfAJob
  <2> QED
    BY <1>1, <2>1, OneMove DEF OneShotStep
<1> QED
  BY <1>2, <1>3

\* A process that creates, takes, sends and pushes nothing may only lose a job.
LEMMA ActorLoses ==
    ASSUME CampaignAssumption, TypeInv, TokenInv, ChildOK, NEW a \in Actors,
           \A b \in Actors \ {a} : pc'[b] = pc[b] /\ job'[b] = job[b] /\ child'[b] = child[b],
           queue' = queue, sends' = sends,
           \A x \in Executions : Born(x)' <=> Born(x),
           child'[a] \in {child[a], Nobody},
           a \in Workers /\ pc'[a] \in AtWork => pc[a] \in AtWork /\ job'[a] = job[a]
    PROVE  OneShotStep
<1> USE DEF Actors
<1>0. Nobody \notin Executions /\ child[a] \in Executions \cup {Nobody}
  BY DEF CampaignAssumption, TypeInv, TypeOK, LocalsTyped
<1>1. \A x \in Executions : InQueue(x)' <=> InQueue(x)
  BY DEF InQueue
<1>2. \A x \in Executions : x # child[a] => (Waiting(x)' <=> Waiting(x))
  BY <1>0, <1>1 DEF Waiting
<1>3. \A x \in Executions : Waiting(x)' => Waiting(x)
  BY <1>0, <1>1 DEF Waiting
<1>4. \A x \in Executions : Taken(x)' => Taken(x)
  BY DEF Taken
<1>5. \A x \in Executions :
          ~(a \in Workers /\ pc[a] \in AtWork /\ x = job[a]) => (Taken(x)' <=> Taken(x))
  BY DEF Taken
<1>6. CASE child[a] # Nobody
  <2>1. child[a] \in Executions /\ pc[a] \notin AtWork
    BY <1>0, <1>6 DEF ChildOK, AtWork
  <2>2. PICK j \in Executions : j = child[a]
    BY <2>1
  <2>3. \A x \in Executions \ {j} : JobStays(x)
    BY <1>2, <1>5, <2>1, <2>2 DEF JobStays
  <2> QED
    BY <1>3, <1>4, <2>3, JobLost
<1>7. CASE child[a] = Nobody /\ a \in Workers /\ pc[a] \in AtWork /\ job[a] \in Executions
  <2>1. PICK j \in Executions : j = job[a]
    BY <1>7
  <2>2. \A x \in Executions \ {j} : JobStays(x)
    BY <1>0, <1>2, <1>5, <1>7, <2>1 DEF JobStays
  <2> QED
    BY <1>3, <1>4, <2>2, JobLost
<1>8. CASE child[a] = Nobody /\ ~(a \in Workers /\ pc[a] \in AtWork /\ job[a] \in Executions)
  <2>1. \A x \in Executions : JobStays(x)
    BY <1>0, <1>2, <1>5, <1>8 DEF JobStays
  <2> QED
    BY <2>1, NothingMoves
<1> QED
  BY <1>6, <1>7, <1>8

\* A job that is put on the list and given up by its holder.
LEMMA ActorAppends ==
    ASSUME CampaignAssumption, TypeInv, TokenInv, ChildOK, NEW a \in Actors,
           \A b \in Actors \ {a} : pc'[b] = pc[b] /\ job'[b] = job[b] /\ child'[b] = child[b],
           NEW j \in Executions, queue' = Append(queue, j), sends' = sends,
           execution' = execution, child'[a] = Nobody, pc'[a] \notin AtWork,
           \/ pc[a] = "push" /\ child[a] = j
           \/ a \in Workers /\ pc[a] \in AtWork /\ job[a] = j
    PROVE  OneShotStep
<1> USE DEF Actors
<1>0. Nobody \notin Executions /\ queue \in Seq(Executions)
  BY DEF CampaignAssumption, TypeInv, TypeOK, RedisTyped
<1>1. \A x \in Executions : InQueue(x)' <=> InQueue(x) \/ x = j
  BY <1>0 DEF InQueue
<1>2. \A x \in Executions : Born(x)' <=> Born(x)
  BY DEF Born
<1>3. CASE pc[a] = "push" /\ child[a] = j
  <2>1. \A x \in Executions : Waiting(x)' <=> Waiting(x)
    BY <1>0, <1>1, <1>3 DEF Waiting
  <2>2. \A x \in Executions : Taken(x)' <=> Taken(x)
    BY <1>3 DEF Taken, AtWork
  <2> QED
    BY <1>2, <2>1, <2>2, NothingMoves DEF JobStays
<1>4. CASE a \in Workers /\ pc[a] \in AtWork /\ job[a] = j
  <2>0. child[a] = Nobody
    BY <1>4 DEF ChildOK, AtWork
  <2>1. \A x \in Executions \ {j} : JobStays(x)
    <3>1. \A x \in Executions \ {j} : Waiting(x)' <=> Waiting(x)
      BY <1>0, <1>1, <2>0 DEF Waiting
    <3>2. \A x \in Executions \ {j} : Taken(x)' <=> Taken(x)
      BY <1>4 DEF Taken
    <3> QED
      BY <1>2, <3>1, <3>2 DEF JobStays
  <2>2. \A x \in Executions \ {j} : JobState(x)' = JobState(x)
    BY <2>1, StateStays
  <2>3. Taken(j) /\ ~ Waiting(j) /\ Waiting(j)'
    BY <1>1, <1>4, OnePlaceOfAJob DEF Taken, Waiting
  <2>4. Born(j)' /\ Born(j) /\ ~(sends[j] > 0)
    BY <1>2, <1>4 DEF Born, TypeInv, TypeOK, ReferencesOK, AtWork, TokenInv, SentOnce, GhostsTyped
  <2>5. JobState(j) = "taken" /\ JobState(j)' = "waiting"
    BY <2>3, <2>4, JobStates, JobStatesNext
  <2> QED
    BY <2>2, <2>5, OneMove DEF OneShotStep
<1> QED
  BY <1>3, <1>4

\* Every step implements a step of OneShotJobs or none.
LEMMA NextOneShot ==
    ASSUME CampaignAssumption, TypeInv, TokenInv, ChildOK, [Next]_vars PROVE OneShotStep
<1> USE DEF Actors, db, redis, locals, ghosts
<1>0. /\ LocalsTyped /\ ReferencesOK /\ DatabaseTyped /\ sends \in [Executions -> Nat]
      /\ queue \in Seq(Executions) /\ Nobody \notin Executions
  BY DEF TypeInv, TypeOK, GhostsTyped, RedisTyped, CampaignAssumption
<1>1. ASSUME NEW a \in Actors, ActorStep(a), queue' = queue, sends' = sends,
             \A x \in Executions : Born(x)' <=> Born(x),
             child'[a] \in {child[a], Nobody},
             a \in Workers /\ pc'[a] \in AtWork => pc[a] \in AtWork /\ job'[a] = job[a]
      PROVE  OneShotStep
  <2>1. \A b \in Actors \ {a} : pc'[b] = pc[b] /\ job'[b] = job[b] /\ child'[b] = child[b]
    BY <1>1, OthersRest
  <2> QED
    BY <1>1, <2>1, ActorLoses
<1>2. ASSUME NEW r \in Requests, Arrival(r) \/ RequestDies(r) \/ WritePauseOrResume(r)
                                 \/ CheckExisting(r) \/ CreateEnrollment(r)
      PROVE  OneShotStep
  <2>1. queue' = queue /\ sends' = sends /\ execution' = execution /\ child'[r] \in {child[r], Nobody}
    BY <1>0, <1>2
    DEF Arrival, BeginPauseOrResume, UpdateFlow, DeleteFlow, BeginStopFlow, BeginStopEnrollment,
        BeginEnroll, RequestDies, WritePauseOrResume, CheckExisting, CreateEnrollment, Leave,
        LocalsTyped
  <2>2. r \notin Workers /\ ActorStep(r)
    BY <1>2 DEF ActorStep, RequestStep, CampaignAssumption
  <2> QED
    BY <1>1, <2>1, <2>2 DEF Born
<1>3. ASSUME NEW r \in Requests, CommitStop(r) PROVE OneShotStep
  <2>1. \A x \in Executions : Born(x)' <=> Born(x)
    BY <1>0, <1>3, StopRowsEffect DEF CommitStop, Born
  <2>2. queue' = queue /\ sends' = sends /\ child'[r] \in {child[r], Nobody}
    BY <1>0, <1>3, LeaveEffect DEF CommitStop
  <2>3. r \notin Workers /\ ActorStep(r)
    BY <1>3 DEF ActorStep, RequestStep, CampaignAssumption
  <2> QED
    BY <1>1, <2>1, <2>2, <2>3
<1>4. ASSUME NEW a \in Actors, ActorStep(a), CreateExecution(a) PROVE OneShotStep
  <2>1. PICK x \in Fresh(execution) :
            /\ execution' = [execution EXCEPT ![x] =
                   [status |-> "QUEUED", enrollment |-> subject[a], node |-> plan[a].next]]
            /\ child' = [child EXCEPT ![a] = x]
    BY <1>4 DEF CreateExecution
  <2>2. x \in Executions /\ execution[x].status = "none"
    BY <1>0, FreshIsUnused DEF DatabaseTyped
  <2>3. pc[a] = "create" /\ pc' = [pc EXCEPT ![a] = "push"] /\ UNCHANGED <<queue, sends, job>>
    BY <1>4 DEF CreateExecution, Goto
  <2>4. child[a] = Nobody
    BY <2>3 DEF ChildOK
  <2>5. \A y \in Executions : Taken(y)' <=> Taken(y)
    BY <1>0, <2>3 DEF Taken, AtWork, LocalsTyped
  <2>6. \A y \in Executions : Waiting(y)' <=> Waiting(y) \/ y = x
    BY <1>0, <2>1, <2>3, <2>4 DEF Waiting, InQueue, LocalsTyped
  <2>7. \A y \in Executions \ {x} : Born(y)' <=> Born(y)
    BY <1>0, <2>1 DEF Born, DatabaseTyped
  <2>8. \A y \in Executions \ {x} : JobState(y)' = JobState(y)
    BY <2>3, <2>5, <2>6, <2>7, StateStays DEF JobStays
  <2>9. Born(x)' /\ ~ Born(x) /\ ~(sends'[x] > 0)
    BY <1>0, <2>1, <2>2, <2>3 DEF Born, DatabaseTyped, TokenInv, SentOnce
  <2>10. JobState(x) = "unborn" /\ JobState(x)' = "waiting"
    BY <2>2, <2>6, <2>9, JobStates, JobStatesNext
  <2> QED
    BY <2>2, <2>3, <2>8, <2>10, OneMove DEF OneShotStep
<1>5. ASSUME NEW a \in Actors, ActorStep(a), PushJob(a) \/ (a \in Workers /\ PushReplyLost(a))
      PROVE  OneShotStep
  <2>1. \A b \in Actors \ {a} : pc'[b] = pc[b] /\ job'[b] = job[b] /\ child'[b] = child[b]
    BY <1>5, OthersRest
  <2>2. pc[a] = "push" /\ child[a] \in Executions /\ execution' = execution /\ sends' = sends
        /\ queue' = Append(queue, child[a])
    BY <1>0, <1>5 DEF PushJob, PushReplyLost, ReferencesOK
  <2>3. child'[a] = Nobody /\ pc'[a] \notin AtWork
    BY <1>0, <1>5, LeaveEffect, UnwindEffect DEF PushJob, PushReplyLost, Goto, AtWork, LocalsTyped
  <2>4. PICK j \in Executions : j = child[a]
    BY <2>2
  <2> QED
    BY <2>1, <2>2, <2>3, <2>4, ActorAppends
<1>6. ASSUME NEW w \in Workers, ActorStep(w), Requeue(w) PROVE OneShotStep
  <2>1. \A b \in Actors \ {w} : pc'[b] = pc[b] /\ job'[b] = job[b] /\ child'[b] = child[b]
    BY <1>6, OthersRest
  <2>2. pc[w] \in AtWork /\ job[w] \in Executions /\ execution' = execution /\ sends' = sends
        /\ queue' = Append(queue, job[w])
    BY <1>0, <1>6 DEF Requeue, ReferencesOK, AtWork
  <2>3. child'[w] = Nobody /\ pc'[w] \notin AtWork
    BY <1>0, <1>6, LeaveEffect DEF Requeue, AtWork
  <2>4. PICK j \in Executions : j = job[w]
    BY <2>2
  <2> QED
    BY <2>1, <2>2, <2>3, <2>4, ActorAppends
<1>7. ASSUME NEW w \in Workers, Dequeue(w) PROVE OneShotStep
  <2>1. PICK h : h = Head(queue)
    OBVIOUS
  <2>2. Distinct(queue)
    BY DEF TokenInv, OnePlace, Distinct
  <2>3. /\ h \in Executions /\ InQueue(h) /\ ~InQueue(h)'
        /\ \A y \in Executions \ {h} : InQueue(y)' <=> InQueue(y)
    <3>1. h \in Executions /\ InQueue(h) /\ ~InQueue(h)' /\ \A y : InQueue(y)' => InQueue(y)
      BY <1>0, <1>7, <2>1, <2>2, TakeHead DEF Dequeue
    <3>2. ASSUME NEW y \in Executions \ {h}, InQueue(y) PROVE InQueue(y)'
      <4>1. PICK i \in 1..Len(queue) : queue[i] = y
        BY <3>2 DEF InQueue
      <4>2. i # 1 /\ i \in Nat /\ Len(queue) \in Nat
        BY <1>0, <1>7, <2>1, <3>2, <4>1 DEF Dequeue
      <4>3. queue' = Tail(queue) /\ queue # <<>>
        BY <1>7 DEF Dequeue
      <4>4. i - 1 \in 1..Len(queue') /\ queue'[i - 1] = queue[i]
        BY <1>0, <4>1, <4>2, <4>3
      <4> QED
        BY <4>1, <4>4 DEF InQueue
    <3> QED
      BY <3>1, <3>2
  <2>4. /\ pc[w] = "idle" /\ pc' = [pc EXCEPT ![w] = "got"] /\ job' = [job EXCEPT ![w] = h]
        /\ UNCHANGED <<child, sends, execution>>
    BY <1>7, <2>1 DEF Dequeue, Goto
  <2>5. \A y \in Executions : Taken(y)' <=> Taken(y) \/ y = h
    BY <1>0, <2>4 DEF Taken, AtWork, LocalsTyped
  <2>6. \A y \in Executions \ {h} : JobStays(y)
    BY <2>3, <2>4, <2>5 DEF JobStays, Waiting, Born
  <2>7. \A y \in Executions \ {h} : JobState(y)' = JobState(y)
    BY <2>4, <2>6, StateStays
  <2>8. Waiting(h) /\ ~ Waiting(h)' /\ Taken(h)'
    <3>1. \A a \in Actors : child[a] # h
      BY <1>0, <2>3 DEF TokenInv, OnePlace, ChildOK, Pushes
    <3> QED
      BY <2>3, <2>4, <2>5, <3>1 DEF Waiting
  <2>9. Born(h) /\ Born(h)' /\ ~(sends[h] > 0)
    BY <1>0, <2>3, <2>4 DEF Born, ReferencesOK, InQueue, TokenInv, SentOnce
  <2>10. JobState(h) = "waiting" /\ JobState(h)' = "taken"
    BY <2>3, <2>4, <2>8, <2>9, JobStates, JobStatesNext
  <2> QED
    BY <2>3, <2>4, <2>7, <2>10, OneMove DEF OneShotStep
<1>8. ASSUME NEW w \in Workers, SendMessage(w) PROVE OneShotStep
  <2>1. PICK j \in Executions : j = job[w]
    BY <1>0, <1>8 DEF SendMessage, ReferencesOK
  <2>2. /\ pc[w] = "send" /\ pc' = [pc EXCEPT ![w] = "mark"] /\ sends' = [sends EXCEPT ![j] = @ + 1]
        /\ UNCHANGED <<child, job, queue, execution>>
    BY <1>8, <2>1 DEF SendMessage, Goto
  <2>3. Taken(j) /\ ~ Waiting(j) /\ Born(j) /\ Born(j)' /\ sends[j] = 0
    BY <1>0, <2>1, <2>2, OnePlaceOfAJob DEF Taken, AtWork, Born, ReferencesOK, TokenInv, SentOnce
  <2>4. \A y \in Executions \ {j} : JobStays(y) /\ sends'[y] = sends[y]
    BY <1>0, <2>1, <2>2 DEF JobStays, Waiting, InQueue, Taken, AtWork, Born, LocalsTyped
  <2>5. JobState(j) = "taken" /\ JobState(j)' = "over"
    BY <1>0, <2>2, <2>3, JobStates, JobStatesNext
  <2> QED
    BY <2>2, <2>4, <2>5, StateStays, OneMove DEF OneShotStep
<1>9. ASSUME NEW w \in Workers, ActorStep(w),
             AcquireLock(w) \/ ReadExecution(w) \/ UpdateEnrollment(w)
             \/ RunRules(w) \/ Release(w) \/ WorkerThrows(w) \/ WorkerCrashes(w)
      PROVE  OneShotStep
  <2>1. queue' = queue /\ sends' = sends /\ execution' = execution
    BY <1>9 DEF AcquireLock, ReadExecution, UpdateEnrollment, RunRules, Release,
           WorkerThrows, WorkerCrashes
  <2>2. child'[w] \in {child[w], Nobody}
    BY <1>0, <1>9, LeaveEffect, UnwindEffect
    DEF AcquireLock, ReadExecution, UpdateEnrollment, RunRules, Release, WorkerThrows,
        WorkerCrashes
  <2>3. pc'[w] \in AtWork => pc[w] \in AtWork /\ job'[w] = job[w]
    <3>1. CASE AcquireLock(w) \/ ReadExecution(w) \/ UpdateEnrollment(w) \/ RunRules(w)
      BY <1>0, <3>1, LeaveEffect
      DEF AcquireLock, ReadExecution, UpdateEnrollment, RunRules, Goto, AtWork, LocalsTyped
    <3>2. CASE Release(w) \/ WorkerThrows(w) \/ WorkerCrashes(w)
      BY <1>0, <3>2, LeaveEffect, UnwindEffect DEF Release, WorkerThrows, WorkerCrashes, AtWork
    <3> QED
      BY <1>9, <3>1, <3>2
  <2> QED
    BY <1>1, <1>9, <2>1, <2>2, <2>3 DEF Born
<1>10. ASSUME NEW w \in Workers, ActorStep(w), MarkExecution(w) PROVE OneShotStep
  <2>1. \A x \in Executions : Born(x)' <=> Born(x)
    BY <1>0, <1>10 DEF MarkExecution, TypeInv, DatabaseTyped, PlansOK, ReferencesOK, Born
  <2>2. queue' = queue /\ sends' = sends /\ child' = child /\ pc'[w] \notin AtWork
    BY <1>0, <1>10 DEF MarkExecution, Goto, AtWork, LocalsTyped
  <2> QED
    BY <1>1, <1>10, <2>1, <2>2
<1>11. CASE ClockStep \/ UNCHANGED vars
  <2>1. UNCHANGED <<queue, sends, execution, child, pc, job>>
    BY <1>11 DEF ClockStep, TimePasses, LockExpires, vars
  <2>2. \A x \in Executions : JobStays(x)
    BY <2>1 DEF JobStays, Born, Waiting, Taken, InQueue
  <2> QED
    BY <2>1, <2>2, NothingMoves
<1>12. ASSUME NEW a \in Actors, ActorStep(a) PROVE OneShotStep
  BY <1>2, <1>3, <1>4, <1>5, <1>6, <1>7, <1>8, <1>9, <1>10, <1>12
  DEF ActorStep, RequestStep, WorkerStep
<1> QED
  BY <1>11, <1>12, StepsOfActors

\* The Redis list, the workers and the processes that fill it implement the
\* promise of OneShotJobs: a job is with one holder at a time, goes back only
\* untouched, and is fired at most once, whatever faults happen.
THEOREM OneShotImplemented == ASSUME CampaignAssumption PROVE Spec => JobsAreOneShot
<1>1. Init => TypeInv /\ TokenInv /\ ChildOK
  BY InitTypeInv DEF CampaignAssumption, Init, TokenInv, OnePlace, SentOnce, Holds, Pushes,
     InQueue, Actors, ChildOK
<1>2. TypeInv /\ TokenInv /\ ChildOK /\ [Next]_vars => TypeInv' /\ TokenInv' /\ ChildOK'
  BY NextTypeInv, NextTokenInv, NextChildOK
<1>3. Init => OneShot!Init
  <2>1. Init => \A x \in Executions : JobState(x) = "unborn"
    BY DEF Init, JobState
  <2> QED
    BY <2>1 DEF Init, OneShot!Init
<1>4. TypeInv /\ TokenInv /\ ChildOK /\ [Next]_vars =>
          [OneShot!Next]_<<[x \in Executions |-> JobState(x)], sends>>
  BY NextOneShot DEF OneShotStep, Jobs
<1> QED
  BY <1>1, <1>2, <1>3, <1>4, PTL DEF Spec, JobsAreOneShot, OneShot!Spec

=============================================================================
