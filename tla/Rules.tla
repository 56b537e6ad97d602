------------------------------- MODULE Rules -------------------------------
(***************************************************************************)
(* Campaign rules that react to whether a message was read: the receipts   *)
(* of the socket, each of which cancels the message's pending check and    *)
(* runs the rules for READ_MESSAGE, first for the broadcast that sent the  *)
(* message and then for every ACTIVE enrollment of its conversation, and   *)
(* the worker, which claims a check that is due and, if the message is     *)
(* still unread, runs the rules for DIDNT_READ_MESSAGE.                    *)
(*                                                                         *)
(* Data left out: what an action does, conditions, tags and stages; the    *)
(* other events that run rules (a sequence subscribed to, left, completed) *)
(* come from module CampaignRuntime's steps, once each.  That a READ may   *)
(* be overwritten is shown by module Messages; here it stays.  The names   *)
(* differ from those of Messages, for one module proves about both.        *)
(***************************************************************************)
EXTENDS Naturals, FiniteSets

CONSTANTS
    Receivers,    \* READ updates being handled
    Workers,      \* processes that go through the checks that are due
    Messages,     \* of a broadcast or sequence
    Broadcasts,   \* those of a broadcast
    Flows,        \* the sequences that a conversation may be enrolled in
    ActionCount,  \* how many actions the rule has, each of a type of its own
    MaxReads,     \* bound: READ updates, repeated ones included
    MaxEnrollments,  \* bound: ACTIVE enrollments of a conversation
    Fallible,     \* bound: the keys whose actions may fail
    RuleFaults    \* the other faults that may happen

\* Whose the rules' run is: that of the broadcast that sent the message (of the
\* flow or broadcast in the check's row, for a worker), or of an enrollment.
Own == "own"
Sources == {Own} \cup Flows

ASSUME RulesAssumption ==
    /\ Receivers \cap Workers = {}
    /\ Broadcasts \subseteq Messages
    /\ Own \notin Flows
    /\ MaxEnrollments \in Nat
    /\ ActionCount \in Nat \ {0}
    /\ MaxReads \in Nat
    /\ RuleFaults \subseteq {"crash"}

RuleEvents == {"READ_MESSAGE", "DIDNT_READ_MESSAGE"}

Reactors == Receivers \cup Workers

Actions == 1 .. ActionCount

\* buildRuleActionDedupeKey: the run's source stands for its flowId, sequenceId
\* and broadcastId, the message for its conversation and customer.  An action
\* is known by its type: a second one of a type would have the first one's key.
Keys == RuleEvents \X Messages \X Sources \X Actions

ASSUME FallibleAssumption == Fallible \subseteq Keys

VARIABLES
    reported,    \* how many READ updates have come
    read,        \* the messages whose deliveryStatus is READ
    check,       \* the status of each message's check; "none": no row
    executed,    \* the keys with a RULE_ACTION_EXECUTED record
    effects,     \* how often the action of each key took effect
    at,          \* what each handler does next
    message,     \* the message it is about
    source,      \* whose run of the rules it is in
    left,        \* how many enrollments it found that are still to come
    index,       \* the action it has come to
    overlapped,  \* history: keys that two handlers took for new at once
    unrecorded,  \* history: keys whose effect came without its record
    read0,       \* history: messages that were READ when their check was claimed
    dropped      \* history: messages whose check a worker left in the middle

ruleLocals  == <<at, message, source, left, index>>
ruleHistory == <<overlapped, unrecorded, read0, dropped>>
ruleVars    == <<reported, read, check, executed, effects, ruleLocals, ruleHistory>>

NoMessage == "none"

Event(h) == IF h \in Workers THEN "DIDNT_READ_MESSAGE" ELSE "READ_MESSAGE"

Key(h) == <<Event(h), message[h], source[h], index[h]>>

Start(h, where, m) ==
    /\ at[h] = "idle"
    /\ at' = [at EXCEPT ![h] = where]
    /\ message' = [message EXCEPT ![h] = m]
    /\ UNCHANGED <<source, left, index>>

Proceed(h, where) ==
    /\ at' = [at EXCEPT ![h] = where]
    /\ UNCHANGED <<message, source, left, index>>

Stop(h) ==
    /\ at' = [at EXCEPT ![h] = "idle"]
    /\ message' = [message EXCEPT ![h] = NoMessage]
    /\ source' = [source EXCEPT ![h] = Own]
    /\ left' = [left EXCEPT ![h] = 0]
    /\ index' = [index EXCEPT ![h] = 0]

\* The next run of the rules, for the first of n enrollments.  They were read
\* in one query; whose each is shows when its turn comes, and two may be of
\* one flow.
NextEnrollment(h, n) ==
    IF n = 0 THEN Stop(h)
    ELSE /\ \E f \in Flows : source' = [source EXCEPT ![h] = f]
         /\ left' = [left EXCEPT ![h] = n - 1]
         /\ index' = [index EXCEPT ![h] = 0]
         /\ at' = [at EXCEPT ![h] = "rules"]
         /\ UNCHANGED message

\* A run of the rules is through: the worker has the check's row to update, a
\* receiver goes on to the enrollments.
Through(h) ==
    \/ h \in Workers /\ Proceed(h, "finish")
    \/ /\ h \in Receivers /\ source[h] = Own
       /\ at' = [at EXCEPT ![h] = "enrollments"]
       /\ index' = [index EXCEPT ![h] = 0]
       /\ UNCHANGED <<message, source, left>>
    \/ h \in Receivers /\ source[h] # Own /\ NextEnrollment(h, left[h])

\* The next action, in the rule's order, whatever became of the last one.
NextAction(h) ==
    IF index[h] = ActionCount THEN Through(h)
    ELSE /\ at' = [at EXCEPT ![h] = "look up"]
         /\ index' = [index EXCEPT ![h] = @ + 1]
         /\ UNCHANGED <<message, source, left>>

RulesInit ==
    /\ reported = 0
    /\ read = {}
    /\ check = [m \in Messages |-> "none"]
    /\ executed = {}
    /\ effects = [k \in Keys |-> 0]
    /\ at = [h \in Reactors |-> "idle"]
    /\ message = [h \in Reactors |-> NoMessage]
    /\ source = [h \in Reactors |-> Own]
    /\ left = [h \in Reactors |-> 0]
    /\ index = [h \in Reactors |-> 0]
    /\ overlapped = {}
    /\ unrecorded = {}
    /\ read0 = {}
    /\ dropped = {}

-----------------------------------------------------------------------------
(* Checks *)

\* scheduleDidntReadCheck, once the message has been sent.  It may have been
\* read by then.
Schedule(m) ==
    /\ check[m] = "none"
    /\ check' = [check EXCEPT ![m] = "PENDING"]
    /\ UNCHANGED <<reported, read, executed, effects, ruleLocals, ruleHistory>>

\* A READ update, new or repeated: the status is stored, then
\* processCampaignReadEvent is called.
ReceiveRead(h, m) ==
    /\ reported < MaxReads
    /\ reported' = reported + 1
    /\ read' = read \cup {m}
    /\ Start(h, "find", m)
    /\ UNCHANGED <<check, executed, effects, ruleHistory>>

\* cancelDidntReadCheckForRead looks for a PENDING check ...
FindPending(h) ==
    /\ at[h] = "find"
    /\ Proceed(h, IF check[message[h]] = "PENDING" THEN "cancel" ELSE "recipient")
    /\ UNCHANGED <<reported, read, check, executed, effects, ruleHistory>>

\* ... and cancels what it found by id, whatever became of it.
Cancel(h) ==
    /\ at[h] = "cancel"
    /\ check' = [check EXCEPT ![message[h]] = "CANCELED"]
    /\ Proceed(h, "recipient")
    /\ UNCHANGED <<reported, read, executed, effects, ruleHistory>>

\* The recipient's row of a broadcast, if there is one that has the message's id
\* by now: the rules are run for it.
FindRecipient(h) ==
    /\ at[h] = "recipient"
    /\ \/ message[h] \in Broadcasts /\ Proceed(h, "rules")
       \/ Proceed(h, "enrollments")
    /\ UNCHANGED <<reported, read, check, executed, effects, ruleHistory>>

\* The conversation's ACTIVE enrollments: the rules are run for one after another.
FindEnrollments(h) ==
    /\ at[h] = "enrollments"
    /\ \E n \in 0 .. MaxEnrollments : NextEnrollment(h, n)
    /\ UNCHANGED <<reported, read, check, executed, effects, ruleHistory>>

\* processWhatsAppRulePendingChecksBatch claims a check that is due.
Claim(h, m) ==
    /\ check[m] = "PENDING"
    /\ check' = [check EXCEPT ![m] = "PROCESSING"]
    /\ read0' = IF m \in read THEN read0 \cup {m} ELSE read0
    /\ Start(h, "look", m)
    /\ UNCHANGED <<reported, read, executed, effects, overlapped, unrecorded, dropped>>

\* Mutant: the message is not looked at again.
LookAway(h) ==
    /\ at[h] = "look"
    /\ Proceed(h, "rules")
    /\ UNCHANGED <<reported, read, check, executed, effects, ruleHistory>>

\* Mutant: a message that was read leaves the check as it is.
LookAndLeave(h) ==
    /\ at[h] = "look"
    /\ IF message[h] \in read THEN Stop(h) ELSE Proceed(h, "rules")
    /\ UNCHANGED <<reported, read, check, executed, effects, ruleHistory>>

\* It looks at the message: if it was read meanwhile, the check is canceled.  The
\* message is there: the check's foreign keys (ON DELETE RESTRICT) keep it.
Look(h) ==
    /\ at[h] = "look"
    /\ IF message[h] \in read
       THEN /\ check' = [check EXCEPT ![message[h]] = "CANCELED"]
            /\ Stop(h)
       ELSE Proceed(h, "rules") /\ UNCHANGED check
    /\ UNCHANGED <<reported, read, executed, effects, ruleHistory>>

Finish(h) ==
    /\ at[h] = "finish"
    /\ check' = [check EXCEPT ![message[h]] = "PROCESSED"]
    /\ Stop(h)
    /\ UNCHANGED <<reported, read, executed, effects, ruleHistory>>

-----------------------------------------------------------------------------
(* Actions *)

\* processFlowRulesForEvent: there is a rule for the event, or none (none that
\* is active and whose condition holds).
RunRules(h) ==
    /\ at[h] = "rules"
    /\ NextAction(h) \/ Through(h)
    /\ UNCHANGED <<reported, read, check, executed, effects, ruleHistory>>

\* The handlers that have found no record of a key.
Doing(k) == {g \in Reactors : at[g] \in {"act", "record"} /\ Key(g) = k}

\* Mutant: the lookup is in vain.
LookUpInVain(h) ==
    /\ at[h] = "look up"
    /\ Proceed(h, "act")
    /\ overlapped' = IF Doing(Key(h)) = {} THEN overlapped ELSE overlapped \cup {Key(h)}
    /\ UNCHANGED <<reported, read, check, executed, effects, unrecorded, read0, dropped>>

\* alreadyExecutedRuleAction
LookUp(h) ==
    /\ at[h] = "look up"
    /\ IF Key(h) \in executed
       THEN NextAction(h) /\ UNCHANGED overlapped
       ELSE /\ Proceed(h, "act")
            /\ overlapped' = IF Doing(Key(h)) = {} THEN overlapped
                             ELSE overlapped \cup {Key(h)}
    /\ UNCHANGED <<reported, read, check, executed, effects, unrecorded, read0, dropped>>

TakeEffect(h) == effects' = [effects EXCEPT ![Key(h)] = @ + 1]

Act(h) ==
    /\ at[h] = "act"
    /\ TakeEffect(h)
    /\ Proceed(h, "record")
    /\ UNCHANGED <<reported, read, check, executed, ruleHistory>>

Record(h) ==
    /\ at[h] = "record"
    /\ executed' = executed \cup {Key(h)}
    /\ NextAction(h)
    /\ UNCHANGED <<reported, read, check, effects, ruleHistory>>

\* The action has nothing to act on, or fails before it took effect, ...
ActFails(h) ==
    /\ at[h] = "act" /\ Key(h) \in Fallible
    /\ NextAction(h)
    /\ UNCHANGED <<reported, read, check, executed, effects, ruleHistory>>

\* ... half-way, as a move between sequences may, or its record does: there is
\* an effect without a record, and the rule goes on (RULE_ACTION_FAILED).
ActStaysUnrecorded(h) ==
    /\ \/ at[h] = "act" /\ TakeEffect(h)
       \/ at[h] = "record" /\ UNCHANGED effects
    /\ Key(h) \in Fallible
    /\ unrecorded' = unrecorded \cup {Key(h)}
    /\ NextAction(h)
    /\ UNCHANGED <<reported, read, check, executed, overlapped, read0, dropped>>

\* The process dies, or an error escapes from the rules: a check that was
\* claimed stays PROCESSING, which nobody looks for.
Die(h) ==
    /\ "crash" \in RuleFaults
    /\ at[h] # "idle"
    /\ unrecorded' = IF at[h] = "record" THEN unrecorded \cup {Key(h)} ELSE unrecorded
    /\ dropped' = IF h \in Workers THEN dropped \cup {message[h]} ELSE dropped
    /\ Stop(h)
    /\ UNCHANGED <<reported, read, check, executed, effects, overlapped, read0>>

-----------------------------------------------------------------------------

Step(h) ==
    \/ FindPending(h) \/ Cancel(h) \/ FindRecipient(h) \/ FindEnrollments(h)
    \/ Look(h) \/ Finish(h)
    \/ RunRules(h) \/ LookUp(h) \/ Act(h) \/ Record(h)

RulesNext ==
    \/ \E h \in Reactors : Step(h) \/ ActFails(h) \/ ActStaysUnrecorded(h) \/ Die(h)
    \/ \E h \in Receivers, m \in Messages : ReceiveRead(h, m)
    \/ \E h \in Workers, m \in Messages : Claim(h, m)
    \/ \E m \in Messages : Schedule(m)

RulesSpec == RulesInit /\ [][RulesNext]_ruleVars

\* A worker goes on, and they all come back to the checks that are due.
FairRulesSpec ==
    /\ RulesSpec
    /\ \A h \in Workers : WF_ruleVars(Step(h))
    /\ \A m \in Messages : SF_ruleVars(\E h \in Workers : Claim(h, m))

-----------------------------------------------------------------------------

Statuses == {"none", "PENDING", "PROCESSING", "CANCELED", "PROCESSED"}

\* The type of every variable.
RulesTypeOK ==
    /\ reported \in 0 .. MaxReads
    /\ read \subseteq Messages
    /\ check \in [Messages -> Statuses]
    /\ executed \subseteq Keys
    /\ effects \in [Keys -> Nat]
    /\ at \in [Reactors -> {"idle", "find", "cancel", "recipient", "enrollments", "look",
                            "rules", "look up", "act", "record", "finish"}]
    /\ message \in [Reactors -> Messages \cup {NoMessage}]
    /\ source \in [Reactors -> Sources]
    /\ left \in [Reactors -> 0 .. MaxEnrollments]
    /\ index \in [Reactors -> 0 .. ActionCount]
    /\ overlapped \cup unrecorded \subseteq Keys
    /\ read0 \cup dropped \subseteq Messages

\* For an event an action is taken once for the broadcast and once for each flow
\* that the conversation is enrolled in, however often the event is reported
\* and however many enrollments of a flow there are: unless two handlers
\* looked for its record at once, or it took effect without one.  For a message
\* that was not read it is taken once in all and in any case, for a check is
\* claimed once and has one run.
ActionOncePerEvent ==
    \A k \in Keys :
        /\ k \notin overlapped \cup unrecorded => effects[k] <= 1
        /\ k[1] = "DIDNT_READ_MESSAGE" => effects[k] <= IF k[3] = Own THEN 1 ELSE 0

\* Nobody is treated as not having read what they had read when the check was
\* claimed, and a check that says CANCELED is one for which nothing was done,
\* though it is canceled by id while a worker may have claimed it.
CheckTellsTheTruth ==
    \A m \in Messages :
        (check[m] = "CANCELED" \/ m \in read0) =>
            /\ m \in read
            /\ \A s \in Sources, a \in Actions : effects[<<"DIDNT_READ_MESSAGE", m, s, a>>] = 0

\* Every check is canceled or processed in the end, unless the worker that
\* claimed it left it in the middle.
CheckSettles ==
    \A m \in Messages :
        check[m] = "PENDING" ~> (check[m] \in {"CANCELED", "PROCESSED"} \/ m \in dropped)

=============================================================================
