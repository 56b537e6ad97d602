--------------------------- MODULE Session_proofs ---------------------------
(***************************************************************************)
(* Proofs about Session, for any number of requests, sockets, links and    *)
(* restarts.                                                               *)
(***************************************************************************)
EXTENDS Session, TLAPS

-----------------------------------------------------------------------------
(* The callers                                                              *)

Places ==
    {"idle", "load", "make", "await", "account", "wipe", "code", "wait first", "wait again",
     "use", "stat", "stat again", "delete", "boot", "boot accounts", "boot stat"}

\* Where the timer's callback and the bootstrap come.
ReconnectPlaces ==
    {"idle", "load", "make", "await", "delete", "wipe", "boot", "boot accounts", "boot stat"}

\* The bootstrap's own.
BootPlaces == {"boot", "boot accounts", "boot stat"}

Making(p) == pc[p] \in {"load", "make"}

\* Who creates a socket waits for itself; who is idle wants nothing.
CallerOK(p) ==
    /\ Making(p) => waits[p] = p
    /\ pc[p] = "make" => mine[p] \in Sockets
    /\ Idle(p) => op[p] = "none" /\ then[p] = "idle"
    /\ p = Reconnect => pc[p] \in ReconnectPlaces /\ op[p] = "none" /\ then[p] = "idle"
    /\ pc[p] \in BootPlaces => p = Reconnect

CallersInv ==
    /\ pc \in [Callers -> Places]
    /\ op \in [Callers -> Operations \cup {"none", "resend"}]
    /\ then \in [Callers -> {"idle", "wait first", "wait again", "code", "account"}]
    /\ waits \in [Callers -> Callers \cup {Nobody}]
    /\ mine \in [Callers -> Sockets \cup {NoSocket}]
    /\ \A p \in Callers : CallerOK(p)

\* One caller goes on, and keeps what it is waiting for.
LEMMA MovesOn ==
    ASSUME CallersInv, NEW p \in Callers, UNCHANGED waits,
           NEW where \in Places \ {"load", "make"}, pc' = [pc EXCEPT ![p] = where],
           NEW what \in Operations \cup {"none", "resend"}, op' = [op EXCEPT ![p] = what],
           NEW next \in {"idle", "wait first", "wait again", "code", "account"},
           then' = [then EXCEPT ![p] = next],
           NEW s \in Sockets \cup {NoSocket}, mine' = [mine EXCEPT ![p] = s],
           where = "idle" => what = "none" /\ next = "idle",
           p = Reconnect => where \in ReconnectPlaces /\ what = "none" /\ next = "idle",
           where \in BootPlaces => p = Reconnect
    PROVE  CallersInv'
<1>1. ASSUME NEW q \in Callers PROVE CallerOK(q)'
  BY DEF CallersInv, CallerOK, Making, Idle, BootPlaces
<1> QED
  BY <1>1 DEF CallersInv

LEMMA GotoCallers ==
    ASSUME CallersInv, NEW p \in Callers,
           NEW where \in Places \ {"idle", "load", "make"}, Goto(p, where),
           p = Reconnect => where \in ReconnectPlaces,
           where \in BootPlaces => p = Reconnect
    PROVE  CallersInv'
<1>1. ASSUME NEW q \in Callers PROVE CallerOK(q)'
  BY DEF CallersInv, CallerOK, Making, Idle, Goto, BootPlaces
<1> QED
  BY <1>1 DEF CallersInv, Goto

LEMMA EndCallers == ASSUME CallersInv, NEW p \in Callers, End(p) PROVE CallersInv'
<1>1. ASSUME NEW q \in Callers PROVE CallerOK(q)'
  BY DEF CallersInv, CallerOK, Making, Idle, End, ReconnectPlaces, BootPlaces
<1> QED
  BY <1>1 DEF CallersInv, End, Places

LEMMA EnsureCallers ==
    ASSUME CallersInv, held \in Sockets \cup {NoSocket}, promise \in Callers \cup {Nobody},
           NEW p \in Callers, NEW force \in BOOLEAN,
           NEW where \in {"idle", "wait first", "wait again", "code"},
           Ensure(p, force, where),
           \/ UNCHANGED op
           \/ op' = [op EXCEPT ![p] = "resend"] /\ p \in Requests /\ where # "idle",
           p = Reconnect => where = "idle",
           where = "idle" /\ ~ force => op[p] = "none" /\ then[p] = "idle"
    PROVE  CallersInv'
<1> USE DEF CallersInv
<1>0. op' \in [Callers -> Operations \cup {"none", "resend"}] /\ (p = Reconnect => UNCHANGED op)
  BY SessionAssumption DEF SessionAssumption
<1>1. CASE ~ force /\ held # NoSocket
  <2>1. PICK next \in {where, "use"} :
            pc' = [pc EXCEPT ![p] = next] /\ (next = "use" => where = "wait first")
    BY <1>1 DEF Ensure
  <2>2. mine' = [mine EXCEPT ![p] = held] /\ UNCHANGED <<then, waits>>
    BY <1>1 DEF Ensure
  <2>3. next \in Places \ ({"load", "make"} \cup BootPlaces) /\ (p = Reconnect => next = "idle")
    BY <2>1 DEF Places, BootPlaces
  <2>4. pc' \in [Callers -> Places] /\ mine' \in [Callers -> Sockets \cup {NoSocket}]
    BY <2>1, <2>2, <2>3
  <2>5. next = "idle" => op'[p] = "none" /\ then[p] = "idle"
    <3> SUFFICES ASSUME next = "idle" PROVE op'[p] = "none" /\ then[p] = "idle"
      OBVIOUS
    <3>1. where = "idle"
      BY <2>1
    <3> QED
      BY <3>1, <1>1
  <2>6. \A q \in Callers \ {p} : op'[q] = op[q] /\ pc'[q] = pc[q] /\ mine'[q] = mine[q]
    BY <2>1, <2>2
  <2>7. ASSUME NEW q \in Callers, q # p PROVE CallerOK(q)'
    BY <2>2, <2>6, <2>7 DEF CallerOK, Making, Idle, BootPlaces
  <2>8. CallerOK(p)'
    <3>1. pc'[p] = next /\ then'[p] = then[p]
      BY <2>1, <2>2
    <3>2. p = Reconnect => op'[p] = "none" /\ then[p] = "idle"
      BY <1>0 DEF CallerOK
    <3> QED
      BY <3>1, <3>2, <2>3, <2>5 DEF CallerOK, Making, Idle, ReconnectPlaces, BootPlaces
  <2> QED
    BY <1>0, <2>2, <2>4, <2>7, <2>8
<1>2. CASE force \/ held = NoSocket
  <2>1. PICK made \in Callers :
            /\ made = p \/ made = promise
            /\ pc' = [pc EXCEPT ![p] = IF made = p THEN "load" ELSE "await"]
            /\ waits' = [waits EXCEPT ![p] = made]
            /\ then' = [then EXCEPT ![p] = where]
            /\ mine' = [mine EXCEPT ![p] = NoSocket]
    BY <1>2 DEF Ensure
  <2>2. ASSUME NEW q \in Callers PROVE CallerOK(q)'
    BY <1>0, <2>1 DEF CallerOK, Making, Idle, ReconnectPlaces, BootPlaces
  <2> QED
    BY <1>0, <2>1, <2>2 DEF Places
<1> QED
  BY <1>1, <1>2

LEMMA SettleCallers ==
    ASSUME CallersInv, NEW c \in Callers, NEW s \in Sockets \cup {NoSocket}, Settle(c, s)
    PROVE  CallersInv'
<1> USE DEF CallersInv
<1>1. Waiting(c) \subseteq Callers
  BY DEF Waiting
<1>2. /\ pc' = [p \in Callers |-> IF p \notin Waiting(c) THEN pc[p]
                                  ELSE IF s = NoSocket THEN "idle" ELSE then[p]]
      /\ mine' = [p \in Callers |-> IF p \in Waiting(c) THEN s ELSE mine[p]]
      /\ waits' = [p \in Callers |-> IF p \in Waiting(c) THEN Nobody ELSE waits[p]]
      /\ then' = [p \in Callers |-> IF p \in Waiting(c) THEN "idle" ELSE then[p]]
      /\ op' = [p \in Callers |->
                   IF p \in Waiting(c) /\ (s = NoSocket \/ then[p] = "idle") THEN "none" ELSE op[p]]
  BY DEF Settle
<1>3. ASSUME NEW q \in Callers PROVE CallerOK(q)'
  <2>1. CASE q \in Waiting(c)
    <3>1. pc'[q] \in {"idle", "wait first", "wait again", "code", "account"} /\ then'[q] = "idle"
      BY <1>2, <2>1
    <3>2. pc'[q] = "idle" => op'[q] = "none"
      BY <1>2, <2>1
    <3>3. q = Reconnect => pc'[q] = "idle"
      BY <1>2, <2>1 DEF CallerOK
    <3> QED
      BY <3>1, <3>2, <3>3 DEF CallerOK, Making, Idle, ReconnectPlaces, BootPlaces
  <2>2. CASE q \notin Waiting(c)
    BY <1>2, <2>2 DEF CallerOK, Making, Idle, BootPlaces
  <2> QED
    BY <2>1, <2>2
<1>4. \A q \in Callers : /\ pc'[q] \in Places
                         /\ then'[q] \in {"idle", "wait first", "wait again", "code", "account"}
  BY <1>2 DEF Places
<1> QED
  BY <1>2, <1>3, <1>4

LEMMA StepCallers ==
    ASSUME CallersInv, held \in Sockets \cup {NoSocket}, promise \in Callers \cup {Nobody},
           NEW p \in Callers, Step(p)
    PROVE  CallersInv'
<1> DEFINE Nexts == {"idle", "wait first", "wait again", "code", "account"}
<1>0. /\ op[p] \in Operations \cup {"none", "resend"} /\ op = [op EXCEPT ![p] = op[p]]
      /\ then[p] \in Nexts /\ then = [then EXCEPT ![p] = then[p]]
      /\ mine[p] \in Sockets \cup {NoSocket} /\ mine = [mine EXCEPT ![p] = mine[p]]
      /\ CallerOK(p)
  BY DEF CallersInv
<1>1. CASE Load(p)
  <2>1. PICK s \in Free : Got(p, s, "make")
    BY <1>1 DEF Load
  <2>2. ASSUME NEW q \in Callers PROVE CallerOK(q)'
    BY <1>1, <2>1, ZenonT(60)
       DEF CallersInv, CallerOK, Load, Got, Making, Idle, Free, ReconnectPlaces, BootPlaces
  <2> QED
    BY <2>1, <2>2 DEF CallersInv, Got, Free, Places
<1>2. CASE Make(p)
  <2>1. mine[p] \in Sockets /\ Settle(p, mine[p])
    BY <1>0, <1>2 DEF Make, CallerOK
  <2> QED
    BY <2>1, SettleCallers
<1>3. CASE Fail(p)
  BY <1>3, SettleCallers DEF Fail
<1>4. CASE NothingToDo(p) \/ Code(p) \/ NoCode(p) \/ NotConnected(p) \/ Use(p)
  BY <1>4, EndCallers DEF NothingToDo, Code, NoCode, NotConnected, Use
<1>5. CASE Connected(p)
  <2>1. CASE End(p)
    BY <2>1, EndCallers
  <2>2. CASE Got(p, held, "use")
    <3>1. p # Reconnect
      BY <1>0, <1>5 DEF Connected, CallerOK, ReconnectPlaces
    <3>2. /\ pc' = [pc EXCEPT ![p] = "use"] /\ mine' = [mine EXCEPT ![p] = held]
          /\ UNCHANGED <<op, then, waits>>
      BY <2>2 DEF Got
    <3>3. op' = [op EXCEPT ![p] = op[p]] /\ then' = [then EXCEPT ![p] = then[p]]
      BY <1>0, <3>2
    <3>4. "use" \in Places \ ({"load", "make"} \cup BootPlaces)
      BY DEF Places, BootPlaces
    <3>5. /\ UNCHANGED waits /\ p # Reconnect
          /\ pc' = [pc EXCEPT ![p] = "use"] /\ "use" \in Places \ ({"load", "make"} \cup BootPlaces)
          /\ op' = [op EXCEPT ![p] = op[p]] /\ then' = [then EXCEPT ![p] = then[p]]
          /\ mine' = [mine EXCEPT ![p] = held]
      BY <3>1, <3>2, <3>3, <3>4
    <3> QED
      BY <1>0, <3>5, MovesOn, ZenonT(60)
  <2> QED
    BY <1>5, <2>1, <2>2 DEF Connected
<1>6. CASE Connect(p) \/ StatAgain(p) \/ Harder(p)
  <2>1. \E force \in BOOLEAN, where \in {"wait first", "wait again"} : Ensure(p, force, where)
    BY <1>6 DEF Connect, StatAgain, Harder
  <2>2. UNCHANGED op /\ p # Reconnect
    BY <1>0, <1>6 DEF Connect, StatAgain, Harder, CallerOK, ReconnectPlaces
  <2> QED
    BY <2>1, <2>2, EnsureCallers
<1>7. CASE SendAgain(p)
  <2>1. p # Reconnect
    BY <1>0, <1>7 DEF SendAgain, CallerOK, ReconnectPlaces
  <2> QED
    BY <1>7, <2>1, EnsureCallers DEF SendAgain, Callers
<1>8. CASE WipeAndLink(p)
  <2>1. PICK where \in {"code", "idle"} : Ensure(p, TRUE, where)
    BY <1>8 DEF WipeAndLink
  <2>2. UNCHANGED op /\ p # Reconnect
    BY <1>0, <1>8 DEF WipeAndLink, CallerOK
  <2> QED
    BY <2>1, <2>2, EnsureCallers
<1>9. CASE Reset(p)
  BY <1>0, <1>9, GotoCallers DEF Reset, CallerOK, Places, BootPlaces
<1>10. CASE Stat(p) \/ ReadAccount(p) \/ DeleteAccount(p)
  <2>1. \E where \in {"account", "stat again", "wipe"} :
            Goto(p, where) /\ (p = Reconnect => where = "wipe")
    BY <1>0, <1>10 DEF Stat, ReadAccount, DeleteAccount, CallerOK, ReconnectPlaces
  <2> QED
    BY <2>1, GotoCallers DEF Places, ReconnectPlaces, BootPlaces
<1>11. CASE StatMarks(p) \/ StatAgainMarks(p)
  <2>1. PICK where \in {"account", "idle"} : Mark(p, where)
    BY <1>11 DEF StatMarks, StatAgainMarks
  <2>2. p # Reconnect
    BY <1>0, <1>11 DEF StatMarks, StatAgainMarks, CallerOK, ReconnectPlaces
  <2>3. /\ UNCHANGED waits
        /\ \E at \in Places \ ({"load", "make", "idle"} \cup BootPlaces) : pc' = [pc EXCEPT ![p] = at]
        /\ op' = [op EXCEPT ![p] = op[p]]
        /\ then' = [then EXCEPT ![p] = where] /\ mine' = [mine EXCEPT ![p] = mine[p]]
    BY <1>0, <2>1 DEF Mark, Places, BootPlaces
  <2> QED
    BY <1>0, <2>2, <2>3, MovesOn
<1>12. CASE Wipe(p)
  <2>1. CASE then[p] = "idle"
    BY <1>12, <2>1, EndCallers DEF Wipe
  <2>2. CASE then[p] # "idle"
    <3>1. then[p] \in Nexts \ {"idle"} /\ p # Reconnect /\ Goto(p, then[p])
      BY <1>0, <1>12, <2>2 DEF Wipe, CallerOK
    <3> QED
      BY <3>1, GotoCallers DEF Places, BootPlaces
  <2> QED
    BY <2>1, <2>2
<1>13. CASE CloseFails(p)
  BY <1>13, EndCallers DEF CloseFails
<1> QED
  BY <1>1, <1>2, <1>3, <1>4, <1>5, <1>6, <1>7, <1>8, <1>9, <1>10, <1>11, <1>12, <1>13 DEF Step

LEMMA NextCallers ==
    ASSUME CallersInv, held \in Sockets \cup {NoSocket}, promise \in Callers \cup {Nobody},
           [Next]_vars
    PROVE  CallersInv'
<1>0. /\ Reconnect \in Callers /\ CallerOK(Reconnect)
      /\ \A p \in Requests : p \in Callers /\ p # Reconnect
  BY SessionAssumption DEF SessionAssumption, Callers, CallersInv
<1>1. CASE \E p \in Callers : Step(p)
  BY <1>1, StepCallers
<1>2. ASSUME NEW p \in Requests, NEW o \in Operations, Begin(p, o) PROVE CallersInv'
  <2>1. PICK where \in {"stat", "account"} : pc' = [pc EXCEPT ![p] = where]
    BY <1>2 DEF Begin
  <2>2. then = [then EXCEPT ![p] = then[p]] /\ mine = [mine EXCEPT ![p] = mine[p]]
        /\ then[p] \in {"idle", "wait first", "wait again", "code", "account"}
        /\ mine[p] \in Sockets \cup {NoSocket}
    BY <1>0 DEF CallersInv
  <2>3. /\ UNCHANGED waits /\ o \in Operations \cup {"none", "resend"}
        /\ where \in Places \ ({"load", "make", "idle"} \cup BootPlaces)
        /\ op' = [op EXCEPT ![p] = o]
        /\ then' = [then EXCEPT ![p] = then[p]] /\ mine' = [mine EXCEPT ![p] = mine[p]]
    BY <1>2, <2>1, <2>2 DEF Begin, Places, BootPlaces
  <2> QED
    BY <1>0, <2>1, <2>2, <2>3, MovesOn
<1>3. ASSUME NEW p \in Requests, NEW o \in Operations, Disconnect(p, o) PROVE CallersInv'
  <2>1. then = [then EXCEPT ![p] = then[p]] /\ mine = [mine EXCEPT ![p] = mine[p]]
        /\ then[p] \in {"idle", "wait first", "wait again", "code", "account"}
        /\ mine[p] \in Sockets \cup {NoSocket}
    BY <1>0 DEF CallersInv
  <2>2. /\ UNCHANGED waits /\ o \in Operations \cup {"none", "resend"}
        /\ \E at \in Places \ ({"load", "make", "idle"} \cup BootPlaces) : pc' = [pc EXCEPT ![p] = at]
        /\ op' = [op EXCEPT ![p] = o]
        /\ then' = [then EXCEPT ![p] = then[p]] /\ mine' = [mine EXCEPT ![p] = mine[p]]
    BY <1>3, <2>1 DEF Disconnect, Places, BootPlaces
  <2> QED
    BY <1>0, <2>1, <2>2, MovesOn
<1>4. CASE Fire
  <2>1. CASE allow
    BY <1>0, <1>4, <2>1, EnsureCallers DEF Fire
  <2>2. CASE ~ allow
    BY <1>4, <2>2 DEF Fire, CallersInv, CallerOK, Making, Idle, BootPlaces
  <2> QED
    BY <2>1, <2>2
<1>5. CASE Boot \/ BootAccounts \/ BootFails
  <2>1. \/ End(Reconnect)
        \/ \E where \in {"boot accounts", "boot stat"} : Goto(Reconnect, where)
    BY <1>5 DEF Boot, BootAccounts, BootFails
  <2> QED
    BY <1>0, <2>1, EndCallers, GotoCallers DEF Places, ReconnectPlaces
<1>6. CASE BootStat
  BY <1>0, <1>6, EnsureCallers DEF BootStat, CallerOK
<1>7. CASE BootMark
  <2>1. /\ op = [op EXCEPT ![Reconnect] = "none"] /\ mine = [mine EXCEPT ![Reconnect] = mine[Reconnect]]
        /\ mine[Reconnect] \in Sockets \cup {NoSocket}
    <3>1. op[Reconnect] = "none"
      BY <1>0 DEF CallersInv, CallerOK
    <3> QED
      BY <1>0, <3>1 DEF CallersInv
  <2> QED
    BY <1>0, <1>7, <2>1, MovesOn DEF BootMark, Mark, Places, ReconnectPlaces
<1>8. CASE Crash
  <2>1. ASSUME NEW q \in Callers PROVE CallerOK(q)'
    BY <1>8 DEF Crash, CallerOK, Making, Idle, ReconnectPlaces, BootPlaces
  <2> QED
    BY <1>8, <2>1 DEF Crash, CallersInv, Places
<1>9. CASE UNCHANGED locals
  BY <1>9 DEF locals, CallersInv, CallerOK, Making, Idle, BootPlaces
<1> QED
  BY <1>1, <1>2, <1>3, <1>4, <1>5, <1>6, <1>7, <1>8, <1>9
     DEF Next, vars, Open, Show, Scan, Lose, LoggedOut, Unlink, Job

-----------------------------------------------------------------------------
(* The entry, the disk and the sockets                                      *)

Jobs ==
    {<<"persist", 0>>, <<"clear account", 0>>, <<"clear files", 0>>} \cup {<<"save", l>> : l \in 1 .. MaxLinks}

EntryTypes ==
    /\ held \in Sockets \cup {NoSocket}
    /\ promise \in Callers \cup {Nobody}
    /\ connected \in BOOLEAN /\ allow \in BOOLEAN /\ timer \in BOOLEAN /\ gaveUp \in BOOLEAN

SocketTypes ==
    /\ ws \in [Sockets -> {"closed", "connecting", "open"}]
    /\ creds \in [Sockets -> 0 .. MaxLinks]
    /\ extra \subseteq Sockets

DiskTypes ==
    /\ auth \in NoFolder .. MaxLinks /\ account \in BOOLEAN
    /\ links \in 0 .. MaxLinks /\ linked \subseteq 1 .. links
    /\ jobs \subseteq Jobs

TypeInv == CallersInv /\ EntryTypes /\ SocketTypes /\ DiskTypes

LEMMA Links ==
    /\ NoFolder \in NoFolder .. MaxLinks /\ Unregistered \in NoFolder .. MaxLinks
    /\ Unregistered \in 0 .. MaxLinks
    /\ \A n \in NoFolder .. MaxLinks : n > 0 => n \in 1 .. MaxLinks
    /\ \A n \in 1 .. MaxLinks : n \in NoFolder .. MaxLinks /\ n \in 0 .. MaxLinks
<1>1. MaxLinks \in Nat
  BY SessionAssumption DEF SessionAssumption
<1> QED
  BY <1>1 DEF NoFolder, Unregistered

LEMMA KindsOfJobs ==
    /\ <<"persist", 0>> \in Jobs /\ <<"clear account", 0>> \in Jobs /\ <<"clear files", 0>> \in Jobs
    /\ \A l \in 1 .. MaxLinks : <<"save", l>> \in Jobs
    /\ \A j \in Jobs : /\ j[1] = "save" => j[2] \in 1 .. MaxLinks
                       /\ j[1] = "persist" => j = <<"persist", 0>>
<1>1. ASSUME NEW j \in Jobs
      PROVE  (j[1] = "save" => j[2] \in 1 .. MaxLinks) /\ (j[1] = "persist" => j = <<"persist", 0>>)
  <2>1. CASE j = <<"persist", 0>>
    BY <2>1
  <2>2. CASE j = <<"clear account", 0>>
    BY <2>2
  <2>3. CASE j = <<"clear files", 0>>
    BY <2>3
  <2>4. ASSUME NEW l \in 1 .. MaxLinks, j = <<"save", l>>
        PROVE  (j[1] = "save" => j[2] \in 1 .. MaxLinks) /\ (j[1] = "persist" => j = <<"persist", 0>>)
    BY <2>4
  <2> QED
    BY <2>1, <2>2, <2>3, <2>4 DEF Jobs
<1> QED
  BY <1>1 DEF Jobs

LEMMA OverTypes ==
    ASSUME SocketTypes, NEW ss, Over(ss)
    PROVE  ws' \in [Sockets -> {"closed", "connecting", "open"}] /\ creds' \in [Sockets -> 0 .. MaxLinks]
BY Links DEF SocketTypes, Over

LEMMA EnsureTypes ==
    ASSUME EntryTypes, SocketTypes, NEW p \in Callers, NEW force \in BOOLEAN, NEW where,
           Ensure(p, force, where), UNCHANGED <<timer, extra>>
    PROVE  EntryTypes' /\ SocketTypes'
<1>1. CASE ~ force /\ held # NoSocket
  <2>1. UNCHANGED <<held, promise, allow, ws, creds, gaveUp>>
        /\ connected' \in BOOLEAN
    BY <1>1 DEF Ensure
  <2> QED
    BY <2>1 DEF EntryTypes, SocketTypes
<1>2. CASE force \/ held = NoSocket
  <2>1. /\ held' = NoSocket /\ gaveUp' = FALSE
        /\ Over(IF force THEN {held} ELSE {})
        /\ connected' = (connected /\ ~ (force /\ held # NoSocket))
        /\ allow' = ((force /\ held # NoSocket) \/ allow)
        /\ promise' \in {p, promise}
    BY <1>2 DEF Ensure
  <2>2. EntryTypes'
    BY <2>1 DEF EntryTypes
  <2>3. SocketTypes'
    BY <2>1, OverTypes DEF SocketTypes
  <2> QED
    BY <2>2, <2>3
<1> QED
  BY <1>1, <1>2

LEMMA ClosedTypes ==
    ASSUME EntryTypes, SocketTypes, NEW s \in Sockets, Closed(s), UNCHANGED <<promise, allow, gaveUp>>
    PROVE  EntryTypes' /\ SocketTypes'
<1>1. SocketTypes'
  BY OverTypes DEF Closed, SocketTypes
<1>2. EntryTypes'
  BY DEF Closed, EntryTypes
<1> QED
  BY <1>1, <1>2

LEMMA NextTypes == ASSUME TypeInv, [Next]_vars PROVE TypeInv'
<1> USE DEF TypeInv
<1>0. CallersInv'
  BY NextCallers DEF EntryTypes
<1>1. \A p \in Callers : pc[p] = "make" => mine[p] \in Sockets
  BY DEF CallersInv, CallerOK
<1>2. MaxLinks \in Nat
  BY SessionAssumption DEF SessionAssumption
<1>3. Reconnect \in Callers
  BY DEF Callers
<1>10. ASSUME NEW p \in Callers, Load(p) PROVE TypeInv'
  <2>1. EntryTypes' /\ UNCHANGED <<account, links, linked, jobs, ws, extra>>
    BY <1>10 DEF Load, EntryTypes, entry, history
  <2>2. auth' \in NoFolder .. MaxLinks /\ creds' \in [Sockets -> 0 .. MaxLinks]
    BY Links, <1>10 DEF Load, DiskTypes, SocketTypes
  <2> QED
    BY <1>0, <2>1, <2>2 DEF DiskTypes, SocketTypes
<1>11. ASSUME NEW p \in Callers, Make(p) PROVE TypeInv'
  <2>1. mine[p] \in Sockets
    BY <1>1, <1>11 DEF Make
  <2>2. EntryTypes'
    BY <1>11, <2>1 DEF Make, Settle, EntryTypes
  <2>3. SocketTypes'
    BY <1>11, <2>1 DEF Make, SocketTypes, EntryTypes
  <2> QED
    BY <1>0, <1>11, <2>2, <2>3 DEF Make, disk, DiskTypes
<1>12. ASSUME NEW p \in Callers, Fail(p) PROVE TypeInv'
  <2>1. EntryTypes'
    BY <1>12 DEF Fail, Settle, EntryTypes
  <2>2. SocketTypes'
    BY <1>12, OverTypes DEF Fail, SocketTypes
  <2> QED
    BY <1>0, <1>12, <2>1, <2>2 DEF Fail, disk, DiskTypes
<1>13. ASSUME NEW p \in Callers,
              NothingToDo(p) \/ Code(p) \/ NoCode(p) \/ Connected(p) \/ NotConnected(p) \/ Use(p)
              \/ Stat(p) \/ ReadAccount(p)
       PROVE  TypeInv'
  <2>1. UNCHANGED <<held, promise, allow, timer, disk, ws, creds, jobs, gaveUp, extra>>
        /\ connected' \in {connected, TRUE, FALSE}
    BY <1>13 DEF NothingToDo, Code, NoCode, Connected, NotConnected, Use, Stat, ReadAccount, entry, history
  <2> QED
    BY <1>0, <2>1 DEF EntryTypes, SocketTypes, DiskTypes, disk
<1>14. ASSUME NEW p \in Callers,
              Connect(p) \/ Harder(p) \/ SendAgain(p) \/ StatAgain(p)
       PROVE  TypeInv'
  <2>1. (\E force \in BOOLEAN, where \in {"wait first", "wait again"} : Ensure(p, force, where))
        /\ UNCHANGED <<timer, disk, jobs, extra>>
    BY <1>14 DEF Connect, Harder, SendAgain, StatAgain
  <2>2. EntryTypes' /\ SocketTypes'
    BY <2>1, EnsureTypes
  <2> QED
    BY <1>0, <2>1, <2>2 DEF DiskTypes, disk
<1>15. ASSUME NEW p \in Callers, WipeAndLink(p) PROVE TypeInv'
  <2>1. EntryTypes' /\ SocketTypes'
    BY <1>15, EnsureTypes DEF WipeAndLink
  <2> QED
    BY <1>0, Links, <1>15, <2>1 DEF WipeAndLink, DiskTypes
<1>16. ASSUME NEW p \in Callers, Reset(p) \/ (\E o \in Operations : Disconnect(p, o)) PROVE TypeInv'
  <2>1. (\E forget \in BOOLEAN : Clear(forget)) /\ allow' \in BOOLEAN /\ Over({held})
        /\ UNCHANGED <<disk, jobs, extra, gaveUp>>
    BY <1>16 DEF Reset, Disconnect
  <2>2. EntryTypes'
    BY <2>1 DEF Clear, EntryTypes
  <2>3. SocketTypes'
    BY <2>1, OverTypes DEF SocketTypes
  <2> QED
    BY <1>0, <2>1, <2>2, <2>3 DEF DiskTypes, disk
<1>17. ASSUME NEW p \in Callers, NEW where, Mark(p, where) PROVE TypeInv'
  <2>1. EntryTypes'
    BY <1>17 DEF Mark, Clear, EntryTypes
  <2>2. SocketTypes'
    BY <1>17 DEF Mark, EntryTypes, SocketTypes
  <2> QED
    BY <1>0, <1>17, <2>1, <2>2 DEF Mark, DiskTypes, disk
<1>18. ASSUME NEW p \in Callers, DeleteAccount(p) \/ Wipe(p) \/ CloseFails(p) PROVE TypeInv'
  <2>1. UNCHANGED <<held, connected, promise, allow, links, linked, ws, creds, jobs, extra>>
        /\ account' \in {account, FALSE} /\ auth' \in {auth, NoFolder}
        /\ timer' \in {timer, TRUE, FALSE} /\ gaveUp' \in {gaveUp, TRUE, FALSE}
    BY <1>18 DEF DeleteAccount, Wipe, CloseFails, entry, history
  <2> QED
    BY <1>0, Links, <2>1 DEF EntryTypes, SocketTypes, DiskTypes
<1>19. ASSUME NEW p \in Callers, Step(p) PROVE TypeInv'
  BY <1>10, <1>11, <1>12, <1>13, <1>14, <1>15, <1>16, <1>17, <1>18, <1>19
     DEF Step, StatMarks, StatAgainMarks
<1>20. ASSUME NEW p \in Requests, NEW o \in Operations, Begin(p, o) PROVE TypeInv'
  BY <1>0, <1>20 DEF Begin, EntryTypes, SocketTypes, DiskTypes, entry, disk
<1>21. CASE Fire
  <2>1. EntryTypes' /\ SocketTypes'
    <3>1. CASE allow
      <4>1. Ensure(Reconnect, TRUE, "idle") /\ UNCHANGED extra /\ timer' = FALSE
        BY <1>21, <3>1 DEF Fire
      <4>2. CASE held # NoSocket
        BY <4>1, <4>2, <1>3, OverTypes DEF Ensure, EntryTypes, SocketTypes
      <4>3. CASE held = NoSocket
        BY <4>1, <4>3, <1>3, OverTypes DEF Ensure, EntryTypes, SocketTypes
      <4> QED
        BY <4>2, <4>3
    <3>2. CASE ~ allow
      BY <1>21, <3>2 DEF Fire, EntryTypes, SocketTypes
    <3> QED
      BY <3>1, <3>2
  <2> QED
    BY <1>0, <1>21, <2>1 DEF Fire, DiskTypes, disk
<1>22. CASE Boot \/ BootAccounts \/ BootFails
  <2>1. UNCHANGED <<entry, account, linked, links, ws, creds, jobs, extra>>
        /\ auth' \in {auth, NoFolder} /\ gaveUp' \in {gaveUp, TRUE}
    BY <1>22 DEF Boot, BootAccounts, BootFails, disk, history
  <2> QED
    BY <1>0, Links, <2>1 DEF EntryTypes, SocketTypes, DiskTypes, entry
<1>23. CASE BootStat
  <2>1. EntryTypes' /\ SocketTypes'
    BY <1>3, <1>23, EnsureTypes DEF BootStat
  <2> QED
    BY <1>0, <1>23, <2>1 DEF BootStat, DiskTypes, disk
<1>24. CASE Crash
  <2>1. SocketTypes'
    BY <1>24, OverTypes DEF Crash, SocketTypes
  <2> QED
    BY <1>0, <1>24, <2>1 DEF Crash, EntryTypes, DiskTypes, disk
<1>25. ASSUME NEW s \in Sockets, Open(s) PROVE TypeInv'
  <2>1. EntryTypes' /\ SocketTypes'
    BY <1>25 DEF Open, EntryTypes, SocketTypes, history
  <2>2. jobs' \subseteq Jobs
    BY <1>25, KindsOfJobs DEF Open, DiskTypes
  <2> QED
    BY <1>0, <1>25, <2>1, <2>2 DEF Open, DiskTypes, disk
<1>26. ASSUME NEW s \in Sockets, Scan(s) PROVE TypeInv'
  <2>1. EntryTypes' /\ SocketTypes'
    BY <1>26, ClosedTypes DEF Scan
  <2>2. links' \in 1 .. MaxLinks /\ linked' \subseteq 1 .. links'
    BY <1>2, <1>26 DEF Scan, DiskTypes
  <2>3. jobs' \subseteq Jobs
    BY <1>26, <2>2, KindsOfJobs DEF Scan, DiskTypes
  <2> QED
    BY <1>0, <1>26, <2>1, <2>2, <2>3 DEF Scan, DiskTypes
<1>27. ASSUME NEW s \in Sockets, Lose(s) PROVE TypeInv'
  BY <1>0, <1>27, ClosedTypes DEF Lose, DiskTypes, disk
<1>28. ASSUME NEW s \in Sockets, LoggedOut(s) PROVE TypeInv'
  <2>1. EntryTypes'
    BY <1>28 DEF LoggedOut, EntryTypes
  <2>2. SocketTypes'
    BY <1>28, OverTypes DEF LoggedOut, SocketTypes
  <2>3. jobs' \subseteq Jobs
    BY <1>28, KindsOfJobs DEF LoggedOut, DiskTypes
  <2> QED
    BY <1>0, <1>28, <2>1, <2>2, <2>3 DEF LoggedOut, DiskTypes, disk
<1>29. ASSUME NEW l \in linked, Unlink(l) PROVE TypeInv'
  BY <1>0, <1>29 DEF Unlink, EntryTypes, SocketTypes, DiskTypes, entry, history
<1>30. ASSUME NEW j \in jobs, Job(j) PROVE TypeInv'
  <2>1. account' \in BOOLEAN /\ jobs' \subseteq Jobs
    BY <1>30 DEF Job, DiskTypes
  <2>2. j[1] = "save" => j[2] \in 1 .. MaxLinks
    BY KindsOfJobs DEF DiskTypes
  <2>3. auth' \in NoFolder .. MaxLinks
    BY Links, <1>30, <2>2 DEF Job, DiskTypes
  <2> QED
    BY <1>0, <1>30, <2>1, <2>3 DEF Job, EntryTypes, SocketTypes, DiskTypes, entry, history
<1>31. ASSUME NEW s \in Sockets, Show(s) PROVE TypeInv'
  BY <1>0, <1>31 DEF Show, EntryTypes, SocketTypes, DiskTypes, disk, history
<1>32. CASE UNCHANGED vars
  BY <1>0, <1>32 DEF vars, entry, disk, history, EntryTypes, SocketTypes, DiskTypes
<1> QED
  BY <1>3, <1>16, <1>17, <1>19, <1>20, <1>21, <1>22, <1>23, <1>24, <1>25, <1>26, <1>27, <1>28, <1>29,
     <1>30, <1>31, <1>32 DEF Next, BootMark, Callers

LEMMA InitTypes == Init => TypeInv
<1> SUFFICES ASSUME Init PROVE TypeInv
  OBVIOUS
<1>1. CallersInv
  BY DEF Init, CallersInv, CallerOK, Places, ReconnectPlaces, BootPlaces, Making, Idle
<1>2. EntryTypes /\ SocketTypes
  BY Links DEF Init, EntryTypes, SocketTypes
<1>3. DiskTypes
  <2>1. MaxLinks \in Nat
    BY SessionAssumption DEF SessionAssumption
  <2>2. links \in 0 .. MaxLinks /\ linked \subseteq 1 .. links
    BY <2>1 DEF Init
  <2> QED
    BY Links, <2>2 DEF Init, DiskTypes
<1> QED
  BY <1>1, <1>2, <1>3 DEF TypeInv

\* The entry, the credentials and the sockets are what they are meant to be,
\* whatever the order of the callers' steps, the library's and the restarts.
THEOREM TypeCorrect == Spec => []TypeOK
<1>1. TypeInv => TypeOK
  BY DEF TypeInv, EntryTypes, SocketTypes, DiskTypes, TypeOK
<1>2. Spec => []TypeInv
  BY InitTypes, NextTypes, PTL DEF Spec
<1> QED
  BY <1>1, <1>2, PTL

-----------------------------------------------------------------------------
(* Who creates a socket                                                     *)

\* While initPromise is set nothing is held and its creation goes on; any other
\* creation that goes on is one that has been disowned.
CreationInv ==
    /\ promise # Nobody => held = NoSocket /\ promise \in Callers /\ Making(promise)
    /\ \A p \in Callers : Making(p) => p = promise \/ p \in loose
    /\ OneSession

\* Steps that leave the sockets, and whoever creates one, alone.
LEMMA StaysCreation ==
    ASSUME CreationInv, UNCHANGED <<held, promise, ws>>, loose \subseteq loose', extra \subseteq extra',
           \A p \in Callers : Making(p)' <=> Making(p)
    PROVE  CreationInv'
BY DEF CreationInv, OneSession, Alive

LEMMA OthersMake ==
    ASSUME pc \in [Callers -> Places], NEW p \in Callers, ~ Making(p), NEW where,
           where \notin {"load", "make"}, pc' = [pc EXCEPT ![p] = where]
    PROVE  \A q \in Callers : Making(q)' <=> Making(q)
BY DEF Making

LEMMA EnsureCreation ==
    ASSUME TypeInv, CreationInv, NEW p \in Callers, ~ Making(p), NEW force \in BOOLEAN,
           NEW where, where \notin {"load", "make"}, Ensure(p, force, where),
           UNCHANGED <<loose, extra>>
    PROVE  CreationInv'
<1>0. pc \in [Callers -> Places] /\ held \in Sockets \cup {NoSocket} /\ NoSocket \notin Sockets
      /\ promise \in Callers \cup {Nobody} /\ Nobody \notin Callers
      /\ ws \in [Sockets -> {"closed", "connecting", "open"}]
  BY SessionAssumption DEF SessionAssumption, TypeInv, CallersInv, EntryTypes, SocketTypes
<1>1. CASE ~ force /\ held # NoSocket
  <2>1. UNCHANGED <<held, promise, ws>>
        /\ \E next \in {where, "use"} : pc' = [pc EXCEPT ![p] = next]
    BY <1>1 DEF Ensure
  <2> QED
    BY <1>0, <2>1, OthersMake, StaysCreation
<1>2. CASE force \/ held = NoSocket
  <2>1. PICK made \in Callers :
            /\ made = IF promise = Nobody THEN p ELSE promise
            /\ promise' = made /\ held' = NoSocket
            /\ pc' = [pc EXCEPT ![p] = IF made = p THEN "load" ELSE "await"]
            /\ Over(IF force THEN {held} ELSE {})
    BY <1>0, <1>2 DEF Ensure
  <2>2. \A q \in Callers \ {p} : Making(q)' <=> Making(q)
    BY <1>0, <2>1 DEF Making
  <2>3. Making(p)' <=> made = p
    BY <1>0, <2>1 DEF Making
  <2>4. made # p => promise = made /\ Making(promise)
    BY <2>1 DEF CreationInv
  <2>5. \A q \in Callers : Making(q)' => q = made \/ q \in loose
    BY <1>0, <2>1, <2>2, <2>3, <2>4 DEF CreationInv
  <2>6. ASSUME NEW s \in Sockets, Alive(s)' PROVE s \in extra
    <3>1. Alive(s) /\ s # held
      BY <1>0, <1>2, <2>1, <2>6 DEF Alive, Over
    <3> QED
      BY <3>1 DEF CreationInv, OneSession
  <2>7. OneSession'
    BY <2>6 DEF OneSession
  <2> QED
    BY <2>1, <2>2, <2>3, <2>4, <2>5, <2>7 DEF CreationInv
<1> QED
  BY <1>1, <1>2

\* The entry is cleared, and its socket ended or left behind.
LEMMA ClearCreation ==
    ASSUME TypeInv, CreationInv, NEW p \in Callers, ~ Making(p), NEW forget \in BOOLEAN, Clear(forget),
           NEW where, where \notin {"load", "make"}, pc' = [pc EXCEPT ![p] = where],
           \/ Over({held}) /\ UNCHANGED extra
           \/ UNCHANGED ws /\ extra' = extra \cup ({held} \ {NoSocket})
    PROVE  CreationInv'
<1>0. pc \in [Callers -> Places] /\ NoSocket \notin Sockets
  BY SessionAssumption DEF SessionAssumption, TypeInv, CallersInv
<1>1. \A q \in Callers : Making(q)' <=> Making(q)
  BY <1>0, OthersMake
<1>2. held' = NoSocket /\ promise' \in {promise, Nobody}
      /\ (promise' # promise => loose' = loose \cup {promise}) /\ loose \subseteq loose'
  BY DEF Clear
<1>3. \A s \in Sockets : Alive(s)' => s \in extra'
  BY <1>0 DEF Over, Alive, CreationInv, OneSession
<1>4. \A q \in Callers : Making(q)' => q = promise' \/ q \in loose'
  BY <1>1, <1>2 DEF CreationInv
<1> QED
  BY <1>1, <1>2, <1>3, <1>4 DEF CreationInv, OneSession

\* Whoever creates a socket after c's creation has settled isn't c.
LEMMA SettleCreation ==
    ASSUME TypeInv, CreationInv, NEW c \in Callers, Making(c), NEW s, Settle(c, s)
    PROVE  /\ promise' = Nobody
           /\ \A q \in Callers : Making(q)' => q \in loose'
<1>1. promise' = Nobody
  BY DEF Settle
<1>2. ASSUME NEW q \in Callers, Making(q)' PROVE q \in loose'
  <2>1. then[q] \notin {"load", "make"} /\ c \in Waiting(c)
    BY DEF TypeInv, CallersInv, CallerOK, Waiting, Making
  <2>2. q \notin Waiting(c) /\ Making(q)
    BY <1>2, <2>1 DEF Settle, Making
  <2>3. q # c
    BY <2>1, <2>2
  <2>4. q = promise \/ q \in loose
    BY <2>2 DEF CreationInv
  <2>5. promise # Nobody \/ q \in loose
    BY <2>4, SessionAssumption DEF SessionAssumption
  <2> QED
    BY <2>3, <2>4, <2>5 DEF Settle
<1> QED
  BY <1>1, <1>2

LEMMA ClosedCreation ==
    ASSUME CreationInv, NEW s \in Sockets, Over({s}), extra' = extra \ {s},
           held' = IF held = s THEN NoSocket ELSE held,
           UNCHANGED <<promise, pc, loose>>
    PROVE  CreationInv'
<1>1. \A q \in Callers : Making(q)' <=> Making(q)
  BY DEF Making
<1>2. OneSession'
  BY DEF OneSession, CreationInv, Over, Alive
<1> QED
  BY <1>1, <1>2 DEF CreationInv

LEMMA NextCreation == ASSUME TypeInv, CreationInv, [Next]_vars PROVE CreationInv'
<1>0. /\ pc \in [Callers -> Places] /\ then \in [Callers -> Places \ {"load", "make"}]
      /\ Reconnect \in Callers /\ \A p \in Requests : p \in Callers
      /\ NoSocket \notin Sockets /\ Nobody \notin Callers
      /\ held \in Sockets \cup {NoSocket}
      /\ ws \in [Sockets -> {"closed", "connecting", "open"}]
      /\ \A p \in Callers : pc[p] = "make" => mine[p] \in Sockets
  <2>1. {"idle", "wait first", "wait again", "code", "account"} \subseteq Places \ {"load", "make"}
    BY DEF Places
  <2>2. then \in [Callers -> Places \ {"load", "make"}]
    BY <2>1 DEF TypeInv, CallersInv
  <2> QED
    BY <2>2, SessionAssumption
       DEF SessionAssumption, Callers, TypeInv, CallersInv, CallerOK, EntryTypes, SocketTypes
<1>10. ASSUME NEW p \in Callers, Load(p) PROVE CreationInv'
  <2>1. \A q \in Callers : Making(q)' <=> Making(q)
    BY <1>0, <1>10 DEF Load, Got, Making
  <2> QED
    BY <1>10, <2>1, StaysCreation DEF Load, entry, history
<1>11. ASSUME NEW p \in Callers, Make(p) PROVE CreationInv'
  <2>1. Making(p) /\ Settle(p, mine[p]) /\ mine[p] \in Sockets /\ held' = mine[p]
        /\ ws' = [ws EXCEPT ![mine[p]] = "connecting"]
        /\ extra' = (IF p \in loose THEN extra \cup ({held} \ {NoSocket}) ELSE extra)
    BY <1>0, <1>11 DEF Make, Making
  <2>2. held # NoSocket => p \in loose
    BY <2>1, <1>0 DEF CreationInv
  <2>3. ASSUME NEW s \in Sockets, Alive(s)', s # held' PROVE s \in extra'
    <3>1. Alive(s)
      BY <1>0, <2>1, <2>3 DEF Alive
    <3>2. s = held \/ s \in extra
      BY <3>1 DEF CreationInv, OneSession
    <3> QED
      BY <2>1, <2>2, <3>2, <1>0
  <2> QED
    BY <2>1, <2>3, SettleCreation DEF CreationInv, OneSession
<1>12. ASSUME NEW p \in Callers, Fail(p) PROVE CreationInv'
  <2>1. Making(p) /\ Settle(p, NoSocket) /\ UNCHANGED <<held, extra>> /\ Over({mine[p]})
    BY <1>12 DEF Fail, Making
  <2>2. \A s \in Sockets : Alive(s)' => Alive(s)
    BY <2>1 DEF Over, Alive
  <2> QED
    BY <2>1, <2>2, SettleCreation DEF CreationInv, OneSession
<1>13. ASSUME NEW p \in Callers,
              NothingToDo(p) \/ Code(p) \/ NoCode(p) \/ Connected(p) \/ NotConnected(p) \/ Use(p)
              \/ Stat(p) \/ ReadAccount(p) \/ DeleteAccount(p) \/ Wipe(p) \/ CloseFails(p)
       PROVE  CreationInv'
  <2>1. UNCHANGED <<held, promise, ws, loose, extra>> /\ ~ Making(p)
    BY <1>13 DEF NothingToDo, Code, NoCode, Connected, NotConnected, Use, Stat, ReadAccount,
                 DeleteAccount, Wipe, CloseFails, entry, history, Making
  <2>2. \E where : where \notin {"load", "make"} /\ pc' = [pc EXCEPT ![p] = where]
    <3>1. End(p) \/ (\E s : Got(p, s, "use"))
          \/ \E where \in {"account", "stat again", "wipe", then[p]} : Goto(p, where)
      BY <1>13 DEF NothingToDo, Code, NoCode, Connected, NotConnected, Use, Stat, ReadAccount,
                   DeleteAccount, Wipe, CloseFails
    <3>2. then[p] \notin {"load", "make"}
      BY <1>0
    <3> QED
      BY <3>1, <3>2 DEF End, Got, Goto
  <2> QED
    BY <1>0, <2>1, <2>2, OthersMake, StaysCreation
<1>14. ASSUME NEW p \in Callers,
              Connect(p) \/ Harder(p) \/ SendAgain(p) \/ StatAgain(p) \/ WipeAndLink(p)
       PROVE  CreationInv'
  <2>1. PICK force \in BOOLEAN, where \in {"wait first", "wait again", "code", "idle"} :
            Ensure(p, force, where) /\ UNCHANGED <<loose, extra>> /\ ~ Making(p)
    BY <1>14 DEF Connect, Harder, SendAgain, StatAgain, WipeAndLink, Making
  <2> QED
    BY <2>1, EnsureCreation
<1>15. ASSUME NEW p \in Callers, Reset(p) PROVE CreationInv'
  BY <1>15, ClearCreation DEF Reset, Goto, Making
<1>16. ASSUME NEW p \in Callers, NEW where, Mark(p, where), ~ Making(p) PROVE CreationInv'
  BY <1>16, ClearCreation DEF Mark
<1>17. ASSUME NEW p \in Callers, Step(p) PROVE CreationInv'
  BY <1>10, <1>11, <1>12, <1>13, <1>14, <1>15, <1>16, <1>17 DEF Step, StatMarks, StatAgainMarks, Making
<1>20. ASSUME NEW p \in Requests, NEW o \in Operations, Begin(p, o) PROVE CreationInv'
  <2>1. p \in Callers /\ ~ Making(p) /\ UNCHANGED <<held, promise, ws, loose, extra>>
        /\ \E where : where \notin {"load", "make"} /\ pc' = [pc EXCEPT ![p] = where]
    BY <1>0, <1>20 DEF Begin, Making, Idle, entry
  <2> QED
    BY <1>0, <2>1, OthersMake, StaysCreation
<1>21. ASSUME NEW p \in Requests, NEW o \in Operations, Disconnect(p, o) PROVE CreationInv'
  BY <1>0, <1>21, ClearCreation DEF Disconnect, Making, Idle
<1>22. CASE Fire
  <2>1. CASE allow
    BY <1>0, <1>22, <2>1, EnsureCreation DEF Fire, Making, Idle
  <2>2. CASE ~ allow
    BY <1>22, <2>2, StaysCreation DEF Fire, Making
  <2> QED
    BY <2>1, <2>2
<1>23. CASE Boot \/ BootAccounts \/ BootFails
  <2>1. UNCHANGED <<held, promise, ws, loose, extra>> /\ ~ Making(Reconnect)
        /\ \E where \in {"idle", "boot accounts", "boot stat"} : pc' = [pc EXCEPT ![Reconnect] = where]
    BY <1>23 DEF Boot, BootAccounts, BootFails, End, Goto, entry, history, Making
  <2> QED
    BY <1>0, <2>1, OthersMake, StaysCreation
<1>24. CASE BootStat
  BY <1>0, <1>24, EnsureCreation DEF BootStat, Making
<1>25. CASE BootMark
  BY <1>0, <1>16, <1>25 DEF BootMark, Making
<1>26. CASE Crash
  BY <1>0, <1>26 DEF Crash, CreationInv, OneSession, Over, Alive, Making
<1>27. ASSUME NEW s \in Sockets, Open(s) PROVE CreationInv'
  <2>1. \A r \in Sockets : Alive(r)' <=> Alive(r)
    BY <1>0, <1>27 DEF Open, Alive
  <2> QED
    BY <1>27, <2>1 DEF Open, locals, history, CreationInv, OneSession, Making
<1>28. ASSUME NEW s \in Sockets, Scan(s) \/ Lose(s) PROVE CreationInv'
  BY <1>28, ClosedCreation DEF Scan, Lose, Closed, locals
<1>29. ASSUME NEW s \in Sockets, LoggedOut(s) PROVE CreationInv'
  BY <1>29, ClosedCreation DEF LoggedOut, locals
<1>30. CASE UNCHANGED <<held, promise, ws, locals, history>>
  BY <1>30, StaysCreation DEF locals, history, Making
<1> QED
  BY <1>17, <1>20, <1>21, <1>22, <1>23, <1>24, <1>25, <1>26, <1>27, <1>28, <1>29, <1>30
     DEF Next, Show, Unlink, Job, vars, entry

\* There is one session: a connection that is up and isn't the one that is held
\* was left behind, by a creation that a reset or disconnect had disowned, or
\* by markStoredAuthAsDisconnected.  Concurrent requests, the timer's callback
\* and a restart never make a second one.
THEOREM SessionIsOne == Spec => []OneSession
<1>1. Init => TypeInv /\ CreationInv
  BY InitTypes, SessionAssumption DEF Init, CreationInv, OneSession, Alive, Making
<1>2. TypeInv /\ CreationInv /\ [Next]_vars => (TypeInv /\ CreationInv)'
  BY NextTypes, NextCreation
<1>3. CreationInv => OneSession
  BY DEF CreationInv
<1> QED
  BY <1>1, <1>2, <1>3, PTL DEF Spec

-----------------------------------------------------------------------------
(* Who will connect an account                                              *)

Persisting == <<"persist", 0>> \in jobs

\* Callers that are bound to hold a socket, or to give up.
Linking(p) == pc[p] = "wipe" /\ op[p] \in {"qr", "pair"}

Driven ==
    \/ \E p \in Callers : Making(p) \/ Linking(p)
    \/ pc[Reconnect] = "boot stat"
    \/ pc[Reconnect] \in {"boot", "boot accounts"} /\ ~ Persisting

\* A session that may reconnect, holds nothing and has no timer is on its way
\* or has no account, nor will it have one.
DriveInv ==
    allow /\ held = NoSocket /\ ~ gaveUp /\ ~ timer => Driven \/ (~ account /\ ~ Persisting)

\* Steps of somebody who isn't on the way.
LEMMA StaysDriven ==
    ASSUME DriveInv, UNCHANGED <<held, allow, timer, gaveUp, jobs>>, account' \in {account, FALSE},
           NEW p \in Callers, ~ Making(p), ~ Linking(p), pc[p] \notin BootPlaces,
           \A q \in Callers \ {p} : pc'[q] = pc[q] /\ op'[q] = op[q]
    PROVE  DriveInv'
<1>1. \A q \in Callers : (Making(q) => Making(q)') /\ (Linking(q) => Linking(q)')
  BY DEF Making, Linking
<1>2. Persisting' = Persisting
  BY DEF Persisting
<1>3. pc[Reconnect] \in BootPlaces => pc'[Reconnect] = pc[Reconnect]
  BY DEF Callers
<1>4. Driven => Driven'
  BY <1>1, <1>2, <1>3 DEF Driven, BootPlaces
<1> QED
  BY <1>2, <1>4 DEF DriveInv

LEMMA EnsureDriven ==
    ASSUME TypeInv, CreationInv, NEW p \in Callers, NEW force \in BOOLEAN, NEW where,
           Ensure(p, force, where)
    PROVE  DriveInv'
<1>0. pc \in [Callers -> Places]
  BY DEF TypeInv, CallersInv
<1>1. CASE ~ force /\ held # NoSocket
  <2>1. held' # NoSocket
    BY <1>1 DEF Ensure
  <2> QED
    BY <2>1 DEF DriveInv
<1>2. CASE force \/ held = NoSocket
  <2>1. PICK made \in Callers :
            /\ made = IF promise = Nobody THEN p ELSE promise
            /\ pc' = [pc EXCEPT ![p] = IF made = p THEN "load" ELSE "await"]
    BY <1>2 DEF Ensure, TypeInv, EntryTypes
  <2>2. Making(made)'
    BY <1>0, <2>1 DEF Making, CreationInv
  <2> QED
    BY <2>1, <2>2 DEF DriveInv, Driven
<1> QED
  BY <1>1, <1>2

LEMMA JobDriven ==
    ASSUME TypeInv, DriveInv, NEW j \in jobs, Job(j)
    PROVE  DriveInv'
<1>1. UNCHANGED <<held, allow, timer, gaveUp, pc, op>> /\ jobs' = jobs \ {j}
  BY DEF Job, entry, locals, history
<1>2. \A q \in Callers : (Making(q) => Making(q)') /\ (Linking(q) => Linking(q)')
  BY <1>1 DEF Making, Linking
<1>3. j \in Jobs
  BY DEF TypeInv, DiskTypes
<1>4. CASE j[1] = "persist"
  <2>1. j = <<"persist", 0>>
    BY <1>3, <1>4, KindsOfJobs
  <2>2. Persisting
    BY <2>1 DEF Persisting
  <2>3. Driven => Driven'
    BY <1>1, <1>2, <2>2 DEF Driven
  <2> QED
    BY <1>1, <2>2, <2>3 DEF DriveInv
<1>5. CASE j[1] # "persist"
  <2>1. Persisting' = Persisting
    BY <1>1, <1>5 DEF Persisting
  <2>2. account' \in {account, FALSE}
    BY <1>5 DEF Job
  <2>3. Driven => Driven'
    BY <1>1, <1>2, <2>1 DEF Driven
  <2> QED
    BY <1>1, <2>1, <2>2, <2>3 DEF DriveInv
<1> QED
  BY <1>4, <1>5

\* What happens to a socket that isn't held concerns nobody.
LEMMA OutsideDriven ==
    ASSUME DriveInv, UNCHANGED <<held, allow, timer, gaveUp, account, pc, op>>, Persisting' = Persisting
    PROVE  DriveInv'
<1>1. \A q \in Callers : Making(q)' = Making(q) /\ Linking(q)' = Linking(q)
  BY DEF Making, Linking
<1>2. Driven' = Driven
  BY <1>1 DEF Driven
<1> QED
  BY <1>2 DEF DriveInv

LEMMA ClosedDriven ==
    ASSUME DriveInv, NEW s \in Sockets, Closed(s), UNCHANGED <<allow, gaveUp, account, pc, op>>,
           Persisting' = Persisting
    PROVE  DriveInv'
<1>1. CASE held = s
  BY <1>1 DEF Closed, DriveInv
<1>2. CASE held # s
  BY <1>2, OutsideDriven DEF Closed
<1> QED
  BY <1>1, <1>2

LEMMA NextDriven == ASSUME TypeInv, CreationInv, DriveInv, [Next]_vars PROVE DriveInv'
<1>0. /\ pc \in [Callers -> Places] /\ op \in [Callers -> Operations \cup {"none", "resend"}]
      /\ Reconnect \in Callers /\ \A p \in Requests : p \in Callers /\ p # Reconnect
      /\ NoSocket \notin Sockets
      /\ \A p \in Callers : CallerOK(p)
  BY SessionAssumption DEF SessionAssumption, Callers, TypeInv, CallersInv
<1>10. ASSUME NEW p \in Callers, Load(p) PROVE DriveInv'
  <2>1. Making(p)'
    BY <1>0, <1>10 DEF Load, Got, Making
  <2> QED
    BY <2>1 DEF DriveInv, Driven
<1>11. ASSUME NEW p \in Callers, Make(p) PROVE DriveInv'
  <2>1. held' # NoSocket
    BY <1>0, <1>11 DEF Make, CallerOK
  <2> QED
    BY <2>1 DEF DriveInv
<1>12. ASSUME NEW p \in Callers, Fail(p) PROVE DriveInv'
  BY <1>12 DEF Fail, DriveInv
<1>13. ASSUME NEW p \in Callers,
              NothingToDo(p) \/ Code(p) \/ NoCode(p) \/ Connected(p) \/ NotConnected(p) \/ Use(p)
              \/ Stat(p) \/ ReadAccount(p) \/ DeleteAccount(p) \/ Wipe(p)
       PROVE  DriveInv'
  <2>1. UNCHANGED <<held, allow, timer, gaveUp, jobs>> /\ account' \in {account, FALSE}
    BY <1>13 DEF NothingToDo, Code, NoCode, Connected, NotConnected, Use, Stat, ReadAccount,
                 DeleteAccount, Wipe, entry, disk, history
  <2>2. ~ Making(p) /\ ~ Linking(p) /\ pc[p] \notin BootPlaces
    BY <1>13 DEF NothingToDo, Code, NoCode, Connected, NotConnected, Use, Stat, ReadAccount,
                 DeleteAccount, Wipe, Making, Linking, BootPlaces
  <2>3. End(p) \/ (\E s, where : Got(p, s, where)) \/ (\E where : Goto(p, where))
    BY <1>13 DEF NothingToDo, Code, NoCode, Connected, NotConnected, Use, Stat, ReadAccount,
                 DeleteAccount, Wipe
  <2>4. \A q \in Callers \ {p} : pc'[q] = pc[q] /\ op'[q] = op[q]
    BY <1>0, <2>3 DEF End, Got, Goto
  <2> QED
    BY <2>1, <2>2, <2>4, StaysDriven
<1>14. ASSUME NEW p \in Callers,
              Connect(p) \/ Harder(p) \/ SendAgain(p) \/ StatAgain(p) \/ WipeAndLink(p)
       PROVE  DriveInv'
  <2>1. \E force \in BOOLEAN : \E where : Ensure(p, force, where)
    BY <1>14 DEF Connect, Harder, SendAgain, StatAgain, WipeAndLink
  <2> QED
    BY <2>1, EnsureDriven
<1>15. ASSUME NEW p \in Callers, Reset(p) PROVE DriveInv'
  <2>1. Linking(p)'
    BY <1>0, <1>15 DEF Reset, Goto, Linking
  <2> QED
    BY <2>1 DEF DriveInv, Driven
<1>16. ASSUME NEW p \in Callers, NEW where, Mark(p, where) PROVE DriveInv'
  BY <1>16 DEF Mark, DriveInv
<1>17. ASSUME NEW p \in Callers, CloseFails(p) PROVE DriveInv'
  <2>1. CASE gaveUp' \/ timer'
    BY <2>1 DEF DriveInv
  <2>2. CASE ~ gaveUp' /\ ~ timer'
    <3>1. UNCHANGED <<held, allow, timer, gaveUp, jobs, account>>
      BY <1>17, <2>2 DEF CloseFails, TypeInv, EntryTypes
    <3>2. ~ Making(p) /\ ~ Linking(p) /\ pc[p] \notin BootPlaces
      BY <1>17, <2>2 DEF CloseFails, Making, Linking, BootPlaces
    <3>3. \A q \in Callers \ {p} : pc'[q] = pc[q] /\ op'[q] = op[q]
      BY <1>0, <1>17 DEF CloseFails, End
    <3> QED
      BY <3>1, <3>2, <3>3, StaysDriven
  <2> QED
    BY <2>1, <2>2
<1>18. ASSUME NEW p \in Callers, Step(p) PROVE DriveInv'
  BY <1>10, <1>11, <1>12, <1>13, <1>14, <1>15, <1>16, <1>17, <1>18 DEF Step, StatMarks, StatAgainMarks
<1>20. ASSUME NEW p \in Requests, NEW o \in Operations, Begin(p, o) PROVE DriveInv'
  <2>1. /\ UNCHANGED <<held, allow, timer, gaveUp, jobs, account>>
        /\ ~ Making(p) /\ ~ Linking(p) /\ pc[p] \notin BootPlaces
    BY <1>20 DEF Begin, Idle, Making, Linking, BootPlaces, entry, disk
  <2>2. \A q \in Callers \ {p} : pc'[q] = pc[q] /\ op'[q] = op[q]
    BY <1>0, <1>20 DEF Begin
  <2> QED
    BY <1>0, <2>1, <2>2, StaysDriven
<1>21. ASSUME NEW p \in Requests, NEW o \in Operations, Disconnect(p, o) PROVE DriveInv'
  BY <1>21 DEF Disconnect, DriveInv
<1>22. CASE Fire
  BY <1>0, <1>22, EnsureDriven DEF Fire, DriveInv
<1>23. CASE Boot \/ BootAccounts \/ BootFails
  <2>1. CASE BootFails
    BY <2>1 DEF BootFails, DriveInv
  <2>2. CASE BootAccounts /\ account
    <3>1. pc'[Reconnect] = "boot stat"
      BY <1>0, <2>2 DEF BootAccounts, Goto
    <3> QED
      BY <3>1 DEF DriveInv, Driven
  <2>3. CASE Boot \/ (BootAccounts /\ ~ account)
    <3>1. /\ pc[Reconnect] \in {"boot", "boot accounts"}
          /\ (End(Reconnect) /\ ~ account) \/ Goto(Reconnect, "boot accounts")
          /\ UNCHANGED <<held, allow, timer, gaveUp, jobs, account>>
      BY <2>3 DEF Boot, BootAccounts, entry, disk, history
    <3>2. \A q \in Callers : (Making(q) => Making(q)') /\ (Linking(q) => Linking(q)')
      BY <1>0, <3>1 DEF End, Goto, Making, Linking
    <3>3. Persisting' = Persisting
      BY <3>1 DEF Persisting
    <3>4. CASE ~ account
      <4>1. Driven => Driven' \/ ~ Persisting
        BY <3>1, <3>2 DEF Driven
      <4> QED
        BY <3>1, <3>3, <3>4, <4>1 DEF DriveInv
    <3>5. CASE Goto(Reconnect, "boot accounts")
      <4>1. pc'[Reconnect] = "boot accounts"
        BY <1>0, <3>5 DEF Goto
      <4>2. Driven => Driven'
        BY <3>1, <3>2, <3>3, <4>1 DEF Driven
      <4> QED
        BY <3>1, <3>3, <4>2 DEF DriveInv
    <3> QED
      BY <3>1, <3>4, <3>5
  <2> QED
    BY <1>23, <2>1, <2>2, <2>3
<1>24. CASE BootStat
  BY <1>0, <1>24, EnsureDriven DEF BootStat
<1>25. CASE BootMark
  BY <1>0, <1>16, <1>25 DEF BootMark
<1>26. CASE Crash
  <2>1. pc'[Reconnect] = "boot" /\ ~ Persisting'
    BY <1>0, <1>26 DEF Crash, Persisting
  <2> QED
    BY <2>1 DEF DriveInv, Driven
<1>27. ASSUME NEW s \in Sockets, Open(s) PROVE DriveInv'
  <2>1. CASE held = s
    BY <1>0, <1>27, <2>1 DEF Open, DriveInv
  <2>2. CASE held # s
    BY <1>27, <2>2, OutsideDriven DEF Open, disk, locals, history, Persisting
  <2> QED
    BY <2>1, <2>2
<1>28. ASSUME NEW s \in Sockets, Scan(s) PROVE DriveInv'
  <2>1. Persisting' = Persisting
    BY <1>28 DEF Scan, Persisting
  <2> QED
    BY <1>28, <2>1, ClosedDriven DEF Scan, locals
<1>29. ASSUME NEW s \in Sockets, Lose(s) PROVE DriveInv'
  BY <1>29, ClosedDriven DEF Lose, locals, disk, Persisting
<1>30. ASSUME NEW s \in Sockets, LoggedOut(s) PROVE DriveInv'
  <2>1. CASE held = s
    BY <1>30, <2>1 DEF LoggedOut, DriveInv
  <2>2. CASE held # s
    BY <1>30, <2>2, OutsideDriven DEF LoggedOut, disk, locals, Persisting
  <2> QED
    BY <2>1, <2>2
<1>31. ASSUME NEW l \in linked, Unlink(l) PROVE DriveInv'
  BY <1>31, OutsideDriven DEF Unlink, entry, locals, history, Persisting
<1>32. CASE UNCHANGED vars \/ \E s \in Sockets : Show(s)
  BY <1>32, OutsideDriven DEF Show, vars, entry, disk, locals, history, Persisting
<1> QED
  BY <1>18, <1>20, <1>21, <1>22, <1>23, <1>24, <1>25, <1>26, <1>27, <1>28, <1>29, <1>30, <1>31, <1>32,
     JobDriven DEF Next

\* Nobody forgets an account: one whose connection is gone has a timer or a
\* caller on its way, unless it was disconnected, or given up until the next
\* operation by a request that could not create a socket or reset the link,
\* or by a start that could not read the accounts.
THEOREM AccountIsDriven == Spec => []NotForgotten
<1>1. Init => TypeInv /\ CreationInv /\ DriveInv
  BY InitTypes, SessionAssumption
     DEF SessionAssumption, Init, CreationInv, OneSession, Alive, Making, DriveInv, Persisting
<1>2. TypeInv /\ CreationInv /\ DriveInv /\ [Next]_vars => (TypeInv /\ CreationInv /\ DriveInv)'
  BY NextTypes, NextCreation, NextDriven
<1>3. DriveInv => NotForgotten
  <2>1. ASSUME Driven PROVE \E p \in Callers : ~ Idle(p)
    BY <2>1 DEF Driven, Making, Linking, Idle, Callers
  <2> QED
    BY <2>1 DEF DriveInv, NotForgotten
<1> QED
  BY <1>1, <1>2, <1>3, PTL DEF Spec

-----------------------------------------------------------------------------
(* A session that was disconnected                                          *)

QuietPlaces == {"idle", "boot", "boot accounts", "boot stat", "delete", "wipe"}

\* Nobody asks for the session: at most one request is at work, and it closes
\* it; or the bootstrap is, and finds nothing to connect with.
Quiet ==
    /\ held = NoSocket /\ ~ timer
    /\ \A p \in Requests : Idle(p) \/ (p \in Disconnecting /\ pc[p] \in {"delete", "wipe"} /\ then[p] = "idle")
    /\ \A p, q \in Disconnecting : p = q
    /\ pc[Reconnect] \in QuietPlaces
    /\ pc[Reconnect] \in {"delete", "wipe"} => ~ allow
    /\ Disconnecting # {} => Idle(Reconnect)
    /\ Disconnecting = {} => auth = NoFolder
    /\ "job" \notin causes => ~ Persisting /\ ((\A p \in Disconnecting : pc[p] = "wipe") => ~ account)
    /\ "extra" \notin causes => \A s \in Sockets : ~ Alive(s)

QuietInv == "caller" \notin causes => Quiet

\* Nothing but the sockets, what they are made with and calls that nobody waits for changes.
LEMMA StaysQuiet ==
    ASSUME Quiet, UNCHANGED <<held, timer, pc, op, then, causes, account>>,
           auth' \in {auth, NoFolder}, Persisting' => Persisting, allow' => allow,
           \A s \in Sockets : Alive(s)' => Alive(s)
    PROVE  Quiet'
<1>1. Disconnecting' = Disconnecting
  BY DEF Disconnecting
<1> QED
  BY <1>1 DEF Quiet, Idle

LEMMA QuietSteps ==
    ASSUME TypeInv, Quiet, NEW p \in Callers, Step(p)
    PROVE  DeleteAccount(p) \/ (Wipe(p) /\ then[p] = "idle") \/ CloseFails(p)
<1>1. CallerOK(p)
  BY DEF TypeInv, CallersInv
<1>2. pc[p] \in QuietPlaces
  BY DEF Quiet, QuietPlaces, Idle, Callers
<1>3. then[p] = "idle"
  BY <1>1 DEF Quiet, CallerOK, Callers
<1>4. pc[p] = "wipe" => op[p] \notin {"qr", "pair"}
  BY <1>1 DEF Quiet, CallerOK, Callers, Disconnecting, Idle
<1> QED
  BY <1>2, <1>3, <1>4
     DEF QuietPlaces, Step, Load, Make, Fail, NothingToDo, Connect, Reset, WipeAndLink, Code, NoCode,
         Connected, Harder, NotConnected, Use, SendAgain, Stat, StatMarks, ReadAccount, StatAgain, StatAgainMarks

\* Disconnecting while nobody else is at work.
LEMMA DisconnectQuiet ==
    ASSUME TypeInv, CreationInv, NEW p \in Requests, NEW o \in Operations, Disconnect(p, o),
           "caller" \notin causes'
    PROVE  Quiet'
<1>0. /\ pc \in [Callers -> Places] /\ op \in [Callers -> Operations \cup {"none", "resend"}]
      /\ \A q \in Callers : CallerOK(q)
      /\ p \in Callers /\ Requests \subseteq Callers /\ Reconnect \in Callers /\ Reconnect \notin Requests
  BY SessionAssumption DEF SessionAssumption, Callers, TypeInv, CallersInv
<1>1. /\ \A q \in Callers : Idle(q)
      /\ causes' = {c \in {"job", "extra"} : IF c = "job" THEN jobs # {} ELSE extra # {}}
  BY DEF Disconnect
<1>2. \A q \in Callers : op[q] = "none" /\ then[q] = "idle"
  BY <1>0, <1>1 DEF CallerOK
<1>3. /\ pc' = [pc EXCEPT ![p] = "delete"] /\ op' = [op EXCEPT ![p] = o] /\ UNCHANGED <<then, jobs>>
      /\ held' = NoSocket /\ timer' = FALSE /\ Over({held})
      /\ o \in {"disconnect", "disconnectForOrg"}
  BY DEF Disconnect, Clear
<1>4. Disconnecting' = {p}
  BY <1>0, <1>2, <1>3 DEF Disconnecting
<1>5. pc'[p] = "delete" /\ \A q \in Callers \ {p} : pc'[q] = "idle"
  BY <1>0, <1>1, <1>3 DEF Idle
<1>6. ASSUME "extra" \notin causes', NEW s \in Sockets PROVE ~ Alive(s)'
  <2>1. extra = {}
    BY <1>1, <1>6
  <2>2. Alive(s) => s = held
    BY <2>1 DEF CreationInv, OneSession
  <2> QED
    BY <1>3, <2>2 DEF Over, Alive
<1>7. ASSUME "job" \notin causes' PROVE ~ Persisting'
  BY <1>1, <1>3, <1>7 DEF Persisting
<1>8. \A q \in Requests : Idle(q)' \/ (q \in Disconnecting' /\ pc'[q] \in {"delete", "wipe"} /\ then'[q] = "idle")
  BY <1>0, <1>2, <1>3, <1>4, <1>5 DEF Idle
<1>9. Idle(Reconnect)'
  BY <1>0, <1>5 DEF Idle
<1> QED
  BY <1>3, <1>4, <1>5, <1>6, <1>7, <1>8, <1>9 DEF Quiet, QuietPlaces, Idle

LEMMA DeleteQuiet ==
    ASSUME TypeInv, Quiet, NEW p \in Callers, DeleteAccount(p)
    PROVE  Quiet'
<1>0. /\ pc \in [Callers -> Places] /\ Requests \subseteq Callers /\ Reconnect \in Callers
  BY DEF Callers, TypeInv, CallersInv
<1>1. /\ pc[p] = "delete" /\ pc' = [pc EXCEPT ![p] = "wipe"] /\ account' = FALSE
      /\ UNCHANGED <<held, timer, allow, op, then, causes, auth, jobs, ws>>
  BY DEF DeleteAccount, Goto, entry, history
<1>2. Disconnecting' = Disconnecting
  BY <1>1 DEF Disconnecting
<1>3. \A q \in Requests : Idle(q)' \/ (q \in Disconnecting' /\ pc'[q] \in {"delete", "wipe"} /\ then'[q] = "idle")
  BY <1>0, <1>1, <1>2 DEF Quiet, Idle
<1>4. pc'[Reconnect] \in QuietPlaces /\ (pc'[Reconnect] \in {"delete", "wipe"} => ~ allow')
  BY <1>0, <1>1 DEF Quiet, QuietPlaces
<1>5. Disconnecting # {} => Idle(Reconnect)'
  BY <1>0, <1>1 DEF Quiet, Idle
<1>6. Persisting' = Persisting /\ \A s \in Sockets : Alive(s)' = Alive(s)
  BY <1>1 DEF Persisting, Alive
<1> QED
  BY <1>1, <1>2, <1>3, <1>4, <1>5, <1>6 DEF Quiet

LEMMA WipeQuiet ==
    ASSUME TypeInv, Quiet, NEW p \in Callers, Wipe(p), then[p] = "idle"
    PROVE  Quiet'
<1>0. /\ pc \in [Callers -> Places] /\ op \in [Callers -> Operations \cup {"none", "resend"}]
      /\ then \in [Callers -> {"idle", "wait first", "wait again", "code", "account"}]
      /\ Requests \subseteq Callers /\ Reconnect \in Callers /\ Reconnect \notin Requests
      /\ p = Reconnect \/ p \in Requests
  BY SessionAssumption DEF SessionAssumption, Callers, TypeInv, CallersInv
<1>1. /\ pc[p] = "wipe" /\ auth' = NoFolder
      /\ pc' = [pc EXCEPT ![p] = "idle"] /\ op' = [op EXCEPT ![p] = "none"] /\ then' = [then EXCEPT ![p] = "idle"]
      /\ UNCHANGED <<held, timer, allow, causes, account, jobs, ws>>
  BY DEF Wipe, End, entry, history
<1>2. Disconnecting' = Disconnecting \ {p}
  BY <1>0, <1>1 DEF Disconnecting
<1>3. Disconnecting' = {}
  <2>1. CASE p = Reconnect
    BY <1>1, <1>2, <2>1 DEF Quiet, Idle
  <2>2. CASE p \in Requests
    BY <1>1, <1>2, <2>2 DEF Quiet, Idle
  <2> QED
    BY <1>0, <2>1, <2>2
<1>4. \A q \in Disconnecting : pc[q] = "wipe"
  BY <1>1, <1>2, <1>3
<1>5. \A q \in Requests : Idle(q)'
  BY <1>0, <1>1, <1>2, <1>3 DEF Quiet, Idle
<1>6. pc'[Reconnect] \in QuietPlaces /\ (pc'[Reconnect] \in {"delete", "wipe"} => ~ allow')
  BY <1>0, <1>1 DEF Quiet, QuietPlaces
<1>7. Persisting' = Persisting /\ \A s \in Sockets : Alive(s)' = Alive(s)
  BY <1>1 DEF Persisting, Alive
<1> QED
  BY <1>1, <1>3, <1>4, <1>5, <1>6, <1>7 DEF Quiet

\* A step of the bootstrap alone.
LEMMA BootQuiet ==
    ASSUME TypeInv, Quiet, NEW where \in {"idle", "boot accounts", "boot stat", "delete"},
           pc' = [pc EXCEPT ![Reconnect] = where], pc[Reconnect] # "idle", where = "delete" => ~ allow',
           UNCHANGED <<account, jobs, ws, causes>>, auth' \in {auth, NoFolder}, held' = NoSocket, timer' = FALSE,
           \A q \in Requests : op'[q] = op[q] /\ then'[q] = then[q]
    PROVE  Quiet'
<1>0. /\ pc \in [Callers -> Places] /\ Requests \subseteq Callers /\ Reconnect \in Callers
      /\ Reconnect \notin Requests
  BY SessionAssumption DEF SessionAssumption, Callers, TypeInv, CallersInv
<1>1. Disconnecting' = Disconnecting
  BY DEF Disconnecting
<1>2. Disconnecting = {}
  BY DEF Quiet, Idle
<1>3. \A q \in Requests : Idle(q)'
  BY <1>0, <1>2 DEF Quiet, Idle
<1>4. pc'[Reconnect] = where
  BY <1>0
<1>5. Persisting' = Persisting /\ \A s \in Sockets : Alive(s)' = Alive(s)
  BY DEF Persisting, Alive
<1> QED
  BY <1>1, <1>2, <1>3, <1>4, <1>5 DEF Quiet, QuietPlaces

\* A disconnect that fails doesn't count, and the bootstrap's callback sets no
\* timer, since it has just marked the session.
LEMMA FailQuiet ==
    ASSUME TypeInv, Quiet, NEW p \in Callers, CloseFails(p), "caller" \notin causes'
    PROVE  Quiet'
<1>0. /\ pc \in [Callers -> Places] /\ op \in [Callers -> Operations \cup {"none", "resend"}]
      /\ then \in [Callers -> {"idle", "wait first", "wait again", "code", "account"}]
      /\ Reconnect \in Callers /\ Requests \subseteq Callers /\ Reconnect \notin Requests
      /\ op[Reconnect] = "none"
  BY SessionAssumption DEF SessionAssumption, Callers, TypeInv, CallersInv, CallerOK
<1>1. p \notin Disconnecting /\ UNCHANGED causes
  BY DEF CloseFails
<1>2. p = Reconnect
  BY <1>1 DEF CloseFails, Quiet, Idle, Callers
<1>3. /\ pc' = [pc EXCEPT ![p] = "idle"] /\ op' = [op EXCEPT ![p] = "none"]
      /\ then' = [then EXCEPT ![p] = "idle"]
      /\ UNCHANGED <<held, account, jobs, ws>> /\ auth' \in {auth, NoFolder}
  BY DEF CloseFails, End
<1>4. timer' = FALSE /\ held' = NoSocket
  BY <1>2, <1>3 DEF CloseFails, Quiet, TypeInv, EntryTypes
<1>5. \A q \in Requests : op'[q] = op[q] /\ then'[q] = then[q]
  BY <1>0, <1>2, <1>3
<1>6. pc[Reconnect] # "idle"
  BY <1>2 DEF CloseFails
<1> QED
  BY <1>1, <1>2, <1>3, <1>4, <1>5, <1>6, BootQuiet

LEMMA NextQuiet == ASSUME TypeInv, CreationInv, QuietInv, [Next]_vars PROVE QuietInv'
<1> SUFFICES ASSUME "caller" \notin causes' PROVE Quiet'
  BY DEF QuietInv
<1>0. /\ Reconnect \in Callers /\ Requests \subseteq Callers /\ Reconnect \notin Requests /\ NoSocket \notin Sockets
      /\ op \in [Callers -> Operations \cup {"none", "resend"}]
      /\ then \in [Callers -> {"idle", "wait first", "wait again", "code", "account"}]
      /\ pc \in [Callers -> Places]
      /\ ws \in [Sockets -> {"closed", "connecting", "open"}]
      /\ jobs \subseteq Jobs
  BY SessionAssumption DEF SessionAssumption, Callers, TypeInv, CallersInv, SocketTypes, DiskTypes
<1>1. ASSUME NEW p \in Callers, Step(p) PROVE Quiet'
  <2>1. "caller" \notin causes
    BY <1>1
       DEF Step, Load, Make, Fail, NothingToDo, Connect, Reset, WipeAndLink, Code, NoCode, Connected, Harder,
           NotConnected, Use, SendAgain, Stat, StatMarks, ReadAccount, StatAgain, StatAgainMarks, Mark,
           DeleteAccount, Wipe, CloseFails, history
  <2>2. Quiet
    BY <2>1 DEF QuietInv
  <2> QED
    BY <1>1, <2>2, QuietSteps, DeleteQuiet, WipeQuiet, FailQuiet
<1>2. ASSUME NEW p \in Requests, NEW o \in Operations, Begin(p, o) PROVE Quiet'
  BY <1>2 DEF Begin
<1>3. ASSUME NEW p \in Requests, NEW o \in Operations, Disconnect(p, o) PROVE Quiet'
  BY <1>3, DisconnectQuiet
<1>4. CASE Fire
  BY <1>4 DEF Fire, QuietInv, Quiet
<1>5. CASE Boot \/ BootAccounts \/ BootFails
  <2>1. Quiet
    BY <1>5 DEF Boot, BootAccounts, BootFails, history, QuietInv
  <2>2. \E where \in {"idle", "boot accounts", "boot stat"} : pc' = [pc EXCEPT ![Reconnect] = where]
    BY <1>5 DEF Boot, BootAccounts, BootFails, Goto, End
  <2>3. \A q \in Requests : op'[q] = op[q] /\ then'[q] = then[q]
    BY <1>0, <1>5 DEF Boot, BootAccounts, BootFails, Goto, End
  <2>4. UNCHANGED <<held, timer, account, jobs, ws, causes>> /\ auth' \in {auth, NoFolder}
        /\ pc[Reconnect] # "idle"
    BY <1>5 DEF Boot, BootAccounts, BootFails, entry, disk, history
  <2>5. held' = NoSocket /\ timer' = FALSE
    BY <2>1, <2>4 DEF Quiet, TypeInv, EntryTypes
  <2> QED
    BY <2>1, <2>2, <2>3, <2>4, <2>5, BootQuiet
<1>6. CASE BootStat
  <2>1. Quiet
    BY <1>6 DEF BootStat, QuietInv
  <2>2. auth = NoFolder
    BY <1>6, <2>1 DEF BootStat, Quiet, Idle
  <2> QED
    BY <1>6, <2>2 DEF BootStat, Usable
<1>7. CASE BootMark
  <2>1. Quiet
    BY <1>7 DEF BootMark, Mark, QuietInv
  <2>2. \A q \in Requests : op'[q] = op[q] /\ then'[q] = then[q]
    BY <1>0, <1>7 DEF BootMark, Mark
  <2> QED
    BY <1>7, <2>1, <2>2, BootQuiet DEF BootMark, Mark, Clear, disk
<1>8. CASE Crash
  <2>1. Disconnecting = {} /\ UNCHANGED causes
    BY <1>8 DEF Crash
  <2>2. Quiet
    BY <2>1 DEF QuietInv
  <2>3. /\ held' = NoSocket /\ timer' = FALSE /\ jobs' = {} /\ UNCHANGED <<account, auth>>
        /\ \A q \in Requests : pc'[q] = "idle" /\ op'[q] = "none"
        /\ pc'[Reconnect] = "boot"
        /\ \A s \in Sockets : ~ Alive(s)'
    BY <1>0, <1>8 DEF Crash, Over, Alive, disk
  <2>4. Disconnecting' = {}
    BY <2>3 DEF Disconnecting
  <2> QED
    BY <2>1, <2>2, <2>3, <2>4 DEF Quiet, QuietPlaces, Idle, Persisting
<1>9. ASSUME NEW s \in Sockets, Open(s) \/ Scan(s) \/ Lose(s) \/ LoggedOut(s) PROVE Quiet'
  <2>1. UNCHANGED <<pc, op, then, causes, account, auth>>
    BY <1>9 DEF Open, Scan, Lose, LoggedOut, locals, history, disk
  <2>2. Quiet /\ held # s
    BY <1>0, <2>1 DEF QuietInv, Quiet
  <2>3. UNCHANGED <<held, timer>> /\ (Persisting' => Persisting) /\ (allow' => allow)
    BY <1>9, <2>2 DEF Open, Scan, Lose, LoggedOut, Closed, Persisting
  <2>4. \A r \in Sockets : Alive(r)' => Alive(r)
    BY <1>0, <1>9 DEF Open, Scan, Lose, LoggedOut, Closed, Over, Alive
  <2> QED
    BY <2>1, <2>2, <2>3, <2>4, StaysQuiet
<1>10. ASSUME NEW l \in linked, Unlink(l) PROVE Quiet'
  BY <1>10, StaysQuiet DEF Unlink, QuietInv, entry, locals, history, Persisting, Alive
<1>11. ASSUME NEW j \in jobs, Job(j) PROVE Quiet'
  <2>1. UNCHANGED <<held, timer, allow, pc, op, then, causes, ws>> /\ jobs' = jobs \ {j}
    BY <1>11 DEF Job, entry, locals, history
  <2>2. Quiet
    BY <2>1 DEF QuietInv
  <2>3. Disconnecting' = Disconnecting /\ (Persisting' => Persisting)
        /\ \A s \in Sockets : Alive(s)' = Alive(s)
    BY <2>1 DEF Disconnecting, Persisting, Alive
  <2>4. auth' # NoFolder => auth # NoFolder
    BY <1>11 DEF Job
  <2>5. "job" \notin causes => j[1] # "persist"
    BY <1>0, <2>2, KindsOfJobs DEF Quiet, Persisting
  <2>6. "job" \notin causes => (account' => account)
    BY <1>11, <2>5 DEF Job
  <2>7. Disconnecting' = {} => auth' = NoFolder
    BY <2>2, <2>3, <2>4 DEF Quiet
  <2>8. "job" \notin causes' => ~ Persisting' /\ ((\A p \in Disconnecting' : pc'[p] = "wipe") => ~ account')
    BY <2>1, <2>2, <2>3, <2>6 DEF Quiet
  <2> QED
    BY <2>1, <2>2, <2>3, <2>7, <2>8 DEF Quiet, Idle
<1>12. CASE UNCHANGED vars \/ \E s \in Sockets : Show(s)
  BY <1>12, StaysQuiet DEF Show, QuietInv, vars, entry, disk, locals, history, Persisting, Alive
<1> QED
  BY <1>1, <1>2, <1>3, <1>4, <1>5, <1>6, <1>7, <1>8, <1>9, <1>10, <1>11, <1>12 DEF Next

\* A disconnect that succeeds lasts until somebody asks for the session again,
\* but for what was under way as it began: no socket is held or timer set, the account and
\* the credentials are gone, and no connection is up, across restarts too.
THEOREM DisconnectLasts == Spec => []DisconnectHolds
<1>1. Init => TypeInv /\ CreationInv /\ QuietInv
  BY InitTypes, SessionAssumption DEF Init, CreationInv, OneSession, Alive, Making, QuietInv
<1>2. TypeInv /\ CreationInv /\ QuietInv /\ [Next]_vars => (TypeInv /\ CreationInv /\ QuietInv)'
  BY NextTypes, NextCreation, NextQuiet
<1>3. QuietInv => DisconnectHolds
  BY DEF QuietInv, Quiet, DisconnectHolds
<1> QED
  BY <1>1, <1>2, <1>3, PTL DEF Spec

=============================================================================
