------------------------------ MODULE Session ------------------------------
(***************************************************************************)
(* The WhatsApp session of one organization in one server process: the     *)
(* entry of the session store, the sockets that were made for it, the      *)
(* credentials on disk and the row of the connected account.  Whoever      *)
(* needs the socket gets the one that is held, waits for the one that is   *)
(* being created, or creates one; the handler of connection.update keeps   *)
(* the entry up to date; requests link, refresh and disconnect.            *)
(*                                                                         *)
(* The code between two awaits runs alone.  Who waits for a promise goes   *)
(* on as it settles, before anything else happens, so that settling is     *)
(* one step for all of them.                                               *)
(*                                                                         *)
(* The socket is a library's: it connects, shows a QR code, is linked,     *)
(* lost or logged out.  Another process that connects with the same        *)
(* credentials takes the connection over, which is one way to be lost.     *)
(* Data left out: QR and pairing codes, phone numbers, delays and the      *)
(* text of errors.                                                         *)
(***************************************************************************)
EXTENDS Integers, FiniteSets

CONSTANTS
    Requests,   \* request slots of the process
    Reconnect,  \* the timer's callback, which is the bootstrap's too
    Sockets,
    NoSocket,
    Operations, \* what requests ask for
    MaxLinks,   \* bound: how often a phone is linked
    MaxCrashes, \* bound: restarts of the process
    Faults      \* "create": a socket's creation may fail; "query": the bootstrap's
                \* look at the accounts; "close": deleting an account, or its files

Callers == Requests \cup {Reconnect}

Nobody == "nobody"

ASSUME SessionAssumption ==
    /\ Reconnect \notin Requests
    /\ NoSocket \notin Sockets /\ Nobody \notin Callers
    /\ Operations \subseteq {"send", "look up", "qr", "pair", "refresh", "disconnect",
                       "disconnectForOrg"}
    /\ MaxLinks \in Nat /\ MaxCrashes \in Nat
    /\ Faults \subseteq {"create", "query", "close"}

\* What is on disk: no folder, one without credentials or with some that no
\* phone was linked with (asking for a pairing code stores such), or the number
\* of the link they are for.
NoFolder == -1
Unregistered == 0

VARIABLES
    \* the entry of the session store
    held,     \* socket
    connected, \* status is CONNECTED; no guard tells the others apart
    promise,  \* initPromise: the caller whose creation it is
    allow,    \* allowReconnect
    timer,    \* reconnectTimer is set
    \* what outlives the process
    auth,     \* the credentials on disk
    account,  \* the waAccount row exists
    linked,   \* the links that the phone has not removed
    links,    \* how many there have been
    \* the process
    ws,       \* the state of each socket's connection
    creds,    \* the link that each socket was made with, or has got
    jobs,     \* calls that nobody waits for
    pc, op,   \* what each caller does next, and for which operation
    then,     \* where it goes on when the socket it needs is there
    waits,    \* whose creation it waits for
    mine,     \* the socket it has got
    crashes,
    \* history
    loose,    \* callers whose creation goes on without being initPromise
    extra,    \* sockets that were left open for that reason, or by mark
    causes,   \* what was under way when the session was disconnected; "caller",
              \* too, when it could not be
    gaveUp    \* the last to need a socket ended without one or a timer: a request
              \* that could not create it or reset the link, or the bootstrap

entry   == <<held, connected, promise, allow, timer>>
disk    == <<auth, account, linked, links>>
locals  == <<pc, op, then, waits, mine>>
history == <<loose, extra, causes, gaveUp>>
vars    == <<entry, disk, ws, creds, jobs, locals, crashes, history>>

Alive(s) == ws[s] # "closed"

\* hasUsableStoredAuth: there is a file.  Without a link there may be either.
Usable == auth # NoFolder
Unusable == auth <= Unregistered

\* What isSocketOpen may say: it asks the WebSocket, which may be up already
\* while the session connects, or shows a QR code.
Up(s) == IF ws[s] = "connecting" THEN BOOLEAN ELSE {ws[s] = "open"}

HeldIsUp == IF held = NoSocket THEN {FALSE} ELSE Up(held)

\* A connection may be used up by a new socket when nobody knows the old one.
Free == {s \in Sockets : ws[s] = "closed" /\ s # held /\ \A p \in Callers : mine[p] # s}

Idle(p) == pc[p] = "idle"

Init ==
    /\ held = NoSocket /\ connected = FALSE /\ promise = Nobody
    /\ allow = TRUE /\ timer = FALSE
    /\ auth = NoFolder /\ account = FALSE /\ linked = {} /\ links = 0
    /\ ws = [s \in Sockets |-> "closed"]
    /\ creds = [s \in Sockets |-> Unregistered]
    /\ jobs = {}
    /\ pc = [p \in Callers |-> "idle"]
    /\ op = [p \in Callers |-> "none"]
    /\ then = [p \in Callers |-> "idle"]
    /\ waits = [p \in Callers |-> Nobody]
    /\ mine = [p \in Callers |-> NoSocket]
    /\ crashes = 0
    /\ loose = {} /\ extra = {} /\ causes = {"caller"} /\ gaveUp = FALSE

-----------------------------------------------------------------------------
(* Steps of a caller *)

Goto(p, where) == pc' = [pc EXCEPT ![p] = where] /\ UNCHANGED <<op, then, waits, mine>>

End(p) ==
    /\ pc' = [pc EXCEPT ![p] = "idle"]
    /\ op' = [op EXCEPT ![p] = "none"]
    /\ then' = [then EXCEPT ![p] = "idle"]
    /\ mine' = [mine EXCEPT ![p] = NoSocket]
    /\ UNCHANGED waits

\* The socket is there: on to what it is needed for.
Got(p, s, where) ==
    /\ pc' = [pc EXCEPT ![p] = where]
    /\ mine' = [mine EXCEPT ![p] = s]
    /\ UNCHANGED <<op, then, waits>>

\* Sockets whose connection is over.
Over(ss) ==
    /\ ws' = [s \in Sockets |-> IF s \in ss THEN "closed" ELSE ws[s]]
    /\ creds' = [s \in Sockets |-> IF s \in ss THEN Unregistered ELSE creds[s]]

\* Mutant: a creation that is under way is not waited for.
EnsureAnew(p, force, where) ==
    LET keeps == ~ force /\ held # NoSocket
        ends  == force /\ held # NoSocket
        made  == p
    IN  IF keeps
        THEN /\ \E up \in Up(held) :
                   LET ready == up /\ where = "wait first"
                   IN  /\ pc' = [pc EXCEPT ![p] = IF ready THEN "use" ELSE where]
                       /\ connected' = (ready \/ connected)
             /\ mine' = [mine EXCEPT ![p] = held]
             /\ UNCHANGED <<held, promise, allow, ws, creds, then, waits, gaveUp>>
        ELSE /\ held' = NoSocket
             /\ Over(IF force THEN {held} ELSE {})
             /\ connected' = (connected /\ ~ ends)
             /\ allow' = (ends \/ allow)
             /\ promise' = made
             /\ pc' = [pc EXCEPT ![p] = IF made = p THEN "load" ELSE "await"]
             /\ waits' = [waits EXCEPT ![p] = made]
             /\ then' = [then EXCEPT ![p] = where]
             /\ mine' = [mine EXCEPT ![p] = NoSocket]
             /\ gaveUp' = FALSE

\* ensureBaileysSocket, from its first line to its first await.  A socket that
\* is held is open or connecting: the handler drops it as it is closed.  A socket that
\* is kept and open is connected, for those who asked for that
\* (ensureConnectedSocketForOrg).
Ensure(p, force, where) ==
    LET keeps == ~ force /\ held # NoSocket
        ends  == force /\ held # NoSocket
        made  == IF promise = Nobody THEN p ELSE promise
    IN  IF keeps
        THEN /\ \E up \in Up(held) :
                   LET ready == up /\ where = "wait first"
                   IN  /\ pc' = [pc EXCEPT ![p] = IF ready THEN "use" ELSE where]
                       /\ connected' = (ready \/ connected)
             /\ mine' = [mine EXCEPT ![p] = held]
             /\ UNCHANGED <<held, promise, allow, ws, creds, then, waits, gaveUp>>
        ELSE /\ held' = NoSocket
             /\ Over(IF force THEN {held} ELSE {})
             /\ connected' = (connected /\ ~ ends)
             /\ allow' = (ends \/ allow)
             /\ promise' = made
             /\ pc' = [pc EXCEPT ![p] = IF made = p THEN "load" ELSE "await"]
             /\ waits' = [waits EXCEPT ![p] = made]
             /\ then' = [then EXCEPT ![p] = where]
             /\ mine' = [mine EXCEPT ![p] = NoSocket]
             /\ gaveUp' = FALSE

\* Mutant: the timer goes on.
ClearButTimer(forget) ==
    /\ held' = NoSocket
    /\ connected' = FALSE
    /\ timer' = timer
    /\ promise' = IF forget THEN Nobody ELSE promise
    /\ loose' = IF forget /\ promise # Nobody THEN loose \cup {promise} ELSE loose

\* What clears the entry also forgets initPromise, except for
\* disconnectBaileysSessionForOrg.
Clear(forget) ==
    /\ held' = NoSocket
    /\ connected' = FALSE
    /\ timer' = FALSE
    /\ promise' = IF forget THEN Nobody ELSE promise
    /\ loose' = IF forget /\ promise # Nobody THEN loose \cup {promise} ELSE loose

\* markStoredAuthAsDisconnected, up to the account.  The socket is not ended.
Mark(p, where) ==
    /\ Clear(TRUE)
    /\ allow' = FALSE
    /\ extra' = extra \cup ({held} \ {NoSocket})
    /\ pc' = [pc EXCEPT ![p] = "delete"]
    /\ then' = [then EXCEPT ![p] = where]
    /\ UNCHANGED <<disk, ws, creds, jobs, op, waits, mine, crashes, causes, gaveUp>>

\* Closing the session: the requests that are at it.
Disconnecting == {p \in Requests : op[p] \in {"disconnect", "disconnectForOrg"}}

-----------------------------------------------------------------------------
(* createSocketForOrg *)

\* The folder is there if need be, and the credentials are read.
Load(p) ==
    /\ pc[p] = "load"
    /\ auth' = IF auth = NoFolder THEN Unregistered ELSE auth
    /\ \E s \in Free :
          /\ creds' = [creds EXCEPT ![s] = IF auth > 0 THEN auth ELSE Unregistered]
          /\ Got(p, s, "make")
    /\ UNCHANGED <<entry, account, linked, links, ws, jobs, crashes, history>>

\* Those who wait for c's creation, c itself among them.
Waiting(c) == {p \in Callers : waits[p] = c /\ pc[p] \in {"await", "load", "make"}}

\* The promise of c settles: its finally clears initPromise, be it c's or a
\* newer one, and everybody who waits for it goes on, or fails, which for
\* most is the end.
Settle(c, s) ==
    /\ promise' = Nobody
    /\ loose' = (IF promise \in {c, Nobody} THEN loose ELSE loose \cup {promise}) \ {c}
    /\ LET who == Waiting(c) IN
          /\ pc' = [p \in Callers |-> IF p \notin who THEN pc[p]
                                      ELSE IF s = NoSocket THEN "idle" ELSE then[p]]
          /\ mine' = [p \in Callers |-> IF p \in who THEN s ELSE mine[p]]
          /\ waits' = [p \in Callers |-> IF p \in who THEN Nobody ELSE waits[p]]
          /\ then' = [p \in Callers |-> IF p \in who THEN "idle" ELSE then[p]]
          /\ op' = [p \in Callers |->
                       IF p \in who /\ (s = NoSocket \/ then[p] = "idle") THEN "none" ELSE op[p]]

\* The version has been fetched.  Nothing looks at what is held by now.
Make(p) ==
    /\ pc[p] = "make"
    /\ held' = mine[p]
    /\ ws' = [ws EXCEPT ![mine[p]] = "connecting"]
    /\ connected' = FALSE
    /\ allow' = TRUE
    /\ extra' = IF p \in loose THEN extra \cup ({held} \ {NoSocket}) ELSE extra
    /\ Settle(p, mine[p])
    /\ UNCHANGED <<timer, disk, creds, jobs, crashes, causes, gaveUp>>

\* Or it fails.  The timer's callback, and the bootstrap, call
\* scheduleReconnect; nobody else does.
Fail(p) ==
    /\ "create" \in Faults
    /\ pc[p] \in {"load", "make"}
    /\ connected' = FALSE
    /\ timer' = (timer \/ (allow /\ Reconnect \in Waiting(p)))
    /\ gaveUp' = (~ timer /\ Reconnect \notin Waiting(p))
    /\ Settle(p, NoSocket)
    /\ Over({mine[p]})
    /\ UNCHANGED <<held, allow, disk, jobs, crashes, extra, causes>>

-----------------------------------------------------------------------------
(* connection.update *)

\* Mutant: only the restart that a link asks for is made.
ClosedUnlessUp(s) ==
    /\ Over({s})
    /\ extra' = extra \ {s}
    /\ IF held = s
       THEN /\ held' = NoSocket
            /\ connected' = FALSE
            /\ timer' = (timer \/ (allow /\ ~ connected))
       ELSE UNCHANGED <<held, connected, timer>>

\* The handler's close, for whatever reason but a logout: scheduleReconnect.
Closed(s) ==
    /\ Over({s})
    /\ extra' = extra \ {s}
    /\ IF held = s
       THEN /\ held' = NoSocket
            /\ connected' = FALSE
            /\ timer' = (timer \/ allow)
       ELSE UNCHANGED <<held, connected, timer>>

\* The socket connects: with a link that the phone still has it opens.
Open(s) ==
    /\ ws[s] = "connecting" /\ creds[s] \in linked
    /\ ws' = [ws EXCEPT ![s] = "open"]
    /\ IF held = s
       THEN /\ connected' = TRUE
            /\ timer' = FALSE
            /\ jobs' = jobs \cup {<<"persist", 0>>}
       ELSE UNCHANGED <<connected, timer, jobs>>
    /\ UNCHANGED <<held, promise, allow, disk, creds, locals, crashes, history>>

\* Before, it says that it connects, or shows a QR code.
Show(s) ==
    /\ ws[s] = "connecting" /\ held = s
    /\ connected' = FALSE
    /\ UNCHANGED <<held, promise, allow, timer, disk, ws, creds, jobs, locals, crashes, history>>

\* When a phone scans that, the new credentials are stored (creds.update) and
\* WhatsApp closes the connection for a restart.
Scan(s) ==
    /\ ws[s] = "connecting" /\ creds[s] = Unregistered
    /\ links < MaxLinks
    /\ links' = links + 1
    /\ linked' = linked \cup {links'}
    /\ jobs' = jobs \cup {<<"save", links'>>}
    /\ Closed(s)
    /\ UNCHANGED <<promise, allow, auth, account, locals, crashes, loose, causes, gaveUp>>

\* A connection is lost.
Lose(s) ==
    /\ Alive(s)
    /\ Closed(s)
    /\ UNCHANGED <<promise, allow, disk, jobs, locals, crashes, loose, causes, gaveUp>>

\* The phone removes a link, ...
Unlink(l) ==
    /\ linked' = linked \ {l}
    /\ UNCHANGED <<entry, auth, account, links, ws, creds, jobs, locals, crashes, history>>

\* ... and its socket is closed as logged out.
LoggedOut(s) ==
    /\ Alive(s) /\ creds[s] > 0 /\ creds[s] \notin linked
    /\ Over({s})
    /\ IF held = s
       THEN /\ held' = NoSocket
            /\ connected' = FALSE
            /\ allow' = FALSE
            /\ timer' = FALSE
            /\ jobs' = jobs \cup {<<"clear account", 0>>, <<"clear files", 0>>}
       ELSE UNCHANGED <<held, connected, allow, timer, jobs>>
    /\ extra' = extra \ {s}
    /\ UNCHANGED <<promise, disk, locals, crashes, loose, causes, gaveUp>>

\* persistConnectedAccount, clearConnectedAccount, clearRuntimeFiles and
\* saveCreds, where nobody waits for them.  What is saved needs a folder.
Job(j) ==
    /\ jobs' = jobs \ {j}
    /\ account' = CASE j[1] = "persist" -> TRUE
                    [] j[1] = "clear account" -> FALSE
                    [] OTHER -> account
    /\ auth' = CASE j[1] = "clear files" -> NoFolder
                 [] j[1] = "save" /\ auth # NoFolder -> j[2]
                 [] OTHER -> auth
    /\ UNCHANGED <<entry, linked, links, ws, creds, locals, crashes, history>>

-----------------------------------------------------------------------------
(* Reconnecting, and the start of the process *)

\* The timer fires.  (Of its callbacks one is at work at a time.)
Fire ==
    /\ timer /\ Idle(Reconnect)
    /\ timer' = FALSE
    /\ IF allow THEN Ensure(Reconnect, TRUE, "idle")
       ELSE UNCHANGED <<held, connected, promise, allow, ws, creds, pc, then, waits, mine, gaveUp>>
    /\ UNCHANGED <<disk, jobs, op, crashes, loose, extra, causes>>

\* The process dies and is started again: bootstrapConnectedBaileysSessions.
Crash ==
    /\ crashes < MaxCrashes
    /\ crashes' = crashes + 1
    /\ held' = NoSocket /\ connected' = FALSE /\ promise' = Nobody
    /\ allow' = TRUE /\ timer' = FALSE
    /\ Over(Sockets)
    /\ jobs' = {}
    /\ pc' = [p \in Callers |-> IF p = Reconnect THEN "boot" ELSE "idle"]
    /\ op' = [p \in Callers |-> "none"]
    /\ then' = [p \in Callers |-> "idle"]
    /\ waits' = [p \in Callers |-> Nobody]
    /\ mine' = [p \in Callers |-> NoSocket]
    /\ loose' = {} /\ extra' = {} /\ gaveUp' = FALSE
    /\ causes' = IF Disconnecting = {} THEN causes ELSE {"caller"}
    /\ UNCHANGED disk

\* It removes folders without credentials (pruneInvalidStoredAuth), as far as it can, ...
Boot ==
    /\ pc[Reconnect] = "boot"
    /\ auth' \in IF Unusable THEN {auth, NoFolder} ELSE {auth}
    /\ Goto(Reconnect, "boot accounts")
    /\ UNCHANGED <<entry, account, linked, links, ws, creds, jobs, crashes, history>>

\* ... reads the accounts, ...
BootAccounts ==
    /\ pc[Reconnect] = "boot accounts"
    /\ IF account THEN Goto(Reconnect, "boot stat") ELSE End(Reconnect)
    /\ UNCHANGED <<entry, disk, ws, creds, jobs, crashes, history>>

\* (which may fail: that is ignored, for who needs the session will ask for it)
BootFails ==
    /\ "query" \in Faults
    /\ pc[Reconnect] = "boot accounts"
    /\ gaveUp' = TRUE
    /\ End(Reconnect)
    /\ UNCHANGED <<entry, disk, ws, creds, jobs, crashes, loose, extra, causes>>

\* ... and looks for usable credentials.
BootStat ==
    /\ pc[Reconnect] = "boot stat"
    /\ Usable
    /\ Ensure(Reconnect, FALSE, "idle")
    /\ UNCHANGED <<timer, disk, jobs, op, crashes, loose, extra, causes>>

BootMark ==
    /\ pc[Reconnect] = "boot stat"
    /\ Unusable
    /\ Mark(Reconnect, "idle")

-----------------------------------------------------------------------------
(* Requests *)

\* All of them look at the member's access first, which changes nothing.
Begin(p, o) ==
    /\ Idle(p) /\ o \notin {"disconnect", "disconnectForOrg"}
    /\ pc' = [pc EXCEPT ![p] = IF o = "refresh" THEN "stat" ELSE "account"]
    /\ op' = [op EXCEPT ![p] = o]
    /\ causes' = {"caller"}
    /\ UNCHANGED <<entry, disk, ws, creds, jobs, then, waits, mine, crashes, loose, extra, gaveUp>>

\* Sending: ensureBaileysConnectedForOrg, then ensureConnectedSocketForOrg.
\* Looking up contacts and groups goes there without looking for an account.
Connect(p) ==
    /\ pc[p] = "account"
    /\ op[p] = "look up" \/ (op[p] = "send" /\ account)
    /\ Ensure(p, FALSE, "wait first")
    /\ UNCHANGED <<timer, disk, jobs, op, crashes, loose, extra, causes>>

\* No account to send from, or to link when there is one that is connected.
NothingToDo(p) ==
    /\ pc[p] = "account"
    /\ \/ op[p] \in {"send", "refresh"} /\ ~ account
       \/ op[p] \in {"qr", "pair"} /\ account /\ connected
    /\ End(p)
    /\ UNCHANGED <<entry, disk, ws, creds, jobs, crashes, history>>

\* resetBaileysLinkState, up to the files.
Reset(p) ==
    /\ pc[p] = "account" /\ op[p] \in {"qr", "pair"}
    /\ ~ (account /\ connected)
    /\ Clear(TRUE)
    /\ Over({held})
    /\ allow' = TRUE
    /\ Goto(p, "wipe")
    /\ UNCHANGED <<disk, jobs, crashes, extra, causes, gaveUp>>

\* Then startBaileysQrSession and startBaileysPairing get a socket: one waits
\* for its code, which changes nothing, the other asks for one.
WipeAndLink(p) ==
    /\ pc[p] = "wipe" /\ op[p] \in {"qr", "pair"}
    /\ auth' = NoFolder
    /\ Ensure(p, TRUE, IF op[p] = "pair" THEN "code" ELSE "idle")
    /\ UNCHANGED <<timer, account, linked, links, jobs, op, crashes, loose, extra, causes>>

\* requestPairingCode answers, whatever became of the entry.
Code(p) ==
    /\ pc[p] = "code" /\ TRUE \in Up(mine[p])
    /\ connected' = FALSE
    /\ End(p)
    /\ UNCHANGED <<held, promise, allow, timer, disk, ws, creds, jobs, crashes, history>>

NoCode(p) ==
    /\ pc[p] = "code"
    /\ End(p)
    /\ UNCHANGED <<entry, disk, ws, creds, jobs, crashes, history>>

\* The socket that p has is open.
Connected(p) ==
    /\ pc[p] \in {"wait first", "wait again"}
    /\ TRUE \in Up(mine[p]) /\ TRUE \in HeldIsUp
    /\ connected' = TRUE
    /\ IF op[p] = "refresh" THEN End(p) ELSE Got(p, held, "use")
    /\ UNCHANGED <<held, promise, allow, timer, disk, ws, creds, jobs, crashes, history>>

\* It isn't within its time, or isn't the one that is held: once more, by force.
Harder(p) ==
    /\ pc[p] = "wait first"
    /\ FALSE \in Up(mine[p]) \cup HeldIsUp
    /\ Ensure(p, TRUE, "wait again")
    /\ UNCHANGED <<timer, disk, jobs, op, crashes, loose, extra, causes>>

NotConnected(p) ==
    /\ pc[p] = "wait again"
    /\ FALSE \in Up(mine[p]) \cup HeldIsUp
    /\ End(p)
    /\ UNCHANGED <<entry, disk, ws, creds, jobs, crashes, history>>

\* The message goes out; for the others it doesn't matter whether it fails.
Use(p) ==
    /\ pc[p] = "use"
    /\ op[p] = "send" => TRUE \in Up(mine[p])
    /\ End(p)
    /\ UNCHANGED <<entry, disk, ws, creds, jobs, crashes, history>>

\* sendBaileysTextMessage, where the socket has been closed: once more.
SendAgain(p) ==
    /\ pc[p] = "use" /\ op[p] = "send" /\ FALSE \in Up(mine[p])
    /\ op' = [op EXCEPT ![p] = "resend"]
    /\ Ensure(p, TRUE, "wait first")
    /\ UNCHANGED <<timer, disk, jobs, crashes, loose, extra, causes>>

\* getBaileysConnectionContext with refresh.
Stat(p) ==
    /\ pc[p] = "stat" /\ Usable
    /\ Goto(p, "account")
    /\ UNCHANGED <<entry, disk, ws, creds, jobs, crashes, history>>

StatMarks(p) ==
    /\ pc[p] = "stat" /\ Unusable
    /\ Mark(p, "account")

ReadAccount(p) ==
    /\ pc[p] = "account" /\ op[p] = "refresh" /\ account
    /\ Goto(p, "stat again")
    /\ UNCHANGED <<entry, disk, ws, creds, jobs, crashes, history>>

StatAgain(p) ==
    /\ pc[p] = "stat again" /\ Usable
    /\ Ensure(p, FALSE, "wait first")
    /\ UNCHANGED <<timer, disk, jobs, op, crashes, loose, extra, causes>>

StatAgainMarks(p) ==
    /\ pc[p] = "stat again" /\ Unusable
    /\ Mark(p, "idle")

\* disconnectBaileysSession, and the public API's disconnectBaileysSessionForOrg,
\* up to the account.
Disconnect(p, o) ==
    /\ Idle(p) /\ o \in {"disconnect", "disconnectForOrg"}
    /\ Clear(o = "disconnect")
    /\ allow' = FALSE
    /\ Over({held})
    /\ causes' = IF \E q \in Callers : ~ Idle(q) THEN {"caller"}
                 ELSE {c \in {"job", "extra"} : IF c = "job" THEN jobs # {} ELSE extra # {}}
    /\ pc' = [pc EXCEPT ![p] = "delete"]
    /\ op' = [op EXCEPT ![p] = o]
    /\ UNCHANGED <<disk, jobs, then, waits, mine, crashes, extra, gaveUp>>

\* clearConnectedAccount, and then clearRuntimeFiles.
DeleteAccount(p) ==
    /\ pc[p] = "delete"
    /\ account' = FALSE
    /\ Goto(p, "wipe")
    /\ UNCHANGED <<entry, auth, linked, links, ws, creds, jobs, crashes, history>>

Wipe(p) ==
    /\ pc[p] = "wipe" /\ op[p] \notin {"qr", "pair"}
    /\ auth' = NoFolder
    /\ IF then[p] = "idle" THEN End(p) ELSE Goto(p, then[p])
    /\ UNCHANGED <<entry, account, linked, links, ws, creds, jobs, crashes, history>>

\* Either of them fails, the latter after it removed the credentials or before:
\* that is the end of a request, before a reset has got its socket, and the
\* bootstrap's callback calls scheduleReconnect.
CloseFails(p) ==
    /\ "close" \in Faults
    /\ pc[p] \in {"delete", "wipe"}
    /\ auth' \in {auth} \cup IF pc[p] = "wipe" THEN {NoFolder} ELSE {}
    /\ timer' = (timer \/ (p = Reconnect /\ allow))
    /\ gaveUp' = (gaveUp \/ op[p] \in {"qr", "pair"})
    /\ causes' = IF p \in Disconnecting THEN {"caller"} ELSE causes
    /\ End(p)
    /\ UNCHANGED <<held, connected, promise, allow, account, linked, links, ws, creds, jobs, crashes,
                   loose, extra>>

-----------------------------------------------------------------------------

\* A step of the one who goes on by itself.
Step(p) ==
    \/ Load(p) \/ Make(p) \/ Fail(p)
    \/ NothingToDo(p) \/ Connect(p) \/ Reset(p) \/ WipeAndLink(p) \/ Code(p) \/ NoCode(p)
    \/ Connected(p) \/ Harder(p) \/ NotConnected(p) \/ Use(p) \/ SendAgain(p)
    \/ Stat(p) \/ StatMarks(p) \/ ReadAccount(p) \/ StatAgain(p) \/ StatAgainMarks(p)
    \/ DeleteAccount(p) \/ Wipe(p) \/ CloseFails(p)

Next ==
    \/ \E p \in Callers : Step(p)
    \/ \E p \in Requests, o \in Operations : Begin(p, o) \/ Disconnect(p, o)
    \/ Fire \/ Boot \/ BootAccounts \/ BootFails \/ BootStat \/ BootMark \/ Crash
    \/ \E s \in Sockets : Open(s) \/ Show(s) \/ Scan(s) \/ Lose(s) \/ LoggedOut(s)
    \/ \E l \in linked : Unlink(l)
    \/ \E j \in jobs : Job(j)

Spec == Init /\ [][Next]_vars

-----------------------------------------------------------------------------
(* Properties *)

TypeOK ==
    /\ held \in Sockets \cup {NoSocket}
    /\ promise \in Callers \cup {Nobody}
    /\ {connected, allow, timer, account, gaveUp} \subseteq BOOLEAN
    /\ auth \in NoFolder .. MaxLinks
    /\ links \in 0 .. MaxLinks /\ linked \subseteq 1 .. links
    /\ \A s \in Sockets : ws[s] \in {"closed", "connecting", "open"}

\* There is one session: a connection that is up is the one that is held, or
\* was left behind, by a creation that a reset or disconnect had disowned and
\* that replaced it, or by markStoredAuthAsDisconnected, which drops it
\* without ending it.  (Two connections store every message twice over, and
\* the handler ignores what becomes of the one that isn't held.)
OneSession == \A s \in Sockets : Alive(s) /\ s # held => s \in extra

\* A disconnect that succeeds lasts until somebody asks for the session again,
\* but for what was already under way when it began: other callers, calls that
\* nobody waits for, and connections that were left behind.
DisconnectHolds ==
    (Disconnecting = {} /\ "caller" \notin causes) =>
        /\ held = NoSocket /\ ~ timer
        /\ "job" \notin causes => ~ account /\ auth = NoFolder
        /\ "extra" \notin causes => \A s \in Sockets : ~ Alive(s)

\* An account whose connection is gone has somebody who will connect it: a
\* timer, a creation, a connection that is about to be reported as closed, or
\* a caller on its way, unless it was disconnected or was given up until the
\* next operation: by a request that could not create a socket or reset the
\* link, or at the start, when the accounts could not be read; these set no
\* timer ("runtime operations can still trigger reconnect lazily").
NotForgotten ==
    (account /\ allow /\ held = NoSocket /\ ~ gaveUp) =>
        timer \/ \E p \in Callers : ~ Idle(p)

=============================================================================
