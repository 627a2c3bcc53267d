-------------------------- MODULE HandshakeAction --------------------------
(***************************************************************************)
(* How the client and a datacenter agree on a key: HandshakeAction, the    *)
(* connection it uses (TcpConnection) and the end of the action in         *)
(* ConnectionsManager.                                                     *)
(*                                                                         *)
(* Three requests follow one another, req_pq, req_DH_params and            *)
(* set_client_DH_params; between the first two a number is factorized on a *)
(* thread of its own.  The request that is not answered yet is kept and    *)
(* sent again on a new connection.  Whatever does not fit makes the action *)
(* begin anew.                                                             *)
(*                                                                         *)
(* stageQueue runs what is posted to it one at a time; so does the network *)
(* thread with its tasks.  What the network thread has to tell goes to the *)
(* delegate that the connection had when the thread looked, though it is   *)
(* posted later.  Random values (nonces, keys) are numbers that were not   *)
(* used before, 0 is null; a key stands for what both sides compute.       *)
(*                                                                         *)
(* A name with an underscore is a wrong variant of the definition after    *)
(* it: with it in place a property must fail.                              *)
(***************************************************************************)
EXTENDS Integers, Sequences, FiniteSets

CONSTANTS
    MaxAttempts,   \* how often the action begins
    MaxLost,       \* how many connections are lost
    MaxRefusals,   \* how many requests the server refuses
    MaxEncrypted,  \* how many encrypted messages come
    MaxRepeats,    \* how many answers the server sends twice
    MaxTrouble     \* and how many of these four things happen in all

HandshakeActionAssumption ==
    /\ MaxAttempts \in Nat \ {0}
    /\ {MaxLost, MaxRefusals, MaxEncrypted, MaxRepeats, MaxTrouble} \subseteq Nat

VARIABLES
    hs,        \* the fields of the action; kept: the requests that may be sent again
    threads,   \* the numbers that are being factorized, each named by its server nonce
    dc,        \* the datacenter's key, whether the action is over and whether it still has
               \* its delegate
    stage,     \* stageQueue
    conn,      \* the connection: its state and delegate, the timers that will connect it
    tasks,     \* the tasks of the network thread
    caught,    \* what the network thread has to post, with the delegate it has read
    out, in,   \* what is on its way to the server, and from it
    agreed,    \* server: the keys it has confirmed
    drawn,     \* how many values of each kind were drawn
    times,     \* how often each bounded thing has happened
    read,      \* history: the answers that were read, and to which request
    doubled,   \* history: an answer was read to a request that had been answered
    dead       \* an exception has ended the process

vars == <<hs, threads, dc, stage, conn, tasks, caught, out, in, agreed, drawn, times, read, doubled, dead>>

network == <<conn, tasks, caught, out, in, read, doubled>>
remote == <<agreed, drawn, times>>

-----------------------------------------------------------------------------
Message(type, nonce, server, new, value) ==
    [type |-> type, id |-> 0, nonce |-> nonce, server |-> server, new |-> new, value |-> value]

ReqPQ(h) == Message("reqPQ", h.nonce, 0, 0, 0)
Event(what, m) == [what |-> what, msg |-> m]
NoMessage == Message("none", 0, 0, 0, 0)
Task(what, m) == [what |-> what, msg |-> m]
Send(m) == <<Task("send", m)>>

(* The fields that beginHandshake sets; wasDisconnect is not one of them.  *)
Attempt(n, was) ==
    [nonce |-> n, server |-> 0, new |-> 0, key |-> 0, processedPQRes |-> FALSE,
     processed |-> {}, kept |-> {Message("reqPQ", n, 0, 0, 0)}, wasDisconnect |-> was]

Init ==
    /\ hs = Attempt(1, FALSE) /\ threads = {}
    /\ dc = [key |-> 0, over |-> FALSE, acting |-> TRUE] /\ stage = <<>>
    /\ conn = [state |-> "idle", delegate |-> "handshake", timers |-> {}]
    /\ tasks = <<Task("suspend", NoMessage), Task("connect", NoMessage)>> \o Send(ReqPQ(hs))
    /\ caught = <<>> /\ out = <<>> /\ in = <<>> /\ agreed = {}
    /\ drawn = [server |-> 0, new |-> 0, key |-> 0, id |-> 0]
    /\ times = [attempts |-> 1, lost |-> 0, refusals |-> 0, encrypted |-> 0, repeats |-> 0]
    /\ read = {} /\ doubled = FALSE /\ dead = FALSE

(* The bounds on what disturbs the action.                                 *)
MayBe(what, max) ==
    /\ times[what] < max
    /\ times.lost + times.refusals + times.encrypted + times.repeats < MaxTrouble

-----------------------------------------------------------------------------
(* The network thread.                                                     *)
Up == conn.state # "idle"
Told(what, m) ==
    IF conn.delegate = "handshake" THEN <<Event(what, m)>> ELSE <<>>
NetworkFree == caught = <<>>

(* sendData on a connection that is down connects it, and the data is gone. *)
RunTask ==
    /\ NetworkFree /\ tasks # <<>>
    /\ LET task == Head(tasks) IN
       \/ /\ task.what = "suspend" /\ tasks' = Tail(tasks)
          /\ conn' = [conn EXCEPT !.state = "idle", !.timers = @ \ {"own"}]
          /\ caught' = IF Up THEN Told("closed", NoMessage) ELSE <<>>
          /\ out' = <<>> /\ in' = <<>>
       \/ /\ task.what = "connect" /\ tasks' = Tail(tasks)
          /\ conn' = IF Up THEN conn
                     ELSE [conn EXCEPT !.state = "connecting", !.timers = @ \ {"own"}]
          /\ UNCHANGED <<caught, out, in>>
       \/ /\ task.what = "send" /\ Up /\ tasks' = Tail(tasks)
          /\ out' = Append(out, task.msg)
          /\ UNCHANGED <<conn, caught, in>>
       \/ /\ task.what = "send" /\ ~Up
          /\ tasks' = Append(Tail(tasks), Task("connect", NoMessage))
          /\ UNCHANGED <<conn, caught, out, in>>
    /\ UNCHANGED <<hs, threads, dc, stage, remote, read, doubled, dead>>

Connected ==
    /\ NetworkFree /\ conn.state = "connecting"
    /\ conn' = [conn EXCEPT !.state = "connected"] /\ caught' = Told("connected", NoMessage)
    /\ UNCHANGED <<hs, threads, dc, stage, tasks, out, in, read, doubled, remote, dead>>

(* A connection is lost, or cannot be made.  It connects again by itself   *)
(* if its datacenter is the current one.                                   *)
Lose ==
    /\ NetworkFree /\ Up /\ MayBe("lost", MaxLost)
    /\ times' = [times EXCEPT !.lost = @ + 1]
    /\ \E own \in {{}, {"own"}} :
         conn' = [conn EXCEPT !.state = "idle", !.timers = (@ \ {"own"}) \cup own]
    /\ caught' = Told("closed", NoMessage) /\ out' = <<>> /\ in' = <<>>
    /\ UNCHANGED <<hs, threads, dc, stage, tasks, agreed, drawn, read, doubled, dead>>

Timer ==
    /\ \E t \in conn.timers : conn' = [conn EXCEPT !.timers = @ \ {t}]
    /\ tasks' = Append(tasks, Task("connect", NoMessage))
    /\ UNCHANGED <<hs, threads, dc, stage, caught, out, in, read, doubled, remote, dead>>

Read ==
    /\ NetworkFree /\ conn.state = "connected" /\ in # <<>> /\ in' = Tail(in)
    /\ caught' = Told("data", Head(in))
    /\ LET m == Head(in)
           answer == [to |-> <<m.type \in {"dhOk", "dhFail"}, m.nonce, m.new>>, id |-> m.id]
       IN  /\ read' = read \cup {answer}
           /\ doubled' = (doubled \/ \E a \in read : a.to = answer.to /\ a.id # answer.id)
    /\ UNCHANGED <<hs, threads, dc, stage, conn, tasks, out, remote, dead>>

Post ==
    /\ caught # <<>> /\ stage' = stage \o caught /\ caught' = <<>>
    /\ UNCHANGED <<hs, threads, dc, conn, tasks, out, in, read, doubled, remote, dead>>

-----------------------------------------------------------------------------
(* The server, as far as the action knows it: it answers each request it   *)
(* gets, and refuses what does not belong together.  It sends encrypted    *)
(* messages only under a key of a former life.                             *)
Answers(m) ==
    CASE m.type = "reqPQ" -> {[m EXCEPT !.type = "resPQ", !.server = drawn.server + 1]}
      [] m.type = "reqDH" -> {[m EXCEPT !.type = IF m.value = m.server THEN "dhOk" ELSE "dhFail"]}
      [] m.type = "setClient" -> {[m EXCEPT !.type = "genOk"]}

Refusals(m) ==
    CASE m.type = "reqPQ" -> {[m EXCEPT !.type = "resPQ", !.server = drawn.server + 1, !.value = 1]}
      [] m.type = "reqDH" -> {[m EXCEPT !.type = "dhFail"]}
      [] m.type = "setClient" -> {[m EXCEPT !.type = t] : t \in {"genRetry", "genFail"}}

Answered(a, m, copies) ==
    /\ in' = in \o [k \in 1..copies |-> [a EXCEPT !.id = drawn.id + 1]]
    /\ drawn' = [drawn EXCEPT !.id = @ + 1, !.server = IF m.type = "reqPQ" THEN @ + 1 ELSE @]
    /\ agreed' = IF a.type = "genOk" THEN agreed \cup {a.value} ELSE agreed

ServerAnswers ==
    /\ conn.state = "connected" /\ out # <<>> /\ out' = Tail(out)
    /\ LET m == Head(out) IN
       \/ \E a \in Answers(m) : Answered(a, m, 1) /\ UNCHANGED times
       \/ /\ MayBe("repeats", MaxRepeats) /\ times' = [times EXCEPT !.repeats = @ + 1]
          /\ \E a \in Answers(m) : Answered(a, m, 2)
       \/ /\ MayBe("refusals", MaxRefusals) /\ times' = [times EXCEPT !.refusals = @ + 1]
          /\ \E a \in Refusals(m) : Answered(a, m, 1)
    /\ UNCHANGED <<hs, threads, dc, stage, conn, tasks, caught, read, doubled, dead>>

ServerSendsEncrypted ==
    /\ conn.state = "connected" /\ MayBe("encrypted", MaxEncrypted) /\ agreed = {}
    /\ times' = [times EXCEPT !.encrypted = @ + 1]
    /\ in' = Append(in, [NoMessage EXCEPT !.type = "encrypted"])
    /\ UNCHANGED <<hs, threads, dc, stage, conn, tasks, caught, out, agreed, drawn, read, doubled, dead>>

-----------------------------------------------------------------------------
(* The action, on stageQueue.                                              *)
Stage(what) == ~dead /\ stage # <<>> /\ Head(stage).what = what

BeginHandshake(drop) ==
    /\ times.attempts < MaxAttempts /\ times' = [times EXCEPT !.attempts = @ + 1]
    /\ hs' = Attempt(times.attempts + 1, hs.wasDisconnect)
    /\ conn' = [conn EXCEPT !.delegate = "handshake"]
    /\ tasks' = tasks \o (IF drop THEN <<Task("suspend", NoMessage), Task("connect", NoMessage)>>
                          ELSE <<>>) \o Send(ReqPQ(hs'))
    /\ UNCHANGED <<threads, drawn>>

Keep(kept, m) == {k \in kept : k.type # m.type} \cup {m}
Free(kept, type) == {k \in kept : k.type # type}

(* resPQ: a second one is acknowledged only.                               *)
OnResPQ(h, m) ==
    IF h.processedPQRes
    THEN hs' = h /\ UNCHANGED <<threads, conn, tasks, times, drawn>>
    ELSE IF m.nonce # h.nonce \/ m.value # 0
         THEN BeginHandshake(FALSE)
         ELSE /\ hs' = [h EXCEPT !.processedPQRes = TRUE, !.server = m.server]
              /\ threads' = threads \cup {m.server}
              /\ UNCHANGED <<conn, tasks, times, drawn>>

(* server_DH_params_ok can only be decrypted with the nonces that it was   *)
(* asked with.                                                             *)
OnDhOk(h, m) ==
    IF <<m.nonce, m.server, m.new>> # <<h.nonce, h.server, h.new>>
    THEN BeginHandshake(FALSE)
    ELSE LET k == drawn.key + 1
             request == Message("setClient", h.nonce, h.server, h.new, k)
         IN  /\ hs' = [h EXCEPT !.key = k, !.kept = Keep(Free(@, "reqDH"), request)]
             /\ drawn' = [drawn EXCEPT !.key = k]
             /\ tasks' = tasks \o Send(request)
             /\ UNCHANGED <<threads, conn, times>>

(* Any other answer to set_client_DH_params makes the action begin anew.   *)
(* The hash in the answer is one of the new nonce and the key.             *)
Confirms_AnyKey(h, m) == m.type = "genOk" /\ <<m.nonce, m.server>> = <<h.nonce, h.server>>
Confirms(h, m) ==
    m.type = "genOk" /\ <<m.nonce, m.server, m.new, m.value>> = <<h.nonce, h.server, h.new, h.key>>

OnGenOk(h) ==
    /\ hs' = [h EXCEPT !.kept = Free(Free(@, "setClient"), "reqDH")]
    /\ conn' = [conn EXCEPT !.delegate = "none"]
    /\ UNCHANGED <<threads, tasks, times, drawn>>

(* A message with an id that this attempt has seen is passed over.         *)
Repeated(m) == m.id \in hs.processed

ReceivedData ==
    /\ Stage("data")
    /\ LET m == Head(stage).msg
           h == [hs EXCEPT !.processed = @ \cup {m.id}]
       IN  \/ /\ m.type = "encrypted" /\ BeginHandshake(TRUE)
              /\ stage' = Tail(stage) /\ UNCHANGED dead
           \/ /\ m.type # "encrypted" /\ Repeated(m)
              /\ stage' = Tail(stage) /\ UNCHANGED <<hs, threads, conn, tasks, times, drawn, dead>>
           \/ /\ m.type = "resPQ" /\ ~Repeated(m) /\ OnResPQ(h, m)
              /\ stage' = Tail(stage) /\ UNCHANGED dead
           \/ /\ m.type = "dhOk" /\ ~Repeated(m) /\ h.new # 0 /\ OnDhOk(h, m)
              /\ stage' = Tail(stage) /\ UNCHANGED dead
           \/ /\ m.type = "dhOk" /\ ~Repeated(m) /\ h.new = 0 /\ dead' = TRUE
              /\ stage' = Tail(stage) /\ UNCHANGED <<hs, threads, conn, tasks, times, drawn>>
           \/ /\ m.type = "dhFail" /\ ~Repeated(m) /\ BeginHandshake(FALSE)
              /\ stage' = Tail(stage) /\ UNCHANGED dead
           \/ /\ m.type \in {"genOk", "genRetry", "genFail"} /\ ~Repeated(m) /\ UNCHANGED dead
              /\ \/ /\ Confirms(h, m) /\ OnGenOk(h)
                    /\ stage' = Append(Tail(stage), Event("completed", NoMessage))
                 \/ ~Confirms(h, m) /\ BeginHandshake(FALSE) /\ stage' = Tail(stage)
    /\ UNCHANGED <<dc, caught, out, in, agreed, read, doubled>>

(* The factorization posts its result; the nonces are those of that time.  *)
Factorized ==
    /\ \E pq \in threads :
         /\ threads' = threads \ {pq}
         /\ stage' = Append(stage, Event("factorized", Message("pq", 0, 0, 0, pq)))
    /\ UNCHANGED <<hs, dc, network, remote, dead>>

SendReqDH ==
    /\ Stage("factorized") /\ stage' = Tail(stage)
    /\ drawn' = [drawn EXCEPT !.new = @ + 1]
    /\ LET request == Message("reqDH", hs.nonce, hs.server, drawn'.new, Head(stage).msg.value)
       IN  /\ hs' = [hs EXCEPT !.new = drawn'.new, !.kept = Keep(Free(@, "reqPQ"), request)]
           /\ tasks' = tasks \o Send(request)
    /\ UNCHANGED <<threads, dc, conn, caught, out, in, agreed, times, read, doubled, dead>>

TcpConnectionClosed ==
    /\ Stage("closed") /\ stage' = Tail(stage)
    /\ hs' = [hs EXCEPT !.wasDisconnect = TRUE]
    /\ conn' = [conn EXCEPT !.timers = @ \cup {"closed"}]
    /\ UNCHANGED <<threads, dc, tasks, caught, out, in, remote, read, doubled, dead>>

(* The first in the order of the requests that is kept is sent.            *)
ToSendAgain ==
    LET OfType(t) == {k \in hs.kept : k.type = t}
    IN  IF OfType("reqPQ") # {} THEN OfType("reqPQ")
        ELSE IF OfType("reqDH") # {} THEN OfType("reqDH") ELSE OfType("setClient")

TcpConnectionConnected_SendsNothing ==
    /\ Stage("connected") /\ stage' = Tail(stage)
    /\ UNCHANGED <<hs, threads, dc, network, remote, dead>>

TcpConnectionConnected ==
    /\ Stage("connected") /\ stage' = Tail(stage)
    /\ IF hs.wasDisconnect /\ ToSendAgain # {}
       THEN \E m \in ToSendAgain : tasks' = tasks \o Send(m)
       ELSE UNCHANGED tasks
    /\ UNCHANGED <<hs, threads, dc, conn, caught, out, in, remote, read, doubled, dead>>

(* The end of the action, and ActionDidFinishExecution if the action has   *)
(* its delegate still.                                                     *)
Complete ==
    /\ Stage("completed")
    /\ dc' = [dc EXCEPT !.key = hs.key, !.over = TRUE]
    /\ IF dc.acting
       THEN /\ conn' = [conn EXCEPT !.delegate = "manager"]
            /\ stage' = Append(Tail(stage), Event("removed", NoMessage))
       ELSE stage' = Tail(stage) /\ UNCHANGED conn
    /\ UNCHANGED <<hs, threads, tasks, caught, out, in, remote, read, doubled, dead>>

Remove ==
    /\ Stage("removed") /\ stage' = Tail(stage)
    /\ dc' = [dc EXCEPT !.acting = FALSE]
    /\ UNCHANGED <<hs, threads, network, remote, dead>>

-----------------------------------------------------------------------------
NetworkStep == RunTask \/ Connected \/ Read \/ Post
StageStep ==
    \/ ReceivedData \/ SendReqDH \/ TcpConnectionClosed \/ TcpConnectionConnected
    \/ Complete \/ Remove

Next ==
    \/ NetworkStep \/ StageStep \/ Lose \/ Timer \/ Factorized
    \/ ServerAnswers \/ ServerSendsEncrypted

Spec == Init /\ [][Next]_vars

(* The threads go on, the timers go off, and the server answers.           *)
FairSpec ==
    /\ Spec /\ WF_vars(NetworkStep) /\ WF_vars(StageStep) /\ WF_vars(Factorized)
    /\ WF_vars(Timer) /\ WF_vars(ServerAnswers)

-----------------------------------------------------------------------------
(* A key that the datacenter gets is one that the server has confirmed,    *)
(* whatever was lost, refused or repeated before.  Left out: when a        *)
(* request was sent again after its answer had come, the second answer may *)
(* make the action begin anew before its end is handled, and then the end  *)
(* brings no key (but never another one).                                  *)
KeyAgreed == dc.over => dc.key \in agreed \/ (doubled /\ dc.key = 0)

(* No request was answered twice, and the server sent nothing that was not *)
(* an answer, and nothing twice.                                           *)
Undisturbed == ~doubled /\ times.encrypted = 0 /\ times.repeats = 0

(* The action ends with a key, and the answers on its connection go to     *)
(* ConnectionsManager from then on, whatever connections are lost and      *)
(* requests refused.  Left out: when something comes that does not belong  *)
(* to the attempt, the next one begins on the same connection while the    *)
(* answer to the one before is on its way, which makes it begin anew, and  *)
(* so on; and a second dh_gen_ok that comes after the end of the action    *)
(* takes the delegate away, when the action has none left to give it back. *)
Completes == <>[]((dc.over /\ conn.delegate = "manager") \/ ~Undisturbed)

=============================================================================
