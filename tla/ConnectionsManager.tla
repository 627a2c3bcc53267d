------------------------- MODULE ConnectionsManager -------------------------
(* The RPC layer: ConnectionsManager.java keeps the requests that wait, the  *)
(* requests that run and the datacenter they go to. Here: requests of the    *)
(* class Generic, over one connection for each datacenter, the move to       *)
(* another datacenter, and the server with its sessions.                     *)
(*                                                                           *)
(* Everything in the class belongs to stageQueue. One handler calls others   *)
(* and, in a callback, itself, so that the fields are one record c and a     *)
(* method is an operator from such a record to the next. Of a time the model *)
(* keeps whether it is due: the 8 seconds since a request was last sent, or  *)
(* the wait that the server has asked for, are over. Message ids are         *)
(* numbers, 0 is none. None is DEFAULT_DATACENTER_ID.                        *)
EXTENDS Integers, Sequences, FiniteSets, SequencesExt

CONSTANTS
    Dcs,        \* the datacenters that the client knows
    First,      \* the one it uses at first
    Requests,   \* requests that send a message, for the default datacenter
    None,       \* DEFAULT_DATACENTER_ID
    MaxGeneric, \* how many generic requests may run (60 in the code)
    MaxEvents   \* bound: how much happens, see MayHappen

(* A request of the class's own: to export and to import an authorization,   *)
(* or to drop an answer. Its number tells it from others like it.            *)
Own == {"export", "import", "drop"} \X Nat \X (Dcs \cup Requests)

(* What the server makes of a request, if it does not name a datacenter.     *)
Outcomes == {"none", "ok", "error", "500", "420"}

DcsAssumption == First \in Dcs /\ None \notin Dcs /\ Dcs \cap Outcomes = {}
RequestsAssumption ==
    /\ IsFiniteSet(Requests) /\ MaxGeneric \in Nat \ {0}
    /\ \A r \in Requests : r \notin Own /\ r # <<"ping", 0>>

VARIABLES
    c,          \* the fields of ConnectionsManager and of its connections
    down,       \* down[d]: what the network thread has posted or will post, in order
    known,      \* known[d]: the messages that server d has taken
    open,       \* open[d]: the sessions that server d remembers
    home,       \* the datacenter that the account lives in
    faults,     \* how many things have gone wrong
    executed    \* history: the messages, in the order the servers sent them on

vars == <<c, down, known, open, home, faults, executed>>

(* Op(s), where s is evaluated once: methods call each other several deep.    *)
Then(s, Op(_)) == CHOOSE t \in {Op(u) : u \in {s}} : TRUE

(* The elements of a list that are in S, in their order.                     *)
Kept(list, S) ==
    LET Of(l, T) ==
          LET From[i \in 0 .. Len(l)] ==
                IF i = 0 THEN <<>>
                ELSE IF l[i] \in T THEN Append(From[i - 1], l[i]) ELSE From[i - 1]
          IN From[Len(l)]
    IN CHOOSE k \in {Of(l, T) : l \in {list}, T \in {S}} : TRUE

(* f, with the values of g where g has one.                                  *)
Updated(f, g) ==
    CHOOSE h \in {[x \in DOMAIN f \cup DOMAIN u |-> IF x \in DOMAIN u THEN u[x] ELSE f[x]] : u \in {g}} : TRUE

(* A request, a move of the account and a thing that goes wrong are an event. *)
MayHappen == Len(c.performed) + faults + (IF home = First THEN 0 ELSE 1) < MaxEvents
Fault == MayHappen /\ faults' = faults + 1

(* A request of the caller's, one of the class's own, or a ping.             *)
Kind(r) == IF r \in Requests THEN "send" ELSE r[1]

NeedsAnswer(r) == Kind(r) \in {"send", "export", "import"}

------------------------------------------------------------------------------
(* Requests and the datacenter they go to.                                   *)

New(dc) == [dc |-> dc, mid |-> 0, on |-> None, due |-> TRUE, completed |-> FALSE]

(* ExportAuthorizationAction, which a datacenter that files are loaded from  *)
(* is authorized by, is over or not begun.                                   *)
Init ==
    /\ \E logged \in BOOLEAN, authorized \in SUBSET (Dcs \ {First}) :
         /\ authorized # {} => logged
         /\ c = [queue |-> <<>>, running |-> <<>>, req |-> <<>>, posted |-> <<>>,
                 authorized |-> authorized, completing |-> <<>>, current |-> First, moving |-> None,
                 exported |-> FALSE, again |-> {},
                 keys |-> IF logged THEN Dcs ELSE {First}, handshakes |-> {},
                 activated |-> logged, session |-> [d \in Dcs |-> 1],
                 processed |-> [d \in Dcs |-> {}], linked |-> {},
                 wanted |-> {First}, mid |-> 0, made |-> 0,
                 up |-> [d \in Dcs |-> <<>>], ended |-> [r \in Requests |-> 0],
                 performed |-> <<>>, revived |-> {}, delayed |-> {}, spoiled |-> FALSE, stuck |-> FALSE]
    /\ down = [d \in Dcs |-> <<>>]
    /\ known = [d \in Dcs |-> {}]
    /\ open = [d \in Dcs |-> {}]
    /\ home = First
    /\ faults = 0
    /\ executed = <<>>

DatacenterWithId(s, d) == IF d = None THEN s.current ELSE d
Dc(s, r) == DatacenterWithId(s, s.req[r].dc)

(* ClearRequests(s, S) forgets under which id and on which connection the    *)
(* running requests S were sent. A request that is completed but not yet     *)
(* taken out is cleared like the others.                                     *)
ClearRequests_SameConnection(s, S) ==
    [s EXCEPT !.req = Updated(@, [r \in S |-> [s.req[r] EXCEPT !.mid = 0]])]
ClearRequests(s, S) ==
    [s EXCEPT !.req = Updated(@, [r \in S |-> [s.req[r] EXCEPT !.mid = 0, !.on = None, !.due = TRUE]]),
              !.revived = @ \cup {r \in S \cap Requests : s.req[r].completed},
              !.spoiled = @ \/ \E r \in S \ Requests : s.req[r].completed]

(* A connection is closed. What was sent over it is not under its token when *)
(* it comes up again.                                                        *)
Unlink(s, d) ==
    [s EXCEPT !.linked = @ \ {d}, !.up[d] = <<>>,
              !.req = [r \in DOMAIN @ |-> [s.req[r] EXCEPT !.on = IF @ = d THEN None ELSE @]]]

RunningIn(s, d) == {r \in ToSet(s.running) : Dc(s, r) = d}

ClearRequestsForDatacenter(s, d) == ClearRequests(s, RunningIn(s, d))

RecreateSessions(s, d) == [s EXCEPT !.session[d] = @ + 1, !.processed[d] = {}]

Take(s, r) ==
    [s EXCEPT !.queue = Kept(@, ToSet(@) \ {r}),
              !.running = Kept(@, ToSet(@) \ {r}),
              !.req = [x \in DOMAIN @ \ {r} |-> @[x]]]

(* performRpc posts the rest of its work.                                    *)
PerformRpc(s, kind, about, dc) ==
    [s EXCEPT !.posted = Append(@, [req |-> <<kind, s.made, about>>, dc |-> dc]),
              !.made = @ + 1]

------------------------------------------------------------------------------
(* processRequestQueue                                                       *)

(* A request for the default datacenter waits for the end of a move.         *)
Held(s, r) == s.req[r].dc = None /\ s.moving # None

(* None of the requests has RPCRequestClassEnableUnauthorized.               *)
Authorized(s, r) == s.req[r].dc \in s.authorized \cup {None, s.current}

MayUse(s, r) ==
    /\ ~Held(s, r)
    /\ Dc(s, r) \in s.keys
    /\ Authorized(s, r)

Sendable(s, r) == MayUse(s, r) /\ Dc(s, r) \in s.linked

Resent(s, forced, d) ==
    Kept(s.running, {r \in ToSet(s.running) :
        /\ Sendable(s, r)
        /\ \/ forced /\ Dc(s, r) = d
           \/ s.req[r].due /\ s.req[r].on # Dc(s, r)})

Answerable(rs) == {r \in ToSet(rs) : NeedsAnswer(r)}
Counted(rs) == Cardinality({i \in DOMAIN rs : NeedsAnswer(rs[i])})

Started(s) ==
    LET Place(able, r) == Counted(SubSeq(able, 1, CHOOSE i \in DOMAIN able : able[i] = r))
        Of(able) == Kept(able, {r \in ToSet(able) :
                        NeedsAnswer(r) => Counted(s.running) + Place(able, r) <= MaxGeneric})
    IN Then(Kept(s.queue, {r \in ToSet(s.queue) : Sendable(s, r)}), Of)

(* The ids of rs: a request that has one keeps it.                           *)
WithIds(s, rs) ==
    LET Fresh(i) == Cardinality({j \in 1..i : s.req[rs[j]].mid = 0})
        At(r) == CHOOSE i \in DOMAIN rs : rs[i] = r
    IN [s EXCEPT !.req = Updated(@, [r \in ToSet(rs) |->
                            [s.req[r] EXCEPT !.mid = IF @ = 0 THEN s.mid + Fresh(At(r)) ELSE @,
                                             !.on = Dc(s, r),
                                             !.due = FALSE]]),
                 !.mid = @ + Fresh(Len(rs))]

(* invokeAfterMsg: a message follows the one before it in the packet, and    *)
(* the first one the last message that runs and is not in the packet.        *)
After_None(s, rs, i) == 0
After(s, rs, i) ==
    LET before == {j \in 1..(i - 1) : rs[j] \in Requests}
        others == {s.req[r].mid : r \in {x \in ToSet(s.running) \cap Requests : x \notin ToSet(rs)}}
        last == IF before # {} THEN s.req[rs[Max(before)]].mid
                ELSE Max(others \cup {0})
    IN IF rs[i] \notin Requests \/ last = s.req[rs[i]].mid THEN 0 ELSE last

Packet(s, d, rs) ==
    [session |-> s.session[d],
     messages |-> [i \in DOMAIN rs |->
                     [req |-> rs[i], mid |-> s.req[rs[i]].mid, after |-> After(s, rs, i)]]]

Sent(s, rs) ==
    [s EXCEPT !.up = Updated(@, [d \in {Dc(s, r) : r \in ToSet(rs)} |->
        Append(s.up[d], Packet(s, d, Kept(rs, {r \in ToSet(rs) : Dc(s, r) = d})))])]

GeneratePing(s) ==
    IF s.current \notin s.linked THEN s
    ELSE [s EXCEPT !.mid = @ + 1,
                   !.up[s.current] = Append(@, [session |-> s.session[s.current],
                       messages |-> <<[req |-> <<"ping", 0>>, mid |-> s.mid + 1, after |-> 0]>>])]

Handshake(s, d) == [s EXCEPT !.handshakes = @ \cup {d}, !.wanted = @ \cup {d}]

(* The datacenters whose connection is asked for, and those with no key.     *)
Wanted(s, rs) == ({s.current} \cap s.keys) \cup {Dc(s, r) : r \in {x \in rs : MayUse(s, x)}}
Needed(s, rs) == {Dc(s, r) : r \in {x \in rs : ~Held(s, x)}} \ (s.keys \cup {s.moving})

Begin(s, started) ==
    [s EXCEPT !.running = @ \o Kept(started, Answerable(started)),
              !.queue = Kept(@, ToSet(@) \ ToSet(started))]

(* History: the requests that another one goes past although they were given *)
(* first. The packet rs leaves them out between two of its messages, or one  *)
(* before them gets an id that is larger than theirs.                        *)
Passed(s, rs) ==
    LET sent == ToSet(rs) \cap Requests
        Passes(i) == \E j \in 1..(i - 1) :
            /\ s.running[j] \in sent
            /\ \/ s.req[s.running[j]].mid = 0
               \/ s.running[i] \notin sent /\ ~(sent \subseteq ToSet(SubSeq(s.running, 1, i)))
    IN {s.running[i] : i \in {n \in DOMAIN s.running : Passes(n) /\ s.req[s.running[n]].mid # 0}}

SendAll(s, resent, started) ==
    LET Out(t) == Sent(t, resent \o started)
        Forget(t) == [t EXCEPT !.req = [r \in DOMAIN @ \ (ToSet(started) \ Answerable(started)) |-> @[r]],
                               !.delayed = @ \cup (Passed(s, resent \o started) \cap Requests)]
    IN Forget(Then(Begin(WithIds(s, resent \o started), started), Out))

ProcessRequestQueue(before, forced, d) ==
    LET Process(s) ==
          LET rs == ToSet(s.running) \cup ToSet(s.queue)
              asked == [s EXCEPT !.wanted = @ \cup Wanted(s, rs) \cup Needed(s, rs),
                                 !.handshakes = @ \cup Needed(s, rs)]
              Send(p) == SendAll(asked, p[1], p[2])
              Ping(sent) == IF forced /\ (d = None \/ sent.up[d] = s.up[d]) THEN GeneratePing(sent) ELSE sent
          IN IF s.current = None THEN s
             ELSE Then(Then(<<Resent(s, forced, d), Started(s)>>, Send), Ping)
    IN Then(before, Process)

------------------------------------------------------------------------------
(* Moving to another datacenter                                              *)

AuthorizedOnMovingDatacenter(s) ==
    ProcessRequestQueue(
        [Unlink(s, s.current)
            EXCEPT !.wanted = @ \ {s.current}, !.exported = FALSE, !.current = s.moving, !.moving = None],
        FALSE, None)

AuthorizeOnMovingDatacenter(s) ==
    LET d == DatacenterWithId(s, s.moving)
        cleared == ClearRequestsForDatacenter(RecreateSessions(s, d), d)
        keyed == IF d \in s.keys THEN cleared ELSE Handshake(cleared, d)
    IN IF s.exported THEN PerformRpc(keyed, "import", d, d)
       ELSE Then(keyed, AuthorizedOnMovingDatacenter)

MoveToDatacenter_Anew(s, d) ==
    LET cleared == ClearRequestsForDatacenter([s EXCEPT !.moving = d], s.current)
    IN IF s.activated THEN PerformRpc(cleared, "export", d, s.current)
       ELSE Then(cleared, AuthorizeOnMovingDatacenter)
MoveToDatacenter(s, d) ==
    LET cleared == ClearRequestsForDatacenter([s EXCEPT !.moving = d], s.current)
    IN IF s.moving = d THEN s
       ELSE IF s.activated
            THEN [PerformRpc(cleared, "export", d, s.current)
                    EXCEPT !.stuck = @ \/ Counted(s.running) >= MaxGeneric]
            ELSE Then(cleared, AuthorizeOnMovingDatacenter)

(* The callbacks, of the caller's requests and of the move's own.            *)
Callback(s, r, ok) ==
    IF r \in Requests THEN [s EXCEPT !.ended[r] = @ + 1, !.delayed = IF ok THEN @ ELSE @ \cup {r}]
    ELSE IF r[1] = "export"
         THEN IF ok THEN AuthorizeOnMovingDatacenter([s EXCEPT !.exported = TRUE])
              ELSE [s EXCEPT !.again = @ \cup {r[3]}, !.stuck = TRUE]
         ELSE IF ok THEN AuthorizedOnMovingDatacenter([s EXCEPT !.exported = FALSE])
              ELSE MoveToDatacenter([s EXCEPT !.exported = FALSE, !.stuck = TRUE], s.moving)

------------------------------------------------------------------------------
(* What stageQueue runs                                                      *)

(* Every method fails when there is no current datacenter, and the model     *)
(* goes no further when a request of a move is sent again after its end.     *)
Running == c.current # None /\ ~c.spoiled

(* The requests are alike: which of them comes next makes no difference.     *)
Perform(r) ==
    /\ Running /\ r \notin ToSet(c.performed)
    /\ r = CHOOSE x \in Requests \ ToSet(c.performed) : TRUE
    /\ MayHappen
    /\ c' = ProcessRequestQueue(
               [c EXCEPT !.req = Updated(@, [x \in {r} |-> New(None)]), !.queue = Append(@, r),
                         !.performed = Append(@, r)], FALSE, None)
    /\ UNCHANGED <<down, known, open, home, faults, executed>>

PerformPosted ==
    /\ Running /\ c.posted # <<>>
    /\ LET p == Head(c.posted)
       IN c' = ProcessRequestQueue(
                 [c EXCEPT !.req = Updated(@, [x \in {p.req} |-> New(p.dc)]), !.queue = Append(@, p.req),
                           !.posted = Tail(@)], FALSE, None)
    /\ UNCHANGED <<down, known, open, home, faults, executed>>

(* cancelRpc, with notifyServer: the server is told if the request runs.     *)
CancelRpc(r) ==
    /\ Running /\ r \in DOMAIN c.req
    /\ Fault
    /\ LET s == [Take(c, r) EXCEPT !.ended[r] = IF c.req[r].completed THEN @ ELSE @ + 1,
                                   !.delayed = @ \cup {r}]
       IN c' = IF r \in ToSet(c.running) THEN PerformRpc(s, "drop", r, None) ELSE s
    /\ UNCHANGED <<down, known, open, home, executed>>

(* stageRunnable, every second.                                              *)
Timer ==
    /\ Running
    /\ c' = IF c.current \in c.keys THEN ProcessRequestQueue(c, FALSE, None)
            ELSE Handshake(c, c.current)
    /\ UNCHANGED <<down, known, open, home, faults, executed>>

(* Time passes: what was sent may be sent again.                             *)
Age(r) ==
    /\ Running /\ ~c.req[r].due /\ c.req[r].on # Dc(c, r)
    /\ c' = [c EXCEPT !.req[r].due = TRUE]
    /\ UNCHANGED <<down, known, open, home, faults, executed>>

RpcCompleted ==
    /\ Running /\ c.completing # <<>>
    /\ LET done == {r \in ToSet(c.running) : c.req[r].mid = Head(c.completing)}
       IN c' = [c EXCEPT !.completing = Tail(@),
                         !.running = Kept(@, ToSet(@) \ done),
                         !.req = [r \in DOMAIN @ \ done |-> @[r]]]
    /\ UNCHANGED <<down, known, open, home, faults, executed>>

MoveAgain(d) ==
    /\ Running
    /\ c' = MoveToDatacenter([c EXCEPT !.again = @ \ {d}], d)
    /\ UNCHANGED <<down, known, open, home, faults, executed>>

(* ActionDidFinishExecution of a HandshakeAction                             *)
HandshakeDidFinish(d) ==
    /\ Running /\ d \in c.linked
    /\ LET keyed == [c EXCEPT !.keys = @ \cup {d}, !.handshakes = @ \ {d}]
           anew == ClearRequestsForDatacenter(RecreateSessions(keyed, d), d)
       IN c' = ProcessRequestQueue(IF d \in {c.current, c.moving} THEN anew ELSE keyed, TRUE, d)
    /\ UNCHANGED <<down, known, open, home, faults, executed>>

------------------------------------------------------------------------------
(* processMessage, one operator for each kind of message.                    *)

NewSessionCreated(s, d, m) ==
    ClearRequests(s, {r \in RunningIn(s, d) : s.req[r].mid < m.first})

(* The request r waits to be sent again, or is answered.                     *)
SentAgain(s, r, what) ==
    [s EXCEPT !.req[r] = [s.req[r] EXCEPT !.mid = 0, !.on = None, !.due = @ /\ what # "420"],
              !.delayed = @ \cup {r}]
Completed(s, r, i) == [s EXCEPT !.req[r].completed = TRUE, !.completing = Append(@, i)]

(* An answer. what is "ok", "error", "500", "420" or the datacenter of a 303. *)
RpcResult(s, m) ==
    LET mine == {r \in ToSet(s.running) : s.req[r].mid = m.mid}
        r == CHOOSE x \in mine : TRUE
        after == IF m.what \in Dcs THEN MoveToDatacenter(s, m.what)
                 ELSE IF mine = {} THEN s
                 ELSE IF m.what \in {"500", "420"} THEN SentAgain(s, r, m.what)
                 ELSE Completed(Callback(s, r, m.what = "ok"), r, m.mid)
    IN ProcessRequestQueue(after, FALSE, None)

BadMsgNotification(s, d) == ClearRequestsForDatacenter(RecreateSessions(s, d), d)

BadServerSalt(s, d) == ProcessRequestQueue(s, TRUE, d)

ProcessMessage(s, d, m) ==
    CASE m.kind = "new" -> NewSessionCreated(s, d, m)
      [] m.kind = "result" -> RpcResult(s, m)
      [] m.kind = "bad" -> BadMsgNotification(s, d)
      [] m.kind = "salt" -> BadServerSalt(s, d)

(* tcpConnectionReceivedData: answers to another session and answers that    *)
(* were handled already are passed over.                                     *)
Ignored_OtherSessions(d, m) == m.session # c.session[d]
Ignored(d, m) == m.session # c.session[d] \/ (m.mid # 0 /\ m.mid \in c.processed[d])

ReceivedData(d) ==
    /\ Running /\ down[d] # <<>> /\ Head(down[d]).kind # "connected"
    /\ down' = [down EXCEPT ![d] = Tail(@)]
    /\ LET m == Head(down[d])
           s == ProcessMessage(c, d, m)
       IN c' = IF Ignored(d, m) THEN c
               ELSE [s EXCEPT !.processed[d] = @ \cup ({m.mid} \ {0})]
    /\ UNCHANGED <<known, open, home, faults, executed>>

(* tcpConnectionConnected                                                    *)
Connected(d) ==
    /\ Running /\ down[d] # <<>> /\ Head(down[d]).kind = "connected"
    /\ down' = [down EXCEPT ![d] = Tail(@)]
    /\ c' = IF d \in c.keys THEN ProcessRequestQueue(c, TRUE, d) ELSE c
    /\ UNCHANGED <<known, open, home, faults, executed>>

------------------------------------------------------------------------------
(* The network thread and the servers                                        *)

Connect(d) ==
    /\ d \in c.wanted \ c.linked
    /\ c' = [c EXCEPT !.linked = @ \cup {d}]
    /\ down' = [down EXCEPT ![d] = Append(@, [kind |-> "connected"])]
    /\ UNCHANGED <<known, open, home, faults, executed>>

(* A connection is lost, with all that the server has not got and some of    *)
(* what the network thread has not read. The server may forget its sessions. *)
Lose(d) ==
    /\ d \in c.linked
    /\ Fault
    /\ c' = [Unlink(c, d)
                EXCEPT !.wanted = IF d \in {c.current, c.moving} THEN @ ELSE @ \ {d}]
    /\ \E n \in 0..Len(down[d]) :
         /\ \A i \in (n + 1)..Len(down[d]) : down[d][i].kind # "connected"
         /\ down' = [down EXCEPT ![d] = SubSeq(@, 1, n)]
    /\ \E forgets \in BOOLEAN :
         /\ known' = IF forgets THEN [known EXCEPT ![d] = {}] ELSE known
         /\ open' = IF forgets THEN [open EXCEPT ![d] = {}] ELSE open
    /\ UNCHANGED <<home, executed>>

Sends(d, ms) == down' = IF d \notin c.linked THEN down ELSE [down EXCEPT ![d] = @ \o ms]

Answer(k) == [kind |-> "result", session |-> k.session, mid |-> k.mid, what |-> k.what]

(* The server takes a packet, tells of a new session, and answers again what *)
(* it has answered before.                                                   *)
ServerTakes(d) ==
    /\ c.up[d] # <<>>
    /\ c' = [c EXCEPT !.up[d] = Tail(@)]
    /\ LET p == Head(c.up[d])
           ids == {p.messages[i].mid : i \in DOMAIN p.messages}
           first == Min(ids)
           seen == {k \in known[d] : k.session = p.session}
           again == {k \in seen : k.mid \in ids /\ k.what # "none"}
           fresh == {i \in DOMAIN p.messages : /\ NeedsAnswer(p.messages[i].req)
                                             /\ \A k \in seen : k.mid # p.messages[i].mid}
           new == IF p.session \in open[d] THEN <<>>
                  ELSE <<[kind |-> "new", session |-> p.session, mid |-> 0, first |-> first]>>
       IN /\ known' = [known EXCEPT ![d] = @ \cup
                {[session |-> p.session, mid |-> p.messages[i].mid, req |-> p.messages[i].req,
                  after |-> p.messages[i].after, what |-> "none"] : i \in fresh}]
          /\ open' = [open EXCEPT ![d] = @ \cup {p.session}]
          /\ Sends(d, new \o SetToSeq({Answer(k) : k \in again}))
    /\ UNCHANGED <<home, faults, executed>>

(* The server refuses a packet: the time of the client is wrong, or the salt. *)
ServerRefuses(d) ==
    /\ c.up[d] # <<>>
    /\ Fault
    /\ c' = [c EXCEPT !.up[d] = Tail(@)]
    /\ \E kind \in {"bad", "salt"} :
         Sends(d, <<[kind |-> kind, session |-> Head(c.up[d]).session, mid |-> 0]>>)
    /\ UNCHANGED <<known, open, home, executed>>

(* The server answers k, after the message it has to come after; if that one *)
(* has failed, is not known or waits for k itself, k fails. It answers an    *)
(* account that lives elsewhere with the place where it lives.               *)
ServerAnswers(d, k) ==
    LET before == {x \in known[d] : x.session = k.session /\ x.mid = k.after}
        Is(w) ==
          /\ known' = [known EXCEPT ![d] = (@ \ {k}) \cup {[k EXCEPT !.what = w]}]
          /\ Sends(d, <<Answer([k EXCEPT !.what = w])>>)
    IN /\ k.what = "none"
       /\ \A x \in before : x.what # "none" \/ x.after = k.mid
       /\ \/ /\ k.req \in Requests /\ home # d
             /\ Is(home)
             /\ UNCHANGED <<faults, executed>>
          \/ /\ k.req \in Requests => home = d
             /\ k.after # 0 /\ \A x \in before : x.what # "ok"
             /\ Is("error")
             /\ UNCHANGED <<faults, executed>>
          \/ /\ k.req \in Requests => home = d
             /\ k.after = 0 \/ \E x \in before : x.what = "ok"
             /\ \/ /\ Is("ok")
                   /\ executed' = IF k.req \in Requests /\ k.req \notin ToSet(executed)
                                  THEN Append(executed, k.req) ELSE executed
                   /\ UNCHANGED faults
                \/ /\ Fault
                   /\ \E w \in {"error", "500", "420"} : Is(w)
                   /\ UNCHANGED executed
       /\ UNCHANGED <<c, open, home>>

AccountMoves(d) ==
    /\ home = First /\ d # First
    /\ MayHappen
    /\ \E k \in known[First] : k.what = "none"
    /\ home' = d
    /\ UNCHANGED <<c, down, known, open, faults, executed>>

(* What the threads and the servers do by themselves.                        *)
Progress ==
    \/ PerformPosted \/ Timer \/ RpcCompleted
    \/ \E r \in ToSet(c.running) : Age(r)
    \/ \E d \in c.again : MoveAgain(d)
    \/ \E d \in c.handshakes : HandshakeDidFinish(d)
    \/ \E d \in Dcs :
         \/ ReceivedData(d) \/ Connected(d) \/ Connect(d) \/ ServerTakes(d)
         \/ \E k \in known[d] : ServerAnswers(d, k)

Next ==
    \/ Progress
    \/ \E r \in Requests : Perform(r) \/ CancelRpc(r)
    \/ \E d \in Dcs : Lose(d) \/ ServerRefuses(d) \/ AccountMoves(d)

(* The threads run what they are given, time passes, what is connected to    *)
(* comes up, and the servers answer. Nothing has to go wrong.                *)
Fairness == WF_vars(Progress)

Spec == Init /\ [][Next]_vars /\ Fairness

------------------------------------------------------------------------------
(* Properties                                                                *)

(* The callback of a request is called once at most, and not after the       *)
(* request was cancelled, although requests are sent again after every       *)
(* trouble and the server answers what it is asked again. Left out are the   *)
(* requests that were cleared between their answer and the runnable of       *)
(* rpcCompleted: they lose the id by which it looks for them, are sent again *)
(* and answered again.                                                       *)
Once == \A r \in Requests : c.ended[r] <= 1 \/ r \in c.revived

(* Messages are sent on in the order in which they were given to performRpc, *)
(* whatever is lost, repeated, refused or moved elsewhere in between. Left   *)
(* out (delayed) are those that were cancelled, that the server had to be    *)
(* asked for again because of an error of its own, that ended with an error  *)
(* for their caller (the server may have them still, and send them on when   *)
(* it is asked what they wait for), and those that another one goes past     *)
(* (Passed): the code lets a message follow the one before it in the packet, *)
(* or the largest id that runs, not the one that was given before it.        *)
InOrder ==
    \A i, j \in DOMAIN executed :
        LET Position(x) == CHOOSE p \in DOMAIN c.performed : c.performed[p] = executed[x]
        IN i < j /\ Position(i) > Position(j) => executed[j] \in c.delayed

(* However the answers that begin, carry on and end a move come, the client  *)
(* is left with a datacenter. Left out (spoiled): the export or the import   *)
(* of a move is cleared between its answer and the runnable of rpcCompleted, *)
(* sent again and answered again, so that one move ends twice; the second    *)
(* end takes currentDatacenterId from a movingToDatacenterId that is         *)
(* DEFAULT_DATACENTER_ID by then. The model goes no further there (Running). *)
CurrentKnown == c.current \in Dcs \/ c.spoiled

(* Every request is answered in the end or cancelled: none is forgotten in   *)
(* one of the queues, under an id that the server does not know, or behind a *)
(* move. Left out are the moves that cannot end: those whose authorization   *)
(* is to be imported where the client is not authorized (HeldBack), the      *)
(* others (stuck) after an error to the export or the import, and with as    *)
(* many requests running as may run; and those that end twice (spoiled).     *)
HeldBack == \E r \in DOMAIN c.req : Kind(r) = "import" /\ ~Authorized(c, r)

Answered ==
    []<>(\A r \in ToSet(c.performed) : c.ended[r] > 0 \/ HeldBack \/ c.stuck \/ c.spoiled)

=============================================================================
