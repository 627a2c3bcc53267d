----------------------------- MODULE SecretChat -----------------------------
(***************************************************************************)
(* A secret chat between two devices, as SecretChatHelper keeps it: the    *)
(* numbers that put the messages back in order, and the exchange that      *)
(* replaces the key while messages are in flight.                          *)
(*                                                                         *)
(* Messages travel through the server, which loses none but may bring them *)
(* late, out of order or again.  Both sides are at layer 20 or above.  The *)
(* numbers count the messages of a side from 0: the code's out_seq_no is   *)
(* twice that, plus one for the side that created the chat.                *)
(*                                                                         *)
(* A name with an underscore is a wrong variant of the definition after    *)
(* it: with it in place a property must fail, which shows that the         *)
(* property depends on what the code does there.                           *)
(***************************************************************************)
EXTENDS Integers, Sequences, SequencesExt

CONSTANTS
    Sides,         \* the two devices
    Started,       \* how many messages of each side were processed before: 0 or 1
    HolesLimit,    \* how many messages are held back before the chat is given up: 10
    ExchangeIds,   \* the identifiers that key exchanges get (random, compared by size)
    MaxSent,       \* a side sends a text only while it has sent fewer messages
    MaxRepeats,    \* how many messages are delivered twice
    MaxFails       \* how many requests that send a message are answered by an error

ASSUME SecretChatAssumption ==
    /\ \E s \in Sides : \E t \in Sides \ {s} : Sides = {s, t}
    /\ Started \in {0, 1}
    /\ ExchangeIds \subseteq Nat \ {0}
    /\ {HolesLimit, MaxSent, MaxRepeats, MaxFails} \subseteq Nat

VARIABLES
    chat,       \* of each side: seq_in and seq_out, the two keys, the exchange
    open,       \* of each side: "open", "closing" (the UI thread has to be told), "closed"
    holes,      \* of each side: secretHolesQueue
    busy,       \* of each side: the loop of checkSecretHoles is running
    posted,     \* of each side: the service messages posted to stageQueue
    net,        \* of each side: its messages on their way
    copies,     \* of each side: its messages that were delivered and come again
    failed,     \* of each side: its texts in error
    declined,   \* discardEncryption was sent
    exchanges,  \* the exchange ids taken
    keys,       \* the number of keys made
    repeats, fails,  \* how often the bounded failures have happened
    overlapped,      \* history: an exchange began before the one before was over
    misjudged        \* history: a message held since before a commit was taken to be
                     \* under the new key

vars == <<chat, open, holes, busy, posted, net, copies, failed, declined, exchanges, keys,
          repeats, fails, overlapped, misjudged>>

Other(s) == CHOOSE t \in Sides : t # s

-----------------------------------------------------------------------------
Action(op, exchange, key) == [op |-> op, exchange |-> exchange, key |-> key]
Text          == Action("text", 0, 0)
Noop          == Action("noop", 0, 0)
RequestKey(e) == Action("requestKey", e, 0)
AcceptKey(e, k) == Action("acceptKey", e, k)
CommitKey(e, k) == Action("commitKey", e, k)
AbortKey(e)   == Action("abortKey", e, 0)

Message(n, key, action) == [n |-> n, key |-> key, action |-> action]

Init ==
    /\ chat = [s \in Sides |-> [in |-> 0, out |-> Started, key |-> 1, future |-> 0, exchange |-> 0, due |-> FALSE]]
    /\ open = [s \in Sides |-> "open"]
    /\ holes = [s \in Sides |-> <<>>] /\ busy = [s \in Sides |-> FALSE]
    /\ posted = [s \in Sides |-> <<>>]
    /\ net = [s \in Sides |-> {}] /\ copies = [s \in Sides |-> {}]
    /\ failed = [s \in Sides |-> {}]
    /\ declined = FALSE /\ exchanges = {} /\ keys = 1
    /\ repeats = 0 /\ fails = 0 /\ overlapped = FALSE /\ misjudged = FALSE

(* stageQueue of s is between two runnables, and its chat is not discarded. *)
Ready(s) == ~busy[s] /\ open[s] # "closed"

-----------------------------------------------------------------------------
(* Sending.                                                                *)

(* requestNewSecretChatKey, which does not look at the future key.         *)
NewExchange(e) == e \in ExchangeIds \ exchanges
Requested(c, e) == [c EXCEPT !.exchange = e]

(* The exchange before is not over: its old key is kept, or a message that *)
(* was encrypted by its new key is held back.                              *)
Unsettled(s) == chat[s].future # 0 \/ \E i \in DOMAIN holes[s] : holes[s][i].new

(* performSendEncryptedRequest for a message without a number: it takes    *)
(* the next one, is encrypted by the present key, and may find the key due *)
(* to be replaced: then an exchange begins, unless there is one.           *)
SendNext(s, action, rest) ==
    LET c == [chat[s] EXCEPT !.out = @ + 1] IN
    /\ net' = [net EXCEPT ![s] = @ \cup {Message(chat[s].out, chat[s].key, action)}]
    /\ \/ /\ chat' = [chat EXCEPT ![s] = c]
          /\ posted' = [posted EXCEPT ![s] = rest]
          /\ UNCHANGED <<exchanges, overlapped>>
       \/ /\ c.due /\ c.exchange = 0
          /\ \E e \in ExchangeIds :
               /\ NewExchange(e)
               /\ chat' = [chat EXCEPT ![s] = Requested(c, e)]
               /\ posted' = [posted EXCEPT ![s] = Append(rest, RequestKey(e))]
               /\ exchanges' = exchanges \cup {e}
          /\ overlapped' = (overlapped \/ Unsettled(s))
    /\ UNCHANGED <<open, holes, busy, copies, failed, declined, keys, repeats, fails, misjudged>>

SendText(s) ==
    /\ Ready(s) /\ chat[s].out < MaxSent
    /\ SendNext(s, Text, posted[s])

SendPosted(s) ==
    /\ Ready(s) /\ posted[s] # <<>>
    /\ SendNext(s, Head(posted[s]), Tail(posted[s]))

(* The request is answered by an error.  Only a text can be sent again; it *)
(* keeps its number.                                                       *)
SendFails(s) ==
    /\ fails < MaxFails /\ ~busy[s]
    /\ \E m \in net[s] :
         /\ net' = [net EXCEPT ![s] = @ \ {m}]
         /\ failed' = [failed EXCEPT ![s] = @ \cup ({t \in {m} : t.action = Text})]
    /\ fails' = fails + 1
    /\ UNCHANGED <<chat, open, holes, busy, posted, copies, declined, exchanges, keys,
                   repeats, overlapped, misjudged>>

SendAgain(s) ==
    /\ Ready(s)
    /\ \E m \in failed[s] :
         /\ net' = [net EXCEPT ![s] = @ \cup {[m EXCEPT !.key = chat[s].key]}]
         /\ failed' = [failed EXCEPT ![s] = @ \ {m}]
    /\ UNCHANGED <<chat, open, holes, busy, posted, copies, declined, exchanges, keys,
                   repeats, fails, overlapped, misjudged>>

(* The key was used for 100 messages of this side or 120 of the other, or  *)
(* is a week old: which of them, and so which step will see it, is open.   *)
KeyGrowsOld(s) ==
    /\ Ready(s) /\ ~chat[s].due /\ ExchangeIds \ exchanges # {}
    /\ chat' = [chat EXCEPT ![s].due = TRUE]
    /\ UNCHANGED <<open, holes, busy, posted, net, copies, failed, declined, exchanges, keys,
                   repeats, fails, overlapped, misjudged>>

-----------------------------------------------------------------------------
(* processDecryptedObject.                                                 *)

Switched_KeepsWaiting(c, new) ==
    IF c.exchange = 0 /\ c.future # 0 /\ ~new THEN [c EXCEPT !.future = 0] ELSE c

(* A message under the present key tells the side that made the last       *)
(* commit that the other has switched; one under the future key tells the  *)
(* side that asked for the exchange to switch.                             *)
Switched(c, new) ==
    IF c.exchange = 0 /\ c.future # 0 /\ ~new
    THEN [c EXCEPT !.future = 0]
    ELSE IF c.exchange # 0 /\ new
    THEN [c EXCEPT !.key = c.future, !.future = 0, !.exchange = 0, !.due = FALSE]
    ELSE c

Abandoned(c) == [c EXCEPT !.future = 0, !.exchange = 0]
Result(c, post) == [chat |-> c, post |-> post]

(* The numbers of the two sides are taken to be good ones, so that both    *)
(* compute the same key: it is made when the request is accepted.          *)
OnRequestKey(c, e, fresh) ==
    IF c.exchange > e
    THEN Result(c, <<>>)
    ELSE Result([c EXCEPT !.exchange = e, !.future = fresh],
                (IF c.exchange # 0 THEN <<AbortKey(c.exchange)>> ELSE <<>>)
                    \o <<AcceptKey(e, fresh)>>)

OnAcceptKey(c, e, k) ==
    IF c.exchange = e
    THEN Result([c EXCEPT !.future = k], <<CommitKey(e, k)>>)
    ELSE Result(Abandoned(c), <<AbortKey(e)>>)

OnCommitKey_ForgetsOldKey(c, e, k) ==
    IF c.exchange = e /\ c.future = k
    THEN Result([c EXCEPT !.key = k, !.future = 0, !.exchange = 0, !.due = FALSE], <<Noop>>)
    ELSE Result(Abandoned(c), <<AbortKey(e)>>)

OnCommitKey(c, e, k) ==
    IF c.exchange = e /\ c.future = k
    THEN Result([c EXCEPT !.key = k, !.future = c.key, !.exchange = 0, !.due = FALSE], <<Noop>>)
    ELSE Result(Abandoned(c), <<AbortKey(e)>>)

OnAbortKey(c, e) == Result(IF c.exchange = e THEN Abandoned(c) ELSE c, <<>>)

Handled(c, a, fresh) ==
    CASE a.op = "requestKey" -> OnRequestKey(c, a.exchange, fresh)
      [] a.op = "acceptKey"  -> OnAcceptKey(c, a.exchange, a.key)
      [] a.op = "commitKey"  -> OnCommitKey(c, a.exchange, a.key)
      [] a.op = "abortKey"   -> OnAbortKey(c, a.exchange)
      [] OTHER               -> Result(c, <<>>)

(* The message m, which is next in order, was under the future key if new. *)
(* Before anything else the key may be found due to be replaced: then an   *)
(* exchange begins, if no other is under way and no key is kept.           *)
Process(s, m, new) ==
    \E e \in {0} \cup ExchangeIds :
       /\ e # 0 => /\ NewExchange(e) /\ chat[s].due
                   /\ chat[s].exchange = 0 /\ chat[s].future = 0
       /\ LET c0 == [chat[s] EXCEPT !.in = m.n]
              c1 == IF e = 0 THEN c0 ELSE Requested(c0, e)
              r  == Handled(Switched(c1, new), m.action, keys + 1) IN
          /\ chat' = [chat EXCEPT ![s] = r.chat]
          /\ posted' = [posted EXCEPT ![s] =
                           @ \o (IF e = 0 THEN <<>> ELSE <<RequestKey(e)>>) \o r.post]
          /\ keys' = IF r.chat.future = keys + 1 THEN keys + 1 ELSE keys
       /\ exchanges' = exchanges \cup ({e} \ {0})
       /\ overlapped' = (overlapped \/ (e # 0 /\ Unsettled(s)))

-----------------------------------------------------------------------------
(* decryptMessage and checkSecretHoles.                                    *)

(* Whether the message can be read, and whether by the future key.         *)
CanRead(s, m) == m.key = chat[s].key \/ (chat[s].future # 0 /\ m.key = chat[s].future)
UsesNew(s, m) == m.key # chat[s].key

InOrder_OrLater(s, m) == m.n >= chat[s].in

InOrder(s, m) == m.n = chat[s].in \/ m.n = chat[s].in + 1

(* The server delivers a message, and perhaps once more later.             *)
Deliver(s, m) ==
    LET t == Other(s) IN
    /\ Ready(s)
    /\ \/ /\ m \in copies[t]
          /\ copies' = [copies EXCEPT ![t] = @ \ {m}]
          /\ UNCHANGED <<net, repeats>>
       \/ /\ m \in net[t]
          /\ net' = [net EXCEPT ![t] = @ \ {m}]
          /\ \/ UNCHANGED <<copies, repeats>>
             \/ /\ repeats < MaxRepeats /\ repeats' = repeats + 1
                /\ copies' = [copies EXCEPT ![t] = @ \cup {m}]
    /\ UNCHANGED <<failed, fails, misjudged>>

ReceiveNext(s, m) ==
    /\ Deliver(s, m) /\ CanRead(s, m) /\ InOrder(s, m)
    /\ Process(s, m, UsesNew(s, m))
    /\ busy' = [busy EXCEPT ![s] = TRUE]
    /\ UNCHANGED <<open, holes, declined>>

ReceiveAhead_NewQueue(s, m) ==
    /\ Deliver(s, m) /\ CanRead(s, m) /\ chat[s].in + 1 < m.n
    /\ holes' = [holes EXCEPT ![s] = <<[message |-> m, new |-> UsesNew(s, m)]>>]
    /\ UNCHANGED <<chat, open, declined, busy, posted, exchanges, keys, overlapped>>

ReceiveAhead(s, m) ==
    /\ Deliver(s, m) /\ CanRead(s, m) /\ chat[s].in + 1 < m.n
    /\ IF Len(holes[s]) < HolesLimit
       THEN /\ holes' = [holes EXCEPT ![s] = Append(@, [message |-> m, new |-> UsesNew(s, m)])]
            /\ UNCHANGED <<open, declined>>
       ELSE /\ holes' = [holes EXCEPT ![s] = <<>>]
            /\ open' = [open EXCEPT ![s] = "closing"]
            /\ declined' = TRUE
    /\ UNCHANGED <<chat, busy, posted, exchanges, keys, overlapped>>

(* An old number, or a key that is not known.                              *)
ReceiveNothing(s, m) ==
    /\ Deliver(s, m) /\ (~CanRead(s, m) \/ m.n < chat[s].in)
    /\ UNCHANGED <<chat, open, holes, busy, posted, declined, exchanges, keys, overlapped>>

FirstHole_Last(s, i) ==
    /\ i \in DOMAIN holes[s]
    /\ \A j \in DOMAIN holes[s] : holes[s][i].message.n >= holes[s][j].message.n

(* The held message that the sort puts first.                              *)
FirstHole(s, i) ==
    /\ i \in DOMAIN holes[s]
    /\ \A j \in DOMAIN holes[s] :
         \/ holes[s][i].message.n < holes[s][j].message.n
         \/ holes[s][i].message.n = holes[s][j].message.n /\ i <= j

CheckHole(s) ==
    /\ busy[s]
    /\ \E i \in DOMAIN holes[s] :
         LET m == holes[s][i].message IN
         /\ FirstHole(s, i) /\ InOrder(s, m)
         /\ Process(s, m, holes[s][i].new)
         /\ holes' = [holes EXCEPT ![s] = RemoveAt(@, i)]
         /\ misjudged' = (misjudged \/ (~holes[s][i].new /\ m.key # chat[s].key))
    /\ UNCHANGED <<open, busy, net, copies, failed, declined, repeats, fails>>

CheckEnds_AfterOne(s) ==
    /\ busy[s] /\ busy' = [busy EXCEPT ![s] = FALSE]
    /\ UNCHANGED <<chat, open, holes, posted, net, copies, failed, declined, exchanges, keys,
                   repeats, fails, overlapped, misjudged>>

CheckEnds(s) ==
    /\ busy[s]
    /\ \A i \in DOMAIN holes[s] : FirstHole(s, i) => ~InOrder(s, holes[s][i].message)
    /\ busy' = [busy EXCEPT ![s] = FALSE]
    /\ UNCHANGED <<chat, open, holes, posted, net, copies, failed, declined, exchanges, keys,
                   repeats, fails, overlapped, misjudged>>

(* The UI thread puts the discarded chat in the place of the other.  The   *)
(* server tells the other side, if it did not give up itself.              *)
Discard(s) ==
    /\ ~busy[s]
    /\ open[s] = "closing" \/ (declined /\ open[s] = "open")
    /\ open' = [open EXCEPT ![s] = "closed"]
    /\ UNCHANGED <<chat, holes, busy, posted, net, copies, failed, declined, exchanges, keys,
                   repeats, fails, overlapped, misjudged>>

-----------------------------------------------------------------------------
Receive(s) ==
    \E m \in net[Other(s)] \cup copies[Other(s)] :
        ReceiveNext(s, m) \/ ReceiveAhead(s, m) \/ ReceiveNothing(s, m)

Next ==
    \E s \in Sides :
        \/ SendText(s) \/ SendPosted(s) \/ SendFails(s) \/ SendAgain(s) \/ KeyGrowsOld(s)
        \/ Receive(s) \/ CheckHole(s) \/ CheckEnds(s) \/ Discard(s)

Spec == Init /\ [][Next]_vars

-----------------------------------------------------------------------------
ActionSet == [op : {"text", "noop", "requestKey", "acceptKey", "commitKey", "abortKey"},
              exchange : {0} \cup ExchangeIds, key : Nat]
MessageSet == [n : Nat, key : Nat, action : ActionSet]
ChatSet == [in : Nat, out : Nat, key : Nat, future : Nat,
            exchange : {0} \cup ExchangeIds, due : BOOLEAN]
HeldSet == [message : MessageSet, new : BOOLEAN]

(* The types, with the limit of secretHolesQueue.                          *)
TypeOK ==
    /\ chat \in [Sides -> ChatSet]
    /\ open \in [Sides -> {"open", "closing", "closed"}]
    /\ holes \in [Sides -> Seq(HeldSet)]
    /\ \A s \in Sides : Len(holes[s]) <= HolesLimit
    /\ busy \in [Sides -> BOOLEAN]
    /\ posted \in [Sides -> Seq(ActionSet)]
    /\ net \in [Sides -> SUBSET MessageSet] /\ copies \in [Sides -> SUBSET MessageSet]
    /\ failed \in [Sides -> SUBSET MessageSet]
    /\ declined \in BOOLEAN /\ exchanges \subseteq ExchangeIds /\ keys \in Nat
    /\ repeats \in Nat /\ fails \in Nat /\ overlapped \in BOOLEAN /\ misjudged \in BOOLEAN

(* A message is held back only as long as there is a hole before it.       *)
HeldForAReason ==
    \A s \in Sides : ~busy[s] =>
        \A i \in DOMAIN holes[s] : holes[s][i].message.n > chat[s].in + 1

(* What a side processes of the other's messages is what a channel that    *)
(* keeps the order would bring.                                            *)
Channel(s) == INSTANCE InOrderChannel WITH sent <- chat[s].out, last <- chat[Other(s)].in
InOrderBothWays ==
    [][\A s \in Sides : [Channel(s)!Next]_<<chat[s].out, chat[Other(s)].in>>]_vars

(* The rest is claimed while every message arrives once, no request fails, *)
(* and the exchange before is over when one begins.                        *)
Usual == repeats = 0 /\ fails = 0 /\ ~overlapped
AsPlanned == Usual /\ ~misjudged

Unreadable(s, m) == open[s] = "open" /\ m.n > chat[s].in /\ ~CanRead(s, m)

(* A commit keeps the old key for the messages that are on their way, and  *)
(* so a message whose key is unknown is an error ("fingerprint mismatch"). *)
(* It happens: new_key_used of a message that is held while the key is     *)
(* changed is the one of the time when it came.                            *)
NoMismatch == Usual => \A s \in Sides : \A m \in net[Other(s)] : ~Unreadable(s, m)

(* Apart from that neither side throws away a key that messages on their   *)
(* way to it need.                                                         *)
Readable == AsPlanned => \A s \in Sides : \A m \in net[Other(s)] : ~Unreadable(s, m)

(* Every message that was sent and is not yet processed is on its way or   *)
(* held back.                                                              *)
NoneMissing ==
    AsPlanned =>
        \A s \in Sides : open[s] = "open" =>
            \A n \in chat[s].in + 1 .. chat[Other(s)].out - 1 :
                n \in {m.n : m \in net[Other(s)]} \cup {holes[s][i].message.n : i \in DOMAIN holes[s]}

(* When everything has arrived both sides have the same key, and no        *)
(* exchange is left half done.                                             *)
Quiet == \A s \in Sides : /\ net[s] = {} /\ posted[s] = <<>>
                          /\ ~busy[s] /\ open[s] = "open"
KeysAgree ==
    AsPlanned /\ Quiet =>
        \A s, t \in Sides : chat[s].key = chat[t].key /\ chat[s].exchange = 0

=============================================================================
