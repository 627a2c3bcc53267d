-------------------------- MODULE ConnectionsProofs -------------------------
(***************************************************************************)
(* The proofs about what MCConnections puts together, for every value of   *)
(* the constants.  The first part is about the exchange of a key: the key  *)
(* that a datacenter gets is one that the server has confirmed, whatever   *)
(* is lost, refused or repeated.  The second is about the RPC layer: no    *)
(* request ends twice for its caller, and the client's datacenter is       *)
(* always one that it knows.  The order of the messages has a module of    *)
(* its own, ConnectionsOrderProofs.                                        *)
(***************************************************************************)
EXTENDS MCConnections, SequenceTheorems, FiniteSetTheorems, WellFoundedInduction, TLAPS

(* What belongs to a new nonce: the exchange it begins, and the            *)
(* confirmation of a key.                                                  *)
IsDh(m)  == m.type \in {"reqDH", "dhOk", "dhFail"}
IsGen(m) == m.type \in {"setClient", "genOk", "genRetry", "genFail"}

Asking == {"reqPQ", "reqDH", "setClient"}
Answering == {"resPQ", "dhOk", "dhFail", "genOk", "genRetry", "genFail", "encrypted"}

MessageSet ==
    [type : Asking \cup Answering \cup {"pq", "none"}, id : Nat, nonce : Nat, server : Nat,
     new : Nat, value : Nat]
Questions == {m \in MessageSet : m.type \in Asking}
Replies == {m \in MessageSet : m.type \in Answering}
Events ==
    {e \in [what : {"data", "factorized", "completed", "connected", "closed", "removed"}, msg : MessageSet] :
        e.msg.type \in IF e.what = "data" THEN Answering
                       ELSE IF e.what = "factorized" THEN {"pq"} ELSE {"none"}}
Tasks ==
    {t \in [what : {"suspend", "connect", "send"}, msg : MessageSet] :
        t.msg.type \in IF t.what = "send" THEN Asking ELSE {"none"}}

(* What may come behind what on the way to the server and back: nothing of *)
(* an older new nonce comes behind a set_client_DH_params or its answer,   *)
(* and no encrypted message behind a confirmation.                         *)
Follows(x, g) ==
    IsGen(g) => /\ IsGen(x) => x.new >= g.new
                /\ IsDh(x) => x.new > g.new
                /\ g.type = "genOk" => x.type # "encrypted"

Ordered(l) == \A i, j \in 1 .. Len(l) : i < j => Follows(l[j], l[i])
OrderedEvents(l) == \A i, j \in 1 .. Len(l) : i < j => Follows(l[j].msg, l[i].msg)
Behind(K, L) == \A x \in K, g \in L : Follows(x, g)

(* The messages of the elements of l.                                      *)
Carried(l) == {l[i].msg : i \in 1 .. Len(l)}

(* The way to the server and back, from its end on: stage, caught, in,     *)
(* out and tasks.                                                          *)
InLine(st, ca, is, os, ts) ==
    /\ OrderedEvents(st) /\ Ordered(is) /\ Ordered(os) /\ OrderedEvents(ts)
    /\ Behind(Carried(ca), Carried(st)) /\ Behind(ToSet(is), Carried(st))
    /\ Behind(ToSet(os), Carried(st)) /\ Behind(Carried(ts), Carried(st))
    /\ Behind(ToSet(is), Carried(ca)) /\ Behind(ToSet(os), Carried(ca)) /\ Behind(Carried(ts), Carried(ca))
    /\ Behind(ToSet(os), ToSet(is)) /\ Behind(Carried(ts), ToSet(is))
    /\ Behind(Carried(ts), ToSet(os))

Traveling(st, ca, is, os, ts) ==
    Carried(st) \cup Carried(ca) \cup ToSet(is) \cup ToSet(os) \cup Carried(ts)

(* What is right about every message, h being the action, news the number  *)
(* of new nonces drawn, and keys those that the server has confirmed.      *)
Right(m, h, news, keys) ==
    /\ IsDh(m) \/ IsGen(m) => m.new > 0 /\ m.new <= news /\ (m.new = h.new => m.nonce = h.nonce)
    /\ IsDh(m) => m.value > 0 /\ (m.type = "dhOk" => m.server = m.value)
    /\ IsGen(m) => m.value > 0
    /\ m.type = "genOk" => m.value \in keys
    /\ m.type = "pq" => m.value > 0
    /\ m.type = "resPQ" => m.server > 0

(* A req_DH_params that may be sent again has no answer yet: nothing that  *)
(* comes after it was sent.                                                *)
KeptIsLast(T, h) ==
    \A k \in h.kept : k.type = "reqDH" => \A m \in T : IsGen(m) => m.new < k.new

AtMostOne(ca) ==
    ca = <<>> \/ \E e \in Events : ca = <<e>> /\ e.what \in {"data", "connected", "closed"}

Way(st, ca, is, os, ts, h, news, keys) ==
    /\ st \in Seq(Events) /\ AtMostOne(ca) /\ is \in Seq(Replies) /\ os \in Seq(Questions)
    /\ ts \in Seq(Tasks)
    /\ InLine(st, ca, is, os, ts)
    /\ \A m \in Traveling(st, ca, is, os, ts) : Right(m, h, news, keys)
    /\ KeptIsLast(Traveling(st, ca, is, os, ts), h)

(* The action.  What is kept belongs to its last new nonce.                *)
Fields ==
    {h \in [nonce : Nat, server : Nat, new : Nat, key : Nat, processedPQRes : BOOLEAN,
            processed : SUBSET Nat, kept : SUBSET Questions, wasDisconnect : BOOLEAN] :
        h.key # 0 \/ h.server # 0 => h.processedPQRes}

LastOnes(h, news, keys) ==
    /\ h.new \in {0, news}
    /\ \A k \in h.kept :
          /\ Right(k, h, news, keys)
          /\ k.type = "reqDH" => k.new = news
          /\ k.type = "setClient" => k.new = news \/ \E j \in h.kept : j.type = "reqDH"

Counters ==
    /\ drawn \in [server : Nat, new : Nat, key : Nat, id : Nat]
    /\ times.attempts \in Nat
    /\ DOMAIN times = {"attempts", "lost", "refusals", "encrypted", "repeats"}
    /\ \A pq \in threads : pq \in Nat /\ pq > 0
    /\ DOMAIN dc = {"key", "over", "acting"}

(* What was read is what the history says.                                 *)
Addressed(m) == [to |-> <<m.type \in {"dhOk", "dhFail"}, m.nonce, m.new>>, id |-> m.id]

WasRead(st, ca, rd, db) ==
    /\ \A i \in 1 .. Len(st) : st[i].what = "data" => Addressed(st[i].msg) \in rd
    /\ \A i \in 1 .. Len(ca) : ca[i].what = "data" => Addressed(ca[i].msg) \in rd
    /\ ~db => \A a, b \in rd : a.to = b.to => a.id = b.id

(* Before the end of the action is handled, nothing comes that gives it    *)
(* another key, and, as long as nothing was answered twice, nothing that   *)
(* makes it begin anew.                                                    *)
Harmless(e, h, db) ==
    e.what = "data" =>
        /\ IsDh(e.msg) => e.msg.new # h.new
        /\ ~db => /\ e.msg.type # "encrypted"
                  /\ IsDh(e.msg) \/ IsGen(e.msg) => e.msg.id \in h.processed

Completing(st, h, keys, db) ==
    \A j \in 1 .. Len(st) : st[j].what = "completed" =>
        /\ h.key \in keys \/ h.key = 0
        /\ ~db => h.key \in keys /\ h.processedPQRes
        /\ \A i \in 1 .. j : Harmless(st[i], h, db)

HandshakeInv ==
    /\ Way(stage, caught, in, out, tasks, hs, drawn.new, agreed)
    /\ hs \in Fields /\ LastOnes(hs, drawn.new, agreed) /\ Counters
    /\ WasRead(stage, caught, read, doubled) /\ Completing(stage, hs, agreed, doubled)
    /\ doubled \in BOOLEAN
    /\ Handshake!KeyAgreed

-----------------------------------------------------------------------------
(* Lists: one more at the end, one less in front.                          *)
LEMMA OneMore ==
    ASSUME NEW S, NEW l \in Seq(S), NEW e \in S
    PROVE  /\ Append(l, e) \in Seq(S) /\ Len(Append(l, e)) = Len(l) + 1 /\ Len(l) \in Nat
           /\ \A i \in 1 .. Len(l) : Append(l, e)[i] = l[i] /\ Append(l, e)[i] \in S
           /\ Append(l, e)[Len(l) + 1] = e
           /\ \A i \in 1 .. Len(l) + 1 : i \in 1 .. Len(l) \/ i = Len(l) + 1
OBVIOUS

LEMMA OneLess ==
    ASSUME NEW S, NEW l \in Seq(S), l # <<>>
    PROVE  /\ Tail(l) \in Seq(S) /\ Len(Tail(l)) = Len(l) - 1 /\ Len(l) \in Nat
           /\ \A i \in 1 .. Len(l) - 1 : Tail(l)[i] = l[i + 1] /\ i + 1 \in 1 .. Len(l)
           /\ Head(l) = l[1] /\ Head(l) \in S /\ 1 \in 1 .. Len(l)
OBVIOUS

LEMMA EventsAppended ==
    ASSUME NEW S, NEW l \in Seq(S), NEW e \in S
    PROVE  /\ Append(l, e) \in Seq(S) /\ Carried(Append(l, e)) = Carried(l) \cup {e.msg}
           /\ OrderedEvents(l) /\ Behind({e.msg}, Carried(l)) => OrderedEvents(Append(l, e))
<1> DEFINE t == Append(l, e)
           n == Len(l)
<1>1. /\ t \in Seq(S) /\ Len(t) = n + 1 /\ n \in Nat /\ t[n + 1] = e
      /\ \A i \in 1 .. n : t[i] = l[i]
      /\ \A i \in 1 .. n + 1 : i \in 1 .. n \/ i = n + 1
  BY OneMore
<1> HIDE DEF t, n
<1>2. Carried(t) = {t[i].msg : i \in 1 .. n + 1} /\ Carried(l) = {l[i].msg : i \in 1 .. n}
  BY <1>1 DEF Carried, n
<1>3. n + 1 \in 1 .. n + 1 /\ \A i \in 1 .. n : i \in 1 .. n + 1
  BY <1>1
<1>4. Carried(t) = Carried(l) \cup {e.msg}
  BY <1>1, <1>2, <1>3
<1>5. ASSUME OrderedEvents(l), Behind({e.msg}, Carried(l)) PROVE OrderedEvents(t)
  <2> SUFFICES ASSUME NEW i \in 1 .. n + 1, NEW j \in 1 .. n + 1, i < j
               PROVE  Follows(t[j].msg, t[i].msg)
    BY <1>1 DEF OrderedEvents
  <2>1. i \in 1 .. n
    BY <1>1
  <2>2. CASE j \in 1 .. n
    BY <1>1, <1>5, <2>1, <2>2 DEF OrderedEvents, n
  <2>3. CASE j = n + 1
    <3>1. t[i].msg \in Carried(l) /\ t[j].msg = e.msg
      BY <1>1, <1>2, <2>1, <2>3
    <3> QED BY <1>5, <3>1 DEF Behind
  <2> QED BY <1>1, <2>2, <2>3
<1> QED BY <1>1, <1>4, <1>5 DEF t

LEMMA FirstEvent ==
    ASSUME NEW S, NEW l \in Seq(S), l # <<>>
    PROVE  /\ Tail(l) \in Seq(S) /\ Head(l) \in S
           /\ Carried(l) = Carried(Tail(l)) \cup {Head(l).msg}
           /\ OrderedEvents(l) => OrderedEvents(Tail(l)) /\ Behind(Carried(Tail(l)), {Head(l).msg})
<1> DEFINE t == Tail(l)
           n == Len(l)
<1>1. /\ t \in Seq(S) /\ Len(t) = n - 1 /\ n \in Nat /\ Head(l) = l[1] /\ Head(l) \in S /\ 1 \in 1 .. n
      /\ \A i \in 1 .. n - 1 : t[i] = l[i + 1] /\ i + 1 \in 1 .. n
  BY OneLess
<1> HIDE DEF t
<1>2. Carried(t) = {t[i].msg : i \in 1 .. n - 1} /\ Carried(l) = {l[i].msg : i \in 1 .. n}
  BY <1>1 DEF Carried
<1> HIDE DEF n
<1>3. Carried(t) \cup {Head(l).msg} \subseteq Carried(l)
  BY <1>1, <1>2
<1>4. Carried(l) \subseteq Carried(t) \cup {Head(l).msg}
  <2> SUFFICES ASSUME NEW i \in 1 .. n PROVE l[i].msg \in Carried(t) \cup {Head(l).msg}
    BY <1>2
  <2>1. CASE i = 1
    BY <1>1, <2>1
  <2>2. CASE i # 1
    <3>1. i - 1 \in 1 .. n - 1 /\ (i - 1) + 1 = i
      BY <1>1, <2>2
    <3>2. t[i - 1] = l[i]
      BY <1>1, <3>1
    <3> QED BY <1>2, <3>1, <3>2
  <2> QED BY <2>1, <2>2
<1>5. ASSUME OrderedEvents(l) PROVE OrderedEvents(t) /\ Behind(Carried(t), {Head(l).msg})
  <2>1. ASSUME NEW i \in 1 .. n - 1, NEW j \in 1 .. n - 1, i < j
        PROVE  Follows(t[j].msg, t[i].msg)
    <3>1. i + 1 < j + 1 /\ i + 1 \in 1 .. n /\ j + 1 \in 1 .. n /\ t[i] = l[i + 1] /\ t[j] = l[j + 1]
      BY <1>1, <2>1
    <3> QED BY <1>5, <3>1 DEF OrderedEvents, n
  <2>2. ASSUME NEW i \in 1 .. n - 1 PROVE Follows(t[i].msg, Head(l).msg)
    <3>1. 1 < i + 1 /\ i + 1 \in 1 .. n /\ t[i] = l[i + 1]
      BY <1>1
    <3> QED BY <1>1, <1>5, <3>1 DEF OrderedEvents, n
  <2>3. OrderedEvents(t)
    BY <1>1, <2>1 DEF OrderedEvents
  <2> QED BY <1>2, <2>2, <2>3 DEF Behind
<1> QED BY <1>1, <1>3, <1>4, <1>5 DEF t

LEMMA MessageAppended ==
    ASSUME NEW S, NEW l \in Seq(S), NEW e \in S
    PROVE  /\ Append(l, e) \in Seq(S) /\ ToSet(Append(l, e)) = ToSet(l) \cup {e}
           /\ Ordered(l) /\ Behind({e}, ToSet(l)) => Ordered(Append(l, e))
<1> DEFINE t == Append(l, e)
           n == Len(l)
<1>1. /\ t \in Seq(S) /\ Len(t) = n + 1 /\ n \in Nat /\ t[n + 1] = e
      /\ \A i \in 1 .. n : t[i] = l[i]
      /\ \A i \in 1 .. n + 1 : i \in 1 .. n \/ i = n + 1
  BY OneMore
<1> HIDE DEF t, n
<1>2. ToSet(t) = {t[i] : i \in 1 .. n + 1} /\ ToSet(l) = {l[i] : i \in 1 .. n}
  BY <1>1 DEF ToSet, n
<1>3. n + 1 \in 1 .. n + 1 /\ \A i \in 1 .. n : i \in 1 .. n + 1
  BY <1>1
<1>4. ToSet(t) = ToSet(l) \cup {e}
  BY <1>1, <1>2, <1>3
<1>5. ASSUME Ordered(l), Behind({e}, ToSet(l)) PROVE Ordered(t)
  <2> SUFFICES ASSUME NEW i \in 1 .. n + 1, NEW j \in 1 .. n + 1, i < j
               PROVE  Follows(t[j], t[i])
    BY <1>1 DEF Ordered
  <2>1. i \in 1 .. n
    BY <1>1
  <2>2. CASE j \in 1 .. n
    BY <1>1, <1>5, <2>1, <2>2 DEF Ordered, n
  <2>3. CASE j = n + 1
    <3>1. t[i] \in ToSet(l) /\ t[j] = e
      BY <1>1, <1>2, <2>1, <2>3
    <3> QED BY <1>5, <3>1 DEF Behind
  <2> QED BY <1>1, <2>2, <2>3
<1> QED BY <1>1, <1>4, <1>5 DEF t

LEMMA FirstMessage ==
    ASSUME NEW S, NEW l \in Seq(S), l # <<>>
    PROVE  /\ Tail(l) \in Seq(S) /\ Head(l) \in S
           /\ ToSet(l) = ToSet(Tail(l)) \cup {Head(l)}
           /\ Ordered(l) => Ordered(Tail(l)) /\ Behind(ToSet(Tail(l)), {Head(l)})
<1> DEFINE t == Tail(l)
           n == Len(l)
<1>1. /\ t \in Seq(S) /\ Len(t) = n - 1 /\ n \in Nat /\ Head(l) = l[1] /\ Head(l) \in S /\ 1 \in 1 .. n
      /\ \A i \in 1 .. n - 1 : t[i] = l[i + 1] /\ i + 1 \in 1 .. n
  BY OneLess
<1> HIDE DEF t
<1>2. ToSet(t) = {t[i] : i \in 1 .. n - 1} /\ ToSet(l) = {l[i] : i \in 1 .. n}
  BY <1>1 DEF ToSet
<1> HIDE DEF n
<1>3. ToSet(t) \cup {Head(l)} \subseteq ToSet(l)
  BY <1>1, <1>2
<1>4. ToSet(l) \subseteq ToSet(t) \cup {Head(l)}
  <2> SUFFICES ASSUME NEW i \in 1 .. n PROVE l[i] \in ToSet(t) \cup {Head(l)}
    BY <1>2
  <2>1. CASE i = 1
    BY <1>1, <2>1
  <2>2. CASE i # 1
    <3>1. i - 1 \in 1 .. n - 1 /\ (i - 1) + 1 = i
      BY <1>1, <2>2
    <3>2. t[i - 1] = l[i]
      BY <1>1, <3>1
    <3> QED BY <1>2, <3>1, <3>2
  <2> QED BY <2>1, <2>2
<1>5. ASSUME Ordered(l) PROVE Ordered(t) /\ Behind(ToSet(t), {Head(l)})
  <2>1. ASSUME NEW i \in 1 .. n - 1, NEW j \in 1 .. n - 1, i < j
        PROVE  Follows(t[j], t[i])
    <3>1. i + 1 < j + 1 /\ i + 1 \in 1 .. n /\ j + 1 \in 1 .. n /\ t[i] = l[i + 1] /\ t[j] = l[j + 1]
      BY <1>1, <2>1
    <3> QED BY <1>5, <3>1 DEF Ordered, n
  <2>2. ASSUME NEW i \in 1 .. n - 1 PROVE Follows(t[i], Head(l))
    <3>1. 1 < i + 1 /\ i + 1 \in 1 .. n /\ t[i] = l[i + 1]
      BY <1>1
    <3> QED BY <1>1, <1>5, <3>1 DEF Ordered, n
  <2>3. Ordered(t)
    BY <1>1, <2>1 DEF Ordered
  <2> QED BY <1>2, <2>2, <2>3 DEF Behind
<1> QED BY <1>1, <1>3, <1>4, <1>5 DEF t

-----------------------------------------------------------------------------
(* What happens on the way.                                                *)
LEMMA NoneCarried == Carried(<<>>) = {} /\ ToSet(<<>>) = {}
BY DEF Carried, ToSet

LEMMA OneCarried ==
    ASSUME NEW e PROVE Carried(<<e>>) = {e.msg}
BY DEF Carried

LEMMA Neutral ==
    ASSUME NEW m, ~IsDh(m), ~IsGen(m), m.type # "encrypted"
    PROVE  \A x : Follows(m, x) /\ Follows(x, m)
BY DEF Follows

(* The first event is handled.                                             *)
LEMMA EventHandled ==
    ASSUME NEW st, NEW ca, NEW is, NEW os, NEW ts, NEW h, NEW news, NEW keys,
           Way(st, ca, is, os, ts, h, news, keys), st # <<>>
    PROVE  /\ Way(Tail(st), ca, is, os, ts, h, news, keys)
           /\ Head(st) \in Events /\ Right(Head(st).msg, h, news, keys)
           /\ Behind(Traveling(Tail(st), ca, is, os, ts), {Head(st).msg})
           /\ KeptIsLast({Head(st).msg}, h)
<1>1. /\ Tail(st) \in Seq(Events) /\ Head(st) \in Events
      /\ Carried(st) = Carried(Tail(st)) \cup {Head(st).msg}
      /\ OrderedEvents(Tail(st)) /\ Behind(Carried(Tail(st)), {Head(st).msg})
  BY FirstEvent DEF Way, InLine
<1>2. InLine(Tail(st), ca, is, os, ts) /\ Behind(Traveling(Tail(st), ca, is, os, ts), {Head(st).msg})
  BY <1>1 DEF Way, InLine, Behind, Traveling
<1>3. /\ Traveling(st, ca, is, os, ts) = Traveling(Tail(st), ca, is, os, ts) \cup {Head(st).msg}
  BY <1>1 DEF Traveling
<1> QED BY <1>1, <1>2, <1>3 DEF Way, KeptIsLast

(* Something is posted that does not belong to a new nonce.                *)
LEMMA EventPosted ==
    ASSUME NEW st, NEW ca, NEW is, NEW os, NEW ts, NEW h, NEW news, NEW keys, NEW e \in Events,
           Way(st, ca, is, os, ts, h, news, keys),
           ~IsDh(e.msg), ~IsGen(e.msg), e.msg.type # "encrypted", e.msg.type = "pq" => e.msg.value > 0,
           e.what # "data"
    PROVE  Way(Append(st, e), ca, is, os, ts, h, news, keys)
<1>1. \A x : Follows(e.msg, x) /\ Follows(x, e.msg)
  BY Neutral
<1>2. Behind({e.msg}, Carried(st))
  BY <1>1 DEF Behind
<1>3. /\ Append(st, e) \in Seq(Events) /\ Carried(Append(st, e)) = Carried(st) \cup {e.msg}
      /\ OrderedEvents(Append(st, e))
  BY <1>2, EventsAppended DEF Way, InLine
<1>4. InLine(Append(st, e), ca, is, os, ts)
  BY <1>1, <1>3 DEF Way, InLine, Behind
<1>5. Traveling(Append(st, e), ca, is, os, ts) = Traveling(st, ca, is, os, ts) \cup {e.msg}
  BY <1>3 DEF Traveling
<1>6. Right(e.msg, h, news, keys)
  BY DEF Right, IsGen, Events
<1> QED BY <1>3, <1>4, <1>5, <1>6 DEF Way, KeptIsLast

(* A task is given to the network thread.                                  *)
LEMMA TaskGiven ==
    ASSUME NEW st, NEW ca, NEW is, NEW os, NEW ts, NEW h, NEW news, NEW keys, NEW t \in Tasks,
           Way(st, ca, is, os, ts, h, news, keys), Right(t.msg, h, news, keys),
           Behind({t.msg}, Traveling(st, ca, is, os, ts)), KeptIsLast({t.msg}, h)
    PROVE  Way(st, ca, is, os, Append(ts, t), h, news, keys)
<1>1. Behind({t.msg}, Carried(ts))
  BY DEF Behind, Traveling
<1>2. /\ Append(ts, t) \in Seq(Tasks) /\ Carried(Append(ts, t)) = Carried(ts) \cup {t.msg}
      /\ OrderedEvents(Append(ts, t))
  BY <1>1, EventsAppended DEF Way, InLine
<1>3. InLine(st, ca, is, os, Append(ts, t))
  BY <1>2 DEF Way, InLine, Behind, Traveling
<1>4. Traveling(st, ca, is, os, Append(ts, t)) = Traveling(st, ca, is, os, ts) \cup {t.msg}
  BY <1>2 DEF Traveling
<1> QED BY <1>2, <1>3, <1>4 DEF Way, KeptIsLast

(* One that does not belong to a new nonce.                                *)
LEMMA NeutralTaskGiven ==
    ASSUME NEW st, NEW ca, NEW is, NEW os, NEW ts, NEW h, NEW news, NEW keys, NEW t \in Tasks,
           Way(st, ca, is, os, ts, h, news, keys), t.msg.type \in {"none", "reqPQ"}
    PROVE  Way(st, ca, is, os, Append(ts, t), h, news, keys)
<1>1. ~IsDh(t.msg) /\ ~IsGen(t.msg) /\ t.msg.type \notin {"encrypted", "genOk", "pq", "resPQ"}
  BY DEF IsDh, IsGen
<1>2. \A x : Follows(t.msg, x)
  BY <1>1, Neutral
<1> QED BY <1>1, <1>2, TaskGiven DEF Behind, Right, KeptIsLast

(* The network thread takes a task,                                        *)
LEMMA TaskTaken ==
    ASSUME NEW st, NEW ca, NEW is, NEW os, NEW ts, NEW h, NEW news, NEW keys,
           Way(st, ca, is, os, ts, h, news, keys), ts # <<>>
    PROVE  /\ Way(st, ca, is, os, Tail(ts), h, news, keys) /\ Head(ts) \in Tasks
           /\ Head(ts).what = "send" => Way(st, ca, is, Append(os, Head(ts).msg), Tail(ts), h, news, keys)
<1> DEFINE m == Head(ts).msg
<1>1. /\ Tail(ts) \in Seq(Tasks) /\ Head(ts) \in Tasks
      /\ Carried(ts) = Carried(Tail(ts)) \cup {m}
      /\ OrderedEvents(Tail(ts)) /\ Behind(Carried(Tail(ts)), {m})
  BY FirstEvent DEF Way, InLine
<1> HIDE DEF m
<1>2. Way(st, ca, is, os, Tail(ts), h, news, keys)
  <2>1. InLine(st, ca, is, os, Tail(ts))
    BY <1>1 DEF Way, InLine, Behind
  <2>2. Traveling(st, ca, is, os, Tail(ts)) \subseteq Traveling(st, ca, is, os, ts)
    BY <1>1 DEF Traveling
  <2> QED BY <1>1, <2>1, <2>2 DEF Way, KeptIsLast
<1>3. ASSUME Head(ts).what = "send" PROVE Way(st, ca, is, Append(os, m), Tail(ts), h, news, keys)
  <2>1. m \in Questions
    BY <1>1, <1>3 DEF Tasks, Questions, m
  <2>2. Behind({m}, ToSet(os))
    BY <1>1 DEF Way, InLine, Behind
  <2>3. /\ Append(os, m) \in Seq(Questions) /\ ToSet(Append(os, m)) = ToSet(os) \cup {m}
        /\ Ordered(Append(os, m))
    BY <2>1, <2>2, MessageAppended DEF Way, InLine
  <2>4. InLine(st, ca, is, Append(os, m), Tail(ts))
    BY <1>1, <2>3 DEF Way, InLine, Behind
  <2>5. Traveling(st, ca, is, Append(os, m), Tail(ts)) = Traveling(st, ca, is, os, ts)
    BY <1>1, <2>3 DEF Traveling
  <2> QED BY <1>1, <2>3, <2>4, <2>5 DEF Way
<1> QED BY <1>1, <1>2, <1>3 DEF m

(* The connection goes down, or comes up: what it has to tell is posted    *)
(* next.                                                                   *)
LEMMA ConnectionTells ==
    ASSUME NEW st, NEW is, NEW os, NEW ts, NEW h, NEW news, NEW keys, NEW ca,
           Way(st, <<>>, is, os, ts, h, news, keys),
           ca = <<>> \/ \E e \in Events : ca = <<e>> /\ e.what \in {"connected", "closed"}
    PROVE  Way(st, ca, <<>>, <<>>, ts, h, news, keys) /\ Way(st, ca, is, os, ts, h, news, keys)
<1>1. \A m \in Carried(ca) : ~IsDh(m) /\ ~IsGen(m) /\ m.type \notin {"encrypted", "genOk", "pq", "resPQ"}
  BY NoneCarried, OneCarried DEF IsDh, IsGen, Events
<1>2. \A m \in Carried(ca) : \A x : Follows(m, x) /\ Follows(x, m)
  BY <1>1, Neutral
<1>3. AtMostOne(ca)
  BY DEF AtMostOne
<1>4. Ordered(<<>>) /\ <<>> \in Seq(Replies) /\ <<>> \in Seq(Questions)
  BY DEF Ordered
<1>5. InLine(st, ca, is, os, ts)
  BY <1>2 DEF Way, InLine, Behind
<1>6. InLine(st, ca, <<>>, <<>>, ts)
  BY <1>4, <1>5, NoneCarried DEF InLine, Behind
<1>7. \A m \in Carried(ca) : Right(m, h, news, keys)
  BY <1>1 DEF Right
<1>8. /\ Traveling(st, ca, is, os, ts) \subseteq Traveling(st, <<>>, is, os, ts) \cup Carried(ca)
      /\ Traveling(st, ca, <<>>, <<>>, ts) \subseteq Traveling(st, ca, is, os, ts)
  BY NoneCarried DEF Traveling
<1>9. KeptIsLast(Traveling(st, ca, is, os, ts), h)
  BY <1>1, <1>8 DEF Way, KeptIsLast
<1> QED BY <1>3, <1>4, <1>5, <1>6, <1>7, <1>8, <1>9 DEF Way, KeptIsLast

(* A message is read.                                                      *)
LEMMA MessageRead ==
    ASSUME NEW st, NEW is, NEW os, NEW ts, NEW h, NEW news, NEW keys,
           Way(st, <<>>, is, os, ts, h, news, keys), is # <<>>
    PROVE  /\ Head(is) \in Replies
           /\ Way(st, <<>>, Tail(is), os, ts, h, news, keys)
           /\ \A e \in Events : e.what = "data" /\ e.msg = Head(is) => Way(st, <<e>>, Tail(is), os, ts, h, news, keys)
<1>1. /\ Tail(is) \in Seq(Replies) /\ Head(is) \in Replies
      /\ ToSet(is) = ToSet(Tail(is)) \cup {Head(is)}
      /\ Ordered(Tail(is)) /\ Behind(ToSet(Tail(is)), {Head(is)})
  BY FirstMessage DEF Way, InLine
<1>2. Way(st, <<>>, Tail(is), os, ts, h, news, keys)
  <2>1. InLine(st, <<>>, Tail(is), os, ts)
    BY <1>1 DEF Way, InLine, Behind
  <2>2. Traveling(st, <<>>, Tail(is), os, ts) \subseteq Traveling(st, <<>>, is, os, ts)
    BY <1>1 DEF Traveling
  <2> QED BY <1>1, <2>1, <2>2 DEF Way, KeptIsLast
<1>3. ASSUME NEW e \in Events, e.what = "data", e.msg = Head(is)
      PROVE  Way(st, <<e>>, Tail(is), os, ts, h, news, keys)
  <2>1. Carried(<<e>>) = {Head(is)} /\ Carried(<<>>) = {}
    BY <1>3, NoneCarried, OneCarried
  <2>2. InLine(st, <<e>>, Tail(is), os, ts)
    BY <1>1, <2>1 DEF Way, InLine, Behind
  <2>3. Traveling(st, <<e>>, Tail(is), os, ts) = Traveling(st, <<>>, is, os, ts)
    BY <1>1, <2>1 DEF Traveling
  <2>4. AtMostOne(<<e>>)
    BY <1>3 DEF AtMostOne
  <2> QED BY <1>1, <2>2, <2>3, <2>4 DEF Way
<1> QED BY <1>1, <1>2, <1>3

LEMMA CaughtPosted ==
    ASSUME NEW st, NEW ca, NEW is, NEW os, NEW ts, NEW h, NEW news, NEW keys,
           Way(st, ca, is, os, ts, h, news, keys)
    PROVE  Way(st \o ca, <<>>, is, os, ts, h, news, keys)
<1>1. CASE ca = <<>>
  BY <1>1 DEF Way
<1>2. CASE ca # <<>>
  <2>1. PICK e \in Events : ca = <<e>>
    BY <1>2 DEF Way, AtMostOne
  <2>2. st \o ca = Append(st, e)
    BY <2>1 DEF Way
  <2>3. Carried(ca) = {e.msg} /\ Carried(<<>>) = {}
    BY <2>1, NoneCarried, OneCarried
  <2>4. /\ Append(st, e) \in Seq(Events) /\ Carried(Append(st, e)) = Carried(st) \cup {e.msg}
        /\ OrderedEvents(Append(st, e))
    BY <2>3, EventsAppended DEF Way, InLine
  <2>5. InLine(Append(st, e), <<>>, is, os, ts)
    BY <2>3, <2>4 DEF Way, InLine, Behind
  <2>6. Traveling(Append(st, e), <<>>, is, os, ts) = Traveling(st, ca, is, os, ts)
    BY <2>3, <2>4 DEF Traveling
  <2> QED BY <2>2, <2>4, <2>5, <2>6 DEF Way, AtMostOne
<1> QED BY <1>1, <1>2

(* The server takes a question, and puts an answer on the way.             *)
LEMMA QuestionTaken ==
    ASSUME NEW st, NEW ca, NEW is, NEW os, NEW ts, NEW h, NEW news, NEW keys,
           Way(st, ca, is, os, ts, h, news, keys), os # <<>>
    PROVE  /\ Head(os) \in Questions /\ Right(Head(os), h, news, keys)
           /\ Way(st, ca, is, Tail(os), ts, h, news, keys)
           /\ Behind({Head(os)}, Carried(st) \cup Carried(ca) \cup ToSet(is))
           /\ Behind(ToSet(Tail(os)) \cup Carried(ts), {Head(os)})
           /\ KeptIsLast({Head(os)}, h)
<1>1. /\ Tail(os) \in Seq(Questions) /\ Head(os) \in Questions
      /\ ToSet(os) = ToSet(Tail(os)) \cup {Head(os)}
      /\ Ordered(Tail(os)) /\ Behind(ToSet(Tail(os)), {Head(os)})
  BY FirstMessage DEF Way, InLine
<1>2. InLine(st, ca, is, Tail(os), ts)
  BY <1>1 DEF Way, InLine, Behind
<1>3. Traveling(st, ca, is, os, ts) = Traveling(st, ca, is, Tail(os), ts) \cup {Head(os)}
  BY <1>1 DEF Traveling
<1>4. /\ Behind({Head(os)}, Carried(st) \cup Carried(ca) \cup ToSet(is))
      /\ Behind(ToSet(Tail(os)) \cup Carried(ts), {Head(os)})
  BY <1>1 DEF Way, InLine, Behind
<1> QED BY <1>1, <1>2, <1>3, <1>4 DEF Way, KeptIsLast

LEMMA AnswerPut ==
    ASSUME NEW st, NEW ca, NEW is, NEW os, NEW ts, NEW h, NEW news, NEW keys, NEW a \in Replies,
           Way(st, ca, is, os, ts, h, news, keys), Right(a, h, news, keys), KeptIsLast({a}, h),
           Behind({a}, Carried(st) \cup Carried(ca) \cup ToSet(is)),
           Behind(ToSet(os) \cup Carried(ts), {a})
    PROVE  Way(st, ca, Append(is, a), os, ts, h, news, keys)
<1>1. Behind({a}, ToSet(is))
  BY DEF Behind
<1>2. /\ Append(is, a) \in Seq(Replies) /\ ToSet(Append(is, a)) = ToSet(is) \cup {a}
      /\ Ordered(Append(is, a))
  BY <1>1, MessageAppended DEF Way, InLine
<1>3. InLine(st, ca, Append(is, a), os, ts)
  BY <1>2 DEF Way, InLine, Behind
<1>4. Traveling(st, ca, Append(is, a), os, ts) = Traveling(st, ca, is, os, ts) \cup {a}
  BY <1>2 DEF Traveling
<1> QED BY <1>2, <1>3, <1>4 DEF Way, KeptIsLast

(* The action changes, or what was drawn and confirmed: what is on the way *)
(* stays right.                                                            *)
LEMMA StaysRight ==
    ASSUME NEW m, NEW h, NEW g, NEW news \in Nat, NEW more \in Nat, NEW keys, NEW all, m \in MessageSet,
           Right(m, h, news, keys), news <= more, keys \subseteq all,
           (g.new = h.new /\ g.nonce = h.nonce) \/ g.new = 0 \/ g.new = news + 1
    PROVE  Right(m, g, more, all)
<1>1. ASSUME IsDh(m) \/ IsGen(m)
      PROVE  m.new > 0 /\ m.new <= more /\ (m.new = g.new => m.nonce = g.nonce)
  <2>1. m.new \in Nat /\ m.new > 0 /\ m.new <= news /\ (m.new = h.new => m.nonce = h.nonce)
    BY <1>1 DEF Right, MessageSet
  <2> QED BY <2>1
<1> QED BY <1>1 DEF Right

LEMMA InMessageSet ==
    ASSUME NEW st, NEW ca, NEW is, NEW os, NEW ts, NEW h, NEW news, NEW keys,
           Way(st, ca, is, os, ts, h, news, keys)
    PROVE  \A m \in Traveling(st, ca, is, os, ts) : m \in MessageSet
<1>1. \A l : l \in Seq(Events) \/ l \in Seq(Tasks) => \A m \in Carried(l) : m \in MessageSet
  BY DEF Carried, Events, Tasks
<1>2. \A l : l \in Seq(Replies) \/ l \in Seq(Questions) => \A m \in ToSet(l) : m \in MessageSet
  BY DEF ToSet, Replies, Questions
<1>3. \A m \in Carried(ca) : m \in MessageSet
  BY NoneCarried, OneCarried DEF Way, AtMostOne, Events
<1> QED BY <1>1, <1>2, <1>3 DEF Traveling, Way

LEMMA WayStaysRight ==
    ASSUME NEW st, NEW ca, NEW is, NEW os, NEW ts, NEW h, NEW g, NEW news \in Nat, NEW more \in Nat,
           NEW keys, NEW all,
           Way(st, ca, is, os, ts, h, news, keys), news <= more, keys \subseteq all,
           (g.new = h.new /\ g.nonce = h.nonce) \/ g.new = 0 \/ g.new = news + 1,
           \A k \in g.kept : k.type = "reqDH" => k \in h.kept \/ k.new = news + 1
    PROVE  Way(st, ca, is, os, ts, g, more, all)
<1>1. \A m \in Traveling(st, ca, is, os, ts) : m \in MessageSet
  BY InMessageSet
<1>2. \A m \in Traveling(st, ca, is, os, ts) : Right(m, g, more, all)
  BY <1>1, StaysRight DEF Way
<1>3. \A m \in Traveling(st, ca, is, os, ts) : IsGen(m) => m.new \in Nat /\ m.new <= news
  BY <1>1 DEF Way, Right, MessageSet
<1>4. KeptIsLast(Traveling(st, ca, is, os, ts), g)
  <2> SUFFICES ASSUME NEW k \in g.kept, k.type = "reqDH", NEW m \in Traveling(st, ca, is, os, ts), IsGen(m)
               PROVE  m.new < k.new
    BY DEF KeptIsLast
  <2>1. CASE k \in h.kept
    BY <2>1 DEF Way, KeptIsLast
  <2>2. CASE k.new = news + 1
    BY <1>3, <2>2
  <2> QED BY <2>1, <2>2
<1> QED BY <1>2, <1>4 DEF Way

-----------------------------------------------------------------------------
(* What was read, and the end of the action, when events are handled and   *)
(* posted.                                                                 *)
LEMMA WasReadShorter ==
    ASSUME NEW st \in Seq(Events), st # <<>>, NEW ca, NEW rd, NEW db, WasRead(st, ca, rd, db)
    PROVE  WasRead(Tail(st), ca, rd, db)
<1>1. /\ Len(Tail(st)) = Len(st) - 1
      /\ \A i \in 1 .. Len(st) - 1 : Tail(st)[i] = st[i + 1] /\ i + 1 \in 1 .. Len(st)
  BY OneLess
<1> QED BY <1>1 DEF WasRead

LEMMA WasReadLonger ==
    ASSUME NEW st \in Seq(Events), NEW e \in Events, NEW ca, NEW rd, NEW db, WasRead(st, ca, rd, db),
           e.what = "data" => Addressed(e.msg) \in rd
    PROVE  WasRead(Append(st, e), ca, rd, db)
<1>1. /\ Len(Append(st, e)) = Len(st) + 1 /\ Append(st, e)[Len(st) + 1] = e
      /\ \A i \in 1 .. Len(st) : Append(st, e)[i] = st[i]
      /\ \A i \in 1 .. Len(st) + 1 : i \in 1 .. Len(st) \/ i = Len(st) + 1
  BY OneMore
<1> QED BY <1>1 DEF WasRead

Pending(st) == \E j \in 1 .. Len(st) : st[j].what = "completed"

LEMMA FirstIsHarmless ==
    ASSUME NEW st \in Seq(Events), NEW h, NEW keys, NEW db, Completing(st, h, keys, db), Pending(st)
    PROVE  /\ h.key \in keys \/ h.key = 0
           /\ ~db => h.key \in keys /\ h.processedPQRes
           /\ st # <<>> => Harmless(Head(st), h, db)
<1>1. PICK j \in 1 .. Len(st) : st[j].what = "completed"
  BY DEF Pending
<1>2. 1 \in 1 .. j /\ Head(st) = st[1]
  BY <1>1
<1> QED BY <1>1, <1>2 DEF Completing

LEMMA CompletingGoesOn ==
    ASSUME NEW st \in Seq(Events), st # <<>>, NEW h, NEW g, NEW keys, NEW db, Completing(st, h, keys, db),
           Pending(st) =>
              /\ g.key \in keys \/ g.key = 0
              /\ ~db => g.key \in keys /\ g.processedPQRes
              /\ \A i \in 1 .. Len(st) : Harmless(st[i], h, db) => Harmless(st[i], g, db)
    PROVE  Completing(Tail(st), g, keys, db)
<1>1. /\ Len(Tail(st)) = Len(st) - 1 /\ Len(st) \in Nat
      /\ \A i \in 1 .. Len(st) - 1 : Tail(st)[i] = st[i + 1] /\ i + 1 \in 1 .. Len(st)
  BY OneLess
<1> SUFFICES ASSUME NEW j \in 1 .. Len(st) - 1, st[j + 1].what = "completed"
             PROVE  /\ g.key \in keys \/ g.key = 0
                    /\ ~db => g.key \in keys /\ g.processedPQRes
                    /\ \A i \in 1 .. j : Harmless(Tail(st)[i], g, db)
  BY <1>1 DEF Completing
<1>2. Pending(st)
  BY <1>1 DEF Pending
<1>3. ASSUME NEW i \in 1 .. j PROVE Harmless(Tail(st)[i], g, db)
  <2>1. i + 1 \in 1 .. j + 1 /\ i \in 1 .. Len(st) - 1 /\ j + 1 \in 1 .. Len(st)
    BY <1>1
  <2>2. Tail(st)[i] = st[i + 1] /\ i + 1 \in 1 .. Len(st)
    BY <1>1, <2>1
  <2>3. Harmless(st[i + 1], h, db)
    BY <2>1 DEF Completing
  <2> QED BY <1>2, <2>2, <2>3
<1> QED BY <1>2, <1>3

LEMMA CompletingLonger ==
    ASSUME NEW st \in Seq(Events), NEW e \in Events, NEW h, NEW keys, NEW db,
           Completing(st, h, keys, db), e.what # "completed"
    PROVE  Completing(Append(st, e), h, keys, db)
<1>1. /\ Len(Append(st, e)) = Len(st) + 1 /\ Append(st, e)[Len(st) + 1] = e /\ Len(st) \in Nat
      /\ \A i \in 1 .. Len(st) : Append(st, e)[i] = st[i]
      /\ \A i \in 1 .. Len(st) + 1 : i \in 1 .. Len(st) \/ i = Len(st) + 1
  BY OneMore
<1> SUFFICES ASSUME NEW j \in 1 .. Len(st), st[j].what = "completed"
             PROVE  /\ h.key \in keys \/ h.key = 0
                    /\ ~db => h.key \in keys /\ h.processedPQRes
                    /\ \A i \in 1 .. j : Harmless(Append(st, e)[i], h, db)
  BY <1>1 DEF Completing
<1>2. \A i \in 1 .. j : i \in 1 .. Len(st)
  BY <1>1
<1> QED BY <1>1, <1>2 DEF Completing

(* The end of the action is posted: everything before it is harmless.      *)
LEMMA CompletingBegins ==
    ASSUME NEW st \in Seq(Events), NEW e \in Events, NEW h, NEW keys, NEW db,
           h.key \in keys, h.processedPQRes, e.what # "data",
           \A i \in 1 .. Len(st) : Harmless(st[i], h, db)
    PROVE  Completing(Append(st, e), h, keys, db)
<1>1. /\ Len(Append(st, e)) = Len(st) + 1 /\ Append(st, e)[Len(st) + 1] = e /\ Len(st) \in Nat
      /\ \A i \in 1 .. Len(st) : Append(st, e)[i] = st[i]
      /\ \A i \in 1 .. Len(st) + 1 : i \in 1 .. Len(st) \/ i = Len(st) + 1
  BY OneMore
<1>2. Harmless(e, h, db)
  BY DEF Harmless
<1>3. \A i \in 1 .. Len(st) + 1 : Harmless(Append(st, e)[i], h, db)
  BY <1>1, <1>2
<1>4. \A j \in 1 .. Len(st) + 1 : \A i \in 1 .. j : i \in 1 .. Len(st) + 1
  BY <1>1
<1> QED BY <1>1, <1>3, <1>4 DEF Completing

LEMMA CompletingStays ==
    ASSUME NEW st \in Seq(Events), NEW h, NEW keys, NEW all, NEW db, NEW now, Completing(st, h, keys, db),
           keys \subseteq all, ~now => ~db
    PROVE  Completing(st, h, all, now)
<1>1. \A e \in Events : Harmless(e, h, db) => Harmless(e, h, now)
  BY DEF Harmless
<1>2. \A i \in 1 .. Len(st) : st[i] \in Events
  OBVIOUS
<1> SUFFICES ASSUME NEW j \in 1 .. Len(st), st[j].what = "completed"
             PROVE  /\ h.key \in all \/ h.key = 0
                    /\ ~now => h.key \in all /\ h.processedPQRes
                    /\ \A i \in 1 .. j : Harmless(st[i], h, now)
  BY DEF Completing
<1>3. \A i \in 1 .. j : i \in 1 .. Len(st)
  OBVIOUS
<1> QED BY <1>1, <1>2, <1>3 DEF Completing

-----------------------------------------------------------------------------
(* The beginning.                                                          *)
LEMMA AppendedOneByOne ==
    ASSUME NEW S, NEW l \in Seq(S), NEW a \in S, NEW b \in S
    PROVE  l \o <<a>> = Append(l, a) /\ l \o <<a, b>> = Append(Append(l, a), b) /\ l \o <<>> = l
OBVIOUS

LEMMA MessagesMade ==
    /\ \A n \in Nat : Handshake!Message("reqPQ", n, 0, 0, 0) \in Questions
    /\ Handshake!NoMessage \in MessageSet /\ Handshake!NoMessage.type = "none"
    /\ \A m \in Questions : Handshake!Task("send", m) \in Tasks /\ Handshake!Task("send", m).msg = m
    /\ Handshake!Task("suspend", Handshake!NoMessage) \in Tasks
    /\ Handshake!Task("connect", Handshake!NoMessage) \in Tasks
<1>1. /\ \A n \in Nat : Handshake!Message("reqPQ", n, 0, 0, 0) \in Questions
      /\ Handshake!NoMessage \in MessageSet /\ Handshake!NoMessage.type = "none"
  BY DEF Handshake!Message, Handshake!NoMessage, Questions, MessageSet, Asking
<1>2. \A m \in Questions : m \in MessageSet /\ m.type \in Asking
  BY DEF Questions
<1> QED BY <1>1, <1>2 DEF Handshake!Task, Tasks

LEMMA EventsMade ==
    /\ \A w \in {"completed", "connected", "closed", "removed"} :
          Handshake!Event(w, Handshake!NoMessage) \in Events
    /\ \A m \in Replies : Handshake!Event("data", m) \in Events
    /\ \A w, m : Handshake!Event(w, m).what = w /\ Handshake!Event(w, m).msg = m
BY MessagesMade DEF Handshake!Event, Events, Replies

LEMMA NothingOnTheWay ==
    ASSUME NEW h, NEW news, NEW keys
    PROVE  Way(<<>>, <<>>, <<>>, <<>>, <<>>, h, news, keys)
<1>1. Ordered(<<>>) /\ OrderedEvents(<<>>)
  BY DEF Ordered, OrderedEvents
<1>2. InLine(<<>>, <<>>, <<>>, <<>>, <<>>)
  BY <1>1, NoneCarried DEF InLine, Behind
<1>3. Traveling(<<>>, <<>>, <<>>, <<>>, <<>>) = {}
  BY NoneCarried DEF Traveling
<1> QED BY <1>2, <1>3 DEF Way, AtMostOne, KeptIsLast

(* The tasks of an attempt: perhaps a new connection, and the first        *)
(* request.                                                                *)
LEMMA AttemptSent ==
    ASSUME NEW st, NEW ca, NEW is, NEW os, NEW ts, NEW h, NEW news, NEW keys, NEW n \in Nat,
           NEW drop \in BOOLEAN, Way(st, ca, is, os, ts, h, news, keys)
    PROVE  Way(st, ca, is, os,
               ts \o (IF drop THEN <<Handshake!Task("suspend", Handshake!NoMessage),
                                     Handshake!Task("connect", Handshake!NoMessage)>>
                      ELSE <<>>) \o Handshake!Send(Handshake!Message("reqPQ", n, 0, 0, 0)),
               h, news, keys)
<1> DEFINE suspend == Handshake!Task("suspend", Handshake!NoMessage)
           connect == Handshake!Task("connect", Handshake!NoMessage)
           m == Handshake!Message("reqPQ", n, 0, 0, 0)
           send == Handshake!Task("send", m)
           mid == ts \o (IF drop THEN <<suspend, connect>> ELSE <<>>)
<1>1. suspend \in Tasks /\ connect \in Tasks /\ send \in Tasks /\ m.type = "reqPQ" /\ send.msg = m
      /\ suspend.msg.type = "none" /\ connect.msg.type = "none"
  BY MessagesMade DEF Handshake!Task, Handshake!Message
<1>2. Handshake!Send(m) = <<send>>
  BY DEF Handshake!Send
<1> HIDE DEF suspend, connect, send, m
<1>3. Way(st, ca, is, os, mid, h, news, keys)
  <2>1. CASE drop
    <3>1. Way(st, ca, is, os, Append(ts, suspend), h, news, keys)
      BY <1>1, NeutralTaskGiven
    <3>2. Way(st, ca, is, os, Append(Append(ts, suspend), connect), h, news, keys)
      BY <1>1, <3>1, NeutralTaskGiven
    <3>3. mid = Append(Append(ts, suspend), connect)
      BY <1>1, <2>1, AppendedOneByOne DEF Way
    <3> QED BY <3>2, <3>3
  <2>2. CASE ~drop
    <3>1. mid = ts
      BY <2>2 DEF Way
    <3> QED BY <3>1
  <2> QED BY <2>1, <2>2
<1> HIDE DEF mid
<1>4. Way(st, ca, is, os, Append(mid, send), h, news, keys)
  BY <1>1, <1>3, NeutralTaskGiven
<1>5. mid \o <<send>> = Append(mid, send)
  BY <1>1, <1>3, AppendedOneByOne DEF Way
<1> QED BY <1>2, <1>4, <1>5 DEF mid, m, suspend, connect

(* An attempt begins with nothing but its nonce.                           *)
LEMMA AttemptIsFresh ==
    ASSUME NEW n \in Nat, NEW was \in BOOLEAN, NEW news, NEW keys
    PROVE  /\ Handshake!Attempt(n, was) \in Fields
           /\ Handshake!Attempt(n, was).new = 0 /\ Handshake!Attempt(n, was).key = 0
           /\ Handshake!Attempt(n, was).nonce = n
           /\ \A k \in Handshake!Attempt(n, was).kept : k.type = "reqPQ"
           /\ LastOnes(Handshake!Attempt(n, was), news, keys)
<1> DEFINE m == Handshake!Message("reqPQ", n, 0, 0, 0)
           h == [nonce |-> n, server |-> 0, new |-> 0, key |-> 0, processedPQRes |-> FALSE,
                 processed |-> {}, kept |-> {m}, wasDisconnect |-> was]
<1>1. m \in Questions /\ m.type = "reqPQ"
  BY MessagesMade DEF Handshake!Message
<1>2. Handshake!Attempt(n, was) = h
  BY DEF Handshake!Attempt
<1> HIDE DEF m
<1>3. h \in Fields
  BY <1>1 DEF Fields
<1>4. h.new = 0 /\ h.key = 0 /\ h.nonce = n /\ h.kept = {m}
  OBVIOUS
<1> HIDE DEF h
<1>5. Right(m, h, news, keys)
  BY <1>1 DEF Right, IsDh, IsGen
<1>6. LastOnes(h, news, keys)
  BY <1>1, <1>4, <1>5 DEF LastOnes
<1> QED BY <1>1, <1>2, <1>3, <1>4, <1>6

LEMMA HandshakeInitHolds == Handshake!Init => HandshakeInv
<1> SUFFICES ASSUME Handshake!Init PROVE HandshakeInv
  OBVIOUS
<1>1. /\ hs = Handshake!Attempt(1, FALSE) /\ threads = {} /\ stage = <<>> /\ caught = <<>>
      /\ out = <<>> /\ in = <<>> /\ agreed = {} /\ read = {} /\ ~doubled /\ doubled \in BOOLEAN
      /\ drawn = [server |-> 0, new |-> 0, key |-> 0, id |-> 0]
      /\ times = [attempts |-> 1, lost |-> 0, refusals |-> 0, encrypted |-> 0, repeats |-> 0]
      /\ ~dc.over /\ DOMAIN dc = {"key", "over", "acting"}
  BY DEF Handshake!Init
<1>2. hs \in Fields /\ LastOnes(hs, drawn.new, agreed) /\ hs.nonce = 1
  BY <1>1, AttemptIsFresh
<1>3. Way(stage, caught, in, out, tasks, hs, drawn.new, agreed)
  <2>1. tasks = <<Handshake!Task("suspend", Handshake!NoMessage), Handshake!Task("connect", Handshake!NoMessage)>>
                    \o Handshake!Send(Handshake!Message("reqPQ", 1, 0, 0, 0))
    BY <1>2 DEF Handshake!Init, Handshake!ReqPQ
  <2>2. Way(<<>>, <<>>, <<>>, <<>>, <<>> \o (IF TRUE THEN <<Handshake!Task("suspend", Handshake!NoMessage),
                                     Handshake!Task("connect", Handshake!NoMessage)>>
                      ELSE <<>>) \o Handshake!Send(Handshake!Message("reqPQ", 1, 0, 0, 0)), hs, drawn.new, agreed)
    BY NothingOnTheWay, AttemptSent
  <2>3. <<>> \o <<Handshake!Task("suspend", Handshake!NoMessage), Handshake!Task("connect", Handshake!NoMessage)>>
          = <<Handshake!Task("suspend", Handshake!NoMessage), Handshake!Task("connect", Handshake!NoMessage)>>
    OBVIOUS
  <2> QED BY <1>1, <2>1, <2>2, <2>3
<1>4. Counters
  BY <1>1 DEF Counters
<1>5. WasRead(stage, caught, read, doubled) /\ Completing(stage, hs, agreed, doubled)
  BY <1>1 DEF WasRead, Completing
<1> QED BY <1>1, <1>2, <1>3, <1>4, <1>5 DEF HandshakeInv, Handshake!KeyAgreed

-----------------------------------------------------------------------------
(* The network thread.                                                     *)
LEMMA NetworkGoesOn ==
    ASSUME HandshakeInv, UNCHANGED <<hs, threads, dc, stage, agreed, drawn, read, doubled>>,
           times'.attempts = times.attempts, DOMAIN times' = DOMAIN times,
           Way(stage, caught', in', out', tasks', hs, drawn.new, agreed),
           \A i \in 1 .. Len(caught') : caught'[i].what # "data"
    PROVE  HandshakeInv'
<1>1. /\ hs' = hs /\ dc' = dc /\ stage' = stage /\ agreed' = agreed /\ drawn' = drawn
      /\ read' = read /\ doubled' = doubled /\ threads' = threads
  OBVIOUS
<1>2. Way(stage', caught', in', out', tasks', hs', drawn'.new, agreed')
  BY <1>1
<1>3. hs' \in Fields /\ LastOnes(hs', drawn'.new, agreed') /\ doubled' \in BOOLEAN
  BY <1>1 DEF HandshakeInv
<1>4. Counters'
  BY <1>1 DEF HandshakeInv, Counters
<1>5. WasRead(stage', caught', read', doubled')
  BY <1>1 DEF HandshakeInv, WasRead
<1>6. Completing(stage', hs', agreed', doubled')
  BY <1>1 DEF HandshakeInv
<1>7. Handshake!KeyAgreed'
  BY <1>1 DEF HandshakeInv, Handshake!KeyAgreed
<1> QED BY <1>2, <1>3, <1>4, <1>5, <1>6, <1>7 DEF HandshakeInv

LEMMA ToldEvents ==
    ASSUME NEW w \in {"closed", "connected"}
    PROVE  LET l == Handshake!Told(w, Handshake!NoMessage)
           IN  /\ l = <<>> \/ \E e \in Events : l = <<e>> /\ e.what = w
               /\ \A i \in 1 .. Len(l) : l[i].what # "data"
<1> DEFINE e == Handshake!Event(w, Handshake!NoMessage)
<1>1. e \in Events /\ e.what = w /\ e.what # "data"
  BY EventsMade
<1> HIDE DEF e
<1>2. Handshake!Told(w, Handshake!NoMessage) = IF conn.delegate = "handshake" THEN <<e>> ELSE <<>>
  BY DEF Handshake!Told, e
<1> QED BY <1>1, <1>2

LEMMA RunTaskKeeps == HandshakeInv /\ Handshake!RunTask => HandshakeInv'
<1> SUFFICES ASSUME HandshakeInv, Handshake!RunTask PROVE HandshakeInv'
  OBVIOUS
<1>1. /\ UNCHANGED <<hs, threads, dc, stage, agreed, drawn, times, read, doubled>>
      /\ caught = <<>> /\ tasks # <<>>
  BY DEF Handshake!RunTask, Handshake!remote, Handshake!NetworkFree
<1>2. /\ Way(stage, caught, in, out, Tail(tasks), hs, drawn.new, agreed) /\ Head(tasks) \in Tasks
      /\ Head(tasks).what = "send" =>
            Way(stage, caught, in, Append(out, Head(tasks).msg), Tail(tasks), hs, drawn.new, agreed)
  BY <1>1, TaskTaken DEF HandshakeInv
<1>3. /\ Way(stage, caught', in', out', tasks', hs, drawn.new, agreed)
      /\ \A i \in 1 .. Len(caught') : caught'[i].what # "data"
  <2>1. CASE /\ tasks' = Tail(tasks)
             /\ caught' = IF Handshake!Up THEN Handshake!Told("closed", Handshake!NoMessage) ELSE <<>>
             /\ out' = <<>> /\ in' = <<>>
    <3>1. /\ caught' = <<>> \/ \E e \in Events : caught' = <<e>> /\ e.what \in {"connected", "closed"}
          /\ \A i \in 1 .. Len(caught') : caught'[i].what # "data"
      BY <2>1, ToldEvents
    <3> QED BY <1>1, <1>2, <2>1, <3>1, ConnectionTells
  <2>2. CASE tasks' = Tail(tasks) /\ UNCHANGED <<caught, out, in>>
    BY <1>1, <1>2, <2>2
  <2>3. CASE /\ Head(tasks).what = "send" /\ tasks' = Tail(tasks)
             /\ out' = Append(out, Head(tasks).msg) /\ UNCHANGED <<caught, in>>
    BY <1>1, <1>2, <2>3
  <2>4. CASE /\ tasks' = Append(Tail(tasks), Handshake!Task("connect", Handshake!NoMessage))
             /\ UNCHANGED <<caught, out, in>>
    <3>1. /\ Handshake!Task("connect", Handshake!NoMessage) \in Tasks
          /\ Handshake!Task("connect", Handshake!NoMessage).msg.type = "none"
      BY MessagesMade DEF Handshake!Task
    <3> QED BY <1>1, <1>2, <2>4, <3>1, NeutralTaskGiven
  <2> QED BY <2>1, <2>2, <2>3, <2>4 DEF Handshake!RunTask
<1> QED BY <1>1, <1>3, NetworkGoesOn

LEMMA ConnectedKeeps == HandshakeInv /\ Handshake!Connected => HandshakeInv'
<1> SUFFICES ASSUME HandshakeInv, Handshake!Connected PROVE HandshakeInv'
  OBVIOUS
<1>1. /\ UNCHANGED <<hs, threads, dc, stage, tasks, out, in, agreed, drawn, times, read, doubled>>
      /\ caught = <<>> /\ caught' = Handshake!Told("connected", Handshake!NoMessage)
  BY DEF Handshake!Connected, Handshake!remote, Handshake!NetworkFree
<1>2. /\ caught' = <<>> \/ \E e \in Events : caught' = <<e>> /\ e.what \in {"connected", "closed"}
      /\ \A i \in 1 .. Len(caught') : caught'[i].what # "data"
  BY <1>1, ToldEvents
<1>3. Way(stage, caught', in', out', tasks', hs, drawn.new, agreed)
  BY <1>1, <1>2, ConnectionTells DEF HandshakeInv
<1> QED BY <1>1, <1>2, <1>3, NetworkGoesOn

LEMMA LoseKeeps == HandshakeInv /\ Handshake!Lose => HandshakeInv'
<1> SUFFICES ASSUME HandshakeInv, Handshake!Lose PROVE HandshakeInv'
  OBVIOUS
<1>1. /\ UNCHANGED <<hs, threads, dc, stage, tasks, agreed, drawn, read, doubled>>
      /\ caught = <<>> /\ caught' = Handshake!Told("closed", Handshake!NoMessage)
      /\ out' = <<>> /\ in' = <<>> /\ times' = [times EXCEPT !.lost = @ + 1]
  BY DEF Handshake!Lose, Handshake!NetworkFree
<1>2. /\ caught' = <<>> \/ \E e \in Events : caught' = <<e>> /\ e.what \in {"connected", "closed"}
      /\ \A i \in 1 .. Len(caught') : caught'[i].what # "data"
  BY <1>1, ToldEvents
<1>3. Way(stage, caught', in', out', tasks', hs, drawn.new, agreed)
  BY <1>1, <1>2, ConnectionTells DEF HandshakeInv
<1>4. times'.attempts = times.attempts /\ DOMAIN times' = DOMAIN times
  BY <1>1 DEF HandshakeInv, Counters
<1> QED BY <1>1, <1>2, <1>3, <1>4, NetworkGoesOn

LEMMA HandshakeTimerKeeps == HandshakeInv /\ Handshake!Timer => HandshakeInv'
<1> SUFFICES ASSUME HandshakeInv, Handshake!Timer PROVE HandshakeInv'
  OBVIOUS
<1>1. /\ UNCHANGED <<hs, threads, dc, stage, caught, out, in, agreed, drawn, times, read, doubled>>
      /\ tasks' = Append(tasks, Handshake!Task("connect", Handshake!NoMessage))
  BY DEF Handshake!Timer, Handshake!remote
<1>2. /\ Handshake!Task("connect", Handshake!NoMessage) \in Tasks
      /\ Handshake!Task("connect", Handshake!NoMessage).msg.type = "none"
  BY MessagesMade DEF Handshake!Task
<1>3. Way(stage', caught', in', out', tasks', hs', drawn'.new, agreed')
  BY <1>1, <1>2, NeutralTaskGiven DEF HandshakeInv
<1>4. Counters' /\ Handshake!KeyAgreed'
  BY <1>1 DEF HandshakeInv, Counters, Handshake!KeyAgreed
<1> QED BY <1>1, <1>3, <1>4 DEF HandshakeInv

LEMMA ReadKeeps == HandshakeInv /\ Handshake!Read => HandshakeInv'
<1> SUFFICES ASSUME HandshakeInv, Handshake!Read PROVE HandshakeInv'
  OBVIOUS
<1> DEFINE m == Head(in)
           answer == [to |-> <<m.type \in {"dhOk", "dhFail"}, m.nonce, m.new>>, id |-> m.id]
           e == Handshake!Event("data", m)
<1>1. /\ UNCHANGED <<hs, threads, dc, stage, tasks, out, agreed, drawn, times>>
      /\ caught = <<>> /\ in # <<>> /\ in' = Tail(in) /\ caught' = Handshake!Told("data", m)
      /\ read' = read \cup {answer}
      /\ doubled' = (doubled \/ \E a \in read : a.to = answer.to /\ a.id # answer.id)
  BY DEF Handshake!Read, Handshake!remote, Handshake!NetworkFree
<1>2. /\ m \in Replies
      /\ Way(stage, <<>>, Tail(in), out, tasks, hs, drawn.new, agreed)
      /\ \A x \in Events : x.what = "data" /\ x.msg = m => Way(stage, <<x>>, Tail(in), out, tasks, hs, drawn.new, agreed)
  BY <1>1, MessageRead DEF HandshakeInv
<1>3. answer = Addressed(m)
  BY DEF Addressed
<1>4. e \in Events /\ e.what = "data" /\ e.msg = m
  BY <1>2, EventsMade
<1>5. caught' = IF conn.delegate = "handshake" THEN <<e>> ELSE <<>>
  BY <1>1 DEF Handshake!Told
<1> HIDE DEF answer, m, e
<1>6. Way(stage', caught', in', out', tasks', hs', drawn'.new, agreed')
  BY <1>1, <1>2, <1>4, <1>5
<1>7. WasRead(stage', caught', read', doubled')
  <2>1. \A i \in 1 .. Len(stage') : stage'[i].what = "data" => Addressed(stage'[i].msg) \in read'
    BY <1>1 DEF HandshakeInv, WasRead
  <2>2. \A i \in 1 .. Len(caught') : caught'[i].what = "data" => Addressed(caught'[i].msg) \in read'
    BY <1>1, <1>3, <1>4, <1>5
  <2>3. ASSUME ~doubled' PROVE \A a, b \in read' : a.to = b.to => a.id = b.id
    <3>1. /\ \A a, b \in read : a.to = b.to => a.id = b.id
          /\ \A a \in read : a.to = answer.to => a.id = answer.id
      BY <1>1, <2>3 DEF HandshakeInv, WasRead
    <3> QED BY <1>1, <3>1
  <2> QED BY <2>1, <2>2, <2>3 DEF WasRead
<1>8. Completing(stage', hs', agreed', doubled')
  <2>1. Completing(stage, hs, agreed, doubled')
    BY <1>1, CompletingStays DEF HandshakeInv, Way
  <2> QED BY <1>1, <2>1
<1>9. doubled' \in BOOLEAN /\ (doubled => doubled')
  BY <1>1 DEF HandshakeInv
<1>10. Counters' /\ Handshake!KeyAgreed'
  BY <1>1, <1>9 DEF HandshakeInv, Counters, Handshake!KeyAgreed
<1> QED BY <1>1, <1>6, <1>7, <1>8, <1>9, <1>10 DEF HandshakeInv

LEMMA PostedKeeps == HandshakeInv /\ Handshake!Post => HandshakeInv'
<1> SUFFICES ASSUME HandshakeInv, Handshake!Post PROVE HandshakeInv'
  OBVIOUS
<1>1. /\ UNCHANGED <<hs, threads, dc, tasks, out, in, agreed, drawn, times, read, doubled>>
      /\ stage' = stage \o caught /\ caught' = <<>> /\ caught # <<>>
  BY DEF Handshake!Post, Handshake!remote
<1>2. Way(stage', caught', in', out', tasks', hs', drawn'.new, agreed')
  BY <1>1, CaughtPosted DEF HandshakeInv
<1>3. PICK e \in Events : caught = <<e>> /\ e.what \in {"data", "connected", "closed"}
  BY <1>1 DEF HandshakeInv, Way, AtMostOne
<1>4. stage' = Append(stage, e) /\ stage \in Seq(Events)
  BY <1>1, <1>3 DEF HandshakeInv, Way
<1>5. caught[1] = e /\ Len(caught) = 1
  BY <1>3
<1>6. e.what = "data" => Addressed(e.msg) \in read
  BY <1>5 DEF HandshakeInv, WasRead
<1>7. WasRead(stage', caught', read', doubled')
  <2>1. WasRead(stage', caught, read, doubled)
    BY <1>4, <1>6, WasReadLonger DEF HandshakeInv
  <2> QED BY <1>1, <2>1 DEF WasRead
<1>8. Completing(stage', hs', agreed', doubled')
  <2>1. e.what # "completed"
    BY <1>3
  <2> QED BY <1>1, <1>4, <2>1, CompletingLonger DEF HandshakeInv
<1>9. Counters' /\ Handshake!KeyAgreed'
  BY <1>1 DEF HandshakeInv, Counters, Handshake!KeyAgreed
<1> QED BY <1>1, <1>2, <1>7, <1>8, <1>9 DEF HandshakeInv

-----------------------------------------------------------------------------
(* The server.                                                             *)
LEMMA AnswerIsRight ==
    ASSUME NEW m \in Questions, NEW h, NEW news, NEW keys, Right(m, h, news, keys),
           drawn.server \in Nat, NEW i \in Nat,
           NEW b \in Handshake!Answers(m) \cup Handshake!Refusals(m)
    PROVE  LET a == [b EXCEPT !.id = i]
           IN  /\ a \in Replies /\ a.type = b.type /\ a.value = b.value /\ a.new = m.new
               /\ a.type # "encrypted" /\ (IsGen(a) <=> IsGen(m)) /\ (IsDh(a) <=> IsDh(m))
               /\ Right(a, h, news, IF b.type = "genOk" THEN keys \cup {b.value} ELSE keys)
<1> DEFINE a == [b EXCEPT !.id = i]
<1>1. m \in MessageSet /\ m.type \in Asking
  BY DEF Questions
<1>2. /\ m = [type |-> m.type, id |-> m.id, nonce |-> m.nonce, server |-> m.server, new |-> m.new, value |-> m.value]
      /\ m.id \in Nat /\ m.nonce \in Nat /\ m.server \in Nat /\ m.new \in Nat /\ m.value \in Nat
  BY <1>1 DEF MessageSet
<1>3. CASE m.type = "reqPQ"
  <2>1. PICK v \in {m.value, 1} :
          b = [type |-> "resPQ", id |-> m.id, nonce |-> m.nonce, server |-> drawn.server + 1,
               new |-> m.new, value |-> v]
    <3>1. b \in {[m EXCEPT !.type = "resPQ", !.server = drawn.server + 1],
                 [m EXCEPT !.type = "resPQ", !.server = drawn.server + 1, !.value = 1]}
      BY <1>3 DEF Handshake!Answers, Handshake!Refusals
    <3> QED BY <1>2, <3>1
  <2>2. a = [type |-> "resPQ", id |-> i, nonce |-> m.nonce, server |-> drawn.server + 1,
             new |-> m.new, value |-> v]
    BY <2>1
  <2>3. a \in Replies
    BY <1>2, <2>2 DEF Replies, MessageSet, Answering
  <2> QED BY <1>3, <2>1, <2>2, <2>3 DEF IsGen, IsDh, Right
<1>4. CASE m.type = "reqDH"
  <2>1. PICK t \in {"dhOk", "dhFail"} :
          /\ b = [type |-> t, id |-> m.id, nonce |-> m.nonce, server |-> m.server,
                  new |-> m.new, value |-> m.value]
          /\ t = "dhOk" => m.server = m.value
    <3>1. b \in {[m EXCEPT !.type = IF m.value = m.server THEN "dhOk" ELSE "dhFail"],
                 [m EXCEPT !.type = "dhFail"]}
      BY <1>4 DEF Handshake!Answers, Handshake!Refusals
    <3> QED BY <1>2, <3>1
  <2>2. a = [type |-> t, id |-> i, nonce |-> m.nonce, server |-> m.server,
             new |-> m.new, value |-> m.value]
    BY <2>1
  <2>3. a \in Replies
    BY <1>2, <2>2 DEF Replies, MessageSet, Answering
  <2> QED BY <1>4, <2>1, <2>2, <2>3 DEF IsGen, IsDh, Right
<1>5. CASE m.type = "setClient"
  <2>1. PICK t \in {"genOk", "genRetry", "genFail"} :
          b = [type |-> t, id |-> m.id, nonce |-> m.nonce, server |-> m.server,
               new |-> m.new, value |-> m.value]
    <3>1. b \in {[m EXCEPT !.type = t] : t \in {"genOk", "genRetry", "genFail"}}
      BY <1>5 DEF Handshake!Answers, Handshake!Refusals
    <3> QED BY <1>2, <3>1
  <2>2. a = [type |-> t, id |-> i, nonce |-> m.nonce, server |-> m.server,
             new |-> m.new, value |-> m.value]
    BY <2>1
  <2>3. a \in Replies
    BY <1>2, <2>2 DEF Replies, MessageSet, Answering
  <2> QED BY <1>5, <2>1, <2>2, <2>3 DEF IsGen, IsDh, Right
<1> QED BY <1>1, <1>3, <1>4, <1>5 DEF Asking

LEMMA ServerAnswersKeeps == HandshakeInv /\ Handshake!ServerAnswers => HandshakeInv'
<1> SUFFICES ASSUME HandshakeInv, Handshake!ServerAnswers PROVE HandshakeInv'
  OBVIOUS
<1> DEFINE m == Head(out)
<1>1. /\ UNCHANGED <<hs, threads, dc, stage, tasks, caught, read, doubled>>
      /\ out # <<>> /\ out' = Tail(out)
      /\ times'.attempts = times.attempts /\ DOMAIN times' = DOMAIN times
  BY DEF Handshake!ServerAnswers, HandshakeInv, Counters
<1>2. PICK b \in Handshake!Answers(m) \cup Handshake!Refusals(m), copies \in {1, 2} :
          Handshake!Answered(b, m, copies)
  BY DEF Handshake!ServerAnswers
<1> DEFINE a == [b EXCEPT !.id = drawn.id + 1]
<1>3. /\ in' = in \o [k \in 1 .. copies |-> a]
      /\ drawn' = [drawn EXCEPT !.id = @ + 1, !.server = IF m.type = "reqPQ" THEN @ + 1 ELSE @]
      /\ agreed' = IF b.type = "genOk" THEN agreed \cup {b.value} ELSE agreed
  BY <1>2 DEF Handshake!Answered
<1>4. drawn.server \in Nat /\ drawn.new \in Nat /\ drawn.key \in Nat /\ drawn.id + 1 \in Nat
  BY DEF HandshakeInv, Counters
<1>5. /\ drawn'.new = drawn.new /\ drawn'.key = drawn.key /\ drawn'.server \in Nat /\ drawn'.id \in Nat
      /\ drawn' \in [server : Nat, new : Nat, key : Nat, id : Nat]
  <2> DEFINE v == IF m.type = "reqPQ" THEN drawn.server + 1 ELSE drawn.server
  <2>1. v \in Nat /\ drawn \in [server : Nat, new : Nat, key : Nat, id : Nat]
    BY <1>4 DEF HandshakeInv, Counters
  <2>2. drawn' = [drawn EXCEPT !.id = drawn.id + 1, !.server = v]
    BY <1>3
  <2> HIDE DEF v
  <2>3. drawn' = [server |-> v, new |-> drawn.new, key |-> drawn.key, id |-> drawn.id + 1]
    BY <2>1, <2>2
  <2> QED BY <1>4, <2>1, <2>3
<1>6. /\ m \in Questions /\ Right(m, hs, drawn.new, agreed)
      /\ Way(stage, caught, in, Tail(out), tasks, hs, drawn.new, agreed)
      /\ Behind({m}, Carried(stage) \cup Carried(caught) \cup ToSet(in))
      /\ Behind(ToSet(Tail(out)) \cup Carried(tasks), {m})
      /\ KeptIsLast({m}, hs)
  BY <1>1, QuestionTaken DEF HandshakeInv
<1>7. /\ a \in Replies /\ a.type = b.type /\ a.value = b.value /\ a.new = m.new
      /\ a.type # "encrypted" /\ (IsGen(a) <=> IsGen(m)) /\ (IsDh(a) <=> IsDh(m))
      /\ Right(a, hs, drawn.new, agreed')
  <2>1. LET x == [b EXCEPT !.id = drawn.id + 1]
        IN  /\ x \in Replies /\ x.type = b.type /\ x.value = b.value /\ x.new = m.new
            /\ x.type # "encrypted" /\ (IsGen(x) <=> IsGen(m)) /\ (IsDh(x) <=> IsDh(m))
            /\ Right(x, hs, drawn.new, IF b.type = "genOk" THEN agreed \cup {b.value} ELSE agreed)
    <3> HIDE DEF m
    <3> QED BY <1>4, <1>6, AnswerIsRight
  <2> QED BY <1>3, <2>1
<1> HIDE DEF a, m
<1>8. agreed \subseteq agreed'
  BY <1>3
<1>9. Way(stage, caught, in, Tail(out), tasks, hs, drawn.new, agreed')
  BY <1>4, <1>6, <1>8, WayStaysRight
<1>10. /\ Behind({a}, Carried(stage) \cup Carried(caught) \cup ToSet(in)) /\ Behind({a}, {a})
  <2>1. \A g : Follows(m, g) => Follows(a, g)
    BY <1>7 DEF Follows
  <2>2. Follows(a, a)
    <3>1. a.new \in Nat /\ (IsGen(a) => ~IsDh(a))
      BY <1>7 DEF IsGen, IsDh, Replies, MessageSet
    <3> QED BY <1>7, <3>1 DEF Follows
  <2> QED BY <1>6, <2>1, <2>2 DEF Behind
<1>11. Behind(ToSet(Tail(out)) \cup Carried(tasks), {a})
  <2>1. \A x \in ToSet(Tail(out)) \cup Carried(tasks) : x.type # "encrypted"
    <3>1. Tail(out) \in Seq(Questions) /\ tasks \in Seq(Tasks)
      BY <1>6 DEF Way
    <3>2. \A x \in ToSet(Tail(out)) : x.type # "encrypted"
      BY <3>1 DEF ToSet, Questions, Asking
    <3>3. \A x \in Carried(tasks) : x.type # "encrypted"
      <4> SUFFICES ASSUME NEW i \in 1 .. Len(tasks) PROVE tasks[i].msg.type # "encrypted"
        BY DEF Carried
      <4>1. tasks[i] \in Tasks
        BY <3>1
      <4>2. tasks[i].msg.type \in Asking \/ tasks[i].msg.type = "none"
        BY <4>1 DEF Tasks
      <4> QED BY <4>2 DEF Asking
    <3> QED BY <3>2, <3>3
  <2>2. \A x : Follows(x, m) /\ x.type # "encrypted" => Follows(x, a)
    BY <1>7 DEF Follows
  <2> QED BY <1>6, <2>1, <2>2 DEF Behind
<1>12. KeptIsLast({a}, hs)
  BY <1>6, <1>7 DEF KeptIsLast
<1>13. /\ Way(stage, caught, Append(in, a), Tail(out), tasks, hs, drawn.new, agreed')
       /\ ToSet(Append(in, a)) = ToSet(in) \cup {a}
  <2>1. a \in Replies /\ Right(a, hs, drawn.new, agreed')
    BY <1>7
  <2>2. Behind({a}, Carried(stage) \cup Carried(caught) \cup ToSet(in))
    BY <1>10
  <2>3. Way(stage, caught, Append(in, a), Tail(out), tasks, hs, drawn.new, agreed')
    BY <1>9, <1>11, <1>12, <2>1, <2>2, AnswerPut
  <2>4. in \in Seq(Replies)
    BY <1>6 DEF Way
  <2>5. ToSet(Append(in, a)) = ToSet(in) \cup {a}
    BY <2>1, <2>4, MessageAppended, ZenonT(90)
  <2> QED BY <2>3, <2>5
<1>14. Behind({a}, Carried(stage) \cup Carried(caught) \cup ToSet(Append(in, a)))
  BY <1>10, <1>13 DEF Behind
<1>15. Way(stage, caught, Append(Append(in, a), a), Tail(out), tasks, hs, drawn.new, agreed')
  BY <1>7, <1>11, <1>12, <1>13, <1>14, AnswerPut
<1>16. in' = Append(in, a) \/ in' = Append(Append(in, a), a)
  <2>0. in \in Seq(Replies)
    BY <1>6 DEF Way
  <2>1. CASE copies = 1
    <3>1. [k \in 1 .. copies |-> a] = <<a>>
      BY <2>1
    <3>2. in \o <<a>> = Append(in, a)
      BY <1>7, <2>0, AppendedOneByOne
    <3> QED BY <1>3, <3>1, <3>2
  <2>2. CASE copies = 2
    <3>1. [k \in 1 .. copies |-> a] = <<a, a>>
      BY <2>2
    <3>2. in \o <<a, a>> = Append(Append(in, a), a)
      BY <1>7, <2>0, AppendedOneByOne
    <3> QED BY <1>3, <3>1, <3>2
  <2> QED BY <2>1, <2>2
<1>17. Way(stage', caught', in', out', tasks', hs', drawn'.new, agreed')
  BY <1>1, <1>5, <1>13, <1>15, <1>16
<1>18. LastOnes(hs', drawn'.new, agreed')
  <2>1. \A k \in hs.kept : Right(k, hs, drawn.new, agreed) => Right(k, hs, drawn.new, agreed')
    BY <1>8 DEF Right
  <2> QED BY <1>1, <1>5, <2>1 DEF HandshakeInv, LastOnes
<1>19. Completing(stage', hs', agreed', doubled')
  <2>1. Completing(stage, hs, agreed', doubled)
    BY <1>8, CompletingStays DEF HandshakeInv, Way
  <2> QED BY <1>1, <2>1
<1>20. WasRead(stage', caught', read', doubled') /\ hs' \in Fields /\ doubled' \in BOOLEAN
  BY <1>1 DEF HandshakeInv
<1>21. Counters' /\ Handshake!KeyAgreed'
  BY <1>1, <1>4, <1>5, <1>8 DEF HandshakeInv, Counters, Handshake!KeyAgreed
<1> QED BY <1>17, <1>18, <1>19, <1>20, <1>21 DEF HandshakeInv

LEMMA ServerSendsEncryptedKeeps == HandshakeInv /\ Handshake!ServerSendsEncrypted => HandshakeInv'
<1> SUFFICES ASSUME HandshakeInv, Handshake!ServerSendsEncrypted PROVE HandshakeInv'
  OBVIOUS
<1> DEFINE a == [Handshake!NoMessage EXCEPT !.type = "encrypted"]
<1>1. /\ UNCHANGED <<hs, threads, dc, stage, tasks, caught, out, agreed, drawn, read, doubled>>
      /\ agreed = {} /\ in' = Append(in, a)
      /\ times'.attempts = times.attempts /\ DOMAIN times' = DOMAIN times
  BY DEF Handshake!ServerSendsEncrypted, HandshakeInv, Counters
<1>2. a \in Replies /\ a.type = "encrypted" /\ ~IsDh(a) /\ ~IsGen(a)
  BY DEF Handshake!NoMessage, Handshake!Message, Replies, MessageSet, Answering, IsDh, IsGen
<1> HIDE DEF a
<1>3. /\ Right(a, hs, drawn.new, agreed) /\ KeptIsLast({a}, hs)
  BY <1>2 DEF Right, KeptIsLast
<1>4. Behind({a}, Carried(stage) \cup Carried(caught) \cup ToSet(in))
  <2>1. \A g \in Traveling(stage, caught, in, out, tasks) : g.type # "genOk"
    BY <1>1 DEF HandshakeInv, Way, Right
  <2> QED BY <1>2, <2>1 DEF Behind, Follows, Traveling
<1>5. Behind(ToSet(out) \cup Carried(tasks), {a})
  BY <1>2 DEF Behind, Follows
<1>6. Way(stage, caught', in', out', tasks', hs, drawn.new, agreed)
  BY <1>1, <1>2, <1>3, <1>4, <1>5, AnswerPut DEF HandshakeInv
<1>7. Way(stage', caught', in', out', tasks', hs', drawn'.new, agreed')
  BY <1>1, <1>6
<1>8. /\ hs' \in Fields /\ LastOnes(hs', drawn'.new, agreed') /\ doubled' \in BOOLEAN
      /\ WasRead(stage', caught', read', doubled') /\ Completing(stage', hs', agreed', doubled')
  BY <1>1 DEF HandshakeInv
<1>9. Counters' /\ Handshake!KeyAgreed'
  BY <1>1 DEF HandshakeInv, Counters, Handshake!KeyAgreed
<1> QED BY <1>7, <1>8, <1>9 DEF HandshakeInv

-----------------------------------------------------------------------------
(* The action.  An event is handled.                                       *)
LEMMA HandledGoesOn ==
    ASSUME HandshakeInv, stage # <<>>, stage' = Tail(stage), UNCHANGED <<caught, agreed, read, doubled>>,
           dc'.over = dc.over, dc'.key = dc.key,
           Way(Tail(stage), caught, in', out', tasks', hs', drawn'.new, agreed),
           hs' \in Fields, LastOnes(hs', drawn'.new, agreed), Counters',
           Pending(stage) =>
              /\ hs'.key \in agreed \/ hs'.key = 0
              /\ ~doubled => hs'.key \in agreed /\ hs'.processedPQRes
              /\ \A i \in 1 .. Len(stage) : Harmless(stage[i], hs, doubled) => Harmless(stage[i], hs', doubled)
    PROVE  HandshakeInv'
<1>1. /\ agreed' = agreed /\ doubled' = doubled /\ caught' = caught /\ read' = read
      /\ stage \in Seq(Events)
  BY DEF HandshakeInv, Way
<1>2. Way(stage', caught', in', out', tasks', hs', drawn'.new, agreed')
  BY <1>1
<1>3. WasRead(stage', caught', read', doubled')
  <2>1. WasRead(Tail(stage), caught, read, doubled)
    BY <1>1, WasReadShorter DEF HandshakeInv
  <2> QED BY <1>1, <2>1
<1>4. Completing(stage', hs', agreed', doubled')
  <2>1. Completing(Tail(stage), hs', agreed, doubled)
    BY <1>1, CompletingGoesOn DEF HandshakeInv
  <2> QED BY <1>1, <2>1
<1>5. Handshake!KeyAgreed' /\ doubled' \in BOOLEAN
  BY <1>1 DEF HandshakeInv, Handshake!KeyAgreed
<1> QED BY <1>1, <1>2, <1>3, <1>4, <1>5 DEF HandshakeInv

LEMMA EventPosed ==
    ASSUME HandshakeInv, NEW i \in 1 .. Len(stage)
    PROVE  /\ stage[i] \in Events /\ stage[i].msg \in MessageSet
           /\ Right(stage[i].msg, hs, drawn.new, agreed)
<1>1. stage \in Seq(Events)
  BY DEF HandshakeInv, Way
<1>2. stage[i] \in Events
  BY <1>1
<1>3. stage[i].msg \in MessageSet
  BY <1>2 DEF Events
<1>4. Right(stage[i].msg, hs, drawn.new, agreed)
  BY DEF HandshakeInv, Way, Traveling, Carried
<1> QED BY <1>2, <1>3, <1>4

(* Something does not fit: the action begins anew.                         *)
LEMMA BeginsAnew ==
    ASSUME HandshakeInv, stage # <<>>, stage' = Tail(stage),
           UNCHANGED <<dc, caught, out, in, agreed, read, doubled>>,
           NEW drop \in BOOLEAN, Handshake!BeginHandshake(drop), Pending(stage) => doubled
    PROVE  HandshakeInv'
<1> DEFINE n == times.attempts + 1
           g == Handshake!Attempt(n, hs.wasDisconnect)
<1>1. /\ hs' = g /\ threads' = threads /\ drawn' = drawn /\ times' = [times EXCEPT !.attempts = @ + 1]
  BY DEF Handshake!BeginHandshake
<1>2. n \in Nat /\ hs.wasDisconnect \in BOOLEAN /\ drawn.new \in Nat
  BY DEF HandshakeInv, Counters, Fields
<1> HIDE DEF n
<1>3. /\ g \in Fields /\ g.new = 0 /\ g.key = 0 /\ g.nonce = n
      /\ \A k \in g.kept : k.type = "reqPQ"
      /\ LastOnes(g, drawn.new, agreed)
  BY <1>2, AttemptIsFresh
<1> HIDE DEF g
<1>4. tasks' = tasks \o (IF drop THEN <<Handshake!Task("suspend", Handshake!NoMessage),
                                        Handshake!Task("connect", Handshake!NoMessage)>>
                         ELSE <<>>) \o Handshake!Send(Handshake!Message("reqPQ", n, 0, 0, 0))
  BY <1>1, <1>3 DEF Handshake!BeginHandshake, Handshake!ReqPQ
<1>5. Way(Tail(stage), caught, in, out, tasks, hs, drawn.new, agreed)
  BY EventHandled DEF HandshakeInv
<1>6. Way(Tail(stage), caught, in, out, tasks, g, drawn.new, agreed)
  BY <1>2, <1>3, <1>5, WayStaysRight
<1>7. Way(Tail(stage), caught, in, out, tasks', g, drawn.new, agreed)
  BY <1>2, <1>4, <1>6, AttemptSent
<1>8. Counters'
  BY <1>1, <1>2 DEF HandshakeInv, Counters, n
<1>9. ASSUME Pending(stage), NEW i \in 1 .. Len(stage) PROVE Harmless(stage[i], g, doubled)
  <2>1. stage[i].msg.new \in Nat /\ Right(stage[i].msg, hs, drawn.new, agreed)
    BY EventPosed DEF MessageSet
  <2> QED BY <1>3, <1>9, <2>1 DEF Harmless, Right
<1> QED BY <1>1, <1>3, <1>7, <1>8, <1>9, HandledGoesOn

(* Nothing is to be done.                                                  *)
LEMMA PassedOver ==
    ASSUME HandshakeInv, stage # <<>>, stage' = Tail(stage),
           UNCHANGED <<hs, threads, caught, out, in, tasks, times, drawn, agreed, read, doubled>>,
           dc'.over = dc.over, dc'.key = dc.key, DOMAIN dc' = DOMAIN dc
    PROVE  HandshakeInv'
<1>1. Way(Tail(stage), caught, in, out, tasks, hs, drawn.new, agreed)
  BY EventHandled DEF HandshakeInv
<1>2. Pending(stage) =>
         /\ hs.key \in agreed \/ hs.key = 0
         /\ ~doubled => hs.key \in agreed /\ hs.processedPQRes
  BY FirstIsHarmless DEF HandshakeInv, Way
<1>3. hs \in Fields /\ LastOnes(hs, drawn.new, agreed)
  BY DEF HandshakeInv
<1>4. Counters'
  BY DEF HandshakeInv, Counters
<1> QED BY <1>1, <1>2, <1>3, <1>4, HandledGoesOn

(* The fields with one more message processed.                             *)
LEMMA ProcessedMore ==
    ASSUME hs \in Fields, NEW m \in MessageSet
    PROVE  LET h == [hs EXCEPT !.processed = @ \cup {m.id}]
           IN  /\ h \in Fields /\ m.id \in h.processed /\ hs.processed \subseteq h.processed
               /\ h.nonce = hs.nonce /\ h.server = hs.server /\ h.new = hs.new /\ h.key = hs.key
               /\ h.processedPQRes = hs.processedPQRes /\ h.kept = hs.kept
               /\ h.wasDisconnect = hs.wasDisconnect
<1> DEFINE p == hs.processed \cup {m.id}
           h == [hs EXCEPT !.processed = p]
<1>1. p \in SUBSET Nat /\ m.id \in p /\ hs.processed \subseteq p
  BY DEF Fields, MessageSet
<1> HIDE DEF p
<1>2. h \in Fields
  BY <1>1 DEF Fields
<1>3. h.processed = p
  BY DEF Fields
<1>4. /\ h.nonce = hs.nonce /\ h.server = hs.server /\ h.new = hs.new /\ h.key = hs.key
      /\ h.processedPQRes = hs.processedPQRes /\ h.kept = hs.kept /\ h.wasDisconnect = hs.wasDisconnect
  BY DEF Fields
<1> QED BY <1>1, <1>2, <1>3, <1>4 DEF p

LEMMA HandlesResPQ ==
    ASSUME HandshakeInv, stage # <<>>, stage' = Tail(stage),
           UNCHANGED <<dc, caught, out, in, agreed, read, doubled>>,
           NEW m, m = Head(stage).msg, m.type = "resPQ",
           Handshake!OnResPQ([hs EXCEPT !.processed = @ \cup {m.id}], m)
    PROVE  HandshakeInv'
<1> DEFINE h == [hs EXCEPT !.processed = @ \cup {m.id}]
<1>1. m \in MessageSet /\ Right(m, hs, drawn.new, agreed) /\ hs \in Fields
      /\ Way(Tail(stage), caught, in, out, tasks, hs, drawn.new, agreed)
  BY EventHandled DEF HandshakeInv, Events
<1>2. /\ h \in Fields /\ hs.processed \subseteq h.processed
      /\ h.nonce = hs.nonce /\ h.server = hs.server /\ h.new = hs.new /\ h.key = hs.key
      /\ h.processedPQRes = hs.processedPQRes /\ h.kept = hs.kept
  BY <1>1, ProcessedMore
<1>3. Handshake!OnResPQ(h, m)
  OBVIOUS
<1> HIDE DEF h
<1>4. Pending(stage) => /\ hs.key \in agreed \/ hs.key = 0
                        /\ ~doubled => hs.key \in agreed /\ hs.processedPQRes
  BY FirstIsHarmless DEF HandshakeInv, Way
<1>5. drawn.new \in Nat
  BY DEF HandshakeInv, Counters
<1>6. ASSUME NEW g \in Fields, g.new = hs.new, g.nonce = hs.nonce, g.kept = hs.kept, g.key = hs.key,
             hs.processed \subseteq g.processed, hs.processedPQRes => g.processedPQRes,
             hs' = g, UNCHANGED <<tasks, times, drawn>>,
             \A pq \in threads' : pq \in Nat /\ pq > 0
      PROVE  HandshakeInv'
  <2>1. Way(Tail(stage), caught, in, out, tasks, g, drawn.new, agreed)
    BY <1>1, <1>5, <1>6, WayStaysRight
  <2>2. LastOnes(g, drawn.new, agreed)
    BY <1>6 DEF HandshakeInv, LastOnes, Right
  <2>3. Counters'
    BY <1>6 DEF HandshakeInv, Counters
  <2>4. \A i \in 1 .. Len(stage) : Harmless(stage[i], hs, doubled) => Harmless(stage[i], g, doubled)
    BY <1>6 DEF Harmless
  <2> QED BY <1>4, <1>6, <2>1, <2>2, <2>3, <2>4, HandledGoesOn
<1>7. CASE h.processedPQRes
  <2>1. hs' = h /\ UNCHANGED <<threads, tasks, times, drawn>>
    BY <1>3, <1>7 DEF Handshake!OnResPQ
  <2>2. \A pq \in threads' : pq \in Nat /\ pq > 0
    BY <2>1 DEF HandshakeInv, Counters
  <2> QED BY <1>2, <1>6, <2>1, <2>2
<1>8. CASE ~h.processedPQRes /\ (m.nonce # h.nonce \/ m.value # 0)
  <2>1. Handshake!BeginHandshake(FALSE)
    BY <1>3, <1>8 DEF Handshake!OnResPQ
  <2>2. doubled \in BOOLEAN
    BY DEF HandshakeInv
  <2> QED BY <1>2, <1>4, <1>8, <2>1, <2>2, BeginsAnew
<1>9. CASE ~h.processedPQRes /\ ~(m.nonce # h.nonce \/ m.value # 0)
  <2> DEFINE g == [h EXCEPT !.processedPQRes = TRUE, !.server = m.server]
  <2>1. hs' = g /\ threads' = threads \cup {m.server} /\ UNCHANGED <<tasks, times, drawn>>
    BY <1>3, <1>9 DEF Handshake!OnResPQ
  <2>2. m.server \in Nat /\ m.server > 0
    BY <1>1 DEF MessageSet, Right
  <2>3. /\ g.new = h.new /\ g.nonce = h.nonce /\ g.kept = h.kept /\ g.key = h.key
        /\ g.processed = h.processed /\ g.processedPQRes = TRUE
    BY <1>2 DEF Fields
  <2>4. g \in Fields
    BY <1>2, <2>2 DEF Fields
  <2>5. \A pq \in threads' : pq \in Nat /\ pq > 0
    BY <2>1, <2>2 DEF HandshakeInv, Counters
  <2> HIDE DEF g
  <2> QED BY <1>2, <1>6, <2>1, <2>3, <2>4, <2>5
<1> QED BY <1>7, <1>8, <1>9

LEMMA HandlesDhOk ==
    ASSUME HandshakeInv, stage # <<>>, stage' = Tail(stage),
           UNCHANGED <<dc, caught, out, in, agreed, read, doubled>>,
           NEW m, m = Head(stage).msg, m.type = "dhOk", Head(stage).what = "data",
           m.id \notin hs.processed, hs.new # 0,
           Handshake!OnDhOk([hs EXCEPT !.processed = @ \cup {m.id}], m)
    PROVE  HandshakeInv'
<1> DEFINE h == [hs EXCEPT !.processed = @ \cup {m.id}]
           k == drawn.key + 1
<1>1. m \in MessageSet /\ Right(m, hs, drawn.new, agreed) /\ hs \in Fields
      /\ Way(Tail(stage), caught, in, out, tasks, hs, drawn.new, agreed)
  BY EventHandled DEF HandshakeInv, Events
<1>2. /\ h \in Fields /\ hs.processed \subseteq h.processed
      /\ h.nonce = hs.nonce /\ h.server = hs.server /\ h.new = hs.new /\ h.key = hs.key
      /\ h.processedPQRes = hs.processedPQRes /\ h.kept = hs.kept
  BY <1>1, ProcessedMore
<1>3. Handshake!OnDhOk(h, m)
  OBVIOUS
<1> HIDE DEF h
<1>4. Pending(stage) => Harmless(Head(stage), hs, doubled)
  BY FirstIsHarmless DEF HandshakeInv, Way
<1>5. /\ drawn.new \in Nat /\ k \in Nat /\ k > 0
      /\ drawn \in [server : Nat, new : Nat, key : Nat, id : Nat]
  BY DEF HandshakeInv, Counters
<1>6. CASE <<m.nonce, m.server, m.new>> # <<h.nonce, h.server, h.new>>
  <2>1. Handshake!BeginHandshake(FALSE)
    BY <1>3, <1>6 DEF Handshake!OnDhOk
  <2>2. Pending(stage) => doubled
    BY <1>4 DEF Harmless, IsDh, HandshakeInv
  <2> QED BY <2>1, <2>2, BeginsAnew
<1>7. CASE <<m.nonce, m.server, m.new>> = <<h.nonce, h.server, h.new>>
  <2> DEFINE request == Handshake!Message("setClient", h.nonce, h.server, h.new, k)
             kept == {x \in {y \in h.kept : y.type # "reqDH"} : x.type # "setClient"} \cup {request}
             g == [h EXCEPT !.key = k, !.kept = kept]
  <2>1. /\ request \in Questions /\ request.type = "setClient" /\ request.nonce = hs.nonce
        /\ request.new = hs.new /\ request.value = k
    BY <1>2, <1>5 DEF Handshake!Message, Questions, MessageSet, Asking, Fields
  <2>2. hs' = g
    <3>1. /\ request.type = "setClient"
          /\ Handshake!Keep(Handshake!Free(h.kept, "reqDH"), request) = kept
      BY <2>1 DEF Handshake!Keep, Handshake!Free
    <3>2. hs' = [h EXCEPT !.key = k, !.kept = Handshake!Keep(Handshake!Free(@, "reqDH"), request)]
      BY <1>3, <1>7 DEF Handshake!OnDhOk
    <3> QED BY <3>1, <3>2
  <2>3. /\ drawn' = [drawn EXCEPT !.key = k] /\ tasks' = tasks \o Handshake!Send(request)
        /\ threads' = threads /\ times' = times
    BY <1>3, <1>7 DEF Handshake!OnDhOk
  <2>4. h.processedPQRes = TRUE
    <3>1. m.server = h.server /\ m.server = m.value /\ m.value > 0 /\ m.value \in Nat
      BY <1>1, <1>7 DEF Right, IsDh, MessageSet
    <3> QED BY <1>2, <3>1 DEF Fields
  <2>5. hs.new = drawn.new /\ hs.new > 0
    <3>1. hs.new \in Nat /\ hs.new \in {0, drawn.new}
      BY <1>1 DEF HandshakeInv, LastOnes, Fields
    <3> QED BY <3>1
  <2>6. kept \in SUBSET Questions
    BY <1>2, <2>1 DEF Fields
  <2> HIDE DEF request, kept, k
  <2>7. /\ g.new = hs.new /\ g.nonce = hs.nonce /\ g.kept = kept /\ g.key = k
    BY <1>2 DEF Fields
  <2>8. g \in Fields
    BY <1>2, <1>5, <2>4, <2>6 DEF Fields
  <2> HIDE DEF g
  <2>9. \A x \in kept : x.type # "reqDH" /\ (x.type = "setClient" => x = request) /\ x \in Questions
    BY <1>2, <2>1, <2>6 DEF kept
  <2>10. Right(request, g, drawn.new, agreed)
    BY <1>5, <2>1, <2>5, <2>7 DEF Right, IsDh, IsGen
  <2>11. drawn'.new = drawn.new /\ drawn' \in [server : Nat, new : Nat, key : Nat, id : Nat]
    BY <1>5, <2>3
  <2>12. LastOnes(g, drawn.new, agreed)
    <3> SUFFICES ASSUME NEW x \in kept
                 PROVE  /\ Right(x, g, drawn.new, agreed)
                        /\ x.type = "reqDH" => x.new = drawn.new
                        /\ x.type = "setClient" => x.new = drawn.new
      BY <2>5, <2>7 DEF LastOnes
    <3>1. CASE x = request
      BY <2>1, <2>5, <2>10, <3>1
    <3>2. CASE x # request
      <4>1. x.type = "reqPQ"
        BY <2>9, <3>2 DEF Questions, Asking
      <4> QED BY <4>1 DEF Right, IsDh, IsGen
    <3> QED BY <3>1, <3>2
  <2>13. Way(Tail(stage), caught, in, out, tasks, g, drawn.new, agreed)
    BY <1>1, <1>5, <2>7, <2>9, WayStaysRight
  <2>14. Way(Tail(stage), caught, in, out, tasks', g, drawn.new, agreed)
    <3> DEFINE t == Handshake!Task("send", request)
    <3>1. t \in Tasks /\ t.msg = request
      BY <2>1, MessagesMade
    <3>2. Behind({t.msg}, Traveling(Tail(stage), caught, in, out, tasks))
      <4> SUFFICES ASSUME NEW x \in Traveling(Tail(stage), caught, in, out, tasks), IsGen(x)
                   PROVE  request.new >= x.new /\ ~IsDh(request) /\ request.type # "encrypted"
        BY <3>1 DEF Behind, Follows
      <4>1. x.new <= drawn.new
        BY <2>13 DEF Way, Right
      <4> QED BY <2>1, <2>5, <4>1 DEF IsDh
    <3>3. KeptIsLast({t.msg}, g)
      BY <2>7, <2>9 DEF KeptIsLast
    <3>4. tasks' = Append(tasks, t)
      BY <1>1, <2>3, <3>1, AppendedOneByOne DEF Handshake!Send, Way
    <3> HIDE DEF t
    <3> QED BY <2>10, <2>13, <3>1, <3>2, <3>3, <3>4, TaskGiven
  <2>15. ~Pending(stage)
    BY <1>2, <1>4, <1>7 DEF Harmless, IsDh
  <2>16. Counters'
    BY <2>3, <2>11 DEF HandshakeInv, Counters
  <2> QED BY <2>2, <2>8, <2>11, <2>12, <2>14, <2>15, <2>16, HandledGoesOn
<1> QED BY <1>6, <1>7

(* Behind the confirmation comes no other, and nothing of an exchange, and *)
(* a second answer only when one was read twice.                           *)
LEMMA NothingBehindGenOk ==
    ASSUME HandshakeInv, stage # <<>>, NEW m, m = Head(stage).msg, m.type = "genOk",
           Head(stage).what = "data", m.nonce = hs.nonce, m.new = hs.new,
           NEW g, g.new = hs.new, m.id \in g.processed, NEW i \in 1 .. Len(Tail(stage))
    PROVE  Harmless(Tail(stage)[i], g, doubled)
<1> DEFINE e == Tail(stage)[i]
           x == e.msg
<1>1. /\ Tail(stage) \in Seq(Events) /\ m \in MessageSet /\ Right(m, hs, drawn.new, agreed)
      /\ Way(Tail(stage), caught, in, out, tasks, hs, drawn.new, agreed)
      /\ Behind(Traveling(Tail(stage), caught, in, out, tasks), {m})
  BY EventHandled DEF HandshakeInv, Events, Way
<1>2. e \in Events /\ x \in MessageSet
  BY <1>1 DEF Events
<1>3. x \in Traveling(Tail(stage), caught, in, out, tasks)
  BY DEF Traveling, Carried
<1>4. WasRead(Tail(stage), caught, read, doubled) /\ Addressed(m) \in read
  <2>1. stage \in Seq(Events) /\ WasRead(stage, caught, read, doubled)
    BY DEF HandshakeInv, Way
  <2>2. 1 \in 1 .. Len(stage) /\ Head(stage) = stage[1]
    BY <2>1
  <2>3. Addressed(m) \in read
    BY <2>1, <2>2 DEF WasRead
  <2> QED BY <2>1, <2>3, WasReadShorter
<1>5. e.what = "data" => Addressed(x) \in read
  BY <1>4 DEF WasRead
<1> HIDE DEF x
<1>6. Right(x, hs, drawn.new, agreed) /\ Follows(x, m)
  BY <1>1, <1>3 DEF Way, Behind
<1>7. /\ hs.new = drawn.new /\ x.new \in Nat /\ drawn.new \in Nat /\ m.new = drawn.new
  <2>1. m.new > 0 /\ hs.new \in {0, drawn.new}
    BY <1>1 DEF Right, IsGen, HandshakeInv, LastOnes
  <2> QED BY <1>2, <2>1 DEF MessageSet, HandshakeInv, Counters
<1>8. ~IsDh(x)
  BY <1>6, <1>7 DEF Follows, IsGen, Right
<1>9. x.type # "encrypted"
  BY <1>6 DEF Follows, IsGen
<1>10. ASSUME IsGen(x), e.what = "data", ~doubled PROVE x.id = m.id
  <2>1. x.new = m.new /\ x.nonce = m.nonce
    BY <1>6, <1>7, <1>10 DEF Follows, IsGen, Right
  <2>2. Addressed(x).to = Addressed(m).to /\ Addressed(x).id = x.id /\ Addressed(m).id = m.id
    BY <2>1, <1>10 DEF Addressed, IsGen
  <2>3. \A a, b \in read : a.to = b.to => a.id = b.id
    BY <1>4, <1>10 DEF WasRead
  <2> QED BY <1>4, <1>5, <1>10, <2>2, <2>3
<1> QED BY <1>8, <1>9, <1>10 DEF Harmless, x

LEMMA HandlesConfirmation ==
    ASSUME HandshakeInv, stage # <<>>,
           UNCHANGED <<dc, caught, out, in, agreed, read, doubled>>,
           NEW m, m = Head(stage).msg, Head(stage).what = "data",
           Handshake!Confirms([hs EXCEPT !.processed = @ \cup {m.id}], m),
           Handshake!OnGenOk([hs EXCEPT !.processed = @ \cup {m.id}]),
           stage' = Append(Tail(stage), Handshake!Event("completed", Handshake!NoMessage))
    PROVE  HandshakeInv'
<1> DEFINE h == [hs EXCEPT !.processed = @ \cup {m.id}]
           e == Handshake!Event("completed", Handshake!NoMessage)
           kept == {x \in {y \in h.kept : y.type # "setClient"} : x.type # "reqDH"}
           g == [h EXCEPT !.kept = kept]
<1>1. m \in MessageSet /\ Right(m, hs, drawn.new, agreed) /\ hs \in Fields
      /\ Way(Tail(stage), caught, in, out, tasks, hs, drawn.new, agreed)
  BY EventHandled DEF HandshakeInv, Events
<1>2. /\ h \in Fields /\ m.id \in h.processed /\ hs.processed \subseteq h.processed
      /\ h.nonce = hs.nonce /\ h.server = hs.server /\ h.new = hs.new /\ h.key = hs.key
      /\ h.processedPQRes = hs.processedPQRes /\ h.kept = hs.kept
  BY <1>1, ProcessedMore
<1>3. Handshake!Confirms(h, m) /\ Handshake!OnGenOk(h)
  OBVIOUS
<1> HIDE DEF h
<1>4. m.type = "genOk" /\ m.nonce = hs.nonce /\ m.new = hs.new /\ m.value = hs.key
  BY <1>2, <1>3 DEF Handshake!Confirms
<1>5. hs' = g /\ UNCHANGED <<threads, tasks, times, drawn>>
  BY <1>3 DEF Handshake!OnGenOk, Handshake!Free
<1>6. kept \in SUBSET Questions /\ \A x \in kept : x.type = "reqPQ"
  BY <1>2 DEF Fields, Questions, Asking
<1> HIDE DEF kept
<1>7. /\ g.new = hs.new /\ g.nonce = hs.nonce /\ g.kept = kept /\ g.key = hs.key
      /\ g.processed = h.processed /\ g.processedPQRes = hs.processedPQRes
  BY <1>2 DEF Fields
<1>8. g \in Fields
  BY <1>2, <1>6 DEF Fields
<1> HIDE DEF g
<1>9. drawn.new \in Nat
  BY DEF HandshakeInv, Counters
<1>10. g.key \in agreed /\ g.processedPQRes = TRUE
  <2>1. hs.key \in agreed /\ m.value > 0 /\ m.value \in Nat
    BY <1>1, <1>4 DEF Right, IsGen, MessageSet
  <2> QED BY <1>1, <1>4, <1>7, <2>1 DEF Fields
<1>11. e \in Events /\ e.what = "completed" /\ e.msg.type = "none"
  BY EventsMade, MessagesMade
<1> HIDE DEF e
<1>12. Way(Tail(stage), caught, in, out, tasks, g, drawn.new, agreed)
  BY <1>1, <1>6, <1>7, <1>9, WayStaysRight
<1>13. Way(stage', caught', in', out', tasks', hs', drawn'.new, agreed')
  <2>1. Way(Append(Tail(stage), e), caught, in, out, tasks, g, drawn.new, agreed)
    BY <1>11, <1>12, EventPosted DEF IsDh, IsGen
  <2> QED BY <1>5, <2>1 DEF e
<1>14. LastOnes(hs', drawn'.new, agreed')
  <2>1. \A x \in kept : Right(x, g, drawn.new, agreed)
    BY <1>6 DEF Right, IsDh, IsGen
  <2>2. LastOnes(g, drawn.new, agreed)
    BY <1>6, <1>7, <2>1 DEF LastOnes, HandshakeInv
  <2> QED BY <1>5, <2>2
<1>15. Tail(stage) \in Seq(Events) /\ WasRead(Tail(stage), caught, read, doubled)
  <2>1. stage \in Seq(Events) /\ WasRead(stage, caught, read, doubled)
    BY DEF HandshakeInv, Way
  <2> QED BY <2>1, WasReadShorter
<1>16. WasRead(stage', caught', read', doubled')
  <2>1. WasRead(Append(Tail(stage), e), caught, read, doubled)
    BY <1>11, <1>15, WasReadLonger
  <2> QED BY <2>1 DEF e
<1>17. Completing(stage', hs', agreed', doubled')
  <2>1. \A i \in 1 .. Len(Tail(stage)) : Harmless(Tail(stage)[i], g, doubled)
    BY <1>2, <1>4, <1>7, NothingBehindGenOk
  <2>2. Completing(Append(Tail(stage), e), g, agreed, doubled)
    BY <1>10, <1>11, <1>15, <2>1, CompletingBegins
  <2> QED BY <1>5, <2>2 DEF e
<1>18. Counters' /\ Handshake!KeyAgreed' /\ doubled' \in BOOLEAN /\ hs' \in Fields
  BY <1>5, <1>8 DEF HandshakeInv, Counters, Handshake!KeyAgreed
<1> QED BY <1>13, <1>14, <1>16, <1>17, <1>18 DEF HandshakeInv

LEMMA ReceivedDataKeeps == HandshakeInv /\ Handshake!ReceivedData => HandshakeInv'
<1> SUFFICES ASSUME HandshakeInv, Handshake!ReceivedData PROVE HandshakeInv'
  OBVIOUS
<1> DEFINE m == Head(stage).msg
           h == [hs EXCEPT !.processed = @ \cup {m.id}]
<1>1. /\ UNCHANGED <<dc, caught, out, in, agreed, read, doubled>>
      /\ stage # <<>> /\ Head(stage).what = "data"
  BY DEF Handshake!ReceivedData, Handshake!Stage
<1>2. Pending(stage) => Harmless(Head(stage), hs, doubled)
  BY <1>1, FirstIsHarmless DEF HandshakeInv, Way
<1>3. hs \in Fields /\ m \in MessageSet /\ doubled \in BOOLEAN
  BY <1>1, EventHandled DEF HandshakeInv, Events
<1>4. /\ h.new = hs.new
  BY <1>3 DEF Fields
<1>5. ASSUME NEW drop \in BOOLEAN, Handshake!BeginHandshake(drop), stage' = Tail(stage),
             m.type = "encrypted" \/ ((IsDh(m) \/ IsGen(m)) /\ m.id \notin hs.processed)
      PROVE  HandshakeInv'
  <2>1. Pending(stage) => doubled
    BY <1>1, <1>2, <1>3, <1>5 DEF Harmless
  <2> HIDE DEF m, h
  <2> QED BY <1>1, <1>5, <2>1, BeginsAnew
<1>6. CASE m.type = "encrypted" /\ Handshake!BeginHandshake(TRUE) /\ stage' = Tail(stage)
  BY <1>5, <1>6
<1>7. CASE stage' = Tail(stage) /\ UNCHANGED <<hs, threads, conn, tasks, times, drawn>>
  BY <1>1, <1>7, PassedOver
<1>8. CASE m.type = "resPQ" /\ Handshake!OnResPQ(h, m) /\ stage' = Tail(stage)
  BY <1>1, <1>8, HandlesResPQ
<1>9. CASE /\ m.type = "dhOk" /\ m.id \notin hs.processed /\ h.new # 0
           /\ Handshake!OnDhOk(h, m) /\ stage' = Tail(stage)
  BY <1>1, <1>4, <1>9, HandlesDhOk
<1>10. CASE /\ m.type = "dhFail" /\ m.id \notin hs.processed /\ Handshake!BeginHandshake(FALSE)
            /\ stage' = Tail(stage)
  BY <1>5, <1>10 DEF IsDh
<1>11. CASE /\ m.type \in {"genOk", "genRetry", "genFail"} /\ m.id \notin hs.processed
            /\ Handshake!BeginHandshake(FALSE) /\ stage' = Tail(stage)
  BY <1>5, <1>11 DEF IsGen
<1>12. CASE /\ Handshake!Confirms(h, m) /\ Handshake!OnGenOk(h)
            /\ stage' = Append(Tail(stage), Handshake!Event("completed", Handshake!NoMessage))
  BY <1>1, <1>12, HandlesConfirmation
<1> HIDE DEF m, h
<1> QED
  BY <1>6, <1>7, <1>8, <1>9, <1>10, <1>11, <1>12 DEF Handshake!ReceivedData, Handshake!Repeated, m, h

LEMMA FactorizedKeeps == HandshakeInv /\ Handshake!Factorized => HandshakeInv'
<1> SUFFICES ASSUME HandshakeInv, Handshake!Factorized PROVE HandshakeInv'
  OBVIOUS
<1>1. PICK pq \in threads :
        /\ threads' = threads \ {pq}
        /\ stage' = Append(stage, Handshake!Event("factorized", Handshake!Message("pq", 0, 0, 0, pq)))
        /\ UNCHANGED <<hs, dc, tasks, caught, out, in, read, doubled, agreed, drawn, times>>
  BY DEF Handshake!Factorized, Handshake!network, Handshake!remote
<1> DEFINE e == Handshake!Event("factorized", Handshake!Message("pq", 0, 0, 0, pq))
<1>2. pq \in Nat /\ pq > 0
  BY DEF HandshakeInv, Counters
<1>3. e \in Events /\ e.what = "factorized" /\ e.msg.type = "pq" /\ e.msg.value = pq
  BY <1>2 DEF Handshake!Event, Handshake!Message, Events, MessageSet
<1>4. stage' = Append(stage, e) /\ stage \in Seq(Events)
  BY <1>1 DEF HandshakeInv, Way
<1> HIDE DEF e
<1>5. Way(stage', caught', in', out', tasks', hs', drawn'.new, agreed')
  <2>1. Way(Append(stage, e), caught, in, out, tasks, hs, drawn.new, agreed)
    BY <1>2, <1>3, EventPosted DEF HandshakeInv, IsDh, IsGen
  <2> QED BY <1>1, <1>4, <2>1
<1>6. WasRead(stage', caught', read', doubled')
  <2>1. WasRead(Append(stage, e), caught, read, doubled)
    BY <1>3, <1>4, WasReadLonger DEF HandshakeInv
  <2> QED BY <1>1, <1>4, <2>1
<1>7. Completing(stage', hs', agreed', doubled')
  <2>1. Completing(Append(stage, e), hs, agreed, doubled)
    BY <1>3, <1>4, CompletingLonger DEF HandshakeInv
  <2> QED BY <1>1, <1>4, <2>1
<1>8. Counters' /\ Handshake!KeyAgreed'
  BY <1>1 DEF HandshakeInv, Counters, Handshake!KeyAgreed
<1>9. hs' \in Fields /\ LastOnes(hs', drawn'.new, agreed') /\ doubled' \in BOOLEAN
  BY <1>1 DEF HandshakeInv
<1> QED BY <1>5, <1>6, <1>7, <1>8, <1>9 DEF HandshakeInv

LEMMA SendReqDHKeeps == HandshakeInv /\ Handshake!SendReqDH => HandshakeInv'
<1> SUFFICES ASSUME HandshakeInv, Handshake!SendReqDH PROVE HandshakeInv'
  OBVIOUS
<1> DEFINE n == drawn.new + 1
           request == Handshake!Message("reqDH", hs.nonce, hs.server, n, Head(stage).msg.value)
           kept == {x \in {y \in hs.kept : y.type # "reqPQ"} : x.type # "reqDH"} \cup {request}
           g == [hs EXCEPT !.new = n, !.kept = kept]
<1>1. /\ UNCHANGED <<threads, dc, caught, out, in, agreed, times, read, doubled>>
      /\ stage # <<>> /\ stage' = Tail(stage) /\ Head(stage).what = "factorized"
      /\ drawn' = [drawn EXCEPT !.new = @ + 1]
  BY DEF Handshake!SendReqDH, Handshake!Stage
<1>2. /\ drawn \in [server : Nat, new : Nat, key : Nat, id : Nat] /\ drawn.new \in Nat
      /\ n \in Nat /\ n > drawn.new /\ n > 0
  BY DEF HandshakeInv, Counters
<1>3. drawn'.new = n /\ drawn' \in [server : Nat, new : Nat, key : Nat, id : Nat]
  BY <1>1, <1>2
<1>4. /\ Head(stage) \in Events /\ Right(Head(stage).msg, hs, drawn.new, agreed) /\ hs \in Fields
      /\ Way(Tail(stage), caught, in, out, tasks, hs, drawn.new, agreed)
  BY <1>1, EventHandled DEF HandshakeInv
<1>5. Head(stage).msg.value \in Nat /\ Head(stage).msg.value > 0
  BY <1>1, <1>4 DEF Events, Right, MessageSet
<1>6. /\ request \in Questions /\ request.type = "reqDH" /\ request.nonce = hs.nonce
      /\ request.new = n /\ request.value > 0
  BY <1>2, <1>4, <1>5 DEF Handshake!Message, Questions, MessageSet, Asking, Fields
<1>7. hs' = g /\ tasks' = tasks \o Handshake!Send(request)
  <2>1. /\ hs' = [hs EXCEPT !.new = drawn'.new, !.kept = Handshake!Keep(Handshake!Free(@, "reqPQ"), request)]
        /\ tasks' = tasks \o Handshake!Send(request)
    BY <1>3 DEF Handshake!SendReqDH
  <2>2. Handshake!Keep(Handshake!Free(hs.kept, "reqPQ"), request) = kept
    BY <1>6 DEF Handshake!Keep, Handshake!Free
  <2> QED BY <1>3, <2>1, <2>2
<1>8. kept \in SUBSET Questions /\ request \in kept
  BY <1>4, <1>6 DEF Fields
<1>9. \A x \in kept : x = request \/ (x \in hs.kept /\ x.type = "setClient")
  BY <1>4 DEF Fields, Questions, Asking
<1> HIDE DEF kept, request, n
<1>10. /\ g.new = n /\ g.nonce = hs.nonce /\ g.kept = kept /\ g.key = hs.key
       /\ g.processed = hs.processed /\ g.processedPQRes = hs.processedPQRes
  BY <1>4 DEF Fields
<1>11. g \in Fields
  BY <1>2, <1>4, <1>8 DEF Fields
<1> HIDE DEF g
<1>12. Right(request, g, n, agreed)
  BY <1>2, <1>6, <1>10 DEF Right, IsDh, IsGen
<1>13. g.new = drawn.new + 1 /\ drawn.new <= n
  BY <1>2, <1>10 DEF n
<1>14. LastOnes(g, n, agreed)
  <2> SUFFICES ASSUME NEW x \in kept
               PROVE  /\ Right(x, g, n, agreed)
                      /\ x.type = "reqDH" => x.new = n
    BY <1>6, <1>8, <1>10 DEF LastOnes
  <2>1. CASE x = request
    BY <1>6, <1>12, <2>1
  <2>2. CASE x \in hs.kept /\ x.type = "setClient"
    <3>1. Right(x, hs, drawn.new, agreed) /\ x \in MessageSet
      BY <2>2, <1>8 DEF HandshakeInv, LastOnes, Questions
    <3>2. Right(x, g, n, agreed)
      BY <1>2, <1>13, <3>1, StaysRight
    <3> QED BY <2>2, <3>2
  <2> QED BY <1>9, <2>1, <2>2
<1>15. Way(Tail(stage), caught, in, out, tasks, g, n, agreed)
  <2>1. \A x \in g.kept : x.type = "reqDH" => x \in hs.kept \/ x.new = drawn.new + 1
    BY <1>6, <1>9, <1>10 DEF n
  <2> QED BY <1>2, <1>4, <1>13, <2>1, WayStaysRight
<1>16. Way(Tail(stage), caught, in, out, tasks', g, n, agreed)
  <2> DEFINE t == Handshake!Task("send", request)
  <2>1. t \in Tasks /\ t.msg = request
    BY <1>6, MessagesMade
  <2>2. Behind({t.msg}, Traveling(Tail(stage), caught, in, out, tasks))
    <3> SUFFICES ASSUME NEW x \in Traveling(Tail(stage), caught, in, out, tasks), IsGen(x)
                 PROVE  request.new > x.new /\ ~IsGen(request) /\ request.type # "encrypted"
      BY <2>1 DEF Behind, Follows
    <3>1. x.new <= drawn.new /\ x.new < n
      <4>1. x.new <= drawn.new
        BY <1>4 DEF Way, Right
      <4>2. x \in MessageSet
        BY <1>4, InMessageSet
      <4> QED BY <1>2, <4>1, <4>2 DEF MessageSet
    <3> QED BY <1>6, <3>1 DEF IsGen
  <2>3. KeptIsLast({t.msg}, g)
    BY <1>6, <2>1 DEF KeptIsLast, IsGen
  <2>4. tasks' = Append(tasks, t)
    BY <1>4, <1>7, <2>1, AppendedOneByOne DEF Handshake!Send, Way
  <2>5. Right(t.msg, g, n, agreed)
    BY <1>12, <2>1
  <2> HIDE DEF t
  <2> QED BY <1>15, <2>1, <2>2, <2>3, <2>4, <2>5, TaskGiven
<1>17. Pending(stage) => /\ hs.key \in agreed \/ hs.key = 0
                         /\ ~doubled => hs.key \in agreed /\ hs.processedPQRes
  BY FirstIsHarmless DEF HandshakeInv, Way
<1>18. ASSUME NEW i \in 1 .. Len(stage), Harmless(stage[i], hs, doubled)
       PROVE  Harmless(stage[i], g, doubled)
  <2>1. IsDh(stage[i].msg) => stage[i].msg.new \in Nat /\ stage[i].msg.new <= drawn.new
    BY EventPosed DEF MessageSet, Right
  <2>2. IsDh(stage[i].msg) => stage[i].msg.new # g.new
    BY <1>2, <1>10, <2>1
  <2> QED BY <1>10, <1>18, <2>2 DEF Harmless
<1>19. Counters'
  BY <1>1, <1>3 DEF HandshakeInv, Counters
<1> QED BY <1>1, <1>3, <1>7, <1>10, <1>11, <1>14, <1>16, <1>17, <1>18, <1>19, HandledGoesOn

LEMMA TcpConnectionClosedKeeps == HandshakeInv /\ Handshake!TcpConnectionClosed => HandshakeInv'
<1> SUFFICES ASSUME HandshakeInv, Handshake!TcpConnectionClosed PROVE HandshakeInv'
  OBVIOUS
<1> DEFINE g == [hs EXCEPT !.wasDisconnect = TRUE]
<1>1. /\ UNCHANGED <<threads, dc, tasks, caught, out, in, agreed, drawn, times, read, doubled>>
      /\ stage # <<>> /\ stage' = Tail(stage) /\ hs' = g
  BY DEF Handshake!TcpConnectionClosed, Handshake!Stage, Handshake!remote
<1>2. /\ hs \in Fields /\ Way(Tail(stage), caught, in, out, tasks, hs, drawn.new, agreed)
      /\ drawn.new \in Nat
  BY <1>1, EventHandled DEF HandshakeInv, Counters
<1>3. /\ g.new = hs.new /\ g.nonce = hs.nonce /\ g.kept = hs.kept /\ g.key = hs.key
      /\ g.processed = hs.processed /\ g.processedPQRes = hs.processedPQRes
  BY <1>2 DEF Fields
<1>4. g \in Fields
  BY <1>2 DEF Fields
<1> HIDE DEF g
<1>5. Way(Tail(stage), caught, in, out, tasks, g, drawn.new, agreed)
  BY <1>2, <1>3, WayStaysRight
<1>6. LastOnes(g, drawn.new, agreed)
  BY <1>3 DEF HandshakeInv, LastOnes, Right
<1>7. Counters'
  BY <1>1 DEF HandshakeInv, Counters
<1>8. Pending(stage) => /\ hs.key \in agreed \/ hs.key = 0
                        /\ ~doubled => hs.key \in agreed /\ hs.processedPQRes
  BY FirstIsHarmless DEF HandshakeInv, Way
<1>9. \A i \in 1 .. Len(stage) : Harmless(stage[i], hs, doubled) => Harmless(stage[i], g, doubled)
  BY <1>3 DEF Harmless
<1> QED BY <1>1, <1>3, <1>4, <1>5, <1>6, <1>7, <1>8, <1>9, HandledGoesOn

(* A request that is kept may be sent again: nothing on the way belongs to *)
(* a later one.                                                            *)
LEMMA TcpConnectionConnectedKeeps == HandshakeInv /\ Handshake!TcpConnectionConnected => HandshakeInv'
<1> SUFFICES ASSUME HandshakeInv, Handshake!TcpConnectionConnected PROVE HandshakeInv'
  OBVIOUS
<1>1. /\ UNCHANGED <<hs, threads, dc, caught, out, in, agreed, drawn, times, read, doubled>>
      /\ stage # <<>> /\ stage' = Tail(stage)
  BY DEF Handshake!TcpConnectionConnected, Handshake!Stage, Handshake!remote
<1>2. /\ hs \in Fields /\ Way(Tail(stage), caught, in, out, tasks, hs, drawn.new, agreed)
      /\ drawn.new \in Nat /\ LastOnes(hs, drawn.new, agreed)
  BY <1>1, EventHandled DEF HandshakeInv, Counters
<1>3. CASE UNCHANGED tasks
  BY <1>1, <1>3, PassedOver
<1>4. ASSUME NEW m \in Handshake!ToSendAgain, tasks' = tasks \o Handshake!Send(m)
      PROVE  HandshakeInv'
  <2>1. /\ m \in hs.kept /\ m \in Questions
        /\ m.type = "setClient" => \A k \in hs.kept : k.type # "reqDH"
    BY <1>2 DEF Handshake!ToSendAgain, Fields
  <2> DEFINE t == Handshake!Task("send", m)
  <2>2. t \in Tasks /\ t.msg = m
    BY <2>1, MessagesMade
  <2>3. tasks' = Append(tasks, t)
    BY <1>2, <1>4, <2>2, AppendedOneByOne DEF Handshake!Send, Way
  <2> HIDE DEF t
  <2>4. Right(m, hs, drawn.new, agreed)
    BY <1>2, <2>1 DEF LastOnes
  <2>5. Way(Tail(stage), caught, in, out, tasks', hs, drawn.new, agreed)
    <3>1. CASE m.type = "reqPQ"
      BY <1>2, <2>2, <2>3, <3>1, NeutralTaskGiven
    <3>2. CASE m.type = "reqDH"
      <4>1. Behind({m}, Traveling(Tail(stage), caught, in, out, tasks))
        <5> SUFFICES ASSUME NEW x \in Traveling(Tail(stage), caught, in, out, tasks), IsGen(x)
                     PROVE  m.new > x.new /\ ~IsGen(m) /\ m.type # "encrypted"
          BY DEF Behind, Follows
        <5>1. x.new < m.new
          BY <1>2, <2>1, <3>2 DEF Way, KeptIsLast
        <5>2. x \in MessageSet /\ m \in MessageSet
          BY <1>2, <2>1, InMessageSet DEF Questions
        <5> QED BY <3>2, <5>1, <5>2 DEF IsGen, MessageSet
      <4>2. KeptIsLast({m}, hs)
        BY <3>2 DEF KeptIsLast, IsGen
      <4> QED BY <1>2, <2>2, <2>3, <2>4, <4>1, <4>2, TaskGiven
    <3>3. CASE m.type = "setClient"
      <4>1. m.new = drawn.new
        BY <1>2, <2>1, <3>3 DEF LastOnes
      <4>2. Behind({m}, Traveling(Tail(stage), caught, in, out, tasks))
        <5> SUFFICES ASSUME NEW x \in Traveling(Tail(stage), caught, in, out, tasks), IsGen(x)
                     PROVE  m.new >= x.new /\ ~IsDh(m) /\ m.type # "encrypted"
          BY DEF Behind, Follows
        <5>1. x.new <= drawn.new
          BY <1>2 DEF Way, Right
        <5>2. x \in MessageSet
          BY <1>2, InMessageSet
        <5> QED BY <1>2, <3>3, <4>1, <5>1, <5>2 DEF IsDh, MessageSet
      <4>3. KeptIsLast({m}, hs)
        BY <2>1, <3>3 DEF KeptIsLast
      <4> QED BY <1>2, <2>2, <2>3, <2>4, <4>2, <4>3, TaskGiven
    <3> QED BY <2>1, <3>1, <3>2, <3>3 DEF Questions, Asking
  <2>6. Counters'
    BY <1>1 DEF HandshakeInv, Counters
  <2>7. Pending(stage) => /\ hs.key \in agreed \/ hs.key = 0
                          /\ ~doubled => hs.key \in agreed /\ hs.processedPQRes
    BY FirstIsHarmless DEF HandshakeInv, Way
  <2> QED BY <1>1, <1>2, <2>5, <2>6, <2>7, HandledGoesOn
<1> QED BY <1>3, <1>4 DEF Handshake!TcpConnectionConnected

(* The end of the action: the key is one that the server has confirmed.    *)
LEMMA CompleteKeeps == HandshakeInv /\ Handshake!Complete => HandshakeInv'
<1> SUFFICES ASSUME HandshakeInv, Handshake!Complete PROVE HandshakeInv'
  OBVIOUS
<1> DEFINE e == Handshake!Event("removed", Handshake!NoMessage)
<1>1. /\ UNCHANGED <<hs, threads, tasks, caught, out, in, agreed, drawn, times, read, doubled>>
      /\ stage # <<>> /\ Head(stage).what = "completed"
      /\ stage' = Tail(stage) \/ stage' = Append(Tail(stage), e)
      /\ dc' = [dc EXCEPT !.key = hs.key, !.over = TRUE]
  BY DEF Handshake!Complete, Handshake!Stage, Handshake!remote
<1>2. /\ Way(Tail(stage), caught, in, out, tasks, hs, drawn.new, agreed)
      /\ stage \in Seq(Events) /\ Tail(stage) \in Seq(Events)
  BY <1>1, EventHandled DEF HandshakeInv, Way
<1>3. e \in Events /\ e.what = "removed" /\ e.msg.type = "none"
  BY EventsMade, MessagesMade
<1> HIDE DEF e
<1>4. /\ hs.key \in agreed \/ hs.key = 0
      /\ ~doubled => hs.key \in agreed /\ hs.processedPQRes
  <2>1. Pending(stage)
    <3>1. 1 \in 1 .. Len(stage) /\ Head(stage) = stage[1]
      BY <1>1, <1>2
    <3> QED BY <1>1, <3>1 DEF Pending
  <2> QED BY <1>2, <2>1, FirstIsHarmless DEF HandshakeInv
<1>5. DOMAIN dc' = {"key", "over", "acting"} /\ dc'.key = hs.key
  BY <1>1 DEF HandshakeInv, Counters
<1>6. Handshake!KeyAgreed'
  BY <1>1, <1>4, <1>5 DEF HandshakeInv, Handshake!KeyAgreed
<1>7. Way(Append(Tail(stage), e), caught, in, out, tasks, hs, drawn.new, agreed)
  BY <1>2, <1>3, EventPosted DEF IsDh, IsGen
<1>8. WasRead(Tail(stage), caught, read, doubled) /\ WasRead(Append(Tail(stage), e), caught, read, doubled)
  <2>1. WasRead(Tail(stage), caught, read, doubled)
    BY <1>1, <1>2, WasReadShorter DEF HandshakeInv
  <2> QED BY <1>2, <1>3, <2>1, WasReadLonger
<1>9. Completing(Tail(stage), hs, agreed, doubled) /\ Completing(Append(Tail(stage), e), hs, agreed, doubled)
  <2>1. Completing(Tail(stage), hs, agreed, doubled)
    BY <1>1, <1>2, <1>4, CompletingGoesOn DEF HandshakeInv
  <2> QED BY <1>2, <1>3, <2>1, CompletingLonger
<1>10. Counters'
  BY <1>1, <1>5 DEF HandshakeInv, Counters
<1>11. /\ Way(stage', caught', in', out', tasks', hs', drawn'.new, agreed')
       /\ WasRead(stage', caught', read', doubled') /\ Completing(stage', hs', agreed', doubled')
  BY <1>1, <1>2, <1>7, <1>8, <1>9
<1>12. hs' \in Fields /\ LastOnes(hs', drawn'.new, agreed') /\ doubled' \in BOOLEAN
  BY <1>1 DEF HandshakeInv
<1> QED BY <1>6, <1>10, <1>11, <1>12 DEF HandshakeInv

LEMMA RemoveKeeps == HandshakeInv /\ Handshake!Remove => HandshakeInv'
<1> SUFFICES ASSUME HandshakeInv, Handshake!Remove PROVE HandshakeInv'
  OBVIOUS
<1>1. /\ UNCHANGED <<hs, threads, tasks, caught, out, in, agreed, drawn, times, read, doubled>>
      /\ stage # <<>> /\ stage' = Tail(stage) /\ dc' = [dc EXCEPT !.acting = FALSE]
  BY DEF Handshake!Remove, Handshake!Stage, Handshake!remote, Handshake!network
<1>2. dc'.over = dc.over /\ dc'.key = dc.key /\ DOMAIN dc' = DOMAIN dc
  BY <1>1 DEF HandshakeInv, Counters
<1> QED BY <1>1, <1>2, PassedOver

LEMMA HandshakeKeeps == HandshakeInv /\ [Handshake!Next]_handshake => HandshakeInv'
<1> SUFFICES ASSUME HandshakeInv, [Handshake!Next]_handshake PROVE HandshakeInv'
  OBVIOUS
<1>1. CASE UNCHANGED handshake
  <2>1. /\ hs' = hs /\ threads' = threads /\ dc' = dc /\ stage' = stage /\ tasks' = tasks
        /\ caught' = caught /\ out' = out /\ in' = in /\ agreed' = agreed /\ drawn' = drawn
        /\ times' = times /\ read' = read /\ doubled' = doubled
    BY <1>1 DEF handshake
  <2> QED BY <2>1 DEF HandshakeInv, Counters, Handshake!KeyAgreed
<1>2. CASE Handshake!NetworkStep
  BY <1>2, RunTaskKeeps, ConnectedKeeps, ReadKeeps, PostedKeeps DEF Handshake!NetworkStep
<1>3. CASE Handshake!StageStep
  BY <1>3, ReceivedDataKeeps, SendReqDHKeeps, TcpConnectionClosedKeeps, TcpConnectionConnectedKeeps,
     CompleteKeeps, RemoveKeeps DEF Handshake!StageStep
<1>4. CASE Handshake!Lose \/ Handshake!Timer \/ Handshake!Factorized
  BY <1>4, LoseKeeps, HandshakeTimerKeeps, FactorizedKeeps
<1>5. CASE Handshake!ServerAnswers \/ Handshake!ServerSendsEncrypted
  BY <1>5, ServerAnswersKeeps, ServerSendsEncryptedKeeps
<1> QED BY <1>1, <1>2, <1>3, <1>4, <1>5 DEF Handshake!Next

(* The key that a datacenter gets is one that the server has confirmed,    *)
(* whatever was lost, refused or repeated before, however often the action *)
(* began; when an answer was read twice, there may be none instead.        *)
THEOREM KeyIsConfirmed == Init /\ [][Next]_vars => []KeyAgreed
<1>1. Init => HandshakeInv
  BY HandshakeInitHolds DEF Init
<1>2. HandshakeInv /\ [Next]_vars => HandshakeInv'
  <2> SUFFICES ASSUME HandshakeInv, [Next]_vars PROVE HandshakeInv'
    OBVIOUS
  <2>1. [Handshake!Next]_handshake
    BY DEF Next, vars, OnlyHandshake, OnlyRpc
  <2> QED BY <2>1, HandshakeKeeps
<1>3. HandshakeInv => KeyAgreed
  BY DEF HandshakeInv, KeyAgreed
<1> QED BY <1>1, <1>2, <1>3, PTL

-----------------------------------------------------------------------------
(* A set of natural numbers has a least element.                           *)
LEMMA Least ==
    ASSUME NEW S, S \subseteq Nat, S # {}
    PROVE  \E m \in S : \A k \in S : m <= k
<1>1. PICK m \in S : \A k \in S : ~(<<k, m>> \in OpToRel(<, Nat))
  BY NatLessThanWellFounded, WFMin
<1>2. \A k \in S : ~(k < m)
  BY <1>1 DEF OpToRel
<1> QED BY <1>2

(* One step of Kept, and the steps up to n.                                *)
KeepOne(kept, list, T, i) == IF list[i] \in T THEN Append(kept, list[i]) ELSE kept
Keeping(list, T, n, f) ==
    f = [i \in 0 .. n |-> IF i = 0 THEN <<>> ELSE KeepOne(f[i - 1], list, T, i)]

(* The function that Kept recurses with is there.                          *)
LEMMA KeepingExists ==
    ASSUME NEW list, NEW T, NEW n \in Nat
    PROVE  \E f : Keeping(list, T, n, f)
<1> DEFINE Bad == {k \in Nat : ~\E f : Keeping(list, T, k, f)}
<1> SUFFICES ASSUME Bad # {} PROVE FALSE
  OBVIOUS
<1>1. PICK m \in Bad : \A k \in Bad : m <= k
  BY Least
<1>2. m \in Nat /\ ~\E f : Keeping(list, T, m, f)
  OBVIOUS
<1> HIDE DEF Bad
<1>3. CASE m = 0
  <2> DEFINE f == [i \in 0 .. 0 |-> <<>>]
  <2>1. Keeping(list, T, 0, f)
    BY DEF Keeping
  <2> QED BY <2>1, <1>2, <1>3
<1>4. CASE m # 0
  <2>1. m - 1 \in Nat /\ m - 1 \notin Bad
    BY <1>1, <1>2, <1>4
  <2>2. PICK f : Keeping(list, T, m - 1, f)
    BY <2>1 DEF Bad
  <2> DEFINE g == [i \in 0 .. m |-> IF i = m THEN KeepOne(f[m - 1], list, T, m) ELSE f[i]]
             h == [i \in 0 .. m |-> IF i = 0 THEN <<>> ELSE KeepOne(g[i - 1], list, T, i)]
  <2>3. \A i \in 0 .. m : g[i] = h[i]
    <3> TAKE i \in 0 .. m
    <3>1. CASE i = m
      <4>1. g[i - 1] = f[m - 1]
        BY <3>1, <1>2, <1>4
      <4> QED BY <4>1, <3>1, <1>4
    <3>2. CASE i # m
      <4>1. i \in 0 .. m - 1 /\ f[i] = IF i = 0 THEN <<>> ELSE KeepOne(f[i - 1], list, T, i)
        BY <2>2, <3>2, <1>2 DEF Keeping
      <4>2. i # 0 => g[i - 1] = f[i - 1]
        BY <4>1, <1>2
      <4> QED BY <4>1, <4>2, <3>2
    <3> QED BY <3>1, <3>2
  <2>4. g = h
    BY <2>3
  <2>5. Keeping(list, T, m, g)
    BY <2>4 DEF Keeping
  <2> QED BY <2>5, <1>2
<1> QED BY <1>3, <1>4

(* A list with one element more.                                           *)
LEMMA OneAppended ==
    ASSUME NEW S, NEW list \in Seq(S), NEW e \in S
    PROVE  Append(list, e) \in Seq(S) /\ Rpc!ToSet(Append(list, e)) = Rpc!ToSet(list) \cup {e}
<1> DEFINE n == Len(list)
           longer == Append(list, e)
<1>1. /\ n \in Nat /\ DOMAIN list = 1 .. n /\ longer \in Seq(S) /\ DOMAIN longer = 1 .. n + 1
      /\ longer[n + 1] = e /\ \A i \in 1 .. n : longer[i] = list[i]
  OBVIOUS
<1> HIDE DEF n, longer
<1>2. Rpc!ToSet(longer) = Rpc!ToSet(list) \cup {e}
  <2>1. \A x \in Rpc!ToSet(longer) : x \in Rpc!ToSet(list) \cup {e}
    <3> TAKE x \in Rpc!ToSet(longer)
    <3>1. PICK i \in 1 .. n + 1 : x = longer[i]
      BY <1>1 DEF Rpc!ToSet
    <3>2. CASE i = n + 1
      BY <3>1, <3>2, <1>1
    <3>3. CASE i # n + 1
      <4>1. i \in 1 .. n
        BY <3>3, <1>1
      <4> QED BY <4>1, <3>1, <1>1 DEF Rpc!ToSet
    <3> QED BY <3>2, <3>3
  <2>2. \A x \in Rpc!ToSet(list) : x \in Rpc!ToSet(longer)
    BY <1>1 DEF Rpc!ToSet
  <2>3. e \in Rpc!ToSet(longer)
    <3>1. n + 1 \in 1 .. n + 1
      BY <1>1
    <3> QED BY <3>1, <1>1 DEF Rpc!ToSet
  <2> QED BY <2>1, <2>2, <2>3
<1> QED BY <1>1, <1>2 DEF longer

(* Kept keeps of a list what is in T.                                      *)
LEMMA KeptOf ==
    ASSUME NEW S, NEW list \in Seq(S), NEW T
    PROVE  Rpc!Kept(list, T) \in Seq(S) /\ Rpc!ToSet(Rpc!Kept(list, T)) = Rpc!ToSet(list) \cap T
<1> DEFINE n == Len(list)
           F == CHOOSE f : Keeping(list, T, n, f)
           In(k) == {list[i] : i \in 1 .. k} \cap T
           Fits(k) == F[k] \in Seq(S) /\ Rpc!ToSet(F[k]) = In(k)
           Bad == {k \in 0 .. n : ~Fits(k)}
<1>1. n \in Nat /\ DOMAIN list = 1 .. n /\ \A i \in 1 .. n : list[i] \in S
  OBVIOUS
<1>2. Keeping(list, T, n, F)
  BY <1>1, KeepingExists
<1>3. Rpc!Kept(list, T) = F[n]
  BY DEF Rpc!Kept, Keeping, KeepOne
<1> HIDE DEF F, n
<1>4. F[0] = <<>> /\ \A i \in 1 .. n : F[i] = KeepOne(F[i - 1], list, T, i)
  BY <1>1, <1>2 DEF Keeping
<1>5. Fits(0)
  <2>1. <<>> \in Seq(S) /\ Rpc!ToSet(<<>>) = {} /\ In(0) = {}
    BY DEF Rpc!ToSet
  <2> QED BY <2>1, <1>4
<1>6. \A m \in 1 .. n : Fits(m - 1) => Fits(m)
  <2> SUFFICES ASSUME NEW m \in 1 .. n, Fits(m - 1) PROVE Fits(m)
    OBVIOUS
  <2>1. In(m) = In(m - 1) \cup ({list[m]} \cap T)
    BY <1>1
  <2> HIDE DEF In
  <2>2. list[m] \in S /\ F[m] = KeepOne(F[m - 1], list, T, m)
    BY <1>1, <1>4
  <2>3. CASE list[m] \in T
    <3>1. F[m] = Append(F[m - 1], list[m])
      BY <2>2, <2>3 DEF KeepOne
    <3>2. F[m - 1] \in Seq(S) /\ Rpc!ToSet(F[m - 1]) = In(m - 1)
      OBVIOUS
    <3>3. F[m] \in Seq(S) /\ Rpc!ToSet(F[m]) = Rpc!ToSet(F[m - 1]) \cup {list[m]}
      <4> DEFINE kept == F[m - 1]
                 e == list[m]
      <4>1. kept \in Seq(S) /\ e \in S
        BY <3>2, <2>2
      <4> HIDE DEF kept, e
      <4>2. Append(kept, e) \in Seq(S) /\ Rpc!ToSet(Append(kept, e)) = Rpc!ToSet(kept) \cup {e}
        BY <4>1, OneAppended
      <4> QED BY <4>2, <3>1 DEF kept, e
    <3> QED BY <3>2, <3>3, <2>1, <2>3
  <2>4. CASE list[m] \notin T
    BY <2>1, <2>2, <2>4 DEF KeepOne
  <2> QED BY <2>3, <2>4
<1> HIDE DEF Fits
<1>7. Bad = {}
  <2> SUFFICES ASSUME Bad # {} PROVE FALSE
    OBVIOUS
  <2>1. Bad \subseteq Nat /\ \A k \in 0 .. n : Fits(k) \/ k \in Bad
    BY <1>1
  <2>2. \A k \in Bad : k \in 0 .. n /\ ~Fits(k)
    OBVIOUS
  <2> HIDE DEF Bad
  <2>3. PICK m \in Bad : \A k \in Bad : m <= k
    BY <2>1, Least
  <2>4. m # 0 /\ m \in 0 .. n
    BY <2>2, <1>5
  <2>5. m \in 1 .. n /\ m - 1 \in 0 .. n /\ ~(m <= m - 1)
    BY <2>4, <1>1
  <2>6. Fits(m - 1)
    BY <2>1, <2>3, <2>5
  <2> QED BY <2>2, <2>5, <2>6, <1>6
<1>8. Fits(n)
  <2>1. n \in 0 .. n
    BY <1>1
  <2> QED BY <2>1, <1>7
<1>9. Rpc!ToSet(list) \cap T = In(n)
  BY <1>1 DEF Rpc!ToSet
<1> QED BY <1>3, <1>8, <1>9 DEF Fits

(* f, with the values of g where g has one.                                *)
LEMMA UpdatedIs ==
    ASSUME NEW f, NEW g
    PROVE  Rpc!Updated(f, g) = [x \in DOMAIN f \cup DOMAIN g |-> IF x \in DOMAIN g THEN g[x] ELSE f[x]]
  BY DEF Rpc!Updated

(* The fields of ConnectionsManager.                                       *)
FieldNames ==
    {"queue", "running", "req", "posted", "completing", "current", "moving", "exported", "again",
     "keys", "handshakes", "activated", "session", "processed", "linked", "wanted", "mid", "made",
     "up", "ended", "performed", "revived", "delayed", "spoiled", "stuck",
     "authorized"}

(* The fields are all there.                                               *)
Shape(s) == DOMAIN s = FieldNames /\ s = [f \in FieldNames |-> s[f]]

(* t is s but for the fields F.                                            *)
Same(s, t, F) == \A f \in FieldNames \ F : t[f] = s[f]

(* What no method takes back, and what only callbacks and the caller change. *)
Grows(s, t) ==
    /\ Shape(t)
    /\ t.ended = s.ended /\ t.performed = s.performed
    /\ s.revived \subseteq t.revived /\ t.linked \subseteq s.linked
    /\ s.spoiled => t.spoiled

(* What the methods make of the requests and of the packets.               *)
Forgotten(q) == [q EXCEPT !.mid = 0, !.on = None, !.due = TRUE]
Cleared(req, S) == [r \in DOMAIN req \cup S |-> IF r \in S THEN Forgotten(req[r]) ELSE req[r]]
Unlinked(req, d) == [r \in DOMAIN req |-> [req[r] EXCEPT !.on = IF @ = d THEN None ELSE @]]

(* The ids newly given to the first i of rs, and what                      *)
(* sendMessagesToTransport makes of a record.                              *)
Fresh(s, rs, i) == Rpc!Cardinality({j \in 1 .. i : s.req[rs[j]].mid = 0})
WithId(s, rs, r) ==
    [s.req[r] EXCEPT !.mid = IF @ = 0 THEN s.mid + Fresh(s, rs, CHOOSE i \in DOMAIN rs : rs[i] = r) ELSE @,
                     !.on = Rpc!Dc(s, r),
                     !.due = FALSE]
AllWithIds(s, rs) ==
    [r \in DOMAIN s.req \cup Rpc!ToSet(rs) |-> IF r \in Rpc!ToSet(rs) THEN WithId(s, rs, r) ELSE s.req[r]]

(* The datacenters that rs go to, and the packet for each.                 *)
Goals(s, rs) == {Rpc!Dc(s, r) : r \in Rpc!ToSet(rs)}
PacketFor(s, rs, d) == Rpc!Packet(s, d, Rpc!Kept(rs, {r \in Rpc!ToSet(rs) : Rpc!Dc(s, r) = d}))
Delivered(s, rs) ==
    [d \in DOMAIN s.up \cup Goals(s, rs) |->
        IF d \in Goals(s, rs) THEN Append(s.up[d], PacketFor(s, rs, d)) ELSE s.up[d]]

-----------------------------------------------------------------------------
(* What the methods leave alone.                                           *)
LEMMA GrowsOn == ASSUME NEW s, NEW t, NEW u, Grows(s, t), Grows(t, u) PROVE Grows(s, u)
  BY DEF Grows

(* A step that touches none of these fields.                               *)
LEMMA GrowsByFields ==
    ASSUME NEW s, NEW t, NEW F, Shape(t), Same(s, t, F),
           F \cap {"ended", "performed", "revived", "spoiled", "linked"} = {}
    PROVE  Grows(s, t)
<1>1. \A f \in {"ended", "performed", "revived", "spoiled", "linked"} : f \in FieldNames \ F
  BY DEF FieldNames
<1> QED BY <1>1 DEF Grows, Same

(* clearRequestsForRequestClass: the cleared requests lose their id.       *)
LEMMA ClearRequestsIs ==
    ASSUME NEW s, NEW S, Shape(s)
    PROVE  LET t == Rpc!ClearRequests(s, S)
           IN  /\ Shape(t) /\ Grows(s, t)
               /\ Same(s, t, {"req", "revived", "spoiled"})
               /\ t.req = Cleared(s.req, S)
               /\ t.revived \subseteq s.revived \cup Requests
               /\ \A r \in S \cap Requests : s.req[r].completed => r \in t.revived
               /\ t.spoiled \in BOOLEAN /\ \A r \in S \ Requests : s.req[r].completed => t.spoiled
<1> DEFINE t == Rpc!ClearRequests(s, S)
<1>1. Shape(t)
  BY DEF Shape, FieldNames, Rpc!ClearRequests
<1>2. Same(s, t, {"req", "revived", "spoiled"})
  BY DEF Same, Shape, FieldNames, Rpc!ClearRequests
<1>3. t.req = Rpc!Updated(s.req, [r \in S |-> [s.req[r] EXCEPT !.mid = 0, !.on = None, !.due = TRUE]])
  BY DEF Shape, FieldNames, Rpc!ClearRequests
<1>4. t.req = Cleared(s.req, S)
  BY <1>3, UpdatedIs DEF Cleared, Forgotten
<1>5. /\ t.revived = s.revived \cup {r \in S \cap Requests : s.req[r].completed}
      /\ t.spoiled = (s.spoiled \/ \E r \in S \ Requests : s.req[r].completed)
  BY DEF Shape, FieldNames, Rpc!ClearRequests
<1> HIDE DEF t
<1>7. /\ t.spoiled \in BOOLEAN
      /\ s.spoiled => t.spoiled
      /\ \A r \in S \ Requests : s.req[r].completed => t.spoiled
      /\ t.revived \subseteq s.revived \cup Requests /\ s.revived \subseteq t.revived
      /\ \A r \in S \cap Requests : s.req[r].completed => r \in t.revived
  BY <1>5
<1>6. t.ended = s.ended /\ t.performed = s.performed /\ t.linked = s.linked
  BY <1>2 DEF Same, FieldNames
<1> QED BY <1>1, <1>2, <1>4, <1>6, <1>7 DEF Grows, t

(* A connection goes: its requests have none.                              *)
LEMMA UnlinkIs ==
    ASSUME NEW s, NEW d, Shape(s)
    PROVE  LET t == Rpc!Unlink(s, d)
           IN  /\ Shape(t) /\ Grows(s, t)
               /\ Same(s, t, {"linked", "up", "req"})
               /\ t.up = [s.up EXCEPT ![d] = <<>>]
               /\ t.req = Unlinked(s.req, d)
<1> DEFINE t == Rpc!Unlink(s, d)
<1>1. Shape(t)
  BY DEF Shape, FieldNames, Rpc!Unlink
<1>2. Same(s, t, {"linked", "up", "req"})
  BY DEF Same, Shape, FieldNames, Rpc!Unlink
<1> DEFINE q == [r \in DOMAIN s.req |-> [s.req[r] EXCEPT !.on = IF @ = d THEN None ELSE @]]
           l == [s EXCEPT !.linked = @ \ {d}]
           u == [l EXCEPT !.up[d] = <<>>]
<1>3. /\ DOMAIN l = FieldNames /\ l.up = s.up /\ l.req = s.req /\ l.linked \subseteq s.linked
  BY DEF Shape, FieldNames
<1>4. t = [u EXCEPT !.req = [r \in DOMAIN u.req |-> [s.req[r] EXCEPT !.on = IF @ = d THEN None ELSE @]]]
  BY DEF Rpc!Unlink
<1> HIDE DEF l, t
<1>5. /\ DOMAIN u = FieldNames /\ u.up = [s.up EXCEPT ![d] = <<>>] /\ u.req = s.req /\ u.linked = l.linked
  BY <1>3 DEF FieldNames
<1> HIDE DEF u
<1>6. t.up = u.up /\ t.linked = u.linked /\ t.req = [r \in DOMAIN u.req |-> [s.req[r] EXCEPT !.on = IF @ = d THEN None ELSE @]]
  BY <1>4, <1>5 DEF FieldNames
<1>7. /\ t.ended = s.ended /\ t.performed = s.performed /\ t.revived = s.revived /\ t.spoiled = s.spoiled
      /\ t.linked \subseteq s.linked
  BY <1>2, <1>3, <1>5, <1>6 DEF Same, FieldNames
<1> QED BY <1>1, <1>2, <1>5, <1>6, <1>7 DEF t, Unlinked, Grows

(* recreateSession: a new session, in which nothing was processed.         *)
LEMMA RecreateSessionsIs ==
    ASSUME NEW s, NEW d, Shape(s)
    PROVE  LET t == Rpc!RecreateSessions(s, d)
           IN  /\ Shape(t) /\ Grows(s, t)
               /\ Same(s, t, {"session", "processed"})
               /\ t.processed = [s.processed EXCEPT ![d] = {}]
<1> DEFINE t == Rpc!RecreateSessions(s, d)
<1>1. Shape(t)
  BY DEF Shape, FieldNames, Rpc!RecreateSessions
<1>2. Same(s, t, {"session", "processed"})
  BY DEF Same, Shape, FieldNames, Rpc!RecreateSessions
<1>3. t.processed = [s.processed EXCEPT ![d] = {}]
  BY DEF Shape, FieldNames, Rpc!RecreateSessions
<1> QED BY <1>1, <1>2, <1>3, GrowsByFields

(* A request of the class's own is posted.                                 *)
LEMMA PerformRpcIs ==
    ASSUME NEW s, NEW kind, NEW about, NEW to, Shape(s)
    PROVE  LET t == Rpc!PerformRpc(s, kind, about, to)
           IN  /\ Shape(t) /\ Grows(s, t)
               /\ Same(s, t, {"posted", "made"})
               /\ t.posted = Append(s.posted, [req |-> <<kind, s.made, about>>, dc |-> to])
               /\ t.made = s.made + 1
<1> DEFINE t == Rpc!PerformRpc(s, kind, about, to)
<1>1. Shape(t)
  BY DEF Shape, FieldNames, Rpc!PerformRpc
<1>2. Same(s, t, {"posted", "made"})
  BY DEF Same, Shape, FieldNames, Rpc!PerformRpc
<1>3. /\ t.posted = Append(s.posted, [req |-> <<kind, s.made, about>>, dc |-> to])
      /\ t.made = s.made + 1
  BY DEF Shape, FieldNames, Rpc!PerformRpc
<1> QED BY <1>1, <1>2, <1>3, GrowsByFields

(* An exchange of keys begins: nothing about the requests.                 *)
LEMMA HandshakeIs ==
    ASSUME NEW s, NEW d, Shape(s)
    PROVE  LET t == Rpc!Handshake(s, d)
           IN  Shape(t) /\ Grows(s, t) /\ Same(s, t, {"handshakes", "wanted"})
<1> DEFINE t == Rpc!Handshake(s, d)
<1>1. Shape(t)
  BY DEF Shape, FieldNames, Rpc!Handshake
<1>2. Same(s, t, {"handshakes", "wanted"})
  BY DEF Same, Shape, FieldNames, Rpc!Handshake
<1> QED BY <1>1, <1>2, GrowsByFields

(* The requests get their ids.                                             *)
LEMMA WithIdsIs ==
    ASSUME NEW s, NEW rs, Shape(s)
    PROVE  LET t == Rpc!WithIds(s, rs)
           IN  /\ Shape(t)
               /\ Same(s, t, {"req", "mid"})
               /\ t.req = AllWithIds(s, rs)
               /\ t.mid = s.mid + Fresh(s, rs, Len(rs))
<1> DEFINE t == Rpc!WithIds(s, rs)
           g == [r \in Rpc!ToSet(rs) |-> WithId(s, rs, r)]
<1>1. t = [s EXCEPT !.req = Rpc!Updated(@, g), !.mid = @ + Fresh(s, rs, Len(rs))]
  BY DEF Rpc!WithIds, WithId, Fresh
<1> HIDE DEF g, t
<1>2. Shape(t)
  BY <1>1 DEF Shape, FieldNames
<1>3. Same(s, t, {"req", "mid"})
  BY <1>1 DEF Same, Shape, FieldNames
<1>4. t.req = Rpc!Updated(s.req, g) /\ t.mid = s.mid + Fresh(s, rs, Len(rs))
  BY <1>1 DEF Shape, FieldNames
<1>5. t.req = [r \in DOMAIN s.req \cup DOMAIN g |-> IF r \in DOMAIN g THEN g[r] ELSE s.req[r]]
  BY <1>4, UpdatedIs
<1>6. DOMAIN g = Rpc!ToSet(rs) /\ \A r \in Rpc!ToSet(rs) : g[r] = WithId(s, rs, r)
  BY DEF g
<1>7. t.req = AllWithIds(s, rs)
  BY <1>5, <1>6 DEF AllWithIds
<1> QED BY <1>2, <1>3, <1>4, <1>7 DEF t

(* What starts leaves the queue for the list of running requests.          *)
LEMMA BeginIs ==
    ASSUME NEW s, NEW started, Shape(s)
    PROVE  LET t == Rpc!Begin(s, started)
           IN  /\ Shape(t)
               /\ Same(s, t, {"running", "queue"})
               /\ t.running = s.running \o Rpc!Kept(started, Rpc!Answerable(started))
               /\ t.queue = Rpc!Kept(s.queue, Rpc!ToSet(s.queue) \ Rpc!ToSet(started))
<1> DEFINE t == Rpc!Begin(s, started)
<1>1. Shape(t)
  BY DEF Shape, FieldNames, Rpc!Begin
<1>2. Same(s, t, {"running", "queue"})
  BY DEF Same, Shape, FieldNames, Rpc!Begin
<1> DEFINE l == [s EXCEPT !.running = @ \o Rpc!Kept(started, Rpc!Answerable(started))]
<1>3. /\ DOMAIN l = FieldNames /\ l.queue = s.queue
      /\ l.running = s.running \o Rpc!Kept(started, Rpc!Answerable(started))
  BY DEF Shape, FieldNames
<1>4. t = [l EXCEPT !.queue = Rpc!Kept(@, Rpc!ToSet(@) \ Rpc!ToSet(started))]
  BY DEF Rpc!Begin
<1> HIDE DEF l, t
<1>5. t.running = l.running /\ t.queue = Rpc!Kept(l.queue, Rpc!ToSet(l.queue) \ Rpc!ToSet(started))
  BY <1>3, <1>4 DEF FieldNames
<1> QED BY <1>1, <1>2, <1>3, <1>5 DEF t

(* One packet for each datacenter.                                         *)
LEMMA SentIs ==
    ASSUME NEW s, NEW rs, Shape(s)
    PROVE  LET t == Rpc!Sent(s, rs)
           IN  /\ Shape(t)
               /\ Same(s, t, {"up"})
               /\ t.up = Delivered(s, rs)
<1> DEFINE t == Rpc!Sent(s, rs)
           g == [d \in Goals(s, rs) |-> Append(s.up[d], PacketFor(s, rs, d))]
<1>1. t = [s EXCEPT !.up = Rpc!Updated(@, g)]
  BY DEF Rpc!Sent, Goals, PacketFor
<1> HIDE DEF g, t
<1>2. Shape(t)
  BY <1>1 DEF Shape, FieldNames
<1>3. Same(s, t, {"up"})
  BY <1>1 DEF Same, Shape, FieldNames
<1>4. t.up = Rpc!Updated(s.up, g)
  BY <1>1 DEF Shape, FieldNames
<1>5. t.up = [d \in DOMAIN s.up \cup DOMAIN g |-> IF d \in DOMAIN g THEN g[d] ELSE s.up[d]]
  BY <1>4, UpdatedIs
<1>6. t.up = Delivered(s, rs)
  BY <1>5 DEF g, Delivered
<1> QED BY <1>2, <1>3, <1>6 DEF t

(* generatePing takes an id and sends a packet.                            *)
LEMMA GeneratePingIs ==
    ASSUME NEW s, Shape(s)
    PROVE  LET t == Rpc!GeneratePing(s)
           IN  /\ Shape(t)
               /\ Same(s, t, {"up", "mid"})
               /\ \/ t = s
                  \/ /\ t.mid = s.mid + 1
                     /\ t.up = [s.up EXCEPT ![s.current] = Append(@, [session |-> s.session[s.current],
                                  messages |-> <<[req |-> <<"ping", 0>>, mid |-> s.mid + 1, after |-> 0]>>])]
<1> DEFINE t == Rpc!GeneratePing(s)
<1>1. Shape(t)
  BY DEF Shape, FieldNames, Rpc!GeneratePing
<1>2. Same(s, t, {"up", "mid"})
  BY DEF Same, Shape, FieldNames, Rpc!GeneratePing
<1>3. \/ t = s
      \/ /\ t.mid = s.mid + 1
         /\ t.up = [s.up EXCEPT ![s.current] = Append(@, [session |-> s.session[s.current],
                      messages |-> <<[req |-> <<"ping", 0>>, mid |-> s.mid + 1, after |-> 0]>>])]
  BY DEF Shape, FieldNames, Rpc!GeneratePing
<1> QED BY <1>1, <1>2, <1>3

(* All requests, the application's and the class's own.                    *)
Names == Requests \cup Rpc!Own

(* The record of a request.                                                *)
Waiting ==
    [dc : Dcs \cup {None}, mid : Nat, on : Dcs \cup {None}, due : BOOLEAN, completed : BOOLEAN]

(* What waits to be performed.                                             *)
Posts == [req : Rpc!Own, dc : Dcs \cup {None}]

(* Sequences.                                                              *)
IsList(l) == l \in Seq(Rpc!ToSet(l))

(* Packets, with lists of messages.                                        *)
Packed(l) == IsList(l) /\ \A p \in Rpc!ToSet(l) : \E n \in Nat : DOMAIN p.messages = 1 .. n

(* The types of what the invariant speaks of.                              *)
RpcTyped(s) ==
    /\ s.queue \in Seq(Names) /\ s.running \in Seq(Names)
    /\ DOMAIN s.req \subseteq Names /\ s.req \in [DOMAIN s.req -> Waiting]
    /\ s.posted \in Seq(Posts)
    /\ s.mid \in Nat /\ s.made \in Nat
    /\ s.processed \in [Dcs -> SUBSET Nat]
    /\ DOMAIN s.up = Dcs /\ \A d \in Dcs : Packed(s.up[d])
    /\ s.performed \in Seq(Requests)
    /\ s.ended \in [Requests -> Nat]
    /\ s.revived \subseteq Requests /\ s.again \subseteq Dcs
    /\ s.spoiled \in BOOLEAN

(* The message i is on its way to datacenter d, known there, or its answer *)
(* on its way back.                                                        *)
OnTheWay(up, kn, dn, d, i) ==
    \/ \E p \in Rpc!ToSet(up[d]) : \E n \in DOMAIN p.messages : p.messages[n].mid = i
    \/ \E k \in kn[d] : k.mid = i
    \/ \E n \in DOMAIN dn[d] : dn[d][n].kind = "result" /\ dn[d][n].mid = i

(* Exports and imports of an authorization, known or posted.               *)
IsMove(r) == r \notin Requests /\ r[1] \in {"export", "import"}
Moves(s) == {r \in DOMAIN s.req : IsMove(r)}
Unfinished(s, E) == {r \in Moves(s) : ~s.req[r].completed} \ E
PostedMoves(s) == {n \in DOMAIN s.posted : IsMove(s.posted[n].req)}

(* Where the client is, h being the datacenter that the account lives in.  *)
Places(s, h) ==
    /\ h \in Dcs /\ s.current \in {First, h} /\ s.moving \in {None, h} /\ s.again \subseteq {h}
    /\ h = First => /\ s.moving = None /\ s.again = {}
                    /\ \A r \in DOMAIN s.req : s.req[r].dc = None
                    /\ \A n \in DOMAIN s.posted : s.posted[n].dc = None
                    /\ \A d \in Dcs : d # First => s.up[d] = <<>>

(* A request has a record while it is queued or running, never both, and   *)
(* an id while it runs only.                                               *)
Listed(s) ==
    /\ Rpc!ToSet(s.running) \subseteq DOMAIN s.req /\ Rpc!ToSet(s.queue) \subseteq DOMAIN s.req
    /\ Rpc!ToSet(s.queue) \cap Rpc!ToSet(s.running) = {}
    /\ \A r \in Rpc!ToSet(s.running) : Rpc!NeedsAnswer(r)
    /\ \A r \in DOMAIN s.req \ Rpc!ToSet(s.running) : s.req[r].mid = 0
    /\ \A r \in DOMAIN s.req \cap Requests : r \in Rpc!ToSet(s.performed) /\ s.req[r].dc = None
    /\ \A r \in Moves(s) : s.req[r].dc \in Dcs

(* The class's own requests have a number each.                            *)
Made(s) ==
    /\ \A n \in DOMAIN s.posted : s.posted[n].req[2] < s.made
    /\ \A n, o \in DOMAIN s.posted : s.posted[n].req = s.posted[o].req => n = o
    /\ \A r \in DOMAIN s.req \ Requests : r[2] < s.made
    /\ \A n \in DOMAIN s.posted : s.posted[n].req \notin DOMAIN s.req

(* Ids are of one request each, none is ahead of the counter, and what is  *)
(* on its way to a datacenter or back is for a request of that datacenter. *)
Numbers(s, kn, dn) ==
    /\ \A r \in DOMAIN s.req : s.req[r].mid <= s.mid
    /\ \A r, q \in DOMAIN s.req : s.req[r].mid = s.req[q].mid /\ s.req[r].mid # 0 => r = q
    /\ \A d \in Dcs : \A i : OnTheWay(s.up, kn, dn, d, i) => i \in Nat /\ i > 0 /\ i <= s.mid
    /\ \A d \in Dcs, r \in DOMAIN s.req : OnTheWay(s.up, kn, dn, d, s.req[r].mid) => d = Rpc!Dc(s, r)
    /\ \A r \in DOMAIN s.req : s.moving # None /\ s.req[r].dc = None => s.req[r].mid = 0

(* One export or import at a time, and only within a move.                 *)
OneMove(s, h, E) ==
    /\ \A r, q \in Unfinished(s, E) : r = q
    /\ \A n, o \in PostedMoves(s) : n = o
    /\ Unfinished(s, E) = {} \/ PostedMoves(s) = {}
    /\ Unfinished(s, E) # {} \/ PostedMoves(s) # {} => s.moving = h
    /\ \A r \in Moves(s) : r[1] = "export" => r[3] = h /\ (s.req[r].dc = h => s.current = h)
    /\ \A n \in PostedMoves(s) :
          /\ s.posted[n].dc \in Dcs
          /\ s.posted[n].req[1] = "export" =>
                s.posted[n].req[3] = h /\ (s.posted[n].dc = h => s.current = h)

(* The answer to r was handled, x and m being the message that is.         *)
IsAnswered(s, r, x, m) ==
    /\ s.req[r].mid # 0
    /\ s.req[r].mid \in s.processed[Rpc!Dc(s, r)] \/ (Rpc!Dc(s, r) = x /\ s.req[r].mid = m)

(* A completed request runs, its answer among the processed ones, unless   *)
(* it was cleared before it could go (revived), or is an export asked of   *)
(* the datacenter that the account lives in, when the client is there      *)
(* already.                                                                *)
Settled(s, h, x, m) ==
    \A r \in DOMAIN s.req : s.req[r].completed =>
        \/ r \in Rpc!ToSet(s.running) /\ IsAnswered(s, r, x, m)
        \/ r \in s.revived
        \/ IsMove(r) /\ r[1] = "export" /\ s.req[r].dc = h /\ s.current = h /\ r \in Rpc!ToSet(s.running)

(* No callback before the request was performed, none before its record is *)
(* completed.                                                              *)
Callbacks(s) ==
    /\ \A r \in Requests : r \notin Rpc!ToSet(s.performed) => s.ended[r] = 0
    /\ \A r \in DOMAIN s.req \cap Requests : s.req[r].completed \/ s.ended[r] = 0 \/ r \in s.revived

(* All of this, E being the moves whose callback runs.                     *)
RpcGood(s, kn, dn, h, x, m, E) ==
    /\ RpcTyped(s) /\ Places(s, h) /\ Listed(s) /\ Numbers(s, kn, dn) /\ OneMove(s, h, E)
    /\ Settled(s, h, x, m) /\ Callbacks(s) /\ Made(s)

-----------------------------------------------------------------------------
(* A state that differs in nothing of this.                                *)
Unconcerned ==
    {"completing", "exported", "handshakes", "activated", "keys", "session", "linked", "wanted", "delayed", "stuck"}

(* It does not depend on the other fields.                                 *)
LEMMA GoodStays ==
    ASSUME NEW s, NEW t, NEW kn, NEW dn, NEW h, NEW x, NEW m, NEW E,
           RpcGood(s, kn, dn, h, x, m, E), Same(s, t, Unconcerned)
    PROVE  RpcGood(t, kn, dn, h, x, m, E)
<1>1. /\ t.queue = s.queue /\ t.running = s.running /\ t.req = s.req /\ t.posted = s.posted
      /\ t.current = s.current /\ t.moving = s.moving /\ t.again = s.again
      /\ t.processed = s.processed /\ t.mid = s.mid /\ t.made = s.made /\ t.up = s.up
      /\ t.ended = s.ended /\ t.performed = s.performed /\ t.revived = s.revived
      /\ t.spoiled = s.spoiled
  BY DEF Same, FieldNames, Unconcerned
<1>2. RpcTyped(t) /\ Places(t, h) /\ Callbacks(t) /\ Made(t)
  BY <1>1 DEF RpcGood, RpcTyped, Places, Callbacks, Made
<1>3. Listed(t) /\ OneMove(t, h, E)
  BY <1>1 DEF RpcGood, Listed, OneMove, Moves, Unfinished, PostedMoves
<1>4. \A r : Rpc!Dc(t, r) = Rpc!Dc(s, r)
  BY <1>1 DEF Rpc!Dc, Rpc!DatacenterWithId
<1>5. Numbers(t, kn, dn)
  BY <1>1, <1>4 DEF RpcGood, Numbers
<1>6. Settled(t, h, x, m)
  BY <1>1, <1>4 DEF RpcGood, Settled, IsAnswered
<1> QED BY <1>2, <1>3, <1>5, <1>6 DEF RpcGood

(* The datacenter of a request.                                            *)
LEMMA DcInDcs ==
    ASSUME NEW s, NEW kn, NEW dn, NEW h, NEW x, NEW m, NEW E, NEW r \in DOMAIN s.req,
           RpcGood(s, kn, dn, h, x, m, E)
    PROVE  Rpc!Dc(s, r) \in Dcs
<1>1. s.req[r].dc \in Dcs \cup {None} /\ s.current \in Dcs
  BY RpcAssumption DEF RpcGood, RpcTyped, Waiting, Places, Rpc!DcsAssumption
<1> QED BY <1>1 DEF Rpc!Dc, Rpc!DatacenterWithId

(* What is on its way may get less.                                        *)
Less(s, kn, dn, x, m, t, kn1, dn1, x1, m1, h) ==
    /\ Same(s, t, {"req", "up", "processed"} \cup Unconcerned)
    /\ DOMAIN t.req = DOMAIN s.req /\ t.req \in [DOMAIN s.req -> Waiting]
    /\ \A r \in DOMAIN s.req : /\ t.req[r].dc = s.req[r].dc /\ t.req[r].mid = s.req[r].mid
                              /\ t.req[r].completed = s.req[r].completed
    /\ DOMAIN t.up = Dcs /\ \A d \in Dcs : Packed(t.up[d])
    /\ \A d \in Dcs : h = First /\ d # First => t.up[d] = <<>>
    /\ \A d \in Dcs : \A i : OnTheWay(t.up, kn1, dn1, d, i) => OnTheWay(s.up, kn, dn, d, i)
    /\ t.processed \in [Dcs -> SUBSET Nat]
    /\ \A d \in Dcs : \A i : i # 0 /\ (i \in s.processed[d] \/ (d = x /\ i = m))
                           => i \in t.processed[d] \/ (d = x1 /\ i = m1)

(* It stays when less is on its way and more is processed.                 *)
LEMMA GoodWithLess ==
    ASSUME NEW s, NEW t, NEW kn, NEW dn, NEW kn1, NEW dn1, NEW h, NEW x, NEW m, NEW E, NEW x1, NEW m1,
           RpcGood(s, kn, dn, h, x, m, E), Less(s, kn, dn, x, m, t, kn1, dn1, x1, m1, h)
    PROVE  RpcGood(t, kn1, dn1, h, x1, m1, E)
<1> USE DEF Less
<1>1. /\ t.queue = s.queue /\ t.running = s.running /\ t.posted = s.posted
      /\ t.current = s.current /\ t.moving = s.moving /\ t.again = s.again
      /\ t.mid = s.mid /\ t.made = s.made
      /\ t.ended = s.ended /\ t.performed = s.performed /\ t.revived = s.revived
      /\ t.spoiled = s.spoiled
  BY DEF Same, FieldNames, Unconcerned
<1>2. RpcTyped(t) /\ Places(t, h) /\ Callbacks(t) /\ Made(t)
  BY <1>1, ZenonT(90) DEF RpcGood, RpcTyped, Places, Callbacks, Made
<1>3. Listed(t) /\ OneMove(t, h, E)
  <2>1. Moves(t) = Moves(s) /\ PostedMoves(t) = PostedMoves(s)
    BY <1>1 DEF Moves, PostedMoves
  <2>2. Unfinished(t, E) = Unfinished(s, E)
    BY <2>1 DEF Unfinished, Moves
  <2>3. Listed(t)
    BY <2>1, <1>1 DEF RpcGood, Listed, Moves
  <2> QED BY <2>1, <2>2, <2>3, <1>1 DEF RpcGood, OneMove, Moves
<1>4. \A r : r \in DOMAIN s.req => Rpc!Dc(t, r) = Rpc!Dc(s, r)
  BY <1>1 DEF Rpc!Dc, Rpc!DatacenterWithId
<1>5. Numbers(t, kn1, dn1)
  BY <1>1, <1>4 DEF RpcGood, Numbers
<1>6. Settled(t, h, x1, m1)
  <2> SUFFICES ASSUME NEW r \in DOMAIN s.req, IsAnswered(s, r, x, m)
               PROVE  IsAnswered(t, r, x1, m1)
    BY <1>1 DEF RpcGood, Settled
  <2>1. Rpc!Dc(s, r) \in Dcs
    BY DcInDcs
  <2> QED BY <2>1, <1>4 DEF IsAnswered
<1> QED BY <1>2, <1>3, <1>5, <1>6 DEF RpcGood

(* A request that is forgotten keeps its datacenter.                       *)
LEMMA ForgottenIs ==
    ASSUME NEW q \in Waiting
    PROVE  /\ Forgotten(q) \in Waiting /\ Forgotten(q).mid = 0
           /\ Forgotten(q).dc = q.dc /\ Forgotten(q).completed = q.completed
  BY DEF Waiting, Forgotten

(* t is s with the requests S cleared, and perhaps with other messages     *)
(* handled; no message of which the client forgets that it was handled     *)
(* belongs to a request that keeps its id.                                 *)
LEMMA GoodCleared ==
    ASSUME NEW s, NEW t, NEW kn, NEW dn, NEW h, NEW x, NEW m, NEW E, NEW S,
           RpcGood(s, kn, dn, h, x, m, E), S \subseteq Rpc!ToSet(s.running),
           Same(s, t, {"req", "revived", "spoiled", "processed"} \cup Unconcerned),
           t.req = Cleared(s.req, S),
           t.revived \subseteq s.revived \cup Requests, s.revived \subseteq t.revived,
           \A r \in S \cap Requests : s.req[r].completed => r \in t.revived,
           t.spoiled \in BOOLEAN, \A r \in S \ Requests : s.req[r].completed => t.spoiled,
           t.processed \in [Dcs -> SUBSET Nat],
           \A d \in Dcs : \/ t.processed[d] = s.processed[d]
                          \/ \A r \in Rpc!ToSet(s.running) : Rpc!Dc(s, r) = d => r \in S
    PROVE  t.spoiled \/ RpcGood(t, kn, dn, h, x, m, E)
<1> SUFFICES ASSUME ~t.spoiled PROVE RpcGood(t, kn, dn, h, x, m, E)
  OBVIOUS
<1>1. /\ t.queue = s.queue /\ t.running = s.running /\ t.posted = s.posted
      /\ t.current = s.current /\ t.moving = s.moving /\ t.again = s.again
      /\ t.mid = s.mid /\ t.made = s.made /\ t.up = s.up
      /\ t.ended = s.ended /\ t.performed = s.performed
  BY DEF Same, FieldNames, Unconcerned
<1>2. S \subseteq DOMAIN s.req /\ DOMAIN t.req = DOMAIN s.req
  BY DEF RpcGood, Listed, Cleared
<1>3. \A r \in DOMAIN s.req : s.req[r] \in Waiting
  BY DEF RpcGood, RpcTyped
<1>4. \A r \in DOMAIN s.req :
        /\ t.req[r] \in Waiting
        /\ t.req[r].dc = s.req[r].dc /\ t.req[r].completed = s.req[r].completed
        /\ t.req[r].mid = IF r \in S THEN 0 ELSE s.req[r].mid
  <2> TAKE r \in DOMAIN s.req
  <2>1. t.req[r] = IF r \in S THEN Forgotten(s.req[r]) ELSE s.req[r]
    BY <1>2 DEF Cleared
  <2> QED BY <2>1, <1>3, ForgottenIs
<1>5. \A r : r \in DOMAIN s.req => Rpc!Dc(t, r) = Rpc!Dc(s, r)
  BY <1>1, <1>4 DEF Rpc!Dc, Rpc!DatacenterWithId
<1>6. RpcTyped(t)
  <2>1. t.req \in [DOMAIN t.req -> Waiting]
    <3>1. t.req = [r \in DOMAIN t.req |-> t.req[r]]
      BY DEF Cleared
    <3> QED BY <3>1, <1>2, <1>4
  <2>2. t.revived \subseteq Requests /\ t.spoiled \in BOOLEAN
    BY DEF RpcGood, RpcTyped
  <2> QED BY <1>1, <1>2, <2>1, <2>2 DEF RpcGood, RpcTyped
<1>7. Places(t, h)
  BY <1>1, <1>2, <1>4 DEF RpcGood, Places
<1>8. Listed(t)
  <2>1. Moves(t) = Moves(s)
    BY <1>2 DEF Moves
  <2>2. \A r \in DOMAIN s.req : t.req[r].mid = 0 \/ t.req[r].mid = s.req[r].mid
    BY <1>4
  <2> QED BY <2>1, <2>2, <1>1, <1>2, <1>4 DEF RpcGood, Listed, Moves
<1>9. Numbers(t, kn, dn)
  <2>1. \A r \in DOMAIN s.req : t.req[r].mid = 0 \/ t.req[r].mid = s.req[r].mid
    BY <1>4
  <2>2. \A d \in Dcs : ~OnTheWay(s.up, kn, dn, d, 0)
    BY DEF RpcGood, Numbers
  <2>3. s.mid \in Nat
    BY DEF RpcGood, RpcTyped
  <2> QED BY <2>1, <2>2, <2>3, <1>1, <1>2, <1>4, <1>5 DEF RpcGood, Numbers
<1>10. OneMove(t, h, E)
  <2>1. Moves(t) = Moves(s)
    BY <1>2 DEF Moves
  <2>2. Unfinished(t, E) = Unfinished(s, E) /\ PostedMoves(t) = PostedMoves(s)
    BY <2>1, <1>1, <1>4 DEF Unfinished, Moves, PostedMoves
  <2> QED BY <2>1, <2>2, <1>1, <1>4 DEF RpcGood, OneMove, Moves
<1>11. Settled(t, h, x, m)
  <2> SUFFICES ASSUME NEW r \in DOMAIN s.req, s.req[r].completed
               PROVE  \/ r \in Rpc!ToSet(s.running) /\ IsAnswered(t, r, x, m)
                      \/ r \in t.revived
                      \/ /\ IsMove(r) /\ r[1] = "export" /\ s.req[r].dc = h /\ s.current = h
                         /\ r \in Rpc!ToSet(s.running)
    BY <1>1, <1>2, <1>4 DEF Settled
  <2>1. CASE r \in S
    <3>1. r \in Requests
      BY <2>1
    <3> QED BY <3>1, <2>1
  <2>2. CASE r \notin S
    <3>1. CASE r \in Rpc!ToSet(s.running) /\ IsAnswered(s, r, x, m)
      <4>1. t.req[r].mid = s.req[r].mid /\ s.req[r].mid # 0
        BY <1>4, <2>2, <3>1 DEF IsAnswered
      <4>2. Rpc!Dc(s, r) \in Dcs
        BY DcInDcs
      <4>3. t.processed[Rpc!Dc(s, r)] = s.processed[Rpc!Dc(s, r)]
        BY <4>2, <2>2, <3>1
      <4> QED BY <4>1, <4>3, <1>5, <3>1 DEF IsAnswered
    <3>2. CASE r \in s.revived
      BY <3>2
    <3>3. CASE /\ IsMove(r) /\ r[1] = "export" /\ s.req[r].dc = h /\ s.current = h
               /\ r \in Rpc!ToSet(s.running)
      BY <3>3
    <3> QED BY <3>1, <3>2, <3>3 DEF RpcGood, Settled
  <2> QED BY <2>1, <2>2
<1>12. Callbacks(t)
  BY <1>1, <1>2, <1>4 DEF RpcGood, Callbacks
<1>13. Made(t)
  BY <1>1, <1>2 DEF RpcGood, Made
<1> QED BY <1>6, <1>7, <1>8, <1>9, <1>10, <1>11, <1>12, <1>13 DEF RpcGood

(* The running requests that NewSessionCreated clears.                     *)
LEMMA ClearRequestsGood ==
    ASSUME NEW s, NEW kn, NEW dn, NEW h, NEW x, NEW m, NEW E, NEW S,
           Shape(s), RpcGood(s, kn, dn, h, x, m, E), S \subseteq Rpc!ToSet(s.running)
    PROVE  LET t == Rpc!ClearRequests(s, S)
           IN  t.spoiled \/ RpcGood(t, kn, dn, h, x, m, E)
<1> DEFINE t == Rpc!ClearRequests(s, S)
<1>1. /\ Same(s, t, {"req", "revived", "spoiled"})
      /\ t.req = Cleared(s.req, S)
      /\ t.revived \subseteq s.revived \cup Requests /\ s.revived \subseteq t.revived
      /\ \A r \in S \cap Requests : s.req[r].completed => r \in t.revived
      /\ t.spoiled \in BOOLEAN /\ \A r \in S \ Requests : s.req[r].completed => t.spoiled
  BY ClearRequestsIs DEF Grows
<1> HIDE DEF t
<1>2. /\ Same(s, t, {"req", "revived", "spoiled", "processed"} \cup Unconcerned)
      /\ t.processed = s.processed
  BY <1>1 DEF Same, FieldNames
<1>3. t.processed \in [Dcs -> SUBSET Nat] /\ \A d \in Dcs : t.processed[d] = s.processed[d]
  BY <1>2 DEF RpcGood, RpcTyped
<1>4. t.spoiled \/ RpcGood(t, kn, dn, h, x, m, E)
  BY <1>1, <1>2, <1>3, GoodCleared
<1> QED BY <1>4 DEF t

(* The sessions of a datacenter are made anew and its requests cleared.    *)
LEMMA SessionsAnew ==
    ASSUME NEW s, NEW kn, NEW dn, NEW h, NEW x, NEW m, NEW E, NEW d,
           Shape(s), d \in Dcs
    PROVE  LET t == Rpc!ClearRequestsForDatacenter(Rpc!RecreateSessions(s, d), d)
           IN  /\ Shape(t) /\ Grows(s, t)
               /\ Same(s, t, {"req", "revived", "spoiled", "processed", "session"})
               /\ t.spoiled \in BOOLEAN /\ \A r \in Rpc!RunningIn(s, d) \ Requests : s.req[r].completed => t.spoiled
               /\ t.req = Cleared(s.req, Rpc!RunningIn(s, d))
               /\ RpcGood(s, kn, dn, h, x, m, E) => t.spoiled \/ RpcGood(t, kn, dn, h, x, m, E)
<1> DEFINE u == Rpc!RecreateSessions(s, d)
           S == Rpc!RunningIn(u, d)
           t == Rpc!ClearRequests(u, S)
<1>1. Shape(u) /\ Grows(s, u) /\ Same(s, u, {"session", "processed"}) /\ u.processed = [s.processed EXCEPT ![d] = {}]
  BY RecreateSessionsIs
<1>2. t = Rpc!ClearRequestsForDatacenter(u, d)
  BY DEF Rpc!ClearRequestsForDatacenter
<1> HIDE DEF u
<1>3. u.running = s.running /\ u.req = s.req /\ u.current = s.current /\ u.revived = s.revived
      /\ u.spoiled = s.spoiled
  BY <1>1 DEF Same, FieldNames
<1>4. S = Rpc!RunningIn(s, d)
  BY <1>3 DEF Rpc!RunningIn, Rpc!Dc, Rpc!DatacenterWithId
<1> HIDE DEF S
<1>5. /\ Shape(t) /\ Grows(u, t)
      /\ Same(u, t, {"req", "revived", "spoiled"})
      /\ t.req = Cleared(u.req, S)
      /\ t.revived \subseteq u.revived \cup Requests /\ u.revived \subseteq t.revived
      /\ \A r \in S \cap Requests : u.req[r].completed => r \in t.revived
      /\ t.spoiled \in BOOLEAN /\ \A r \in S \ Requests : u.req[r].completed => t.spoiled
  BY <1>1, ClearRequestsIs DEF Grows
<1> HIDE DEF t
<1>6. /\ Same(s, t, {"req", "revived", "spoiled", "processed", "session"})
      /\ t.processed = [s.processed EXCEPT ![d] = {}]
  BY <1>1, <1>5 DEF Same, FieldNames
<1>7. /\ t.req = Cleared(s.req, S)
      /\ t.revived \subseteq s.revived \cup Requests /\ s.revived \subseteq t.revived
      /\ \A r \in S \cap Requests : s.req[r].completed => r \in t.revived
      /\ t.spoiled \in BOOLEAN /\ \A r \in S \ Requests : s.req[r].completed => t.spoiled
  BY <1>3, <1>5
<1>8. ASSUME RpcGood(s, kn, dn, h, x, m, E) PROVE t.spoiled \/ RpcGood(t, kn, dn, h, x, m, E)
  <2>1. t.processed \in [Dcs -> SUBSET Nat]
    BY <1>6, <1>8 DEF RpcGood, RpcTyped
  <2>2. \A e \in Dcs : e # d => t.processed[e] = s.processed[e]
    BY <1>6, <1>8 DEF RpcGood, RpcTyped
  <2>3. \A r \in Rpc!ToSet(s.running) : Rpc!Dc(s, r) = d => r \in S
    BY <1>4 DEF Rpc!RunningIn
  <2>4. S \subseteq Rpc!ToSet(s.running)
    BY <1>4 DEF Rpc!RunningIn
  <2>5. Same(s, t, {"req", "revived", "spoiled", "processed"} \cup Unconcerned)
    BY <1>6 DEF Same, Unconcerned
  <2>6. \A e \in Dcs : \/ t.processed[e] = s.processed[e]
                       \/ \A r \in Rpc!ToSet(s.running) : Rpc!Dc(s, r) = e => r \in S
    BY <2>2, <2>3
  <2> QED BY <1>7, <1>8, <2>1, <2>4, <2>5, <2>6, GoodCleared
<1>9. Grows(s, t)
  BY <1>1, <1>5, GrowsOn
<1> QED BY <1>2, <1>4, <1>5, <1>6, <1>7, <1>8, <1>9 DEF u, t

(* The operators that ConnectionsManager has from the community modules.   *)
LEMMA RpcOperators ==
    /\ \A l : Rpc!ToSet(l) = ToSet(l)
    /\ \A S : Rpc!Cardinality(S) = Cardinality(S)
  BY DEF Rpc!ToSet, ToSet, Rpc!Cardinality, Cardinality

(* Two lists, one after the other.                                         *)
LEMMA Joined ==
    ASSUME NEW S, NEW k \in Seq(S), NEW l \in Seq(S)
    PROVE  k \o l \in Seq(S) /\ Rpc!ToSet(k \o l) = Rpc!ToSet(k) \cup Rpc!ToSet(l)
<1> DEFINE a == Len(k)
           b == Len(l)
           j == k \o l
<1>1. /\ a \in Nat /\ b \in Nat /\ DOMAIN k = 1 .. a /\ DOMAIN l = 1 .. b
      /\ j \in Seq(S) /\ DOMAIN j = 1 .. a + b
      /\ \A i \in 1 .. a + b : j[i] = IF i <= a THEN k[i] ELSE l[i - a]
  OBVIOUS
<1> HIDE DEF a, b, j
<1>2. \A x \in Rpc!ToSet(j) : x \in Rpc!ToSet(k) \cup Rpc!ToSet(l)
  <2> TAKE x \in Rpc!ToSet(j)
  <2>1. PICK i \in 1 .. a + b : x = j[i]
    BY <1>1 DEF Rpc!ToSet
  <2>2. CASE i <= a
    <3>1. i \in 1 .. a
      BY <2>2, <1>1
    <3> QED BY <3>1, <2>1, <2>2, <1>1 DEF Rpc!ToSet
  <2>3. CASE ~(i <= a)
    <3>1. i - a \in 1 .. b
      BY <2>3, <1>1
    <3> QED BY <3>1, <2>1, <2>3, <1>1 DEF Rpc!ToSet
  <2> QED BY <2>2, <2>3
<1>3. \A x \in Rpc!ToSet(k) : x \in Rpc!ToSet(j)
  <2> TAKE x \in Rpc!ToSet(k)
  <2>1. PICK i \in 1 .. a : x = k[i]
    BY <1>1 DEF Rpc!ToSet
  <2>2. i \in 1 .. a + b /\ i <= a
    BY <1>1
  <2> QED BY <2>1, <2>2, <1>1 DEF Rpc!ToSet
<1>4. \A x \in Rpc!ToSet(l) : x \in Rpc!ToSet(j)
  <2> TAKE x \in Rpc!ToSet(l)
  <2>1. PICK i \in 1 .. b : x = l[i]
    BY <1>1 DEF Rpc!ToSet
  <2>2. i + a \in 1 .. a + b /\ ~(i + a <= a) /\ (i + a) - a = i
    BY <1>1
  <2> QED BY <2>1, <2>2, <1>1 DEF Rpc!ToSet
<1> QED BY <1>1, <1>2, <1>3, <1>4 DEF j

(* The requests that are sent again, and those that are sent first.        *)
LEMMA ResentIs ==
    ASSUME NEW s, NEW forced, NEW d, s.running \in Seq(Names)
    PROVE  /\ Rpc!Resent(s, forced, d) \in Seq(Names)
           /\ Rpc!ToSet(Rpc!Resent(s, forced, d)) \subseteq Rpc!ToSet(s.running)
           /\ \A r \in Rpc!ToSet(Rpc!Resent(s, forced, d)) : Rpc!Sendable(s, r)
<1> DEFINE T == {r \in Rpc!ToSet(s.running) :
                   /\ Rpc!Sendable(s, r)
                   /\ \/ forced /\ Rpc!Dc(s, r) = d
                      \/ s.req[r].due /\ s.req[r].on # Rpc!Dc(s, r)}
<1>1. Rpc!Resent(s, forced, d) = Rpc!Kept(s.running, T)
  BY DEF Rpc!Resent
<1>2. T \subseteq Rpc!ToSet(s.running) /\ \A r \in T : Rpc!Sendable(s, r)
  OBVIOUS
<1> HIDE DEF T
<1> QED BY <1>1, <1>2, KeptOf

(* processRequestQueue starts requests of the queue that can be sent.      *)
LEMMA StartedIs ==
    ASSUME NEW s, s.queue \in Seq(Names)
    PROVE  /\ Rpc!Started(s) \in Seq(Names)
           /\ Rpc!ToSet(Rpc!Started(s)) \subseteq Rpc!ToSet(s.queue)
           /\ \A r \in Rpc!ToSet(Rpc!Started(s)) : Rpc!Sendable(s, r)
<1> DEFINE T == {r \in Rpc!ToSet(s.queue) : Rpc!Sendable(s, r)}
           able == Rpc!Kept(s.queue, T)
           Place(l, r) == Rpc!Counted(SubSeq(l, 1, CHOOSE i \in DOMAIN l : l[i] = r))
           U(l) == {r \in Rpc!ToSet(l) :
                      Rpc!NeedsAnswer(r) => Rpc!Counted(s.running) + Place(l, r) <= MaxGeneric}
<1>1. Rpc!Started(s) = Rpc!Kept(able, U(able))
  BY DEF Rpc!Started, Rpc!Then
<1>2. \A r \in T : Rpc!Sendable(s, r)
  OBVIOUS
<1> HIDE DEF T, U
<1>3. able \in Seq(Names) /\ Rpc!ToSet(able) = Rpc!ToSet(s.queue) \cap T
  BY KeptOf
<1> HIDE DEF able
<1>4. /\ Rpc!Kept(able, U(able)) \in Seq(Names)
      /\ Rpc!ToSet(Rpc!Kept(able, U(able))) = Rpc!ToSet(able) \cap U(able)
  BY <1>3, KeptOf
<1> QED BY <1>1, <1>2, <1>3, <1>4

(* How many ids are drawn for the first i requests.                        *)
LEMMA FreshIs ==
    ASSUME NEW s, NEW rs, NEW n \in Nat
    PROVE  /\ \A i \in 0 .. n : Fresh(s, rs, i) \in Nat /\ Fresh(s, rs, i) <= Fresh(s, rs, n)
           /\ \A i \in 1 .. n : s.req[rs[i]].mid = 0 =>
                /\ Fresh(s, rs, i) > 0
                /\ \A j \in 1 .. n : i < j /\ s.req[rs[j]].mid = 0 => Fresh(s, rs, i) < Fresh(s, rs, j)
<1> DEFINE T(i) == {j \in 1 .. i : s.req[rs[j]].mid = 0}
<1>1. \A i \in 0 .. n : IsFiniteSet(T(i)) /\ Cardinality(T(i)) \in Nat
  <2> TAKE i \in 0 .. n
  <2>1. IsFiniteSet(1 .. i) /\ T(i) \subseteq 1 .. i
    BY FS_Interval
  <2> QED BY <2>1, FS_Subset, FS_CardinalityType
<1>2. \A i : Fresh(s, rs, i) = Cardinality(T(i))
  BY RpcOperators DEF Fresh
<1>3. \A i, j \in 0 .. n : i <= j => Cardinality(T(i)) <= Cardinality(T(j))
  <2> TAKE i, j \in 0 .. n
  <2> HAVE i <= j
  <2>1. T(i) \subseteq T(j)
    OBVIOUS
  <2> QED BY <2>1, <1>1, FS_Subset
<1>4. \A i, j \in 0 .. n : i < j /\ s.req[rs[j]].mid = 0 => Cardinality(T(i)) < Cardinality(T(j))
  <2> TAKE i, j \in 0 .. n
  <2> HAVE i < j /\ s.req[rs[j]].mid = 0
  <2>1. j \in T(j) /\ j \notin T(i) /\ T(i) \subseteq T(j)
    OBVIOUS
  <2> HIDE DEF T
  <2>2. T(i) # T(j)
    BY <2>1
  <2> QED BY <2>1, <2>2, <1>1, FS_Subset
<1> HIDE DEF T
<1>5. \A i \in 0 .. n : Fresh(s, rs, i) \in Nat /\ Fresh(s, rs, i) <= Fresh(s, rs, n)
  BY <1>1, <1>2, <1>3
<1>6. \A i \in 1 .. n : s.req[rs[i]].mid = 0 => Fresh(s, rs, i) > 0
  <2> TAKE i \in 1 .. n
  <2> HAVE s.req[rs[i]].mid = 0
  <2>1. Cardinality(T(0)) < Cardinality(T(i)) /\ Cardinality(T(0)) \in Nat /\ Cardinality(T(i)) \in Nat
    BY <1>1, <1>4
  <2> QED BY <2>1, <1>2
<1> QED BY <1>2, <1>4, <1>5, <1>6

(* The record of a request that is sent.                                   *)
LEMMA WithIdIs ==
    ASSUME NEW s, NEW rs, NEW r, s.req[r] \in Waiting, Rpc!Dc(s, r) \in Dcs,
           NEW n \in Nat, n = s.mid + Fresh(s, rs, CHOOSE i \in DOMAIN rs : rs[i] = r)
    PROVE  LET q == WithId(s, rs, r)
           IN  /\ q \in Waiting
               /\ q.mid = IF s.req[r].mid = 0 THEN n ELSE s.req[r].mid
               /\ q.dc = s.req[r].dc /\ q.completed = s.req[r].completed
<1> DEFINE p == s.req[r]
           e == Rpc!Dc(s, r)
           i == IF p.mid = 0 THEN n ELSE p.mid
<1>1. WithId(s, rs, r) = [p EXCEPT !.mid = i, !.on = e, !.due = FALSE]
  BY DEF WithId
<1>2. p \in Waiting /\ e \in Dcs /\ i \in Nat
  BY DEF Waiting
<1> HIDE DEF p, e, i
<1>3. [p EXCEPT !.mid = i, !.on = e, !.due = FALSE] \in Waiting
  BY <1>2 DEF Waiting
<1>4. /\ [p EXCEPT !.mid = i, !.on = e, !.due = FALSE].mid = i
      /\ [p EXCEPT !.mid = i, !.on = e, !.due = FALSE].dc = p.dc
      /\ [p EXCEPT !.mid = i, !.on = e, !.due = FALSE].completed = p.completed
  BY <1>2 DEF Waiting
<1> QED BY <1>1, <1>3, <1>4 DEF p, i

(* The ids of the requests tell them apart, and rs are among them.         *)
Numbered(s, rs) ==
    /\ s.mid \in Nat /\ s.req \in [DOMAIN s.req -> Waiting]
    /\ \A r \in DOMAIN s.req : s.req[r].mid <= s.mid
    /\ \A r, q \in DOMAIN s.req : s.req[r].mid = s.req[q].mid /\ s.req[r].mid # 0 => r = q
    /\ Rpc!ToSet(rs) \subseteq DOMAIN s.req
    /\ \A r \in Rpc!ToSet(rs) : Rpc!Dc(s, r) \in Dcs

(* The requests after they got their ids: who is listed first gets the     *)
(* smaller one of two new ids.                                             *)
LEMMA AllWithIdsAre ==
    ASSUME NEW s, NEW rs \in Seq(Names), Numbered(s, rs)
    PROVE  LET w == AllWithIds(s, rs)
               last == s.mid + Fresh(s, rs, Len(rs))
           IN  /\ last \in Nat /\ last >= s.mid
               /\ w \in [DOMAIN s.req -> Waiting]
               /\ \A r \in DOMAIN s.req : w[r].dc = s.req[r].dc /\ w[r].completed = s.req[r].completed
               /\ \A r \in DOMAIN s.req : r \notin Rpc!ToSet(rs) \/ s.req[r].mid # 0 => w[r].mid = s.req[r].mid
               /\ \A r \in Rpc!ToSet(rs) : /\ w[r].mid # 0 /\ w[r].mid <= last
                                           /\ s.req[r].mid = 0 => w[r].mid > s.mid
               /\ \A r, q \in DOMAIN s.req : w[r].mid = w[q].mid /\ w[r].mid # 0 => r = q
               /\ \A r \in DOMAIN s.req \ Rpc!ToSet(rs) : w[r] = s.req[r]
               /\ \A r, q \in Rpc!ToSet(rs) :
                     s.req[r].mid = 0 /\ s.req[q].mid = 0 /\ (\A i, j \in DOMAIN rs : rs[i] = r /\ rs[j] = q => i < j)
                       => w[r].mid < w[q].mid
<1> DEFINE w == AllWithIds(s, rs)
           n == Len(rs)
           at(r) == CHOOSE i \in DOMAIN rs : rs[i] = r
           F(i) == Fresh(s, rs, i)
           last == s.mid + F(n)
           T == Rpc!ToSet(rs)
<1>1. /\ n \in Nat /\ DOMAIN rs = 1 .. n /\ s.mid \in Nat /\ T \subseteq DOMAIN s.req
      /\ \A r \in DOMAIN s.req : s.req[r] \in Waiting /\ s.req[r].mid \in Nat /\ s.req[r].mid <= s.mid
  BY DEF Numbered, Waiting
<1>2. \A r \in T : at(r) \in 1 .. n /\ rs[at(r)] = r
  <2> TAKE r \in T
  <2>1. \E i \in DOMAIN rs : rs[i] = r
    BY DEF Rpc!ToSet
  <2> QED BY <2>1, <1>1
<1>3. /\ \A i \in 0 .. n : F(i) \in Nat /\ F(i) <= F(n)
      /\ \A i \in 1 .. n : s.req[rs[i]].mid = 0 =>
            /\ F(i) > 0
            /\ \A j \in 1 .. n : i < j /\ s.req[rs[j]].mid = 0 => F(i) < F(j)
  BY <1>1, FreshIs
<1> HIDE DEF at, n, T
<1>4. DOMAIN w = DOMAIN s.req /\ w = [r \in DOMAIN w |-> w[r]]
      /\ \A r \in DOMAIN s.req : w[r] = IF r \in T THEN WithId(s, rs, r) ELSE s.req[r]
  BY <1>1 DEF AllWithIds, T
<1>5. \A r \in T : /\ w[r] \in Waiting
                   /\ w[r].mid = IF s.req[r].mid = 0 THEN s.mid + F(at(r)) ELSE s.req[r].mid
                   /\ w[r].dc = s.req[r].dc /\ w[r].completed = s.req[r].completed
  <2> TAKE r \in T
  <2>1. r \in DOMAIN s.req /\ s.req[r] \in Waiting /\ w[r] = WithId(s, rs, r)
    BY <1>1, <1>4
  <2>2. Rpc!Dc(s, r) \in Dcs
    BY DEF Numbered, T
  <2>3. s.mid + F(at(r)) \in Nat
    BY <1>1, <1>2, <1>3
  <2> QED BY <2>1, <2>2, <2>3, WithIdIs DEF at
<1>6. \A r \in DOMAIN s.req \ T : w[r] = s.req[r]
  BY <1>4
<1> HIDE DEF w, F
<1>7. last \in Nat /\ last >= s.mid
  BY <1>1, <1>3
<1>8. \A r \in T : w[r].mid # 0 /\ w[r].mid <= last /\ (s.req[r].mid = 0 => w[r].mid > s.mid)
  <2> TAKE r \in T
  <2>1. r \in DOMAIN s.req /\ at(r) \in 1 .. n /\ at(r) \in 0 .. n /\ rs[at(r)] = r
    BY <1>1, <1>2
  <2>2. F(at(r)) \in Nat /\ F(at(r)) <= F(n) /\ F(n) \in Nat /\ (s.req[r].mid = 0 => F(at(r)) > 0)
    BY <2>1, <1>1, <1>3
  <2> QED BY <2>1, <2>2, <1>1, <1>5
<1>9. \A r \in DOMAIN s.req : r \notin T \/ s.req[r].mid # 0 => w[r].mid = s.req[r].mid
  BY <1>5, <1>6
<1>10. ASSUME NEW r \in T, NEW q \in T, s.req[r].mid = 0, s.req[q].mid = 0, w[r].mid = w[q].mid
       PROVE  r = q
  <2>1. s.mid + F(at(r)) = s.mid + F(at(q))
    BY <1>5, <1>10
  <2>2. at(r) \in 1 .. n /\ at(q) \in 1 .. n /\ rs[at(r)] = r /\ rs[at(q)] = q
    BY <1>2
  <2>3. F(at(r)) \in Nat /\ F(at(q)) \in Nat
    BY <2>2, <1>1, <1>3
  <2>4. F(at(r)) = F(at(q))
    BY <2>1, <2>3, <1>1
  <2>5. ~(at(r) < at(q)) /\ ~(at(q) < at(r))
    BY <2>2, <2>3, <2>4, <1>3, <1>10
  <2>6. at(r) = at(q)
    BY <2>2, <2>5, <1>1
  <2> QED BY <2>2, <2>6
<1>11. \A r, q \in DOMAIN s.req : w[r].mid = w[q].mid /\ w[r].mid # 0 => r = q
  <2> TAKE r, q \in DOMAIN s.req
  <2> HAVE w[r].mid = w[q].mid /\ w[r].mid # 0
  <2>1. CASE r \in T /\ s.req[r].mid = 0
    <3>1. w[r].mid > s.mid
      BY <2>1, <1>8
    <3>2. q \in T /\ s.req[q].mid = 0
      BY <3>1, <1>1, <1>9
    <3> QED BY <2>1, <3>2, <1>10
  <2>2. CASE q \in T /\ s.req[q].mid = 0
    <3>1. w[q].mid > s.mid
      BY <2>2, <1>8
    <3>2. r \in T /\ s.req[r].mid = 0
      BY <3>1, <1>1, <1>9
    <3> QED BY <2>2, <3>2, <1>10
  <2>3. CASE ~(r \in T /\ s.req[r].mid = 0) /\ ~(q \in T /\ s.req[q].mid = 0)
    <3>1. w[r].mid = s.req[r].mid /\ w[q].mid = s.req[q].mid
      BY <2>3, <1>9
    <3> QED BY <3>1 DEF Numbered
  <2> QED BY <2>1, <2>2, <2>3
<1>12. w \in [DOMAIN s.req -> Waiting]
  BY <1>1, <1>4, <1>5, <1>6
<1>13. \A r \in DOMAIN s.req : w[r].dc = s.req[r].dc /\ w[r].completed = s.req[r].completed
  BY <1>5, <1>6
<1>14. ASSUME NEW r \in T, NEW q \in T, s.req[r].mid = 0, s.req[q].mid = 0,
              \A i, j \in DOMAIN rs : rs[i] = r /\ rs[j] = q => i < j
       PROVE  w[r].mid < w[q].mid
  <2>1. at(r) \in 1 .. n /\ at(q) \in 1 .. n /\ rs[at(r)] = r /\ rs[at(q)] = q
    BY <1>2
  <2>2. at(r) < at(q)
    BY <2>1, <1>1, <1>14
  <2>3. F(at(r)) \in Nat /\ F(at(q)) \in Nat /\ F(at(r)) < F(at(q))
    BY <2>1, <2>2, <1>1, <1>3, <1>14
  <2> QED BY <2>3, <1>1, <1>5, <1>14
<1>15. \A r, q \in T :
          s.req[r].mid = 0 /\ s.req[q].mid = 0 /\ (\A i, j \in DOMAIN rs : rs[i] = r /\ rs[j] = q => i < j)
            => w[r].mid < w[q].mid
  BY <1>14
<1> HIDE DEF last
<1>16. T = Rpc!ToSet(rs) /\ w = AllWithIds(s, rs) /\ last = s.mid + Fresh(s, rs, Len(rs))
  BY DEF T, w, last, n, F
<1> QED BY <1>6, <1>7, <1>8, <1>9, <1>11, <1>12, <1>13, <1>15, <1>16

LEMMA AllWithIdsIs ==
    ASSUME NEW s, NEW kn, NEW dn, NEW h, NEW x, NEW m, NEW E, RpcGood(s, kn, dn, h, x, m, E),
           NEW rs \in Seq(Names), Rpc!ToSet(rs) \subseteq DOMAIN s.req
    PROVE  LET w == AllWithIds(s, rs)
               last == s.mid + Fresh(s, rs, Len(rs))
           IN  /\ last \in Nat /\ last >= s.mid
               /\ w \in [DOMAIN s.req -> Waiting]
               /\ \A r \in DOMAIN s.req : w[r].dc = s.req[r].dc /\ w[r].completed = s.req[r].completed
               /\ \A r \in DOMAIN s.req : r \notin Rpc!ToSet(rs) \/ s.req[r].mid # 0 => w[r].mid = s.req[r].mid
               /\ \A r \in Rpc!ToSet(rs) : /\ w[r].mid # 0 /\ w[r].mid <= last
                                           /\ s.req[r].mid = 0 => w[r].mid > s.mid
               /\ \A r, q \in DOMAIN s.req : w[r].mid = w[q].mid /\ w[r].mid # 0 => r = q
<1>1. /\ s.mid \in Nat /\ s.req \in [DOMAIN s.req -> Waiting]
      /\ \A r \in DOMAIN s.req : s.req[r].mid <= s.mid
      /\ \A r, q \in DOMAIN s.req : s.req[r].mid = s.req[q].mid /\ s.req[r].mid # 0 => r = q
  BY DEF RpcGood, RpcTyped, Numbers
<1>2. \A r \in Rpc!ToSet(rs) : Rpc!Dc(s, r) \in Dcs
  BY DcInDcs
<1>3. Numbered(s, rs)
  BY <1>1, <1>2 DEF Numbered
<1> QED BY <1>3, AllWithIdsAre

(* What remains of the requests when those started that need no answer are *)
(* forgotten.                                                              *)
Remaining(req, started) ==
    [r \in DOMAIN req \ (Rpc!ToSet(started) \ Rpc!Answerable(started)) |-> req[r]]

(* t is s when resent and started were sent.                               *)
SentAway(s, t, resent, started) ==
    LET rs == resent \o started
    IN  /\ Grows(s, t) /\ Same(s, t, {"req", "mid", "running", "queue", "up", "delayed"})
        /\ t.mid = s.mid + Fresh(s, rs, Len(rs))
        /\ t.running = s.running \o Rpc!Kept(started, Rpc!Answerable(started))
        /\ t.queue = Rpc!Kept(s.queue, Rpc!ToSet(s.queue) \ Rpc!ToSet(started))
        /\ t.req = Remaining(AllWithIds(s, rs), started)
        /\ t.delayed = s.delayed \cup (Rpc!Passed(s, rs) \cap Requests)
        /\ \E u : /\ u.req = AllWithIds(s, rs) /\ u.current = s.current /\ u.up = s.up /\ u.running = t.running
                  /\ t.up = Delivered(u, rs)

(* This is what SendAll does.                                              *)
LEMMA SendAllIs ==
    ASSUME NEW s, NEW resent, NEW started, Shape(s)
    PROVE  SentAway(s, Rpc!SendAll(s, resent, started), resent, started)
<1> DEFINE rs == resent \o started
           v == Rpc!WithIds(s, rs)
           u == Rpc!Begin(v, started)
           o == Rpc!Sent(u, rs)
           t == [o EXCEPT !.req = [r \in DOMAIN @ \ (Rpc!ToSet(started) \ Rpc!Answerable(started)) |-> @[r]],
                          !.delayed = @ \cup (Rpc!Passed(s, rs) \cap Requests)]
<1>1. Rpc!SendAll(s, resent, started) = t
  BY DEF Rpc!SendAll, Rpc!Then
<1> HIDE DEF rs
<1>2. /\ Shape(v) /\ Same(s, v, {"req", "mid"})
      /\ v.req = AllWithIds(s, rs) /\ v.mid = s.mid + Fresh(s, rs, Len(rs))
  BY WithIdsIs
<1> HIDE DEF v
<1>3. /\ Shape(u) /\ Same(v, u, {"running", "queue"})
      /\ u.running = v.running \o Rpc!Kept(started, Rpc!Answerable(started))
      /\ u.queue = Rpc!Kept(v.queue, Rpc!ToSet(v.queue) \ Rpc!ToSet(started))
  BY <1>2, BeginIs
<1> HIDE DEF u
<1>4. Shape(o) /\ Same(u, o, {"up"}) /\ o.up = Delivered(u, rs)
  BY <1>3, SentIs
<1> HIDE DEF o
<1>5. Same(s, o, {"req", "mid", "running", "queue", "up"})
  BY <1>2, <1>3, <1>4 DEF Same
<1>6. v.running = s.running /\ v.queue = s.queue /\ v.current = s.current /\ v.up = s.up
  BY <1>2 DEF Same, FieldNames
<1>7. u.req = v.req /\ u.mid = v.mid /\ u.current = v.current /\ u.up = v.up /\ o.delayed = s.delayed
  BY <1>2, <1>3, <1>4 DEF Same, FieldNames
<1>8. o.req = u.req /\ o.mid = u.mid /\ o.running = u.running /\ o.queue = u.queue
  BY <1>4 DEF Same, FieldNames
<1>9. /\ Shape(t) /\ Same(o, t, {"req", "delayed"}) /\ t.req = Remaining(o.req, started)
      /\ t.delayed = o.delayed \cup (Rpc!Passed(s, rs) \cap Requests)
  BY <1>4 DEF Shape, FieldNames, Same, Remaining
<1> HIDE DEF t
<1>10. /\ Same(s, t, {"req", "mid", "running", "queue", "up", "delayed"})
       /\ t.mid = o.mid /\ t.running = o.running /\ t.queue = o.queue /\ t.up = o.up
  BY <1>5, <1>9 DEF Same, FieldNames
<1>11. Grows(s, t)
  BY <1>9, <1>10, GrowsByFields
<1> QED BY <1>1, <1>2, <1>3, <1>4, <1>6, <1>7, <1>8, <1>9, <1>10, <1>11 DEF rs, SentAway

(* One packet at the end.                                                  *)
LEMMA OnePacketMore ==
    ASSUME NEW l, Packed(l), NEW p, \E n \in Nat : DOMAIN p.messages = 1 .. n
    PROVE  Packed(Append(l, p)) /\ Rpc!ToSet(Append(l, p)) = Rpc!ToSet(l) \cup {p}
<1> DEFINE S == Rpc!ToSet(l) \cup {p}
<1>1. l \in Seq(S)
  BY SeqMonotonic DEF Packed, IsList
<1>2. p \in S /\ S = Rpc!ToSet(l) \cup {p}
  OBVIOUS
<1> HIDE DEF S
<1>3. Append(l, p) \in Seq(S) /\ Rpc!ToSet(Append(l, p)) = Rpc!ToSet(l) \cup {p}
  BY <1>1, <1>2, OneAppended
<1>4. IsList(Append(l, p))
  BY <1>2, <1>3 DEF IsList
<1>5. \A q \in Rpc!ToSet(Append(l, p)) : \E n \in Nat : DOMAIN q.messages = 1 .. n
  BY <1>3 DEF Packed
<1> QED BY <1>3, <1>4, <1>5 DEF Packed

(* What the packets of rs bring on the way.                                *)
Brings(u, rs, D, kn, dn, up) ==
    /\ DOMAIN up = Dcs /\ \A d \in Dcs : Packed(up[d])
    /\ \A d \in Dcs \ D : up[d] = u.up[d]
    /\ \A d \in Dcs : \A i : OnTheWay(up, kn, dn, d, i) =>
          \/ OnTheWay(u.up, kn, dn, d, i)
          \/ \E r \in Rpc!ToSet(rs) : Rpc!Dc(u, r) = d /\ i = u.req[r].mid

(* The packets bring the ids of rs and new ones, to the datacenters of rs. *)
LEMMA DeliveredIs ==
    ASSUME NEW u, NEW rs \in Seq(Names), NEW D, NEW kn, NEW dn,
           DOMAIN u.up = Dcs, \A d \in Dcs : Packed(u.up[d]), D \subseteq Dcs,
           \A r \in Rpc!ToSet(rs) : Rpc!Dc(u, r) \in D
    PROVE  Brings(u, rs, D, kn, dn, Delivered(u, rs))
<1> DEFINE up == Delivered(u, rs)
<1>1. Goals(u, rs) \subseteq D
  BY DEF Goals
<1>2. /\ DOMAIN up = Dcs
      /\ \A d \in Dcs : up[d] = IF d \in Goals(u, rs) THEN Append(u.up[d], PacketFor(u, rs, d)) ELSE u.up[d]
  BY <1>1 DEF Delivered
<1> HIDE DEF up
<1>3. \A d \in Dcs : \A p : (\E n \in Nat : DOMAIN p.messages = 1 .. n) =>
        Packed(Append(u.up[d], p)) /\ Rpc!ToSet(Append(u.up[d], p)) = Rpc!ToSet(u.up[d]) \cup {p}
  BY OnePacketMore
<1>4. \A d \in Dcs : /\ \E n \in Nat : DOMAIN PacketFor(u, rs, d).messages = 1 .. n
                     /\ \A n \in DOMAIN PacketFor(u, rs, d).messages :
                            \E r \in Rpc!ToSet(rs) : Rpc!Dc(u, r) = d /\ PacketFor(u, rs, d).messages[n].mid = u.req[r].mid
  <2> TAKE d \in Dcs
  <2> DEFINE T == {r \in Rpc!ToSet(rs) : Rpc!Dc(u, r) = d}
             k == Rpc!Kept(rs, T)
             A(i) == Rpc!After(u, k, i)
  <2>1. k \in Seq(Names) /\ Rpc!ToSet(k) = Rpc!ToSet(rs) \cap T
    BY KeptOf
  <2>2. PacketFor(u, rs, d) = Rpc!Packet(u, d, k)
    BY DEF PacketFor
  <2>3. \A r \in T : Rpc!Dc(u, r) = d
    OBVIOUS
  <2> HIDE DEF k, T
  <2>4. PacketFor(u, rs, d).messages =
          [i \in DOMAIN k |-> [req |-> k[i], mid |-> u.req[k[i]].mid, after |-> A(i)]]
    BY <2>2 DEF Rpc!Packet
  <2>7. \E n \in Nat : DOMAIN PacketFor(u, rs, d).messages = 1 .. n
    BY <2>1, <2>4
  <2> HIDE DEF A
  <2> SUFFICES ASSUME NEW n \in DOMAIN k
               PROVE  \E r \in Rpc!ToSet(rs) : Rpc!Dc(u, r) = d /\ PacketFor(u, rs, d).messages[n].mid = u.req[r].mid
    BY <2>4, <2>7
  <2>5. PacketFor(u, rs, d).messages[n].mid = u.req[k[n]].mid
    BY <2>4
  <2>6. k[n] \in Rpc!ToSet(k)
    BY DEF Rpc!ToSet
  <2> QED BY <2>1, <2>3, <2>5, <2>6
<1>5. ASSUME NEW d \in Dcs, NEW i, OnTheWay(up, kn, dn, d, i)
      PROVE  \/ OnTheWay(u.up, kn, dn, d, i)
             \/ \E r \in Rpc!ToSet(rs) : Rpc!Dc(u, r) = d /\ i = u.req[r].mid
  <2>1. CASE \E p \in Rpc!ToSet(up[d]) : \E n \in DOMAIN p.messages : p.messages[n].mid = i
    <3>1. PICK p \in Rpc!ToSet(up[d]) : \E n \in DOMAIN p.messages : p.messages[n].mid = i
      BY <2>1
    <3>2. p \in Rpc!ToSet(u.up[d]) \/ p = PacketFor(u, rs, d)
      <4>1. CASE d \in Goals(u, rs)
        <5>1. up[d] = Append(u.up[d], PacketFor(u, rs, d))
          BY <4>1, <1>2
        <5>2. Rpc!ToSet(up[d]) = Rpc!ToSet(u.up[d]) \cup {PacketFor(u, rs, d)}
          BY <5>1, <1>3, <1>4
        <5> QED BY <5>2
      <4>2. CASE d \notin Goals(u, rs)
        BY <4>2, <1>2
      <4> QED BY <4>1, <4>2
    <3>3. CASE p \in Rpc!ToSet(u.up[d])
      BY <3>1, <3>3 DEF OnTheWay
    <3>4. CASE p = PacketFor(u, rs, d)
      BY <3>1, <3>4, <1>4
    <3> QED BY <3>2, <3>3, <3>4
  <2>2. CASE ~\E p \in Rpc!ToSet(up[d]) : \E n \in DOMAIN p.messages : p.messages[n].mid = i
    BY <2>2, <1>5 DEF OnTheWay
  <2> QED BY <2>1, <2>2
<1>6. \A d \in Dcs \ D : up[d] = u.up[d]
  BY <1>1, <1>2
<1>7. \A d \in Dcs : Packed(up[d])
  <2> TAKE d \in Dcs
  <2>1. Packed(Append(u.up[d], PacketFor(u, rs, d)))
    BY <1>3, <1>4
  <2> QED BY <2>1, <1>2
<1> QED BY <1>2, <1>5, <1>6, <1>7 DEF up, Brings

(* A request that runs goes on running under its id.                       *)
Keeps(s, t) ==
    \A r \in Rpc!ToSet(s.running) :
        /\ r \in Rpc!ToSet(t.running)
        /\ t.req[r].dc = s.req[r].dc /\ t.req[r].completed = s.req[r].completed
        /\ s.req[r].mid # 0 => t.req[r].mid = s.req[r].mid

(* Sending preserves what is right.                                        *)
LEMMA SendAllGood ==
    ASSUME NEW s, NEW kn, NEW dn, NEW h, NEW x, NEW m, NEW E, NEW resent \in Seq(Names), NEW started \in Seq(Names),
           Shape(s), RpcGood(s, kn, dn, h, x, m, E),
           Rpc!ToSet(resent) \subseteq Rpc!ToSet(s.running), Rpc!ToSet(started) \subseteq Rpc!ToSet(s.queue),
           \A r \in Rpc!ToSet(resent) \cup Rpc!ToSet(started) : Rpc!Sendable(s, r)
    PROVE  /\ RpcGood(Rpc!SendAll(s, resent, started), kn, dn, h, x, m, E)
           /\ Keeps(s, Rpc!SendAll(s, resent, started))
<1> DEFINE t == Rpc!SendAll(s, resent, started)
           rs == resent \o started
           w == AllWithIds(s, rs)
           last == s.mid + Fresh(s, rs, Len(rs))
           R == Rpc!ToSet(rs)
           gone == Rpc!ToSet(started) \ Rpc!Answerable(started)
<1>1. rs \in Seq(Names) /\ R = Rpc!ToSet(resent) \cup Rpc!ToSet(started)
  BY Joined
<1> HIDE DEF rs, R
<1>2. R \subseteq DOMAIN s.req
  BY <1>1 DEF RpcGood, Listed
<1>3. /\ last \in Nat /\ last >= s.mid
      /\ w \in [DOMAIN s.req -> Waiting]
      /\ \A r \in DOMAIN s.req : w[r].dc = s.req[r].dc /\ w[r].completed = s.req[r].completed
      /\ \A r \in DOMAIN s.req : r \notin R \/ s.req[r].mid # 0 => w[r].mid = s.req[r].mid
      /\ \A r \in R : w[r].mid # 0 /\ w[r].mid <= last /\ (s.req[r].mid = 0 => w[r].mid > s.mid)
      /\ \A r, q \in DOMAIN s.req : w[r].mid = w[q].mid /\ w[r].mid # 0 => r = q
  BY <1>1, <1>2, AllWithIdsIs DEF R
<1>4. /\ Same(s, t, {"req", "mid", "running", "queue", "up", "delayed"})
      /\ t.mid = last
      /\ t.running = s.running \o Rpc!Kept(started, Rpc!Answerable(started))
      /\ t.queue = Rpc!Kept(s.queue, Rpc!ToSet(s.queue) \ Rpc!ToSet(started))
      /\ t.req = Remaining(w, started)
      /\ \E u : u.req = w /\ u.current = s.current /\ u.up = s.up /\ t.up = Delivered(u, rs)
  <2>1. SentAway(s, t, resent, started)
    BY SendAllIs
  <2> HIDE DEF t
  <2> QED BY <2>1 DEF SentAway, rs
<1> HIDE DEF t, w, last
<1>5. /\ t.posted = s.posted /\ t.current = s.current /\ t.moving = s.moving /\ t.again = s.again
      /\ t.processed = s.processed /\ t.made = s.made /\ t.ended = s.ended
      /\ t.performed = s.performed /\ t.revived = s.revived /\ t.spoiled = s.spoiled
  BY <1>4 DEF Same, FieldNames
<1>6. \A r \in gone : ~Rpc!NeedsAnswer(r)
  BY DEF Rpc!Answerable
<1>7. /\ t.running \in Seq(Names) /\ t.queue \in Seq(Names)
      /\ Rpc!ToSet(t.running) = Rpc!ToSet(s.running) \cup Rpc!Answerable(started)
      /\ Rpc!ToSet(t.queue) = Rpc!ToSet(s.queue) \ Rpc!ToSet(started)
  <2>1. Rpc!Answerable(started) \subseteq Rpc!ToSet(started)
    BY DEF Rpc!Answerable
  <2> DEFINE k == Rpc!Kept(started, Rpc!Answerable(started))
  <2>2. k \in Seq(Names) /\ Rpc!ToSet(k) = Rpc!ToSet(started) \cap Rpc!Answerable(started)
    BY KeptOf
  <2>3. t.running = s.running \o k
    BY <1>4
  <2> HIDE DEF k
  <2>4. s.running \in Seq(Names) /\ s.queue \in Seq(Names)
    BY DEF RpcGood, RpcTyped
  <2>5. t.running \in Seq(Names) /\ Rpc!ToSet(t.running) = Rpc!ToSet(s.running) \cup Rpc!ToSet(k)
    BY <2>2, <2>3, <2>4, Joined
  <2>6. t.queue \in Seq(Names)
        /\ Rpc!ToSet(t.queue) = Rpc!ToSet(s.queue) \cap (Rpc!ToSet(s.queue) \ Rpc!ToSet(started))
    BY <1>4, <2>4, KeptOf
  <2> QED BY <2>1, <2>2, <2>5, <2>6
<1>8. /\ DOMAIN t.req = DOMAIN s.req \ gone /\ t.req \in [DOMAIN t.req -> Waiting]
      /\ \A r \in DOMAIN t.req : t.req[r] = w[r]
  <2>1. t.req = [r \in DOMAIN w \ gone |-> w[r]]
    BY <1>4 DEF Remaining
  <2> QED BY <2>1, <1>3
<1> HIDE DEF gone
<1>9. \A r \in Rpc!ToSet(t.running) : r \notin gone
  BY <1>6, <1>7 DEF Rpc!Answerable, RpcGood, Listed
<1>10. \A r : r \in DOMAIN s.req => Rpc!Dc(s, r) \in Dcs
  BY DcInDcs
<1>11. \A r : r \in DOMAIN t.req => Rpc!Dc(t, r) = Rpc!Dc(s, r)
  BY <1>3, <1>5, <1>8 DEF Rpc!Dc, Rpc!DatacenterWithId
<1>12. h = First => \A r \in DOMAIN s.req : Rpc!Dc(s, r) = First
  BY DEF RpcGood, Places, Rpc!Dc, Rpc!DatacenterWithId
<1>13. /\ DOMAIN t.up = Dcs /\ \A d \in Dcs : Packed(t.up[d])
       /\ \A d \in Dcs : h = First /\ d # First => t.up[d] = <<>>
       /\ \A d \in Dcs : \A i : OnTheWay(t.up, kn, dn, d, i) =>
              \/ OnTheWay(s.up, kn, dn, d, i)
              \/ \E r \in R : Rpc!Dc(s, r) = d /\ i = w[r].mid
  <2>1. PICK u : u.req = w /\ u.current = s.current /\ u.up = s.up /\ t.up = Delivered(u, rs)
    BY <1>4
  <2>2. \A r \in R : Rpc!Dc(u, r) = Rpc!Dc(s, r)
    BY <2>1, <1>2, <1>3 DEF Rpc!Dc, Rpc!DatacenterWithId
  <2> DEFINE D == {d \in Dcs : h = First => d = First}
  <2>3. D \subseteq Dcs /\ \A r \in Rpc!ToSet(rs) : Rpc!Dc(u, r) \in D
    BY <2>2, <1>2, <1>10, <1>12 DEF R
  <2>4. \A d \in Dcs : d \in D \/ (h = First /\ d # First => s.up[d] = <<>>)
    BY DEF RpcGood, Places
  <2>5. \A d \in Dcs : h = First /\ d # First => d \notin D /\ s.up[d] = <<>>
    BY DEF RpcGood, Places
  <2> HIDE DEF D
  <2>6. DOMAIN u.up = Dcs /\ \A d \in Dcs : Packed(u.up[d])
    BY <2>1 DEF RpcGood, RpcTyped
  <2>7. /\ DOMAIN t.up = Dcs /\ \A d \in Dcs : Packed(t.up[d])
        /\ \A d \in Dcs \ D : t.up[d] = u.up[d]
        /\ \A d \in Dcs : \A i : OnTheWay(t.up, kn, dn, d, i) =>
              \/ OnTheWay(u.up, kn, dn, d, i)
              \/ \E r \in R : Rpc!Dc(u, r) = d /\ i = u.req[r].mid
    <3> DEFINE up == Delivered(u, rs)
    <3>1. Brings(u, rs, D, kn, dn, up)
      BY <2>3, <2>6, <1>1, DeliveredIs
    <3>2. t.up = up /\ R = Rpc!ToSet(rs)
      BY <2>1 DEF R
    <3> HIDE DEF up
    <3> QED BY <3>1, <3>2 DEF Brings
  <2>8. \A d \in Dcs : h = First /\ d # First => t.up[d] = <<>>
    BY <2>1, <2>5, <2>7
  <2> QED BY <2>1, <2>2, <2>7, <2>8
<1>14. RpcTyped(t)
  BY <1>3, <1>4, <1>5, <1>7, <1>8, <1>13 DEF RpcGood, RpcTyped
<1>15. Places(t, h)
  BY <1>3, <1>5, <1>8, <1>13 DEF RpcGood, Places
<1>16. Moves(t) = Moves(s)
  <2>1. \A r \in gone : ~IsMove(r)
    BY <1>6 DEF IsMove, Rpc!NeedsAnswer, Rpc!Kind
  <2> QED BY <2>1, <1>8 DEF Moves
<1>17. Listed(t)
  <2>1. Rpc!ToSet(t.running) \subseteq DOMAIN t.req /\ Rpc!ToSet(t.queue) \subseteq DOMAIN t.req
    <3>1. gone \subseteq Rpc!ToSet(started) /\ Rpc!Answerable(started) \subseteq Rpc!ToSet(started)
      BY DEF gone, Rpc!Answerable
    <3> QED BY <3>1, <1>7, <1>8, <1>9 DEF RpcGood, Listed
  <2>2. \A r \in Rpc!ToSet(t.running) : Rpc!NeedsAnswer(r)
    BY <1>7 DEF RpcGood, Listed, Rpc!Answerable
  <2>3. \A r \in DOMAIN t.req \ Rpc!ToSet(t.running) : t.req[r].mid = 0
    <3> TAKE r \in DOMAIN t.req \ Rpc!ToSet(t.running)
    <3>1. r \notin Rpc!ToSet(s.running) /\ r \notin Rpc!ToSet(started)
      BY <1>7, <1>8 DEF gone
    <3>2. r \notin R /\ r \in DOMAIN s.req
      BY <3>1, <1>1, <1>8
    <3> QED BY <3>1, <3>2, <1>3, <1>8 DEF RpcGood, Listed
  <2>4. \A r \in DOMAIN t.req \cap Requests : r \in Rpc!ToSet(t.performed) /\ t.req[r].dc = None
    BY <1>3, <1>5, <1>8 DEF RpcGood, Listed
  <2>5. \A r \in Moves(t) : t.req[r].dc \in Dcs
    BY <1>3, <1>8, <1>16 DEF RpcGood, Listed, Moves
  <2>6. Rpc!ToSet(t.queue) \cap Rpc!ToSet(t.running) = {}
    <3>1. Rpc!Answerable(started) \subseteq Rpc!ToSet(started)
      BY DEF Rpc!Answerable
    <3> QED BY <3>1, <1>7 DEF RpcGood, Listed
  <2> QED BY <2>1, <2>2, <2>3, <2>4, <2>5, <2>6 DEF Listed
<1>18. Numbers(t, kn, dn)
  <2>1. s.mid \in Nat /\ \A r \in DOMAIN s.req : s.req[r].mid \in Nat /\ s.req[r].mid <= s.mid
    BY DEF RpcGood, RpcTyped, Numbers, Waiting
  <2>2. \A r \in DOMAIN s.req : w[r].mid \in Nat
    BY <1>3 DEF Waiting
  <2>3. \A r \in DOMAIN t.req : t.req[r].mid <= t.mid
    <3> TAKE r \in DOMAIN t.req
    <3>1. r \in DOMAIN s.req /\ t.req[r].mid = w[r].mid /\ t.mid = last
      BY <1>4, <1>8
    <3>2. CASE r \in R
      BY <3>1, <3>2, <1>3
    <3>3. CASE r \notin R
      BY <3>1, <3>3, <1>3, <2>1
    <3> QED BY <3>2, <3>3
  <2>4. \A r, q \in DOMAIN t.req : t.req[r].mid = t.req[q].mid /\ t.req[r].mid # 0 => r = q
    BY <1>3, <1>8
  <2>5. ASSUME NEW d \in Dcs, NEW i, OnTheWay(t.up, kn, dn, d, i)
        PROVE  i \in Nat /\ i > 0 /\ i <= t.mid
    <3>1. CASE OnTheWay(s.up, kn, dn, d, i)
      <4>1. i \in Nat /\ i > 0 /\ i <= s.mid
        BY <3>1 DEF RpcGood, Numbers
      <4> QED BY <4>1, <1>3, <1>4, <2>1
    <3>2. CASE \E r \in R : i = w[r].mid
      BY <3>2, <1>2, <1>3, <1>4, <2>2
    <3> QED BY <3>1, <3>2, <2>5, <1>13
  <2>6. ASSUME NEW d \in Dcs, NEW r \in DOMAIN t.req, OnTheWay(t.up, kn, dn, d, t.req[r].mid)
        PROVE  d = Rpc!Dc(t, r)
    <3>1. r \in DOMAIN s.req /\ t.req[r].mid = w[r].mid /\ w[r].mid # 0
      BY <1>8, <2>5, <2>6
    <3>2. CASE OnTheWay(s.up, kn, dn, d, w[r].mid)
      <4>1. w[r].mid \in Nat /\ w[r].mid > 0 /\ w[r].mid <= s.mid
        BY <3>2 DEF RpcGood, Numbers
      <4>2. w[r].mid = s.req[r].mid
        BY <4>1, <3>1, <2>1, <1>3
      <4>3. d = Rpc!Dc(s, r)
        BY <4>2, <3>1, <3>2 DEF RpcGood, Numbers
      <4> QED BY <4>3, <1>11
    <3>3. CASE \E q \in R : Rpc!Dc(s, q) = d /\ w[r].mid = w[q].mid
      <4>1. PICK q \in R : Rpc!Dc(s, q) = d /\ w[r].mid = w[q].mid
        BY <3>3
      <4>2. q = r
        BY <4>1, <3>1, <1>2, <1>3
      <4> QED BY <4>1, <4>2, <1>11
    <3> QED BY <3>1, <3>2, <3>3, <2>6, <1>13
  <2>7. \A r \in DOMAIN t.req : t.moving # None /\ t.req[r].dc = None => t.req[r].mid = 0
    <3> TAKE r \in DOMAIN t.req
    <3> HAVE t.moving # None /\ t.req[r].dc = None
    <3>1. r \in DOMAIN s.req /\ s.moving # None /\ s.req[r].dc = None
      BY <1>3, <1>5, <1>8
    <3>2. r \notin R
      BY <3>1, <1>1 DEF Rpc!Sendable, Rpc!MayUse, Rpc!Held
    <3> QED BY <3>1, <3>2, <1>3, <1>8 DEF RpcGood, Numbers
  <2> QED BY <2>3, <2>4, <2>5, <2>6, <2>7 DEF Numbers
<1>19. OneMove(t, h, E)
  <2>1. PostedMoves(t) = PostedMoves(s)
    BY <1>5 DEF PostedMoves
  <2>2. \A r \in Moves(s) : t.req[r].completed = s.req[r].completed /\ t.req[r].dc = s.req[r].dc
    BY <1>3, <1>8, <1>16 DEF Moves
  <2>3. Unfinished(t, E) = Unfinished(s, E)
    BY <2>2, <1>16 DEF Unfinished
  <2> QED BY <1>5, <1>16, <2>1, <2>2, <2>3 DEF RpcGood, OneMove
<1>20. Settled(t, h, x, m)
  <2> SUFFICES ASSUME NEW r \in DOMAIN t.req, t.req[r].completed
               PROVE  \/ r \in Rpc!ToSet(t.running) /\ IsAnswered(t, r, x, m)
                      \/ r \in t.revived
                      \/ /\ IsMove(r) /\ r[1] = "export" /\ t.req[r].dc = h /\ t.current = h
                         /\ r \in Rpc!ToSet(t.running)
    BY DEF Settled
  <2>1. r \in DOMAIN s.req /\ s.req[r].completed /\ t.req[r].dc = s.req[r].dc /\ t.req[r].mid = w[r].mid
    BY <1>3, <1>8
  <2>2. CASE r \in Rpc!ToSet(s.running) /\ IsAnswered(s, r, x, m)
    <3>1. w[r].mid = s.req[r].mid
      BY <2>1, <2>2, <1>3 DEF IsAnswered
    <3> QED BY <3>1, <2>1, <2>2, <1>5, <1>7, <1>11 DEF IsAnswered
  <2>3. CASE r \in s.revived
    BY <2>3, <1>5
  <2>4. CASE IsMove(r) /\ r[1] = "export" /\ s.req[r].dc = h /\ s.current = h /\ r \in Rpc!ToSet(s.running)
    BY <2>1, <2>4, <1>5, <1>7
  <2> QED BY <2>1, <2>2, <2>3, <2>4 DEF RpcGood, Settled
<1>21. Callbacks(t)
  BY <1>3, <1>5, <1>8 DEF RpcGood, Callbacks
<1>22. Made(t)
  BY <1>5, <1>8 DEF RpcGood, Made
<1>23. Keeps(s, t)
  <2>1. Rpc!ToSet(s.running) \subseteq DOMAIN s.req /\ Rpc!ToSet(s.running) \subseteq DOMAIN t.req
    BY <1>7, <1>8, <1>9 DEF RpcGood, Listed
  <2> QED BY <2>1, <1>3, <1>7, <1>8 DEF Keeps
<1> QED BY <1>23, <1>22, <1>14, <1>15, <1>17, <1>18, <1>19, <1>20, <1>21 DEF RpcGood, t

(* New ids may get on the way that no request has.                         *)
LEMMA GoodWithMore ==
    ASSUME NEW s, NEW t, NEW kn, NEW dn, NEW h, NEW x, NEW m, NEW E,
           RpcGood(s, kn, dn, h, x, m, E), Same(s, t, {"up", "mid"}),
           t.mid \in Nat, t.mid >= s.mid,
           DOMAIN t.up = Dcs, \A d \in Dcs : Packed(t.up[d]),
           \A d \in Dcs : h = First /\ d # First => t.up[d] = <<>>,
           \A d \in Dcs : \A i : OnTheWay(t.up, kn, dn, d, i) =>
              OnTheWay(s.up, kn, dn, d, i) \/ (i \in Nat /\ i > s.mid /\ i <= t.mid)
    PROVE  RpcGood(t, kn, dn, h, x, m, E)
<1>1. /\ t.queue = s.queue /\ t.running = s.running /\ t.req = s.req /\ t.posted = s.posted
      /\ t.current = s.current /\ t.moving = s.moving /\ t.again = s.again
      /\ t.processed = s.processed /\ t.made = s.made
      /\ t.ended = s.ended /\ t.performed = s.performed /\ t.revived = s.revived
      /\ t.spoiled = s.spoiled
  BY DEF Same, FieldNames
<1>2. RpcTyped(t) /\ Places(t, h) /\ Callbacks(t) /\ Made(t)
  BY <1>1 DEF RpcGood, RpcTyped, Places, Callbacks, Made
<1>3. Listed(t) /\ OneMove(t, h, E)
  BY <1>1 DEF RpcGood, Listed, OneMove, Moves, Unfinished, PostedMoves
<1>4. \A r : Rpc!Dc(t, r) = Rpc!Dc(s, r)
  BY <1>1 DEF Rpc!Dc, Rpc!DatacenterWithId
<1>5. Numbers(t, kn, dn)
  <2>1. s.mid \in Nat /\ \A r \in DOMAIN s.req : s.req[r].mid \in Nat /\ s.req[r].mid <= s.mid
    BY DEF RpcGood, RpcTyped, Numbers, Waiting
  <2>2. \A r \in DOMAIN t.req : t.req[r].mid <= t.mid
    BY <1>1, <2>1
  <2>3. \A d \in Dcs : \A i : OnTheWay(t.up, kn, dn, d, i) => i \in Nat /\ i > 0 /\ i <= t.mid
    <3> TAKE d \in Dcs
    <3> TAKE i
    <3> HAVE OnTheWay(t.up, kn, dn, d, i)
    <3>1. CASE OnTheWay(s.up, kn, dn, d, i)
      <4>1. i \in Nat /\ i > 0 /\ i <= s.mid
        BY <3>1 DEF RpcGood, Numbers
      <4> QED BY <4>1, <2>1
    <3>2. CASE i \in Nat /\ i > s.mid /\ i <= t.mid
      BY <3>2, <2>1
    <3> QED BY <3>1, <3>2
  <2>4. \A d \in Dcs, r \in DOMAIN t.req : OnTheWay(t.up, kn, dn, d, t.req[r].mid) => d = Rpc!Dc(t, r)
    BY <1>1, <1>4, <2>1 DEF RpcGood, Numbers
  <2> QED BY <2>2, <2>3, <2>4, <1>1 DEF RpcGood, Numbers
<1>6. Settled(t, h, x, m)
  BY <1>1, <1>4 DEF RpcGood, Settled, IsAnswered
<1> QED BY <1>2, <1>3, <1>5, <1>6 DEF RpcGood

(* generatePing preserves what is right.                                   *)
LEMMA GeneratePingGood ==
    ASSUME NEW s, NEW kn, NEW dn, NEW h, NEW x, NEW m, NEW E, Shape(s), RpcGood(s, kn, dn, h, x, m, E)
    PROVE  RpcGood(Rpc!GeneratePing(s), kn, dn, h, x, m, E)
<1> DEFINE t == Rpc!GeneratePing(s)
           p == [session |-> s.session[s.current],
                 messages |-> <<[req |-> <<"ping", 0>>, mid |-> s.mid + 1, after |-> 0]>>]
<1>1. /\ Same(s, t, {"up", "mid"})
      /\ \/ t = s
         \/ t.mid = s.mid + 1 /\ t.up = [s.up EXCEPT ![s.current] = Append(@, p)]
  BY GeneratePingIs
<1>2. /\ \A n \in DOMAIN p.messages : p.messages[n].mid = s.mid + 1
      /\ \E n \in Nat : DOMAIN p.messages = 1 .. n
  <2>1. DOMAIN p.messages = 1 .. 1 /\ \A n \in DOMAIN p.messages : p.messages[n].mid = s.mid + 1
    OBVIOUS
  <2>2. 1 \in Nat
    OBVIOUS
  <2> HIDE DEF p
  <2> QED BY <2>1, <2>2
<1> HIDE DEF t, p
<1>3. CASE t = s
  BY <1>3 DEF t
<1>4. CASE t.mid = s.mid + 1 /\ t.up = [s.up EXCEPT ![s.current] = Append(@, p)]
  <2>1. /\ s.mid \in Nat /\ s.current \in Dcs /\ DOMAIN s.up = Dcs /\ \A d \in Dcs : Packed(s.up[d])
        /\ h = First => s.current = First
    BY RpcAssumption DEF RpcGood, RpcTyped, Places, Rpc!DcsAssumption
  <2>2. /\ DOMAIN t.up = Dcs
        /\ \A d \in Dcs : t.up[d] = IF d = s.current THEN Append(s.up[d], p) ELSE s.up[d]
    BY <1>4, <2>1
  <2>3. \A d \in Dcs : /\ Packed(t.up[d])
                       /\ \A q \in Rpc!ToSet(t.up[d]) : q \in Rpc!ToSet(s.up[d]) \/ q = p
    <3> TAKE d \in Dcs
    <3>1. CASE d = s.current
      <4>1. t.up[d] = Append(s.up[d], p)
        BY <3>1, <2>2
      <4>6. Packed(Append(s.up[d], p)) /\ Rpc!ToSet(Append(s.up[d], p)) = Rpc!ToSet(s.up[d]) \cup {p}
        BY <2>1, <1>2, OnePacketMore
      <4> QED BY <4>1, <4>6
    <3>2. CASE d # s.current
      BY <3>2, <2>1, <2>2
    <3> QED BY <3>1, <3>2
  <2>4. \A d \in Dcs : \A i : OnTheWay(t.up, kn, dn, d, i) =>
          OnTheWay(s.up, kn, dn, d, i) \/ (i \in Nat /\ i > s.mid /\ i <= t.mid)
    <3> TAKE d \in Dcs
    <3> TAKE i
    <3> HAVE OnTheWay(t.up, kn, dn, d, i)
    <3>1. CASE \E q \in Rpc!ToSet(t.up[d]) : \E n \in DOMAIN q.messages : q.messages[n].mid = i
      <4>1. PICK q \in Rpc!ToSet(t.up[d]) : \E n \in DOMAIN q.messages : q.messages[n].mid = i
        BY <3>1
      <4>2. CASE q \in Rpc!ToSet(s.up[d])
        BY <4>1, <4>2 DEF OnTheWay
      <4>3. CASE q = p
        <5>1. i = s.mid + 1
          BY <4>1, <4>3, <1>2
        <5> QED BY <5>1, <2>1, <1>4
      <4> QED BY <4>2, <4>3, <2>3
    <3>2. CASE ~\E q \in Rpc!ToSet(t.up[d]) : \E n \in DOMAIN q.messages : q.messages[n].mid = i
      BY <3>2 DEF OnTheWay
    <3> QED BY <3>1, <3>2
  <2>5. \A d \in Dcs : h = First /\ d # First => t.up[d] = <<>>
    BY <2>1, <2>2 DEF RpcGood, Places
  <2>6. t.mid \in Nat /\ t.mid >= s.mid
    BY <1>4, <2>1
  <2>7. \A d \in Dcs : Packed(t.up[d])
    BY <2>3
  <2> QED BY <1>1, <2>2, <2>4, <2>5, <2>6, <2>7, GoodWithMore DEF t
<1> QED BY <1>1, <1>3, <1>4 DEF t

(* What processRequestQueue may change.                                    *)
Sending == {"req", "mid", "running", "queue", "up", "delayed", "wanted", "handshakes"}

(* processRequestQueue preserves what is right, whatever it is called      *)
(* with.                                                                   *)
LEMMA ProcessRequestQueueGood ==
    ASSUME NEW s, NEW forced, NEW d, Shape(s)
    PROVE  LET t == Rpc!ProcessRequestQueue(s, forced, d)
           IN  /\ Grows(s, t) /\ Same(s, t, Sending)
               /\ \A kn, dn, h, x, m, E :
                    RpcGood(s, kn, dn, h, x, m, E) => RpcGood(t, kn, dn, h, x, m, E) /\ Keeps(s, t)
<1> DEFINE rs == Rpc!ToSet(s.running) \cup Rpc!ToSet(s.queue)
           asked == [s EXCEPT !.wanted = @ \cup Rpc!Wanted(s, rs) \cup Rpc!Needed(s, rs),
                              !.handshakes = @ \cup Rpc!Needed(s, rs)]
           resent == Rpc!Resent(s, forced, d)
           started == Rpc!Started(s)
           sent == Rpc!SendAll(asked, resent, started)
           pinged == IF forced /\ (d = None \/ sent.up[d] = s.up[d]) THEN Rpc!GeneratePing(sent) ELSE sent
           t == Rpc!ProcessRequestQueue(s, forced, d)
<1>1. t = s \/ t = pinged
  BY DEF Rpc!ProcessRequestQueue, Rpc!Then
<1>2. Shape(asked)
  BY DEF Shape, FieldNames
<1>3. Same(s, asked, {"wanted", "handshakes"})
  BY DEF Same, Shape, FieldNames
<1> HIDE DEF asked, resent, started, t
<1>4. SentAway(asked, sent, resent, started)
  BY <1>2, SendAllIs
<1>5. Grows(asked, sent) /\ Same(asked, sent, {"req", "mid", "running", "queue", "up", "delayed"})
  BY <1>4 DEF SentAway
<1> HIDE DEF sent
<1>6. Shape(sent) /\ Same(s, sent, Sending)
  BY <1>3, <1>5 DEF Same, Sending, Grows
<1>7. Shape(pinged) /\ Same(s, pinged, Sending)
  <2>1. Shape(Rpc!GeneratePing(sent)) /\ Same(sent, Rpc!GeneratePing(sent), {"up", "mid"})
    BY <1>6, GeneratePingIs
  <2>2. Same(s, Rpc!GeneratePing(sent), Sending)
    BY <2>1, <1>6 DEF Same, Sending
  <2> QED BY <2>1, <2>2, <1>6
<1>8. Shape(t) /\ Same(s, t, Sending)
  BY <1>1, <1>7 DEF Same
<1>9. Grows(s, t)
  BY <1>8, GrowsByFields DEF Sending
<1>10. ASSUME NEW kn, NEW dn, NEW h, NEW x, NEW m, NEW E, RpcGood(s, kn, dn, h, x, m, E)
       PROVE  RpcGood(t, kn, dn, h, x, m, E) /\ Keeps(s, t)
  <2>1. RpcGood(asked, kn, dn, h, x, m, E)
    <3>1. Same(s, asked, Unconcerned)
      BY <1>3 DEF Same, Unconcerned
    <3> QED BY <1>10, <3>1, GoodStays
  <2>2. /\ asked.running = s.running /\ asked.queue = s.queue
        /\ \A r : Rpc!Sendable(s, r) => Rpc!Sendable(asked, r)
    BY <1>3 DEF Same, FieldNames, Rpc!Sendable, Rpc!MayUse, Rpc!Authorized, Rpc!Held, Rpc!Dc, Rpc!DatacenterWithId
  <2>3. s.running \in Seq(Names) /\ s.queue \in Seq(Names)
    BY <1>10 DEF RpcGood, RpcTyped
  <2>4. /\ resent \in Seq(Names) /\ Rpc!ToSet(resent) \subseteq Rpc!ToSet(asked.running)
        /\ \A r \in Rpc!ToSet(resent) : Rpc!Sendable(asked, r)
    BY <2>2, <2>3, ResentIs DEF resent
  <2>5. /\ started \in Seq(Names) /\ Rpc!ToSet(started) \subseteq Rpc!ToSet(asked.queue)
        /\ \A r \in Rpc!ToSet(started) : Rpc!Sendable(asked, r)
    BY <2>2, <2>3, StartedIs DEF started
  <2>6. RpcGood(sent, kn, dn, h, x, m, E) /\ Keeps(asked, sent)
    BY <1>2, <2>1, <2>4, <2>5, SendAllGood DEF sent
  <2>7. RpcGood(Rpc!GeneratePing(sent), kn, dn, h, x, m, E)
    BY <1>6, <2>6, GeneratePingGood
  <2>8. RpcGood(pinged, kn, dn, h, x, m, E)
    BY <2>6, <2>7
  <2>9. Keeps(s, pinged)
    <3>1. asked.req = s.req /\ asked.running = s.running
      BY <1>3 DEF Same, FieldNames
    <3>2. Keeps(s, sent)
      BY <2>6, <3>1 DEF Keeps
    <3>3. Rpc!GeneratePing(sent).req = sent.req /\ Rpc!GeneratePing(sent).running = sent.running
      BY <1>6, GeneratePingIs DEF Same, FieldNames
    <3>4. Keeps(s, Rpc!GeneratePing(sent))
      BY <3>2, <3>3 DEF Keeps
    <3> QED BY <3>2, <3>4
  <2>10. Keeps(s, s)
    BY DEF Keeps
  <2> HIDE DEF pinged
  <2> QED BY <1>1, <1>10, <2>8, <2>9, <2>10
<1> QED BY <1>8, <1>9, <1>10 DEF t

(* Whether a record of a request changes with its connection only.         *)
LEMMA UnlinkGood ==
    ASSUME NEW s, NEW kn, NEW dn, NEW h, NEW x, NEW m, NEW E, NEW d \in Dcs,
           Shape(s), RpcGood(s, kn, dn, h, x, m, E)
    PROVE  RpcGood(Rpc!Unlink(s, d), kn, dn, h, x, m, E) /\ Keeps(s, Rpc!Unlink(s, d))
<1> DEFINE t == Rpc!Unlink(s, d)
<1>1. /\ Same(s, t, {"linked", "up", "req"})
      /\ t.up = [s.up EXCEPT ![d] = <<>>]
      /\ t.req = Unlinked(s.req, d)
  BY UnlinkIs
<1> HIDE DEF t
<1>2. /\ Same(s, t, {"req", "up", "processed"} \cup Unconcerned)
      /\ t.processed = s.processed /\ t.running = s.running
  BY <1>1 DEF Same, FieldNames, Unconcerned
<1>3. DOMAIN t.req = DOMAIN s.req /\ t.req = [r \in DOMAIN t.req |-> t.req[r]]
      /\ \A r \in DOMAIN s.req : t.req[r] = [s.req[r] EXCEPT !.on = IF @ = d THEN None ELSE @]
  BY <1>1 DEF Unlinked
<1>4. \A q \in Waiting : LET p == [q EXCEPT !.on = IF @ = d THEN None ELSE @]
                         IN  p \in Waiting /\ p.dc = q.dc /\ p.mid = q.mid /\ p.completed = q.completed
  BY DEF Waiting
<1>5. \A r \in DOMAIN s.req :
        /\ t.req[r] \in Waiting
        /\ t.req[r].dc = s.req[r].dc /\ t.req[r].mid = s.req[r].mid
        /\ t.req[r].completed = s.req[r].completed
  <2> TAKE r \in DOMAIN s.req
  <2>1. s.req[r] \in Waiting
    BY DEF RpcGood, RpcTyped
  <2> QED BY <2>1, <1>3, <1>4
<1>6. t.req \in [DOMAIN s.req -> Waiting]
  BY <1>3, <1>5
<1>7. DOMAIN s.up = Dcs /\ \A e \in Dcs : Packed(s.up[e])
  BY DEF RpcGood, RpcTyped
<1>8. DOMAIN t.up = Dcs /\ \A e \in Dcs : t.up[e] = s.up[e] \/ t.up[e] = <<>>
  BY <1>1, <1>7
<1>9. Packed(<<>>) /\ Rpc!ToSet(<<>>) = {}
  BY DEF Packed, IsList, Rpc!ToSet
<1>10. \A e \in Dcs : Packed(t.up[e])
  BY <1>7, <1>8, <1>9
<1>11. \A e \in Dcs : \A i : OnTheWay(t.up, kn, dn, e, i) => OnTheWay(s.up, kn, dn, e, i)
  BY <1>8, <1>9 DEF OnTheWay
<1>12. \A e \in Dcs : h = First /\ e # First => t.up[e] = <<>>
  BY <1>8 DEF RpcGood, Places
<1>13. t.processed \in [Dcs -> SUBSET Nat]
  BY <1>2 DEF RpcGood, RpcTyped
<1>14. \A e \in Dcs : \A i : i # 0 /\ (i \in s.processed[e] \/ (e = x /\ i = m))
                               => i \in t.processed[e] \/ (e = x /\ i = m)
  BY <1>2
<1>15. RpcGood(t, kn, dn, h, x, m, E)
  <2>1. Less(s, kn, dn, x, m, t, kn, dn, x, m, h)
    BY <1>2, <1>3, <1>5, <1>6, <1>8, <1>10, <1>11, <1>12, <1>13, <1>14 DEF Less
  <2> QED BY <2>1, GoodWithLess
<1>16. Keeps(s, t)
  BY <1>2, <1>5 DEF Keeps, RpcGood, Listed
<1> QED BY <1>15, <1>16 DEF t

(* A move begins when no request for the default datacenter has an id.     *)
LEMMA MoveBegins ==
    ASSUME NEW s, NEW t, NEW kn, NEW dn, NEW h, NEW x, NEW m, NEW E,
           RpcGood(s, kn, dn, h, x, m, E), Same(s, t, {"moving"}),
           h # First, t.moving = h,
           \A r \in DOMAIN s.req : s.req[r].dc = None => s.req[r].mid = 0
    PROVE  RpcGood(t, kn, dn, h, x, m, E)
<1>1. /\ t.queue = s.queue /\ t.running = s.running /\ t.req = s.req /\ t.posted = s.posted
      /\ t.current = s.current /\ t.again = s.again
      /\ t.processed = s.processed /\ t.mid = s.mid /\ t.made = s.made /\ t.up = s.up
      /\ t.ended = s.ended /\ t.performed = s.performed /\ t.revived = s.revived
      /\ t.spoiled = s.spoiled
  BY DEF Same, FieldNames
<1>2. RpcTyped(t) /\ Places(t, h) /\ Callbacks(t) /\ Made(t)
  BY <1>1 DEF RpcGood, RpcTyped, Places, Callbacks, Made
<1>3. Listed(t) /\ OneMove(t, h, E)
  BY <1>1 DEF RpcGood, Listed, OneMove, Moves, Unfinished, PostedMoves
<1>4. \A r : Rpc!Dc(t, r) = Rpc!Dc(s, r)
  BY <1>1 DEF Rpc!Dc, Rpc!DatacenterWithId
<1>5. Numbers(t, kn, dn)
  BY <1>1, <1>4 DEF RpcGood, Numbers
<1>6. Settled(t, h, x, m)
  BY <1>1, <1>4 DEF RpcGood, Settled, IsAnswered
<1> QED BY <1>2, <1>3, <1>5, <1>6 DEF RpcGood

(* A move ends when none of its requests is unfinished.                    *)
LEMMA MoveEnds ==
    ASSUME NEW s, NEW t, NEW kn, NEW dn, NEW h, NEW x, NEW m, NEW E,
           RpcGood(s, kn, dn, h, x, m, E),
           Same(s, t, {"current", "moving"} \cup Unconcerned),
           h # First, s.moving = h, t.current = h, t.moving = None,
           Unfinished(s, E) = {}, PostedMoves(s) = {}
    PROVE  RpcGood(t, kn, dn, h, x, m, E)
<1>1. /\ t.queue = s.queue /\ t.running = s.running /\ t.req = s.req /\ t.posted = s.posted
      /\ t.again = s.again
      /\ t.processed = s.processed /\ t.mid = s.mid /\ t.made = s.made /\ t.up = s.up
      /\ t.ended = s.ended /\ t.performed = s.performed /\ t.revived = s.revived
      /\ t.spoiled = s.spoiled
  BY DEF Same, FieldNames, Unconcerned
<1>2. RpcTyped(t) /\ Places(t, h) /\ Callbacks(t) /\ Made(t) /\ Listed(t)
  BY <1>1 DEF RpcGood, RpcTyped, Places, Callbacks, Made, Listed, Moves
<1>3. OneMove(t, h, E)
  <2>1. Unfinished(t, E) = {} /\ PostedMoves(t) = {} /\ Moves(t) = Moves(s)
    BY <1>1 DEF Moves, Unfinished, PostedMoves
  <2> QED BY <2>1, <1>1 DEF RpcGood, OneMove
<1>4. \A r : r \in DOMAIN s.req /\ s.req[r].mid # 0 => Rpc!Dc(t, r) = Rpc!Dc(s, r)
  <2> TAKE r
  <2> HAVE r \in DOMAIN s.req /\ s.req[r].mid # 0
  <2>1. s.req[r].dc # None
    BY RpcAssumption DEF RpcGood, Numbers, Places, Rpc!DcsAssumption
  <2> QED BY <2>1, <1>1 DEF Rpc!Dc, Rpc!DatacenterWithId
<1>5. Numbers(t, kn, dn)
  <2>1. \A d \in Dcs : ~OnTheWay(s.up, kn, dn, d, 0)
    BY DEF RpcGood, Numbers
  <2> QED BY <2>1, <1>1, <1>4 DEF RpcGood, Numbers
<1>6. Settled(t, h, x, m)
  BY <1>1, <1>4 DEF RpcGood, Settled, IsAnswered
<1> QED BY <1>2, <1>3, <1>5, <1>6 DEF RpcGood

(* performRpc, for the requests of the class's own.                        *)
LEMMA PerformRpcGood ==
    ASSUME NEW s, NEW kn, NEW dn, NEW h, NEW x, NEW m, NEW E,
           NEW kind \in {"export", "import", "drop"}, NEW about \in Dcs \cup Requests, NEW to \in Dcs \cup {None},
           Shape(s), RpcGood(s, kn, dn, h, x, m, E),
           h = First => to = None,
           kind # "drop" => to \in Dcs /\ s.moving = h /\ Unfinished(s, E) = {} /\ PostedMoves(s) = {},
           kind = "export" => about = h /\ (to = h => s.current = h)
    PROVE  RpcGood(Rpc!PerformRpc(s, kind, about, to), kn, dn, h, x, m, E)
<1> DEFINE t == Rpc!PerformRpc(s, kind, about, to)
           own == <<kind, s.made, about>>
           p == [req |-> own, dc |-> to]
           n == Len(s.posted)
<1>1. /\ Same(s, t, {"posted", "made"})
      /\ t.posted = Append(s.posted, p) /\ t.made = s.made + 1
  BY PerformRpcIs
<1> HIDE DEF t
<1>2. /\ t.queue = s.queue /\ t.running = s.running /\ t.req = s.req
      /\ t.current = s.current /\ t.moving = s.moving /\ t.again = s.again
      /\ t.processed = s.processed /\ t.mid = s.mid /\ t.up = s.up
      /\ t.ended = s.ended /\ t.performed = s.performed /\ t.revived = s.revived
      /\ t.spoiled = s.spoiled
  BY <1>1 DEF Same, FieldNames
<1>3. s.made \in Nat /\ s.posted \in Seq(Posts)
  BY DEF RpcGood, RpcTyped
<1>4. own \in Rpc!Own /\ own[1] = kind /\ own[2] = s.made /\ own[3] = about
  BY <1>3 DEF Rpc!Own
<1>5. p \in Posts /\ p.req = own /\ p.dc = to
  BY <1>4 DEF Posts
<1>6. own \notin Requests
  BY <1>4, RpcAssumption DEF Rpc!RequestsAssumption
<1> HIDE DEF own, p
<1>7. /\ n \in Nat /\ DOMAIN s.posted = 1 .. n /\ t.posted \in Seq(Posts)
      /\ DOMAIN t.posted = 1 .. n + 1 /\ t.posted[n + 1] = p
      /\ \A i \in 1 .. n : t.posted[i] = s.posted[i]
  BY <1>1, <1>3, <1>5
<1> HIDE DEF n
<1>8. RpcTyped(t)
  BY <1>1, <1>2, <1>3, <1>7 DEF RpcGood, RpcTyped
<1>9. Places(t, h)
  <2>1. h = First => \A i \in DOMAIN t.posted : t.posted[i].dc = None
    BY <1>5, <1>7 DEF RpcGood, Places
  <2> QED BY <2>1, <1>2 DEF RpcGood, Places
<1>10. Listed(t) /\ Callbacks(t)
  BY <1>2 DEF RpcGood, Listed, Callbacks, Moves
<1>11. \A r : Rpc!Dc(t, r) = Rpc!Dc(s, r)
  BY <1>2 DEF Rpc!Dc, Rpc!DatacenterWithId
<1>12. Numbers(t, kn, dn) /\ Settled(t, h, x, m)
  BY <1>2, <1>11 DEF RpcGood, Numbers, Settled, IsAnswered
<1>13. Made(t)
  <2>1. \A i \in 1 .. n : s.posted[i] \in Posts /\ s.posted[i].req \in Rpc!Own /\ s.posted[i].req[2] \in Nat
    <3>1. \A i \in 1 .. n : s.posted[i] \in Posts
      BY <1>3, <1>7
    <3>2. \A q \in Posts : q.req \in Rpc!Own
      BY DEF Posts
    <3>3. \A q \in Rpc!Own : q[2] \in Nat
      BY DEF Rpc!Own
    <3> QED BY <3>1, <3>2, <3>3
  <2>2. \A r \in DOMAIN s.req \ Requests : r \in Rpc!Own /\ r[2] \in Nat
    BY DEF RpcGood, RpcTyped, Names, Rpc!Own
  <2>3. \A i \in 1 .. n : s.posted[i].req[2] < s.made /\ s.posted[i].req # own
    <3>1. \A i \in 1 .. n : s.posted[i].req[2] < s.made
      BY <1>7 DEF RpcGood, Made
    <3> QED BY <3>1, <2>1, <1>3, <1>4
  <2>4. \A r \in DOMAIN s.req \ Requests : r[2] < s.made
    BY DEF RpcGood, Made
  <2>5. own \notin DOMAIN s.req
    BY <2>4, <1>3, <1>4, <1>6
  <2>6. \A i \in DOMAIN t.posted : t.posted[i].req[2] < t.made
    <3> TAKE i \in DOMAIN t.posted
    <3>1. CASE i = n + 1
      BY <3>1, <1>1, <1>3, <1>4, <1>5, <1>7
    <3>2. CASE i # n + 1
      <4>1. i \in 1 .. n
        BY <3>2, <1>7
      <4> QED BY <4>1, <2>1, <2>3, <1>1, <1>3, <1>7
    <3> QED BY <3>1, <3>2
  <2>7. \A i, o \in DOMAIN t.posted : t.posted[i].req = t.posted[o].req => i = o
    <3>1. \A i, o \in 1 .. n : s.posted[i].req = s.posted[o].req => i = o
      BY <1>7 DEF RpcGood, Made
    <3>2. \A i \in DOMAIN t.posted : i = n + 1 \/ i \in 1 .. n
      BY <1>7
    <3> QED BY <3>1, <3>2, <2>3, <1>5, <1>7
  <2>8. \A i \in DOMAIN t.posted : t.posted[i].req \notin DOMAIN t.req
    <3>1. \A i \in 1 .. n : s.posted[i].req \notin DOMAIN s.req
      BY <1>7 DEF RpcGood, Made
    <3>2. \A i \in DOMAIN t.posted : i = n + 1 \/ i \in 1 .. n
      BY <1>7
    <3> QED BY <3>1, <3>2, <2>5, <1>2, <1>5, <1>7
  <2>9. \A r \in DOMAIN t.req \ Requests : r[2] < t.made
    BY <2>2, <2>4, <1>1, <1>2, <1>3
  <2> QED BY <2>6, <2>7, <2>8, <2>9 DEF Made
<1>14. OneMove(t, h, E)
  <2>1. Moves(t) = Moves(s) /\ Unfinished(t, E) = Unfinished(s, E)
    BY <1>2 DEF Moves, Unfinished
  <2>2. \A i \in DOMAIN t.posted : i = n + 1 \/ (i \in DOMAIN s.posted /\ t.posted[i] = s.posted[i])
    BY <1>7
  <2>3. CASE kind = "drop"
    <3>1. ~IsMove(p.req)
      BY <2>3, <1>4, <1>5 DEF IsMove
    <3>2. PostedMoves(t) = PostedMoves(s) /\ \A i \in PostedMoves(s) : t.posted[i] = s.posted[i]
      <4>1. DOMAIN s.posted \subseteq DOMAIN t.posted
        BY <1>7
      <4>2. \A i \in DOMAIN s.posted : t.posted[i] = s.posted[i]
        BY <1>7
      <4> QED BY <4>1, <4>2, <3>1, <2>2, <1>7 DEF PostedMoves
    <3> QED BY <3>2, <2>1, <1>2 DEF RpcGood, OneMove
  <2>4. CASE kind # "drop"
    <3>1. \A i \in PostedMoves(t) : i = n + 1
      <4> SUFFICES ASSUME NEW i \in PostedMoves(t), i # n + 1 PROVE i \in PostedMoves(s)
        BY <2>4
      <4> QED BY <2>2 DEF PostedMoves
    <3>2. t.posted[n + 1].dc = to /\ t.posted[n + 1].req[1] = kind /\ t.posted[n + 1].req[3] = about
      BY <1>4, <1>5, <1>7
    <3>3. \A i \in PostedMoves(t) :
            /\ t.posted[i].dc \in Dcs
            /\ t.posted[i].req[1] = "export" => t.posted[i].req[3] = h /\ (t.posted[i].dc = h => t.current = h)
      BY <3>1, <3>2, <2>4, <1>2
    <3>4. \A i, o \in PostedMoves(t) : i = o
      BY <3>1
    <3>5. \A r \in Moves(t) : r[1] = "export" => r[3] = h /\ (t.req[r].dc = h => t.current = h)
      BY <2>1, <1>2 DEF RpcGood, OneMove
    <3>6. Unfinished(t, E) = {} /\ t.moving = h
      BY <2>1, <2>4, <1>2
    <3> QED BY <3>3, <3>4, <3>5, <3>6 DEF OneMove
  <2> QED BY <2>3, <2>4
<1> QED BY <1>8, <1>9, <1>10, <1>12, <1>13, <1>14 DEF RpcGood, t

(* As Keeps, but for the ids of S.                                         *)
KeepsBut(s, t, S) ==
    \A r \in Rpc!ToSet(s.running) :
        /\ r \in Rpc!ToSet(t.running)
        /\ t.req[r].dc = s.req[r].dc /\ t.req[r].completed = s.req[r].completed
        /\ r \in S \/ s.req[r].mid = 0 \/ t.req[r].mid = s.req[r].mid

(* No request of a move is unfinished or posted.                           *)
NoMove(s, E) == Unfinished(s, E) = {} /\ PostedMoves(s) = {}

(* authorizedOnMovingDatacenter: the client is where the account lives.    *)
LEMMA AuthorizedIs ==
    ASSUME NEW s, Shape(s)
    PROVE  LET t == Rpc!AuthorizedOnMovingDatacenter(s)
           IN  /\ Grows(s, t)
               /\ \A kn, dn, h, x, m, E :
                    RpcGood(s, kn, dn, h, x, m, E) /\ h # First /\ s.moving = h /\ NoMove(s, E)
                      => RpcGood(t, kn, dn, h, x, m, E) /\ Keeps(s, t) /\ t.current = h
<1> DEFINE u == Rpc!Unlink(s, s.current)
           v == [u EXCEPT !.wanted = @ \ {s.current}, !.exported = FALSE, !.current = s.moving, !.moving = None]
           t == Rpc!ProcessRequestQueue(v, FALSE, None)
<1>1. Rpc!AuthorizedOnMovingDatacenter(s) = t
  BY DEF Rpc!AuthorizedOnMovingDatacenter
<1>2. Shape(u) /\ Grows(s, u) /\ Same(s, u, {"linked", "up", "req"})
  BY UnlinkIs
<1> HIDE DEF u
<1>3. /\ Shape(v) /\ Same(u, v, {"wanted", "exported", "current", "moving"})
      /\ v.current = s.moving /\ v.moving = None
  BY <1>2 DEF Shape, FieldNames, Same
<1> HIDE DEF v
<1>4. Grows(u, v)
  BY <1>3, GrowsByFields
<1>5. /\ Grows(v, t) /\ Same(v, t, Sending)
      /\ \A kn, dn, h, x, m, E :
            RpcGood(v, kn, dn, h, x, m, E) => RpcGood(t, kn, dn, h, x, m, E) /\ Keeps(v, t)
  BY <1>3, ProcessRequestQueueGood
<1> HIDE DEF t
<1>6. Grows(s, t)
  BY <1>2, <1>4, <1>5, GrowsOn
<1>7. ASSUME NEW kn, NEW dn, NEW h, NEW x, NEW m, NEW E,
             RpcGood(s, kn, dn, h, x, m, E), h # First, s.moving = h, NoMove(s, E)
      PROVE  RpcGood(t, kn, dn, h, x, m, E) /\ Keeps(s, t) /\ t.current = h
  <2>1. s.current \in Dcs
    BY <1>7, RpcAssumption DEF RpcGood, Places, Rpc!DcsAssumption
  <2>2. RpcGood(u, kn, dn, h, x, m, E) /\ Keeps(s, u)
    BY <1>7, <2>1, UnlinkGood DEF u
  <2>3. u.moving = h /\ u.posted = s.posted
    BY <1>2, <1>7 DEF Same, FieldNames
  <2>4. Unfinished(u, E) = {} /\ PostedMoves(u) = {}
    <3>1. u.req = Unlinked(s.req, s.current)
      BY UnlinkIs DEF u
    <3>2. DOMAIN u.req = DOMAIN s.req
      BY <3>1 DEF Unlinked
    <3>3. \A r \in DOMAIN s.req : u.req[r].completed = s.req[r].completed
      <4> TAKE r \in DOMAIN s.req
      <4>1. u.req[r] = [s.req[r] EXCEPT !.on = IF @ = s.current THEN None ELSE @]
        BY <3>1 DEF Unlinked
      <4>2. s.req[r] \in Waiting
        BY <1>7 DEF RpcGood, RpcTyped
      <4> QED BY <4>1, <4>2 DEF Waiting
    <3>4. \A r \in Unfinished(u, E) : r \in Unfinished(s, E)
      BY <3>2, <3>3 DEF Unfinished, Moves
    <3>5. PostedMoves(u) = PostedMoves(s)
      BY <2>3 DEF PostedMoves
    <3> QED BY <3>4, <3>5, <1>7 DEF NoMove
  <2>5. Same(u, v, {"current", "moving"} \cup Unconcerned) /\ v.req = u.req /\ v.running = u.running
    BY <1>3 DEF Same, Unconcerned, FieldNames
  <2>6. RpcGood(v, kn, dn, h, x, m, E)
    BY <1>3, <1>7, <2>2, <2>3, <2>4, <2>5, MoveEnds
  <2>7. Keeps(s, v)
    BY <2>2, <2>5 DEF Keeps
  <2>8. RpcGood(t, kn, dn, h, x, m, E) /\ Keeps(v, t)
    BY <2>6, <1>5
  <2>9. Keeps(s, t)
    BY <2>7, <2>8 DEF Keeps
  <2>10. t.current = h
    BY <1>3, <1>5, <1>7 DEF Same, Sending, FieldNames
  <2> QED BY <2>8, <2>9, <2>10
<1> QED BY <1>1, <1>6, <1>7

(* authorizeOnMovingDatacenter: the sessions are made anew, and then the   *)
(* authorization is imported or the move is at its end.                    *)
LEMMA AuthorizeIs ==
    ASSUME NEW s, Shape(s), NEW e \in Dcs, e = Rpc!DatacenterWithId(s, s.moving)
    PROVE  LET t == Rpc!AuthorizeOnMovingDatacenter(s)
           IN  /\ Grows(s, t)
               /\ \A r \in Rpc!RunningIn(s, e) \ Requests : s.req[r].completed => t.spoiled
               /\ \A kn, dn, h, x, m, E :
                    RpcGood(s, kn, dn, h, x, m, E) /\ h # First /\ s.moving = h /\ NoMove(s, E)
                      => /\ t.spoiled \/ RpcGood(t, kn, dn, h, x, m, E)
                         /\ s.exported => KeepsBut(s, t, Rpc!RunningIn(s, h)) /\ t.current = s.current
<1> DEFINE w == Rpc!ClearRequestsForDatacenter(Rpc!RecreateSessions(s, e), e)
           k == IF e \in s.keys THEN w ELSE Rpc!Handshake(w, e)
           p == Rpc!PerformRpc(k, "import", e, e)
           a == Rpc!AuthorizedOnMovingDatacenter(k)
           t == Rpc!AuthorizeOnMovingDatacenter(s)
<1>1. t = IF s.exported THEN p ELSE a
  BY DEF Rpc!AuthorizeOnMovingDatacenter, Rpc!Then
<1>2. /\ Shape(w) /\ Grows(s, w)
      /\ Same(s, w, {"req", "revived", "spoiled", "processed", "session"})
      /\ \A r \in Rpc!RunningIn(s, e) \ Requests : s.req[r].completed => w.spoiled
      /\ w.req = Cleared(s.req, Rpc!RunningIn(s, e))
      /\ \A kn, dn, h, x, m, E :
            RpcGood(s, kn, dn, h, x, m, E) => w.spoiled \/ RpcGood(w, kn, dn, h, x, m, E)
  BY SessionsAnew
<1> HIDE DEF w
<1>3. Shape(k) /\ Grows(w, k) /\ Same(w, k, {"handshakes", "wanted"})
  <2>1. LET g == Rpc!Handshake(w, e)
        IN  Shape(g) /\ Grows(w, g) /\ Same(w, g, {"handshakes", "wanted"})
    BY <1>2, HandshakeIs
  <2>2. Grows(w, w) /\ Same(w, w, {"handshakes", "wanted"})
    BY <1>2 DEF Grows, Same
  <2> QED BY <2>1, <2>2, <1>2
<1> HIDE DEF k
<1>4. Shape(p) /\ Grows(k, p) /\ Same(k, p, {"posted", "made"})
  BY <1>3, PerformRpcIs
<1>5. /\ Grows(k, a)
      /\ \A kn, dn, h, x, m, E :
            RpcGood(k, kn, dn, h, x, m, E) /\ h # First /\ k.moving = h /\ NoMove(k, E)
              => RpcGood(a, kn, dn, h, x, m, E)
  BY <1>3, AuthorizedIs
<1> HIDE DEF p, a, t
<1>6. Grows(s, k)
  BY <1>2, <1>3, GrowsOn
<1>7. Grows(k, t)
  BY <1>1, <1>4, <1>5
<1>8. Grows(s, t)
  BY <1>6, <1>7, GrowsOn
<1>9. w.spoiled => t.spoiled
  BY <1>3, <1>7 DEF Grows
<1>10. \A r \in Rpc!RunningIn(s, e) \ Requests : s.req[r].completed => t.spoiled
  BY <1>2, <1>9
<1>11. ASSUME NEW kn, NEW dn, NEW h, NEW x, NEW m, NEW E,
              RpcGood(s, kn, dn, h, x, m, E), h # First, s.moving = h, NoMove(s, E)
       PROVE  /\ t.spoiled \/ RpcGood(t, kn, dn, h, x, m, E)
              /\ s.exported => KeepsBut(s, t, Rpc!RunningIn(s, h)) /\ t.current = s.current
  <2>1. e = h
    BY <1>11, RpcAssumption DEF Rpc!DatacenterWithId, RpcGood, Places, Rpc!DcsAssumption
  <2>2. k.req = w.req /\ k.posted = s.posted /\ k.moving = h /\ k.running = s.running /\ k.current = s.current
    BY <1>2, <1>3, <1>11 DEF Same, FieldNames
  <2>3. \A r \in DOMAIN s.req :
           /\ k.req[r].dc = s.req[r].dc /\ k.req[r].completed = s.req[r].completed
           /\ r \notin Rpc!RunningIn(s, h) => k.req[r].mid = s.req[r].mid
    <3> TAKE r \in DOMAIN s.req
    <3>1. s.req[r] \in Waiting
      BY <1>11 DEF RpcGood, RpcTyped
    <3>2. w.req[r] = IF r \in Rpc!RunningIn(s, h) THEN Forgotten(s.req[r]) ELSE s.req[r]
      BY <1>2, <2>1 DEF Cleared
    <3> QED BY <2>2, <3>1, <3>2, ForgottenIs
  <2>4. DOMAIN k.req = DOMAIN s.req
    <3>1. Rpc!RunningIn(s, e) \subseteq DOMAIN s.req
      BY <1>11 DEF Rpc!RunningIn, RpcGood, Listed
    <3> QED BY <3>1, <1>2, <2>2 DEF Cleared
  <2>5. NoMove(k, E)
    <3>1. \A r \in Unfinished(k, E) : r \in Unfinished(s, E)
      BY <2>3, <2>4 DEF Unfinished, Moves
    <3>2. PostedMoves(k) = PostedMoves(s)
      BY <2>2 DEF PostedMoves
    <3> QED BY <3>1, <3>2, <1>11 DEF NoMove
  <2>6. w.spoiled \/ RpcGood(k, kn, dn, h, x, m, E)
    <3>1. Same(w, k, Unconcerned)
      BY <1>3 DEF Same, Unconcerned
    <3> QED BY <3>1, <1>2, <1>11, GoodStays
  <2>7. CASE s.exported
    <3>1. t = p /\ Same(k, t, {"posted", "made"})
      BY <1>1, <1>4, <2>7
    <3>2. t.req = k.req /\ t.running = k.running /\ t.current = k.current
      BY <3>1 DEF Same, FieldNames
    <3>3. KeepsBut(s, t, Rpc!RunningIn(s, h))
      BY <3>2, <2>2, <2>3, <1>11 DEF KeepsBut, RpcGood, Listed
    <3>4. RpcGood(k, kn, dn, h, x, m, E) => RpcGood(t, kn, dn, h, x, m, E)
      <4> HAVE RpcGood(k, kn, dn, h, x, m, E)
      <4>1. Rpc!PerformRpc(k, "import", h, h) = t
        BY <3>1, <2>1 DEF p
      <4>2. h \in Dcs
        BY <2>1
      <4>3. RpcGood(Rpc!PerformRpc(k, "import", h, h), kn, dn, h, x, m, E)
        BY <1>3, <1>11, <2>2, <2>5, <4>2, PerformRpcGood DEF NoMove
      <4> QED BY <4>1, <4>3
    <3> QED BY <3>2, <3>3, <3>4, <2>2, <2>6, <1>9
  <2>8. CASE ~s.exported
    <3>1. t = a
      BY <1>1, <2>8
    <3>2. RpcGood(k, kn, dn, h, x, m, E) => RpcGood(a, kn, dn, h, x, m, E)
      BY <1>5, <1>11, <2>2, <2>5
    <3> QED BY <3>1, <3>2, <2>6, <2>8, <1>9
  <2> QED BY <2>7, <2>8
<1> QED BY <1>8, <1>10, <1>11 DEF t

(* moveToDatacenter, to where the account lives.                           *)
LEMMA MoveToDatacenterGood ==
    ASSUME NEW s, NEW kn, NEW dn, NEW h, NEW x, NEW m, NEW E,
           Shape(s), RpcGood(s, kn, dn, h, x, m, E), h # First
    PROVE  LET t == Rpc!MoveToDatacenter(s, h)
           IN  /\ Grows(s, t) /\ (t.spoiled \/ RpcGood(t, kn, dn, h, x, m, E))
               /\ s.moving = h => t = s
<1> DEFINE u == [s EXCEPT !.moving = h]
           S == Rpc!RunningIn(u, s.current)
           w == Rpc!ClearRequests(u, S)
           p == Rpc!PerformRpc(w, "export", h, s.current)
           q == [p EXCEPT !.stuck = @ \/ Rpc!Counted(s.running) >= MaxGeneric]
           a == Rpc!AuthorizeOnMovingDatacenter(w)
           t == Rpc!MoveToDatacenter(s, h)
<1>1. t = IF s.moving = h THEN s ELSE IF s.activated THEN q ELSE a
  BY DEF Rpc!MoveToDatacenter, Rpc!ClearRequestsForDatacenter, Rpc!Then
<1>2. CASE s.moving = h
  <2>1. t = s
    BY <1>1, <1>2
  <2> QED BY <2>1 DEF Grows
<1>3. CASE s.moving # h
  <2>1. s.moving = None /\ NoMove(s, E) /\ h \in Dcs /\ s.current \in Dcs
    BY <1>3, RpcAssumption DEF RpcGood, Places, OneMove, NoMove, Rpc!DcsAssumption
  <2>2. Shape(u) /\ Same(s, u, {"moving"}) /\ u.moving = h
    BY DEF Shape, FieldNames, Same
  <2> HIDE DEF u
  <2>3. Grows(s, u)
    BY <2>2, GrowsByFields
  <2>4. u.req = s.req /\ u.running = s.running /\ u.current = s.current
    BY <2>2 DEF Same, FieldNames
  <2>5. S = Rpc!RunningIn(s, s.current)
    BY <2>4 DEF Rpc!RunningIn, Rpc!Dc, Rpc!DatacenterWithId
  <2> HIDE DEF S
  <2>6. /\ Shape(w) /\ Grows(u, w)
        /\ Same(u, w, {"req", "revived", "spoiled"})
        /\ w.req = Cleared(u.req, S)
        /\ w.revived \subseteq u.revived \cup Requests
        /\ \A r \in S \cap Requests : u.req[r].completed => r \in w.revived
        /\ w.spoiled \in BOOLEAN /\ \A r \in S \ Requests : u.req[r].completed => w.spoiled
    BY <2>2, ClearRequestsIs
  <2> HIDE DEF w
  <2>7. Grows(s, w)
    BY <2>3, <2>6, GrowsOn
  <2> DEFINE v == [w EXCEPT !.moving = s.moving]
  <2>8. Shape(v) /\ Same(w, v, {"moving"}) /\ Same(v, w, {"moving"}) /\ v.moving = s.moving
    BY <2>6 DEF Shape, FieldNames, Same
  <2> HIDE DEF v
  <2>9. /\ v.req = w.req /\ v.revived = w.revived /\ v.spoiled = w.spoiled
        /\ v.running = s.running /\ v.current = s.current /\ v.processed = s.processed
        /\ v.posted = w.posted
    BY <2>2, <2>6, <2>8 DEF Same, FieldNames
  <2>10. S \subseteq Rpc!ToSet(s.running) /\ S \subseteq DOMAIN s.req
    BY <2>5 DEF Rpc!RunningIn, RpcGood, Listed
  <2>11. Same(s, v, {"req", "revived", "spoiled", "processed"} \cup Unconcerned)
    BY <2>2, <2>6, <2>8 DEF Same, FieldNames, Unconcerned
  <2>12. v.spoiled \/ RpcGood(v, kn, dn, h, x, m, E)
    <3>1. s.revived \subseteq v.revived /\ v.revived \subseteq s.revived \cup Requests
      <4>1. u.revived = s.revived
        BY <2>2 DEF Same, FieldNames
      <4> QED BY <4>1, <2>6, <2>9 DEF Grows
    <3>2. v.processed \in [Dcs -> SUBSET Nat] /\ \A d \in Dcs : v.processed[d] = s.processed[d]
      BY <2>9 DEF RpcGood, RpcTyped
    <3>3. \A r \in S \cap Requests : s.req[r].completed => r \in v.revived
      BY <2>4, <2>6, <2>9
    <3>4. v.spoiled \in BOOLEAN /\ \A r \in S \ Requests : s.req[r].completed => v.spoiled
      BY <2>4, <2>6, <2>9
    <3>5. v.req = Cleared(s.req, S)
      BY <2>4, <2>6, <2>9
    <3> QED BY <2>10, <2>11, <3>1, <3>2, <3>3, <3>4, <3>5, GoodCleared
  <2>13. \A r \in DOMAIN v.req : v.req[r].dc = None => v.req[r].mid = 0
    <3> TAKE r \in DOMAIN v.req
    <3> HAVE v.req[r].dc = None
    <3>1. r \in DOMAIN s.req /\ v.req[r] = IF r \in S THEN Forgotten(s.req[r]) ELSE s.req[r]
      BY <2>4, <2>6, <2>9, <2>10 DEF Cleared
    <3>2. s.req[r] \in Waiting
      BY <3>1 DEF RpcGood, RpcTyped
    <3>3. CASE r \in S
      BY <3>1, <3>2, <3>3, ForgottenIs
    <3>4. CASE r \notin S
      <4>1. r \notin Rpc!ToSet(s.running)
        BY <3>1, <3>4, <2>5 DEF Rpc!RunningIn, Rpc!Dc, Rpc!DatacenterWithId
      <4> QED BY <4>1, <3>1, <3>4 DEF RpcGood, Listed
    <3> QED BY <3>3, <3>4
  <2>14. w.moving = h /\ w.current = s.current
    BY <2>2, <2>6 DEF Same, FieldNames
  <2>15. w.spoiled \/ (RpcGood(w, kn, dn, h, x, m, E) /\ NoMove(w, E))
    <3> SUFFICES ASSUME RpcGood(v, kn, dn, h, x, m, E)
                 PROVE  RpcGood(w, kn, dn, h, x, m, E) /\ NoMove(w, E)
      BY <2>9, <2>12
    <3>1. RpcGood(w, kn, dn, h, x, m, E)
      BY <2>8, <2>13, <2>14, MoveBegins
    <3>2. NoMove(v, E)
      BY <2>1, <2>8, RpcAssumption DEF RpcGood, Places, OneMove, NoMove, Rpc!DcsAssumption
    <3>3. NoMove(w, E)
      BY <3>2, <2>9 DEF NoMove, Unfinished, Moves, PostedMoves
    <3> QED BY <3>1, <3>3
  <2>16. CASE s.activated
    <3>1. t = q
      BY <1>1, <1>3, <2>16
    <3>2. Shape(p) /\ Grows(w, p) /\ Same(w, p, {"posted", "made"})
      BY <2>6, PerformRpcIs
    <3>3. w.spoiled \/ RpcGood(p, kn, dn, h, x, m, E)
      <4>1. RpcGood(w, kn, dn, h, x, m, E) /\ NoMove(w, E) => RpcGood(p, kn, dn, h, x, m, E)
        BY <1>3, <2>1, <2>6, <2>14, PerformRpcGood DEF NoMove
      <4> QED BY <4>1, <2>15
    <3> HIDE DEF p
    <3>4. Shape(q) /\ Same(p, q, {"stuck"})
      BY <3>2 DEF Shape, FieldNames, Same
    <3> HIDE DEF q
    <3>5. Grows(p, q)
      BY <3>4, GrowsByFields
    <3>6. Same(p, q, Unconcerned)
      BY <3>4 DEF Same, Unconcerned
    <3>7. RpcGood(p, kn, dn, h, x, m, E) => RpcGood(q, kn, dn, h, x, m, E)
      BY <3>6, GoodStays
    <3>8. Grows(w, q)
      BY <3>2, <3>5, GrowsOn
    <3>9. Grows(s, q)
      BY <3>8, <2>7, GrowsOn
    <3> QED BY <3>1, <3>3, <3>7, <3>8, <3>9, <1>3 DEF Grows
  <2>17. CASE ~s.activated
    <3>1. t = a
      BY <1>1, <1>3, <2>17
    <3>2. h = Rpc!DatacenterWithId(w, w.moving)
      BY <2>1, <2>14, RpcAssumption DEF Rpc!DatacenterWithId, Rpc!DcsAssumption
    <3>3. /\ Grows(w, a)
          /\ \A kn1, dn1, h1, x1, m1, E1 :
               RpcGood(w, kn1, dn1, h1, x1, m1, E1) /\ h1 # First /\ w.moving = h1 /\ NoMove(w, E1)
                 => a.spoiled \/ RpcGood(a, kn1, dn1, h1, x1, m1, E1)
      BY <2>1, <2>6, <3>2, AuthorizeIs
    <3> HIDE DEF a
    <3>4. Grows(s, a)
      BY <3>3, <2>7, GrowsOn
    <3>5. w.spoiled => a.spoiled
      BY <3>3 DEF Grows
    <3>6. a.spoiled \/ RpcGood(a, kn, dn, h, x, m, E)
      BY <3>3, <3>5, <2>14, <2>15
    <3> QED BY <3>1, <3>4, <3>6, <1>3
  <2> QED BY <2>16, <2>17
<1> QED BY <1>2, <1>3 DEF t

(* Once, of a state of the client.                                         *)
OnceIn(s) == \A r \in Requests : s.ended[r] <= 1 \/ r \in s.revived

(* No method but a callback can break it.                                  *)
LEMMA GrowsOnce ==
    ASSUME NEW s, NEW t, Grows(s, t), OnceIn(s)
    PROVE  OnceIn(t)
  BY DEF Grows, OnceIn

(* A move may be tried again, to where the account lives.                  *)
LEMMA AgainGood ==
    ASSUME NEW s, NEW t, NEW kn, NEW dn, NEW h, NEW x, NEW m, NEW E,
           RpcGood(s, kn, dn, h, x, m, E), Same(s, t, {"again"} \cup Unconcerned),
           t.again \subseteq {h}, h = First => t.again = {}
    PROVE  RpcGood(t, kn, dn, h, x, m, E)
<1>1. /\ t.queue = s.queue /\ t.running = s.running /\ t.req = s.req /\ t.posted = s.posted
      /\ t.current = s.current /\ t.moving = s.moving
      /\ t.processed = s.processed /\ t.mid = s.mid /\ t.made = s.made /\ t.up = s.up
      /\ t.ended = s.ended /\ t.performed = s.performed /\ t.revived = s.revived
      /\ t.spoiled = s.spoiled
  BY DEF Same, FieldNames, Unconcerned
<1>2. RpcTyped(t) /\ Places(t, h) /\ Callbacks(t) /\ Made(t)
  BY <1>1 DEF RpcGood, RpcTyped, Places, Callbacks, Made
<1>3. Listed(t) /\ OneMove(t, h, E)
  BY <1>1 DEF RpcGood, Listed, OneMove, Moves, Unfinished, PostedMoves
<1>4. \A r : Rpc!Dc(t, r) = Rpc!Dc(s, r)
  BY <1>1 DEF Rpc!Dc, Rpc!DatacenterWithId
<1>5. Numbers(t, kn, dn)
  BY <1>1, <1>4 DEF RpcGood, Numbers
<1>6. Settled(t, h, x, m)
  BY <1>1, <1>4 DEF RpcGood, Settled, IsAnswered
<1> QED BY <1>2, <1>3, <1>5, <1>6 DEF RpcGood

(* Why a request may be completed.                                         *)
MayComplete(s, h, x, m, r) ==
    /\ r \in Rpc!ToSet(s.running)
    /\ \/ IsAnswered(s, r, x, m)
       \/ r \in s.revived
       \/ IsMove(r) /\ r[1] = "export" /\ s.req[r].dc = h /\ s.current = h

(* A request is marked completed, its answer being handled.                *)
LEMMA CompletedGood ==
    ASSUME NEW s, NEW t, NEW kn, NEW dn, NEW h, NEW x, NEW m, NEW r,
           RpcGood(s, kn, dn, h, x, m, {r}), MayComplete(s, h, x, m, r),
           Same(s, t, {"req", "ended"} \cup Unconcerned),
           t.req = [s.req EXCEPT ![r].completed = TRUE],
           t.ended \in [Requests -> Nat], \A q \in Requests \ {r} : t.ended[q] = s.ended[q]
    PROVE  RpcGood(t, kn, dn, h, x, m, {})
<1>1. /\ t.queue = s.queue /\ t.running = s.running /\ t.posted = s.posted
      /\ t.current = s.current /\ t.moving = s.moving /\ t.again = s.again
      /\ t.processed = s.processed /\ t.mid = s.mid /\ t.made = s.made /\ t.up = s.up
      /\ t.performed = s.performed /\ t.revived = s.revived /\ t.spoiled = s.spoiled
  BY DEF Same, FieldNames, Unconcerned
<1>2. r \in DOMAIN s.req /\ \A q \in DOMAIN s.req : s.req[q] \in Waiting
  BY DEF MayComplete, RpcGood, Listed, RpcTyped
<1>3. DOMAIN t.req = DOMAIN s.req /\ t.req = [q \in DOMAIN s.req |-> t.req[q]]
      /\ t.req[r] = [s.req[r] EXCEPT !.completed = TRUE]
      /\ \A q \in DOMAIN s.req \ {r} : t.req[q] = s.req[q]
  BY <1>2
<1>4. \A q \in DOMAIN s.req : /\ t.req[q] \in Waiting
                              /\ t.req[q].dc = s.req[q].dc /\ t.req[q].mid = s.req[q].mid
                              /\ t.req[q].completed = IF q = r THEN TRUE ELSE s.req[q].completed
  <2> TAKE q \in DOMAIN s.req
  <2>1. CASE q = r
    <3>1. s.req[r] \in Waiting
      BY <1>2
    <3> QED BY <3>1, <2>1, <1>3 DEF Waiting
  <2>2. CASE q # r
    BY <2>2, <1>2, <1>3
  <2> QED BY <2>1, <2>2
<1>5. t.req \in [DOMAIN s.req -> Waiting]
  BY <1>3, <1>4
<1>6. \A q : q \in DOMAIN s.req => Rpc!Dc(t, q) = Rpc!Dc(s, q)
  BY <1>1, <1>4 DEF Rpc!Dc, Rpc!DatacenterWithId
<1>7. RpcTyped(t) /\ Places(t, h) /\ Made(t)
  BY <1>1, <1>3, <1>4, <1>5 DEF RpcGood, RpcTyped, Places, Made
<1>8. Listed(t)
  BY <1>1, <1>3, <1>4 DEF RpcGood, Listed, Moves
<1>9. Numbers(t, kn, dn)
  BY <1>1, <1>3, <1>4, <1>6 DEF RpcGood, Numbers
<1>10. OneMove(t, h, {})
  <2>1. Moves(t) = Moves(s) /\ PostedMoves(t) = PostedMoves(s)
    BY <1>1, <1>3 DEF Moves, PostedMoves
  <2>2. Unfinished(t, {}) = Unfinished(s, {r})
    BY <2>1, <1>4 DEF Unfinished, Moves
  <2>3. \A q \in Moves(s) : t.req[q].dc = s.req[q].dc
    BY <1>4 DEF Moves
  <2> QED BY <2>1, <2>2, <2>3, <1>1, ZenonT(90) DEF RpcGood, OneMove
<1>11. Settled(t, h, x, m)
  <2> SUFFICES ASSUME NEW q \in DOMAIN s.req, t.req[q].completed
               PROVE  \/ q \in Rpc!ToSet(s.running) /\ IsAnswered(t, q, x, m)
                      \/ q \in s.revived
                      \/ /\ IsMove(q) /\ q[1] = "export" /\ s.req[q].dc = h /\ s.current = h
                         /\ q \in Rpc!ToSet(s.running)
    BY <1>1, <1>3, <1>4 DEF Settled
  <2>1. IsAnswered(s, q, x, m) => IsAnswered(t, q, x, m)
    BY <1>1, <1>4, <1>6 DEF IsAnswered
  <2>2. CASE q = r
    BY <2>1, <2>2 DEF MayComplete
  <2>3. CASE q # r
    BY <2>1, <2>3, <1>4 DEF RpcGood, Settled
  <2> QED BY <2>2, <2>3
<1>12. Callbacks(t)
  <2>1. \A q \in Requests : q \notin Rpc!ToSet(t.performed) => t.ended[q] = 0
    <3>1. r \in Requests => r \in Rpc!ToSet(s.performed)
      BY <1>2 DEF RpcGood, Listed
    <3> QED BY <3>1, <1>1 DEF RpcGood, Callbacks
  <2>2. \A q \in DOMAIN t.req \cap Requests : t.req[q].completed \/ t.ended[q] = 0 \/ q \in t.revived
    BY <1>1, <1>3, <1>4 DEF RpcGood, Callbacks
  <2> QED BY <2>1, <2>2 DEF Callbacks
<1> QED BY <1>7, <1>8, <1>9, <1>10, <1>11, <1>12 DEF RpcGood

(* A request that the server answered with an error of its own waits to be *)
(* sent again.                                                             *)
LEMMA BackGood ==
    ASSUME NEW s, NEW t, NEW kn, NEW dn, NEW h, NEW x, NEW m, NEW E, NEW r \in Rpc!ToSet(s.running), NEW q \in Waiting,
           RpcGood(s, kn, dn, h, x, m, E),
           s.req[r].completed => \/ r \in s.revived
                                 \/ IsMove(r) /\ r[1] = "export" /\ s.req[r].dc = h /\ s.current = h,
           Same(s, t, {"req"} \cup Unconcerned),
           t.req = [s.req EXCEPT ![r] = q],
           q.mid = 0, q.dc = s.req[r].dc, q.completed = s.req[r].completed
    PROVE  RpcGood(t, kn, dn, h, x, m, E)
<1>1. /\ t.queue = s.queue /\ t.running = s.running /\ t.posted = s.posted
      /\ t.current = s.current /\ t.moving = s.moving /\ t.again = s.again
      /\ t.processed = s.processed /\ t.mid = s.mid /\ t.made = s.made /\ t.up = s.up
      /\ t.ended = s.ended /\ t.performed = s.performed /\ t.revived = s.revived /\ t.spoiled = s.spoiled
  BY DEF Same, FieldNames, Unconcerned
<1>2. r \in DOMAIN s.req /\ \A p \in DOMAIN s.req : s.req[p] \in Waiting
  BY DEF RpcGood, Listed, RpcTyped
<1>3. /\ DOMAIN t.req = DOMAIN s.req /\ t.req \in [DOMAIN s.req -> Waiting]
      /\ \A p \in DOMAIN s.req : t.req[p] = IF p = r THEN q ELSE s.req[p]
  BY <1>2 DEF RpcGood, RpcTyped
<1>4. \A p \in DOMAIN s.req : /\ t.req[p].dc = s.req[p].dc
                              /\ t.req[p].mid = IF p = r THEN 0 ELSE s.req[p].mid
                              /\ t.req[p].completed = s.req[p].completed
  BY <1>3
<1>5. \A p : p \in DOMAIN s.req => Rpc!Dc(t, p) = Rpc!Dc(s, p)
  BY <1>1, <1>4 DEF Rpc!Dc, Rpc!DatacenterWithId
<1>6. RpcTyped(t) /\ Places(t, h) /\ Made(t) /\ Callbacks(t)
  BY <1>1, <1>3, <1>4 DEF RpcGood, RpcTyped, Places, Made, Callbacks
<1>7. Listed(t)
  BY <1>1, <1>3, <1>4 DEF RpcGood, Listed, Moves
<1>8. Numbers(t, kn, dn)
  <2>1. \A p \in DOMAIN s.req : t.req[p].mid = 0 \/ t.req[p].mid = s.req[p].mid
    BY <1>4
  <2>2. \A d \in Dcs : ~OnTheWay(s.up, kn, dn, d, 0)
    BY DEF RpcGood, Numbers
  <2>3. s.mid \in Nat
    BY DEF RpcGood, RpcTyped
  <2> QED BY <2>1, <2>2, <2>3, <1>1, <1>3, <1>4, <1>5 DEF RpcGood, Numbers
<1>9. OneMove(t, h, E)
  <2>1. Moves(t) = Moves(s) /\ PostedMoves(t) = PostedMoves(s)
    BY <1>1, <1>3 DEF Moves, PostedMoves
  <2>2. Unfinished(t, E) = Unfinished(s, E)
    BY <2>1, <1>4 DEF Unfinished, Moves
  <2>3. \A p \in Moves(s) : t.req[p].dc = s.req[p].dc
    BY <1>4 DEF Moves
  <2> QED BY <2>1, <2>2, <2>3, <1>1 DEF RpcGood, OneMove
<1>10. Settled(t, h, x, m)
  <2> SUFFICES ASSUME NEW p \in DOMAIN s.req, s.req[p].completed
               PROVE  \/ p \in Rpc!ToSet(s.running) /\ IsAnswered(t, p, x, m)
                      \/ p \in s.revived
                      \/ /\ IsMove(p) /\ p[1] = "export" /\ s.req[p].dc = h /\ s.current = h
                         /\ p \in Rpc!ToSet(s.running)
    BY <1>1, <1>3, <1>4 DEF Settled
  <2>1. CASE p = r
    BY <2>1
  <2>2. CASE p # r
    <3>1. IsAnswered(s, p, x, m) => IsAnswered(t, p, x, m)
      BY <2>2, <1>1, <1>4, <1>5 DEF IsAnswered
    <3> QED BY <3>1 DEF RpcGood, Settled
  <2> QED BY <2>1, <2>2
<1> QED BY <1>6, <1>7, <1>8, <1>9, <1>10 DEF RpcGood

(* The callback of r may run, r being the one unfinished move.             *)
LEMMA GoodBut ==
    ASSUME NEW s, NEW kn, NEW dn, NEW h, NEW x, NEW m, NEW r, RpcGood(s, kn, dn, h, x, m, {})
    PROVE  /\ RpcGood(s, kn, dn, h, x, m, {r})
           /\ r \in Unfinished(s, {}) => s.moving = h /\ NoMove(s, {r})
<1>1. Unfinished(s, {r}) = Unfinished(s, {}) \ {r}
  BY DEF Unfinished
<1>2. OneMove(s, h, {r})
  BY <1>1 DEF RpcGood, OneMove
<1>3. r \in Unfinished(s, {}) => s.moving = h /\ NoMove(s, {r})
  BY <1>1 DEF RpcGood, OneMove, NoMove
<1> QED BY <1>2, <1>3 DEF RpcGood

(* A running request of the class's own exports or imports.                *)
LEMMA RunningIsMove ==
    ASSUME NEW s, NEW kn, NEW dn, NEW h, NEW x, NEW m, NEW E, NEW r \in Rpc!ToSet(s.running), r \notin Requests,
           RpcGood(s, kn, dn, h, x, m, E)
    PROVE  /\ r \in Moves(s) /\ IsMove(r) /\ s.req[r].dc \in Dcs /\ h # First
           /\ Rpc!Dc(s, r) = s.req[r].dc
<1>1. r \in DOMAIN s.req /\ r \in Rpc!Own /\ Rpc!NeedsAnswer(r)
  BY DEF RpcGood, Listed, RpcTyped, Names
<1>2. r[1] \in {"export", "import", "drop"}
  BY <1>1 DEF Rpc!Own
<1>3. IsMove(r)
  BY <1>1, <1>2 DEF IsMove, Rpc!NeedsAnswer, Rpc!Kind
<1>4. r \in Moves(s)
  BY <1>1, <1>3 DEF Moves
<1>5. s.req[r].dc \in Dcs /\ s.req[r].dc # None
  BY <1>4, RpcAssumption DEF RpcGood, Listed, Rpc!DcsAssumption
<1>6. h # First
  BY <1>1, <1>5 DEF RpcGood, Places
<1> QED BY <1>3, <1>4, <1>5, <1>6 DEF Rpc!Dc, Rpc!DatacenterWithId

(* The callback of one of the class's own requests.                        *)
LEMMA OwnCallbackGood ==
    ASSUME NEW s, NEW kn, NEW dn, NEW h, NEW x, NEW m, NEW r \in Rpc!ToSet(s.running), NEW ok \in BOOLEAN,
           Shape(s), RpcGood(s, kn, dn, h, x, m, {}), r \notin Requests,
           s.req[r].mid = m, m # 0, Rpc!Dc(s, r) = x,
           s.req[r].completed => \/ r \in s.revived
                                 \/ IsMove(r) /\ r[1] = "export" /\ s.req[r].dc = h /\ s.current = h
    PROVE  LET t == Rpc!Callback(s, r, ok)
           IN  /\ Grows(s, t)
               /\ t.spoiled \/ (RpcGood(t, kn, dn, h, x, m, {r}) /\ MayComplete(t, h, x, m, r))
<1> DEFINE t == Rpc!Callback(s, r, ok)
           e1 == [s EXCEPT !.exported = TRUE]
           e0 == [s EXCEPT !.exported = FALSE]
           g == [s EXCEPT !.again = @ \cup {r[3]}, !.stuck = TRUE]
           f == [s EXCEPT !.exported = FALSE, !.stuck = TRUE]
<1>1. t = IF r[1] = "export"
          THEN IF ok THEN Rpc!AuthorizeOnMovingDatacenter(e1) ELSE g
          ELSE IF ok THEN Rpc!AuthorizedOnMovingDatacenter(e0) ELSE Rpc!MoveToDatacenter(f, s.moving)
  BY DEF Rpc!Callback
<1> HIDE DEF t
<1> SUFFICES /\ Grows(s, t)
             /\ t.spoiled \/ (RpcGood(t, kn, dn, h, x, m, {r}) /\ MayComplete(t, h, x, m, r))
  BY DEF t
<1>a. /\ r \in Moves(s) /\ IsMove(r) /\ s.req[r].dc \in Dcs /\ h # First /\ Rpc!Dc(s, r) = s.req[r].dc
  BY RunningIsMove
<1>b. r \notin s.revived /\ h \in Dcs
  BY DEF RpcGood, RpcTyped, Places
<1>2. /\ r \in Moves(s) /\ IsMove(r) /\ s.req[r].dc \in Dcs /\ h # First /\ Rpc!Dc(s, r) = s.req[r].dc
      /\ r \notin s.revived /\ h \in Dcs
  BY <1>a, <1>b
<1>3. RpcGood(s, kn, dn, h, x, m, {r}) /\ (r \in Unfinished(s, {}) => s.moving = h /\ NoMove(s, {r}))
  BY GoodBut
<1>4. s.req[r].completed \/ r \in Unfinished(s, {})
  BY <1>2 DEF Unfinished
<1>5. MayComplete(s, h, x, m, r)
  BY DEF MayComplete, IsAnswered
<1>6. /\ Shape(e1) /\ Same(s, e1, {"exported"}) /\ e1.exported
      /\ Shape(e0) /\ Same(s, e0, {"exported"})
      /\ Shape(f) /\ Same(s, f, {"exported", "stuck"})
      /\ Shape(g) /\ Same(s, g, {"again", "stuck"}) /\ g.again = s.again \cup {r[3]}
  BY DEF Shape, FieldNames, Same
<1> HIDE DEF e1, e0, f, g
<1>7. CASE r[1] = "export" /\ ok
  <2>1. t = Rpc!AuthorizeOnMovingDatacenter(e1)
    BY <1>1, <1>7
  <2>2. /\ e1.req = s.req /\ e1.running = s.running /\ e1.current = s.current /\ e1.moving = s.moving
        /\ e1.posted = s.posted
    BY <1>6 DEF Same, FieldNames
  <2>3. r \in Unfinished(s, {}) => s.moving = h
    BY <1>3
  <2>4. Rpc!DatacenterWithId(e1, e1.moving) = h
    BY <1>2, <1>4, <2>2, <2>3, RpcAssumption DEF Rpc!DatacenterWithId, RpcGood, RpcTyped, Places, Rpc!DcsAssumption
  <2>5. /\ Grows(e1, t)
        /\ \A q \in Rpc!RunningIn(e1, h) \ Requests : e1.req[q].completed => t.spoiled
        /\ \A kn1, dn1, h1, x1, m1, E1 :
              RpcGood(e1, kn1, dn1, h1, x1, m1, E1) /\ h1 # First /\ e1.moving = h1 /\ NoMove(e1, E1)
                => /\ t.spoiled \/ RpcGood(t, kn1, dn1, h1, x1, m1, E1)
                   /\ e1.exported => KeepsBut(e1, t, Rpc!RunningIn(e1, h1)) /\ t.current = e1.current
    BY <1>2, <1>6, <2>1, <2>4, AuthorizeIs
  <2>6. Grows(s, t)
    <3>1. Grows(s, e1)
      BY <1>6, GrowsByFields
    <3> QED BY <3>1, <2>5, GrowsOn
  <2>7. Rpc!RunningIn(e1, h) = Rpc!RunningIn(s, h)
    BY <2>2 DEF Rpc!RunningIn, Rpc!Dc, Rpc!DatacenterWithId
  <2>8. CASE s.req[r].completed
    <3>1. s.req[r].dc = h
      BY <1>2, <2>8
    <3>2. r \in Rpc!RunningIn(s, h)
      BY <3>1, <1>2 DEF Rpc!RunningIn
    <3>3. t.spoiled
      BY <3>2, <2>2, <2>5, <2>7, <2>8
    <3> QED BY <3>3, <2>6
  <2>9. CASE ~s.req[r].completed
    <3>1. s.moving = h /\ NoMove(s, {r})
      BY <1>3, <1>4, <2>9
    <3>2. NoMove(e1, {r})
      BY <3>1, <2>2 DEF NoMove, Unfinished, Moves, PostedMoves
    <3>3. Same(s, e1, Unconcerned)
      BY <1>6 DEF Same, Unconcerned
    <3>4. RpcGood(e1, kn, dn, h, x, m, {r})
      BY <3>3, <1>3, GoodStays
    <3>5. /\ t.spoiled \/ RpcGood(t, kn, dn, h, x, m, {r})
          /\ KeepsBut(e1, t, Rpc!RunningIn(e1, h)) /\ t.current = s.current
      BY <3>1, <3>2, <3>4, <1>2, <1>6, <2>2, <2>5
    <3>6. /\ r \in Rpc!ToSet(t.running) /\ t.req[r].dc = s.req[r].dc
          /\ r \in Rpc!RunningIn(s, h) \/ t.req[r].mid = m
      BY <3>5, <2>2, <2>7 DEF KeepsBut
    <3>7. Rpc!Dc(t, r) = x
      BY <3>6, <1>2, RpcAssumption DEF Rpc!Dc, Rpc!DatacenterWithId, Rpc!DcsAssumption
    <3>8. CASE r \in Rpc!RunningIn(s, h)
      <4>1. s.req[r].dc = h
        BY <3>8, <1>2 DEF Rpc!RunningIn
      <4>2. s.current = h
        BY <4>1, <1>2, <1>7 DEF RpcGood, OneMove
      <4> QED BY <4>1, <4>2, <3>5, <3>6, <2>6, <1>2, <1>7 DEF MayComplete
    <3>9. CASE t.req[r].mid = m
      BY <3>5, <3>6, <3>7, <3>9, <2>6 DEF MayComplete, IsAnswered
    <3> QED BY <3>6, <3>8, <3>9
  <2> QED BY <2>8, <2>9
<1>8. CASE r[1] = "export" /\ ~ok
  <2>1. t = g
    BY <1>1, <1>8
  <2>2. r[3] = h
    BY <1>2, <1>8 DEF RpcGood, OneMove
  <2>3. g.again \subseteq {h}
    BY <2>2, <1>6 DEF RpcGood, Places
  <2>4. Same(s, g, {"again"} \cup Unconcerned)
    BY <1>6 DEF Same, Unconcerned
  <2>5. RpcGood(g, kn, dn, h, x, m, {r})
    BY <2>3, <2>4, <1>2, <1>3, AgainGood
  <2>6. Grows(s, g)
    BY <1>6, GrowsByFields
  <2>7. g.req = s.req /\ g.running = s.running /\ g.current = s.current /\ g.processed = s.processed
        /\ g.revived = s.revived
    BY <1>6 DEF Same, FieldNames
  <2>8. MayComplete(g, h, x, m, r)
    BY <2>7, <1>5 DEF MayComplete, IsAnswered, Rpc!Dc, Rpc!DatacenterWithId
  <2> QED BY <2>1, <2>5, <2>6, <2>8
<1>9. CASE r[1] # "export"
  <2>1. ~s.req[r].completed /\ s.moving = h /\ NoMove(s, {r})
    BY <1>2, <1>3, <1>4, <1>9
  <2>2. CASE ok
    <3>1. t = Rpc!AuthorizedOnMovingDatacenter(e0)
      BY <1>1, <1>9, <2>2
    <3>2. /\ e0.req = s.req /\ e0.running = s.running /\ e0.posted = s.posted /\ e0.moving = s.moving
      BY <1>6 DEF Same, FieldNames
    <3>3. NoMove(e0, {r})
      BY <2>1, <3>2 DEF NoMove, Unfinished, Moves, PostedMoves
    <3>4. Same(s, e0, Unconcerned)
      BY <1>6 DEF Same, Unconcerned
    <3>5. RpcGood(e0, kn, dn, h, x, m, {r})
      BY <3>4, <1>3, GoodStays
    <3>6. /\ Grows(e0, t)
          /\ \A kn1, dn1, h1, x1, m1, E1 :
                RpcGood(e0, kn1, dn1, h1, x1, m1, E1) /\ h1 # First /\ e0.moving = h1 /\ NoMove(e0, E1)
                  => RpcGood(t, kn1, dn1, h1, x1, m1, E1) /\ Keeps(e0, t) /\ t.current = h1
      BY <1>6, <3>1, AuthorizedIs
    <3>7. RpcGood(t, kn, dn, h, x, m, {r}) /\ Keeps(e0, t)
      BY <3>2, <3>3, <3>5, <3>6, <1>2, <2>1
    <3>8. r \in Rpc!ToSet(t.running) /\ t.req[r].dc = s.req[r].dc /\ t.req[r].mid = m
      BY <3>2, <3>7 DEF Keeps
    <3>9. Rpc!Dc(t, r) = x
      BY <3>8, <1>2, RpcAssumption DEF Rpc!Dc, Rpc!DatacenterWithId, Rpc!DcsAssumption
    <3>10. Grows(s, e0)
      BY <1>6, GrowsByFields
    <3>11. Grows(s, t)
      BY <3>6, <3>10, GrowsOn
    <3> QED BY <3>7, <3>8, <3>9, <3>11 DEF MayComplete, IsAnswered
  <2>3. CASE ~ok
    <3>1. t = Rpc!MoveToDatacenter(f, h)
      BY <1>1, <1>9, <2>1, <2>3
    <3>2. /\ f.req = s.req /\ f.running = s.running /\ f.moving = s.moving /\ f.current = s.current
          /\ f.processed = s.processed /\ f.revived = s.revived
      BY <1>6 DEF Same, FieldNames
    <3>3. Same(s, f, Unconcerned)
      BY <1>6 DEF Same, Unconcerned
    <3>4. RpcGood(f, kn, dn, h, x, m, {r})
      BY <3>3, <1>3, GoodStays
    <3>5. t = f
      BY <3>1, <3>2, <3>4, <1>2, <1>6, <2>1, MoveToDatacenterGood
    <3>6. Grows(s, f)
      BY <1>6, GrowsByFields
    <3>7. MayComplete(f, h, x, m, r)
      BY <3>2, <1>5 DEF MayComplete, IsAnswered, Rpc!Dc, Rpc!DatacenterWithId
    <3> QED BY <3>4, <3>5, <3>6, <3>7
  <2> QED BY <2>2, <2>3
<1> QED BY <1>7, <1>8, <1>9

(* Why a request whose answer comes may have been answered before.         *)
MayRepeat(s, h, x, i) ==
    \A r \in Rpc!ToSet(s.running) : s.req[r].mid = i =>
        /\ Rpc!Dc(s, r) = x
        /\ s.req[r].completed => \/ r \in s.revived
                                 \/ IsMove(r) /\ r[1] = "export" /\ s.req[r].dc = h /\ s.current = h

(* What a handler leaves: the end of a move came twice, or all is right.   *)
RpcStays(s, t, kn, dn, h, x, m) ==
    /\ Shape(t) /\ OnceIn(t) /\ t.linked \subseteq s.linked
    /\ t.spoiled \/ RpcGood(t, kn, dn, h, x, m, {})

(* An answer with an error of a kind that makes the class send the request *)
(* again.                                                                  *)
LEMMA BackStays ==
    ASSUME NEW s, NEW kn, NEW dn, NEW h, NEW x, NEW g, NEW r \in Rpc!ToSet(s.running),
           Shape(s), OnceIn(s), RpcGood(s, kn, dn, h, x, g.mid, {}), MayRepeat(s, h, x, g.mid),
           s.req[r].mid = g.mid
    PROVE  RpcStays(s, Rpc!SentAgain(s, r, g.what), kn, dn, h, x, g.mid)
<1> DEFINE t == Rpc!SentAgain(s, r, g.what)
           q == [s.req[r] EXCEPT !.mid = 0, !.on = None, !.due = @ /\ g.what # "420"]
<1>1. r \in DOMAIN s.req /\ s.req[r] \in Waiting
  BY DEF RpcGood, RpcTyped, Listed
<1>2. /\ Shape(t)
      /\ Same(s, t, {"req", "delayed"})
      /\ t.req = [s.req EXCEPT ![r] = q]
  BY DEF Shape, FieldNames, Same, Rpc!SentAgain
<1>3. t.req = [s.req EXCEPT ![r] = q]
  BY <1>2
<1>4. /\ q \in Waiting /\ q.mid = 0 /\ q.dc = s.req[r].dc /\ q.completed = s.req[r].completed
  BY <1>1 DEF Waiting
<1> HIDE DEF t, q
<1>5. Same(s, t, {"req"} \cup Unconcerned)
  BY <1>2 DEF Same, Unconcerned
<1>6. t.ended = s.ended /\ t.revived = s.revived /\ t.linked = s.linked
  BY <1>2 DEF Same, FieldNames
<1>7. RpcGood(t, kn, dn, h, x, g.mid, {})
  BY <1>3, <1>4, <1>5, BackGood DEF MayRepeat
<1>8. RpcStays(s, t, kn, dn, h, x, g.mid)
  BY <1>2, <1>6, <1>7 DEF RpcStays, OnceIn
<1> QED BY <1>8 DEF t

(* An answer whose callback runs.                                          *)
LEMMA AnsweredStays ==
    ASSUME NEW s, NEW kn, NEW dn, NEW h, NEW x, NEW m \in Nat \ {0}, NEW r \in Rpc!ToSet(s.running), NEW ok \in BOOLEAN,
           Shape(s), OnceIn(s), RpcGood(s, kn, dn, h, x, m, {}), MayRepeat(s, h, x, m),
           s.req[r].mid = m
    PROVE  RpcStays(s, Rpc!Completed(Rpc!Callback(s, r, ok), r, m), kn, dn, h, x, m)
<1> DEFINE u == Rpc!Callback(s, r, ok)
           t == Rpc!Completed(u, r, m)
<1>1. /\ Rpc!Dc(s, r) = x
      /\ s.req[r].completed => \/ r \in s.revived
                               \/ IsMove(r) /\ r[1] = "export" /\ s.req[r].dc = h /\ s.current = h
  BY DEF MayRepeat
<1>2. RpcGood(s, kn, dn, h, x, m, {r})
  BY GoodBut
<1>3. MayComplete(s, h, x, m, r)
  BY <1>1 DEF MayComplete, IsAnswered
<1>4. r \in DOMAIN s.req /\ s.req[r] \in Waiting
  BY DEF RpcGood, RpcTyped, Listed
<1>a. CASE r \in Requests
  <2>1. u = [s EXCEPT !.ended[r] = @ + 1, !.delayed = IF ok THEN @ ELSE @ \cup {r}]
    BY <1>a DEF Rpc!Callback
  <2>2. /\ Shape(t) /\ Same(s, t, {"req", "ended", "completing", "delayed"})
        /\ t.req = [s.req EXCEPT ![r].completed = TRUE]
        /\ t.ended = [s.ended EXCEPT ![r] = @ + 1]
    BY <2>1 DEF Shape, FieldNames, Same, Rpc!Completed
  <2> HIDE DEF t
  <2>3. /\ t.linked = s.linked /\ t.revived = s.revived
    BY <2>2 DEF Same, FieldNames
  <2>4. s.ended \in [Requests -> Nat]
    BY DEF RpcGood, RpcTyped
  <2>5. t.ended \in [Requests -> Nat] /\ \A q \in Requests : t.ended[q] = IF q = r THEN s.ended[r] + 1 ELSE s.ended[q]
    BY <1>a, <2>2, <2>4
  <2>6. Same(s, t, {"req", "ended"} \cup Unconcerned)
    BY <2>2 DEF Same, Unconcerned
  <2>7. RpcGood(t, kn, dn, h, x, m, {})
    <3> DEFINE q == [s.req EXCEPT ![r].completed = TRUE]
    <3>1. t.req = q /\ \A y \in Requests \ {r} : t.ended[y] = s.ended[y]
      BY <2>2, <2>5
    <3>2. t.ended \in [Requests -> Nat]
      BY <2>5
    <3> QED BY <1>2, <1>3, <2>6, <3>1, <3>2, CompletedGood
  <2>8. s.ended[r] = 0 \/ r \in s.revived
    BY <1>a, <1>1, <1>4 DEF RpcGood, Callbacks, IsMove
  <2>9. OnceIn(t)
    BY <2>3, <2>5, <2>8 DEF OnceIn
  <2> QED BY <2>2, <2>3, <2>7, <2>9 DEF RpcStays, t
<1>b. CASE r \notin Requests
  <2>1. /\ Grows(s, u)
        /\ u.spoiled \/ (RpcGood(u, kn, dn, h, x, m, {r}) /\ MayComplete(u, h, x, m, r))
    BY <1>b, <1>1, OwnCallbackGood
  <2> HIDE DEF u
  <2>2. Shape(u)
    BY <2>1 DEF Grows
  <2>3. /\ Shape(t) /\ Same(u, t, {"req", "completing"})
        /\ t.req = [u.req EXCEPT ![r].completed = TRUE]
    BY <2>2 DEF Shape, FieldNames, Same, Rpc!Completed
  <2> HIDE DEF t
  <2>4. /\ t.linked = u.linked /\ t.revived = u.revived /\ t.ended = u.ended /\ t.spoiled = u.spoiled
    BY <2>3 DEF Same, FieldNames
  <2>5. OnceIn(t) /\ t.linked \subseteq s.linked
    BY <2>1, <2>4, GrowsOnce DEF OnceIn, Grows
  <2>6. CASE ~u.spoiled
    <3>1. Same(u, t, {"req", "ended"} \cup Unconcerned)
      BY <2>3 DEF Same, Unconcerned
    <3>2. t.ended \in [Requests -> Nat] /\ \A q \in Requests \ {r} : t.ended[q] = u.ended[q]
      BY <2>1, <2>4, <2>6 DEF RpcGood, RpcTyped
    <3>3. RpcGood(t, kn, dn, h, x, m, {})
      BY <2>1, <2>3, <2>6, <3>1, <3>2, CompletedGood
    <3> QED BY <3>3, <2>3, <2>5 DEF RpcStays, t, u
  <2>7. CASE u.spoiled
    BY <2>3, <2>4, <2>5, <2>7 DEF RpcStays, t, u
  <2> QED BY <2>6, <2>7
<1> QED BY <1>a, <1>b

(* processMessage with an answer to a request.                             *)
LEMMA RpcResultStays ==
    ASSUME NEW s, NEW kn, NEW dn, NEW h, NEW x, NEW g,
           Shape(s), OnceIn(s), RpcGood(s, kn, dn, h, x, g.mid, {}), MayRepeat(s, h, x, g.mid),
           g.mid \in Nat \ {0}, g.what \in Rpc!Outcomes \/ (g.what = h /\ h # First)
    PROVE  RpcStays(s, Rpc!RpcResult(s, g), kn, dn, h, x, g.mid)
<1> DEFINE mine == {r \in Rpc!ToSet(s.running) : s.req[r].mid = g.mid}
           r == CHOOSE y \in mine : TRUE
           back == Rpc!SentAgain(s, r, g.what)
           done == Rpc!Completed(Rpc!Callback(s, r, g.what = "ok"), r, g.mid)
           after == IF g.what \in Dcs THEN Rpc!MoveToDatacenter(s, g.what)
                    ELSE IF mine = {} THEN s
                    ELSE IF g.what \in {"500", "420"} THEN back ELSE done
           t == Rpc!ProcessRequestQueue(after, FALSE, None)
<1>1. Rpc!RpcResult(s, g) = t
  BY DEF Rpc!RpcResult
<1>2. RpcStays(s, after, kn, dn, h, x, g.mid)
  <2>1. CASE g.what \in Dcs
    <3>1. g.what = h /\ h # First
      BY <2>1, RpcAssumption DEF Rpc!DcsAssumption
    <3>2. after = Rpc!MoveToDatacenter(s, h)
      BY <2>1, <3>1
    <3> HIDE DEF after
    <3>3. Grows(s, after) /\ (after.spoiled \/ RpcGood(after, kn, dn, h, x, g.mid, {}))
      BY <3>1, <3>2, MoveToDatacenterGood
    <3> QED BY <3>3, GrowsOnce DEF RpcStays, Grows
  <2>2. CASE g.what \notin Dcs /\ mine = {}
    <3>1. after = s
      BY <2>2
    <3> QED BY <3>1 DEF RpcStays
  <2>3. CASE g.what \notin Dcs /\ mine # {}
    <3>1. r \in Rpc!ToSet(s.running) /\ s.req[r].mid = g.mid
      BY <2>3
    <3> HIDE DEF r
    <3>2. RpcStays(s, back, kn, dn, h, x, g.mid)
      BY <3>1, BackStays
    <3>3. RpcStays(s, done, kn, dn, h, x, g.mid)
      <4>1. (g.what = "ok") \in BOOLEAN
        OBVIOUS
      <4> QED BY <3>1, <4>1, AnsweredStays
    <3>4. after = back \/ after = done
      BY <2>3
    <3> QED BY <3>2, <3>3, <3>4
  <2> QED BY <2>1, <2>2, <2>3
<1> HIDE DEF after
<1>3. Grows(after, t) /\ (RpcGood(after, kn, dn, h, x, g.mid, {}) => RpcGood(t, kn, dn, h, x, g.mid, {}))
  BY <1>2, ProcessRequestQueueGood DEF RpcStays
<1> HIDE DEF t
<1>4. RpcStays(s, t, kn, dn, h, x, g.mid)
  BY <1>2, <1>3, GrowsOnce DEF RpcStays, Grows
<1> QED BY <1>1, <1>4

(* processRequestQueue after that.                                         *)
LEMMA ProcessStays ==
    ASSUME NEW s, NEW u, NEW kn, NEW dn, NEW h, NEW x, NEW m, NEW forced, NEW d,
           RpcStays(s, u, kn, dn, h, x, m)
    PROVE  RpcStays(s, Rpc!ProcessRequestQueue(u, forced, d), kn, dn, h, x, m)
<1> DEFINE t == Rpc!ProcessRequestQueue(u, forced, d)
<1>1. Grows(u, t) /\ (RpcGood(u, kn, dn, h, x, m, {}) => RpcGood(t, kn, dn, h, x, m, {}))
  BY ProcessRequestQueueGood DEF RpcStays
<1> HIDE DEF t
<1>2. RpcStays(s, t, kn, dn, h, x, m)
  BY <1>1, GrowsOnce DEF RpcStays, Grows
<1> QED BY <1>2 DEF t

(* A request comes into the queue.                                         *)
QueuedBut == {"req", "queue", "posted", "performed"}

(* A request joins the queue.                                              *)
LEMMA QueuedGood ==
    ASSUME NEW s, NEW t, NEW kn, NEW dn, NEW h, NEW x, NEW m, NEW r \in Names, NEW e \in Dcs \cup {None},
           RpcGood(s, kn, dn, h, x, m, {}), r \notin DOMAIN s.req,
           Same(s, t, QueuedBut),
           t.req = Rpc!Updated(s.req, [y \in {r} |-> Rpc!New(e)]), t.queue = Append(s.queue, r),
           h = First => e = None,
           t.posted \in Seq(Posts), t.performed \in Seq(Requests),
           \A n \in DOMAIN t.posted : h = First => t.posted[n].dc = None,
           Made(t), OneMove(t, h, {}),
           Rpc!ToSet(s.performed) \subseteq Rpc!ToSet(t.performed),
           r \in Requests => r \in Rpc!ToSet(t.performed) /\ e = None /\ s.ended[r] = 0,
           IsMove(r) => e \in Dcs
    PROVE  RpcGood(t, kn, dn, h, x, m, {})
<1> DEFINE q == Rpc!New(e)
<1>1. /\ t.running = s.running /\ t.current = s.current /\ t.moving = s.moving /\ t.again = s.again
      /\ t.processed = s.processed /\ t.mid = s.mid /\ t.made = s.made /\ t.up = s.up
      /\ t.ended = s.ended /\ t.revived = s.revived /\ t.spoiled = s.spoiled
  BY DEF Same, FieldNames, QueuedBut
<1>2. q \in Waiting /\ q.mid = 0 /\ q.dc = e /\ ~q.completed
  BY DEF Rpc!New, Waiting
<1>3. /\ DOMAIN t.req = DOMAIN s.req \cup {r} /\ t.req = [y \in DOMAIN t.req |-> t.req[y]]
      /\ t.req[r] = q /\ \A y \in DOMAIN s.req : t.req[y] = s.req[y]
  BY UpdatedIs
<1> HIDE DEF q
<1>4. t.queue \in Seq(Names) /\ Rpc!ToSet(t.queue) = Rpc!ToSet(s.queue) \cup {r}
  BY OneAppended DEF RpcGood, RpcTyped
<1>5. DOMAIN t.req \subseteq Names /\ t.req \in [DOMAIN t.req -> Waiting]
  BY <1>2, <1>3 DEF RpcGood, RpcTyped
<1>6. RpcTyped(t)
  BY <1>1, <1>4, <1>5 DEF RpcGood, RpcTyped
<1>7. Places(t, h)
  BY <1>1, <1>2, <1>3 DEF RpcGood, Places
<1>8. r \notin Rpc!ToSet(s.running)
  BY DEF RpcGood, Listed
<1>9. Listed(t)
  <2>1. Moves(t) \subseteq Moves(s) \cup {r} /\ (r \in Moves(t) => IsMove(r))
    BY <1>3 DEF Moves
  <2>2. \A y \in Moves(t) : t.req[y].dc \in Dcs
    BY <2>1, <1>2, <1>3 DEF RpcGood, Listed, Moves
  <2> QED BY <2>2, <1>1, <1>2, <1>3, <1>4, <1>8 DEF RpcGood, Listed
<1>10. \A y \in DOMAIN s.req : Rpc!Dc(t, y) = Rpc!Dc(s, y)
  BY <1>1, <1>3 DEF Rpc!Dc, Rpc!DatacenterWithId
<1>11. Numbers(t, kn, dn)
  <2>1. \A d \in Dcs : ~OnTheWay(s.up, kn, dn, d, 0)
    BY DEF RpcGood, Numbers
  <2>2. s.mid \in Nat
    BY DEF RpcGood, RpcTyped
  <2>3. \A y \in DOMAIN t.req : y \in DOMAIN s.req \/ (y = r /\ t.req[y].mid = 0)
    BY <1>2, <1>3
  <2>4. \A y \in DOMAIN s.req : t.req[y] = s.req[y] /\ y \in DOMAIN t.req
    BY <1>3
  <2>5. \A y \in DOMAIN t.req : t.req[y].mid <= t.mid
    BY <2>2, <2>3, <2>4, <1>1 DEF RpcGood, Numbers
  <2>6. \A y, z \in DOMAIN t.req : t.req[y].mid = t.req[z].mid /\ t.req[y].mid # 0 => y = z
    BY <2>3, <2>4 DEF RpcGood, Numbers
  <2>7. \A d \in Dcs, y \in DOMAIN t.req : OnTheWay(t.up, kn, dn, d, t.req[y].mid) => d = Rpc!Dc(t, y)
    BY <2>1, <2>3, <2>4, <1>1, <1>10 DEF RpcGood, Numbers
  <2>8. \A y \in DOMAIN t.req : t.moving # None /\ t.req[y].dc = None => t.req[y].mid = 0
    BY <2>3, <2>4, <1>1 DEF RpcGood, Numbers
  <2> QED BY <2>5, <2>6, <2>7, <2>8, <1>1 DEF RpcGood, Numbers
<1>12. Settled(t, h, x, m)
  <2> SUFFICES ASSUME NEW y \in DOMAIN s.req, IsAnswered(s, y, x, m)
               PROVE  IsAnswered(t, y, x, m)
    BY <1>1, <1>2, <1>3 DEF RpcGood, Settled
  <2> QED BY <1>1, <1>3, <1>10 DEF IsAnswered
<1>13. Callbacks(t)
  BY <1>1, <1>3 DEF RpcGood, Callbacks
<1> QED BY <1>6, <1>7, <1>9, <1>11, <1>12, <1>13 DEF RpcGood

(* performRpc called by the application.                                   *)
LEMMA PerformStays ==
    ASSUME NEW s, NEW kn, NEW dn, NEW h, NEW r \in Requests,
           Shape(s), OnceIn(s), RpcGood(s, kn, dn, h, First, 0, {}), r \notin Rpc!ToSet(s.performed)
    PROVE  RpcStays(s, Rpc!ProcessRequestQueue(
               [s EXCEPT !.req = Rpc!Updated(@, [x \in {r} |-> Rpc!New(None)]), !.queue = Append(@, r),
                         !.performed = Append(@, r)], FALSE, None), kn, dn, h, First, 0)
<1> DEFINE u == [s EXCEPT !.req = Rpc!Updated(@, [x \in {r} |-> Rpc!New(None)]), !.queue = Append(@, r),
                         !.performed = Append(@, r)]
<1>1. /\ Shape(u) /\ Same(s, u, {"req", "queue", "performed"})
      /\ u.req = Rpc!Updated(s.req, [x \in {r} |-> Rpc!New(None)])
      /\ u.queue = Append(s.queue, r) /\ u.performed = Append(s.performed, r)
  BY DEF Shape, FieldNames, Same
<1> HIDE DEF u
<1>2. /\ u.posted = s.posted /\ u.made = s.made /\ u.ended = s.ended /\ u.revived = s.revived
      /\ u.linked = s.linked /\ u.current = s.current /\ u.moving = s.moving
  BY <1>1 DEF Same, FieldNames
<1>3. r \notin DOMAIN s.req /\ s.ended[r] = 0
  BY DEF RpcGood, Listed, Callbacks
<1>4. u.performed \in Seq(Requests) /\ Rpc!ToSet(u.performed) = Rpc!ToSet(s.performed) \cup {r}
  BY <1>1, OneAppended DEF RpcGood, RpcTyped
<1>5. /\ DOMAIN u.req = DOMAIN s.req \cup {r}
      /\ \A y \in DOMAIN s.req : u.req[y] = s.req[y]
  BY <1>1, <1>3, UpdatedIs
<1>6. Made(u)
  <2>1. \A n \in DOMAIN s.posted : s.posted[n].req # r
    <3> TAKE n \in DOMAIN s.posted
    <3>1. s.posted \in Seq(Posts)
      BY DEF RpcGood, RpcTyped
    <3>2. s.posted[n] \in Posts
      BY <3>1
    <3>3. s.posted[n].req \in Rpc!Own
      BY <3>2 DEF Posts
    <3> QED BY <3>3, RpcAssumption DEF Rpc!RequestsAssumption
  <2> QED BY <2>1, <1>2, <1>5 DEF RpcGood, Made
<1>7. OneMove(u, h, {})
  <2>1. Moves(u) = Moves(s) /\ PostedMoves(u) = PostedMoves(s)
    BY <1>2, <1>5 DEF Moves, PostedMoves, IsMove
  <2>2. Unfinished(u, {}) = Unfinished(s, {})
    BY <2>1, <1>5 DEF Unfinished, Moves
  <2>3. \A y \in Moves(s) : u.req[y] = s.req[y]
    BY <1>5 DEF Moves
  <2> QED BY <2>1, <2>2, <2>3, <1>2 DEF RpcGood, OneMove
<1>8. Same(s, u, QueuedBut)
  BY <1>1 DEF Same, QueuedBut
<1>9. /\ s.posted \in Seq(Posts) /\ \A n \in DOMAIN s.posted : h = First => s.posted[n].dc = None
  BY DEF RpcGood, RpcTyped, Places
<1>10. RpcGood(u, kn, dn, h, First, 0, {})
  <2>1. r \in Names /\ None \in Dcs \cup {None} /\ ~IsMove(r)
    BY DEF Names, IsMove
  <2> QED BY <2>1, <1>1, <1>2, <1>3, <1>4, <1>6, <1>7, <1>8, <1>9, QueuedGood
<1>11. RpcStays(s, u, kn, dn, h, First, 0)
  BY <1>1, <1>2, <1>10 DEF RpcStays, OnceIn
<1>12. RpcStays(s, Rpc!ProcessRequestQueue(u, FALSE, None), kn, dn, h, First, 0)
  BY <1>11, ProcessStays
<1> QED BY <1>12 DEF u

(* performRpc of one of the class's own, as it was posted.                 *)
LEMMA PerformPostedStays ==
    ASSUME NEW s, NEW kn, NEW dn, NEW h,
           Shape(s), OnceIn(s), RpcGood(s, kn, dn, h, First, 0, {}), s.posted # <<>>
    PROVE  LET p == Head(s.posted)
           IN  RpcStays(s, Rpc!ProcessRequestQueue(
                  [s EXCEPT !.req = Rpc!Updated(@, [x \in {p.req} |-> Rpc!New(p.dc)]), !.queue = Append(@, p.req),
                            !.posted = Tail(@)], FALSE, None), kn, dn, h, First, 0)
<1> DEFINE p == Head(s.posted)
           r == p.req
           e == p.dc
           last == Len(s.posted)
           u == [s EXCEPT !.req = Rpc!Updated(@, [x \in {p.req} |-> Rpc!New(p.dc)]), !.queue = Append(@, p.req),
                          !.posted = Tail(@)]
<1>1. /\ Shape(u) /\ Same(s, u, {"req", "queue", "posted"})
      /\ u.req = Rpc!Updated(s.req, [x \in {r} |-> Rpc!New(e)])
      /\ u.queue = Append(s.queue, r) /\ u.posted = Tail(s.posted)
  BY DEF Shape, FieldNames, Same
<1> HIDE DEF u
<1>2. /\ u.performed = s.performed /\ u.made = s.made /\ u.ended = s.ended /\ u.revived = s.revived
      /\ u.linked = s.linked /\ u.current = s.current /\ u.moving = s.moving
  BY <1>1 DEF Same, FieldNames
<1>3. s.posted \in Seq(Posts)
  BY DEF RpcGood, RpcTyped
<1>4. /\ p \in Posts /\ p = s.posted[1] /\ 1 \in DOMAIN s.posted /\ last \in Nat \ {0} /\ DOMAIN s.posted = 1 .. last
      /\ u.posted \in Seq(Posts) /\ DOMAIN u.posted = 1 .. last - 1
      /\ \A n \in 1 .. last - 1 : u.posted[n] = s.posted[n + 1] /\ n + 1 \in 1 .. last
  BY <1>1, <1>3
<1> HIDE DEF last
<1>5. r \in Rpc!Own /\ e \in Dcs \cup {None} /\ r \notin Requests /\ r \in Names
  BY <1>4, RpcAssumption DEF Posts, Names, Rpc!RequestsAssumption
<1>6. /\ r \notin DOMAIN s.req /\ r[2] < s.made /\ (h = First => e = None)
  BY <1>4 DEF RpcGood, Made, Places
<1>7. /\ DOMAIN u.req = DOMAIN s.req \cup {r} /\ u.req[r] = Rpc!New(e)
      /\ \A y \in DOMAIN s.req : u.req[y] = s.req[y]
  BY <1>1, <1>6, UpdatedIs
<1>8. ~u.req[r].completed /\ u.req[r].dc = e
  BY <1>7 DEF Rpc!New
<1>9. s.posted[1].req = r /\ s.posted[1].dc = e
  BY <1>4
<1> HIDE DEF p
<1> HIDE DEF r, e
<1>10. Made(u)
  <2>1. \A n \in 1 .. last - 1 : u.posted[n].req # r
    <3> TAKE n \in 1 .. last - 1
    <3>1. n + 1 # 1 /\ n + 1 \in DOMAIN s.posted /\ 1 \in DOMAIN s.posted /\ u.posted[n] = s.posted[n + 1]
      BY <1>4
    <3> QED BY <3>1, <1>9 DEF RpcGood, Made
  <2>2. \A n, o \in DOMAIN u.posted : u.posted[n].req = u.posted[o].req => n = o
    <3> TAKE n, o \in DOMAIN u.posted
    <3> HAVE u.posted[n].req = u.posted[o].req
    <3>1. /\ n \in 1 .. last - 1 /\ o \in 1 .. last - 1 /\ n + 1 \in DOMAIN s.posted /\ o + 1 \in DOMAIN s.posted
          /\ u.posted[n] = s.posted[n + 1] /\ u.posted[o] = s.posted[o + 1]
      BY <1>4
    <3>2. n + 1 = o + 1
      BY <3>1 DEF RpcGood, Made
    <3> QED BY <3>1, <3>2
  <2>3. \A n \in DOMAIN u.posted : u.posted[n].req[2] < s.made /\ u.posted[n].req \notin DOMAIN s.req
    BY <1>4 DEF RpcGood, Made
  <2>4. \A y \in DOMAIN s.req \ Requests : y[2] < s.made
    BY DEF RpcGood, Made
  <2> QED BY <2>1, <2>2, <2>3, <2>4, <1>2, <1>4, <1>6, <1>7 DEF Made
<1>11. IsMove(r) => 1 \in PostedMoves(s) /\ e \in Dcs
  <2>1. IsMove(r) => 1 \in PostedMoves(s)
    BY <1>4, <1>9 DEF PostedMoves
  <2> QED BY <2>1, <1>9 DEF RpcGood, OneMove
<1>12. OneMove(u, h, {})
  <2>1. \A n \in PostedMoves(u) : n + 1 \in PostedMoves(s) /\ u.posted[n] = s.posted[n + 1] /\ n \in Nat \ {0}
    BY <1>4 DEF PostedMoves
  <2>2. Moves(u) = Moves(s) \cup (IF IsMove(r) THEN {r} ELSE {})
    BY <1>7 DEF Moves
  <2>3. \A y \in Moves(s) : u.req[y] = s.req[y] /\ y # r
    BY <1>6, <1>7 DEF Moves
  <2>4. Unfinished(u, {}) = Unfinished(s, {}) \cup (IF IsMove(r) THEN {r} ELSE {})
    BY <2>2, <2>3, <1>8 DEF Unfinished
  <2>5. \A n \in PostedMoves(u) : /\ u.posted[n].dc \in Dcs
                                  /\ u.posted[n].req[1] = "export" =>
                                       u.posted[n].req[3] = h /\ (u.posted[n].dc = h => s.current = h)
    BY <2>1 DEF RpcGood, OneMove
  <2>6. \A n, o \in PostedMoves(u) : n = o
    <3> TAKE n, o \in PostedMoves(u)
    <3>1. n + 1 = o + 1
      BY <2>1 DEF RpcGood, OneMove
    <3> QED BY <3>1, <2>1
  <2>7. PostedMoves(u) # {} => PostedMoves(s) # {} /\ ~IsMove(r)
    <3> SUFFICES ASSUME NEW n \in PostedMoves(u) PROVE PostedMoves(s) # {} /\ ~IsMove(r)
      OBVIOUS
    <3>1. n + 1 \in PostedMoves(s) /\ n + 1 # 1
      BY <2>1
    <3> QED BY <3>1, <1>11 DEF RpcGood, OneMove
  <2>8. IsMove(r) => Unfinished(s, {}) = {} /\ s.moving = h
    BY <1>11 DEF RpcGood, OneMove
  <2>9. \A y \in Moves(u) : y[1] = "export" => y[3] = h /\ (u.req[y].dc = h => s.current = h)
    <3>1. IsMove(r) => (r[1] = "export" => r[3] = h /\ (e = h => s.current = h))
      BY <1>9, <1>11 DEF RpcGood, OneMove
    <3> QED BY <3>1, <2>2, <2>3, <1>8 DEF RpcGood, OneMove
  <2>10. \A y, z \in Unfinished(u, {}) : y = z
    BY <2>4, <2>8 DEF RpcGood, OneMove
  <2>11. Unfinished(u, {}) = {} \/ PostedMoves(u) = {}
    BY <2>4, <2>7 DEF RpcGood, OneMove
  <2>12. Unfinished(u, {}) # {} \/ PostedMoves(u) # {} => s.moving = h
    BY <2>4, <2>7, <2>8 DEF RpcGood, OneMove
  <2> QED BY <2>5, <2>6, <2>9, <2>10, <2>11, <2>12, <1>2 DEF OneMove
<1>13. Same(s, u, QueuedBut)
  BY <1>1 DEF Same, QueuedBut
<1>14. \A n \in DOMAIN u.posted : h = First => u.posted[n].dc = None
  <2>1. \A n \in DOMAIN s.posted : h = First => s.posted[n].dc = None
    BY DEF RpcGood, Places
  <2> TAKE n \in DOMAIN u.posted
  <2>2. n + 1 \in DOMAIN s.posted /\ u.posted[n] = s.posted[n + 1]
    BY <1>4
  <2> QED BY <2>1, <2>2
<1>15. s.performed \in Seq(Requests)
  BY DEF RpcGood, RpcTyped
<1>16. RpcGood(u, kn, dn, h, First, 0, {})
  BY <1>1, <1>2, <1>4, <1>5, <1>6, <1>10, <1>11, <1>12, <1>13, <1>14, <1>15, QueuedGood
<1>17. RpcStays(s, u, kn, dn, h, First, 0)
  BY <1>1, <1>2, <1>16 DEF RpcStays, OnceIn
<1>18. RpcStays(s, Rpc!ProcessRequestQueue(u, FALSE, None), kn, dn, h, First, 0)
  BY <1>17, ProcessStays
<1> QED BY <1>18 DEF u, p, r, e

(* A list without the elements of R.                                       *)
LEMMA KeptOut ==
    ASSUME NEW S, NEW list \in Seq(S), NEW R
    PROVE  LET k == Rpc!Kept(list, Rpc!ToSet(list) \ R)
           IN  k \in Seq(S) /\ Rpc!ToSet(k) = Rpc!ToSet(list) \ R
<1> DEFINE T == Rpc!ToSet(list) \ R
<1>1. Rpc!ToSet(list) \cap T = T
  OBVIOUS
<1> HIDE DEF T
<1>2. Rpc!Kept(list, T) \in Seq(S) /\ Rpc!ToSet(Rpc!Kept(list, T)) = Rpc!ToSet(list) \cap T
  BY KeptOf
<1>3. Rpc!Kept(list, T) \in Seq(S) /\ Rpc!ToSet(Rpc!Kept(list, T)) = T
  BY <1>1, <1>2
<1> QED BY <1>3 DEF T

(* Requests are taken out.                                                 *)
TakenBut == {"req", "queue", "running", "ended"} \cup Unconcerned

(* Requests go, from the queue and from those running.                     *)
LEMMA TakenGood ==
    ASSUME NEW s, NEW t, NEW kn, NEW dn, NEW h, NEW x, NEW m, NEW R,
           RpcGood(s, kn, dn, h, x, m, {}), Same(s, t, TakenBut),
           t.req = [r \in DOMAIN s.req \ R |-> s.req[r]],
           t.queue \in Seq(Names), Rpc!ToSet(t.queue) = Rpc!ToSet(s.queue) \ R,
           t.running \in Seq(Names), Rpc!ToSet(t.running) = Rpc!ToSet(s.running) \ R,
           t.ended \in [Requests -> Nat], \A r \in Requests \ R : t.ended[r] = s.ended[r],
           \A r \in R : r \in DOMAIN s.req
    PROVE  RpcGood(t, kn, dn, h, x, m, {})
<1>1. /\ t.posted = s.posted /\ t.current = s.current /\ t.moving = s.moving /\ t.again = s.again
      /\ t.processed = s.processed /\ t.mid = s.mid /\ t.made = s.made /\ t.up = s.up
      /\ t.performed = s.performed /\ t.revived = s.revived /\ t.spoiled = s.spoiled
  BY DEF Same, FieldNames, TakenBut, Unconcerned
<1>2. DOMAIN t.req = DOMAIN s.req \ R /\ \A r \in DOMAIN t.req : t.req[r] = s.req[r]
  OBVIOUS
<1>3. t.req \in [DOMAIN t.req -> Waiting] /\ DOMAIN t.req \subseteq Names
  BY DEF RpcGood, RpcTyped
<1>4. RpcTyped(t) /\ Places(t, h)
  BY <1>1, <1>2, <1>3 DEF RpcGood, RpcTyped, Places
<1>5. Made(t)
  BY <1>1, <1>2 DEF RpcGood, Made
<1>6. Moves(t) = Moves(s) \ R /\ PostedMoves(t) = PostedMoves(s)
  BY <1>1, <1>2 DEF Moves, PostedMoves
<1>7. Listed(t)
  <2>1. \A r \in Moves(t) : t.req[r].dc \in Dcs
    BY <1>2, <1>6 DEF RpcGood, Listed, Moves
  <2> QED BY <2>1, <1>1, <1>2 DEF RpcGood, Listed
<1>8. OneMove(t, h, {})
  <2>1. Unfinished(t, {}) \subseteq Unfinished(s, {})
    BY <1>2, <1>6 DEF Unfinished, Moves
  <2>2. \A r \in Moves(t) : r \in Moves(s) /\ t.req[r] = s.req[r]
    BY <1>2, <1>6 DEF Moves
  <2> QED BY <2>1, <2>2, <1>1, <1>6, ZenonT(90) DEF RpcGood, OneMove
<1>9. \A r : r \in DOMAIN t.req => Rpc!Dc(t, r) = Rpc!Dc(s, r)
  BY <1>1, <1>2 DEF Rpc!Dc, Rpc!DatacenterWithId
<1>10. Numbers(t, kn, dn)
  BY <1>1, <1>2, <1>9 DEF RpcGood, Numbers
<1>11. Settled(t, h, x, m)
  <2> SUFFICES ASSUME NEW r \in DOMAIN t.req, t.req[r].completed
               PROVE  \/ r \in Rpc!ToSet(t.running) /\ IsAnswered(t, r, x, m)
                      \/ r \in t.revived
                      \/ /\ IsMove(r) /\ r[1] = "export" /\ t.req[r].dc = h /\ t.current = h
                         /\ r \in Rpc!ToSet(t.running)
    BY DEF Settled
  <2>1. r \in DOMAIN s.req /\ r \notin R /\ t.req[r] = s.req[r]
    BY <1>2
  <2>2. IsAnswered(s, r, x, m) => IsAnswered(t, r, x, m)
    BY <2>1, <1>1, <1>9 DEF IsAnswered
  <2> QED BY <2>1, <2>2, <1>1 DEF RpcGood, Settled
<1>12. Callbacks(t)
  <2>1. \A r \in R \cap Requests : r \in Rpc!ToSet(s.performed)
    BY DEF RpcGood, Listed
  <2> QED BY <2>1, <1>1, <1>2 DEF RpcGood, Callbacks
<1> QED BY <1>4, <1>5, <1>7, <1>8, <1>10, <1>11, <1>12 DEF RpcGood

(* cancelRpc: the request goes, and its callback tells that it was         *)
(* cancelled.                                                              *)
LEMMA CancelStays ==
    ASSUME NEW s, NEW kn, NEW dn, NEW h, NEW r \in Requests,
           Shape(s), OnceIn(s), RpcGood(s, kn, dn, h, First, 0, {}), r \in DOMAIN s.req
    PROVE  LET u == [Rpc!Take(s, r) EXCEPT !.ended[r] = IF s.req[r].completed THEN @ ELSE @ + 1,
                                           !.delayed = @ \cup {r}]
               t == IF r \in Rpc!ToSet(s.running) THEN Rpc!PerformRpc(u, "drop", r, None) ELSE u
           IN  RpcStays(s, t, kn, dn, h, First, 0)
<1> DEFINE u == [Rpc!Take(s, r) EXCEPT !.ended[r] = IF s.req[r].completed THEN @ ELSE @ + 1,
                                       !.delayed = @ \cup {r}]
           p == Rpc!PerformRpc(u, "drop", r, None)
<1>1. /\ Shape(u) /\ Same(s, u, {"queue", "running", "req", "ended", "delayed"})
      /\ u.queue = Rpc!Kept(s.queue, Rpc!ToSet(s.queue) \ {r})
      /\ u.running = Rpc!Kept(s.running, Rpc!ToSet(s.running) \ {r})
      /\ u.req = [y \in DOMAIN s.req \ {r} |-> s.req[y]]
      /\ u.ended = [s.ended EXCEPT ![r] = IF s.req[r].completed THEN @ ELSE @ + 1]
  BY DEF Shape, FieldNames, Same, Rpc!Take
<1> HIDE DEF u
<1>2. u.revived = s.revived /\ u.linked = s.linked
  BY <1>1 DEF Same, FieldNames
<1>3. /\ s.queue \in Seq(Names) /\ s.running \in Seq(Names) /\ s.ended \in [Requests -> Nat]
  BY DEF RpcGood, RpcTyped
<1>4. /\ u.queue \in Seq(Names) /\ Rpc!ToSet(u.queue) = Rpc!ToSet(s.queue) \ {r}
      /\ u.running \in Seq(Names) /\ Rpc!ToSet(u.running) = Rpc!ToSet(s.running) \ {r}
  <2> DEFINE k == Rpc!Kept(s.queue, Rpc!ToSet(s.queue) \ {r})
             l == Rpc!Kept(s.running, Rpc!ToSet(s.running) \ {r})
  <2>1. k \in Seq(Names) /\ Rpc!ToSet(k) = Rpc!ToSet(s.queue) \ {r}
    BY <1>3, KeptOut
  <2>2. l \in Seq(Names) /\ Rpc!ToSet(l) = Rpc!ToSet(s.running) \ {r}
    BY <1>3, KeptOut
  <2>3. u.queue = k /\ u.running = l
    BY <1>1
  <2> QED BY <2>1, <2>2, <2>3
<1>5. /\ u.ended \in [Requests -> Nat] /\ \A y \in Requests \ {r} : u.ended[y] = s.ended[y]
      /\ u.ended[r] = IF s.req[r].completed THEN s.ended[r] ELSE s.ended[r] + 1
  BY <1>1, <1>3
<1>6. RpcGood(u, kn, dn, h, First, 0, {})
  <2>1. Same(s, u, TakenBut)
    BY <1>1 DEF Same, TakenBut, Unconcerned
  <2>2. \A y \in {r} : y \in DOMAIN s.req
    OBVIOUS
  <2> QED BY <1>1, <1>4, <1>5, <2>1, <2>2, TakenGood
<1>7. OnceIn(u)
  <2>1. s.req[r].completed \/ s.ended[r] = 0 \/ r \in s.revived
    BY DEF RpcGood, Callbacks
  <2> QED BY <2>1, <1>2, <1>5 DEF OnceIn
<1>8. RpcStays(s, u, kn, dn, h, First, 0)
  BY <1>1, <1>2, <1>6, <1>7 DEF RpcStays
<1>9. RpcStays(s, p, kn, dn, h, First, 0)
  <2>1. Grows(u, p)
    <3>1. Shape(p) /\ Same(u, p, {"posted", "made"})
      BY <1>1, PerformRpcIs
    <3> HIDE DEF p
    <3> QED BY <3>1, GrowsByFields
  <2>2. RpcGood(p, kn, dn, h, First, 0, {})
    <3>1. "drop" \in {"export", "import", "drop"} /\ r \in Dcs \cup Requests /\ None \in Dcs \cup {None} /\ "drop" # "export"
      OBVIOUS
    <3> QED BY <3>1, <1>1, <1>6, PerformRpcGood
  <2> HIDE DEF p
  <2> QED BY <2>1, <2>2, <1>2, <1>7, GrowsOnce DEF RpcStays, Grows
<1> QED BY <1>8, <1>9 DEF u, p

(* rpcCompleted: the request that was answered goes.                       *)
LEMMA RpcCompletedStays ==
    ASSUME NEW s, NEW kn, NEW dn, NEW h,
           Shape(s), OnceIn(s), RpcGood(s, kn, dn, h, First, 0, {})
    PROVE  LET done == {r \in Rpc!ToSet(s.running) : s.req[r].mid = Head(s.completing)}
           IN  RpcStays(s, [s EXCEPT !.completing = Tail(@),
                                     !.running = Rpc!Kept(@, Rpc!ToSet(@) \ done),
                                     !.req = [r \in DOMAIN @ \ done |-> @[r]]], kn, dn, h, First, 0)
<1> DEFINE done == {r \in Rpc!ToSet(s.running) : s.req[r].mid = Head(s.completing)}
           T == Rpc!ToSet(s.running) \ done
           u == [s EXCEPT !.completing = Tail(@),
                          !.running = Rpc!Kept(@, Rpc!ToSet(@) \ done),
                          !.req = [r \in DOMAIN @ \ done |-> @[r]]]
<1>1. done \subseteq Rpc!ToSet(s.running) /\ T \subseteq Rpc!ToSet(s.running)
  OBVIOUS
<1> HIDE DEF done
<1>2. /\ Shape(u) /\ Same(s, u, {"completing", "running", "req"})
      /\ u.running = Rpc!Kept(s.running, T)
      /\ u.req = [r \in DOMAIN s.req \ done |-> s.req[r]]
  BY DEF Shape, FieldNames, Same
<1> HIDE DEF u
<1>3. u.queue = s.queue /\ u.ended = s.ended /\ u.revived = s.revived /\ u.linked = s.linked
  BY <1>2 DEF Same, FieldNames
<1>4. /\ s.queue \in Seq(Names) /\ s.running \in Seq(Names) /\ s.ended \in [Requests -> Nat]
  BY DEF RpcGood, RpcTyped
<1>5. /\ u.running \in Seq(Names) /\ Rpc!ToSet(u.running) = Rpc!ToSet(s.running) \ done
  <2> DEFINE l == Rpc!Kept(s.running, Rpc!ToSet(s.running) \ done)
  <2>1. l \in Seq(Names) /\ Rpc!ToSet(l) = Rpc!ToSet(s.running) \ done
    BY <1>4, KeptOut
  <2>2. u.running = l
    BY <1>2
  <2> QED BY <2>1, <2>2
<1>6. /\ Rpc!ToSet(s.queue) = Rpc!ToSet(s.queue) \ done
      /\ \A r \in done : r \in DOMAIN s.req
  BY <1>1 DEF RpcGood, Listed
<1>7. Same(s, u, TakenBut)
  BY <1>2 DEF Same, TakenBut, Unconcerned
<1>8. RpcGood(u, kn, dn, h, First, 0, {})
  BY <1>2, <1>3, <1>4, <1>5, <1>6, <1>7, TakenGood
<1>9. RpcStays(s, u, kn, dn, h, First, 0)
  BY <1>2, <1>3, <1>8 DEF RpcStays, OnceIn
<1> QED BY <1>9 DEF u, done

(* The timer's turn.                                                       *)
LEMMA TimerStays ==
    ASSUME NEW s, NEW kn, NEW dn, NEW h,
           Shape(s), OnceIn(s), RpcGood(s, kn, dn, h, First, 0, {})
    PROVE  RpcStays(s, IF s.current \in s.keys THEN Rpc!ProcessRequestQueue(s, FALSE, None)
                       ELSE Rpc!Handshake(s, s.current), kn, dn, h, First, 0)
<1> DEFINE t == Rpc!Handshake(s, s.current)
<1>1. RpcStays(s, s, kn, dn, h, First, 0)
  BY DEF RpcStays
<1>2. RpcStays(s, Rpc!ProcessRequestQueue(s, FALSE, None), kn, dn, h, First, 0)
  BY <1>1, ProcessStays
<1>3. RpcStays(s, t, kn, dn, h, First, 0)
  <2>1. Shape(t) /\ Grows(s, t) /\ Same(s, t, {"handshakes", "wanted"})
    BY HandshakeIs
  <2> HIDE DEF t
  <2>2. Same(s, t, Unconcerned)
    BY <2>1 DEF Same, Unconcerned
  <2> QED BY <2>1, <2>2, GoodStays, GrowsOnce DEF RpcStays, Grows
<1> QED BY <1>2, <1>3

(* A running request has waited for long enough.                           *)
LEMMA AgeStays ==
    ASSUME NEW s, NEW kn, NEW dn, NEW h, NEW r \in Rpc!ToSet(s.running),
           Shape(s), OnceIn(s), RpcGood(s, kn, dn, h, First, 0, {})
    PROVE  RpcStays(s, [s EXCEPT !.req[r].due = TRUE], kn, dn, h, First, 0)
<1> DEFINE u == [s EXCEPT !.req[r].due = TRUE]
<1>1. Shape(u) /\ Same(s, u, {"req"}) /\ u.req = [s.req EXCEPT ![r].due = TRUE]
  BY DEF Shape, FieldNames, Same
<1> HIDE DEF u
<1>2. u.ended = s.ended /\ u.revived = s.revived /\ u.linked = s.linked /\ u.up = s.up /\ u.processed = s.processed
  BY <1>1 DEF Same, FieldNames
<1>3. r \in DOMAIN s.req /\ s.req \in [DOMAIN s.req -> Waiting]
  BY DEF RpcGood, RpcTyped, Listed
<1>4. \A y \in DOMAIN s.req : /\ u.req[y] \in Waiting
                              /\ u.req[y].dc = s.req[y].dc /\ u.req[y].mid = s.req[y].mid
                              /\ u.req[y].completed = s.req[y].completed
  <2> TAKE y \in DOMAIN s.req
  <2>1. s.req[y] \in Waiting /\ u.req[y] = IF y = r THEN [s.req[y] EXCEPT !.due = TRUE] ELSE s.req[y]
    BY <1>1, <1>3
  <2> QED BY <2>1 DEF Waiting
<1>5. DOMAIN u.req = DOMAIN s.req /\ u.req \in [DOMAIN s.req -> Waiting]
  BY <1>1, <1>3, <1>4
<1>6. Less(s, kn, dn, First, 0, u, kn, dn, First, 0, h)
  <2>1. Same(s, u, {"req", "up", "processed"} \cup Unconcerned)
    BY <1>1 DEF Same
  <2>2. /\ s.processed \in [Dcs -> SUBSET Nat] /\ DOMAIN s.up = Dcs /\ \A d \in Dcs : Packed(s.up[d])
        /\ \A d \in Dcs : h = First /\ d # First => s.up[d] = <<>>
    BY DEF RpcGood, RpcTyped, Places
  <2> QED BY <2>1, <2>2, <1>2, <1>4, <1>5 DEF Less
<1>7. RpcGood(u, kn, dn, h, First, 0, {})
  BY <1>6, GoodWithLess
<1>8. RpcStays(s, u, kn, dn, h, First, 0)
  BY <1>1, <1>2, <1>7 DEF RpcStays, OnceIn
<1> QED BY <1>8 DEF u

(* A move is tried again.                                                  *)
LEMMA MoveAgainStays ==
    ASSUME NEW s, NEW kn, NEW dn, NEW h, NEW d \in s.again,
           Shape(s), OnceIn(s), RpcGood(s, kn, dn, h, First, 0, {})
    PROVE  RpcStays(s, Rpc!MoveToDatacenter([s EXCEPT !.again = @ \ {d}], d), kn, dn, h, First, 0)
<1> DEFINE u == [s EXCEPT !.again = @ \ {d}]
           t == Rpc!MoveToDatacenter(u, h)
<1>1. d = h /\ h # First /\ s.again \subseteq {h}
  BY DEF RpcGood, Places
<1>2. Shape(u) /\ Same(s, u, {"again"}) /\ u.again = s.again \ {d}
  BY DEF Shape, FieldNames, Same
<1> HIDE DEF u
<1>3. u.again \subseteq {h} /\ Same(s, u, {"again"} \cup Unconcerned)
  BY <1>1, <1>2 DEF Same
<1>4. RpcGood(u, kn, dn, h, First, 0, {})
  BY <1>1, <1>3, AgainGood
<1>5. Grows(s, u)
  BY <1>2, GrowsByFields
<1>6. Grows(u, t) /\ (t.spoiled \/ RpcGood(t, kn, dn, h, First, 0, {}))
  BY <1>1, <1>2, <1>4, MoveToDatacenterGood
<1> HIDE DEF t
<1>7. Grows(s, t)
  BY <1>5, <1>6, GrowsOn
<1>8. RpcStays(s, t, kn, dn, h, First, 0)
  BY <1>6, <1>7, GrowsOnce DEF RpcStays, Grows
<1> QED BY <1>1, <1>8 DEF t, u

(* A datacenter has got its key.                                           *)
LEMMA HandshakeDidFinishStays ==
    ASSUME NEW s, NEW kn, NEW dn, NEW h, NEW d \in Dcs,
           Shape(s), OnceIn(s), RpcGood(s, kn, dn, h, First, 0, {})
    PROVE  LET keyed == [s EXCEPT !.keys = @ \cup {d}, !.handshakes = @ \ {d}]
               anew == Rpc!ClearRequestsForDatacenter(Rpc!RecreateSessions(keyed, d), d)
           IN  RpcStays(s, Rpc!ProcessRequestQueue(IF d \in {s.current, s.moving} THEN anew ELSE keyed, TRUE, d),
                        kn, dn, h, First, 0)
<1> DEFINE keyed == [s EXCEPT !.keys = @ \cup {d}, !.handshakes = @ \ {d}]
           anew == Rpc!ClearRequestsForDatacenter(Rpc!RecreateSessions(keyed, d), d)
           u == IF d \in {s.current, s.moving} THEN anew ELSE keyed
<1>1. Shape(keyed) /\ Same(s, keyed, {"keys", "handshakes"})
  BY DEF Shape, FieldNames, Same
<1> HIDE DEF keyed
<1>2. Grows(s, keyed) /\ RpcGood(keyed, kn, dn, h, First, 0, {})
  <2>1. Same(s, keyed, Unconcerned)
    BY <1>1 DEF Same, Unconcerned
  <2> QED BY <2>1, <1>1, GoodStays, GrowsByFields
<1>3. Grows(keyed, anew) /\ (anew.spoiled \/ RpcGood(anew, kn, dn, h, First, 0, {}))
  BY <1>1, <1>2, SessionsAnew
<1> HIDE DEF anew
<1>4. Grows(s, anew)
  BY <1>2, <1>3, GrowsOn
<1>5. RpcStays(s, u, kn, dn, h, First, 0)
  BY <1>2, <1>3, <1>4, GrowsOnce DEF RpcStays, Grows
<1> HIDE DEF u
<1>6. RpcStays(s, Rpc!ProcessRequestQueue(u, TRUE, d), kn, dn, h, First, 0)
  BY <1>5, ProcessStays
<1> QED BY <1>6 DEF u, anew, keyed

(* Lists, and the sequence of a set.                                       *)
LEMMA ListOf ==
    ASSUME NEW S, NEW l \in Seq(S)
    PROVE  IsList(l) /\ Rpc!ToSet(l) \subseteq S
  BY DEF IsList, Rpc!ToSet

(* A list without its head.                                                *)
LEMMA ShorterList ==
    ASSUME NEW l, IsList(l), l # <<>>
    PROVE  /\ IsList(Tail(l)) /\ Rpc!ToSet(Tail(l)) \subseteq Rpc!ToSet(l)
           /\ Head(l) \in Rpc!ToSet(l)
<1> DEFINE n == Len(l)
           t == Tail(l)
<1>1. /\ n \in Nat \ {0} /\ DOMAIN l = 1 .. n /\ t \in Seq(Rpc!ToSet(l)) /\ Head(l) = l[1]
  BY DEF IsList
<1>2. Head(l) \in Rpc!ToSet(l)
  BY <1>1 DEF Rpc!ToSet
<1> QED BY <1>1, <1>2, ListOf

(* Two lists, one after the other.                                         *)
LEMMA ListsJoined ==
    ASSUME NEW k, NEW l, IsList(k), IsList(l)
    PROVE  IsList(k \o l) /\ Rpc!ToSet(k \o l) = Rpc!ToSet(k) \cup Rpc!ToSet(l)
<1> DEFINE S == Rpc!ToSet(k) \cup Rpc!ToSet(l)
<1>1. k \in Seq(S) /\ l \in Seq(S)
  BY SeqMonotonic DEF IsList
<1> HIDE DEF S
<1>2. k \o l \in Seq(S) /\ Rpc!ToSet(k \o l) = Rpc!ToSet(k) \cup Rpc!ToSet(l)
  BY <1>1, Joined
<1> QED BY <1>2, ListOf

(* The beginning of a list.                                                *)
LEMMA ListBegins ==
    ASSUME NEW l, IsList(l), NEW n \in 0 .. Len(l)
    PROVE  IsList(SubSeq(l, 1, n)) /\ Rpc!ToSet(SubSeq(l, 1, n)) \subseteq Rpc!ToSet(l)
<1> DEFINE t == SubSeq(l, 1, n)
<1>1. t \in Seq(Rpc!ToSet(l))
  BY DEF IsList
<1> QED BY <1>1, ListOf

(* Lists of one and of none.                                               *)
LEMMA OneListed ==
    ASSUME NEW e
    PROVE  IsList(<<e>>) /\ Rpc!ToSet(<<e>>) = {e} /\ IsList(<<>>) /\ Rpc!ToSet(<<>>) = {}
<1>1. <<e>> \in Seq({e}) /\ Rpc!ToSet(<<e>>) = {e}
  BY DEF Rpc!ToSet
<1>2. <<>> \in Seq({e}) /\ Rpc!ToSet(<<>>) = {}
  BY DEF Rpc!ToSet
<1> QED BY <1>1, <1>2 DEF IsList

(* A list of the elements of a set.                                        *)
LEMMA SetListed ==
    ASSUME NEW S, IsFiniteSet(S)
    PROVE  IsList(Rpc!SetToSeq(S)) /\ Rpc!ToSet(Rpc!SetToSeq(S)) \subseteq S
<1> DEFINE n == Cardinality(S)
           l == Rpc!SetToSeq(S)
<1>1. n \in Nat /\ ExistsBijection(1 .. n, S)
  BY FS_CardinalityType
<1>2. PICK f \in [1 .. n -> S] : Rpc!IsInjective(f)
  BY <1>1 DEF ExistsBijection, Bijection, Injection, IsInjective, Rpc!IsInjective
<1>3. l = CHOOSE g \in [1 .. n -> S] : Rpc!IsInjective(g)
  BY RpcOperators DEF Rpc!SetToSeq
<1> HIDE DEF l, n
<1>4. l \in [1 .. n -> S]
  BY <1>2, <1>3
<1>5. l \in Seq(S)
  BY <1>1, <1>4
<1> QED BY <1>5, ListOf DEF l

(* The values of a function on a finite set are finitely many.             *)
LEMMA ImageFinite ==
    ASSUME NEW S, IsFiniteSet(S), NEW f, DOMAIN f = S
    PROVE  IsFiniteSet({f[x] : x \in S})
<1> DEFINE T == {f[x] : x \in S}
           g == [x \in S |-> f[x]]
<1>1. g \in Surjection(S, T)
  BY DEF Surjection
<1> HIDE DEF T, g
<1>2. IsFiniteSet(T)
  BY <1>1, FS_Surjection
<1> QED BY <1>2 DEF T

-----------------------------------------------------------------------------
(* What the servers know and have answered.                                *)
AnswerTo(w, h) == w \in Rpc!Outcomes \/ (w = h /\ h # First)

(* What the server knows of a message, and what it sends.                  *)
Entries == {"session", "mid", "req", "after", "what"}
Entry(k, h) == k = [f \in Entries |-> k[f]] /\ AnswerTo(k.what, h)

(* A message of the server.                                                *)
MessageIs(g, h) ==
    /\ g.kind \in {"connected", "new", "result", "bad", "salt"}
    /\ g.kind # "connected" => g.mid \in Nat
    /\ g.kind = "result" => AnswerTo(g.what, h)

(* The servers' part: nothing at another datacenter while the account      *)
(* lives in the first.                                                     *)
Answers(kn, dn, h) ==
    /\ DOMAIN kn = Dcs /\ DOMAIN dn = Dcs
    /\ \A d \in Dcs : /\ IsFiniteSet(kn[d]) /\ (h = First /\ d # First => kn[d] = {})
                      /\ \A k \in kn[d] : Entry(k, h)
                      /\ IsList(dn[d]) /\ \A g \in Rpc!ToSet(dn[d]) : MessageIs(g, h)

(* What is on its way is no more than before.                              *)
LEMMA NotMore ==
    ASSUME NEW up, NEW up1, NEW kn, NEW kn1, NEW dn, NEW dn1, NEW d,
           Rpc!ToSet(up1[d]) \subseteq Rpc!ToSet(up[d]),
           \A k \in kn1[d] : OnTheWay(up, kn, dn, d, k.mid),
           \A g \in Rpc!ToSet(dn1[d]) : g.kind = "result" => OnTheWay(up, kn, dn, d, g.mid)
    PROVE  \A i : OnTheWay(up1, kn1, dn1, d, i) => OnTheWay(up, kn, dn, d, i)
<1> TAKE i
<1>1. ASSUME NEW p \in Rpc!ToSet(up1[d]), NEW n \in DOMAIN p.messages, p.messages[n].mid = i
      PROVE  OnTheWay(up, kn, dn, d, i)
  BY <1>1 DEF OnTheWay
<1>2. ASSUME NEW n \in DOMAIN dn1[d], dn1[d][n].kind = "result" /\ dn1[d][n].mid = i
      PROVE  OnTheWay(up, kn, dn, d, i)
  <2>1. dn1[d][n] \in Rpc!ToSet(dn1[d])
    BY DEF Rpc!ToSet
  <2> QED BY <1>2, <2>1
<1> SUFFICES ASSUME OnTheWay(up1, kn1, dn1, d, i) PROVE OnTheWay(up, kn, dn, d, i)
  OBVIOUS
<1> QED BY <1>1, <1>2 DEF OnTheWay

(* What is known or answered is on its way.                                *)
LEMMA KnownAndAnswered ==
    ASSUME NEW up, NEW kn, NEW dn, NEW d
    PROVE  /\ \A k \in kn[d] : OnTheWay(up, kn, dn, d, k.mid)
           /\ \A g \in Rpc!ToSet(dn[d]) : g.kind = "result" => OnTheWay(up, kn, dn, d, g.mid)
  BY DEF OnTheWay, Rpc!ToSet

(* What the environment leaves of the requests: nothing of them changes.   *)
LEMMA LessOf ==
    ASSUME NEW s, NEW t, NEW kn, NEW dn, NEW kn1, NEW dn1, NEW h,
           RpcGood(s, kn, dn, h, First, 0, {}),
           Same(s, t, {"up"} \cup Unconcerned),
           DOMAIN t.up = Dcs, \A d \in Dcs : Packed(t.up[d]) /\ Rpc!ToSet(t.up[d]) \subseteq Rpc!ToSet(s.up[d]),
           \A d \in Dcs : h = First /\ d # First => t.up[d] = <<>>,
           \A d \in Dcs : \A k \in kn1[d] : OnTheWay(s.up, kn, dn, d, k.mid),
           \A d \in Dcs : \A g \in Rpc!ToSet(dn1[d]) : g.kind = "result" => OnTheWay(s.up, kn, dn, d, g.mid)
    PROVE  RpcGood(t, kn1, dn1, h, First, 0, {})
<1>1. t.req = s.req /\ t.processed = s.processed
  BY DEF Same, FieldNames, Unconcerned
<1>2. /\ s.processed \in [Dcs -> SUBSET Nat] /\ s.req \in [DOMAIN s.req -> Waiting]
  BY DEF RpcGood, RpcTyped
<1>3. \A d \in Dcs : \A i : OnTheWay(t.up, kn1, dn1, d, i) => OnTheWay(s.up, kn, dn, d, i)
  <2> TAKE d \in Dcs
  <2> QED BY NotMore
<1>4. Same(s, t, {"req", "up", "processed"} \cup Unconcerned)
  BY DEF Same
<1>5. Less(s, kn, dn, First, 0, t, kn1, dn1, First, 0, h)
  BY <1>1, <1>2, <1>3, <1>4 DEF Less
<1> QED BY <1>5, GoodWithLess

(* A message from datacenter d is handled.                                 *)
LEMMA MessageStays ==
    ASSUME NEW s, NEW kn, NEW dn, NEW h, NEW d \in Dcs, NEW g,
           Shape(s), OnceIn(s), RpcGood(s, kn, dn, h, d, g.mid, {}),
           MessageIs(g, h), g.kind # "connected",
           g.kind = "result" => g.mid # 0 /\ MayRepeat(s, h, d, g.mid)
    PROVE  RpcStays(s, Rpc!ProcessMessage(s, d, g), kn, dn, h, d, g.mid)
<1>1. RpcStays(s, s, kn, dn, h, d, g.mid)
  BY DEF RpcStays
<1>2. CASE g.kind = "new"
  <2> DEFINE S == {r \in Rpc!RunningIn(s, d) : s.req[r].mid < g.first}
             t == Rpc!ClearRequests(s, S)
  <2>1. Rpc!ProcessMessage(s, d, g) = t
    BY <1>2 DEF Rpc!ProcessMessage, Rpc!NewSessionCreated
  <2>2. S \subseteq Rpc!ToSet(s.running)
    BY DEF Rpc!RunningIn
  <2> HIDE DEF S
  <2>3. Grows(s, t)
    BY ClearRequestsIs
  <2>4. t.spoiled \/ RpcGood(t, kn, dn, h, d, g.mid, {})
    BY <2>2, ClearRequestsGood
  <2> HIDE DEF t
  <2>5. RpcStays(s, t, kn, dn, h, d, g.mid)
    BY <2>3, <2>4, GrowsOnce DEF RpcStays, Grows
  <2> QED BY <2>1, <2>5
<1>3. CASE g.kind = "result"
  <2>1. Rpc!ProcessMessage(s, d, g) = Rpc!RpcResult(s, g)
    BY <1>3 DEF Rpc!ProcessMessage
  <2>2. g.mid \in Nat \ {0} /\ (g.what \in Rpc!Outcomes \/ (g.what = h /\ h # First))
    BY <1>3 DEF MessageIs, AnswerTo
  <2>3. RpcStays(s, Rpc!RpcResult(s, g), kn, dn, h, d, g.mid)
    BY <1>3, <2>2, RpcResultStays
  <2> QED BY <2>1, <2>3
<1>4. CASE g.kind = "bad"
  <2> DEFINE t == Rpc!ClearRequestsForDatacenter(Rpc!RecreateSessions(s, d), d)
  <2>1. Rpc!ProcessMessage(s, d, g) = t
    BY <1>4 DEF Rpc!ProcessMessage, Rpc!BadMsgNotification
  <2>2. Grows(s, t) /\ (t.spoiled \/ RpcGood(t, kn, dn, h, d, g.mid, {}))
    BY SessionsAnew
  <2> HIDE DEF t
  <2>3. RpcStays(s, t, kn, dn, h, d, g.mid)
    BY <2>2, GrowsOnce DEF RpcStays, Grows
  <2> QED BY <2>1, <2>3
<1>5. CASE g.kind = "salt"
  <2>1. Rpc!ProcessMessage(s, d, g) = Rpc!ProcessRequestQueue(s, TRUE, d)
    BY <1>5 DEF Rpc!ProcessMessage, Rpc!BadServerSalt
  <2>2. RpcStays(s, Rpc!ProcessRequestQueue(s, TRUE, d), kn, dn, h, d, g.mid)
    BY <1>1, ProcessStays
  <2> QED BY <2>1, <2>2
<1> QED BY <1>2, <1>3, <1>4, <1>5 DEF MessageIs

(* Its id is noted.                                                        *)
LEMMA NotedGood ==
    ASSUME NEW s, NEW kn, NEW dn, NEW h, NEW d \in Dcs, NEW i \in Nat,
           Shape(s), RpcGood(s, kn, dn, h, d, i, {})
    PROVE  RpcGood([s EXCEPT !.processed[d] = @ \cup ({i} \ {0})], kn, dn, h, First, 0, {})
<1> DEFINE t == [s EXCEPT !.processed[d] = @ \cup ({i} \ {0})]
<1>1. Shape(t) /\ Same(s, t, {"processed"}) /\ t.processed = [s.processed EXCEPT ![d] = @ \cup ({i} \ {0})]
  BY DEF Shape, FieldNames, Same
<1> HIDE DEF t
<1>2. t.req = s.req /\ t.up = s.up
  BY <1>1 DEF Same, FieldNames
<1>3. /\ s.processed \in [Dcs -> SUBSET Nat] /\ s.req \in [DOMAIN s.req -> Waiting]
      /\ DOMAIN s.up = Dcs /\ \A e \in Dcs : Packed(s.up[e])
      /\ \A e \in Dcs : h = First /\ e # First => s.up[e] = <<>>
  BY DEF RpcGood, RpcTyped, Places
<1>4. /\ t.processed \in [Dcs -> SUBSET Nat]
      /\ \A e \in Dcs : t.processed[e] = s.processed[e] \cup (IF e = d THEN {i} \ {0} ELSE {})
  BY <1>1, <1>3
<1>5. Same(s, t, {"req", "up", "processed"} \cup Unconcerned)
  BY <1>1 DEF Same
<1>6. Less(s, kn, dn, d, i, t, kn, dn, First, 0, h)
  BY <1>2, <1>3, <1>4, <1>5 DEF Less
<1>7. RpcGood(t, kn, dn, h, First, 0, {})
  BY <1>6, GoodWithLess
<1> QED BY <1>7 DEF t

(* What of another datacenter's messages is handled makes no difference.   *)
LEMMA BeingHandled ==
    ASSUME NEW s, NEW kn, NEW dn, NEW h, NEW d, NEW i,
           RpcGood(s, kn, dn, h, First, 0, {})
    PROVE  RpcGood(s, kn, dn, h, d, i, {})
<1>1. /\ s.processed \in [Dcs -> SUBSET Nat] /\ s.req \in [DOMAIN s.req -> Waiting]
      /\ DOMAIN s.up = Dcs /\ \A e \in Dcs : Packed(s.up[e])
      /\ \A e \in Dcs : h = First /\ e # First => s.up[e] = <<>>
  BY DEF RpcGood, RpcTyped, Places
<1>2. Same(s, s, {"req", "up", "processed"} \cup Unconcerned)
  BY DEF Same
<1>3. Less(s, kn, dn, First, 0, s, kn, dn, d, i, h)
  BY <1>1, <1>2 DEF Less
<1> QED BY <1>3, GoodWithLess

(* The handler of a message, but for connected.                            *)
LEMMA ReceivedStays ==
    ASSUME NEW s, NEW kn, NEW dn, NEW dn1, NEW h, NEW d \in Dcs, NEW g,
           Shape(s), OnceIn(s), RpcGood(s, kn, dn, h, First, 0, {}), RpcGood(s, kn, dn1, h, First, 0, {}),
           MessageIs(g, h), g.kind # "connected", g \in Rpc!ToSet(dn[d]),
           g.mid = 0 \/ g.mid \notin s.processed[d]
    PROVE  RpcStays(s, [Rpc!ProcessMessage(s, d, g) EXCEPT !.processed[d] = @ \cup ({g.mid} \ {0})],
                    kn, dn1, h, First, 0)
<1> DEFINE u == Rpc!ProcessMessage(s, d, g)
           t == [u EXCEPT !.processed[d] = @ \cup ({g.mid} \ {0})]
           i == g.mid
<1>1. i \in Nat
  BY DEF MessageIs
<1>2. g.kind = "result" => OnTheWay(s.up, kn, dn, d, i)
  BY KnownAndAnswered
<1>3. g.kind = "result" => i # 0
  BY <1>2 DEF RpcGood, Numbers
<1>4. g.kind = "result" => MayRepeat(s, h, d, i)
  <2> SUFFICES ASSUME g.kind = "result", NEW r \in Rpc!ToSet(s.running), s.req[r].mid = i
               PROVE  /\ Rpc!Dc(s, r) = d
                      /\ s.req[r].completed =>
                            \/ r \in s.revived
                            \/ IsMove(r) /\ r[1] = "export" /\ s.req[r].dc = h /\ s.current = h
    BY DEF MayRepeat
  <2>1. r \in DOMAIN s.req
    BY DEF RpcGood, Listed
  <2>2. Rpc!Dc(s, r) = d
    BY <1>2, <2>1 DEF RpcGood, Numbers
  <2>3. ~IsAnswered(s, r, First, 0)
    BY <1>3, <2>2 DEF IsAnswered
  <2> QED BY <2>1, <2>2, <2>3 DEF RpcGood, Settled
<1>5. RpcGood(s, kn, dn1, h, d, i, {})
  BY BeingHandled
<1>6. RpcStays(s, u, kn, dn1, h, d, i)
  BY <1>3, <1>4, <1>5, MessageStays
<1> HIDE DEF u
<1>7. Shape(t) /\ Same(u, t, {"processed"})
  BY <1>6 DEF RpcStays, Shape, FieldNames, Same
<1>8. t.ended = u.ended /\ t.revived = u.revived /\ t.linked = u.linked /\ t.spoiled = u.spoiled
  BY <1>7 DEF Same, FieldNames
<1>9. RpcGood(u, kn, dn1, h, d, i, {}) => RpcGood(t, kn, dn1, h, First, 0, {})
  BY <1>1, <1>6, NotedGood DEF RpcStays
<1> HIDE DEF t
<1>10. RpcStays(s, t, kn, dn1, h, First, 0)
  BY <1>6, <1>7, <1>8, <1>9 DEF RpcStays, OnceIn
<1> QED BY <1>10 DEF t, u

(* What holds unless the end of a move came twice.                         *)
Safe(s, kn, dn, h) == s.linked \subseteq Dcs /\ Answers(kn, dn, h) /\ RpcGood(s, kn, dn, h, First, 0, {})

(* The inductive invariant of the RPC layer.                               *)
RpcInv == Shape(c) /\ OnceIn(c) /\ (c.spoiled \/ Safe(c, known, down, home))

(* It holds at the beginning.                                              *)
LEMMA RpcInitHolds == Rpc!Init => RpcInv
<1> SUFFICES ASSUME Rpc!Init PROVE RpcInv
  OBVIOUS
<1>1. PICK logged \in BOOLEAN, authorized \in SUBSET (Dcs \ {First}) :
         c = [queue |-> <<>>, running |-> <<>>, req |-> <<>>, posted |-> <<>>,
                 authorized |-> authorized, completing |-> <<>>, current |-> First, moving |-> None,
                 exported |-> FALSE, again |-> {},
                 keys |-> IF logged THEN Dcs ELSE {First}, handshakes |-> {},
                 activated |-> logged, session |-> [d \in Dcs |-> 1],
                 processed |-> [d \in Dcs |-> {}], linked |-> {},
                 wanted |-> {First}, mid |-> 0, made |-> 0,
                 up |-> [d \in Dcs |-> <<>>], ended |-> [r \in Requests |-> 0],
                 performed |-> <<>>, revived |-> {}, delayed |-> {}, spoiled |-> FALSE, stuck |-> FALSE]
  BY DEF Rpc!Init
<1>2. Shape(c)
  BY <1>1 DEF Shape, FieldNames
<1>3. /\ c.queue = <<>> /\ c.running = <<>> /\ c.req = <<>> /\ c.posted = <<>> /\ c.current = First
      /\ c.moving = None /\ c.again = {} /\ c.processed = [d \in Dcs |-> {}] /\ c.linked = {}
      /\ c.mid = 0 /\ c.made = 0 /\ c.up = [d \in Dcs |-> <<>>] /\ c.ended = [r \in Requests |-> 0]
      /\ c.performed = <<>> /\ c.revived = {} /\ c.spoiled = FALSE
  BY <1>1
<1>4. /\ down = [d \in Dcs |-> <<>>] /\ known = [d \in Dcs |-> {}] /\ home = First
  BY DEF Rpc!Init
<1>5. \A e : Rpc!ToSet(<<>>) = {} /\ IsList(<<>>)
  BY OneListed
<1>6. DOMAIN c.req = {} /\ DOMAIN c.posted = {}
  BY <1>3
<1>7. Moves(c) = {} /\ Unfinished(c, {}) = {} /\ PostedMoves(c) = {}
  BY <1>6 DEF Moves, Unfinished, PostedMoves
<1>8. RpcTyped(c)
  <2>1. \A d \in Dcs : Packed(c.up[d])
    BY <1>3, <1>5 DEF Packed
  <2>2. c.req \in [DOMAIN c.req -> Waiting]
    BY <1>3, <1>6
  <2>3. c.queue \in Seq(Names) /\ c.running \in Seq(Names) /\ c.posted \in Seq(Posts) /\ c.performed \in Seq(Requests)
    BY <1>3
  <2>4. /\ c.processed \in [Dcs -> SUBSET Nat] /\ DOMAIN c.up = Dcs /\ c.ended \in [Requests -> Nat]
        /\ c.mid \in Nat /\ c.made \in Nat /\ c.revived \subseteq Requests /\ c.again \subseteq Dcs
        /\ c.spoiled \in BOOLEAN
    <3>1. {} \in SUBSET Nat /\ 0 \in Nat /\ DOMAIN c.up = Dcs
      BY <1>3
    <3>2. [d \in Dcs |-> {}] \in [Dcs -> SUBSET Nat] /\ [r \in Requests |-> 0] \in [Requests -> Nat]
      BY <3>1
    <3> QED BY <3>1, <3>2, <1>3
  <2> QED BY <2>1, <2>2, <2>3, <2>4, <1>6 DEF RpcTyped
<1>9. Places(c, First)
  BY <1>3, <1>6, RpcAssumption DEF Places, Rpc!DcsAssumption
<1>10. Listed(c) /\ Made(c) /\ OneMove(c, First, {}) /\ Settled(c, First, First, 0) /\ Callbacks(c)
  BY <1>3, <1>5, <1>6, <1>7 DEF Listed, Made, OneMove, Settled, Callbacks
<1>11. Numbers(c, known, down)
  <2>1. \A d \in Dcs : \A i : ~OnTheWay(c.up, known, down, d, i)
    BY <1>3, <1>4, <1>5 DEF OnTheWay
  <2> QED BY <2>1, <1>6 DEF Numbers
<1>12. RpcGood(c, known, down, home, First, 0, {})
  BY <1>4, <1>8, <1>9, <1>10, <1>11 DEF RpcGood
<1>13. Answers(known, down, home)
  BY <1>4, <1>5, FS_EmptySet DEF Answers
<1>14. OnceIn(c)
  BY <1>3 DEF OnceIn
<1> QED BY <1>2, <1>3, <1>12, <1>13, <1>14 DEF RpcInv, Safe

-----------------------------------------------------------------------------
(* What stageQueue runs.                                                   *)
LEMMA RunningSafe ==
    ASSUME RpcInv, Rpc!Running
    PROVE  Shape(c) /\ OnceIn(c) /\ Safe(c, known, down, home)
  BY DEF RpcInv, Rpc!Running

(* A step of the client preserves it when its handler does.                *)
LEMMA StaysSafe ==
    ASSUME RpcInv, Rpc!Running, Answers(known', down', home'), home' = home,
           RpcStays(c, c', known', down', home, First, 0)
    PROVE  RpcInv'
<1>1. c'.linked \subseteq Dcs
  BY RunningSafe DEF Safe, RpcStays
<1> QED BY <1>1 DEF RpcInv, Safe, RpcStays

(* The more so when it takes nothing from the network.                     *)
LEMMA LocalKeeps ==
    ASSUME RpcInv, Rpc!Running, UNCHANGED <<down, known, home>>,
           RpcStays(c, c', known, down, home, First, 0)
    PROVE  RpcInv'
  BY RunningSafe, StaysSafe DEF Safe

(* The operations of the client.                                           *)
LEMMA PerformKeeps == ASSUME RpcInv, NEW r \in Requests, Rpc!Perform(r) PROVE RpcInv'
<1>1. Rpc!Running /\ UNCHANGED <<down, known, home>> /\ r \notin Rpc!ToSet(c.performed)
  BY DEF Rpc!Perform
<1>2. RpcStays(c, c', known, down, home, First, 0)
  BY <1>1, RunningSafe, PerformStays DEF Rpc!Perform, Safe
<1> QED BY <1>1, <1>2, LocalKeeps

LEMMA PerformPostedKeeps == ASSUME RpcInv, Rpc!PerformPosted PROVE RpcInv'
<1>1. Rpc!Running /\ UNCHANGED <<down, known, home>> /\ c.posted # <<>>
  BY DEF Rpc!PerformPosted
<1>2. RpcStays(c, c', known, down, home, First, 0)
  BY <1>1, RunningSafe, PerformPostedStays DEF Rpc!PerformPosted, Safe
<1> QED BY <1>1, <1>2, LocalKeeps

LEMMA CancelRpcKeeps == ASSUME RpcInv, NEW r \in Requests, Rpc!CancelRpc(r) PROVE RpcInv'
<1>1. Rpc!Running /\ UNCHANGED <<down, known, home>> /\ r \in DOMAIN c.req
  BY DEF Rpc!CancelRpc
<1>2. RpcStays(c, c', known, down, home, First, 0)
  BY <1>1, RunningSafe, CancelStays DEF Rpc!CancelRpc, Safe
<1> QED BY <1>1, <1>2, LocalKeeps

LEMMA TimerKeeps == ASSUME RpcInv, Rpc!Timer PROVE RpcInv'
<1>1. Rpc!Running /\ UNCHANGED <<down, known, home>>
  BY DEF Rpc!Timer
<1>2. RpcStays(c, c', known, down, home, First, 0)
  BY <1>1, RunningSafe, TimerStays DEF Rpc!Timer, Safe
<1> QED BY <1>1, <1>2, LocalKeeps

LEMMA AgeKeeps == ASSUME RpcInv, NEW r \in Rpc!ToSet(c.running), Rpc!Age(r) PROVE RpcInv'
<1>1. Rpc!Running /\ UNCHANGED <<down, known, home>> /\ c' = [c EXCEPT !.req[r].due = TRUE]
  BY DEF Rpc!Age
<1>2. RpcStays(c, c', known, down, home, First, 0)
  BY <1>1, RunningSafe, AgeStays DEF Safe
<1> QED BY <1>1, <1>2, LocalKeeps

LEMMA RpcCompletedKeeps == ASSUME RpcInv, Rpc!RpcCompleted PROVE RpcInv'
<1>1. Rpc!Running /\ UNCHANGED <<down, known, home>>
  BY DEF Rpc!RpcCompleted
<1>2. RpcStays(c, c', known, down, home, First, 0)
  BY <1>1, RunningSafe, RpcCompletedStays DEF Rpc!RpcCompleted, Safe
<1> QED BY <1>1, <1>2, LocalKeeps

LEMMA MoveAgainKeeps == ASSUME RpcInv, NEW d \in c.again, Rpc!MoveAgain(d) PROVE RpcInv'
<1>1. Rpc!Running /\ UNCHANGED <<down, known, home>>
  BY DEF Rpc!MoveAgain
<1>2. RpcStays(c, c', known, down, home, First, 0)
  BY <1>1, RunningSafe, MoveAgainStays DEF Rpc!MoveAgain, Safe
<1> QED BY <1>1, <1>2, LocalKeeps

LEMMA HandshakeDidFinishKeeps == ASSUME RpcInv, NEW d, Rpc!HandshakeDidFinish(d) PROVE RpcInv'
<1>1. Rpc!Running /\ UNCHANGED <<down, known, home>> /\ d \in c.linked
  BY DEF Rpc!HandshakeDidFinish
<1>2. Shape(c) /\ OnceIn(c) /\ d \in Dcs /\ RpcGood(c, known, down, home, First, 0, {})
  BY <1>1, RunningSafe DEF Safe
<1>3. RpcStays(c, c', known, down, home, First, 0)
  BY <1>2, HandshakeDidFinishStays DEF Rpc!HandshakeDidFinish
<1> QED BY <1>1, <1>3, LocalKeeps

(* A message is taken from the network thread.                             *)
LEMMA TakenFrom ==
    ASSUME RpcInv, Rpc!Running, NEW d \in Dcs, down[d] # <<>>, down' = [down EXCEPT ![d] = Tail(@)]
    PROVE  /\ MessageIs(Head(down[d]), home) /\ Head(down[d]) \in Rpc!ToSet(down[d])
           /\ Answers(known, down', home) /\ RpcGood(c, known, down', home, First, 0, {})
<1>1. Shape(c) /\ Answers(known, down, home) /\ RpcGood(c, known, down, home, First, 0, {})
  BY RunningSafe DEF Safe
<1>2. IsList(down[d]) /\ DOMAIN down = Dcs
  BY <1>1 DEF Answers
<1>3. /\ IsList(Tail(down[d])) /\ Rpc!ToSet(Tail(down[d])) \subseteq Rpc!ToSet(down[d])
      /\ Head(down[d]) \in Rpc!ToSet(down[d])
  BY <1>2, ShorterList
<1>4. DOMAIN down' = Dcs /\ \A e \in Dcs : down'[e] = IF e = d THEN Tail(down[d]) ELSE down[e]
  BY <1>2
<1>5. \A e \in Dcs : Rpc!ToSet(down'[e]) \subseteq Rpc!ToSet(down[e])
  BY <1>3, <1>4
<1>6. Answers(known, down', home)
  BY <1>1, <1>3, <1>4, <1>5 DEF Answers
<1>7. RpcGood(c, known, down', home, First, 0, {})
  <2>1. /\ Same(c, c, {"up"} \cup Unconcerned)
        /\ DOMAIN c.up = Dcs /\ \A e \in Dcs : Packed(c.up[e])
        /\ \A e \in Dcs : home = First /\ e # First => c.up[e] = <<>>
    BY <1>1 DEF Same, RpcGood, RpcTyped, Places
  <2>2. \A e \in Dcs : /\ \A k \in known[e] : OnTheWay(c.up, known, down, e, k.mid)
                       /\ \A g \in Rpc!ToSet(down'[e]) : g.kind = "result" => OnTheWay(c.up, known, down, e, g.mid)
    BY <1>5, KnownAndAnswered
  <2> QED BY <1>1, <2>1, <2>2, LessOf
<1> QED BY <1>1, <1>3, <1>6, <1>7 DEF Answers

(* What comes from the network: a message, and a connection.               *)
LEMMA RpcReceivedDataKeeps == ASSUME RpcInv, NEW d \in Dcs, Rpc!ReceivedData(d) PROVE RpcInv'
<1> DEFINE g == Head(down[d])
           t == [Rpc!ProcessMessage(c, d, g) EXCEPT !.processed[d] = @ \cup ({g.mid} \ {0})]
<1>1. /\ Rpc!Running /\ known' = known /\ home' = home /\ down[d] # <<>> /\ g.kind # "connected"
      /\ down' = [down EXCEPT ![d] = Tail(@)]
      /\ c' = IF Rpc!Ignored(d, g) THEN c ELSE t
  BY DEF Rpc!ReceivedData
<1>2. Shape(c) /\ OnceIn(c) /\ RpcGood(c, known, down, home, First, 0, {})
  BY <1>1, RunningSafe DEF Safe
<1>3. /\ MessageIs(g, home) /\ g \in Rpc!ToSet(down[d])
      /\ Answers(known, down', home) /\ RpcGood(c, known, down', home, First, 0, {})
  BY <1>1, TakenFrom
<1>4. ~Rpc!Ignored(d, g) => g.mid = 0 \/ g.mid \notin c.processed[d]
  BY DEF Rpc!Ignored
<1> HIDE DEF g
<1>5. ~Rpc!Ignored(d, g) => RpcStays(c, t, known, down', home, First, 0)
  BY <1>1, <1>2, <1>3, <1>4, ReceivedStays
<1>6. RpcStays(c, c, known, down', home, First, 0)
  BY <1>2, <1>3 DEF RpcStays
<1> HIDE DEF t
<1>7. RpcStays(c, c', known, down', home, First, 0)
  BY <1>1, <1>5, <1>6
<1> QED BY <1>1, <1>3, <1>7, StaysSafe

LEMMA RpcConnectedKeeps == ASSUME RpcInv, NEW d \in Dcs, Rpc!Connected(d) PROVE RpcInv'
<1> DEFINE t == Rpc!ProcessRequestQueue(c, TRUE, d)
<1>1. /\ Rpc!Running /\ known' = known /\ home' = home /\ down[d] # <<>>
      /\ down' = [down EXCEPT ![d] = Tail(@)]
      /\ c' = IF d \in c.keys THEN t ELSE c
  BY DEF Rpc!Connected
<1>2. Shape(c) /\ OnceIn(c)
  BY <1>1, RunningSafe
<1>3. Answers(known, down', home) /\ RpcGood(c, known, down', home, First, 0, {})
  BY <1>1, TakenFrom
<1>4. RpcStays(c, c, known, down', home, First, 0)
  BY <1>2, <1>3 DEF RpcStays
<1>5. RpcStays(c, t, known, down', home, First, 0)
  BY <1>4, ProcessStays
<1> HIDE DEF t
<1> QED BY <1>1, <1>3, <1>4, <1>5, StaysSafe

(* When the end of a move came twice, only the network and the servers go on. *)
LEMMA SpoiledKeeps ==
    ASSUME RpcInv, c.spoiled, Shape(c'), Grows(c, c') \/ Same(c, c', {"linked"})
    PROVE  RpcInv'
<1>1. c'.spoiled /\ Shape(c')
  BY DEF Grows, Same, FieldNames
<1>2. OnceIn(c')
  BY DEF RpcInv, Grows, OnceIn, Same, FieldNames
<1> QED BY <1>1, <1>2 DEF RpcInv

(* What the network and the servers do to the requests.                    *)
LEMMA OutsideKeeps ==
    ASSUME RpcInv, Shape(c'), Same(c, c', {"up"} \cup Unconcerned),
           ~c.spoiled => /\ c'.linked \subseteq Dcs /\ Answers(known', down', home) /\ home' = home
                         /\ DOMAIN c'.up = Dcs
                         /\ \A d \in Dcs : /\ Packed(c'.up[d]) /\ Rpc!ToSet(c'.up[d]) \subseteq Rpc!ToSet(c.up[d])
                                           /\ home = First /\ d # First => c'.up[d] = <<>>
                                           /\ \A k \in known'[d] : OnTheWay(c.up, known, down, d, k.mid)
                                           /\ \A g \in Rpc!ToSet(down'[d]) :
                                                 g.kind = "result" => OnTheWay(c.up, known, down, d, g.mid)
    PROVE  RpcInv'
<1>1. c'.ended = c.ended /\ c'.revived = c.revived /\ c'.spoiled = c.spoiled
  BY DEF Same, FieldNames, Unconcerned
<1>2. OnceIn(c')
  BY <1>1 DEF RpcInv, OnceIn
<1>3. ~c.spoiled => RpcGood(c', known', down', home', First, 0, {})
  <2> HAVE ~c.spoiled
  <2>1. RpcGood(c, known, down, home, First, 0, {})
    BY DEF RpcInv, Safe
  <2> QED BY <2>1, LessOf
<1> QED BY <1>1, <1>2, <1>3 DEF RpcInv, Safe

(* What the servers send.                                                  *)
LEMMA SendsIs ==
    ASSUME NEW d \in Dcs, NEW ms, NEW kn, Answers(kn, down, home), IsList(ms),
           \A g \in Rpc!ToSet(ms) : MessageIs(g, home), Rpc!Sends(d, ms),
           DOMAIN known' = Dcs, \A e \in Dcs \ {d} : known'[e] = kn[e],
           IsFiniteSet(known'[d]), home = First /\ d # First => known'[d] = {},
           \A k \in known'[d] : Entry(k, home)
    PROVE  /\ Answers(known', down', home)
           /\ \A e \in Dcs : Rpc!ToSet(down'[e]) \subseteq
                               Rpc!ToSet(down[e]) \cup (IF e = d THEN Rpc!ToSet(ms) ELSE {})
<1>1. DOMAIN down = Dcs /\ \A e \in Dcs : IsList(down[e]) /\ \A g \in Rpc!ToSet(down[e]) : MessageIs(g, home)
  BY DEF Answers
<1>2. /\ IsList(down[d] \o ms) /\ Rpc!ToSet(down[d] \o ms) = Rpc!ToSet(down[d]) \cup Rpc!ToSet(ms)
  BY <1>1, ListsJoined
<1>3. DOMAIN down' = Dcs /\ \A e \in Dcs : down'[e] = down[e] \/ (e = d /\ down'[e] = down[d] \o ms)
  BY <1>1 DEF Rpc!Sends
<1>4. \A e \in Dcs : /\ IsList(down'[e])
                     /\ Rpc!ToSet(down'[e]) \subseteq
                          Rpc!ToSet(down[e]) \cup (IF e = d THEN Rpc!ToSet(ms) ELSE {})
  BY <1>1, <1>2, <1>3
<1>5. \A e \in Dcs : \A g \in Rpc!ToSet(down'[e]) : MessageIs(g, home)
  BY <1>1, <1>4
<1>6. Answers(known', down', home)
  <2>1. \A e \in Dcs : /\ IsFiniteSet(known'[e]) /\ (home = First /\ e # First => known'[e] = {})
                       /\ \A k \in known'[e] : Entry(k, home)
    BY DEF Answers
  <2> QED BY <2>1, <1>3, <1>4, <1>5 DEF Answers
<1> QED BY <1>4, <1>6

(* The packets, unless the end of a move came twice.                       *)
LEMMA PacketsAre ==
    ASSUME RpcInv, ~c.spoiled
    PROVE  /\ DOMAIN c.up = Dcs /\ Answers(known, down, home) /\ c.linked \subseteq Dcs
           /\ \A d \in Dcs : /\ Packed(c.up[d]) /\ (home = First /\ d # First => c.up[d] = <<>>)
  BY DEF RpcInv, Safe, RpcGood, RpcTyped, Places

(* A packet is taken.                                                      *)
LEMMA PacketTaken ==
    ASSUME RpcInv, NEW d \in Dcs, c.up[d] # <<>>, c' = [c EXCEPT !.up[d] = Tail(@)]
    PROVE  /\ Shape(c') /\ Same(c, c', {"up"} \cup Unconcerned) /\ c'.linked = c.linked
           /\ ~c.spoiled => /\ DOMAIN c'.up = Dcs /\ Head(c.up[d]) \in Rpc!ToSet(c.up[d])
                            /\ \E n \in Nat : DOMAIN Head(c.up[d]).messages = 1 .. n
                            /\ \A e \in Dcs : /\ Packed(c'.up[e]) /\ Rpc!ToSet(c'.up[e]) \subseteq Rpc!ToSet(c.up[e])
                                              /\ home = First /\ e # First => c'.up[e] = <<>>
<1>1. Shape(c)
  BY DEF RpcInv
<1>2. Shape(c') /\ Same(c, c', {"up"}) /\ c'.up = [c.up EXCEPT ![d] = Tail(@)]
  BY <1>1 DEF Shape, FieldNames, Same
<1>3. Same(c, c', {"up"} \cup Unconcerned) /\ c'.linked = c.linked
  BY <1>2 DEF Same, FieldNames
<1>4. ASSUME ~c.spoiled
      PROVE  /\ DOMAIN c'.up = Dcs /\ Head(c.up[d]) \in Rpc!ToSet(c.up[d])
             /\ \E n \in Nat : DOMAIN Head(c.up[d]).messages = 1 .. n
             /\ \A e \in Dcs : /\ Packed(c'.up[e]) /\ Rpc!ToSet(c'.up[e]) \subseteq Rpc!ToSet(c.up[e])
                               /\ home = First /\ e # First => c'.up[e] = <<>>
  <2>1. /\ DOMAIN c.up = Dcs /\ \A e \in Dcs : Packed(c.up[e])
        /\ \A e \in Dcs : home = First /\ e # First => c.up[e] = <<>>
    BY <1>4, PacketsAre
  <2>2. /\ IsList(Tail(c.up[d])) /\ Rpc!ToSet(Tail(c.up[d])) \subseteq Rpc!ToSet(c.up[d])
        /\ Head(c.up[d]) \in Rpc!ToSet(c.up[d])
    BY <2>1, ShorterList DEF Packed
  <2>3. Packed(Tail(c.up[d])) /\ \E n \in Nat : DOMAIN Head(c.up[d]).messages = 1 .. n
    BY <2>1, <2>2 DEF Packed
  <2>4. DOMAIN c'.up = Dcs /\ \A e \in Dcs : c'.up[e] = IF e = d THEN Tail(c.up[d]) ELSE c.up[e]
    BY <1>2, <2>1
  <2>5. ~(home = First /\ d # First)
    BY <2>1
  <2> QED BY <2>1, <2>2, <2>3, <2>4, <2>5
<1> QED BY <1>2, <1>3, <1>4

(* A connection begins, or is lost with what is on its way.                *)
LEMMA ConnectKeeps == ASSUME RpcInv, NEW d \in Dcs, Rpc!Connect(d) PROVE RpcInv'
<1>1. /\ c' = [c EXCEPT !.linked = @ \cup {d}] /\ known' = known /\ home' = home
      /\ down' = [down EXCEPT ![d] = Append(@, [kind |-> "connected"])]
  BY DEF Rpc!Connect
<1>2. Shape(c') /\ Same(c, c', {"linked"}) /\ c'.linked = c.linked \cup {d}
  <2>1. Shape(c)
    BY DEF RpcInv
  <2> QED BY <2>1, <1>1 DEF Shape, FieldNames, Same
<1>3. Same(c, c', {"up"} \cup Unconcerned) /\ c'.up = c.up
  BY <1>2 DEF Same, FieldNames, Unconcerned
<1> SUFFICES ASSUME ~c.spoiled
             PROVE  /\ Answers(known', down', home)
                    /\ \A e \in Dcs : \A g \in Rpc!ToSet(down'[e]) :
                          g.kind = "result" => OnTheWay(c.up, known, down, e, g.mid)
  <2>1. ~c.spoiled => \A e \in Dcs : \A k \in known'[e] : OnTheWay(c.up, known, down, e, k.mid)
    BY <1>1, KnownAndAnswered
  <2> QED BY <2>1, <1>1, <1>2, <1>3, PacketsAre, OutsideKeeps
<1>4. Answers(known, down, home)
  BY PacketsAre
<1> DEFINE g0 == [kind |-> "connected"]
           longer == Append(down[d], g0)
<1>5. MessageIs(g0, home) /\ g0.kind # "result"
  BY DEF MessageIs
<1> HIDE DEF g0
<1>6. IsList(longer) /\ Rpc!ToSet(longer) = Rpc!ToSet(down[d]) \cup {g0}
  <2> DEFINE S == Rpc!ToSet(down[d]) \cup {g0}
  <2>1. down[d] \in Seq(S) /\ g0 \in S
    BY <1>4, SeqMonotonic DEF Answers, IsList
  <2> HIDE DEF S
  <2>2. longer \in Seq(S) /\ Rpc!ToSet(longer) = Rpc!ToSet(down[d]) \cup {g0}
    BY <2>1, OneAppended
  <2> QED BY <2>2, ListOf
<1>7. DOMAIN down' = Dcs /\ \A e \in Dcs : down'[e] = IF e = d THEN longer ELSE down[e]
  BY <1>1, <1>4 DEF Answers, g0
<1> HIDE DEF longer
<1>8. Answers(known', down', home)
  BY <1>1, <1>4, <1>5, <1>6, <1>7 DEF Answers
<1>9. \A e \in Dcs : \A g \in Rpc!ToSet(down'[e]) : g.kind = "result" => g \in Rpc!ToSet(down[e])
  BY <1>5, <1>6, <1>7
<1> QED BY <1>8, <1>9, KnownAndAnswered

LEMMA LoseKeepsRpc == ASSUME RpcInv, NEW d \in Dcs, Rpc!Lose(d) PROVE RpcInv'
<1> DEFINE u == Rpc!Unlink(c, d)
<1>1. /\ home' = home /\ c' = [u EXCEPT !.wanted = IF d \in {c.current, c.moving} THEN @ ELSE @ \ {d}]
      /\ \E n \in 0 .. Len(down[d]) : down' = [down EXCEPT ![d] = SubSeq(@, 1, n)]
      /\ \E forgets \in BOOLEAN : known' = IF forgets THEN [known EXCEPT ![d] = {}] ELSE known
  BY DEF Rpc!Lose
<1>2. Shape(u) /\ Grows(c, u)
  BY UnlinkIs DEF RpcInv
<1>3. ~c.spoiled => RpcGood(u, known, down, home, First, 0, {})
  BY UnlinkGood DEF RpcInv, Safe
<1> HIDE DEF u
<1>4. Shape(c') /\ Same(u, c', {"wanted"})
  BY <1>1, <1>2 DEF Shape, FieldNames, Same
<1>5. Grows(c, c') /\ c'.linked = u.linked
  <2>1. Grows(u, c')
    BY <1>4, GrowsByFields
  <2>2. c'.linked = u.linked
    BY <1>4 DEF Same, FieldNames
  <2> QED BY <2>1, <2>2, <1>2, GrowsOn
<1>6. CASE c.spoiled
  BY <1>4, <1>5, <1>6, SpoiledKeeps
<1>7. CASE ~c.spoiled
  <2>1. Answers(known, down, home) /\ c.linked \subseteq Dcs
    BY <1>7, PacketsAre
  <2>2. PICK n \in 0 .. Len(down[d]) : down' = [down EXCEPT ![d] = SubSeq(@, 1, n)]
    BY <1>1
  <2>3. IsList(SubSeq(down[d], 1, n)) /\ Rpc!ToSet(SubSeq(down[d], 1, n)) \subseteq Rpc!ToSet(down[d])
    BY <2>1, ListBegins DEF Answers
  <2>4. DOMAIN down' = Dcs /\ \A e \in Dcs : down'[e] = IF e = d THEN SubSeq(down[d], 1, n) ELSE down[e]
    BY <2>1, <2>2 DEF Answers
  <2>5. DOMAIN known' = Dcs /\ \A e \in Dcs : known'[e] = known[e] \/ known'[e] = {}
    BY <1>1, <2>1 DEF Answers
  <2>6. \A e \in Dcs : /\ IsList(down'[e]) /\ Rpc!ToSet(down'[e]) \subseteq Rpc!ToSet(down[e])
                       /\ known'[e] \subseteq known[e]
    BY <2>1, <2>3, <2>4, <2>5 DEF Answers
  <2>7. Answers(known', down', home)
    BY <2>1, <2>4, <2>5, <2>6, FS_EmptySet DEF Answers
  <2>8. Same(u, c', {"up"} \cup Unconcerned) /\ c'.up = u.up
    BY <1>4 DEF Same, FieldNames, Unconcerned
  <2>9. /\ DOMAIN u.up = Dcs
        /\ \A e \in Dcs : Packed(u.up[e]) /\ (home = First /\ e # First => u.up[e] = <<>>)
    BY <1>3, <1>7 DEF RpcGood, RpcTyped, Places
  <2>10. \A e \in Dcs : /\ \A k \in known'[e] : OnTheWay(u.up, known, down, e, k.mid)
                        /\ \A g \in Rpc!ToSet(down'[e]) : g.kind = "result" => OnTheWay(u.up, known, down, e, g.mid)
    BY <2>6, KnownAndAnswered
  <2>11. RpcGood(c', known', down', home, First, 0, {})
    BY <1>3, <1>7, <2>8, <2>9, <2>10, LessOf
  <2>12. OnceIn(c') /\ c'.linked \subseteq Dcs
    BY <1>5, <2>1, GrowsOnce DEF RpcInv, Grows
  <2> QED BY <1>1, <1>4, <2>7, <2>11, <2>12 DEF RpcInv, Safe
<1> QED BY <1>6, <1>7

(* The answer to an entry.                                                 *)
LEMMA AnswerIs ==
    ASSUME NEW k, NEW h, Entry(k, h), NEW up, NEW dn, NEW kn, NEW d, k \in kn[d]
    PROVE  /\ MessageIs(Rpc!Answer(k), h) \/ k.mid \notin Nat
           /\ OnTheWay(up, kn, dn, d, Rpc!Answer(k).mid)
<1>1. Rpc!Answer(k).kind = "result" /\ Rpc!Answer(k).mid = k.mid /\ Rpc!Answer(k).what = k.what
  BY DEF Rpc!Answer
<1> QED BY <1>1, KnownAndAnswered DEF MessageIs, Entry

(* The ids on their way.                                                   *)
LEMMA KnownNumbered ==
    ASSUME RpcInv, ~c.spoiled, NEW d \in Dcs, NEW i, OnTheWay(c.up, known, down, d, i)
    PROVE  i \in Nat /\ i # 0
  BY DEF RpcInv, Safe, RpcGood, Numbers

(* The server takes a packet, or refuses it.                               *)
LEMMA ServerTakesKeeps == ASSUME RpcInv, NEW d \in Dcs, Rpc!ServerTakes(d) PROVE RpcInv'
<1> DEFINE p == Head(c.up[d])
           ids == {p.messages[i].mid : i \in DOMAIN p.messages}
           seen == {k \in known[d] : k.session = p.session}
           again == {k \in seen : k.mid \in ids /\ k.what # "none"}
           fresh == {i \in DOMAIN p.messages : /\ Rpc!NeedsAnswer(p.messages[i].req)
                                             /\ \A k \in seen : k.mid # p.messages[i].mid}
           g0 == [kind |-> "new", session |-> p.session, mid |-> 0, first |-> Rpc!Min(ids)]
           new == IF p.session \in open[d] THEN <<>> ELSE <<g0>>
           R(i) == [session |-> p.session, mid |-> p.messages[i].mid, req |-> p.messages[i].req,
                    after |-> p.messages[i].after, what |-> "none"]
           added == {R(i) : i \in fresh}
           answers == {Rpc!Answer(k) : k \in again}
           ms == new \o Rpc!SetToSeq(answers)
<1>1. /\ c' = [c EXCEPT !.up[d] = Tail(@)] /\ home' = home /\ c.up[d] # <<>>
      /\ known' = [known EXCEPT ![d] = @ \cup added]
      /\ Rpc!Sends(d, ms)
  BY DEF Rpc!ServerTakes
<1>2. /\ Shape(c') /\ Same(c, c', {"up"} \cup Unconcerned) /\ c'.linked = c.linked
      /\ ~c.spoiled => /\ DOMAIN c'.up = Dcs /\ p \in Rpc!ToSet(c.up[d])
                       /\ \E n \in Nat : DOMAIN p.messages = 1 .. n
                       /\ \A e \in Dcs : /\ Packed(c'.up[e]) /\ Rpc!ToSet(c'.up[e]) \subseteq Rpc!ToSet(c.up[e])
                                         /\ home = First /\ e # First => c'.up[e] = <<>>
  BY <1>1, PacketTaken
<1>3. fresh \subseteq DOMAIN p.messages /\ again \subseteq known[d]
  OBVIOUS
<1>4. g0.kind = "new" /\ g0.mid = 0
  OBVIOUS
<1>5. \A i : /\ R(i) = [f \in Entries |-> R(i)[f]] /\ R(i).what = "none" /\ R(i).mid = p.messages[i].mid
  BY DEF Entries
<1> HIDE DEF p, fresh, again, g0, R
<1> SUFFICES ASSUME ~c.spoiled
             PROVE  /\ Answers(known', down', home)
                    /\ \A e \in Dcs : /\ \A k \in known'[e] : OnTheWay(c.up, known, down, e, k.mid)
                                      /\ \A g \in Rpc!ToSet(down'[e]) :
                                            g.kind = "result" => OnTheWay(c.up, known, down, e, g.mid)
  BY <1>1, <1>2, PacketsAre, OutsideKeeps
<1>6. Answers(known, down, home)
  BY PacketsAre
<1>7. \A k \in known[d] : Entry(k, home) /\ OnTheWay(c.up, known, down, d, k.mid)
  BY <1>6, KnownAndAnswered DEF Answers
<1>8. \A k \in added : Entry(k, home) /\ OnTheWay(c.up, known, down, d, k.mid)
  <2> TAKE k \in added
  <2>1. PICK i \in fresh : k = R(i)
    OBVIOUS
  <2>2. OnTheWay(c.up, known, down, d, p.messages[i].mid)
    BY <1>2, <1>3, <2>1 DEF OnTheWay
  <2> QED BY <2>1, <2>2, <1>5 DEF Entry, AnswerTo, Rpc!Outcomes
<1>9. \A g \in answers : MessageIs(g, home) /\ OnTheWay(c.up, known, down, d, g.mid)
  <2> TAKE g \in answers
  <2>1. PICK k \in again : g = Rpc!Answer(k)
    OBVIOUS
  <2>2. Entry(k, home) /\ k \in known[d] /\ k.mid \in Nat
    BY <1>3, <1>7, <2>1, KnownNumbered
  <2> QED BY <2>1, <2>2, AnswerIs
<1>10. IsFiniteSet(known[d]) /\ DOMAIN known = Dcs /\ (home = First /\ d # First => known[d] = {})
  BY <1>6 DEF Answers
<1>11. IsFiniteSet(added)
  <2>1. PICK n \in Nat : DOMAIN p.messages = 1 .. n
    BY <1>2
  <2>2. IsFiniteSet(fresh)
    BY <2>1, <1>3, FS_Interval, FS_Subset
  <2> DEFINE f == [i \in fresh |-> R(i)]
  <2>3. DOMAIN f = fresh /\ added = {f[i] : i \in fresh}
    OBVIOUS
  <2> HIDE DEF f, added
  <2> QED BY <2>2, <2>3, ImageFinite
<1>12. IsFiniteSet(answers)
  <2>1. IsFiniteSet(again)
    BY <1>3, <1>10, FS_Subset
  <2> DEFINE f == [k \in again |-> Rpc!Answer(k)]
  <2>2. DOMAIN f = again /\ answers = {f[k] : k \in again}
    OBVIOUS
  <2> HIDE DEF f, answers
  <2> QED BY <2>1, <2>2, ImageFinite
<1>13. /\ IsList(Rpc!SetToSeq(answers)) /\ Rpc!ToSet(Rpc!SetToSeq(answers)) \subseteq answers
  BY <1>12, SetListed
<1>14. IsList(new) /\ Rpc!ToSet(new) \subseteq {g0}
  BY OneListed
<1>15. IsList(ms) /\ Rpc!ToSet(ms) \subseteq answers \cup {g0}
  BY <1>13, <1>14, ListsJoined
<1>16. MessageIs(g0, home) /\ g0.kind # "result"
  BY <1>4 DEF MessageIs
<1> HIDE DEF ms, answers, added
<1>17. \A g \in Rpc!ToSet(ms) : MessageIs(g, home)
  BY <1>9, <1>15, <1>16
<1>18. /\ DOMAIN known' = Dcs /\ \A e \in Dcs \ {d} : known'[e] = known[e]
       /\ known'[d] = known[d] \cup added
  BY <1>1, <1>10
<1>19. IsFiniteSet(known'[d])
  BY <1>10, <1>11, <1>18, FS_Union
<1>20. home = First => d = First
  BY <1>1, PacketsAre
<1>21. \A k \in known'[d] : Entry(k, home) /\ OnTheWay(c.up, known, down, d, k.mid)
  BY <1>7, <1>8, <1>18
<1>22. /\ Answers(known', down', home)
       /\ \A e \in Dcs : Rpc!ToSet(down'[e]) \subseteq
                           Rpc!ToSet(down[e]) \cup (IF e = d THEN Rpc!ToSet(ms) ELSE {})
  BY <1>1, <1>6, <1>15, <1>17, <1>18, <1>19, <1>20, <1>21, SendsIs
<1>23. \A e \in Dcs : \A k \in known'[e] : OnTheWay(c.up, known, down, e, k.mid)
  BY <1>18, <1>21, KnownAndAnswered
<1>24. \A e \in Dcs : \A g \in Rpc!ToSet(down'[e]) : g.kind = "result" => OnTheWay(c.up, known, down, e, g.mid)
  BY <1>9, <1>15, <1>16, <1>22, KnownAndAnswered
<1> QED BY <1>22, <1>23, <1>24

LEMMA ServerRefusesKeeps == ASSUME RpcInv, NEW d \in Dcs, Rpc!ServerRefuses(d) PROVE RpcInv'
<1>1. /\ c' = [c EXCEPT !.up[d] = Tail(@)] /\ known' = known /\ home' = home /\ c.up[d] # <<>>
  BY DEF Rpc!ServerRefuses
<1>2. PICK kind \in {"bad", "salt"} :
         Rpc!Sends(d, <<[kind |-> kind, session |-> Head(c.up[d]).session, mid |-> 0]>>)
  BY DEF Rpc!ServerRefuses
<1> DEFINE g0 == [kind |-> kind, session |-> Head(c.up[d]).session, mid |-> 0]
<1>3. /\ Shape(c') /\ Same(c, c', {"up"} \cup Unconcerned) /\ c'.linked = c.linked
      /\ ~c.spoiled => /\ DOMAIN c'.up = Dcs
                       /\ \A e \in Dcs : /\ Packed(c'.up[e]) /\ Rpc!ToSet(c'.up[e]) \subseteq Rpc!ToSet(c.up[e])
                                         /\ home = First /\ e # First => c'.up[e] = <<>>
  BY <1>1, PacketTaken
<1>4. g0.kind = kind /\ g0.mid = 0
  OBVIOUS
<1> HIDE DEF g0
<1>5. MessageIs(g0, home) /\ g0.kind # "result"
  BY <1>4 DEF MessageIs
<1> SUFFICES ASSUME ~c.spoiled
             PROVE  /\ Answers(known', down', home)
                    /\ \A e \in Dcs : /\ \A k \in known'[e] : OnTheWay(c.up, known, down, e, k.mid)
                                      /\ \A g \in Rpc!ToSet(down'[e]) :
                                            g.kind = "result" => OnTheWay(c.up, known, down, e, g.mid)
  BY <1>1, <1>3, PacketsAre, OutsideKeeps
<1>6. Answers(known, down, home)
  BY PacketsAre
<1>7. Rpc!Sends(d, <<g0>>) /\ IsList(<<g0>>) /\ Rpc!ToSet(<<g0>>) = {g0}
  BY <1>2, OneListed DEF g0
<1>8. /\ DOMAIN known' = Dcs /\ \A e \in Dcs \ {d} : known'[e] = known[e]
      /\ IsFiniteSet(known'[d]) /\ (home = First /\ d # First => known'[d] = {})
      /\ \A k \in known'[d] : Entry(k, home)
  BY <1>1, <1>6 DEF Answers
<1>9. /\ Answers(known', down', home)
      /\ \A e \in Dcs : Rpc!ToSet(down'[e]) \subseteq
                          Rpc!ToSet(down[e]) \cup (IF e = d THEN {g0} ELSE {})
  <2> DEFINE ms == <<g0>>
  <2>1. Rpc!Sends(d, ms) /\ IsList(ms) /\ Rpc!ToSet(ms) = {g0}
    BY <1>7
  <2> HIDE DEF ms
  <2>2. \A g \in Rpc!ToSet(ms) : MessageIs(g, home)
    BY <2>1, <1>5
  <2> QED BY <2>1, <2>2, <1>6, <1>8, SendsIs
<1> QED BY <1>1, <1>5, <1>9, KnownAndAnswered

(* The server answers.                                                     *)
LEMMA ServerAnswersRpcKeeps ==
    ASSUME RpcInv, NEW d \in Dcs, NEW k \in known[d], Rpc!ServerAnswers(d, k) PROVE RpcInv'
<1>1. c' = c /\ home' = home
  BY DEF Rpc!ServerAnswers
<1>2. \E w : /\ w \in Rpc!Outcomes \/ (w = home /\ home # d)
             /\ known' = [known EXCEPT ![d] = (@ \ {k}) \cup {[k EXCEPT !.what = w]}]
             /\ Rpc!Sends(d, <<Rpc!Answer([k EXCEPT !.what = w])>>)
  <2>1. "ok" \in Rpc!Outcomes /\ \A w \in {"error", "500", "420"} : w \in Rpc!Outcomes
    BY DEF Rpc!Outcomes
  <2> QED BY <2>1 DEF Rpc!ServerAnswers
<1>3. Shape(c') /\ Same(c, c', {"up"} \cup Unconcerned)
  BY <1>1 DEF RpcInv, Same
<1> SUFFICES ASSUME ~c.spoiled
             PROVE  /\ Answers(known', down', home)
                    /\ \A e \in Dcs : /\ \A y \in known'[e] : OnTheWay(c.up, known, down, e, y.mid)
                                      /\ \A g \in Rpc!ToSet(down'[e]) :
                                            g.kind = "result" => OnTheWay(c.up, known, down, e, g.mid)
  BY <1>1, <1>3, PacketsAre, OutsideKeeps
<1>4. Answers(known, down, home)
  BY PacketsAre
<1>5. /\ DOMAIN known = Dcs /\ IsFiniteSet(known[d]) /\ (home = First /\ d # First => known[d] = {})
      /\ Entry(k, home)
  BY <1>4 DEF Answers
<1>6. PICK w : /\ w \in Rpc!Outcomes \/ (w = home /\ home # d)
               /\ known' = [known EXCEPT ![d] = (@ \ {k}) \cup {[k EXCEPT !.what = w]}]
               /\ Rpc!Sends(d, <<Rpc!Answer([k EXCEPT !.what = w])>>)
  BY <1>2
<1> DEFINE j == [k EXCEPT !.what = w]
           a == Rpc!Answer(j)
<1>7. AnswerTo(w, home)
  BY <1>5, <1>6 DEF AnswerTo
<1>8. Entry(j, home) /\ j.mid = k.mid
  <2>1. k = [f \in Entries |-> k[f]]
    BY <1>5 DEF Entry
  <2>2. j = [f \in Entries |-> IF f = "what" THEN w ELSE k[f]]
    BY <2>1 DEF Entries
  <2> HIDE DEF j
  <2>3. j = [f \in Entries |-> j[f]] /\ j.what = w /\ j.mid = k.mid
    BY <2>2 DEF Entries
  <2> QED BY <2>3, <1>7 DEF Entry
<1>9. OnTheWay(c.up, known, down, d, k.mid)
  BY KnownAndAnswered
<1>10. a.kind = "result" /\ a.mid = k.mid /\ a.what = j.what
  BY <1>8 DEF Rpc!Answer
<1>11. Rpc!Sends(d, <<a>>) /\ known' = [known EXCEPT ![d] = (@ \ {k}) \cup {j}]
  BY <1>6
<1> HIDE DEF a, j
<1>12. MessageIs(a, home)
  BY <1>8, <1>9, <1>10, KnownNumbered DEF MessageIs, Entry
<1>13. /\ DOMAIN known' = Dcs /\ \A e \in Dcs \ {d} : known'[e] = known[e]
       /\ known'[d] = (known[d] \ {k}) \cup {j}
  BY <1>5, <1>11
<1>14. /\ IsFiniteSet(known'[d]) /\ (home = First /\ d # First => known'[d] = {})
       /\ \A y \in known'[d] : Entry(y, home)
  <2>1. IsFiniteSet(known'[d])
    <3> DEFINE K == known[d] \ {k}
    <3>1. IsFiniteSet(K)
      BY <1>5, FS_RemoveElement
    <3>2. known'[d] = K \cup {j}
      BY <1>13
    <3> HIDE DEF K
    <3>3. IsFiniteSet(K \cup {j})
      BY <3>1, FS_AddElement
    <3> QED BY <3>2, <3>3
  <2>2. ~(home = First /\ d # First)
    BY <1>5
  <2>3. \A y \in known[d] : Entry(y, home)
    BY <1>4 DEF Answers
  <2> QED BY <2>1, <2>2, <2>3, <1>8, <1>13
<1>15. /\ Answers(known', down', home)
       /\ \A e \in Dcs : Rpc!ToSet(down'[e]) \subseteq
                           Rpc!ToSet(down[e]) \cup (IF e = d THEN {a} ELSE {})
  <2> DEFINE ms == <<a>>
  <2>1. Rpc!Sends(d, ms) /\ IsList(ms) /\ Rpc!ToSet(ms) = {a}
    BY <1>11, OneListed
  <2> HIDE DEF ms
  <2>2. \A g \in Rpc!ToSet(ms) : MessageIs(g, home)
    BY <2>1, <1>12
  <2> QED BY <2>1, <2>2, <1>4, <1>13, <1>14, SendsIs
<1>16. \A e \in Dcs : \A y \in known'[e] : OnTheWay(c.up, known, down, e, y.mid)
  BY <1>8, <1>9, <1>13, KnownAndAnswered
<1>17. \A e \in Dcs : \A g \in Rpc!ToSet(down'[e]) : g.kind = "result" => OnTheWay(c.up, known, down, e, g.mid)
  BY <1>9, <1>10, <1>15, KnownAndAnswered
<1> QED BY <1>15, <1>16, <1>17

(* The account moves to another datacenter.                                *)
LEMMA AccountMovesKeeps == ASSUME RpcInv, NEW d \in Dcs, Rpc!AccountMoves(d) PROVE RpcInv'
<1>1. home = First /\ d # First /\ home' = d /\ c' = c /\ down' = down /\ known' = known
  BY DEF Rpc!AccountMoves
<1> SUFFICES ASSUME ~c.spoiled
             PROVE  Answers(known, down, d) /\ RpcGood(c, known, down, d, First, 0, {})
  BY <1>1 DEF RpcInv, Safe
<1>2. Answers(known, down, First) /\ RpcGood(c, known, down, First, First, 0, {})
  BY <1>1 DEF RpcInv, Safe
<1>3. Answers(known, down, d)
  <2>1. \A w : AnswerTo(w, First) => AnswerTo(w, d)
    BY DEF AnswerTo
  <2>2. \A y : Entry(y, First) => Entry(y, d)
    BY <2>1 DEF Entry
  <2>3. \A g : MessageIs(g, First) => MessageIs(g, d)
    BY <2>1 DEF MessageIs
  <2>4. /\ DOMAIN known = Dcs /\ DOMAIN down = Dcs
        /\ \A e \in Dcs : /\ IsFiniteSet(known[e]) /\ IsList(down[e])
                          /\ \A y \in known[e] : Entry(y, First)
                          /\ \A g \in Rpc!ToSet(down[e]) : MessageIs(g, First)
    BY <1>2 DEF Answers
  <2>5. \A e \in Dcs : /\ \A y \in known[e] : Entry(y, d)
                       /\ \A g \in Rpc!ToSet(down[e]) : MessageIs(g, d)
    BY <2>2, <2>3, <2>4
  <2> QED BY <2>4, <2>5, <1>1 DEF Answers
<1>4. /\ c.moving = None /\ c.again = {} /\ c.current = First
      /\ \A r \in DOMAIN c.req : c.req[r].dc = None
      /\ \A n \in DOMAIN c.posted : c.posted[n].dc = None
  BY <1>2 DEF RpcGood, Places
<1>5. Moves(c) = {} /\ Unfinished(c, {}) = {} /\ PostedMoves(c) = {}
  <2>1. None \notin Dcs
    BY RpcAssumption DEF Rpc!DcsAssumption
  <2>2. Moves(c) = {}
    BY <2>1, <1>2, <1>4 DEF RpcGood, Listed, Moves
  <2>3. PostedMoves(c) = {}
    BY <2>1, <1>2, <1>4 DEF RpcGood, OneMove, PostedMoves
  <2> QED BY <2>2, <2>3 DEF Unfinished
<1>6. Places(c, d)
  BY <1>1, <1>4 DEF Places
<1>7. OneMove(c, d, {})
  BY <1>5 DEF OneMove
<1>8. Settled(c, d, First, 0)
  <2>1. \A r \in DOMAIN c.req : ~IsMove(r)
    BY <1>5 DEF Moves
  <2> QED BY <2>1, <1>2 DEF RpcGood, Settled
<1> QED BY <1>2, <1>3, <1>6, <1>7, <1>8 DEF RpcGood

(* Every step preserves it.                                                *)
LEMMA RpcKeeps == RpcInv /\ [Rpc!Next]_rpc => RpcInv'
<1> SUFFICES ASSUME RpcInv, [Rpc!Next]_rpc PROVE RpcInv'
  OBVIOUS
<1>1. CASE UNCHANGED rpc
  <2>1. c' = c /\ known' = known /\ down' = down /\ home' = home
    BY <1>1 DEF rpc
  <2> QED BY <2>1 DEF RpcInv
<1>2. CASE Rpc!PerformPosted \/ Rpc!Timer \/ Rpc!RpcCompleted
  BY <1>2, PerformPostedKeeps, TimerKeeps, RpcCompletedKeeps
<1>3. CASE \E r \in Rpc!ToSet(c.running) : Rpc!Age(r)
  BY <1>3, AgeKeeps
<1>4. CASE \E d \in c.again : Rpc!MoveAgain(d)
  BY <1>4, MoveAgainKeeps
<1>5. CASE \E d \in c.handshakes : Rpc!HandshakeDidFinish(d)
  BY <1>5, HandshakeDidFinishKeeps
<1>6. ASSUME NEW d \in Dcs,
             \/ Rpc!ReceivedData(d) \/ Rpc!Connected(d) \/ Rpc!Connect(d) \/ Rpc!ServerTakes(d)
             \/ \E k \in known[d] : Rpc!ServerAnswers(d, k)
      PROVE  RpcInv'
  BY <1>6, RpcReceivedDataKeeps, RpcConnectedKeeps, ConnectKeeps, ServerTakesKeeps, ServerAnswersRpcKeeps
<1>7. CASE Rpc!Progress
  BY <1>2, <1>3, <1>4, <1>5, <1>6, <1>7 DEF Rpc!Progress
<1>8. ASSUME NEW r \in Requests, Rpc!Perform(r) \/ Rpc!CancelRpc(r)
      PROVE  RpcInv'
  BY <1>8, PerformKeeps, CancelRpcKeeps
<1>9. ASSUME NEW d \in Dcs, Rpc!Lose(d) \/ Rpc!ServerRefuses(d) \/ Rpc!AccountMoves(d)
      PROVE  RpcInv'
  BY <1>9, LoseKeepsRpc, ServerRefusesKeeps, AccountMovesKeeps
<1> QED BY <1>1, <1>7, <1>8, <1>9 DEF Rpc!Next

(* RpcInv holds always.                                                    *)
LEMMA RpcInvHolds == Init /\ [][Next]_vars => []RpcInv
<1>1. Init => RpcInv
  BY RpcInitHolds DEF Init
<1>2. RpcInv /\ [Next]_vars => RpcInv'
  <2> SUFFICES ASSUME RpcInv, [Next]_vars PROVE RpcInv'
    OBVIOUS
  <2>1. [Rpc!Next]_rpc
    BY DEF Next, vars, OnlyHandshake, OnlyRpc
  <2> QED BY <2>1, RpcKeeps
<1> QED BY <1>1, <1>2, PTL

(* Once, for all requests and datacenters: the callback of an RPC is       *)
(* called once at most, and not after it was cancelled, however answers    *)
(* are lost, repeated or late, and whatever trouble has requests sent      *)
(* again (processMessage, performRpcInternal, cancelRpc,                   *)
(* clearRequestsForRequestClass). As Once says, left out are the requests  *)
(* that were cleared between their answer and the runnable of              *)
(* rpcCompleted.                                                           *)
THEOREM CallbacksOnce == Init /\ [][Next]_vars => []Once
<1>1. RpcInv => Once
  BY DEF RpcInv, OnceIn, Once, Rpc!Once
<1> QED BY <1>1, RpcInvHolds, PTL

(* CurrentKnown, for all requests and datacenters: however the answers     *)
(* that begin, carry on and end a move come, currentDatacenterId is one of *)
(* the datacenters (moveToDatacenter, authorizedOnMovingDatacenter),       *)
(* unless a move ended twice.                                              *)
THEOREM AlwaysADatacenter == Init /\ [][Next]_vars => []CurrentKnown
<1>1. RpcInv => CurrentKnown
  BY RpcAssumption DEF RpcInv, Safe, RpcGood, Places, CurrentKnown, Rpc!CurrentKnown, Rpc!DcsAssumption
<1> QED BY <1>1, RpcInvHolds, PTL
=============================================================================
